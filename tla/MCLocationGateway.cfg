SPECIFICATION MCSpec
CONSTANTS
    tech = tech
    hq = hq
    customer = customer
    dealer = dealer
    HQRoom = HQRoom
    Clients = {tech, hq, customer, dealer}
    RoleOf <- MCRoleOf
    OrderRooms = {r1}
CHECK_DEADLOCK FALSE
INVARIANTS
    MapsAgree
    OpenMeansKnown
    GoneUnlessRaced
PROPERTIES
    EventuallyForgotten
    OneRelation
