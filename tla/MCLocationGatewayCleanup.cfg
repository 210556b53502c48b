SPECIFICATION FairSpec
CONSTANTS
    tech = tech
    hq = hq
    customer = customer
    dealer = dealer
    HQRoom = HQRoom
    Clients = {tech, customer}
    RoleOf <- MCRoleOf
    OrderRooms = {r1}
CHECK_DEADLOCK FALSE
INVARIANT RoomsCleanedUp
