SPECIFICATION FairSerialSpec
CONSTANTS
    dealer = dealer
    hq = hq
    coordinator = coordinator
    tech1 = tech1
    tech2 = tech2
    customer = customer
    north = north

    NoTechnician = NoTechnician
    NoUser = NoUser
    NoOrder = NoOrder
    NoDepartment = NoDepartment
    Users = {dealer, hq, coordinator, tech1, tech2, customer}
    Orders = {o1}
    Slots = {s1}
    Departments = {north}
    Role <- MCRole
    DepartmentOf <- MCDepartmentOf
    MaxHistory = 8
    MaxCrashes = 1
CHECK_DEADLOCK FALSE
INVARIANTS
    HeldWhileUnderWay
PROPERTIES
    StrictLifecycle
    EveryTransitionReported
