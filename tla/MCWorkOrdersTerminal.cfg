SPECIFICATION Spec
CONSTANTS
    dealer = dealer
    hq = hq
    coordinator = coordinator
    tech1 = tech1
    tech2 = tech2
    customer = customer
    north = north

    NoTechnician = NoTechnician
    NoUser = NoUser
    NoOrder = NoOrder
    NoDepartment = NoDepartment
    Users = {dealer, coordinator, tech1, tech2, customer}
    Orders = {o1}
    Slots = {s1, s2}
    Departments = {north}
    Role <- MCRole
    DepartmentOf <- MCDepartmentOf
    MaxHistory = 6
    MaxCrashes = 0
CHECK_DEADLOCK FALSE
PROPERTY TerminalIsFinal
