SPECIFICATION Spec
CONSTANTS
    t1 = t1
    c1 = c1
    c2 = c2
    i1 = i1
    i2 = i2
    WriteTime = 6
    MinInterval = 2
    MaxDrops = 2
    DropWindow = 2
    Ban = 2
    Technicians = {t1}
    Connections = {c1}
    Holder <- HolderOf
    Instances = {i1}
    TTL = 4
    CloseTimeout = 1
    Start = 2
    MaxTime = 6
CHECK_DEADLOCK FALSE
PROPERTY LastLocationAdvances
