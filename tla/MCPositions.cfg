SPECIFICATION MCSpec
CONSTANTS
    t1 = t1
    c1 = c1
    c2 = c2
    i1 = i1
    i2 = i2
    WriteTime = 4
    MinInterval = 2
    MaxDrops = 3
    DropWindow = 4
    Ban = 4
    Technicians = {t1}
    Connections = {c1, c2}
    Holder <- HolderOf
    Instances = {i1, i2}
    TTL = 2
    CloseTimeout = 1
    Start = 2
    MaxTime = 12
CHECK_DEADLOCK FALSE
INVARIANTS
    AcceptedApart
    BanNeedsDrops
    DropsHaveCause
PROPERTY StepsBackHaveCause
SYMMETRY Symmetry
