SPECIFICATION FairSpec
CONSTANTS
    Clients = {c1, c2}
    Leavers = {c1, c2}
    Messages = {"cmd", "exit"}
    NFds = 2
    NSlots = 3
    Threads = {t1, t2}
    None = None
    MaxSent = 2
CHECK_DEADLOCK FALSE
INVARIANTS
    TypeOK
    OneHandler
    DistinctFds
    OwnConnection
PROPERTY
    ServedByEnough
