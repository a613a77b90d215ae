SPECIFICATION FairSpec
CONSTANTS
    Clients = {c1, c2, c3}
    Leavers = {}
    Messages = {"cmd"}
    NFds = 3
    NSlots = 3
    Threads = {t1}
    None = None
    MaxSent = 2
CHECK_DEADLOCK FALSE
PROPERTY OnlyHeldUp
