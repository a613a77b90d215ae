SPECIFICATION FairSpec
CONSTANTS
    Clients = {c1, c2}
    Leavers = {c1}
    Messages = {"cmd"}
    NFds = 2
    NSlots = 3
    Threads = {t1}
    None = None
    MaxSent = 2
CHECK_DEADLOCK FALSE
PROPERTY StayersServed
