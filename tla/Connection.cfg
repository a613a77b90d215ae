SPECIFICATION FairSpec
CONSTANTS
    TCP_BUF_SIZE = 12
    HEADER = 2
    Lengths = {1, 4}
    ReplyLengths = {4}
    Windows = {1, 2}
    KERNEL = 8
    MaxSent = 3
INVARIANTS TypeOK IndicesFit HandledAsSent RepliesIntact
PROPERTIES AllHandled Answered
CHECK_DEADLOCK FALSE
