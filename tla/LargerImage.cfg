SPECIFICATION Spec
CONSTANTS
    Ncyl = 2
    Nsec = 2
    BSIZE = 2
    Byte <- MCByte
    Zero = "0"
    Space <- MCSpace
    NL = "nl"
    CACHE_CAPACITY = 2
    Data <- MCData
    BlockNos <- MCBlockNos
    SbSizes <- MCLargerSbSizes
    MaxPending = 2
INVARIANTS
    CleanMatchesDisk
