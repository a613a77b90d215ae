SPECIFICATION Spec
CONSTANTS
    Files = {f1, f2}
    Byte = {100, 101, 102, 103, 104, 105}
    Old = 100
    SbByte = 105
    BSIZE = 2
    NDIRECT = 1
    Disks = {9, 24}
    WORD = 1024
    Strings <- MCStrings
    Positions <- MCPositions
    Lengths <- MCLengths
    MaxCommands = 4
CHECK_DEADLOCK FALSE
INVARIANTS
    TypeOK
    BlocksExclusive
    BitmapExact
    FileHoldsContent
    SuperblockKept
    NoHoles
