SPECIFICATION Spec
CONSTANTS
    Files = {f1}
    Byte = {100, 101, 102, 103, 104, 105}
    Old = 100
    SbByte = 105
    BSIZE = 2
    NDIRECT = 1
    Disks = {1}
    WORD = 1024
    Strings <- MCStrings
    Positions <- MCPositions
    Lengths <- MCLengths
    MaxCommands = 1
CHECK_DEADLOCK FALSE
INVARIANTS
    SuperblockIntact
