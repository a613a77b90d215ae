CONSTANTS
    Sessions = {s1}
    Names = {"7", ".", "..", "home"}
    DirNames = {"7", "..", "home"}
    FileNames = {"7"}
    LongNames = {}
    LongStem = "stem"
    Users = {"7"}
    NINODES = 3
    MaxInodes = 4
    Spare = 0
    MaxRefs = 2
SPECIFICATION Spec
INVARIANT EntriesLive
