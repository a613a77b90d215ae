CONSTANTS
    Sessions = {s1, s2}
    Names = {"7", ".", "..", "home"}
    DirNames = {"7", "..", "home"}
    FileNames = {"7"}
    LongNames = {}
    LongStem = "stem"
    Users = {"7"}
    NINODES = 3
    MaxInodes = 5
    Spare = 2
    MaxRefs = 2
SPECIFICATION Spec
INVARIANT SessionKeepsCwd
