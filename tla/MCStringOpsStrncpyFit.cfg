CONSTANTS
    NonceSize = 61
    PageWords = 8
    ObjSizes <- MCObjSizes
    TrailUnits = 1
    TokenZeroBytes = {}
    Ns = {3, 5, 8, 12}
    Ops = {"strncpy"}
    Unterminated = TRUE
SPECIFICATION Spec
INVARIANT NoFalseAlarm
CHECK_DEADLOCK FALSE
