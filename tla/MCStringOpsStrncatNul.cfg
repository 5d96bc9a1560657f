CONSTANTS
    NonceSize = 61
    PageWords = 8
    ObjSizes <- MCObjSizes
    TrailUnits = 1
    TokenZeroBytes = {}
    Ns = {3, 5, 8, 12}
    Ops = {"strncat"}
    Unterminated = FALSE
SPECIFICATION Spec
INVARIANT WritesInside
CHECK_DEADLOCK FALSE
