CONSTANTS
    NonceSize = 61
    PageWords = 8
    ObjSizes <- MCObjSizes
    TrailUnits = 1
    TokenZeroBytes = {}
    Ns = {3, 5, 8, 12}
    Ops = {"strlen", "strnlen", "strcpy", "strcat", "wcscpy", "snprintf", "printf"}
    Unterminated = TRUE
SPECIFICATION Spec
INVARIANT TypeOK
INVARIANT NoFalseAlarm
INVARIANT LegalStaysInside
CHECK_DEADLOCK FALSE
