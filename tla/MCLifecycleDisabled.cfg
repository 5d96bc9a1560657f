CONSTANTS
    Unset = Unset
    Bad = Bad
    Envs <- MCEnvsDisabled
    Ptrs = {p1}
    PreInitCalls = {}
    MaxPoolPtr = 2
SPECIFICATION Spec
INVARIANT InterceptorsReturn
CHECK_DEADLOCK FALSE
