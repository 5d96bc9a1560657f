CONSTANTS
    Unset = Unset
    Bad = Bad
    Envs <- MCEnvs
    Ptrs = {p1, p2}
    PreInitCalls <- MCPreInitAlloc
    MaxPoolPtr = 5
SPECIFICATION Spec
INVARIANT TypeOK
INVARIANT FreedByOwner
CHECK_DEADLOCK FALSE
