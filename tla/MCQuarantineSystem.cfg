CONSTANTS
    NumClasses = 3
    Limit = 1
    NodePoolSize = 4
    NodeMmapChunk = 2
    Nil = Nil
    InitialHeld <- MCInitialHeld
    Requests = {1, 2, 3}
    QuarantineSize = 0
SPECIFICATION Spec
INVARIANT TypeOK
INVARIANT NoOverlap
INVARIANT FreelistDisjoint
CHECK_DEADLOCK FALSE
