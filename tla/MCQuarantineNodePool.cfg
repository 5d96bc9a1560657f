CONSTANTS
    NumClasses = 3
    Limit = 1
    NodePoolSize = 2
    NodeMmapChunk = 1
    Nil = Nil
    InitialHeld <- MCInitialHeld
    Requests = {1, 2, 3}
    QuarantineSize = 0
SPECIFICATION Spec
INVARIANT FreeNeverAborts
CHECK_DEADLOCK FALSE
