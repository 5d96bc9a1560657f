CONSTANTS
    NumClasses = 3
    Limit = 1
    NodePoolSize = 4
    NodeMmapChunk = 2
    Nil = Nil
    InitialHeld <- MCInitialHeld
    Requests = {1, 2, 3}
    QuarantineSize = 0
SPECIFICATION Spec
PROPERTY QuarantineRefinement
CHECK_DEADLOCK FALSE
