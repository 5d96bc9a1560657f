CONSTANTS
    t1 = t1
    t2 = t2
    Threads = {t1, t2}
    NonceSize = 61
    PageWords = 4
    PageUnits = 2
    PoolUnits = 4
    PoolMmapUnits = 2
    QuarantineSize = 0
    Sizes = {5, 13}
    ReallocSizes = {}
    CallocArgs = {}
    Accesses <- MCAccesses
    BuggyFrees = TRUE
    NumClasses = 3
    Limit = 1
    NodePoolSize = 3
    NodeMmapChunk = 2
    Nil = Nil
SPECIFICATION Spec
INVARIANT DetectsBadFree
CHECK_DEADLOCK FALSE
