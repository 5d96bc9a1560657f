CONSTANTS
    t1 = t1
    t2 = t2
    Threads = {t1}
    NonceSize = 61
    PageWords = 4
    PageUnits = 2
    PoolUnits = 4
    PoolMmapUnits = 2
    QuarantineSize = 0
    Sizes = {5, 7, 13, 24}
    ReallocSizes = {5}
    CallocArgs = {}
    Accesses <- MCAccesses
    BuggyFrees = TRUE
    NumClasses = 3
    Limit = 1
    NodePoolSize = 3
    NodeMmapChunk = 2
    Nil = Nil
SPECIFICATION Spec
CHECK_DEADLOCK FALSE
INVARIANT DetectsBadFree
