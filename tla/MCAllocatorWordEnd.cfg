CONSTANTS
    t1 = t1
    t2 = t2
    Threads = {t1}
    NonceSize = 61
    PageWords = 8
    PageUnits = 4
    PoolUnits = 4
    PoolMmapUnits = 4
    QuarantineSize = 0
    Sizes = {7}
    ReallocSizes = {}
    CallocArgs = {}
    Accesses <- MCAccesses
    BuggyFrees = TRUE
    NumClasses = 3
    Limit = 1
    NodePoolSize = 3
    NodeMmapChunk = 2
    Nil = Nil
SPECIFICATION Spec
INVARIANT DetectsByteOverflow
CHECK_DEADLOCK FALSE
