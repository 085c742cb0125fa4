SPECIFICATION FairSpec
CONSTANTS
    t1 = t1
    t2 = t2
    C = C
    D = D
    x = x
    y = y
    NULL = NULL
    Thread <- MCThread
    Changer <- MCChanger
    CachedClass <- MCClass
    Super <- MCSuper
    Sel <- MCSel
    Hash <- MCHash
    Methods0 <- MCMethods
    Additions <- MCAdditions
    Initialized0 <- MCInitialized
    INIT_CACHE_SIZE = 2
    garbage_threshold = 2
    CanSeeThreads = FALSE
    Blocks = 7
    Calls = 1
    Changes = 1
CHECK_DEADLOCK FALSE
PROPERTY
    CallsReturn
