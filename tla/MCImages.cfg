SPECIFICATION PartSpec
CONSTANTS
    Core = Core
    Lib = Lib
    Plug = Plug
    Extra = Extra
    Side = Side
    Base = Base
    N = N
    A = A
    B = B
    C = C
    D = D
    E = E
    F = F
    G = G
    W = W
    X = X
    catA = catA
    catA2 = catA2
    catB = catB
    catC = catC
    catE = catE
    catG = catG
    catN = catN
    catW = catW
    fut = fut
    pair = pair
    dup = dup
    NULL = NULL
    Missing = Missing
    Nil = Nil
    t1 = t1
    t2 = t2
    x = x
    y = y
    Thread <- MCThread
    Changer <- MCChanger
    CachedClass <- MCClass
    Super <- MCSuper
    Sel <- MCSel
    Hash <- MCHash
    Methods0 <- MCMethods
    Additions <- MCAdditions
    Initialized0 <- MCInitialized
    INIT_CACHE_SIZE = 2
    garbage_threshold = 2
    CanSeeThreads = TRUE
    Blocks = 7
    Calls = 3
    Changes = 1
    Image = {Base, Plug, Extra, Side}
    Class <- LoadClass
    Category <- LoadCategory
    super <- LoadSuper
    parent <- LoadParent
    classes <- LoadClasses
    categories <- LoadCategories
    HasLoad <- WithLoad
    MaxCalls = 2
    MoveUnderCxx = FALSE
    SwizzleAlloc = FALSE
    UnloadDetached = FALSE
CHECK_DEADLOCK FALSE
INVARIANTS
    RegistryConsistent
    MethodsAreHistory
    FlagsTellOverrides
    CallsConsistent
    LoadOrder
    CachesConsistent
    MethodsAreCurrent
