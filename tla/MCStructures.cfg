SPECIFICATION PartSpec
CONSTANTS
    k1 = b1
    k2 = b2
    k3 = k3
    k4 = k4
    k5 = k5
    k6 = k6
    o1 = o1
    o2 = o2
    o3 = o3
    l1 = a1
    h1 = a1
    l2 = a2
    h2 = a2
    l3 = a3
    h3 = a3
    l4 = l4
    EmptyKey = EmptyKey
    TombstoneKey = TombstoneKey
    Key <- MCKey
    Hash <- MCHash
    Value = {0, 1}
    ZeroValuesArePurgeable = TRUE
    InitBuckets = 8
    MaxBuckets = 16
    POOL_SENTINEL = POOL_SENTINEL
    None = None
    Obj <- MCObj
    PageSize = 2
    MaxDepth = 3
    MaxCalls = 7
    nil = nil
    NULL = NULL
    t1 = b1
    t2 = b2
    inner = inner
    outer = outer
    BYREF = BYREF
    OBJECT = OBJECT
    HELD = HELD
    Thread <- MCThread
    Holder <- MCHolder
    Heap <- MCHeap
    Lit <- MCLit
    captures <- MCCaptures
    BLOCK_REFCOUNT_MASK = 3
    WeakVariables = FALSE
    PAGE_SIZE = 2
    Pages = 2
    Calls = 5
    Referent = {o1, o2, o3}
    Referrer = {a1, a2, a3, l4}
    hash_pointer <- MCHashPointer
    malloc_size <- MCMallocSize
    FirstSize = 3
    WEAK_TABLE_DOUBLE_SIZE = 2
    Pairs <- MCPairs
    SlotCount = {2, 4, 8, 16, 32}
    CACHE_ALLOCATOR_MIN = 5
    CACHE_REGION_QUANTA = 4
    MaxRegions = 2
    N = N
    P = P
    Nil = Nil
    A = A
    B = B
    Class = {N, A, B}
    Pair = {P}
    super <- MCSuper
    Declared <- MCDeclared
    OldSize = {4, 9}
    WORD = 4
    MaxIvars = 2
    MoveUnderBigger = FALSE
SYMMETRY MCSymmetry
INVARIANTS
    PagesConsistent
    WhileCanBeIf
    TokensValid
    TableConsistent
    SearchesFind
    WeakTableIsSet
    CacheMemoryExact
    IvarsApart
    BlocksConsistent
    ReferencesLive
    OneBlockEach
PROPERTIES
    ImplementsStack
    LatchedForGood
