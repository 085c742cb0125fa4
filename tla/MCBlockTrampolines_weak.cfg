SPECIFICATION TSpec
CONSTANTS
    t1 = t1
    t2 = t2
    h1 = h1
    h2 = h2
    h3 = h3
    inner = inner
    outer = outer
    NULL = NULL
    BYREF = BYREF
    OBJECT = OBJECT
    HELD = HELD
    Thread <- MCThread
    Holder <- MCHolder
    Heap <- MCHeap
    Lit <- MCLit
    captures <- MCCaptures
    BLOCK_REFCOUNT_MASK = 3
    WeakVariables = TRUE
    PAGE_SIZE = 1
    Pages = 2
    Calls = 3
CHECK_DEADLOCK FALSE
INVARIANT
    ReferencesLive
