SPECIFICATION Spec
CONSTANTS
    t1 = t1
    t2 = t2
    o1 = o1
    o2 = o2
    o3 = o3
    k1 = k1
    A = A
    B = B
    NULL = NULL
    Thread <- MCThread
    Object <- MCObject
    Key <- OneKey
    Class <- MCClass
    Policy <- MCPolicy
    ConcurrentSwizzle = FALSE
    Calls = 4
SYMMETRY Symmetric
CHECK_DEADLOCK FALSE
INVARIANTS
    ReferencesConsistent
    NoneLeftBehind
