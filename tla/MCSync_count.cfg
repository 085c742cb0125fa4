SPECIFICATION SyncSpec
CONSTANTS
    t1 = t1
    t2 = t2
    t3 = t3
    o1 = o1
    o2 = o2
    d1 = d1
    d2 = d2
    d3 = d3
    Nil = Nil
    SyncThread <- MCSyncThread
    Obj <- MCObj
    Data <- MCData
    SyncCalls = 2
SYMMETRY Symmetric
CHECK_DEADLOCK FALSE
INVARIANT
    ThreadCountExact
