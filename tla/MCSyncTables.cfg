SPECIFICATION PartSpec
CONSTANTS
    t1 = t1
    t2 = t2
    t3 = t3
    o1 = o1
    o2 = o2
    d1 = d1
    s1 = d1
    d2 = d2
    s2 = d2
    d3 = d3
    s3 = d3
    absent = absent
    empty = empty
    Nil = Nil
    SyncThread <- MCSyncThread
    Obj <- MCObj
    Data <- MCData
    SyncCalls = 3
    None = None
    Strings <- MCStrings
    EmptyString = empty
    CheckByte <- MCCheckByte
    Stored <- MCStored
    ClassTables <- MCClassTables
    Image = {1, 2, 3}
    Definers <- MCDefiners
    UB8BITS = 4
    SCRAMBLE_LEN = 8
    RETRY_INITKEY = 2
    RETRY_PERFECT = 2
SYMMETRY Symmetric
CHECK_DEADLOCK FALSE
INVARIANTS
    ListConsistent
    MutualExclusion
    BuildConsistent
    LookupsFind
