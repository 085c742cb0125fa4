SPECIFICATION PartSpec
CONSTANTS
    t1 = t1
    t2 = t2
    o1 = o1
    s1 = s1
    s2 = s2
    s3 = s3
    x = x
    y = y
    z = z
    NULL = NULL
    Thread <- MCThread
    Obj <- MCObj
    Slot <- MCSlot
    NonAtomic <- MCNonAtomic
    Struct <- MCStruct
    GOODHASH <- MCHash
    Calls = 3
    gdb = gdb
    AppThread <- MCThread
    FunctionCalls = 1
    Requests = 3
CHECK_DEADLOCK FALSE
INVARIANTS
    PropertiesConsistent
    NoTearing
    GdbIsSafe
PROPERTIES
    AccessorsReturn
    FunctionsReturn
