SPECIFICATION DebuggerSpec
CONSTANTS
    t1 = t1
    t2 = t2
    gdb = gdb
    AppThread <- MCThread
    FunctionCalls = 1
    Requests = 2
CHECK_DEADLOCK FALSE
INVARIANT
    OffLimits
