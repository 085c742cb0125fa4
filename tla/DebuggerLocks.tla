---------------------------- MODULE DebuggerLocks ----------------------------
(***************************************************************************)
(* The runtime's locks and debugger mode: the lock functions of objc-os.h, *)
(* startDebuggerMode and its companions of objc-runtime-new.mm, and gdb's  *)
(* entry points of objc-runtime.mm.                                        *)
(*                                                                         *)
(* A debugger stops every thread, wherever it is, starts debugger mode on  *)
(* one of them, calls runtime functions there and ends the mode; then the  *)
(* threads go on.  While the mode is active, lock functions applied to a   *)
(* managed lock touch nothing: they check that the mode acquired the lock  *)
(* and trap otherwise, and gdb abandons the call that trapped.             *)
(*                                                                         *)
(* What a runtime function does under its locks is left out: a function is *)
(* the sequence of its lock operations.  Those modelled take every lock of *)
(* the other modules: the managed ones, the monitor of +initialize and the *)
(* locks of side tables, properties, associations and @synchronized.       *)
(***************************************************************************)
EXTENDS Integers, Sequences

CONSTANTS
    AppThread,      \* the threads of the program
    gdb,            \* the debugger's calls, as an actor of their own
    FunctionCalls,  \* bound: functions called per thread
    Requests        \* bound: what the debugger does in all

ASSUME DebuggerLocksAssumption ==
    gdb \notin AppThread /\ FunctionCalls \in Nat /\ Requests \in Nat

DEBUGGER_OFF == 0
DEBUGGER_PARTIAL == 1
DEBUGGER_FULL == 2
RDONLY == 1
RDWR == 2

RWLock == {"runtimeLock", "selLock"}
Managed == RWLock \cup {"cacheUpdateLock", "loadMethodLock"}
\* PropertyLocks, AssociationsManager._lock, LIST_LOCK and the mutex of a SyncData,
\* each of one property, table or object: two functions that use it meet
Unmanaged == {"classInitLock", "slock", "PropertyLock", "_lock", "LIST_LOCK", "mutex"}
Lock == Managed \cup Unmanaged
Actor == AppThread \cup {gdb}

VARIABLES
    holds,              \* how each actor holds each lock: 0, RDONLY or RDWR
    debugger,           \* debugger_runtimeLock, debugger_selLock, ...
    DebuggerMode, DebuggerModeThread, DebuggerModeCount,
    todo,               \* the lock operations an actor's function has left
    using,              \* history: the managed locks gdb's call is inside of
    trapped,            \* gdb_objc_debuggerModeFailure has been reached
    callsLeft, requests \* functions and requests left

debuggerVars == <<holds, debugger, DebuggerMode, DebuggerModeThread, DebuggerModeCount,
                  todo, using, trapped, callsLeft, requests>>
modeVars == <<debugger, DebuggerMode, DebuggerModeThread, DebuggerModeCount>>

DebuggerInit ==
    /\ holds = [l \in Lock |-> [a \in Actor |-> 0]]
    /\ debugger = [l \in Managed |-> 0]
    /\ DebuggerMode = DEBUGGER_OFF /\ DebuggerModeThread = gdb /\ DebuggerModeCount = 0
    /\ todo = [a \in Actor |-> <<>>]
    /\ using = [l \in Managed |-> 0]
    /\ trapped = FALSE
    /\ callsLeft = [t \in AppThread |-> FunctionCalls]
    /\ requests = Requests

(***************************************************************************)
(* The lock operations of the functions that take the managed locks.       *)
(***************************************************************************)
Take(l, mode) == [lock |-> l, mode |-> mode]
Unlock(l) == [lock |-> l, mode |-> 0]

lookUpMethod == <<Take("runtimeLock", RDONLY), Take("cacheUpdateLock", RDWR),
                  Unlock("cacheUpdateLock"), Unlock("runtimeLock")>>
\* Mutant: a function takes the cache lock before the runtime lock
AddsInsideOut == <<Take("cacheUpdateLock", RDWR), Take("runtimeLock", RDWR),
                   Unlock("runtimeLock"), Unlock("cacheUpdateLock")>>

class_addMethod == <<Take("runtimeLock", RDWR), Take("cacheUpdateLock", RDWR),
                     Unlock("cacheUpdateLock"), Unlock("runtimeLock")>>
sel_registerName == <<Take("selLock", RDONLY), Unlock("selLock"),
                      Take("selLock", RDWR), Unlock("selLock")>>
map_images == <<Take("runtimeLock", RDWR), Take("selLock", RDWR),
                Unlock("selLock"), Unlock("runtimeLock")>>
\* load_images, with a +load method that sends a message
load_images == <<Take("loadMethodLock", RDWR), Take("runtimeLock", RDWR),
                 Unlock("runtimeLock")>> \o lookUpMethod \o <<Unlock("loadMethodLock")>>
_class_initialize == <<Take("classInitLock", RDWR), Unlock("classInitLock")>>
objc_retain == <<Take("slock", RDWR), Unlock("slock")>>
objc_getProperty == <<Take("PropertyLock", RDWR)>> \o objc_retain \o <<Unlock("PropertyLock")>>
\* The value is retained by a message
objc_getAssociatedObject == <<Take("_lock", RDWR)>> \o lookUpMethod
                                \o <<Take("slock", RDWR), Unlock("slock"), Unlock("_lock")>>
\* objc_sync_enter, a message and objc_sync_exit, which finds the mutex without a lock
synchronized == <<Take("LIST_LOCK", RDWR), Unlock("LIST_LOCK"), Take("mutex", RDWR)>>
                    \o lookUpMethod \o <<Unlock("mutex")>>

Function == {lookUpMethod, class_addMethod, sel_registerName, map_images, load_images,
             _class_initialize, objc_retain, objc_getProperty, objc_getAssociatedObject,
             synchronized}

(***************************************************************************)
(* The lock functions.                                                     *)
(***************************************************************************)
\* A pthread lock: writers exclude everybody.  loadMethodLock, the monitor and the
\* mutex are recursive, and gdb's calls run on the thread h it has chosen.
CanTake(a, h, l, mode) ==
    \A b \in Actor \ {a} :
        \/ l \in {"loadMethodLock", "classInitLock", "mutex"} /\ b = h
        \/ mode = RDONLY /\ l \in RWLock /\ holds[l][b] # RDWR
        \/ holds[l][b] = 0

isManagedDuringDebugger(l) == l \in Managed

isLockedDuringDebugger(l) == l \in {"cacheUpdateLock", "loadMethodLock"}

isReadingDuringDebugger(l) == l \in RWLock /\ debugger[l] # 0

\* Mutant: a read lock is enough to write
WritingWhileReading(l) == l \in RWLock /\ debugger[l] # 0

isWritingDuringDebugger(l) == l \in RWLock /\ debugger[l] = RDWR

\* What the lock functions require before they do nothing to a managed lock;
\* the functions that release one require nothing
Allowed(l, mode) ==
    \/ mode = 0
    \/ IF l \in RWLock
       THEN IF mode = RDONLY THEN isReadingDuringDebugger(l) ELSE isWritingDuringDebugger(l)
       ELSE isLockedDuringDebugger(l)

\* A thread applies the next operation of its function
ThreadStep(t) ==
    /\ DebuggerMode = DEBUGGER_OFF /\ todo[t] # <<>>
    /\ LET op == Head(todo[t])
       IN /\ op.mode # 0 => CanTake(t, t, op.lock, op.mode)
          /\ holds' = [holds EXCEPT ![op.lock][t] = op.mode]
    /\ todo' = [todo EXCEPT ![t] = Tail(@)]
    /\ UNCHANGED <<modeVars, using, trapped, callsLeft, requests>>

\* gdb's call does nothing to a managed lock and the real thing to another, for
\* which it may have to wait
Waits(op) ==
    /\ ~isManagedDuringDebugger(op.lock) /\ op.mode # 0
    /\ ~CanTake(gdb, DebuggerModeThread, op.lock, op.mode)

GdbStep ==
    /\ DebuggerMode # DEBUGGER_OFF /\ todo[gdb] # <<>>
    /\ LET op == Head(todo[gdb])
       IN \/ /\ isManagedDuringDebugger(op.lock) /\ Allowed(op.lock, op.mode)
             /\ using' = [using EXCEPT ![op.lock] = op.mode]
             /\ holds' = holds
          \/ /\ ~isManagedDuringDebugger(op.lock) /\ ~Waits(op)
             /\ holds' = [holds EXCEPT ![op.lock][gdb] = op.mode]
             /\ using' = using
    /\ todo' = [todo EXCEPT ![gdb] = Tail(@)]
    /\ UNCHANGED <<modeVars, trapped, callsLeft, requests>>

AbandonCall ==
    /\ todo' = [todo EXCEPT ![gdb] = <<>>]
    /\ using' = [l \in Managed |-> 0]
    /\ UNCHANGED <<holds, modeVars, callsLeft, requests>>

gdb_objc_debuggerModeFailure ==
    /\ DebuggerMode # DEBUGGER_OFF /\ todo[gdb] # <<>>
    /\ LET op == Head(todo[gdb]) IN isManagedDuringDebugger(op.lock) /\ ~Allowed(op.lock, op.mode)
    /\ trapped' = TRUE
    /\ AbandonCall

\* The user interrupts a call that waits for an unmanaged lock
Interrupt ==
    /\ DebuggerMode # DEBUGGER_OFF /\ todo[gdb] # <<>>
    /\ Waits(Head(todo[gdb]))
    /\ trapped' = trapped
    /\ AbandonCall

(***************************************************************************)
(* Debugger mode.                                                          *)
(***************************************************************************)
\* The mode in which startDebuggerMode gets lock l on thread h
TryRW(h, l) ==
    IF CanTake(h, h, l, RDWR) /\ holds[l][h] = 0 THEN RDWR
    ELSE IF CanTake(h, h, l, RDONLY) /\ holds[l][h] # RDWR THEN RDONLY ELSE 0

TryMutex(h, l) ==
    IF CanTake(h, h, l, RDWR) /\ (l = "loadMethodLock" \/ holds[l][h] = 0) THEN RDWR ELSE 0

noSideTableLocksHeld == \A a \in Actor : holds["slock"][a] = 0

\* What startDebuggerMode acquires on thread h
Acquired(h) == [l \in Managed |-> IF l \in RWLock THEN TryRW(h, l) ELSE TryMutex(h, l)]

startDebuggerMode(h) ==
    LET got == Acquired(h)
    IN IF got["runtimeLock"] = 0 \/ got["cacheUpdateLock"] = 0 \/ ~noSideTableLocksHeld
       THEN DEBUGGER_OFF
       ELSE IF \A l \in Managed : got[l] = RDWR THEN DEBUGGER_FULL ELSE DEBUGGER_PARTIAL

\* A start that finds a side table lock held forgets that it had set
\* debugger_cacheUpdateLock
Forgotten(h) ==
    LET got == Acquired(h)
    IN IF got["runtimeLock"] # 0 /\ got["cacheUpdateLock"] # 0 THEN RDWR
       ELSE debugger["cacheUpdateLock"]

endDebuggerMode ==
    /\ holds' = [l \in Lock |-> IF l \in Managed /\ debugger[l] # 0
                               THEN [holds[l] EXCEPT ![gdb] = 0] ELSE holds[l]]
    /\ debugger' = [l \in Managed |-> 0]

Request == requests > 0 /\ requests' = requests - 1 /\ todo[gdb] = <<>>

\* wantFull is the flag OBJC_DEBUGMODE_FULL; h is the calling thread
gdb_objc_startDebuggerMode(h, wantFull) ==
    /\ Request
    /\ UNCHANGED <<todo, using, trapped, callsLeft>>
    /\ \/ /\ DebuggerMode = DEBUGGER_OFF
          /\ LET mode == startDebuggerMode(h)
             IN \/ /\ mode = DEBUGGER_OFF
                   /\ debugger' = [debugger EXCEPT !["cacheUpdateLock"] = Forgotten(h)]
                   /\ UNCHANGED <<holds, DebuggerMode, DebuggerModeThread, DebuggerModeCount>>
                \/ /\ mode = DEBUGGER_PARTIAL /\ wantFull
                   /\ debugger' = [l \in Managed |-> 0]  \* acquired, and released
                   /\ UNCHANGED <<holds, DebuggerMode, DebuggerModeThread, DebuggerModeCount>>
                \/ /\ mode = DEBUGGER_FULL \/ (mode = DEBUGGER_PARTIAL /\ ~wantFull)
                   /\ debugger' = Acquired(h)
                   /\ holds' = [l \in Lock |-> IF l \in Managed
                                    THEN [holds[l] EXCEPT ![gdb] = Acquired(h)[l]] ELSE holds[l]]
                   /\ DebuggerMode' = mode
                   /\ DebuggerModeThread' = h
                   /\ DebuggerModeCount' = 1
       \/ /\ DebuggerMode # DEBUGGER_OFF
          /\ ~(DebuggerMode = DEBUGGER_PARTIAL /\ wantFull)
          /\ h = DebuggerModeThread
          /\ DebuggerModeCount' = DebuggerModeCount + 1
          /\ UNCHANGED <<holds, debugger, DebuggerMode, DebuggerModeThread>>
       \/ /\ DebuggerMode # DEBUGGER_OFF
          /\ (DebuggerMode = DEBUGGER_PARTIAL /\ wantFull) \/ h # DebuggerModeThread
          /\ UNCHANGED <<holds, modeVars>>

\* The debugger calls this once for each start that returned non-zero, even
\* when its requests are used up
gdb_objc_endDebuggerMode(h) ==
    /\ todo[gdb] = <<>>
    /\ DebuggerMode # DEBUGGER_OFF /\ h = DebuggerModeThread
    /\ DebuggerModeCount' = DebuggerModeCount - 1
    /\ \/ /\ DebuggerModeCount = 1
          /\ DebuggerMode' = DEBUGGER_OFF
          /\ DebuggerModeThread' = gdb
          /\ endDebuggerMode
       \/ /\ DebuggerModeCount # 1
          /\ UNCHANGED <<holds, debugger, DebuggerMode, DebuggerModeThread>>
    /\ trapped' = FALSE
    /\ UNCHANGED <<todo, using, callsLeft, requests>>

CallFunction(t, f) ==
    /\ DebuggerMode = DEBUGGER_OFF /\ todo[t] = <<>> /\ callsLeft[t] > 0
    /\ callsLeft' = [callsLeft EXCEPT ![t] = @ - 1]
    /\ todo' = [todo EXCEPT ![t] = f]
    /\ UNCHANGED <<holds, modeVars, using, trapped, requests>>

GdbCallsFunction(f) ==
    /\ Request /\ DebuggerMode # DEBUGGER_OFF
    /\ todo' = [todo EXCEPT ![gdb] = f]
    /\ UNCHANGED <<holds, modeVars, using, trapped, callsLeft>>

GdbMoves ==
    \/ GdbStep \/ gdb_objc_debuggerModeFailure \/ Interrupt
    \/ \E h \in AppThread : gdb_objc_endDebuggerMode(h)

DebuggerNext ==
    \/ \E t \in AppThread : ThreadStep(t) \/ \E f \in Function : CallFunction(t, f)
    \/ GdbMoves
    \/ \E h \in AppThread, wantFull \in BOOLEAN : gdb_objc_startDebuggerMode(h, wantFull)
    \/ \E f \in Function : GdbCallsFunction(f)

DebuggerSpec == DebuggerInit /\ [][DebuggerNext]_debuggerVars

\* A thread that can go on does, and the debugger ends what it starts
DebuggerFairness ==
    /\ WF_debuggerVars(GdbMoves)
    /\ \A t \in AppThread : SF_debuggerVars(ThreadStep(t))

DebuggerFairSpec == DebuggerSpec /\ DebuggerFairness

-----------------------------------------------------------------------------
DebuggerTypeOK ==
    /\ holds \in [Lock -> [Actor -> 0..2]]
    /\ debugger \in [Managed -> 0..2]
    /\ DebuggerMode \in 0..2 /\ DebuggerModeThread \in Actor
    /\ DebuggerModeCount \in 0..Requests
    /\ todo \in [Actor -> Seq([lock : Lock, mode : 0..2])]
    /\ using \in [Managed -> 0..2]
    /\ trapped \in BOOLEAN
    /\ callsLeft \in [AppThread -> 0..FunctionCalls] /\ requests \in 0..Requests

\* What gdb does under runtimeLock, selLock or cacheUpdateLock is safe from the
\* stopped threads: none was stopped while it held the lock in a way that excludes
\* gdb.  Of loadMethodLock this is false, since isLockedDuringDebugger does not ask
\* whether debugger mode got it: see OffLimits.
StoppedThreadsExcluded ==
    \A l \in Managed \ {"loadMethodLock"} : using[l] # 0 =>
        \A t \in AppThread : holds[l][t] = 0 \/ (holds[l][t] = RDONLY /\ using[l] = RDONLY)

\* A stopped thread finds its locks as it left them and the debugger's gone
\* when it goes on: debugger mode holds what its variables say, and nothing
\* outside of the mode, however starts and ends nest or fail.
ModeHoldsItsLocks ==
    \A l \in Managed :
        holds[l][gdb] = IF DebuggerMode = DEBUGGER_OFF THEN 0 ELSE debugger[l]

\* OBJC_DEBUGMODE_FULL: "requires more locks so later operations are less
\* likely to fail".  In full mode none does.
FullModeNeverTraps == trapped => DebuggerMode = DEBUGGER_PARTIAL

\* "side table locks are not optional", although they are not managed: gdb's call
\* never waits for one.  It may wait for any other lock that is not managed.
SideTablesAreFree ==
    todo[gdb] # <<>> => /\ DebuggerMode # DEBUGGER_OFF
                        /\ Waits(Head(todo[gdb])) => Head(todo[gdb]).lock # "slock"

\* Under the locks debugger mode must have, or checks, a call from gdb does not meet
\* a stopped thread's work; it waits for no side table; and a mode that has begun,
\* failed, nested or ended holds just the locks it says.
GdbIsSafe ==
    /\ DebuggerTypeOK
    /\ StoppedThreadsExcluded
    /\ SideTablesAreFree
    /\ ModeHoldsItsLocks
    /\ FullModeNeverTraps

\* "Locks not acquired are off-limits until endDebuggerMode(); any attempt to
\* manipulate them will cause a trap" (startDebuggerMode).
OffLimits == \A l \in Managed : using[l] # 0 => debugger[l] # 0

\* Neither the order in which functions take the locks nor the debugger can
\* keep a function from returning.
FunctionsReturn == \A t \in AppThread : todo[t] # <<>> ~> todo[t] = <<>>
=============================================================================
