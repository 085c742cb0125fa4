-------------------------------- MODULE Sync --------------------------------
(***************************************************************************)
(* @synchronized: objc_sync_enter and objc_sync_exit of objc-sync.mm.      *)
(*                                                                         *)
(* An object's recursive mutex lives in a SyncData found by address in a   *)
(* list that a spin lock protects.  SyncDatas are never freed: one that no *)
(* thread uses (threadCount = 0) is recycled for the next object.  Each    *)
(* thread caches the SyncDatas it has entered and counts its entries, so   *)
(* recursive entries and exits never touch the list.  One list is          *)
(* modelled; the 16 lists of the code share nothing.                       *)
(*                                                                         *)
(* A caller may exit an object it has not entered, and is told so: the     *)
(* runtime's own tests do.                                                 *)
(***************************************************************************)
EXTENDS Integers, FiniteSets

CONSTANTS
    SyncThread,
    Obj,
    Data,       \* bound: the SyncDatas that can be allocated
    Nil,
    SyncCalls       \* bound: enters and exits per thread

ASSUME SyncAssumption ==
    /\ IsFiniteSet(SyncThread) /\ Nil \notin SyncThread \cup Obj \cup Data
    /\ SyncCalls \in Nat

VARIABLES
    list,           \* the SyncDatas in the list
    object,         \* SyncData.object; Nil before allocation
    threadCount,    \* SyncData.threadCount
    owner, depth,   \* SyncData.mutex: its owner and recursion count
    slock,          \* the list's spin lock: holder or Nil
    lockCount,      \* the caches of each thread: entries per SyncData, 0 if not
                    \* cached.  The one-item fast cache and the array of the
                    \* slow one hold disjoint items
    at, why, obj,   \* where each thread is, in ACQUIRE or RELEASE of what
    data,           \* its result of id2data so far
    inside,         \* history: how often a thread has entered an object
    syncLeft            \* calls left

syncVars == <<list, object, threadCount, owner, depth, slock, lockCount,
          at, why, obj, data, inside, syncLeft>>

SyncInit ==
    /\ list = {}
    /\ object = [d \in Data |-> Nil]
    /\ threadCount = [d \in Data |-> 0]
    /\ owner = [d \in Data |-> Nil]
    /\ depth = [d \in Data |-> 0]
    /\ slock = Nil
    /\ lockCount = [t \in SyncThread |-> [d \in Data |-> 0]]
    /\ at = [t \in SyncThread |-> "idle"]
    /\ why = [t \in SyncThread |-> "CHECK"]
    /\ obj = [t \in SyncThread |-> Nil]
    /\ data = [t \in SyncThread |-> Nil]
    /\ inside = [t \in SyncThread |-> [o \in Obj |-> 0]]
    /\ syncLeft = [t \in SyncThread |-> SyncCalls]

GotoStep(t, label) == at' = [at EXCEPT ![t] = label]

Return(t) ==
    /\ GotoStep(t, "idle")
    /\ why' = [why EXCEPT ![t] = "CHECK"]
    /\ obj' = [obj EXCEPT ![t] = Nil]
    /\ data' = [data EXCEPT ![t] = Nil]

Call(t, o) ==
    /\ at[t] = "idle" /\ syncLeft[t] > 0
    /\ syncLeft' = [syncLeft EXCEPT ![t] = @ - 1]
    /\ obj' = [obj EXCEPT ![t] = o]

\* The items of t's caches for object o.
Cached(t, o) == {d \in Data : lockCount[t][d] > 0 /\ object[d] = o}

-----------------------------------------------------------------------------
\* objc_sync_enter(o): a cached SyncData is entered once more, any other one is
\* looked for in the list.
Enter(t, o) ==
    /\ Call(t, o)
    /\ why' = [why EXCEPT ![t] = "ACQUIRE"]
    /\ IF Cached(t, o) = {}
         THEN GotoStep(t, "list_lock") /\ UNCHANGED <<lockCount, data>>
         ELSE \E d \in Cached(t, o) :
                /\ lockCount' = [lockCount EXCEPT ![t][d] = @ + 1]
                /\ data' = [data EXCEPT ![t] = d]
                /\ GotoStep(t, "mutex_lock")
    /\ UNCHANGED <<list, object, threadCount, owner, depth, slock, inside>>

\* objc_sync_exit(o).  The last exit takes the SyncData out of the cache.
Exit(t, o) ==
    /\ Call(t, o)
    /\ why' = [why EXCEPT ![t] = "RELEASE"]
    /\ IF Cached(t, o) = {}
         THEN GotoStep(t, "list_lock") /\ UNCHANGED <<lockCount, data, inside>>
         ELSE \E d \in Cached(t, o) :
                /\ lockCount' = [lockCount EXCEPT ![t][d] = @ - 1]
                /\ data' = [data EXCEPT ![t] = d]
                /\ inside' = [inside EXCEPT ![t][o] = @ - 1]
                /\ GotoStep(t, IF lockCount[t][d] = 1 THEN "stop_using" ELSE "mutex_unlock")
    /\ UNCHANGED <<list, object, threadCount, owner, depth, slock>>

\* The atomic decrement, not under the spin lock and before the mutex is
\* unlocked: from here on another thread may recycle the SyncData.
StopUsing(t) ==
    /\ at[t] = "stop_using"
    /\ threadCount' = [threadCount EXCEPT ![data[t]] = @ - 1]
    /\ GotoStep(t, "mutex_unlock")
    /\ UNCHANGED <<list, object, owner, depth, slock, lockCount, why, obj, data,
                   inside, syncLeft>>

-----------------------------------------------------------------------------
(* id2data when the caches do not have the object.                             *)

\* Mutant: the list is walked without the spin lock.
NoWait == TRUE

ListFree == slock = Nil

ListLock(t) ==
    /\ at[t] = "list_lock" /\ ListFree
    /\ slock' = t
    /\ GotoStep(t, "list_search")
    /\ UNCHANGED <<list, object, threadCount, owner, depth, lockCount, why, obj,
                   data, inside, syncLeft>>

Found(o) == {d \in list : object[d] = o}

\* Mutant: any other thread's SyncData will do.
AnyInList == list

UnusedData == {d \in list : threadCount[d] = 0}

\* The SyncData that has the object gets one more user.
ListFound(t) ==
    /\ at[t] = "list_search"
    /\ \E d \in Found(obj[t]) :
         /\ threadCount' = [threadCount EXCEPT ![d] = @ + 1]
         /\ data' = [data EXCEPT ![t] = d]
    /\ GotoStep(t, "list_unlock")
    /\ UNCHANGED <<list, object, owner, depth, slock, lockCount, why, obj, inside, syncLeft>>

\* No SyncData has it: a RELEASE is over; an ACQUIRE recycles an unused one (the
\* first in the list, here any of them) or allocates one.
ListNotFound(t) ==
    /\ at[t] = "list_search" /\ Found(obj[t]) = {}
    /\ IF why[t] = "RELEASE"
         THEN GotoStep(t, "list_unlock") /\ UNCHANGED data
         ELSE /\ \E d \in IF UnusedData # {} THEN UnusedData ELSE Data \ list :
                   data' = [data EXCEPT ![t] = d]
              /\ GotoStep(t, "list_claim")
    /\ UNCHANGED <<list, object, threadCount, owner, depth, slock, lockCount, why,
                   obj, inside, syncLeft>>

ListClaim(t) ==
    /\ at[t] = "list_claim"
    /\ object' = [object EXCEPT ![data[t]] = obj[t]]
    /\ threadCount' = [threadCount EXCEPT ![data[t]] = 1]
    /\ list' = list \cup {data[t]}
    /\ GotoStep(t, "list_unlock")
    /\ UNCHANGED <<owner, depth, slock, lockCount, why, obj, data, inside, syncLeft>>

\* "Only new ACQUIRE should get here": an ACQUIRE saves the SyncData in a cache.
\* A RELEASE that found one fails as "buggy", as one that found none does: the
\* caller is told that it does not own the object.
ListUnlock(t) ==
    /\ at[t] = "list_unlock"
    /\ slock' = Nil
    /\ IF why[t] = "ACQUIRE"
         THEN /\ lockCount' = [lockCount EXCEPT ![t][data[t]] = 1]
              /\ GotoStep(t, "mutex_lock")
              /\ UNCHANGED <<why, obj, data>>
         ELSE Return(t) /\ UNCHANGED lockCount
    /\ UNCHANGED <<list, object, threadCount, owner, depth, inside, syncLeft>>

-----------------------------------------------------------------------------
(* recursive_mutex_lock and recursive_mutex_unlock.                            *)

MutexLock(t) ==
    LET d == data[t] IN
    /\ at[t] = "mutex_lock"
    /\ owner[d] \in {Nil, t}
    /\ owner' = [owner EXCEPT ![d] = t]
    /\ depth' = [depth EXCEPT ![d] = @ + 1]
    /\ inside' = [inside EXCEPT ![t][obj[t]] = @ + 1]
    /\ Return(t)
    /\ UNCHANGED <<list, object, threadCount, slock, lockCount, syncLeft>>

MutexUnlock(t) ==
    LET d == data[t] IN
    /\ at[t] = "mutex_unlock"
    /\ owner' = [owner EXCEPT ![d] = IF depth[d] = 1 THEN Nil ELSE @]
    /\ depth' = [depth EXCEPT ![d] = @ - 1]
    /\ Return(t)
    /\ UNCHANGED <<list, object, threadCount, slock, lockCount, inside, syncLeft>>

SyncStep(t) ==
    \/ StopUsing(t)
    \/ ListLock(t) \/ ListFound(t) \/ ListNotFound(t) \/ ListClaim(t) \/ ListUnlock(t)
    \/ MutexLock(t) \/ MutexUnlock(t)

SyncNext ==
    \/ \E t \in SyncThread, o \in Obj : Enter(t, o) \/ Exit(t, o)
    \/ \E t \in SyncThread : SyncStep(t)

SyncSpec == SyncInit /\ [][SyncNext]_syncVars

-----------------------------------------------------------------------------
SyncTypeOK ==
    /\ list \subseteq Data
    /\ object \in [Data -> Obj \cup {Nil}]
    /\ threadCount \in [Data -> Nat]
    /\ owner \in [Data -> SyncThread \cup {Nil}]
    /\ depth \in [Data -> Nat]
    /\ slock \in SyncThread \cup {Nil}
    /\ lockCount \in [SyncThread -> [Data -> Nat]]
    /\ at \in [SyncThread -> {"idle", "stop_using", "list_lock", "list_search", "list_claim",
                          "list_unlock", "mutex_lock", "mutex_unlock"}]
    /\ why \in [SyncThread -> {"ACQUIRE", "RELEASE", "CHECK"}]
    /\ obj \in [SyncThread -> Obj \cup {Nil}]
    /\ data \in [SyncThread -> Data \cup {Nil}]
    /\ inside \in [SyncThread -> [Obj -> Nat]]
    /\ syncLeft \in [SyncThread -> Nat]

\* No two threads are inside one object, though a SyncData is given up, and may
\* be recycled, before its mutex is unlocked.
MutualExclusion ==
    \A t, u \in SyncThread : \A o \in Obj :
        inside[t][o] > 0 /\ inside[u][o] > 0 => t = u

\* The threads that use a SyncData: it is in their cache, on its way into it, or
\* just taken out of it.
Users(d) == {t \in SyncThread :
    \/ lockCount[t][d] > 0
    \/ at[t] = "stop_using" /\ data[t] = d
    \/ at[t] = "list_unlock" /\ data[t] = d /\ why[t] = "ACQUIRE"}

\* threadCount is the "number of THREADS using this block" (objc-sync.mm:36),
\* whenever no call is in progress.  It is not: an exit by a thread that is not
\* inside finds the SyncData of a thread that is, and adds a user.
ThreadCountExact ==
    (\A t \in SyncThread : at[t] = "idle") =>
        \A d \in Data : threadCount[d] = Cardinality(Users(d))

\* An exit is refused exactly when the thread is not inside the object: it
\* reaches the list only then, and otherwise unlocks a mutex it owns.
ExitChecksOwner ==
    \A t \in SyncThread :
        /\ why[t] = "RELEASE" /\ at[t] \in {"list_lock", "list_search", "list_unlock"}
               => inside[t][obj[t]] = 0
        /\ at[t] \in {"stop_using", "mutex_unlock"} => owner[data[t]] = t

\* A thread that waits for a mutex waits for a thread inside the object it wants,
\* or for one about to unlock: a mutex recycled while locked delays its new
\* object only until that unlock.
WaitsForOwner ==
    \A t, u \in SyncThread :
        at[t] = "mutex_lock" /\ owner[data[t]] = u /\ u # t =>
            \/ inside[u][obj[t]] > 0
            \/ at[u] \in {"stop_using", "mutex_unlock"} /\ data[u] = data[t]

\* Thread t is about to lock or to unlock d.
InCall(t, d) == at[t] \in {"mutex_lock", "stop_using", "mutex_unlock"} /\ data[t] = d

\* List, caches and mutexes agree: an object has one SyncData; none that is used
\* counts as unused, though the count may be too high; and unless its thread is
\* about to change it, a cache has the SyncData of each object that the thread is
\* inside of, with as many entries as it has locks of the mutex.
UsersAgree ==
    /\ \A d, e \in list : object[d] = object[e] => d = e
    /\ \A d \in Data : Cardinality(Users(d)) <= threadCount[d]
    /\ \A t \in SyncThread, d \in Data : ~ InCall(t, d) =>
         /\ lockCount[t][d] = IF owner[d] = t THEN depth[d] ELSE 0
         /\ lockCount[t][d] > 0 => d \in list /\ inside[t][object[d]] = lockCount[t][d]
    /\ \A t \in SyncThread, o \in Obj : inside[t][o] > 0 => Cached(t, o) # {}

\* The list, the caches and the mutexes agree on who uses which SyncData, so that
\* none is recycled in use; a thread exits only what it entered and waits only for
\* who is inside.
ListConsistent == SyncTypeOK /\ UsersAgree /\ ExitChecksOwner /\ WaitsForOwner
=============================================================================
