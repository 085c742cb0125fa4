----------------------------- MODULE LockProofs -----------------------------
(***************************************************************************)
(* @synchronized excludes: for any threads, objects and SyncDatas, and     *)
(* whatever the threads enter and exit, the list, the caches and the       *)
(* mutexes of objc-sync.mm agree.                                          *)
(*                                                                         *)
(* The inductive invariant carries                                         *)
(*   - what each call under way knows of its SyncData (CallOK);            *)
(*   - that a SyncData with users is counted, so it is not recycled, and   *)
(*     that an object has one SyncData (DataOK, ObjectsApart);             *)
(*   - how often a thread has locked a mutex, counted three ways: by the   *)
(*     mutex, by the thread's cache and by its entries (EntriesOK).        *)
(*                                                                         *)
(* threadCount is an upper bound only: an exit of an object that another   *)
(* thread has entered counts a user it never takes back.                   *)
(***************************************************************************)
EXTENDS Sync, DebuggerLocks, FiniteSetTheorems, TLAPS

Searching == {"list_lock", "list_search", "list_claim", "list_unlock"}
Leaving == {"stop_using", "mutex_unlock"}

\* What a call under way knows: its object; that it holds the list's lock or not;
\* while it searches, that its thread has not entered the object; afterwards,
\* which SyncData it got, and before that, that nobody uses the one it will claim.
CallOK(t) ==
    /\ at[t] # "idle" => obj[t] \in Obj
    /\ slock = t <=> at[t] \in Searching \ {"list_lock"}
    /\ at[t] \in Searching => Cached(t, obj[t]) = {} /\ why[t] # "CHECK"
    /\ at[t] = "list_claim" =>
         /\ why[t] = "ACQUIRE" /\ Found(obj[t]) = {}
         /\ data[t] \in Data /\ threadCount[data[t]] = 0
    /\ at[t] = "list_unlock" /\ why[t] = "ACQUIRE" =>
         data[t] \in list /\ object[data[t]] = obj[t]
    /\ at[t] = "mutex_lock" =>
         data[t] \in Data /\ lockCount[t][data[t]] > 0 /\ object[data[t]] = obj[t]
    /\ at[t] \in Leaving => data[t] \in Data
    /\ at[t] = "stop_using" => lockCount[t][data[t]] = 0

\* A SyncData outside the list is unused; one with users is in it and counts them
\* all; its mutex is locked as long as it is owned.
DataOK(d) ==
    /\ d \in list <=> object[d] # Nil
    /\ d \notin list => threadCount[d] = 0
    /\ threadCount[d] >= Cardinality(Users(d))
    /\ owner[d] = Nil <=> depth[d] = 0

ObjectsApart == \A d, e \in list : object[d] = object[e] => d = e

\* Locks of d's mutex that t has, is about to take, and is about to give up.
Holds(t, d)    == IF owner[d] = t THEN depth[d] ELSE 0
Entering(t, d) == IF at[t] = "mutex_lock" /\ data[t] = d THEN 1 ELSE 0
Exiting(t, d)  == IF at[t] \in Leaving /\ data[t] = d THEN 1 ELSE 0

\* A thread's cache counts the locks it has but for the call under way, and its
\* entries of the SyncData's object; what it is inside of is in its cache.
EntriesOK(t) ==
    /\ \A d \in Data :
         /\ lockCount[t][d] + Exiting(t, d) = Holds(t, d) + Entering(t, d)
         /\ lockCount[t][d] > 0 => inside[t][object[d]] + Entering(t, d) = lockCount[t][d]
    /\ \A o \in Obj : inside[t][o] > 0 => Cached(t, o) # {}

IInv ==
    /\ SyncTypeOK
    /\ \A t \in SyncThread : CallOK(t) /\ EntriesOK(t)
    /\ \A d \in Data : DataOK(d)
    /\ ObjectsApart

-----------------------------------------------------------------------------
(* Consequences of the invariant.                                              *)

Labels == {"idle", "stop_using", "list_lock", "list_search", "list_claim",
           "list_unlock", "mutex_lock", "mutex_unlock"}

LEMMA UsersFinite == \A d : IsFiniteSet(Users(d)) /\ Cardinality(Users(d)) \in Nat
<1> TAKE d
<1>1. Users(d) \subseteq SyncThread
  BY DEF Users
<1> QED BY <1>1, FS_Subset, FS_CardinalityType, SyncAssumption

\* A SyncData with a user is counted and in the list, where nobody claims it.
LEMMA UsedIsCounted ==
  ASSUME IInv, NEW d \in Data, NEW t \in SyncThread, t \in Users(d)
  PROVE  threadCount[d] > 0 /\ d \in list /\ object[d] \in Obj
<1>1. Cardinality(Users(d)) # 0
  BY UsersFinite, FS_EmptySet
<1>2. threadCount[d] > 0
  BY <1>1, UsersFinite DEF IInv, DataOK, SyncTypeOK
<1> QED BY <1>2 DEF IInv, DataOK, SyncTypeOK

LEMMA CachedIsCounted ==
  ASSUME IInv, NEW d \in Data, NEW t \in SyncThread, lockCount[t][d] > 0
  PROVE  threadCount[d] > 0 /\ d \in list /\ object[d] \in Obj
  BY UsedIsCounted DEF Users

LEMMA CachedApart ==
  ASSUME IInv, NEW d \in Data, NEW e \in Data, NEW t \in SyncThread, NEW u \in SyncThread,
         lockCount[t][d] > 0, lockCount[u][e] > 0, object[d] = object[e]
  PROVE  d = e
  BY CachedIsCounted DEF IInv, ObjectsApart

\* A thread is inside of what its cache counts and it is not entering.
LEMMA InsideIsCached ==
  ASSUME IInv, NEW t \in SyncThread, NEW o \in Obj, inside[t][o] > 0
  PROVE  \E d \in Data : /\ lockCount[t][d] > 0 /\ object[d] = o
                         /\ inside[t][o] + Entering(t, d) = lockCount[t][d]
                         /\ owner[d] = t
<1>1. PICK d \in Data : lockCount[t][d] > 0 /\ object[d] = o
  BY DEF IInv, EntriesOK, Cached
<1>2. /\ inside[t][o] + Entering(t, d) = lockCount[t][d]
      /\ lockCount[t][d] + Exiting(t, d) = Holds(t, d) + Entering(t, d)
  BY <1>1 DEF IInv, EntriesOK
<1>3. inside[t][o] \in Nat /\ lockCount[t][d] \in Nat /\ Entering(t, d) \in Nat
      /\ Exiting(t, d) \in Nat /\ Holds(t, d) \in Nat
  BY DEF IInv, SyncTypeOK, Entering, Exiting, Holds
<1>4. Holds(t, d) > 0
  BY <1>2, <1>3
<1> QED BY <1>1, <1>2, <1>4 DEF Holds

-----------------------------------------------------------------------------
(* What the other threads know survives a step of t.                           *)

\* A step of t leaves alone what is the other threads' own, the locks they hold,
\* the objects of used SyncDatas, and what the list's lock protects while another
\* thread has it.
LeavesOthers(t) ==
    /\ \A u \in SyncThread \ {t} :
         /\ at'[u] = at[u] /\ why'[u] = why[u] /\ obj'[u] = obj[u] /\ data'[u] = data[u]
         /\ lockCount'[u] = lockCount[u] /\ inside'[u] = inside[u]
         /\ slock' = u <=> slock = u
         /\ \A d \in Data : Holds(u, d)' = Holds(u, d)
         /\ slock = u => /\ list' = list /\ object' = object
                         /\ \A d \in Data : threadCount[d] = 0 => threadCount'[d] = 0
    /\ \A d \in Data : threadCount[d] > 0 => object'[d] = object[d]
    /\ list \subseteq list'

LEMMA OthersKept ==
  ASSUME IInv, NEW t \in SyncThread, LeavesOthers(t), NEW u \in SyncThread \ {t}
  PROVE  CallOK(u)' /\ EntriesOK(u)'
<1>1. /\ at'[u] = at[u] /\ why'[u] = why[u] /\ obj'[u] = obj[u] /\ data'[u] = data[u]
      /\ lockCount'[u] = lockCount[u] /\ inside'[u] = inside[u]
      /\ slock' = u <=> slock = u
      /\ \A d \in Data : Holds(u, d)' = Holds(u, d)
      /\ slock = u => /\ list' = list /\ object' = object
                      /\ \A d \in Data : threadCount[d] = 0 => threadCount'[d] = 0
  BY DEF LeavesOthers
<1>2. \A d \in Data : lockCount[u][d] > 0 => object'[d] = object[d]
  BY CachedIsCounted DEF LeavesOthers
<1>3. \A o : Cached(u, o)' = {d \in Data : lockCount[u][d] > 0 /\ object'[d] = o}
  BY <1>1 DEF Cached
<1>4. \A o : Cached(u, o)' = Cached(u, o)
  BY <1>2, <1>3 DEF Cached
<1>5. CallOK(u) /\ EntriesOK(u)
  BY DEF IInv
<1>6. CallOK(u)'
  <2>1. slock = u => \A o : Found(o)' = Found(o)
    BY <1>1 DEF Found
  <2> QED BY <1>1, <1>2, <1>4, <1>5, <2>1 DEF CallOK, Searching
<1>7. \A d \in Data : Entering(u, d)' = Entering(u, d) /\ Exiting(u, d)' = Exiting(u, d)
  BY <1>1 DEF Entering, Exiting
<1> QED BY <1>1, <1>2, <1>4, <1>5, <1>6, <1>7 DEF EntriesOK

\* A SyncData stays counted when no thread starts using it.
LEMMA CountKept ==
  ASSUME NEW d \in Data, Users(d)' \subseteq Users(d),
         threadCount[d] >= Cardinality(Users(d)), threadCount[d] \in Nat,
         threadCount'[d] \in Nat, threadCount'[d] >= threadCount[d]
  PROVE  threadCount'[d] >= Cardinality(Users(d)')
<1>1. Cardinality(Users(d)') <= Cardinality(Users(d)) /\ Cardinality(Users(d)') \in Nat
  BY UsersFinite, FS_Subset, FS_CardinalityType
<1> QED BY <1>1, UsersFinite

\* The threads other than t use the same SyncDatas.
LEMMA OtherUsers ==
  ASSUME NEW t \in SyncThread, LeavesOthers(t), NEW d \in Data
  PROVE  Users(d)' \ {t} = Users(d) \ {t}
  BY DEF LeavesOthers, Users

LEMMA DatasKept ==
  ASSUME IInv, SyncTypeOK', NEW t \in SyncThread, LeavesOthers(t),
         UNCHANGED <<list, object, owner, depth>>,
         NEW d \in Data, t \in Users(d)' => t \in Users(d),
         threadCount'[d] >= threadCount[d], d \notin list => threadCount'[d] = 0
  PROVE  DataOK(d)'
<1>1. Users(d)' \subseteq Users(d)
  BY OtherUsers
<1>2. threadCount'[d] >= Cardinality(Users(d)')
  BY <1>1, CountKept DEF IInv, DataOK, SyncTypeOK
<1> QED BY <1>2 DEF IInv, DataOK

LEMMA StepKeeps ==
  ASSUME IInv, SyncTypeOK', NEW t \in SyncThread, LeavesOthers(t), CallOK(t)', EntriesOK(t)',
         \A d \in Data : DataOK(d)', ObjectsApart'
  PROVE  IInv'
  BY OthersKept DEF IInv

\* A step that changes no count keeps them exact if its thread uses no more.
LEMMA CountsUnchanged ==
  ASSUME IInv, SyncTypeOK', NEW t \in SyncThread, LeavesOthers(t),
         UNCHANGED <<list, object, threadCount, owner, depth>>,
         \A d \in Data : t \in Users(d)' => t \in Users(d)
  PROVE  \A d \in Data : DataOK(d)'
<1> TAKE d \in Data
<1>1. threadCount[d] \in Nat /\ (d \notin list => threadCount[d] = 0)
  BY DEF IInv, SyncTypeOK, DataOK
<1> QED BY <1>1, DatasKept

-----------------------------------------------------------------------------
(* The steps.                                                                  *)

\* A call that the caches cannot answer will search the list.
LEMMA SearchOK ==
  ASSUME IInv, NEW t \in SyncThread, NEW o \in Obj, Call(t, o), Cached(t, o) = {},
         \E w \in {"ACQUIRE", "RELEASE"} : why' = [why EXCEPT ![t] = w],
         GotoStep(t, "list_lock"),
         UNCHANGED <<list, object, threadCount, owner, depth, slock, lockCount, data, inside>>
  PROVE  IInv'
<1>1. /\ at[t] = "idle" /\ at' = [at EXCEPT ![t] = "list_lock"]
      /\ obj' = [obj EXCEPT ![t] = o] /\ syncLeft' = [syncLeft EXCEPT ![t] = @ - 1] /\ syncLeft[t] > 0
  BY DEF Call, GotoStep
<1>2. SyncTypeOK'
  BY <1>1 DEF IInv, SyncTypeOK
<1>3. LeavesOthers(t)
  BY <1>1 DEF LeavesOthers, Holds, IInv, SyncTypeOK
<1>4. CallOK(t)'
  BY <1>1 DEF IInv, SyncTypeOK, CallOK, Searching, Leaving, Cached
<1>5. \A d \in Data : Entering(t, d)' = Entering(t, d) /\ Exiting(t, d)' = Exiting(t, d)
                      /\ Holds(t, d)' = Holds(t, d)
  BY <1>1 DEF Entering, Exiting, Holds, Leaving, IInv, SyncTypeOK
<1>6. EntriesOK(t)'
  BY <1>5 DEF IInv, EntriesOK, Cached
<1>7. \A d \in Data : t \in Users(d)' => t \in Users(d)
  BY <1>1 DEF Users, IInv, SyncTypeOK
<1>8. \A d \in Data : DataOK(d)'
  BY <1>2, <1>3, <1>7, CountsUnchanged
<1> QED BY <1>2, <1>3, <1>4, <1>6, <1>8, StepKeeps DEF IInv, ObjectsApart

LEMMA EnterOK ==
  ASSUME IInv, NEW t \in SyncThread, NEW o \in Obj, Enter(t, o)
  PROVE  IInv'
<1>1. CASE Cached(t, o) = {}
  <2>1. GotoStep(t, "list_lock") /\ why' = [why EXCEPT ![t] = "ACQUIRE"]
        /\ UNCHANGED <<list, object, threadCount, owner, depth, slock, lockCount, data, inside>>
    BY <1>1 DEF Enter
  <2> QED BY <1>1, <2>1, SearchOK DEF Enter
<1>2. CASE Cached(t, o) # {}
  <2>1. PICK d \in Cached(t, o) :
          /\ lockCount' = [lockCount EXCEPT ![t][d] = @ + 1]
          /\ data' = [data EXCEPT ![t] = d]
          /\ at' = [at EXCEPT ![t] = "mutex_lock"]
    BY <1>2 DEF Enter, GotoStep
  <2>2. /\ at[t] = "idle" /\ obj' = [obj EXCEPT ![t] = o]
        /\ syncLeft' = [syncLeft EXCEPT ![t] = @ - 1] /\ syncLeft[t] > 0
        /\ why' = [why EXCEPT ![t] = "ACQUIRE"]
        /\ UNCHANGED <<list, object, threadCount, owner, depth, slock, inside>>
    BY DEF Enter, Call
  <2>3. d \in Data /\ lockCount[t][d] > 0 /\ object[d] = o
    BY <2>1 DEF Cached
  <2>4. SyncTypeOK'
    BY <2>1, <2>2, <2>3 DEF IInv, SyncTypeOK
  <2>5. LeavesOthers(t)
    BY <2>1, <2>2 DEF LeavesOthers, Holds, IInv, SyncTypeOK
  <2>6. CallOK(t)'
    <3>1. /\ at'[t] = "mutex_lock" /\ obj'[t] = o /\ data'[t] = d /\ slock' = slock
          /\ lockCount'[t][d] = lockCount[t][d] + 1 /\ object' = object
      BY <2>1, <2>2, <2>3 DEF IInv, SyncTypeOK
    <3>2. slock # t
      BY <2>2 DEF IInv, CallOK, Searching
    <3> QED BY <2>3, <3>1, <3>2 DEF CallOK, Searching, Leaving, IInv, SyncTypeOK
  <2>7. /\ lockCount'[t][d] = lockCount[t][d] + 1
        /\ \A e \in Data \ {d} : lockCount'[t][e] = lockCount[t][e]
    BY <2>1, <2>3 DEF IInv, SyncTypeOK
  <2>8. /\ \A e \in Data : /\ Entering(t, e) = 0 /\ Exiting(t, e) = 0 /\ Exiting(t, e)' = 0
                           /\ Holds(t, e)' = Holds(t, e) /\ Holds(t, e) \in Nat
                           /\ lockCount[t][e] \in Nat
                           /\ inside'[t] = inside[t]
                           /\ object[e] \in Obj => inside[t][object[e]] \in Nat
        /\ Entering(t, d)' = 1 /\ \A e \in Data \ {d} : Entering(t, e)' = 0
    BY <2>1, <2>2, <2>3 DEF Entering, Exiting, Holds, Leaving, IInv, SyncTypeOK
  <2>9. EntriesOK(t)'
    <3>1. \A p \in Obj : Cached(t, p) \subseteq Cached(t, p)'
      BY <2>2, <2>7, <2>8 DEF Cached
    <3>2. EntriesOK(t) /\ object[d] \in Obj
      BY <2>3 DEF IInv
    <3>3. \A p \in Obj : inside'[t][p] > 0 => Cached(t, p)' # {}
      BY <2>3, <2>8, <3>1, <3>2 DEF EntriesOK
    <3>4. ASSUME NEW e \in Data
          PROVE  /\ lockCount'[t][e] + Exiting(t, e)' = Holds(t, e)' + Entering(t, e)'
                 /\ lockCount'[t][e] > 0 =>
                      inside'[t][object'[e]] + Entering(t, e)' = lockCount'[t][e]
      <4>1. lockCount[t][e] = Holds(t, e)
            /\ (lockCount[t][e] > 0 => inside[t][object[e]] = lockCount[t][e])
        BY <2>8, <3>2, CachedIsCounted DEF EntriesOK
      <4> QED BY <2>2, <2>3, <2>7, <2>8, <4>1
    <3> QED BY <3>3, <3>4 DEF EntriesOK
  <2>10. \A e \in Data : t \in Users(e)' => t \in Users(e)
    BY <2>1, <2>2, <2>3, <2>7 DEF Users, IInv, SyncTypeOK
  <2>11. \A e \in Data : DataOK(e)'
    BY <2>2, <2>4, <2>5, <2>10, CountsUnchanged
  <2> QED BY <2>2, <2>4, <2>5, <2>6, <2>9, <2>11, StepKeeps DEF IInv, ObjectsApart
<1> QED BY <1>1, <1>2

LEMMA ExitOK ==
  ASSUME IInv, NEW t \in SyncThread, NEW o \in Obj, Exit(t, o)
  PROVE  IInv'
<1>1. CASE Cached(t, o) = {}
  <2>1. GotoStep(t, "list_lock") /\ why' = [why EXCEPT ![t] = "RELEASE"]
        /\ UNCHANGED <<list, object, threadCount, owner, depth, slock, lockCount, data, inside>>
    BY <1>1 DEF Exit
  <2> QED BY <1>1, <2>1, SearchOK DEF Exit
<1>2. CASE Cached(t, o) # {}
  <2>1. PICK d \in Cached(t, o) :
          /\ lockCount' = [lockCount EXCEPT ![t][d] = @ - 1]
          /\ data' = [data EXCEPT ![t] = d]
          /\ inside' = [inside EXCEPT ![t][o] = @ - 1]
          /\ at' = [at EXCEPT ![t] = IF lockCount[t][d] = 1 THEN "stop_using"
                                                            ELSE "mutex_unlock"]
    BY <1>2 DEF Exit, GotoStep
  <2>2. /\ at[t] = "idle" /\ obj' = [obj EXCEPT ![t] = o]
        /\ syncLeft' = [syncLeft EXCEPT ![t] = @ - 1] /\ syncLeft[t] > 0
        /\ why' = [why EXCEPT ![t] = "RELEASE"]
        /\ UNCHANGED <<list, object, threadCount, owner, depth, slock>>
    BY DEF Exit, Call
  <2>3. d \in Data /\ lockCount[t][d] > 0 /\ object[d] = o /\ lockCount[t][d] \in Nat
    BY <2>1 DEF Cached, IInv, SyncTypeOK
  <2>4. /\ \A e \in Data : /\ Entering(t, e) = 0 /\ Entering(t, e)' = 0 /\ Exiting(t, e) = 0
                           /\ Holds(t, e)' = Holds(t, e) /\ Holds(t, e) \in Nat
                           /\ lockCount[t][e] \in Nat
                           /\ object[e] \in Obj => inside[t][object[e]] \in Nat
        /\ Exiting(t, d)' = 1 /\ \A e \in Data \ {d} : Exiting(t, e)' = 0
    BY <2>1, <2>2, <2>3 DEF Entering, Exiting, Holds, Leaving, IInv, SyncTypeOK
  <2>5. \A e \in Data :
          lockCount[t][e] = Holds(t, e)
          /\ (lockCount[t][e] > 0 => inside[t][object[e]] = lockCount[t][e])
    BY <2>4, CachedIsCounted DEF IInv, EntriesOK
  <2>6. SyncTypeOK'
    <3>1. inside[t][o] - 1 \in Nat /\ lockCount[t][d] - 1 \in Nat
      BY <2>3, <2>5
    <3>2. inside' \in [SyncThread -> [Obj -> Nat]] /\ lockCount' \in [SyncThread -> [Data -> Nat]]
      BY <2>1, <2>3, <3>1 DEF IInv, SyncTypeOK
    <3> QED BY <2>1, <2>2, <2>3, <3>2 DEF IInv, SyncTypeOK
  <2>7. LeavesOthers(t)
    BY <2>1, <2>2 DEF LeavesOthers, Holds, IInv, SyncTypeOK
  <2>8. /\ lockCount'[t][d] = lockCount[t][d] - 1 /\ inside'[t][o] = inside[t][o] - 1
        /\ \A e \in Data \ {d} : lockCount'[t][e] = lockCount[t][e]
        /\ \A p \in Obj \ {o} : inside'[t][p] = inside[t][p]
    BY <2>1, <2>3 DEF IInv, SyncTypeOK
  <2>9. CallOK(t)'
    <3>1. /\ at'[t] = IF lockCount[t][d] = 1 THEN "stop_using" ELSE "mutex_unlock"
          /\ obj'[t] = o /\ data'[t] = d /\ slock' = slock
      BY <2>1, <2>2 DEF IInv, SyncTypeOK
    <3>2. slock # t
      BY <2>2 DEF IInv, CallOK, Searching
    <3> QED BY <2>3, <2>8, <3>1, <3>2 DEF CallOK, Searching, Leaving, IInv, SyncTypeOK
  <2>10. EntriesOK(t)'
    <3>1. ASSUME NEW p \in Obj, inside'[t][p] > 0
          PROVE  Cached(t, p)' # {}
      <4>1. CASE p = o
        BY <2>2, <2>3, <2>5, <2>8, <3>1, <4>1 DEF Cached
      <4>2. CASE p # o
        <5>1. PICK e \in Data : lockCount[t][e] > 0 /\ object[e] = p
          BY <2>8, <3>1, <4>2 DEF IInv, EntriesOK, Cached
        <5> QED BY <2>2, <2>3, <2>8, <4>2, <5>1 DEF Cached
      <4> QED BY <4>1, <4>2
    <3>2. ASSUME NEW e \in Data
          PROVE  /\ lockCount'[t][e] + Exiting(t, e)' = Holds(t, e)' + Entering(t, e)'
                 /\ lockCount'[t][e] > 0 =>
                      inside'[t][object'[e]] + Entering(t, e)' = lockCount'[t][e]
      <4>1. CASE e = d
        BY <2>2, <2>3, <2>4, <2>5, <2>8, <4>1
      <4>2. CASE e # d
        <5>1. lockCount[t][e] > 0 => object[e] \in Obj \ {o}
          BY <2>3, <4>2, CachedIsCounted, CachedApart
        <5> QED BY <2>2, <2>4, <2>5, <2>8, <4>2, <5>1
      <4> QED BY <4>1, <4>2
    <3> QED BY <3>1, <3>2 DEF EntriesOK
  <2>11. \A e \in Data : t \in Users(e)' => t \in Users(e)
    BY <2>1, <2>2, <2>3, <2>8 DEF Users, IInv, SyncTypeOK
  <2>12. \A e \in Data : DataOK(e)'
    BY <2>2, <2>6, <2>7, <2>11, CountsUnchanged
  <2> QED BY <2>2, <2>6, <2>7, <2>9, <2>10, <2>12, StepKeeps DEF IInv, ObjectsApart
<1> QED BY <1>1, <1>2

LEMMA StopUsingOK ==
  ASSUME IInv, NEW t \in SyncThread, StopUsing(t)
  PROVE  IInv'
<1>1. PICK d \in Data : d = data[t]
  BY DEF StopUsing, IInv, CallOK, Leaving
<1>2. /\ at[t] = "stop_using" /\ at' = [at EXCEPT ![t] = "mutex_unlock"]
      /\ threadCount' = [threadCount EXCEPT ![d] = @ - 1]
      /\ UNCHANGED <<list, object, owner, depth, slock, lockCount, why, obj, data,
                     inside, syncLeft>>
  BY <1>1 DEF StopUsing, GotoStep
<1>3. t \in Users(d) /\ lockCount[t][d] = 0
  BY <1>1, <1>2 DEF Users, IInv, CallOK
<1>4. threadCount[d] > 0 /\ d \in list /\ threadCount[d] \in Nat
  BY <1>3, UsedIsCounted DEF IInv, SyncTypeOK
<1>5. SyncTypeOK'
  <2>1. threadCount' \in [Data -> Nat]
    BY <1>2, <1>4 DEF IInv, SyncTypeOK
  <2> QED BY <1>2, <2>1 DEF IInv, SyncTypeOK
<1>6. LeavesOthers(t)
  <2>1. \A e \in Data : threadCount[e] = 0 => threadCount'[e] = 0
    BY <1>2, <1>4 DEF IInv, SyncTypeOK
  <2>2. \A u \in SyncThread \ {t} : at'[u] = at[u]
    BY <1>2 DEF IInv, SyncTypeOK
  <2> QED BY <1>2, <2>1, <2>2 DEF LeavesOthers, Holds
<1>7. CallOK(t)'
  BY <1>1, <1>2 DEF IInv, SyncTypeOK, CallOK, Searching, Leaving
<1>8. EntriesOK(t)'
  <2>1. \A e \in Data : /\ Entering(t, e)' = Entering(t, e) /\ Exiting(t, e)' = Exiting(t, e)
                        /\ Holds(t, e)' = Holds(t, e)
    BY <1>2 DEF Entering, Exiting, Holds, Leaving, IInv, SyncTypeOK
  <2> QED BY <1>2, <2>1 DEF IInv, EntriesOK, Cached
<1>9. ASSUME NEW e \in Data PROVE DataOK(e)'
  <2>1. Users(e)' = Users(e) \ {t} \/ (e # d /\ Users(e)' \subseteq Users(e))
    <3>1. t \in Users(e)' => e # d /\ t \in Users(e)
      BY <1>1, <1>2, <1>3 DEF Users, IInv, SyncTypeOK
    <3> QED BY <1>6, <3>1, OtherUsers
  <2>2. CASE e = d
    <3>1. Cardinality(Users(d) \ {t}) = Cardinality(Users(d)) - 1
      BY <1>3, UsersFinite, FS_RemoveElement
    <3>2. threadCount'[d] = threadCount[d] - 1
      BY <1>2 DEF IInv, SyncTypeOK
    <3>3. threadCount'[d] >= Cardinality(Users(d)')
      <4>1. threadCount[d] >= Cardinality(Users(d)) /\ Cardinality(Users(d)) \in Nat
        BY UsersFinite DEF IInv, DataOK
      <4>2. Cardinality(Users(d)') = Cardinality(Users(d)) - 1
        BY <2>1, <2>2, <3>1
      <4> QED BY <1>4, <3>2, <4>1, <4>2
    <3> QED BY <1>2, <1>4, <2>2, <3>3 DEF IInv, DataOK
  <2>3. CASE e # d
    <3>1. threadCount'[e] = threadCount[e] /\ threadCount[e] \in Nat
      BY <1>2, <2>3 DEF IInv, SyncTypeOK
    <3>2. t \in Users(e)' => t \in Users(e)
      BY <2>1
    <3>3. e \notin list => threadCount'[e] = 0
      BY <3>1 DEF IInv, DataOK
    <3> QED BY <1>2, <1>5, <1>6, <3>1, <3>2, <3>3, DatasKept
  <2> QED BY <2>2, <2>3
<1> QED BY <1>2, <1>5, <1>6, <1>7, <1>8, <1>9, StepKeeps DEF IInv, ObjectsApart

LEMMA ListLockOK ==
  ASSUME IInv, NEW t \in SyncThread, ListLock(t)
  PROVE  IInv'
<1>1. /\ at[t] = "list_lock" /\ slock = Nil /\ slock' = t
      /\ at' = [at EXCEPT ![t] = "list_search"]
      /\ UNCHANGED <<list, object, threadCount, owner, depth, lockCount, why, obj,
                     data, inside, syncLeft>>
  BY DEF ListLock, ListFree, GotoStep
<1>2. SyncTypeOK'
  BY <1>1 DEF IInv, SyncTypeOK
<1>3. LeavesOthers(t)
  <2>1. \A u \in SyncThread \ {t} : at'[u] = at[u] /\ slock' # u /\ slock # u
    BY <1>1, SyncAssumption DEF IInv, SyncTypeOK
  <2> QED BY <1>1, <2>1 DEF LeavesOthers, Holds
<1>4. CallOK(t)'
  BY <1>1 DEF IInv, SyncTypeOK, CallOK, Searching, Leaving, Cached
<1>5. \A d \in Data : Entering(t, d)' = Entering(t, d) /\ Exiting(t, d)' = Exiting(t, d)
                      /\ Holds(t, d)' = Holds(t, d)
  BY <1>1 DEF Entering, Exiting, Holds, Leaving, IInv, SyncTypeOK
<1>6. EntriesOK(t)'
  BY <1>1, <1>5 DEF IInv, EntriesOK, Cached
<1>7. \A d \in Data : t \in Users(d)' => t \in Users(d)
  BY <1>1 DEF Users, IInv, SyncTypeOK
<1> QED BY <1>1, <1>2, <1>3, <1>4, <1>6, <1>7, CountsUnchanged, StepKeeps DEF IInv, ObjectsApart

\* The lock of the list is t's.
LEMMA OnlyOneSearches ==
  ASSUME IInv, NEW t \in SyncThread, at[t] \in Searching \ {"list_lock"}
  PROVE  slock = t /\ \A u \in SyncThread \ {t} : slock # u
  BY DEF IInv, CallOK

LEMMA ListFoundOK ==
  ASSUME IInv, NEW t \in SyncThread, ListFound(t)
  PROVE  IInv'
<1>1. PICK d \in Found(obj[t]) :
        /\ threadCount' = [threadCount EXCEPT ![d] = @ + 1]
        /\ data' = [data EXCEPT ![t] = d]
  BY DEF ListFound
<1>2. /\ at[t] = "list_search" /\ at' = [at EXCEPT ![t] = "list_unlock"]
      /\ UNCHANGED <<list, object, owner, depth, slock, lockCount, why, obj, inside, syncLeft>>
  BY DEF ListFound, GotoStep
<1>3. d \in list /\ object[d] = obj[t] /\ d \in Data
  BY <1>1 DEF Found, IInv, SyncTypeOK
<1>4. SyncTypeOK'
  BY <1>1, <1>2, <1>3 DEF IInv, SyncTypeOK
<1>5. /\ at'[t] = "list_unlock" /\ data'[t] = d /\ threadCount'[d] = threadCount[d] + 1
      /\ \A e \in Data \ {d} : threadCount'[e] = threadCount[e]
      /\ \A e \in Data : threadCount[e] \in Nat
      /\ \A u \in SyncThread \ {t} : at'[u] = at[u] /\ data'[u] = data[u]
  BY <1>1, <1>2, <1>3 DEF IInv, SyncTypeOK
<1>6. LeavesOthers(t)
  BY <1>2, <1>5, OnlyOneSearches DEF LeavesOthers, Holds, Searching
<1>7. CallOK(t)'
  BY <1>2, <1>3, <1>5 DEF IInv, CallOK, Searching, Leaving, Cached
<1>8. \A e \in Data : Entering(t, e)' = Entering(t, e) /\ Exiting(t, e)' = Exiting(t, e)
                      /\ Holds(t, e)' = Holds(t, e)
  BY <1>2, <1>5 DEF Entering, Exiting, Holds, Leaving
<1>9. EntriesOK(t)'
  BY <1>2, <1>8 DEF IInv, EntriesOK, Cached
<1>10. ASSUME NEW e \in Data PROVE DataOK(e)'
  <2>1. CASE e = d
    <3>1. Users(d)' \subseteq Users(d) \cup {t}
      BY <1>3, <1>6, OtherUsers
    <3>2. /\ IsFiniteSet(Users(d) \cup {t}) /\ Cardinality(Users(d) \cup {t}) \in Nat
          /\ Cardinality(Users(d) \cup {t}) <= Cardinality(Users(d)) + 1
      <4> DEFINE U == Users(d)
      <4>1. IsFiniteSet(U) /\ Cardinality(U) \in Nat
        BY UsersFinite
      <4>2. IsFiniteSet(U \cup {t}) /\ (Cardinality(U \cup {t}) = Cardinality(U)
                                        \/ Cardinality(U \cup {t}) = Cardinality(U) + 1)
        BY <4>1, FS_AddElement
      <4> QED BY <4>1, <4>2
    <3>3. /\ Cardinality(Users(d)') <= Cardinality(Users(d) \cup {t})
          /\ Cardinality(Users(d)') \in Nat
      BY <3>1, <3>2, FS_Subset, FS_CardinalityType
    <3>4. threadCount[d] >= Cardinality(Users(d))
      BY <1>3 DEF IInv, DataOK
    <3>5. threadCount'[d] >= Cardinality(Users(d)')
      BY <1>3, <1>5, <3>2, <3>3, <3>4, UsersFinite
    <3> QED BY <1>2, <1>3, <2>1, <3>5 DEF IInv, DataOK
  <2>2. CASE e # d
    <3>1. t \in Users(e)' => t \in Users(e)
      BY <1>2, <1>5, <2>2 DEF Users
    <3>2. e \notin list => threadCount'[e] = 0
      BY <1>5, <2>2 DEF IInv, DataOK
    <3> QED BY <1>2, <1>4, <1>5, <1>6, <2>2, <3>1, <3>2, DatasKept
  <2> QED BY <2>1, <2>2
<1> QED BY <1>2, <1>4, <1>6, <1>7, <1>9, <1>10, StepKeeps DEF IInv, ObjectsApart

LEMMA ListNotFoundOK ==
  ASSUME IInv, NEW t \in SyncThread, ListNotFound(t)
  PROVE  IInv'
<1>1. /\ at[t] = "list_search" /\ Found(obj[t]) = {}
      /\ UNCHANGED <<list, object, threadCount, owner, depth, slock, lockCount, why,
                     obj, inside, syncLeft>>
  BY DEF ListNotFound
<1>2. \/ why[t] = "RELEASE" /\ at' = [at EXCEPT ![t] = "list_unlock"] /\ data' = data
      \/ /\ why[t] # "RELEASE" /\ at' = [at EXCEPT ![t] = "list_claim"]
         /\ \E d \in UnusedData \cup (Data \ list) : data' = [data EXCEPT ![t] = d]
  BY DEF ListNotFound, GotoStep
<1>3. \A d \in UnusedData \cup (Data \ list) : d \in Data /\ threadCount[d] = 0
  BY DEF UnusedData, IInv, SyncTypeOK, DataOK
<1>4. SyncTypeOK'
  <2>1. data' \in [SyncThread -> Data \cup {Nil}]
    BY <1>2, <1>3 DEF IInv, SyncTypeOK
  <2>2. at' \in [SyncThread -> Labels]
    BY <1>2 DEF IInv, SyncTypeOK, Labels
  <2> QED BY <1>1, <2>1, <2>2 DEF IInv, SyncTypeOK, Labels
<1>5. /\ \/ why[t] = "RELEASE" /\ at'[t] = "list_unlock"
         \/ /\ why[t] # "RELEASE" /\ at'[t] = "list_claim"
            /\ data'[t] \in Data /\ threadCount[data'[t]] = 0
      /\ \A u \in SyncThread \ {t} : at'[u] = at[u] /\ data'[u] = data[u]
  BY <1>2, <1>3 DEF IInv, SyncTypeOK
<1>6. LeavesOthers(t)
  BY <1>1, <1>5 DEF LeavesOthers, Holds
<1>7. CallOK(t)'
  <2>1. Found(obj[t])' = Found(obj[t]) /\ Cached(t, obj[t])' = Cached(t, obj[t])
    BY <1>1 DEF Found, Cached
  <2>2. CallOK(t) /\ why[t] \in {"ACQUIRE", "RELEASE", "CHECK"}
    BY DEF IInv, SyncTypeOK
  <2> QED BY <1>1, <1>5, <2>1, <2>2 DEF CallOK, Searching, Leaving
<1>8. \A d \in Data : Entering(t, d)' = Entering(t, d) /\ Exiting(t, d)' = Exiting(t, d)
                      /\ Holds(t, d)' = Holds(t, d)
  BY <1>1, <1>5 DEF Entering, Exiting, Holds, Leaving
<1>9. EntriesOK(t)'
  BY <1>1, <1>8 DEF IInv, EntriesOK, Cached
<1>10. \A d \in Data : t \in Users(d)' => t \in Users(d)
  BY <1>1, <1>5 DEF Users
<1> QED BY <1>1, <1>4, <1>6, <1>7, <1>9, <1>10, CountsUnchanged, StepKeeps DEF IInv, ObjectsApart

LEMMA ListClaimOK ==
  ASSUME IInv, NEW t \in SyncThread, ListClaim(t)
  PROVE  IInv'
<1>1. /\ at[t] = "list_claim" /\ why[t] = "ACQUIRE" /\ Found(obj[t]) = {} /\ obj[t] \in Obj
      /\ data[t] \in Data /\ threadCount[data[t]] = 0
  BY DEF ListClaim, IInv, CallOK
<1>2. PICK d \in Data : d = data[t]
  BY <1>1
<1>3. /\ object' = [object EXCEPT ![d] = obj[t]]
      /\ threadCount' = [threadCount EXCEPT ![d] = 1]
      /\ list' = list \cup {d}
      /\ at' = [at EXCEPT ![t] = "list_unlock"]
      /\ UNCHANGED <<owner, depth, slock, lockCount, why, obj, data, inside, syncLeft>>
  BY <1>2 DEF ListClaim, GotoStep
<1>4. SyncTypeOK'
  BY <1>1, <1>3 DEF IInv, SyncTypeOK
<1>5. /\ at'[t] = "list_unlock" /\ \A u \in SyncThread \ {t} : at'[u] = at[u]
      /\ object'[d] = obj[t] /\ \A e \in Data \ {d} : object'[e] = object[e]
      /\ threadCount'[d] = 1 /\ \A e \in Data \ {d} : threadCount'[e] = threadCount[e]
      /\ \A e \in Data : threadCount[e] \in Nat
  BY <1>3 DEF IInv, SyncTypeOK
<1>6. Users(d) = {} /\ \A u \in SyncThread : ~ (lockCount[u][d] > 0)
  <2>1. \A u \in SyncThread : u \notin Users(d)
    BY <1>1, <1>2, UsedIsCounted
  <2> QED BY <2>1 DEF Users
<1>7. LeavesOthers(t)
  <2>1. \A u \in SyncThread \ {t} : slock # u
    BY <1>1, OnlyOneSearches DEF Searching
  <2> QED BY <1>1, <1>2, <1>3, <1>5, <2>1 DEF LeavesOthers, Holds
<1>8. CallOK(t)'
  <2>1. Cached(t, obj[t])' = {}
    BY <1>1, <1>3, <1>5, <1>6 DEF Cached, IInv, CallOK, Searching
  <2> QED BY <1>1, <1>2, <1>3, <1>5, <2>1 DEF IInv, CallOK, Searching, Leaving
<1>9. EntriesOK(t)'
  <2>1. \A e \in Data : /\ Entering(t, e)' = Entering(t, e) /\ Exiting(t, e)' = Exiting(t, e)
                        /\ Holds(t, e)' = Holds(t, e)
    BY <1>1, <1>3, <1>5 DEF Entering, Exiting, Holds, Leaving
  <2>2. \A e \in Data : lockCount[t][e] > 0 => object'[e] = object[e]
    BY <1>5, <1>6
  <2>3. \A o \in Obj : Cached(t, o)' = Cached(t, o)
    BY <1>3, <2>2 DEF Cached
  <2> QED BY <1>3, <2>1, <2>2, <2>3 DEF IInv, EntriesOK
<1>10. ASSUME NEW e \in Data PROVE DataOK(e)'
  <2>1. CASE e = d
    <3>1. Users(d)' \subseteq {t}
      BY <1>6, <1>7, OtherUsers
    <3>2. Cardinality(Users(d)') <= 1
      <4>1. IsFiniteSet({t}) /\ Cardinality({t}) = 1
        BY FS_Singleton
      <4> QED BY <3>1, <4>1, FS_Subset
    <3>3. threadCount'[d] >= Cardinality(Users(d)')
      <4>1. IsFiniteSet({t})
        BY FS_Singleton
      <4>2. Cardinality(Users(d)') \in Nat
        BY <3>1, <4>1, FS_Subset, FS_CardinalityType
      <4> QED BY <1>5, <3>2, <4>2
    <3>4. d \in list' /\ object'[d] # Nil /\ (owner'[d] = Nil <=> depth'[d] = 0)
      BY <1>1, <1>3, <1>5, SyncAssumption DEF IInv, DataOK
    <3> QED BY <2>1, <3>3, <3>4 DEF DataOK
  <2>2. CASE e # d
    <3>1. Users(e)' \subseteq Users(e)
      <4>1. t \in Users(e)' => t \in Users(e)
        BY <1>1, <1>2, <1>3, <1>5, <2>2 DEF Users
      <4> QED BY <1>7, <4>1, OtherUsers
    <3>2. /\ threadCount'[e] = threadCount[e] /\ threadCount[e] \in Nat
          /\ object'[e] = object[e] /\ (e \in list' <=> e \in list)
      BY <1>3, <1>5, <2>2
    <3>3. threadCount'[e] >= Cardinality(Users(e)')
      <4>1. threadCount[e] >= Cardinality(Users(e))
        BY DEF IInv, DataOK
      <4> QED BY <3>1, <3>2, <4>1, CountKept
    <3> QED BY <1>3, <3>2, <3>3 DEF IInv, DataOK
  <2> QED BY <2>1, <2>2
<1>11. ObjectsApart'
  <2>1. \A e \in list : object[e] # obj[t]
    BY <1>1 DEF Found
  <2> QED BY <1>3, <1>5, <2>1 DEF IInv, SyncTypeOK, ObjectsApart
<1> QED BY <1>4, <1>7, <1>8, <1>9, <1>10, <1>11, StepKeeps

LEMMA ListUnlockOK ==
  ASSUME IInv, NEW t \in SyncThread, ListUnlock(t)
  PROVE  IInv'
<1>1. /\ at[t] = "list_unlock" /\ slock' = Nil
      /\ UNCHANGED <<list, object, threadCount, owner, depth, inside, syncLeft>>
  BY DEF ListUnlock
<1>2. slock = t /\ \A u \in SyncThread \ {t} : slock # u /\ slock' # u
  BY <1>1, OnlyOneSearches, SyncAssumption DEF Searching
<1>3. Cached(t, obj[t]) = {} /\ obj[t] \in Obj /\ Nil # t
  BY <1>1, SyncAssumption DEF IInv, CallOK, Searching
<1>4. CASE why[t] = "ACQUIRE"
  <2>1. PICK d \in Data : d = data[t]
    BY <1>1, <1>4 DEF IInv, CallOK, SyncTypeOK
  <2>2. /\ lockCount' = [lockCount EXCEPT ![t][d] = 1]
        /\ at' = [at EXCEPT ![t] = "mutex_lock"]
        /\ UNCHANGED <<why, obj, data>>
    BY <1>4, <2>1 DEF ListUnlock, GotoStep
  <2>3. object[d] = obj[t] /\ d \in list
    BY <1>1, <1>4, <2>1 DEF IInv, CallOK
  <2>4. lockCount[t][d] = 0
    BY <1>3, <2>3 DEF Cached, IInv, SyncTypeOK
  <2>5. SyncTypeOK'
    BY <1>1, <2>2 DEF IInv, SyncTypeOK
  <2>6. /\ at'[t] = "mutex_lock" /\ lockCount'[t][d] = 1
        /\ \A e \in Data \ {d} : lockCount'[t][e] = lockCount[t][e]
        /\ \A e \in Data : lockCount[t][e] \in Nat
        /\ \A u \in SyncThread \ {t} : at'[u] = at[u] /\ lockCount'[u] = lockCount[u]
    BY <2>2 DEF IInv, SyncTypeOK
  <2>7. LeavesOthers(t)
    BY <1>1, <1>2, <2>2, <2>6 DEF LeavesOthers, Holds
  <2>8. CallOK(t)'
    BY <1>1, <1>3, <2>1, <2>2, <2>3, <2>6 DEF CallOK, Searching, Leaving
  <2>9. /\ \A e \in Data : /\ Entering(t, e) = 0 /\ Exiting(t, e) = 0 /\ Exiting(t, e)' = 0
                           /\ Holds(t, e)' = Holds(t, e) /\ Holds(t, e) \in Nat
        /\ Entering(t, d)' = 1 /\ \A e \in Data \ {d} : Entering(t, e)' = 0
    BY <1>1, <2>1, <2>2, <2>6 DEF Entering, Exiting, Holds, Leaving, IInv, SyncTypeOK
  <2>10. EntriesOK(t)'
    <3>1. EntriesOK(t) /\ inside[t][obj[t]] = 0
      <4>1. EntriesOK(t) /\ inside[t][obj[t]] \in Nat
        BY <1>3 DEF IInv, SyncTypeOK
      <4> QED BY <1>3, <4>1 DEF EntriesOK
    <3>2. ASSUME NEW o \in Obj, inside'[t][o] > 0
          PROVE  Cached(t, o)' # {}
      <4>1. PICK e \in Data : lockCount[t][e] > 0 /\ object[e] = o
        BY <1>1, <3>1, <3>2 DEF EntriesOK, Cached
      <4> QED BY <1>1, <2>4, <2>6, <4>1 DEF Cached
    <3>3. ASSUME NEW e \in Data
          PROVE  /\ lockCount'[t][e] + Exiting(t, e)' = Holds(t, e)' + Entering(t, e)'
                 /\ lockCount'[t][e] > 0 =>
                      inside'[t][object'[e]] + Entering(t, e)' = lockCount'[t][e]
      <4>1. CASE e = d
        <5>1. Holds(t, d) = 0
          BY <2>4, <2>9, <3>1 DEF EntriesOK
        <5> QED BY <1>1, <2>3, <2>6, <2>9, <3>1, <4>1, <5>1
      <4>2. CASE e # d
        BY <1>1, <2>6, <2>9, <3>1, <4>2 DEF EntriesOK
      <4> QED BY <4>1, <4>2
    <3> QED BY <3>2, <3>3 DEF EntriesOK
  <2>11. \A e \in Data : t \in Users(e)' => t \in Users(e)
    BY <1>1, <1>4, <2>1, <2>2, <2>6 DEF Users
  <2> QED BY <1>1, <2>5, <2>7, <2>8, <2>10, <2>11, CountsUnchanged, StepKeeps
          DEF IInv, ObjectsApart
<1>5. CASE why[t] # "ACQUIRE"
  <2>1. Return(t) /\ UNCHANGED lockCount
    BY <1>5 DEF ListUnlock
  <2>2. SyncTypeOK'
    BY <1>1, <2>1 DEF Return, GotoStep, IInv, SyncTypeOK
  <2>3. /\ at'[t] = "idle"
        /\ \A u \in SyncThread \ {t} : at'[u] = at[u] /\ why'[u] = why[u] /\ obj'[u] = obj[u]
                                   /\ data'[u] = data[u]
    BY <2>1 DEF Return, GotoStep, IInv, SyncTypeOK
  <2>4. LeavesOthers(t)
    BY <1>1, <1>2, <2>1, <2>3 DEF LeavesOthers, Holds
  <2>5. CallOK(t)'
    BY <1>1, <1>3, <2>3 DEF CallOK, Searching, Leaving
  <2>6. \A d \in Data : Entering(t, d)' = Entering(t, d) /\ Exiting(t, d)' = Exiting(t, d)
                        /\ Holds(t, d)' = Holds(t, d)
    BY <1>1, <2>3 DEF Entering, Exiting, Holds, Leaving
  <2>7. EntriesOK(t)'
    BY <1>1, <2>1, <2>6 DEF IInv, EntriesOK, Cached
  <2>8. \A d \in Data : t \in Users(d)' => t \in Users(d)
    BY <2>1, <2>3 DEF Users
  <2> QED BY <1>1, <2>2, <2>4, <2>5, <2>7, <2>8, CountsUnchanged, StepKeeps
          DEF IInv, ObjectsApart
<1> QED BY <1>4, <1>5

LEMMA MutexLockOK ==
  ASSUME IInv, NEW t \in SyncThread, MutexLock(t)
  PROVE  IInv'
<1>1. PICK d \in Data : d = data[t]
  BY DEF MutexLock, IInv, CallOK
<1>2. PICK o \in Obj : o = obj[t]
  BY DEF MutexLock, IInv, CallOK
<1>3. /\ at[t] = "mutex_lock" /\ owner[d] \in {Nil, t}
      /\ owner' = [owner EXCEPT ![d] = t]
      /\ depth' = [depth EXCEPT ![d] = @ + 1]
      /\ inside' = [inside EXCEPT ![t][o] = @ + 1]
      /\ Return(t)
      /\ UNCHANGED <<list, object, threadCount, slock, lockCount, syncLeft>>
  BY <1>1, <1>2 DEF MutexLock
<1>4. lockCount[t][d] > 0 /\ object[d] = o /\ slock # t
  BY <1>1, <1>2, <1>3 DEF IInv, CallOK, Searching
<1>5. SyncTypeOK'
  <2>1. owner' \in [Data -> SyncThread \cup {Nil}] /\ depth' \in [Data -> Nat]
        /\ inside' \in [SyncThread -> [Obj -> Nat]]
    BY <1>3 DEF IInv, SyncTypeOK
  <2> QED BY <1>3, <2>1 DEF Return, GotoStep, IInv, SyncTypeOK
<1>6. /\ at'[t] = "idle"
      /\ \A u \in SyncThread \ {t} : at'[u] = at[u] /\ why'[u] = why[u] /\ obj'[u] = obj[u]
                                 /\ data'[u] = data[u] /\ inside'[u] = inside[u]
      /\ owner'[d] = t /\ depth'[d] = depth[d] + 1
      /\ \A e \in Data \ {d} : owner'[e] = owner[e] /\ depth'[e] = depth[e]
      /\ inside'[t][o] = inside[t][o] + 1
      /\ \A p \in Obj \ {o} : inside'[t][p] = inside[t][p]
      /\ \A e \in Data : depth[e] \in Nat /\ lockCount[t][e] \in Nat
      /\ \A p \in Obj : inside[t][p] \in Nat
  BY <1>3 DEF Return, GotoStep, IInv, SyncTypeOK
<1>7. LeavesOthers(t)
  <2>1. \A u \in SyncThread \ {t}, e \in Data : Holds(u, e)' = Holds(u, e)
    BY <1>3, <1>6, SyncAssumption DEF Holds
  <2> QED BY <1>3, <1>6, <2>1 DEF LeavesOthers
<1>8. CallOK(t)'
  BY <1>3, <1>4, <1>6 DEF CallOK, Searching, Leaving
<1>9. /\ \A e \in Data : Exiting(t, e) = 0 /\ Exiting(t, e)' = 0 /\ Entering(t, e)' = 0
      /\ Entering(t, d) = 1 /\ \A e \in Data \ {d} : Entering(t, e) = 0
      /\ \A e \in Data \ {d} : Holds(t, e)' = Holds(t, e)
      /\ Holds(t, d)' = Holds(t, d) + 1 /\ \A e \in Data : Holds(t, e) \in Nat
  <2>1. owner[d] = Nil => depth[d] = 0
    BY DEF IInv, DataOK
  <2> QED BY <1>1, <1>3, <1>6, <2>1, SyncAssumption DEF Entering, Exiting, Holds, Leaving
<1>10. EntriesOK(t)'
  <2>1. EntriesOK(t)
    BY DEF IInv
  <2>2. ASSUME NEW p \in Obj, inside'[t][p] > 0
        PROVE  Cached(t, p)' # {}
    <3>1. \E e \in Data : lockCount[t][e] > 0 /\ object[e] = p
      BY <1>4, <1>6, <2>1, <2>2 DEF EntriesOK, Cached
    <3> QED BY <1>3, <3>1 DEF Cached
  <2>3. ASSUME NEW e \in Data
        PROVE  /\ lockCount'[t][e] + Exiting(t, e)' = Holds(t, e)' + Entering(t, e)'
               /\ lockCount'[t][e] > 0 =>
                    inside'[t][object'[e]] + Entering(t, e)' = lockCount'[t][e]
    <3>1. CASE e = d
      BY <1>3, <1>4, <1>6, <1>9, <2>1, <3>1 DEF EntriesOK
    <3>2. CASE e # d
      <4>1. lockCount[t][e] > 0 => object[e] \in Obj \ {o}
        BY <1>4, <3>2, CachedIsCounted, CachedApart
      <4> QED BY <1>3, <1>6, <1>9, <2>1, <3>2, <4>1 DEF EntriesOK
    <3> QED BY <3>1, <3>2
  <2> QED BY <2>2, <2>3 DEF EntriesOK
<1>11. ASSUME NEW e \in Data PROVE DataOK(e)'
  <2>1. Users(e)' \subseteq Users(e)
    <3>1. t \in Users(e)' => t \in Users(e)
      BY <1>3, <1>6 DEF Users
    <3> QED BY <1>7, <3>1, OtherUsers
  <2>2. threadCount'[e] >= Cardinality(Users(e)')
    <3>1. threadCount[e] >= Cardinality(Users(e)) /\ threadCount[e] \in Nat
          /\ threadCount' = threadCount
      BY <1>3 DEF IInv, DataOK, SyncTypeOK
    <3> QED BY <2>1, <3>1, CountKept
  <2>3. owner'[e] = Nil <=> depth'[e] = 0
    BY <1>6, SyncAssumption DEF IInv, DataOK
  <2> QED BY <1>3, <2>2, <2>3 DEF IInv, DataOK
<1> QED BY <1>3, <1>5, <1>7, <1>8, <1>10, <1>11, StepKeeps DEF IInv, ObjectsApart

\* A thread that gives a mutex back has it once more than its cache says.
LEMMA LeavesWhatItHas ==
  ASSUME IInv, NEW t \in SyncThread, at[t] \in Leaving
  PROVE  /\ data[t] \in Data /\ owner[data[t]] = t
         /\ lockCount[t][data[t]] + 1 = depth[data[t]] /\ depth[data[t]] \in Nat
<1>1. PICK d \in Data : d = data[t]
  BY DEF IInv, CallOK
<1>2. Exiting(t, d) = 1 /\ Entering(t, d) = 0
      /\ lockCount[t][d] \in Nat /\ depth[d] \in Nat
  BY <1>1 DEF Entering, Exiting, Leaving, IInv, SyncTypeOK
<1>3. lockCount[t][d] + 1 = Holds(t, d) + 0
  BY <1>2 DEF IInv, EntriesOK
<1>4. owner[d] = t
  BY <1>2, <1>3 DEF Holds
<1> QED BY <1>1, <1>2, <1>3, <1>4 DEF Holds

LEMMA MutexUnlockOK ==
  ASSUME IInv, NEW t \in SyncThread, MutexUnlock(t)
  PROVE  IInv'
<1>1. at[t] \in Leaving
  BY DEF MutexUnlock, Leaving
<1>2. PICK d \in Data : d = data[t]
  BY <1>1, LeavesWhatItHas
<1>3. /\ at[t] = "mutex_unlock"
      /\ owner' = [owner EXCEPT ![d] = IF depth[d] = 1 THEN Nil ELSE @]
      /\ depth' = [depth EXCEPT ![d] = @ - 1]
      /\ Return(t)
      /\ UNCHANGED <<list, object, threadCount, slock, lockCount, inside, syncLeft>>
  BY <1>2 DEF MutexUnlock
<1>4. owner[d] = t /\ lockCount[t][d] + 1 = depth[d] /\ depth[d] - 1 \in Nat
      /\ lockCount[t][d] \in Nat
  BY <1>1, <1>2, LeavesWhatItHas DEF IInv, SyncTypeOK
<1>5. SyncTypeOK'
  <2>1. owner' \in [Data -> SyncThread \cup {Nil}] /\ depth' \in [Data -> Nat]
    BY <1>3, <1>4 DEF IInv, SyncTypeOK
  <2> QED BY <1>3, <2>1 DEF Return, GotoStep, IInv, SyncTypeOK
<1>6. /\ at'[t] = "idle"
      /\ \A u \in SyncThread \ {t} : at'[u] = at[u] /\ why'[u] = why[u] /\ obj'[u] = obj[u]
                                 /\ data'[u] = data[u]
      /\ owner'[d] = (IF depth[d] = 1 THEN Nil ELSE t) /\ depth'[d] = depth[d] - 1
      /\ \A e \in Data \ {d} : owner'[e] = owner[e] /\ depth'[e] = depth[e]
      /\ \A e \in Data : depth[e] \in Nat
  BY <1>3, <1>4 DEF Return, GotoStep, IInv, SyncTypeOK
<1>7. LeavesOthers(t)
  <2>1. \A u \in SyncThread \ {t}, e \in Data : Holds(u, e)' = Holds(u, e)
    BY <1>3, <1>4, <1>6, SyncAssumption DEF Holds
  <2> QED BY <1>3, <1>6, <2>1 DEF LeavesOthers
<1>8. CallOK(t)'
  <2>1. slock # t
    BY <1>3 DEF IInv, CallOK, Searching
  <2> QED BY <1>3, <1>6, <2>1 DEF CallOK, Searching, Leaving
<1>9. /\ \A e \in Data : Entering(t, e) = 0 /\ Entering(t, e)' = 0 /\ Exiting(t, e)' = 0
      /\ Exiting(t, d) = 1 /\ \A e \in Data \ {d} : Exiting(t, e) = 0
      /\ \A e \in Data \ {d} : Holds(t, e)' = Holds(t, e)
      /\ Holds(t, d)' = depth[d] - 1
  <2>1. Holds(t, d)' = depth[d] - 1
    BY <1>4, <1>6, SyncAssumption DEF Holds
  <2> QED BY <1>1, <1>2, <1>3, <1>6, <2>1 DEF Entering, Exiting, Holds, Leaving
<1>10. EntriesOK(t)'
  <2>1. EntriesOK(t) /\ \A o : Cached(t, o)' = Cached(t, o)
    BY <1>3 DEF IInv, Cached
  <2>2. ASSUME NEW e \in Data
        PROVE  lockCount'[t][e] + Exiting(t, e)' = Holds(t, e)' + Entering(t, e)'
    <3>1. CASE e = d
      BY <1>3, <1>4, <1>9, <3>1
    <3>2. CASE e # d
      BY <1>3, <1>9, <2>1, <3>2 DEF EntriesOK
    <3> QED BY <3>1, <3>2
  <2> QED BY <1>3, <1>9, <2>1, <2>2 DEF EntriesOK
<1>11. ASSUME NEW e \in Data PROVE DataOK(e)'
  <2>1. Users(e)' \subseteq Users(e)
    <3>1. t \in Users(e)' => t \in Users(e)
      BY <1>3, <1>6 DEF Users
    <3> QED BY <1>7, <3>1, OtherUsers
  <2>2. threadCount'[e] >= Cardinality(Users(e)')
    <3>1. threadCount[e] >= Cardinality(Users(e)) /\ threadCount[e] \in Nat
          /\ threadCount' = threadCount
      BY <1>3 DEF IInv, DataOK, SyncTypeOK
    <3> QED BY <2>1, <3>1, CountKept
  <2>3. owner'[e] = Nil <=> depth'[e] = 0
    BY <1>4, <1>6, SyncAssumption DEF IInv, DataOK
  <2> QED BY <1>3, <2>2, <2>3 DEF IInv, DataOK
<1> QED BY <1>3, <1>5, <1>7, <1>8, <1>10, <1>11, StepKeeps DEF IInv, ObjectsApart

-----------------------------------------------------------------------------
(* The theorems.                                                               *)

LEMMA InitOK == SyncInit => IInv
<1> SUFFICES ASSUME SyncInit PROVE IInv
  OBVIOUS
<1>1. SyncTypeOK /\ ObjectsApart
  BY SyncAssumption DEF SyncInit, SyncTypeOK, ObjectsApart
<1>2. ASSUME NEW t \in SyncThread PROVE CallOK(t) /\ EntriesOK(t)
  <2>1. CallOK(t)
    BY SyncAssumption DEF SyncInit, CallOK, Searching, Leaving
  <2>2. EntriesOK(t)
    BY SyncAssumption DEF SyncInit, EntriesOK, Entering, Exiting, Holds, Leaving
  <2> QED BY <2>1, <2>2
<1>3. ASSUME NEW d \in Data PROVE DataOK(d)
  <2>1. Users(d) = {}
    BY DEF SyncInit, Users
  <2> QED BY <2>1, FS_EmptySet DEF SyncInit, DataOK
<1> QED BY <1>1, <1>2, <1>3 DEF IInv

LEMMA NextOK == IInv /\ [SyncNext]_syncVars => IInv'
<1> SUFFICES ASSUME IInv, [SyncNext]_syncVars PROVE IInv'
  OBVIOUS
<1>1. CASE UNCHANGED syncVars
  <2>1. SyncTypeOK' /\ ObjectsApart'
    BY <1>1 DEF syncVars, IInv, SyncTypeOK, ObjectsApart
  <2>2. \A t \in SyncThread : CallOK(t)'
    BY <1>1 DEF syncVars, IInv, CallOK, Cached, Found
  <2>3. \A t \in SyncThread : EntriesOK(t)'
    BY <1>1 DEF syncVars, IInv, EntriesOK, Cached, Entering, Exiting, Holds
  <2>4. \A d \in Data : DataOK(d)'
    BY <1>1 DEF syncVars, IInv, DataOK, Users
  <2> QED BY <2>1, <2>2, <2>3, <2>4 DEF IInv
<1>2. CASE \E t \in SyncThread, o \in Obj : Enter(t, o) \/ Exit(t, o)
  BY <1>2, EnterOK, ExitOK
<1>3. ASSUME NEW t \in SyncThread, SyncStep(t) PROVE IInv'
  BY <1>3, StopUsingOK, ListLockOK, ListFoundOK, ListNotFoundOK, ListClaimOK,
     ListUnlockOK, MutexLockOK, MutexUnlockOK DEF SyncStep
<1> QED BY <1>1, <1>2, <1>3 DEF SyncNext

LEMMA Invariance == SyncSpec => []IInv
BY InitOK, NextOK, PTL DEF SyncSpec

\* No two threads are inside one object, whatever they enter and exit, though a
\* SyncData is given up, and may be recycled for another object, before its mutex
\* is unlocked.
THEOREM SynchronizedExcludes == SyncSpec => []MutualExclusion
<1>1. IInv => MutualExclusion
  <2> SUFFICES ASSUME IInv, NEW t \in SyncThread, NEW u \in SyncThread, NEW o \in Obj,
                      inside[t][o] > 0, inside[u][o] > 0
               PROVE  t = u
    BY DEF MutualExclusion
  <2>1. PICK d \in Data : lockCount[t][d] > 0 /\ object[d] = o /\ owner[d] = t
    BY InsideIsCached
  <2>2. PICK e \in Data : lockCount[u][e] > 0 /\ object[e] = o /\ owner[e] = u
    BY InsideIsCached
  <2> QED BY <2>1, <2>2, CachedApart
<1> QED BY <1>1, Invariance, PTL

\* List, caches and mutexes agree: an object has one SyncData, none in use counts
\* as unused, and a thread has in its cache what it is inside of, with as many
\* entries as it has locks.  objc_sync_exit refuses exactly the objects the thread
\* is not inside of and unlocks only mutexes the thread owns; a thread that waits for a mutex waits for
\* one inside the object it wants, or for one about to unlock.
THEOREM ListStaysConsistent == SyncSpec => []ListConsistent
<1>1. IInv => ListConsistent
  <2> SUFFICES ASSUME IInv PROVE ListConsistent
    OBVIOUS
  <2>1. ExitChecksOwner
    <3>1. ASSUME NEW t \in SyncThread, at[t] \in Searching PROVE inside[t][obj[t]] = 0
      <4>1. Cached(t, obj[t]) = {} /\ obj[t] \in Obj
        BY <3>1 DEF IInv, CallOK, Searching
      <4>2. inside[t][obj[t]] \in Nat /\ ~ (inside[t][obj[t]] > 0)
        BY <4>1 DEF IInv, EntriesOK, SyncTypeOK
      <4> QED BY <4>2
    <3> QED BY <3>1, LeavesWhatItHas DEF ExitChecksOwner, Searching, Leaving
  <2>2. WaitsForOwner
    <3> SUFFICES ASSUME NEW t \in SyncThread, NEW u \in SyncThread,
                        at[t] = "mutex_lock", owner[data[t]] = u, u # t,
                        ~ (at[u] \in Leaving /\ data[u] = data[t])
                 PROVE  inside[u][obj[t]] > 0
      BY DEF WaitsForOwner, Leaving
    <3>1. PICK d \in Data : d = data[t]
      BY DEF IInv, CallOK
    <3>2. object[d] = obj[t] /\ obj[t] \in Obj
      BY <3>1 DEF IInv, CallOK
    <3>3. Holds(u, d) > 0 /\ Holds(u, d) \in Nat
      BY <3>1, SyncAssumption DEF Holds, IInv, DataOK, SyncTypeOK
    <3>4. Exiting(u, d) = 0 /\ Entering(u, d) \in Nat /\ lockCount[u][d] \in Nat
          /\ inside[u][obj[t]] \in Nat
      BY <3>1, <3>2 DEF Exiting, Entering, IInv, SyncTypeOK
    <3>5. lockCount[u][d] = Holds(u, d) + Entering(u, d)
      BY <3>4 DEF IInv, EntriesOK
    <3>6. inside[u][obj[t]] + Entering(u, d) = lockCount[u][d]
      BY <3>2, <3>3, <3>4, <3>5 DEF IInv, EntriesOK
    <3> QED BY <3>3, <3>4, <3>5, <3>6
  <2>3. UsersAgree
    <3>1. ASSUME NEW d \in Data PROVE Cardinality(Users(d)) <= threadCount[d]
      BY UsersFinite DEF IInv, DataOK, SyncTypeOK
    <3>2. ASSUME NEW t \in SyncThread, NEW d \in Data, ~ InCall(t, d)
          PROVE  /\ lockCount[t][d] = IF owner[d] = t THEN depth[d] ELSE 0
                 /\ lockCount[t][d] > 0 => d \in list /\ inside[t][object[d]] = lockCount[t][d]
      <4>1. Entering(t, d) = 0 /\ Exiting(t, d) = 0
        BY <3>2 DEF InCall, Entering, Exiting, Leaving
      <4>2. lockCount[t][d] \in Nat /\ Holds(t, d) \in Nat
        BY DEF IInv, SyncTypeOK, Holds
      <4>3. lockCount[t][d] = Holds(t, d)
        BY <4>1, <4>2 DEF IInv, EntriesOK
      <4>4. ASSUME lockCount[t][d] > 0
            PROVE  d \in list /\ inside[t][object[d]] = lockCount[t][d]
        <5>1. d \in list /\ object[d] \in Obj
          BY <4>4, CachedIsCounted
        <5>2. inside[t][object[d]] \in Nat
          BY <5>1 DEF IInv, SyncTypeOK
        <5> QED BY <4>1, <4>2, <4>4, <5>1, <5>2 DEF IInv, EntriesOK
      <4> QED BY <4>3, <4>4 DEF Holds
    <3>3. \A t \in SyncThread, o \in Obj : inside[t][o] > 0 => Cached(t, o) # {}
      BY DEF IInv, EntriesOK
    <3> QED BY <3>1, <3>2, <3>3 DEF IInv, ObjectsApart, UsersAgree
  <2> QED BY <2>1, <2>2, <2>3 DEF IInv, ListConsistent
<1> QED BY <1>1, Invariance, PTL

-----------------------------------------------------------------------------
(***************************************************************************)
(* Debugger mode: for any threads, stopped anywhere, and whatever the      *)
(* debugger asks for, its calls are excluded from what the threads are     *)
(* doing under the locks that debugger mode must have or checks.           *)
(*                                                                         *)
(* The inductive invariant carries                                         *)
(*   - that a function drops every lock it takes, so that a call of the    *)
(*     debugger that has ended is inside of none (Closes, UsingOK);        *)
(*   - that the mode, once it has begun, excludes the threads from the     *)
(*     locks its variables say it has, and that the debugger's call is     *)
(*     inside of no lock in a stronger way (StoppedOK);                    *)
(*   - how the mode, its thread and its count go together (ModeOK).        *)
(***************************************************************************)
Operation == [lock : Lock, mode : 0 .. 2]

\* A function drops every lock that it takes.
Closes(s) ==
    \A i \in DOMAIN s : s[i].mode # 0 =>
        \E j \in DOMAIN s : j > i /\ s[j].lock = s[i].lock /\ s[j].mode = 0

\* Outside of the mode the debugger has no call under way and is inside of no lock.
ModeOK ==
    /\ DebuggerMode = DEBUGGER_OFF => todo[gdb] = <<>> /\ DebuggerModeCount = 0
    /\ trapped => DebuggerMode = DEBUGGER_PARTIAL
    /\ DebuggerMode # DEBUGGER_OFF => DebuggerModeThread \in AppThread /\ DebuggerModeCount > 0
    /\ DebuggerModeCount + requests <= Requests
    /\ DebuggerMode = DEBUGGER_FULL => \A l \in Managed : debugger[l] = RDWR

\* gdb's call has yet to drop the locks it is inside of.
UsingOK ==
    /\ Closes(todo[gdb])
    /\ \A l \in Managed : using[l] # 0 =>
         \E j \in DOMAIN todo[gdb] : todo[gdb][j].lock = l /\ todo[gdb][j].mode = 0

\* What the mode has excludes the stopped threads, and what gdb's call is inside of
\* the mode has.
StoppedOK ==
    DebuggerMode # DEBUGGER_OFF =>
        /\ debugger["cacheUpdateLock"] = RDWR
        /\ \A l \in Managed \ {"loadMethodLock"} :
             /\ debugger[l] = RDWR => \A t \in AppThread : holds[l][t] = 0
             /\ debugger[l] = RDONLY => \A t \in AppThread : holds[l][t] # RDWR
             /\ using[l] <= debugger[l]
        /\ \A t \in AppThread : holds["slock"][t] = 0

DebuggerIInv == DebuggerTypeOK /\ ModeOK /\ UsingOK /\ StoppedOK /\ ModeHoldsItsLocks

USE DebuggerLocksAssumption DEF DEBUGGER_OFF, DEBUGGER_PARTIAL, DEBUGGER_FULL, RDONLY, RDWR

-----------------------------------------------------------------------------
(* The functions.                                                              *)

\* A function that goes on with another.
LEMMA OneAfterTheOther ==
  ASSUME NEW r \in Seq(Operation), NEW s \in Seq(Operation)
  PROVE  /\ r \o s \in Seq(Operation) /\ Len(r \o s) = Len(r) + Len(s)
         /\ \A i \in 1 .. Len(r) : (r \o s)[i] = r[i]
         /\ \A i \in 1 .. Len(s) : (r \o s)[i + Len(r)] = s[i]
         /\ Len(r) \in Nat /\ Len(s) \in Nat
         /\ DOMAIN r = 1 .. Len(r) /\ DOMAIN s = 1 .. Len(s)
         /\ DOMAIN (r \o s) = 1 .. Len(r) + Len(s)
BY SMT

\* A function with another inside of it.
LEMMA AroundCloses ==
  ASSUME NEW r \in Seq(Operation), NEW s \in Seq(Operation), NEW d \in Seq(Operation),
         Closes(s), Closes(d),
         \A i \in DOMAIN r : r[i].mode # 0 =>
            \/ \E j \in DOMAIN r : j > i /\ r[j].lock = r[i].lock /\ r[j].mode = 0
            \/ \E j \in DOMAIN d : d[j].lock = r[i].lock /\ d[j].mode = 0
  PROVE  r \o s \o d \in Seq(Operation) /\ Closes(r \o s \o d)
<1> HIDE DEF Operation
<1> DEFINE q == r \o s
           f == q \o d
<1>1. /\ q \in Seq(Operation) /\ Len(q) = Len(r) + Len(s)
      /\ \A i \in 1 .. Len(r) : q[i] = r[i]
      /\ \A i \in 1 .. Len(s) : q[i + Len(r)] = s[i]
      /\ Len(r) \in Nat /\ Len(s) \in Nat
      /\ DOMAIN r = 1 .. Len(r) /\ DOMAIN s = 1 .. Len(s)
  BY OneAfterTheOther, Zenon DEF q
<1> HIDE DEF q
<1>2. /\ f \in Seq(Operation)
      /\ \A i \in 1 .. Len(q) : f[i] = q[i]
      /\ \A i \in 1 .. Len(d) : f[i + Len(q)] = d[i]
      /\ Len(d) \in Nat /\ DOMAIN d = 1 .. Len(d)
      /\ DOMAIN f = 1 .. Len(q) + Len(d)
  BY <1>1, OneAfterTheOther, Zenon DEF f
<1> HIDE DEF f
<1>3. /\ \A i \in 1 .. Len(r) : i \in DOMAIN f /\ f[i] = r[i]
      /\ \A i \in 1 .. Len(s) : i + Len(r) \in DOMAIN f /\ f[i + Len(r)] = s[i]
      /\ \A i \in 1 .. Len(d) : i + Len(q) \in DOMAIN f /\ f[i + Len(q)] = d[i]
  BY <1>1, <1>2
<1>4. ASSUME NEW i \in DOMAIN f, f[i].mode # 0
      PROVE  \E j \in DOMAIN f : j > i /\ f[j].lock = f[i].lock /\ f[j].mode = 0
  <2>1. CASE i \in 1 .. Len(r)
    <3>1. f[i] = r[i] /\ r[i].mode # 0
      BY <1>3, <1>4, <2>1
    <3>2. CASE \E j \in DOMAIN r : j > i /\ r[j].lock = r[i].lock /\ r[j].mode = 0
      BY <1>1, <1>3, <3>1, <3>2
    <3>3. CASE \E j \in DOMAIN d : d[j].lock = r[i].lock /\ d[j].mode = 0
      <4>1. PICK j \in 1 .. Len(d) : d[j].lock = r[i].lock /\ d[j].mode = 0
        BY <1>2, <3>3
      <4>2. j + Len(q) > i
        BY <1>1, <2>1
      <4> QED BY <1>3, <3>1, <4>1, <4>2
    <3> QED BY <1>1, <2>1, <3>1, <3>2, <3>3
  <2>2. CASE i \in Len(r) + 1 .. Len(q)
    <3>1. PICK k \in 1 .. Len(s) : i = k + Len(r)
      <4>1. i - Len(r) \in 1 .. Len(s) /\ i = (i - Len(r)) + Len(r)
        BY <1>1, <2>2
      <4> QED BY <4>1
    <3>2. f[i] = s[k] /\ s[k].mode # 0
      BY <1>3, <1>4, <3>1
    <3>3. PICK j \in 1 .. Len(s) : j > k /\ s[j].lock = s[k].lock /\ s[j].mode = 0
      BY <1>1, <3>2 DEF Closes
    <3>4. j + Len(r) \in DOMAIN f /\ f[j + Len(r)] = s[j] /\ j + Len(r) > i
      BY <1>1, <1>3, <3>1, <3>3
    <3> QED BY <3>2, <3>3, <3>4
  <2>3. CASE i \in Len(q) + 1 .. Len(q) + Len(d)
    <3>1. PICK k \in 1 .. Len(d) : i = k + Len(q)
      <4>1. i - Len(q) \in 1 .. Len(d) /\ i = (i - Len(q)) + Len(q)
        BY <1>1, <1>2, <2>3
      <4> QED BY <4>1
    <3>2. f[i] = d[k] /\ d[k].mode # 0
      BY <1>3, <1>4, <3>1
    <3>3. PICK j \in 1 .. Len(d) : j > k /\ d[j].lock = d[k].lock /\ d[j].mode = 0
      BY <1>2, <3>2 DEF Closes
    <3>4. j + Len(q) \in DOMAIN f /\ f[j + Len(q)] = d[j] /\ j + Len(q) > i
      <4>1. Len(q) \in Nat
        BY <1>1
      <4> QED BY <1>3, <3>1, <3>3, <4>1
    <3> QED BY <3>2, <3>3, <3>4
  <2> QED BY <1>1, <1>2, <2>1, <2>2, <2>3
<1>5. f \in Seq(Operation) /\ Closes(f)
  BY <1>2, <1>4 DEF Closes
<1> QED BY <1>5 DEF f, q

LEMMA FunctionsClose ==
  ASSUME NEW f \in Function
  PROVE  f \in Seq(Operation) /\ Closes(f)
<1> USE DEF Take, Unlock, Lock, Managed, Unmanaged, RWLock, Operation
<1>1. lookUpMethod \in Seq(Operation) /\ Closes(lookUpMethod)
  BY DEF lookUpMethod, Closes
<1>2. class_addMethod \in Seq(Operation) /\ Closes(class_addMethod)
  BY DEF class_addMethod, Closes
<1>3. sel_registerName \in Seq(Operation) /\ Closes(sel_registerName)
  BY DEF sel_registerName, Closes
<1>4. map_images \in Seq(Operation) /\ Closes(map_images)
  BY DEF map_images, Closes
<1>5. _class_initialize \in Seq(Operation) /\ Closes(_class_initialize)
  BY DEF _class_initialize, Closes
<1>6. objc_retain \in Seq(Operation) /\ Closes(objc_retain)
  BY DEF objc_retain, Closes
<1>7. load_images \in Seq(Operation) /\ Closes(load_images)
  <2> DEFINE r == <<Take("loadMethodLock", RDWR), Take("runtimeLock", RDWR), Unlock("runtimeLock")>>
             d == <<Unlock("loadMethodLock")>>
  <2>1. r \in Seq(Operation) /\ d \in Seq(Operation)
    OBVIOUS
  <2>2. Closes(d)
    BY DEF Closes
  <2>3. \A i \in DOMAIN r : r[i].mode # 0 =>
            \/ \E j \in DOMAIN r : j > i /\ r[j].lock = r[i].lock /\ r[j].mode = 0
            \/ \E j \in DOMAIN d : d[j].lock = r[i].lock /\ d[j].mode = 0
    OBVIOUS
  <2>4. load_images = r \o lookUpMethod \o d
    BY Zenon DEF load_images
  <2> HIDE DEF r, d, Operation
  <2>5. r \o lookUpMethod \o d \in Seq(Operation) /\ Closes(r \o lookUpMethod \o d)
    BY <1>1, <2>1, <2>2, <2>3, AroundCloses, Zenon
  <2> QED BY <2>4, <2>5, Zenon
<1>8. objc_getProperty \in Seq(Operation) /\ Closes(objc_getProperty)
  <2> DEFINE r == <<Take("PropertyLock", RDWR)>>
             d == <<Unlock("PropertyLock")>>
  <2>1. r \in Seq(Operation) /\ d \in Seq(Operation)
    OBVIOUS
  <2>2. Closes(d)
    BY DEF Closes
  <2>3. \A i \in DOMAIN r : r[i].mode # 0 =>
            \/ \E j \in DOMAIN r : j > i /\ r[j].lock = r[i].lock /\ r[j].mode = 0
            \/ \E j \in DOMAIN d : d[j].lock = r[i].lock /\ d[j].mode = 0
    OBVIOUS
  <2>4. objc_getProperty = r \o objc_retain \o d
    BY Zenon DEF objc_getProperty
  <2> HIDE DEF r, d, Operation
  <2>5. r \o objc_retain \o d \in Seq(Operation) /\ Closes(r \o objc_retain \o d)
    BY <1>6, <2>1, <2>2, <2>3, AroundCloses, Zenon
  <2> QED BY <2>4, <2>5, Zenon
<1>9. objc_getAssociatedObject \in Seq(Operation) /\ Closes(objc_getAssociatedObject)
  <2> DEFINE r == <<Take("_lock", RDWR)>>
             d == <<Take("slock", RDWR), Unlock("slock"), Unlock("_lock")>>
  <2>1. r \in Seq(Operation) /\ d \in Seq(Operation)
    OBVIOUS
  <2>2. Closes(d)
    BY DEF Closes
  <2>3. \A i \in DOMAIN r : r[i].mode # 0 =>
            \/ \E j \in DOMAIN r : j > i /\ r[j].lock = r[i].lock /\ r[j].mode = 0
            \/ \E j \in DOMAIN d : d[j].lock = r[i].lock /\ d[j].mode = 0
    OBVIOUS
  <2>4. objc_getAssociatedObject = r \o lookUpMethod \o d
    BY Zenon DEF objc_getAssociatedObject
  <2> HIDE DEF r, d, Operation
  <2>5. r \o lookUpMethod \o d \in Seq(Operation) /\ Closes(r \o lookUpMethod \o d)
    BY <1>1, <2>1, <2>2, <2>3, AroundCloses, Zenon
  <2> QED BY <2>4, <2>5, Zenon
<1>10. synchronized \in Seq(Operation) /\ Closes(synchronized)
  <2> DEFINE r == <<Take("LIST_LOCK", RDWR), Unlock("LIST_LOCK"), Take("mutex", RDWR)>>
             d == <<Unlock("mutex")>>
  <2>1. r \in Seq(Operation) /\ d \in Seq(Operation)
    OBVIOUS
  <2>2. Closes(d)
    BY DEF Closes
  <2>3. \A i \in DOMAIN r : r[i].mode # 0 =>
            \/ \E j \in DOMAIN r : j > i /\ r[j].lock = r[i].lock /\ r[j].mode = 0
            \/ \E j \in DOMAIN d : d[j].lock = r[i].lock /\ d[j].mode = 0
    OBVIOUS
  <2>4. synchronized = r \o lookUpMethod \o d
    BY Zenon DEF synchronized
  <2> HIDE DEF r, d, Operation
  <2>5. r \o lookUpMethod \o d \in Seq(Operation) /\ Closes(r \o lookUpMethod \o d)
    BY <1>1, <2>1, <2>2, <2>3, AroundCloses, Zenon
  <2> QED BY <2>4, <2>5, Zenon
<1> HIDE DEF Operation
<1> QED BY <1>1, <1>2, <1>3, <1>4, <1>5, <1>6, <1>7, <1>8, <1>9, <1>10, Zenon DEF Function

\* What is callsLeft of a function after its first operation.
LEMMA RestCloses ==
  ASSUME NEW s \in Seq(Operation), s # <<>>, Closes(s)
  PROVE  /\ Head(s) \in Operation /\ Tail(s) \in Seq(Operation) /\ Closes(Tail(s))
         /\ \A l : (\E j \in DOMAIN s : s[j].lock = l /\ s[j].mode = 0)
                   /\ ~ (Head(s).lock = l /\ Head(s).mode = 0)
                => \E j \in DOMAIN Tail(s) : Tail(s)[j].lock = l /\ Tail(s)[j].mode = 0
         /\ Head(s).mode # 0 =>
              \E j \in DOMAIN Tail(s) : Tail(s)[j].lock = Head(s).lock /\ Tail(s)[j].mode = 0
<1>1. /\ Len(s) \in Nat \ {0} /\ Head(s) = s[1] /\ s[1] \in Operation
      /\ Tail(s) \in Seq(Operation) /\ Len(Tail(s)) = Len(s) - 1
      /\ \A i \in 1 .. Len(s) - 1 : Tail(s)[i] = s[i + 1]
      /\ DOMAIN s = 1 .. Len(s) /\ DOMAIN Tail(s) = 1 .. Len(s) - 1
  BY SMT
<1>2. \A j \in DOMAIN s : j > 1 => j - 1 \in DOMAIN Tail(s) /\ Tail(s)[j - 1] = s[j]
  BY <1>1
<1>3. Closes(Tail(s))
  <2> SUFFICES ASSUME NEW i \in 1 .. Len(s) - 1, Tail(s)[i].mode # 0
               PROVE  \E j \in 1 .. Len(s) - 1 :
                         j > i /\ Tail(s)[j].lock = Tail(s)[i].lock /\ Tail(s)[j].mode = 0
    BY <1>1 DEF Closes
  <2>1. i + 1 \in DOMAIN s /\ Tail(s)[i] = s[i + 1]
    BY <1>1
  <2>2. PICK j \in DOMAIN s : j > i + 1 /\ s[j].lock = s[i + 1].lock /\ s[j].mode = 0
    BY <2>1 DEF Closes
  <2>3. j - 1 \in 1 .. Len(s) - 1 /\ j - 1 > i /\ Tail(s)[j - 1] = s[j]
    BY <1>1, <2>2
  <2> QED BY <2>1, <2>2, <2>3
<1>4. ASSUME NEW l, NEW j \in DOMAIN s, s[j].lock = l, s[j].mode = 0,
             ~ (Head(s).lock = l /\ Head(s).mode = 0)
      PROVE  \E k \in DOMAIN Tail(s) : Tail(s)[k].lock = l /\ Tail(s)[k].mode = 0
  <2>1. j > 1
    BY <1>1, <1>4
  <2> QED BY <1>2, <1>4, <2>1
<1>5. ASSUME Head(s).mode # 0
      PROVE  \E j \in DOMAIN Tail(s) : Tail(s)[j].lock = Head(s).lock /\ Tail(s)[j].mode = 0
  <2>1. PICK j \in DOMAIN s : j > 1 /\ s[j].lock = s[1].lock /\ s[j].mode = 0
    BY <1>1, <1>5 DEF Closes
  <2> QED BY <1>1, <1>2, <2>1
<1> QED BY <1>1, <1>3, <1>4, <1>5

-----------------------------------------------------------------------------
(* The actions.                                                                *)

LEMMA LockSets ==
  /\ Managed \subseteq Lock /\ RWLock \subseteq Managed /\ "cacheUpdateLock" \in Managed
  /\ "slock" \in Lock \ Managed
  /\ \A l \in Managed \ {"loadMethodLock"} : l \in RWLock \/ l = "cacheUpdateLock"
  /\ gdb \in Actor /\ AppThread \subseteq Actor
  /\ Actor \ {gdb} = AppThread
BY DEF Managed, Unmanaged, RWLock, Lock, Actor

\* What the types of the counters and of the functions say.
LEMMA Typed ==
  ASSUME DebuggerTypeOK
  PROVE  /\ DebuggerModeCount \in Nat /\ requests \in Nat
         /\ DebuggerModeCount <= Requests /\ requests <= Requests
         /\ todo \in [Actor -> Seq(Operation)] /\ todo[gdb] \in Seq(Operation)
         /\ \A t \in AppThread : todo[t] \in Seq(Operation)
         /\ holds \in [Lock -> [Actor -> 0 .. 2]]
         /\ debugger \in [Managed -> 0 .. 2] /\ using \in [Managed -> 0 .. 2]
         /\ callsLeft \in [AppThread -> 0 .. FunctionCalls]
<1>1. todo \in [Actor -> Seq(Operation)]
  BY DEF DebuggerTypeOK, Operation
<1> QED BY <1>1, LockSets DEF DebuggerTypeOK

LEMMA InitIInv == DebuggerInit => DebuggerIInv
<1> SUFFICES ASSUME DebuggerInit PROVE DebuggerIInv
  OBVIOUS
<1>1. DebuggerTypeOK
  <2>1. todo \in [Actor -> Seq(Operation)]
    BY DEF DebuggerInit
  <2>2. callsLeft \in [AppThread -> 0 .. FunctionCalls] /\ DebuggerModeCount \in 0 .. Requests
    BY DEF DebuggerInit
  <2>3. holds \in [Lock -> [Actor -> 0 .. 2]]
    BY DEF DebuggerInit
  <2>4. /\ debugger \in [Managed -> 0 .. 2] /\ using \in [Managed -> 0 .. 2]
        /\ DebuggerMode \in 0 .. 2 /\ requests \in 0 .. Requests
    BY DEF DebuggerInit
  <2>5. trapped \in BOOLEAN /\ DebuggerModeThread \in Actor
    BY LockSets DEF DebuggerInit
  <2> QED BY <2>1, <2>2, <2>3, <2>4, <2>5 DEF DebuggerTypeOK, Operation
<1>2. Closes(<<>>)
  BY DEF Closes
<1> QED BY <1>1, <1>2, LockSets DEF DebuggerInit, DebuggerIInv, ModeOK, UsingOK, StoppedOK, ModeHoldsItsLocks

LEMMA ThreadStepIInv ==
  ASSUME DebuggerIInv, NEW t \in AppThread, ThreadStep(t)
  PROVE  DebuggerIInv'
<1> DEFINE op == Head(todo[t])
<1>1. todo[t] \in Seq(Operation) /\ op \in Operation /\ Tail(todo[t]) \in Seq(Operation)
  <2>1. todo[t] \in Seq(Operation) /\ todo[t] # <<>>
    BY Typed DEF DebuggerIInv, ThreadStep
  <2> HIDE DEF Operation
  <2> QED BY <2>1
<1>2. /\ DebuggerMode = DEBUGGER_OFF /\ t # gdb
      /\ holds' = [holds EXCEPT ![op.lock][t] = op.mode]
      /\ todo' = [todo EXCEPT ![t] = Tail(@)]
      /\ UNCHANGED <<modeVars, using, trapped, callsLeft, requests>>
  BY DEF ThreadStep
<1>3. holds' \in [Lock -> [Actor -> 0 .. 2]] /\ \A l \in Lock : holds'[l][gdb] = holds[l][gdb]
  BY <1>1, <1>2, LockSets DEF DebuggerIInv, DebuggerTypeOK, Operation
<1>4. todo' \in [Actor -> Seq(Operation)] /\ todo'[gdb] = todo[gdb]
  BY <1>1, <1>2, LockSets DEF DebuggerIInv, DebuggerTypeOK, Operation
<1>5. DebuggerTypeOK'
  BY <1>2, <1>3, <1>4 DEF DebuggerIInv, DebuggerTypeOK, modeVars, Operation
<1> QED BY <1>2, <1>3, <1>4, <1>5, LockSets
        DEF DebuggerIInv, ModeOK, UsingOK, StoppedOK, ModeHoldsItsLocks, modeVars

LEMMA GdbStepIInv ==
  ASSUME DebuggerIInv, GdbStep
  PROVE  DebuggerIInv'
<1> DEFINE op == Head(todo[gdb])
<1>1. todo[gdb] \in Seq(Operation) /\ todo[gdb] # <<>> /\ Closes(todo[gdb])
  BY Typed DEF DebuggerIInv, GdbStep, UsingOK
<1>2. /\ op \in Operation /\ Tail(todo[gdb]) \in Seq(Operation) /\ Closes(Tail(todo[gdb]))
      /\ \A l : (\E j \in DOMAIN todo[gdb] : todo[gdb][j].lock = l /\ todo[gdb][j].mode = 0)
                   /\ ~ (op.lock = l /\ op.mode = 0)
                => \E j \in DOMAIN Tail(todo[gdb]) :
                      Tail(todo[gdb])[j].lock = l /\ Tail(todo[gdb])[j].mode = 0
      /\ op.mode # 0 => \E j \in DOMAIN Tail(todo[gdb]) :
            Tail(todo[gdb])[j].lock = op.lock /\ Tail(todo[gdb])[j].mode = 0
  BY <1>1, RestCloses
<1>3. op.lock \in Lock /\ op.mode \in 0 .. 2
  BY <1>2 DEF Operation
<1>4. /\ DebuggerMode # DEBUGGER_OFF
      /\ todo' = [todo EXCEPT ![gdb] = Tail(@)]
      /\ UNCHANGED <<modeVars, trapped, callsLeft, requests>>
  BY DEF GdbStep
<1>5. \/ /\ op.lock \in Managed /\ Allowed(op.lock, op.mode)
         /\ using' = [using EXCEPT ![op.lock] = op.mode] /\ holds' = holds
      \/ /\ op.lock \in Lock \ Managed /\ using' = using
         /\ holds' = [holds EXCEPT ![op.lock][gdb] = op.mode]
  BY <1>3 DEF GdbStep, isManagedDuringDebugger
<1>6. todo' \in [Actor -> Seq(Operation)] /\ todo'[gdb] = Tail(todo[gdb])
  BY <1>2, <1>4, LockSets DEF DebuggerIInv, DebuggerTypeOK, Operation
<1>7. /\ holds' \in [Lock -> [Actor -> 0 .. 2]]
      /\ \A l \in Managed : holds'[l] = holds[l]
      /\ \A l \in Lock, t \in AppThread : holds'[l][t] = holds[l][t]
  <2>1. holds \in [Lock -> [Actor -> 0 .. 2]] /\ \A l \in Managed : l \in Lock
    BY Typed, LockSets DEF DebuggerIInv
  <2>2. CASE holds' = holds
    BY <2>1, <2>2
  <2>3. CASE op.lock \in Lock \ Managed /\ holds' = [holds EXCEPT ![op.lock][gdb] = op.mode]
    <3>1. holds' \in [Lock -> [Actor -> 0 .. 2]]
      BY <1>3, <2>1, <2>3, LockSets
    <3>2. \A l \in Managed : holds'[l] = holds[l]
      BY <2>1, <2>3
    <3>3. \A l \in Lock, t \in AppThread : holds'[l][t] = holds[l][t]
      BY <2>1, <2>3, LockSets
    <3> QED BY <3>1, <3>2, <3>3
  <2> QED BY <1>5, <2>2, <2>3
<1>8. /\ using' \in [Managed -> 0 .. 2]
      /\ \A l \in Managed : using'[l] = IF l = op.lock THEN op.mode ELSE using[l]
  <2>1. using \in [Managed -> 0 .. 2]
    BY Typed DEF DebuggerIInv
  <2>2. CASE op.lock \in Managed /\ using' = [using EXCEPT ![op.lock] = op.mode]
    BY <1>3, <2>1, <2>2
  <2>3. CASE op.lock \in Lock \ Managed /\ using' = using
    BY <2>1, <2>3
  <2> QED BY <1>5, <2>2, <2>3
<1>9. DebuggerTypeOK'
  BY <1>4, <1>6, <1>7, <1>8 DEF DebuggerIInv, DebuggerTypeOK, modeVars, Operation
<1>10. ModeOK'
  BY <1>4 DEF DebuggerIInv, ModeOK, modeVars
<1>11. UsingOK'
  <2>1. ASSUME NEW l \in Managed, using'[l] # 0
        PROVE  \E j \in DOMAIN Tail(todo[gdb]) :
                  Tail(todo[gdb])[j].lock = l /\ Tail(todo[gdb])[j].mode = 0
    <3>1. CASE l = op.lock
      BY <1>2, <1>8, <2>1, <3>1
    <3>2. CASE l # op.lock
      BY <1>2, <1>8, <2>1, <3>2 DEF DebuggerIInv, UsingOK
    <3> QED BY <3>1, <3>2
  <2> QED BY <1>2, <1>6, <2>1 DEF UsingOK
<1>12. StoppedOK'
  <2>1. ASSUME NEW l \in Managed \ {"loadMethodLock"}
        PROVE  using'[l] <= debugger[l]
    <3>1. CASE l = op.lock
      <4>1. Allowed(l, op.mode)
        BY <1>5, <3>1
      <4>2. CASE l = "cacheUpdateLock"
        BY <1>3, <1>4, <1>8, <3>1, <4>2 DEF DebuggerIInv, StoppedOK
      <4>3. CASE l \in RWLock
        BY <1>3, <1>8, <3>1, <4>1, <4>3, LockSets
           DEF Allowed, isReadingDuringDebugger, isWritingDuringDebugger, DebuggerIInv, DebuggerTypeOK
      <4> QED BY <4>2, <4>3, LockSets
    <3>2. CASE l # op.lock
      BY <1>4, <1>8, <3>2 DEF DebuggerIInv, StoppedOK
    <3> QED BY <3>1, <3>2
  <2> QED BY <1>4, <1>7, <2>1, LockSets DEF DebuggerIInv, StoppedOK, modeVars
<1> QED BY <1>4, <1>7, <1>9, <1>10, <1>11, <1>12 DEF DebuggerIInv, ModeHoldsItsLocks, modeVars

LEMMA AbandonIInv ==
  ASSUME DebuggerIInv, AbandonCall, DebuggerMode # DEBUGGER_OFF, trapped' \in BOOLEAN,
         trapped' => DebuggerMode = DEBUGGER_PARTIAL
  PROVE  DebuggerIInv'
<1>1. /\ todo' \in [Actor -> Seq(Operation)] /\ todo'[gdb] = <<>>
      /\ using' \in [Managed -> 0 .. 2] /\ \A l \in Managed : using'[l] = 0
      /\ UNCHANGED <<holds, modeVars, callsLeft, requests>>
  BY Typed, LockSets DEF AbandonCall, DebuggerIInv
<1>2. DebuggerTypeOK'
  BY <1>1 DEF DebuggerIInv, DebuggerTypeOK, modeVars, Operation
<1>3. Closes(<<>>)
  BY DEF Closes
<1>4. StoppedOK'
  BY <1>1, LockSets DEF DebuggerIInv, StoppedOK, modeVars, DebuggerTypeOK
<1> QED BY <1>1, <1>2, <1>3, <1>4 DEF DebuggerIInv, ModeOK, UsingOK, ModeHoldsItsLocks, modeVars

\* What a start of the mode can get excludes the threads that are stopped.
LEMMA AcquiredIs ==
  ASSUME DebuggerIInv, DebuggerMode = DEBUGGER_OFF, NEW h \in AppThread
  PROVE  /\ Acquired(h) \in [Managed -> 0 .. 2]
         /\ \A l \in RWLock \cup {"cacheUpdateLock"} :
              /\ Acquired(h)[l] = RDWR => \A t \in AppThread : holds[l][t] = 0
              /\ Acquired(h)[l] = RDONLY => \A t \in AppThread : holds[l][t] # RDWR
         /\ Acquired(h)["cacheUpdateLock"] \in {0, RDWR}
<1>1. \A l \in Managed : Acquired(h)[l] = IF l \in RWLock THEN TryRW(h, l) ELSE TryMutex(h, l)
  BY DEF Acquired
<1>2. \A l : TryRW(h, l) \in 0 .. 2 /\ TryMutex(h, l) \in {0, RDWR}
  BY DEF TryRW, TryMutex
<1>3. "cacheUpdateLock" \notin RWLock
  BY DEF RWLock
<1>4. ASSUME NEW l \in RWLock
      PROVE  /\ TryRW(h, l) = RDWR => \A t \in AppThread : holds[l][t] = 0
             /\ TryRW(h, l) = RDONLY => \A t \in AppThread : holds[l][t] # RDWR
  <2>1. l \notin {"loadMethodLock", "classInitLock", "mutex"}
    BY DEF RWLock
  <2>2. TryRW(h, l) = RDWR => CanTake(h, h, l, RDWR) /\ holds[l][h] = 0
    BY DEF TryRW
  <2>3. TryRW(h, l) = RDONLY => CanTake(h, h, l, RDONLY) /\ holds[l][h] # RDWR
    BY DEF TryRW
  <2> QED BY <2>1, <2>2, <2>3, LockSets DEF CanTake
<1>5. TryMutex(h, "cacheUpdateLock") = RDWR => \A t \in AppThread : holds["cacheUpdateLock"][t] = 0
  BY <1>3, LockSets DEF TryMutex, CanTake
<1>6. Acquired(h) \in [Managed -> 0 .. 2]
  BY <1>2 DEF Acquired
<1> QED BY <1>1, <1>2, <1>3, <1>4, <1>5, <1>6, LockSets

LEMMA StartIInv ==
  ASSUME DebuggerIInv, NEW h \in AppThread, NEW wantFull \in BOOLEAN, gdb_objc_startDebuggerMode(h, wantFull)
  PROVE  DebuggerIInv'
<1>1. /\ requests > 0 /\ requests' = requests - 1 /\ todo[gdb] = <<>>
      /\ UNCHANGED <<todo, using, trapped, callsLeft>>
  BY DEF gdb_objc_startDebuggerMode, Request
<1>2. requests' \in 0 .. Requests
  BY <1>1 DEF DebuggerIInv, DebuggerTypeOK
<1>3. \A l \in Managed : using[l] = 0
  BY <1>1 DEF DebuggerIInv, UsingOK
<1>4. CASE DebuggerMode = DEBUGGER_OFF /\ DebuggerMode' = DEBUGGER_OFF
  <2>1. debugger' \in [Managed -> 0 .. 2] /\ UNCHANGED <<holds, DebuggerModeThread, DebuggerModeCount>>
    BY <1>4 DEF gdb_objc_startDebuggerMode, Forgotten, DebuggerIInv, DebuggerTypeOK
  <2>2. DebuggerTypeOK'
    BY <1>1, <1>2, <1>4, <2>1 DEF DebuggerIInv, DebuggerTypeOK
  <2>3. ModeOK'
    BY <1>1, <1>2, <1>4, <2>1, Typed DEF DebuggerIInv, ModeOK
  <2>4. UsingOK'
    BY <1>1 DEF DebuggerIInv, UsingOK
  <2> QED BY <1>4, <2>1, <2>2, <2>3, <2>4 DEF DebuggerIInv, StoppedOK, ModeHoldsItsLocks
<1>5. CASE DebuggerMode = DEBUGGER_OFF /\ DebuggerMode' # DEBUGGER_OFF
  <2> DEFINE got == Acquired(h)
  <2>1. /\ startDebuggerMode(h) \in {DEBUGGER_PARTIAL, DEBUGGER_FULL}
        /\ debugger' = got
        /\ holds' = [l \in Lock |-> IF l \in Managed
                                     THEN [holds[l] EXCEPT ![gdb] = got[l]] ELSE holds[l]]
        /\ DebuggerMode' = startDebuggerMode(h)
        /\ DebuggerModeThread' = h /\ DebuggerModeCount' = 1
    BY <1>5 DEF gdb_objc_startDebuggerMode
  <2>2. /\ got["cacheUpdateLock"] # 0 /\ noSideTableLocksHeld
        /\ DebuggerMode' = DEBUGGER_FULL => \A l \in Managed : got[l] = RDWR
    BY <2>1 DEF startDebuggerMode
  <2>3. /\ got \in [Managed -> 0 .. 2]
        /\ \A l \in RWLock \cup {"cacheUpdateLock"} :
              /\ got[l] = RDWR => \A t \in AppThread : holds[l][t] = 0
              /\ got[l] = RDONLY => \A t \in AppThread : holds[l][t] # RDWR
        /\ got["cacheUpdateLock"] \in {0, RDWR}
    BY <1>5, AcquiredIs
  <2>4. /\ holds' \in [Lock -> [Actor -> 0 .. 2]]
        /\ \A l \in Managed : holds'[l][gdb] = got[l]
        /\ \A l \in Lock : \A t \in AppThread : holds'[l][t] = holds[l][t]
    BY <2>1, <2>3, LockSets DEF DebuggerIInv, DebuggerTypeOK
  <2>5. DebuggerTypeOK'
    <3>1. 1 <= Requests
      BY <1>1, Typed DEF DebuggerIInv
    <3>2. DebuggerMode' \in 0 .. 2 /\ DebuggerModeThread' \in Actor /\ 1 \in 0 .. Requests
      BY <2>1, <3>1, LockSets
    <3> QED BY <1>1, <1>2, <2>1, <2>3, <2>4, <3>2 DEF DebuggerIInv, DebuggerTypeOK
  <2>6. ModeOK'
    BY <1>1, <1>5, <2>1, <2>2, Typed DEF DebuggerIInv, ModeOK
  <2>7. UsingOK'
    BY <1>1 DEF DebuggerIInv, UsingOK
  <2>8. StoppedOK'
    <3>1. \A t \in AppThread : holds["slock"][t] = 0
      BY <2>2, LockSets DEF noSideTableLocksHeld
    <3>2. \A l \in Managed \ {"loadMethodLock"} : using'[l] <= debugger'[l]
      BY <1>1, <1>3, <2>1, <2>3
    <3> QED BY <2>1, <2>2, <2>3, <2>4, <3>1, <3>2, LockSets DEF StoppedOK
  <2> QED BY <2>1, <2>4, <2>5, <2>6, <2>7, <2>8, <1>5 DEF DebuggerIInv, ModeHoldsItsLocks
<1>6. CASE DebuggerMode # DEBUGGER_OFF
  <2>1. /\ UNCHANGED <<holds, debugger, DebuggerMode, DebuggerModeThread>>
        /\ DebuggerModeCount' \in {DebuggerModeCount, DebuggerModeCount + 1}
    BY <1>6 DEF gdb_objc_startDebuggerMode, modeVars
  <2>2. DebuggerModeCount' \in 0 .. Requests /\ DebuggerModeCount' + requests' <= Requests
    BY <1>1, <1>2, <2>1, Typed DEF DebuggerIInv, ModeOK
  <2>3. DebuggerTypeOK'
    BY <1>1, <1>2, <2>1, <2>2 DEF DebuggerIInv, DebuggerTypeOK
  <2>4. ModeOK'
    BY <1>1, <1>6, <2>1, <2>2, Typed DEF DebuggerIInv, ModeOK
  <2> QED BY <1>1, <2>1, <2>3, <2>4 DEF DebuggerIInv, UsingOK, StoppedOK, ModeHoldsItsLocks
<1> QED BY <1>4, <1>5, <1>6

LEMMA EndIInv ==
  ASSUME DebuggerIInv, NEW h \in AppThread, gdb_objc_endDebuggerMode(h)
  PROVE  DebuggerIInv'
<1>1. /\ todo[gdb] = <<>> /\ DebuggerMode # DEBUGGER_OFF /\ h = DebuggerModeThread
      /\ DebuggerModeCount' = DebuggerModeCount - 1 /\ trapped' = FALSE
      /\ UNCHANGED <<todo, using, callsLeft, requests>>
  BY DEF gdb_objc_endDebuggerMode
<1>2. DebuggerModeCount' \in 0 .. Requests /\ DebuggerModeCount' + requests <= Requests
  BY <1>1, Typed DEF DebuggerIInv, ModeOK
<1>3. CASE DebuggerModeCount # 1
  <2>1. UNCHANGED <<holds, debugger, DebuggerMode, DebuggerModeThread>>
    BY <1>3 DEF gdb_objc_endDebuggerMode
  <2>2. DebuggerTypeOK'
    BY <1>1, <1>2, <2>1 DEF DebuggerIInv, DebuggerTypeOK
  <2>3. ModeOK'
    BY <1>1, <1>2, <1>3, <2>1, Typed DEF DebuggerIInv, ModeOK
  <2> QED BY <1>1, <2>1, <2>2, <2>3 DEF DebuggerIInv, UsingOK, StoppedOK, ModeHoldsItsLocks
<1>4. CASE DebuggerModeCount = 1
  <2>1. DebuggerMode' = DEBUGGER_OFF /\ DebuggerModeThread' = gdb /\ endDebuggerMode
    BY <1>4 DEF gdb_objc_endDebuggerMode
  <2>2. /\ debugger' \in [Managed -> 0 .. 2] /\ holds' \in [Lock -> [Actor -> 0 .. 2]]
        /\ \A l \in Managed : holds'[l][gdb] = 0
    <3>1. debugger' \in [Managed -> 0 .. 2] /\ holds' \in [Lock -> [Actor -> 0 .. 2]]
      BY <2>1, Typed, LockSets DEF endDebuggerMode, DebuggerIInv
    <3>2. ASSUME NEW l \in Managed
          PROVE  holds'[l][gdb] = 0
      <4>1. /\ holds[l][gdb] = debugger[l] /\ holds[l] \in [Actor -> 0 .. 2]
        BY <1>1, Typed, LockSets DEF DebuggerIInv, ModeHoldsItsLocks
      <4>2. holds'[l] = IF debugger[l] # 0 THEN [holds[l] EXCEPT ![gdb] = 0] ELSE holds[l]
        BY <2>1, LockSets DEF endDebuggerMode
      <4> QED BY <4>1, <4>2, LockSets
    <3> QED BY <3>1, <3>2
  <2>3. DebuggerTypeOK'
    <3>1. DebuggerMode' \in 0 .. 2 /\ DebuggerModeThread' \in Actor /\ trapped' \in BOOLEAN
      <4>1. DebuggerMode' \in 0 .. 2
        BY <2>1
      <4>2. DebuggerModeThread' \in Actor
        BY <2>1, LockSets, Zenon
      <4>3. trapped' \in BOOLEAN
        BY <1>1, Zenon
      <4> QED BY <4>1, <4>2, <4>3
    <3>2. /\ todo' \in [Actor -> Seq(Operation)] /\ using' \in [Managed -> 0 .. 2]
          /\ callsLeft' \in [AppThread -> 0 .. FunctionCalls] /\ requests' \in 0 .. Requests
      <4>1. requests \in 0 .. Requests
        BY DEF DebuggerIInv, DebuggerTypeOK
      <4> QED BY <1>1, <4>1, Typed DEF DebuggerIInv
    <3> QED BY <1>2, <2>2, <3>1, <3>2 DEF DebuggerTypeOK, Operation
  <2> QED BY <1>1, <1>2, <1>4, <2>1, <2>2, <2>3
          DEF DebuggerIInv, ModeOK, UsingOK, StoppedOK, ModeHoldsItsLocks
<1> QED BY <1>3, <1>4

LEMMA CallIInv ==
  ASSUME DebuggerIInv, NEW t \in AppThread, NEW f \in Function, CallFunction(t, f)
  PROVE  DebuggerIInv'
<1>1. f \in Seq(Operation)
  BY FunctionsClose
<1>2. /\ todo' \in [Actor -> Seq(Operation)] /\ todo'[gdb] = todo[gdb]
      /\ callsLeft' \in [AppThread -> 0 .. FunctionCalls]
      /\ UNCHANGED <<holds, modeVars, using, trapped, requests>>
  <2>1. todo' \in [Actor -> Seq(Operation)] /\ todo'[gdb] = todo[gdb]
    BY <1>1, Typed, LockSets DEF CallFunction, DebuggerIInv
  <2>2. callsLeft' \in [AppThread -> 0 .. FunctionCalls]
    <3>1. callsLeft \in [AppThread -> 0 .. FunctionCalls] /\ callsLeft[t] > 0 /\ callsLeft[t] - 1 \in 0 .. FunctionCalls
      BY Typed DEF CallFunction, DebuggerIInv
    <3> QED BY <3>1 DEF CallFunction
  <2> QED BY <2>1, <2>2 DEF CallFunction
<1>3. DebuggerTypeOK'
  BY <1>2 DEF DebuggerIInv, DebuggerTypeOK, modeVars, Operation
<1> QED BY <1>2, <1>3 DEF DebuggerIInv, ModeOK, UsingOK, StoppedOK, ModeHoldsItsLocks, modeVars

LEMMA GdbCallIInv ==
  ASSUME DebuggerIInv, NEW f \in Function, GdbCallsFunction(f)
  PROVE  DebuggerIInv'
<1>1. f \in Seq(Operation) /\ Closes(f)
  BY FunctionsClose
<1>2. /\ todo' \in [Actor -> Seq(Operation)] /\ todo'[gdb] = f
      /\ requests' \in 0 .. Requests /\ requests' < requests /\ DebuggerMode # DEBUGGER_OFF
      /\ UNCHANGED <<holds, modeVars, using, trapped, callsLeft>>
  BY <1>1, Typed, LockSets DEF GdbCallsFunction, Request, DebuggerIInv
<1>3. \A l \in Managed : using[l] = 0
  BY DEF GdbCallsFunction, Request, DebuggerIInv, UsingOK
<1>4. DebuggerTypeOK'
  BY <1>2 DEF DebuggerIInv, DebuggerTypeOK, modeVars, Operation
<1>5. UsingOK'
  BY <1>1, <1>2, <1>3 DEF UsingOK
<1>6. ModeOK'
  BY <1>2, Typed DEF DebuggerIInv, ModeOK, modeVars
<1> QED BY <1>2, <1>4, <1>5, <1>6 DEF DebuggerIInv, StoppedOK, ModeHoldsItsLocks, modeVars

LEMMA NextIInv ==
  ASSUME DebuggerIInv, [DebuggerNext]_debuggerVars
  PROVE  DebuggerIInv'
<1>1. CASE UNCHANGED debuggerVars
  <2> USE <1>1 DEF debuggerVars
  <2>1. DebuggerTypeOK'
    BY DEF DebuggerIInv, DebuggerTypeOK
  <2>2. ModeOK'
    BY DEF DebuggerIInv, ModeOK
  <2>3. UsingOK'
    BY DEF DebuggerIInv, UsingOK
  <2>4. StoppedOK' /\ ModeHoldsItsLocks'
    BY DEF DebuggerIInv, StoppedOK, ModeHoldsItsLocks
  <2> QED BY <2>1, <2>2, <2>3, <2>4 DEF DebuggerIInv
<1>2. ASSUME NEW t \in AppThread, ThreadStep(t) PROVE DebuggerIInv'
  BY <1>2, ThreadStepIInv
<1>3. ASSUME NEW t \in AppThread, NEW f \in Function, CallFunction(t, f) PROVE DebuggerIInv'
  BY <1>3, CallIInv
<1>4. CASE GdbStep
  BY <1>4, GdbStepIInv
<1>5. CASE gdb_objc_debuggerModeFailure \/ Interrupt
  <2>1. AbandonCall /\ DebuggerMode # DEBUGGER_OFF /\ trapped' \in BOOLEAN
    BY <1>5 DEF gdb_objc_debuggerModeFailure, Interrupt, DebuggerIInv, DebuggerTypeOK
  <2>2. CASE Interrupt
    BY <2>1, <2>2, AbandonIInv DEF Interrupt, DebuggerIInv, ModeOK
  <2>3. CASE gdb_objc_debuggerModeFailure
    <3>1. PICK op : op.lock \in Managed /\ ~ Allowed(op.lock, op.mode) /\ op \in Operation
      BY <2>3, Typed, RestCloses
         DEF gdb_objc_debuggerModeFailure, isManagedDuringDebugger, DebuggerIInv, UsingOK
    <3>2. debugger[op.lock] # RDWR
      BY <3>1 DEF Allowed, isReadingDuringDebugger, isWritingDuringDebugger,
                  isLockedDuringDebugger, Managed, RWLock
    <3>3. DebuggerMode = DEBUGGER_PARTIAL
      BY <2>1, <3>1, <3>2 DEF DebuggerIInv, ModeOK, DebuggerTypeOK
    <3> QED BY <2>1, <3>3, AbandonIInv
  <2> QED BY <1>5, <2>2, <2>3
<1>6. ASSUME NEW h \in AppThread, gdb_objc_endDebuggerMode(h) PROVE DebuggerIInv'
  BY <1>6, EndIInv
<1>7. ASSUME NEW h \in AppThread, NEW wantFull \in BOOLEAN, gdb_objc_startDebuggerMode(h, wantFull)
      PROVE  DebuggerIInv'
  BY <1>7, StartIInv
<1>8. ASSUME NEW f \in Function, GdbCallsFunction(f) PROVE DebuggerIInv'
  BY <1>8, GdbCallIInv
<1> QED BY <1>1, <1>2, <1>3, <1>4, <1>5, <1>6, <1>7, <1>8 DEF DebuggerNext, GdbMoves

\* What gdb is inside of, no stopped thread holds in a way that excludes it.
LEMMA IInvGivesIt ==
  ASSUME DebuggerIInv
  PROVE  GdbIsSafe
<1>1. ASSUME NEW l \in Managed \ {"loadMethodLock"}, using[l] # 0, NEW t \in AppThread
      PROVE  holds[l][t] = 0 \/ (holds[l][t] = RDONLY /\ using[l] = RDONLY)
  <2>1. DebuggerMode # DEBUGGER_OFF
    BY <1>1 DEF DebuggerIInv, UsingOK, ModeOK
  <2>2. /\ debugger[l] = RDWR => holds[l][t] = 0
        /\ debugger[l] = RDONLY => holds[l][t] # RDWR
        /\ using[l] <= debugger[l]
    BY <1>1, <2>1 DEF DebuggerIInv, StoppedOK
  <2>3. holds[l][t] \in 0 .. 2 /\ using[l] \in 0 .. 2 /\ debugger[l] \in 0 .. 2
    BY <1>1, Typed, LockSets DEF DebuggerIInv
  <2> QED BY <1>1, <2>2, <2>3
<1>2. ASSUME todo[gdb] # <<>>
      PROVE  /\ DebuggerMode # DEBUGGER_OFF
             /\ Waits(Head(todo[gdb])) => Head(todo[gdb]).lock # "slock"
  <2>1. DebuggerMode # DEBUGGER_OFF
    BY <1>2 DEF DebuggerIInv, ModeOK
  <2>2. ASSUME Head(todo[gdb]).lock = "slock" PROVE ~ Waits(Head(todo[gdb]))
    BY <2>1, <2>2, LockSets DEF DebuggerIInv, StoppedOK, Waits, CanTake
  <2> QED BY <2>1, <2>2
<1> QED BY <1>1, <1>2 DEF DebuggerIInv, GdbIsSafe, StoppedThreadsExcluded, SideTablesAreFree,
                        FullModeNeverTraps, ModeOK

\* However threads were stopped, and however the debugger nests, fails or abandons
\* what it starts: under runtimeLock, selLock and cacheUpdateLock its calls are excluded
\* from what a stopped thread is doing, they wait for no side table, and do not trap in
\* full mode; and the mode holds the locks that it says, and none when it is off.
THEOREM DebuggerStaysSafe == DebuggerSpec => []GdbIsSafe
<1>1. DebuggerInit => DebuggerIInv
  BY InitIInv
<1>2. DebuggerIInv /\ [DebuggerNext]_debuggerVars => DebuggerIInv'
  BY NextIInv
<1>3. DebuggerIInv => GdbIsSafe
  BY IInvGivesIt
<1> QED BY <1>1, <1>2, <1>3, PTL DEF DebuggerSpec

=============================================================================
