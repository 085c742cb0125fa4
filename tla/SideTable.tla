------------------------------ MODULE SideTable ------------------------------
(***************************************************************************)
(* Reference counts and zeroing weak references: the side tables of        *)
(* NSObject.mm and their use of the weak tables of objc-weak.mm.           *)
(*                                                                         *)
(* An object's extra retain count, its deallocating bit and the addresses  *)
(* of the weak variables that point to it live in the side table its       *)
(* address hashes to; each side table has one spin lock.  Threads call     *)
(* objc_storeStrong, objc_storeWeak, objc_loadWeakRetained, objc_initWeak, *)
(* objc_destroyWeak, objc_copyWeak and objc_moveWeak, and run the          *)
(* deallocation of the objects whose last reference they drop.             *)
(*                                                                         *)
(* The callers obey ARC: a thread passes only objects it holds a strong    *)
(* reference to, and never initialises or destroys a weak variable that    *)
(* another thread is using.  Memory is recycled: a freed object's address  *)
(* may be allocated again.                                                 *)
(***************************************************************************)
EXTENDS Integers, FiniteSets

CONSTANTS
    Thread,     \* the threads
    Obj,        \* the addresses objects can have
    Loc,        \* the addresses weak variables can have
    Slot,       \* the strong variables of one thread
    Tmp,        \* the strong temporary of one thread: what objc_storeStrong
                \* and objc_copyWeak are about to release
    NULL,       \* nil; also a free lock
    Globals,    \* the weak variables that exist from the start
    stripe,     \* tableForPointer: the side table of an address
    Budget      \* bound: how many calls each thread makes

ASSUME SideTableAssumption ==
    /\ NULL \notin Obj /\ NULL \notin Thread /\ NULL \notin Loc
    /\ Tmp \in Slot
    /\ IsFiniteSet(Thread) /\ IsFiniteSet(Slot)
    /\ Globals \subseteq Loc
    /\ stripe \in [Obj \cup {NULL} -> Nat]
    /\ Budget \in [Thread -> Nat]

VARIABLES
    mem,            \* "free", "live", or "dying": the deallocating thread owns it
    refcnts,        \* side table: 2 * extra retain count + deallocating bit.  An
                    \* absent entry and a zero one are the same to every reader
    weak_table,     \* side table: the registered referrers of each object
    seen_weak_refs, \* set by the first weak store
    location,       \* the contents of each weak variable
    storage,        \* whether the weak variable's memory is a weak variable now
    slock,          \* the spin lock of each side table: its holder or NULL
    strong,         \* the contents of each thread's strong variables
    pc,             \* where each thread is
    call,           \* the runtime function the thread is in
    loc, alt,       \* its weak variable arguments
    old, new,       \* oldObj and newObj of objc_storeWeak, obj of objc_storeStrong
    dst,            \* the strong variable that receives the result
    cnt,            \* the count read and not yet written back, under the lock
    budget          \* calls left

heap   == <<mem, refcnts, weak_table, seen_weak_refs, location, storage>>
locals == <<call, loc, alt, old, new, dst, cnt>>
vars   == <<heap, slock, strong, pc, locals, budget>>

Ptr    == Obj \cup {NULL}
Stripe == {stripe[p] : p \in Ptr}

Calls == {"none", "storeStrong", "storeWeak", "initWeak", "destroyWeak",
          "loadWeak", "copyWeak", "moveWeak"}

Labels == {"idle", "retain_lock", "retain_write", "release_lock", "release_write",
           "store_read", "store_lock2", "store_lock1", "store_check",
           "store_register", "store_set", "fatal", "load_read", "load_lock",
           "load_check", "clear_lock", "clear_weak", "clear_erase", "free"}

\* The strong variables that point to o, each one reference to it.
Owners(o) == {ts \in Thread \X Slot : strong[ts[1]][ts[2]] = o}

Held(t) == {o \in Obj : \E s \in Slot : strong[t][s] = o}

\* Some thread works on the weak variable l ...
InUse(l) == \E u \in Thread : l \in {loc[u], alt[u]}

\* ... and needs it for itself, because its memory becomes a weak variable or
\* stops being one.
Exclusive(u) ==
    CASE call[u] \in {"initWeak", "destroyWeak"} -> {loc[u]}
      [] call[u] = "copyWeak"                    -> {alt[u]}
      [] call[u] = "moveWeak"                    -> {loc[u], alt[u]}
      [] OTHER                                   -> {}

MayUse(l) == storage[l] /\ \A u \in Thread : l \notin Exclusive(u)

\* Mutant: the low bit is never looked at.
NeverDeallocating(o) == FALSE

Deallocating(o) == refcnts[o] % 2 = 1

-----------------------------------------------------------------------------
Init ==
    /\ mem = [o \in Obj |-> "free"]
    /\ refcnts = [o \in Obj |-> 0]
    /\ weak_table = [o \in Obj |-> {}]
    /\ seen_weak_refs = FALSE
    /\ location = [l \in Loc |-> NULL]
    /\ storage = [l \in Loc |-> l \in Globals]
    /\ slock = [s \in Stripe |-> NULL]
    /\ strong = [t \in Thread |-> [s \in Slot |-> NULL]]
    /\ pc = [t \in Thread |-> "idle"]
    /\ call = [t \in Thread |-> "none"]
    /\ loc = [t \in Thread |-> NULL]
    /\ alt = [t \in Thread |-> NULL]
    /\ old = [t \in Thread |-> NULL]
    /\ new = [t \in Thread |-> NULL]
    /\ dst = [t \in Thread |-> Tmp]
    /\ cnt = [t \in Thread |-> 0]
    /\ budget = Budget

Goto(t, label) == pc' = [pc EXCEPT ![t] = label]

\* Mutant: the spin lock does not wait for its holder.
AcquireHeld(t, s) == slock' = [slock EXCEPT ![s] = t]

Acquire(t, s) == slock[s] = NULL /\ slock' = [slock EXCEPT ![s] = t]

Release(S) == slock' = [s \in Stripe |-> IF s \in S THEN NULL ELSE slock[s]]

\* *s = p, after which the temporary holds what s held.
Assigned(t, s, p) == [strong EXCEPT ![t][Tmp] = strong[t][s], ![t][s] = p]

\* The runtime function returns to its caller.
Return(t) ==
    /\ Goto(t, "idle")
    /\ call' = [call EXCEPT ![t] = "none"]
    /\ loc' = [loc EXCEPT ![t] = NULL]
    /\ alt' = [alt EXCEPT ![t] = NULL]
    /\ old' = [old EXCEPT ![t] = NULL]
    /\ new' = [new EXCEPT ![t] = NULL]
    /\ dst' = [dst EXCEPT ![t] = Tmp]
    /\ cnt' = [cnt EXCEPT ![t] = 0]

\* Thread t enters function f with the given arguments at the given label.
Enter(t, f, l, a, obj, d, label) ==
    /\ pc[t] = "idle" /\ budget[t] > 0
    /\ budget' = [budget EXCEPT ![t] = @ - 1]
    /\ call' = [call EXCEPT ![t] = f]
    /\ loc' = [loc EXCEPT ![t] = l]
    /\ alt' = [alt EXCEPT ![t] = a]
    /\ new' = [new EXCEPT ![t] = obj]
    /\ dst' = [dst EXCEPT ![t] = d]
    /\ Goto(t, label)
    /\ UNCHANGED <<old, cnt>>

-----------------------------------------------------------------------------
(* The calls a thread can make. *)

\* +alloc: a new object, whose one reference is put in strong variable s.
Alloc(t, s, o) ==
    /\ pc[t] = "idle" /\ budget[t] > 0
    /\ s # Tmp /\ strong[t][s] = NULL
    /\ mem[o] = "free"
    /\ mem' = [mem EXCEPT ![o] = "live"]
    /\ strong' = [strong EXCEPT ![t][s] = o]
    /\ budget' = [budget EXCEPT ![t] = @ - 1]
    /\ UNCHANGED <<refcnts, weak_table, seen_weak_refs, location, storage,
                   slock, pc, locals>>

\* objc_storeStrong(&s, o): retain o, assign, release what s held.  With o = nil
\* it is a release, and into an empty s it is a retain.
StoreStrong(t, s, o) ==
    /\ s # Tmp /\ o \in Held(t) \cup {NULL} /\ strong[t][s] # o
    /\ Enter(t, "storeStrong", NULL, NULL, o, s,
             IF o # NULL THEN "retain_lock" ELSE "release_lock")
    /\ strong' = IF o # NULL THEN strong
                 ELSE Assigned(t, s, NULL)
    /\ UNCHANGED <<heap, slock>>

StoreWeak(t, l, o) ==
    /\ MayUse(l) /\ o \in Held(t) \cup {NULL}
    /\ Enter(t, "storeWeak", l, NULL, o, Tmp, "store_read")
    /\ seen_weak_refs' = TRUE
    /\ UNCHANGED <<mem, refcnts, weak_table, location, storage, slock, strong>>

\* objc_initWeak(l, o): zero the fresh variable, then objc_storeWeak.
InitWeak(t, l, o) ==
    /\ ~ storage[l] /\ ~ InUse(l) /\ o \in Held(t) \cup {NULL}
    /\ Enter(t, "initWeak", l, NULL, o, Tmp, "store_read")
    /\ storage' = [storage EXCEPT ![l] = TRUE]
    /\ location' = [location EXCEPT ![l] = NULL]
    /\ seen_weak_refs' = TRUE
    /\ UNCHANGED <<mem, refcnts, weak_table, slock, strong>>

\* objc_destroyWeak(l): objc_storeWeak(l, nil); then the memory is reused.
DestroyWeak(t, l) ==
    /\ storage[l] /\ ~ InUse(l)
    /\ Enter(t, "destroyWeak", l, NULL, NULL, Tmp, "store_read")
    /\ seen_weak_refs' = TRUE
    /\ UNCHANGED <<mem, refcnts, weak_table, location, storage, slock, strong>>

\* objc_loadWeakRetained(l), the result kept in strong variable s.
LoadWeak(t, l, s) ==
    /\ MayUse(l) /\ s # Tmp /\ strong[t][s] = NULL
    /\ Enter(t, "loadWeak", l, NULL, NULL, s, "load_read")
    /\ UNCHANGED <<heap, slock, strong>>

\* objc_copyWeak(to, from): load from into a temporary, initialise to with it,
\* release the temporary.
CopyWeak(t, to, from) ==
    /\ to # from /\ MayUse(from) /\ ~ storage[to] /\ ~ InUse(to)
    /\ Enter(t, "copyWeak", from, to, NULL, Tmp, "load_read")
    /\ UNCHANGED <<heap, slock, strong>>

\* objc_moveWeak(to, from): objc_copyWeak, then objc_destroyWeak(from).
MoveWeak(t, to, from) ==
    /\ to # from /\ storage[from] /\ ~ InUse(from) /\ ~ storage[to] /\ ~ InUse(to)
    /\ Enter(t, "moveWeak", from, to, NULL, Tmp, "load_read")
    /\ UNCHANGED <<heap, slock, strong>>

-----------------------------------------------------------------------------
(* objc_retain, objc_release.  The count is read after the lock is taken and   *)
(* written before it is dropped: two steps, so that a count updated without    *)
(* the lock would be lost.                                                     *)

RetainLock(t) ==
    /\ pc[t] = "retain_lock"
    /\ Acquire(t, stripe[new[t]])
    /\ cnt' = [cnt EXCEPT ![t] = refcnts[new[t]]]
    /\ Goto(t, "retain_write")
    /\ UNCHANGED <<heap, strong, call, loc, alt, old, new, dst, budget>>

\* The retained object is assigned; what the variable held is released next.
RetainWrite(t) ==
    /\ pc[t] = "retain_write"
    /\ refcnts' = [refcnts EXCEPT ![new[t]] = cnt[t] + 2]
    /\ Release({stripe[new[t]]})
    /\ strong' = Assigned(t, dst[t], new[t])
    /\ IF strong[t][dst[t]] = NULL
         THEN Return(t)
         ELSE Goto(t, "release_lock") /\ UNCHANGED locals
    /\ UNCHANGED <<mem, weak_table, seen_weak_refs, location, storage, budget>>

ReleaseLock(t) ==
    /\ pc[t] = "release_lock"
    /\ Acquire(t, stripe[strong[t][Tmp]])
    /\ cnt' = [cnt EXCEPT ![t] = refcnts[strong[t][Tmp]]]
    /\ Goto(t, "release_write")
    /\ UNCHANGED <<heap, strong, call, loc, alt, old, new, dst, budget>>

\* What follows the release of the temporary: objc_moveWeak still has to
\* destroy its source.
AfterRelease(t) ==
    IF call[t] = "moveWeak"
      THEN /\ call' = [call EXCEPT ![t] = "destroyWeak"]
           /\ loc' = [loc EXCEPT ![t] = alt[t]]
           /\ alt' = [alt EXCEPT ![t] = NULL]
           /\ old' = [old EXCEPT ![t] = NULL]
           /\ new' = [new EXCEPT ![t] = NULL]
           /\ Goto(t, "store_read")
           /\ UNCHANGED <<dst, cnt>>
      ELSE Return(t)

\* An object without extra references loses its only one.
LastReference(c) == c = 0

\* The last reference: the deallocating bit is set, and -release calls -dealloc.
ReleaseLast(t) ==
    LET o == strong[t][Tmp] IN
    /\ pc[t] = "release_write" /\ LastReference(cnt[t])
    /\ refcnts' = [refcnts EXCEPT ![o] = 1]
    /\ mem' = [mem EXCEPT ![o] = "dying"]
    /\ Release({stripe[o]})
    /\ strong' = [strong EXCEPT ![t][Tmp] = NULL]
    /\ old' = [old EXCEPT ![t] = o]
    /\ Goto(t, "clear_lock")
    /\ UNCHANGED <<weak_table, seen_weak_refs, location, storage,
                   call, loc, alt, new, dst, cnt, budget>>

ReleaseOne(t) ==
    LET o == strong[t][Tmp] IN
    /\ pc[t] = "release_write" /\ ~ LastReference(cnt[t])
    /\ refcnts' = [refcnts EXCEPT ![o] = cnt[t] - 2]
    /\ Release({stripe[o]})
    /\ strong' = [strong EXCEPT ![t][Tmp] = NULL]
    /\ AfterRelease(t)
    /\ UNCHANGED <<mem, weak_table, seen_weak_refs, location, storage, budget>>

-----------------------------------------------------------------------------
(* objc_storeWeak: lock the tables of the old and the new value, the higher    *)
(* address first; retry when the variable changed meanwhile.                   *)

StoreRead(t) ==
    /\ pc[t] = "store_read"
    /\ old' = [old EXCEPT ![t] = location[loc[t]]]
    /\ Goto(t, IF stripe[old'[t]] # stripe[new[t]] THEN "store_lock2" ELSE "store_lock1")
    /\ UNCHANGED <<heap, slock, strong, call, loc, alt, new, dst, cnt, budget>>

\* Mutant: the old value's lock first, whatever the addresses.
OldFirst(t) == stripe[old[t]]

\* The higher of the two locks, and the other one, taken second.
High(t) == IF stripe[old[t]] > stripe[new[t]] THEN stripe[old[t]] ELSE stripe[new[t]]
Low(t)  == IF High(t) = stripe[old[t]] THEN stripe[new[t]] ELSE stripe[old[t]]

\* Mutant: the variable is not looked at again under the locks.
NeverChanged(t) == FALSE

\* The variable changed since it was read without a lock.
Changed(t) == location[loc[t]] # old[t]

StoreLock2(t) ==
    /\ pc[t] = "store_lock2"
    /\ Acquire(t, High(t))
    /\ Goto(t, "store_lock1")
    /\ UNCHANGED <<heap, strong, locals, budget>>

StoreLock1(t) ==
    /\ pc[t] = "store_lock1"
    /\ Acquire(t, Low(t))
    /\ Goto(t, "store_check")
    /\ UNCHANGED <<heap, strong, locals, budget>>

StoreRetry(t) ==
    /\ pc[t] = "store_check" /\ Changed(t)
    /\ Release({stripe[old[t]], stripe[new[t]]})
    /\ Goto(t, "store_read")
    /\ UNCHANGED <<heap, strong, locals, budget>>

\* weak_unregister_no_lock(oldTable, oldObj, location)
StoreUnregister(t) ==
    /\ pc[t] = "store_check" /\ ~ Changed(t)
    /\ weak_table' = IF old[t] = NULL THEN weak_table
                     ELSE [weak_table EXCEPT ![old[t]] = @ \ {loc[t]}]
    /\ Goto(t, IF new[t] = NULL THEN "store_set" ELSE "store_register")
    /\ UNCHANGED <<mem, refcnts, seen_weak_refs, location, storage,
                   slock, strong, locals, budget>>

\* weak_register_no_lock(newTable, newObj, location): a deallocating object
\* answers NO to -allowsWeakReference, which is fatal.
StoreRegister(t) ==
    /\ pc[t] = "store_register"
    /\ IF Deallocating(new[t])
         THEN Goto(t, "fatal") /\ UNCHANGED weak_table
         ELSE /\ weak_table' = [weak_table EXCEPT ![new[t]] = @ \cup {loc[t]}]
              /\ Goto(t, "store_set")
    /\ UNCHANGED <<mem, refcnts, seen_weak_refs, location, storage,
                   slock, strong, locals, budget>>

\* What follows a store: objc_copyWeak releases its temporary, objc_destroyWeak's
\* variable is gone.
AfterStore(t) ==
    IF call[t] \in {"copyWeak", "moveWeak"} /\ strong[t][Tmp] # NULL
      THEN Goto(t, "release_lock") /\ UNCHANGED locals
      ELSE AfterRelease(t)

StoreSet(t) ==
    /\ pc[t] = "store_set"
    /\ location' = [location EXCEPT ![loc[t]] = new[t]]
    /\ storage' = [storage EXCEPT ![loc[t]] = call[t] # "destroyWeak"]
    /\ Release({stripe[old[t]], stripe[new[t]]})
    /\ AfterStore(t)
    /\ UNCHANGED <<mem, refcnts, weak_table, seen_weak_refs, strong, budget>>

-----------------------------------------------------------------------------
(* objc_loadWeakRetained *)

\* What follows a load of value p: objc_copyWeak initialises its destination.
AfterLoad(t, p) ==
    IF call[t] \in {"copyWeak", "moveWeak"}
      THEN /\ loc' = [loc EXCEPT ![t] = alt[t]]
           /\ alt' = IF call[t] = "copyWeak" THEN alt ELSE [alt EXCEPT ![t] = loc[t]]
           /\ old' = [old EXCEPT ![t] = NULL]
           /\ new' = [new EXCEPT ![t] = p]
           /\ seen_weak_refs' = TRUE
           /\ storage' = [storage EXCEPT ![alt[t]] = TRUE]
           /\ Goto(t, "store_read")
           /\ UNCHANGED <<call, dst, cnt>>
      ELSE Return(t) /\ UNCHANGED <<seen_weak_refs, storage>>

\* objc_initWeak zeroes the destination of a copy before it stores into it.
Zeroed(t, f) == IF call[t] \in {"copyWeak", "moveWeak"}
                  THEN [f EXCEPT ![alt[t]] = NULL] ELSE f

LoadRead(t) ==
    /\ pc[t] = "load_read"
    /\ IF location[loc[t]] = NULL
         THEN AfterLoad(t, NULL) /\ location' = Zeroed(t, location)
         ELSE /\ old' = [old EXCEPT ![t] = location[loc[t]]]
              /\ Goto(t, "load_lock")
              /\ UNCHANGED <<call, loc, alt, new, dst, cnt, seen_weak_refs,
                             location, storage>>
    /\ UNCHANGED <<mem, refcnts, weak_table, slock, strong, budget>>

LoadLock(t) ==
    /\ pc[t] = "load_lock"
    /\ Acquire(t, stripe[old[t]])
    /\ Goto(t, "load_check")
    /\ UNCHANGED <<heap, strong, locals, budget>>

LoadRetry(t) ==
    /\ pc[t] = "load_check" /\ Changed(t)
    /\ Release({stripe[old[t]]})
    /\ Goto(t, "load_read")
    /\ UNCHANGED <<heap, strong, locals, budget>>

\* arr_read_weak_reference answers nil when the object has no entry, and then
\* zeroes the variable, or when it is deallocating: -retainWeakReference, that
\* is _objc_rootTryRetain, says NO.
LoadRefused(t) ==
    LET entry == weak_table[old[t]] # {} IN
    /\ pc[t] = "load_check" /\ ~ Changed(t)
    /\ entry => Deallocating(old[t])
    /\ Release({stripe[old[t]]})
    /\ AfterLoad(t, NULL)
    /\ location' = Zeroed(t, IF entry THEN location ELSE [location EXCEPT ![loc[t]] = NULL])
    /\ UNCHANGED <<mem, refcnts, weak_table, strong, budget>>

LoadRetained(t) ==
    /\ pc[t] = "load_check" /\ ~ Changed(t)
    /\ weak_table[old[t]] # {} /\ ~ Deallocating(old[t])
    /\ refcnts' = [refcnts EXCEPT ![old[t]] = @ + 2]
    /\ strong' = [strong EXCEPT ![t][dst[t]] = old[t]]
    /\ Release({stripe[old[t]]})
    /\ AfterLoad(t, old[t]) /\ location' = Zeroed(t, location)
    /\ UNCHANGED <<mem, weak_table, budget>>

-----------------------------------------------------------------------------
(* -dealloc: objc_clear_deallocating, then free.                               *)

ClearLock(t) ==
    /\ pc[t] = "clear_lock"
    /\ Acquire(t, stripe[old[t]])
    /\ Goto(t, IF seen_weak_refs THEN "clear_weak" ELSE "clear_erase")
    /\ UNCHANGED <<heap, strong, locals, budget>>

\* arr_clear_deallocating zeroes the referrers one by one, in hash order.  The
\* entry is private to the holder of the lock, so what the table keeps of it here
\* is the referrers the loop has not reached.
ClearReferrer(t) ==
    /\ pc[t] = "clear_weak"
    /\ \E l \in weak_table[old[t]] :
         /\ weak_table' = [weak_table EXCEPT ![old[t]] = @ \ {l}]
         /\ location' = IF location[l] = old[t] THEN [location EXCEPT ![l] = NULL]
                                               ELSE location
    /\ UNCHANGED <<mem, refcnts, seen_weak_refs, storage,
                   slock, strong, pc, locals, budget>>

ClearErase(t) ==
    /\ \/ pc[t] = "clear_weak" /\ weak_table[old[t]] = {}
       \/ pc[t] = "clear_erase"
    /\ refcnts' = [refcnts EXCEPT ![old[t]] = 0]
    /\ Release({stripe[old[t]]})
    /\ Goto(t, "free")
    /\ UNCHANGED <<mem, weak_table, seen_weak_refs, location, storage,
                   strong, locals, budget>>

Free(t) ==
    /\ pc[t] = "free"
    /\ mem' = [mem EXCEPT ![old[t]] = "free"]
    /\ AfterRelease(t)
    /\ UNCHANGED <<refcnts, weak_table, seen_weak_refs, location, storage,
                   slock, strong, budget>>

-----------------------------------------------------------------------------
Call(t) ==
    \/ \E s \in Slot, o \in Obj : Alloc(t, s, o)
    \/ \E s \in Slot, o \in Ptr : StoreStrong(t, s, o)
    \/ \E l \in Loc, o \in Ptr : StoreWeak(t, l, o) \/ InitWeak(t, l, o)
    \/ \E l \in Loc : DestroyWeak(t, l)
    \/ \E l \in Loc, s \in Slot : LoadWeak(t, l, s)
    \/ \E l, m \in Loc : CopyWeak(t, l, m) \/ MoveWeak(t, l, m)

Step(t) ==
    \/ RetainLock(t) \/ RetainWrite(t)
    \/ ReleaseLock(t) \/ ReleaseLast(t) \/ ReleaseOne(t)
    \/ StoreRead(t) \/ StoreLock2(t) \/ StoreLock1(t) \/ StoreRetry(t)
    \/ StoreUnregister(t) \/ StoreRegister(t) \/ StoreSet(t)
    \/ LoadRead(t) \/ LoadLock(t) \/ LoadRetry(t)
    \/ LoadRefused(t) \/ LoadRetained(t)
    \/ ClearLock(t) \/ ClearReferrer(t) \/ ClearErase(t)
    \/ Free(t)

\* Every call has returned and no thread makes another one.
Done == (\A t \in Thread : pc[t] = "idle") /\ UNCHANGED vars

Next == (\E t \in Thread : Call(t) \/ Step(t)) \/ Done

Spec == Init /\ [][Next]_vars

\* Threads may stop between calls, never inside one.
Fairness == \A t \in Thread : WF_vars(Step(t))
FairSpec == Spec /\ Fairness
-----------------------------------------------------------------------------
TypeOK ==
    /\ mem \in [Obj -> {"free", "live", "dying"}]
    /\ refcnts \in [Obj -> Nat]
    /\ weak_table \in [Obj -> SUBSET Loc]
    /\ seen_weak_refs \in BOOLEAN
    /\ location \in [Loc -> Ptr]
    /\ storage \in [Loc -> BOOLEAN]
    /\ slock \in [Stripe -> Thread \cup {NULL}]
    /\ strong \in [Thread -> [Slot -> Ptr]]
    /\ pc \in [Thread -> Labels]
    /\ call \in [Thread -> Calls]
    /\ loc \in [Thread -> Loc \cup {NULL}]
    /\ alt \in [Thread -> Loc \cup {NULL}]
    /\ old \in [Thread -> Ptr]
    /\ new \in [Thread -> Ptr]
    /\ dst \in [Thread -> Slot]
    /\ cnt \in [Thread -> Nat]
    /\ budget \in [Thread -> Nat]

\* Between any two steps of any threads an object is alive exactly as long as a
\* strong variable points to it, and its side table's count is the number of
\* those references minus the first one: no unlocked update of a count is lost,
\* and no weak load that races the last release revives the object.
RefcountExact == \A o \in Obj :
    /\ mem[o] = "live" <=> Owners(o) # {}
    /\ mem[o] = "live" => refcnts[o] = 2 * (Cardinality(Owners(o)) - 1)

\* No weak variable points to freed memory: every variable objc_storeWeak ever
\* stored an object into is zeroed before that object is freed.
WeakNeverDangles ==
    \A l \in Loc : storage[l] /\ location[l] # NULL => mem[location[l]] # "free"

\* The weak tables know no address that stopped being a weak variable, which
\* arr_clear_deallocating would write to, and no freed object, whose entry an
\* object allocated at its address would inherit.
NoStaleReferrer ==
    \A o \in Obj : \A l \in weak_table[o] : storage[l] /\ mem[o] # "free"

\* Whatever the other threads do, every call returns: the two locks of
\* objc_storeWeak do not deadlock, and its retries and objc_loadWeakRetained's
\* end.
CallsReturn == \A t \in Thread : pc[t] # "idle" ~> pc[t] = "idle"

-----------------------------------------------------------------------------
(* The atomic weak memory this implements.                                     *)

\* What a weak variable promises: the object until its last strong reference is
\* gone, nil from that very step on, though the memory holds the address for
\* some time after.
WeakValue == [l \in Loc |->
    IF storage[l] /\ location[l] \in Obj /\ mem[location[l]] = "live"
      THEN location[l] ELSE NULL]

Live == {o \in Obj : mem[o] = "live"}

Memory == INSTANCE WeakMemory WITH weak <- WeakValue, live <- Live

\* Every step of the side tables is a step of the atomic memory or changes
\* nothing of it.
ImplementsWeakMemory == Memory!Spec

\* Each side knows the other, but for a store that holds the lock and is about to
\* put it right: a table's variable refers to the object, or is being set to it;
\* an object a variable refers to has it in its table, or the store has just
\* taken it out, to register the variable with another object and set it.
TablesAgree ==
    /\ \A o \in Obj : \A l \in weak_table[o] :
         \/ location[l] = o
         \/ \E t \in Thread : pc[t] = "store_set" /\ loc[t] = l /\ new[t] = o
    /\ \A l \in Loc : location[l] # NULL =>
         \/ l \in weak_table[location[l]]
         \/ \E t \in Thread : pc[t] \in {"store_register", "store_set"} /\ loc[t] = l

(* The tables and the weak variables agree: no weak variable names freed memory;
   no table names a variable that is gone or, while no store is setting it, does
   not refer to the object, and none has forgotten one that does. *)
TablesConsistent == TypeOK /\ WeakNeverDangles /\ NoStaleReferrer /\ TablesAgree
=============================================================================
