--------------------------- MODULE SideTableProofs ---------------------------
(***************************************************************************)
(* The reference counts and the weak references of NSObject.mm are right   *)
(* for any threads, objects, weak variables and hash of objects to side    *)
(* tables: counts are exact, no weak variable names freed memory, no weak  *)
(* table names a variable that is gone, and every step is a step of the    *)
(* atomic weak memory or invisible to it.                                  *)
(*                                                                         *)
(* None of these is inductive.  What is carried from step to step is       *)
(*   - what each function under way knows: its arguments, the locks it     *)
(*     holds, and what it read under them and may still rely on (ThreadOK);*)
(*   - that the weak variables a function takes for itself are in no       *)
(*     other's arguments, and an object has one deallocating thread;       *)
(*   - of every object, what its count and its weak entry are while it is  *)
(*     free, live and dying (ObjectOK);                                   *)
(*   - that weak tables and weak variables name each other, except for a   *)
(*     variable that a store holding the lock is about to set (WeakOK).    *)
(*                                                                         *)
(* The table that holds the counts of a side table is right for any keys,  *)
(* values and hash: its counters are exact, and every search ends with     *)
(* what was stored last.  That rests on the table being a power of two in  *)
(* size, of which a search visits every bucket; on the calls leaving one   *)
(* empty; and on no empty one ever coming to be on the way to an entry     *)
(* (MapIInv).                                                              *)
(***************************************************************************)
EXTENDS SideTable, DenseMap, FoldLemmas

Retaining == {"retain_lock", "retain_write"}
Releasing == {"release_lock", "release_write"}
Clearing  == {"clear_lock", "clear_weak", "clear_erase", "free"}
Loading   == {"load_read", "load_lock", "load_check"}
Storing   == {"store_read", "store_lock2", "store_lock1", "store_check",
              "store_register", "store_set"}

\* The store holds the lock and has taken the variable out of the old value's
\* entry.
Updating(t) == pc[t] \in {"store_register", "store_set"}

Copies == {"copyWeak", "moveWeak"}

\* Where each function can be, and what it was given.
ArgsOK(t) ==
    /\ pc[t] # "fatal"
    /\ pc[t] = "idle" <=> call[t] = "none"
    /\ pc[t] \in Retaining => 
         /\ call[t] = "storeStrong"
         /\ new[t] \in Held(t) /\ dst[t] # Tmp /\ strong[t][dst[t]] # new[t]
    /\ pc[t] \in Releasing \cup Clearing => call[t] \in {"storeStrong"} \cup Copies
    /\ pc[t] \in Loading => call[t] \in {"loadWeak"} \cup Copies
    /\ pc[t] \in Storing => 
         /\ call[t] \in {"storeWeak", "initWeak", "destroyWeak"} \cup Copies
         /\ seen_weak_refs
         /\ new[t] \in Held(t) \cup {NULL}
    /\ pc[t] \in Releasing => strong[t][Tmp] # NULL
    /\ strong[t][Tmp] # NULL =>
         \/ pc[t] \in Releasing
         \/ pc[t] \in Storing /\ call[t] \in Copies /\ new[t] = strong[t][Tmp]

\* The weak variables it was given, and the strong one it will assign.
VariablesOK(t) ==
    /\ call[t] \in {"storeWeak", "initWeak", "destroyWeak", "loadWeak"} =>
         loc[t] \in Loc /\ storage[loc[t]]
    /\ call[t] = "destroyWeak" => new[t] = NULL
    /\ call[t] = "loadWeak" => dst[t] # Tmp /\ strong[t][dst[t]] = NULL
    /\ call[t] \in Copies =>
         /\ loc[t] \in Loc /\ alt[t] \in Loc /\ dst[t] = Tmp
         /\ storage[loc[t]]
         /\ pc[t] \in Loading => loc[t] # alt[t] /\ ~ storage[alt[t]]
         /\ pc[t] \notin Loading => storage[alt[t]] /\ seen_weak_refs
    /\ pc[t] \in {"load_lock", "load_check"} => old[t] # NULL

LocalsTyped ==
    /\ pc \in [Thread -> Labels] /\ call \in [Thread -> Calls]
    /\ loc \in [Thread -> Loc \cup {NULL}] /\ alt \in [Thread -> Loc \cup {NULL}]
    /\ old \in [Thread -> Ptr] /\ new \in [Thread -> Ptr]
    /\ dst \in [Thread -> Slot] /\ cnt \in [Thread -> Nat]

\* The spin locks it holds, and the count it read under one of them.
LocksOK(t) ==
    /\ pc[t] = "retain_write" =>
         slock[stripe[new[t]]] = t /\ cnt[t] = refcnts[new[t]]
    /\ pc[t] = "release_write" =>
         slock[stripe[strong[t][Tmp]]] = t /\ cnt[t] = refcnts[strong[t][Tmp]]
    /\ pc[t] = "store_lock1" /\ stripe[old[t]] # stripe[new[t]] => slock[High(t)] = t
    /\ pc[t] \in {"store_check", "store_register", "store_set"} =>
         slock[stripe[old[t]]] = t /\ slock[stripe[new[t]]] = t
    /\ pc[t] \in {"load_check", "clear_weak", "clear_erase"} => slock[stripe[old[t]]] = t

\* A store that has unregistered its variable: nobody else has changed it, and
\* it is registered for the new value and for no other before it is set.
UpdateOK(t) ==
    /\ Updating(t) => location[loc[t]] = old[t]
    /\ pc[t] = "store_register" =>
         /\ new[t] # NULL
         /\ old[t] # NULL => loc[t] \notin weak_table[old[t]]
    /\ pc[t] = "store_set" =>
         /\ new[t] # NULL => loc[t] \in weak_table[new[t]]
         /\ old[t] \notin {NULL, new[t]} => loc[t] \notin weak_table[old[t]]

\* The deallocation of an object: its bit is set until its weak references are
\* cleared, and from then on no variable names it.
ClearOK(t) ==
    /\ pc[t] \in Clearing => old[t] # NULL /\ mem[old[t]] = "dying"
    /\ pc[t] \in Clearing \ {"free"} => refcnts[old[t]] = 1
    /\ pc[t] = "clear_erase" => weak_table[old[t]] = {}
    /\ pc[t] = "free" =>
         /\ refcnts[old[t]] = 0 /\ weak_table[old[t]] = {}
         /\ \A l \in Loc : location[l] # old[t]

ThreadOK(t) == ArgsOK(t) /\ VariablesOK(t) /\ LocksOK(t) /\ UpdateOK(t) /\ ClearOK(t)

\* A weak variable a function creates or destroys is in no other's arguments,
\* and an object is deallocated once.
ApartOK ==
    \A t, u \in Thread : t # u =>
        /\ \A l \in Exclusive(t) \cap Loc : l # loc[u] /\ l # alt[u]
        /\ pc[t] \in Clearing /\ pc[u] \in Clearing => old[t] # old[u]

\* Free memory has no count and no weak references; a dying object has no owner,
\* and answers that it is deallocating until it has no weak references either.
ObjectOK(o) ==
    /\ mem[o] = "live" <=> Owners(o) # {}
    /\ mem[o] = "live" => refcnts[o] = 2 * (Cardinality(Owners(o)) - 1)
    /\ mem[o] = "free" => refcnts[o] = 0 /\ weak_table[o] = {}
    /\ mem[o] = "dying" => refcnts[o] = 1 \/ (refcnts[o] = 0 /\ weak_table[o] = {})

\* Memory that is not a weak variable reads as nil; a weak table's referrers
\* refer to the object or are about to; a variable that names an object is in its
\* entry or about to be changed; and no variable names free memory.
WeakOK ==
    /\ \A l \in Loc :
         /\ ~ storage[l] => location[l] = NULL
         /\ location[l] # NULL =>
              /\ mem[location[l]] # "free"
              /\ l \in weak_table[location[l]] \/ \E t \in Thread : Updating(t) /\ loc[t] = l
    /\ \A o \in Obj : \A l \in weak_table[o] :
         /\ storage[l]
         /\ \/ location[l] = o
            \/ \E t \in Thread : pc[t] = "store_set" /\ loc[t] = l /\ new[t] = o
    /\ ~ seen_weak_refs =>
         (\A o \in Obj : weak_table[o] = {}) /\ (\A l \in Loc : location[l] = NULL)

IInv ==
    /\ TypeOK
    /\ \A t \in Thread : ThreadOK(t)
    /\ ApartOK
    /\ \A o \in Obj : ObjectOK(o)
    /\ WeakOK

-----------------------------------------------------------------------------
(* What a step of t leaves to the other threads.                               *)

\* Their locals, their locks and their variables are theirs; counts, entries and
\* variables are written under the lock of the object concerned; and nothing is
\* done to an object that is not alive except by the thread that deallocates it.
KeepsLocals(t) ==
    \A u \in Thread \ {t} :
         /\ pc'[u] = pc[u] /\ call'[u] = call[u] /\ loc'[u] = loc[u] /\ alt'[u] = alt[u]
         /\ old'[u] = old[u] /\ new'[u] = new[u] /\ dst'[u] = dst[u] /\ cnt'[u] = cnt[u]

LeavesOthers(t) ==
    /\ KeepsLocals(t)
    /\ \A u \in Thread \ {t} :
         /\ strong'[u] = strong[u]
         /\ \A s \in Stripe : slock[s] = u => slock'[s] = u
         /\ \A l \in Loc : l \in {loc[u], alt[u]} => storage'[l] = storage[l]
    /\ \A o \in Obj : refcnts'[o] # refcnts[o] =>
         /\ slock[stripe[o]] = t
         /\ mem[o] = "live" \/ (pc[t] \in Clearing /\ old[t] = o)
    /\ \A o \in Obj : weak_table'[o] # weak_table[o] =>
         /\ slock[stripe[o]] = t
         /\ mem[o] = "live" \/ weak_table'[o] \subseteq weak_table[o]
    /\ \A l \in Loc : location'[l] # location[l] =>
         /\ slock[stripe[location[l]]] = t
         /\ location'[l] # NULL => mem[location'[l]] = "live"
    /\ \A o \in Obj : mem[o] = "dying" =>
         mem'[o] = "dying" \/ (pc[t] \in Clearing /\ old[t] = o)
    /\ seen_weak_refs => seen_weak_refs'

USE SideTableAssumption

LEMMA StripeOfPtr == \A p \in Ptr : stripe[p] \in Stripe /\ stripe[p] \in Nat
  BY DEF Ptr, Stripe

LEMMA OthersKept ==
  ASSUME IInv, TypeOK', NEW t \in Thread, LeavesOthers(t)
  PROVE  \A u \in Thread \ {t} : ThreadOK(u)'
<1> SUFFICES ASSUME NEW u \in Thread \ {t} PROVE ThreadOK(u)'
  OBVIOUS
<1>1. /\ TypeOK /\ ThreadOK(u)
      /\ pc'[u] = pc[u] /\ call'[u] = call[u] /\ loc'[u] = loc[u] /\ alt'[u] = alt[u]
      /\ old'[u] = old[u] /\ new'[u] = new[u] /\ dst'[u] = dst[u] /\ cnt'[u] = cnt[u]
      /\ strong'[u] = strong[u] /\ Held(u)' = Held(u)
      /\ old[u] \in Ptr /\ new[u] \in Ptr /\ strong[u][Tmp] \in Ptr
  BY DEF KeepsLocals, IInv, LeavesOthers, Held, TypeOK
<1>2. ArgsOK(u)'
  BY <1>1 DEF KeepsLocals, LeavesOthers, ThreadOK, ArgsOK
<1>3. VariablesOK(u)'
  BY <1>1 DEF KeepsLocals, LeavesOthers, ThreadOK, VariablesOK, Copies
<1>4. LocksOK(u)'
  <2>1. /\ \A p \in Ptr : slock[stripe[p]] = u => slock'[stripe[p]] = u
        /\ \A o \in Obj : slock[stripe[o]] = u => refcnts'[o] = refcnts[o]
    BY <1>1, StripeOfPtr DEF KeepsLocals, LeavesOthers
  <2>2. High(u)' = High(u) /\ High(u) \in {stripe[old[u]], stripe[new[u]]}
    BY <1>1 DEF High
  <2> QED BY <1>1, <2>1, <2>2 DEF ThreadOK, LocksOK, ArgsOK, Retaining, Releasing, Held, Ptr
<1>5. UpdateOK(u)'
  <2>1. \A o \in Obj : slock[stripe[o]] = u => weak_table'[o] = weak_table[o]
    BY <1>1 DEF KeepsLocals, LeavesOthers
  <2>2. Updating(u) => loc[u] \in Loc /\ slock[stripe[old[u]]] = u /\ slock[stripe[new[u]]] = u
    BY <1>1 DEF ThreadOK, ArgsOK, VariablesOK, LocksOK, Updating, Storing, Copies
  <2>3. Updating(u) => location'[loc[u]] = old[u]
    BY <1>1, <2>2 DEF ThreadOK, UpdateOK, LeavesOthers
  <2> QED BY <1>1, <2>1, <2>2, <2>3 DEF ThreadOK, UpdateOK, Updating, Ptr
<1>6. ClearOK(u)'
  <2> SUFFICES ASSUME pc[u] \in Clearing PROVE ClearOK(u)'
    BY <1>1 DEF ClearOK, Clearing
  <2>1. old[u] \in Obj /\ mem[old[u]] = "dying"
    BY <1>1 DEF ThreadOK, ClearOK, Ptr
  <2>2. ~ (pc[t] \in Clearing /\ old[t] = old[u])
    BY DEF IInv, ApartOK
  <2>3. /\ mem'[old[u]] = "dying" /\ refcnts'[old[u]] = refcnts[old[u]]
        /\ weak_table'[old[u]] \subseteq weak_table[old[u]]
    BY <2>1, <2>2 DEF KeepsLocals, LeavesOthers
  <2>4. \A l \in Loc : location'[l] = old[u] => location[l] = old[u]
    BY <2>1 DEF KeepsLocals, LeavesOthers
  <2> QED BY <1>1, <2>3, <2>4 DEF ThreadOK, ClearOK
<1> QED BY <1>2, <1>3, <1>4, <1>5, <1>6 DEF ThreadOK

\* The weak variables t takes for itself are among those it took already, and it
\* deallocates no object that another thread deallocates.
LEMMA ApartKept ==
  ASSUME IInv, NEW t \in Thread, LeavesOthers(t),
         \A l \in Loc : l \in Exclusive(t)' => l \in Exclusive(t),
         \A l \in Loc : l \in {loc'[t], alt'[t]} => l \in {loc[t], alt[t]},
         pc'[t] \in Clearing =>
            (pc[t] \in Clearing /\ old'[t] = old[t]) \/ mem[old'[t]] = "live"
  PROVE  ApartOK'
<1>1. \A u \in Thread \ {t} : Exclusive(u)' = Exclusive(u)
  BY DEF KeepsLocals, LeavesOthers, Exclusive
<1>2. \A u \in Thread : pc[u] \in Clearing => mem[old[u]] = "dying"
  BY DEF IInv, ThreadOK, ClearOK
<1> SUFFICES ASSUME NEW u \in Thread, NEW v \in Thread, u # v
             PROVE  /\ \A l \in Exclusive(u)' \cap Loc : l # loc'[v] /\ l # alt'[v]
                    /\ pc'[u] \in Clearing /\ pc'[v] \in Clearing => old'[u] # old'[v]
  BY DEF ApartOK
<1>3. CASE u # t /\ v # t
  BY <1>1, <1>3 DEF KeepsLocals, LeavesOthers, IInv, ApartOK
<1>4. CASE u = t /\ v # t
  BY <1>1, <1>2, <1>4 DEF KeepsLocals, LeavesOthers, IInv, ApartOK
<1>5. CASE u # t /\ v = t
  BY <1>1, <1>2, <1>5 DEF KeepsLocals, LeavesOthers, IInv, ApartOK
<1> QED BY <1>3, <1>4, <1>5

-----------------------------------------------------------------------------
(* The references to an object.                                                *)

LEMMA OwnersCount ==
  ASSUME TypeOK, NEW o \in Obj
  PROVE  /\ IsFiniteSet(Owners(o)) /\ Cardinality(Owners(o)) \in Nat
         /\ Cardinality(Owners(o)) = 0 <=> Owners(o) = {}
<1>1. IsFiniteSet(Thread \X Slot)
  BY FS_Product
<1>2. Owners(o) \subseteq Thread \X Slot
  BY DEF Owners
<1> QED BY <1>1, <1>2, FS_Subset, FS_CardinalityType, FS_EmptySet

\* An empty strong variable is set.
LEMMA OwnerAdded ==
  ASSUME TypeOK, NEW t \in Thread, NEW s \in Slot, NEW o \in Obj,
         strong[t][s] = NULL, strong' = [strong EXCEPT ![t][s] = o]
  PROVE  /\ Owners(o)' # {}
         /\ Cardinality(Owners(o)') = Cardinality(Owners(o)) + 1
         /\ \A p \in Obj \ {o} : Owners(p)' = Owners(p)
<1>1. \A u \in Thread, r \in Slot :
         strong'[u][r] = IF u = t /\ r = s THEN o ELSE strong[u][r]
  BY DEF TypeOK
<1>2. Owners(o)' = Owners(o) \cup {<<t, s>>} /\ <<t, s>> \notin Owners(o)
  BY <1>1 DEF Owners
<1>3. \A p \in Obj \ {o} : Owners(p)' = Owners(p)
  BY <1>1 DEF Owners
<1> QED BY <1>2, <1>3, OwnersCount, FS_AddElement

\* The temporary is dropped.
LEMMA OwnerDropped ==
  ASSUME TypeOK, NEW t \in Thread, NEW o \in Obj,
         strong[t][Tmp] = o, strong' = [strong EXCEPT ![t][Tmp] = NULL]
  PROVE  /\ Owners(o) # {}
         /\ Cardinality(Owners(o)') = Cardinality(Owners(o)) - 1
         /\ Owners(o)' = {} <=> Cardinality(Owners(o)) = 1
         /\ \A p \in Obj \ {o} : Owners(p)' = Owners(p)
<1>1. \A u \in Thread, r \in Slot :
         strong'[u][r] = IF u = t /\ r = Tmp THEN NULL ELSE strong[u][r]
  BY DEF TypeOK
<1>2. Owners(o)' = Owners(o) \ {<<t, Tmp>>} /\ <<t, Tmp>> \in Owners(o)
  BY <1>1 DEF Owners
<1>3. \A p \in Obj \ {o} : Owners(p)' = Owners(p)
  BY <1>1 DEF Owners
<1>4. Cardinality(Owners(o)') = Cardinality(Owners(o)) - 1
  <2>1. IsFiniteSet(Owners(o))
    BY OwnersCount
  <2>2. Cardinality(Owners(o) \ {<<t, Tmp>>}) = Cardinality(Owners(o)) - 1
    BY <1>2, <2>1, FS_RemoveElement
  <2> QED BY <1>2, <2>2
<1>5. Owners(o)' = {} <=> Cardinality(Owners(o)') = 0
  BY <1>2, OwnersCount, FS_RemoveElement, FS_EmptySet
<1>6. Cardinality(Owners(o)) \in Nat
  BY OwnersCount
<1> QED BY <1>2, <1>3, <1>4, <1>5, <1>6

\* An assignment moves the variable's old reference to the temporary.
LEMMA OwnerAssigned ==
  ASSUME TypeOK, NEW t \in Thread, NEW s \in Slot \ {Tmp}, NEW p \in Ptr,
         strong[t][Tmp] = NULL, strong[t][s] # p, strong' = Assigned(t, s, p)
  PROVE  /\ p # NULL => /\ Owners(p)' # {}
                        /\ Cardinality(Owners(p)') = Cardinality(Owners(p)) + 1
         /\ \A q \in Obj \ {p} :
              /\ Cardinality(Owners(q)') = Cardinality(Owners(q))
              /\ Owners(q)' = {} <=> Owners(q) = {}
<1>1. \A u \in Thread, r \in Slot :
         strong'[u][r] = IF u = t /\ r = s THEN p
                         ELSE IF u = t /\ r = Tmp THEN strong[t][s] ELSE strong[u][r]
  BY DEF TypeOK, Assigned
<1>2. ASSUME p # NULL
      PROVE  /\ Owners(p)' # {}
             /\ Cardinality(Owners(p)') = Cardinality(Owners(p)) + 1
  <2>1. Owners(p)' = Owners(p) \cup {<<t, s>>} /\ <<t, s>> \notin Owners(p)
    BY <1>1, <1>2 DEF Owners
  <2> QED BY <1>2, <2>1, OwnersCount, FS_AddElement DEF Ptr
<1>3. ASSUME NEW q \in Obj \ {p}
      PROVE  /\ Cardinality(Owners(q)') = Cardinality(Owners(q))
             /\ Owners(q)' = {} <=> Owners(q) = {}
  <2>1. CASE strong[t][s] = q
    <3>1. /\ Owners(q)' = (Owners(q) \ {<<t, s>>}) \cup {<<t, Tmp>>}
          /\ <<t, s>> \in Owners(q) /\ <<t, Tmp>> \notin Owners(q) \ {<<t, s>>}
      BY <1>1, <1>3, <2>1 DEF Owners
    <3>2. /\ IsFiniteSet(Owners(q) \ {<<t, s>>})
          /\ Cardinality(Owners(q) \ {<<t, s>>}) = Cardinality(Owners(q)) - 1
      BY <3>1, OwnersCount, FS_RemoveElement
    <3>3. Cardinality(Owners(q)') = Cardinality(Owners(q)) - 1 + 1
      BY <3>1, <3>2, FS_AddElement
    <3>4. Cardinality(Owners(q)) \in Nat
      BY OwnersCount
    <3> QED BY <3>1, <3>3, <3>4
  <2>2. CASE strong[t][s] # q
    <3>1. Owners(q)' = Owners(q)
      BY <1>1, <1>3, <2>2 DEF Owners
    <3> QED BY <3>1
  <2> QED BY <2>1, <2>2
<1> QED BY <1>2, <1>3

\* What a thread holds is alive.
LEMMA HeldIsLive ==
  ASSUME IInv, NEW t \in Thread, NEW s \in Slot, strong[t][s] # NULL
  PROVE  strong[t][s] \in Obj /\ mem[strong[t][s]] = "live"
<1>1. strong[t][s] \in Obj
  BY DEF IInv, TypeOK, Ptr
<1>2. <<t, s>> \in Owners(strong[t][s])
  BY DEF Owners
<1> QED BY <1>1, <1>2 DEF IInv, ObjectOK

\* Nothing but the entries of the objects that are alive grows.
LEMMA ObjectsKept ==
  ASSUME IInv, UNCHANGED <<mem, refcnts, strong>>,
         \A o \in Obj : mem[o] # "live" /\ weak_table[o] = {} => weak_table'[o] = {}
  PROVE  \A o \in Obj : ObjectOK(o)'
<1>1. \A o \in Obj : Owners(o)' = Owners(o)
  BY DEF Owners
<1> QED BY <1>1 DEF IInv, ObjectOK

\* Tables and variables stay as they are, and a store is not ended.
LEMMA WeakKept ==
  ASSUME IInv, NEW t \in Thread, LeavesOthers(t),
         UNCHANGED <<weak_table, location>>,
         \A l \in Loc : storage[l] => storage'[l],
         \A o \in Obj : mem'[o] = "free" => mem[o] = "free" \/ \A l \in Loc : location[l] # o,
         Updating(t) => pc'[t] = pc[t] /\ loc'[t] = loc[t] /\ new'[t] = new[t]
  PROVE  WeakOK'
<1>1. \A u \in Thread : Updating(u) => Updating(u)' /\ loc'[u] = loc[u]
  BY DEF KeepsLocals, LeavesOthers, Updating
<1>2. \A u \in Thread : pc[u] = "store_set" =>
         pc'[u] = "store_set" /\ loc'[u] = loc[u] /\ new'[u] = new[u]
  BY DEF KeepsLocals, LeavesOthers, Updating
<1>3. \A l \in Loc : location[l] # NULL => location[l] \in Obj
  BY DEF IInv, TypeOK, Ptr
<1>4. ASSUME NEW l \in Loc
      PROVE  /\ ~ storage'[l] => location'[l] = NULL
             /\ location'[l] # NULL =>
                  /\ mem'[location'[l]] # "free"
                  /\ l \in weak_table'[location'[l]] \/ \E u \in Thread : Updating(u)' /\ loc'[u] = l
  BY <1>1, <1>3 DEF IInv, WeakOK
<1>5. ASSUME NEW o \in Obj, NEW l \in weak_table'[o]
      PROVE  /\ storage'[l]
             /\ \/ location'[l] = o
                \/ \E u \in Thread : pc'[u] = "store_set" /\ loc'[u] = l /\ new'[u] = o
  <2>1. l \in Loc
    BY DEF IInv, TypeOK
  <2> QED BY <1>2, <2>1 DEF IInv, WeakOK
<1>6. ~ seen_weak_refs' =>
         (\A o \in Obj : weak_table'[o] = {}) /\ (\A l \in Loc : location'[l] = NULL)
  BY DEF KeepsLocals, LeavesOthers, IInv, WeakOK
<1> QED BY <1>4, <1>5, <1>6 DEF WeakOK

-----------------------------------------------------------------------------
(* Where a function goes next.                                                 *)

\* The locals a step leaves t with: right for t, of their types, and with no weak
\* variable it did not have.
Moves(t) ==
    /\ KeepsLocals(t) /\ LocalsTyped'
    /\ \A l \in Loc : l \in Exclusive(t)' => l \in Exclusive(t)
    /\ \A l \in Loc : l \in {loc'[t], alt'[t]} => l \in {loc[t], alt[t]}

LEMMA ExclusiveIs ==
  ASSUME NEW t \in Thread, NEW l \in Loc
  PROVE  l \in Exclusive(t) <=>
            \/ call[t] \in {"initWeak", "destroyWeak"} /\ l = loc[t]
            \/ call[t] = "copyWeak" /\ l = alt[t]
            \/ call[t] = "moveWeak" /\ l \in {loc[t], alt[t]}
<1>1. CASE call[t] \in {"initWeak", "destroyWeak"}
  BY <1>1 DEF Exclusive
<1>2. CASE call[t] = "copyWeak"
  BY <1>2 DEF Exclusive
<1>3. CASE call[t] = "moveWeak"
  BY <1>3 DEF Exclusive
<1>4. CASE call[t] \notin {"initWeak", "destroyWeak", "copyWeak", "moveWeak"}
  BY <1>4 DEF Exclusive
<1> QED BY <1>1, <1>2, <1>3, <1>4

\* The same of the next state.
LEMMA ExclusiveWillBe ==
  ASSUME NEW t \in Thread, NEW l \in Loc
  PROVE  l \in Exclusive(t)' <=>
            \/ call'[t] \in {"initWeak", "destroyWeak"} /\ l = loc'[t]
            \/ call'[t] = "copyWeak" /\ l = alt'[t]
            \/ call'[t] = "moveWeak" /\ l \in {loc'[t], alt'[t]}
<1>1. CASE call'[t] \in {"initWeak", "destroyWeak"}
  BY <1>1 DEF Exclusive
<1>2. CASE call'[t] = "copyWeak"
  BY <1>2 DEF Exclusive
<1>3. CASE call'[t] = "moveWeak"
  BY <1>3 DEF Exclusive
<1>4. CASE call'[t] \notin {"initWeak", "destroyWeak", "copyWeak", "moveWeak"}
  BY <1>4 DEF Exclusive
<1> QED BY <1>1, <1>2, <1>3, <1>4

\* The function returns with an empty temporary.
LEMMA ReturnMoves ==
  ASSUME IInv, NEW t \in Thread, Return(t), strong'[t][Tmp] = NULL
  PROVE  Moves(t) /\ ThreadOK(t)' /\ pc'[t] = "idle"
<1>1. TypeOK
  BY DEF IInv
<1>2. /\ pc'[t] = "idle" /\ call'[t] = "none" /\ loc'[t] = NULL /\ alt'[t] = NULL
      /\ KeepsLocals(t) /\ LocalsTyped'
  BY <1>1 DEF TypeOK, Return, Goto, KeepsLocals, LocalsTyped, Calls, Labels, Ptr
<1>3. Moves(t)
  BY <1>2, ExclusiveWillBe DEF Moves
<1>4. ThreadOK(t)'
  BY <1>2 DEF ThreadOK, ArgsOK, VariablesOK, LocksOK, UpdateOK, ClearOK,
       Retaining, Releasing, Clearing, Loading, Storing, Copies, Updating
<1> QED BY <1>2, <1>3, <1>4

\* The temporary has been released: objc_moveWeak destroys its source, every
\* other function returns.
LEMMA AfterReleaseMoves ==
  ASSUME IInv, NEW t \in Thread, AfterRelease(t), strong'[t][Tmp] = NULL,
         pc[t] \in Releasing \cup Clearing \cup {"store_set"},
         seen_weak_refs => seen_weak_refs',
         \A l \in Loc : storage[l] /\ call[t] = "moveWeak" => storage'[l]
  PROVE  Moves(t) /\ ThreadOK(t)' /\ pc'[t] \in {"idle", "store_read"}
<1>1. CASE call[t] # "moveWeak"
  BY <1>1, ReturnMoves DEF AfterRelease
<1>2. CASE call[t] = "moveWeak"
  <2>1. TypeOK /\ alt[t] \in Loc /\ storage'[alt[t]] /\ seen_weak_refs'
    BY <1>2 DEF IInv, ThreadOK, VariablesOK, Copies, Releasing, Clearing, Loading
  <2>2. /\ pc'[t] = "store_read" /\ call'[t] = "destroyWeak" /\ loc'[t] = alt[t]
        /\ alt'[t] = NULL /\ new'[t] = NULL
        /\ KeepsLocals(t) /\ LocalsTyped'
    <3>1. /\ call' = [call EXCEPT ![t] = "destroyWeak"] /\ loc' = [loc EXCEPT ![t] = alt[t]]
          /\ alt' = [alt EXCEPT ![t] = NULL] /\ old' = [old EXCEPT ![t] = NULL]
          /\ new' = [new EXCEPT ![t] = NULL] /\ pc' = [pc EXCEPT ![t] = "store_read"]
          /\ UNCHANGED <<dst, cnt>>
      BY <1>2 DEF AfterRelease, Goto
    <3>2. KeepsLocals(t)
      BY <2>1, <3>1 DEF TypeOK, KeepsLocals
    <3>3. LocalsTyped'
      BY <2>1, <3>1 DEF TypeOK, LocalsTyped, Calls, Labels, Ptr
    <3> QED BY <2>1, <3>1, <3>2, <3>3 DEF TypeOK
  <2>3. Moves(t)
    BY <1>2, <2>2, ExclusiveIs, ExclusiveWillBe DEF Moves
  <2>4. ThreadOK(t)'
    BY <2>1, <2>2 DEF ThreadOK, ArgsOK, VariablesOK, LocksOK, UpdateOK, ClearOK,
         Retaining, Releasing, Clearing, Loading, Storing, Copies, Updating
  <2> QED BY <2>2, <2>3, <2>4
<1> QED BY <1>1, <1>2

\* Something has been loaded: objc_copyWeak and objc_moveWeak initialise their
\* destination with it, objc_loadWeakRetained returns it.
LEMMA AfterLoadMoves ==
  ASSUME IInv, NEW t \in Thread, NEW p \in Ptr, AfterLoad(t, p), pc[t] \in Loading,
         strong'[t][Tmp] = IF call[t] \in Copies THEN p ELSE NULL
  PROVE  /\ Moves(t) /\ ThreadOK(t)' /\ pc'[t] \in {"idle", "store_read"}
         /\ storage' \in [Loc -> BOOLEAN] /\ seen_weak_refs' \in BOOLEAN
         /\ seen_weak_refs => seen_weak_refs'
         /\ \A l \in Loc : storage[l] => storage'[l]
         /\ \A u \in Thread \ {t}, l \in Loc : l \in {loc[u], alt[u]} => storage'[l] = storage[l]
<1>0. TypeOK
  BY DEF IInv
<1>1. CASE call[t] \notin Copies
  <2>1. Return(t) /\ UNCHANGED <<seen_weak_refs, storage>>
    BY <1>1 DEF AfterLoad, Copies
  <2> QED BY <1>0, <1>1, <2>1, ReturnMoves DEF TypeOK
<1>2. CASE call[t] \in Copies
  <2>1. /\ alt[t] \in Loc /\ loc[t] \in Loc /\ storage[loc[t]] /\ alt[t] \in Exclusive(t)
        /\ dst[t] = Tmp /\ loc[t] # alt[t]
    BY <1>2, ExclusiveIs DEF IInv, ThreadOK, VariablesOK, Copies
  <2>2. /\ pc'[t] = "store_read" /\ call'[t] = call[t] /\ loc'[t] = alt[t]
        /\ alt'[t] = (IF call[t] = "copyWeak" THEN alt[t] ELSE loc[t])
        /\ new'[t] = p /\ dst'[t] = Tmp
        /\ KeepsLocals(t) /\ LocalsTyped'
    <3>1. /\ loc' = [loc EXCEPT ![t] = alt[t]]
          /\ alt' = IF call[t] = "copyWeak" THEN alt ELSE [alt EXCEPT ![t] = loc[t]]
          /\ old' = [old EXCEPT ![t] = NULL] /\ new' = [new EXCEPT ![t] = p]
          /\ pc' = [pc EXCEPT ![t] = "store_read"] /\ UNCHANGED <<call, dst, cnt>>
      BY <1>2 DEF AfterLoad, Goto, Copies
    <3>2. alt' \in [Thread -> Loc \cup {NULL}] /\ \A u \in Thread \ {t} : alt'[u] = alt[u]
      BY <1>0, <3>1 DEF TypeOK
    <3>3. KeepsLocals(t)
      BY <1>0, <3>1, <3>2 DEF TypeOK, KeepsLocals
    <3>4. LocalsTyped'
      BY <1>0, <2>1, <3>1, <3>2 DEF TypeOK, LocalsTyped, Labels, Ptr
    <3> QED BY <1>0, <2>1, <3>1, <3>3, <3>4 DEF TypeOK
  <2>3. seen_weak_refs' = TRUE /\ storage' = [storage EXCEPT ![alt[t]] = TRUE]
    BY <1>2 DEF AfterLoad, Copies
  <2>4. /\ storage' \in [Loc -> BOOLEAN] /\ storage'[alt[t]]
        /\ \A l \in Loc : l # alt[t] => storage'[l] = storage[l]
    BY <1>0, <2>1, <2>3 DEF TypeOK
  <2>5. ASSUME NEW u \in Thread \ {t}, NEW l \in Loc, l \in {loc[u], alt[u]}
        PROVE  storage'[l] = storage[l]
    <3>1. l # alt[t]
      BY <2>1, <2>5 DEF IInv, ApartOK
    <3> QED BY <2>4, <3>1
  <2>6. Moves(t)
    <3>1. CASE call[t] = "copyWeak"
      BY <2>1, <2>2, <3>1, ExclusiveIs, ExclusiveWillBe DEF Moves
    <3>2. CASE call[t] = "moveWeak"
      BY <2>1, <2>2, <3>2, ExclusiveIs, ExclusiveWillBe DEF Moves
    <3> QED BY <1>2, <3>1, <3>2 DEF Copies
  <2>7. p # NULL => p \in Held(t)'
    BY <1>2 DEF Held, Ptr
  <2>8. ThreadOK(t)'
    <3>1. ArgsOK(t)'
      BY <1>2, <2>2, <2>3, <2>7 DEF ArgsOK, Retaining, Releasing, Clearing, Loading, Storing, Copies
    <3>2. VariablesOK(t)'
      BY <1>2, <2>1, <2>2, <2>3, <2>4 DEF VariablesOK, Loading, Copies
    <3> QED BY <2>2, <3>1, <3>2 DEF ThreadOK, LocksOK, UpdateOK, ClearOK, Clearing, Updating
  <2> QED BY <2>2, <2>3, <2>4, <2>5, <2>6, <2>8
<1> QED BY <1>1, <1>2

-----------------------------------------------------------------------------
(* The steps that only read, take a lock or drop one.                          *)

LEMMA StepKeeps ==
  ASSUME IInv, NEW t \in Thread, TypeOK', LeavesOthers(t), ThreadOK(t)', ApartOK',
         \A o \in Obj : ObjectOK(o)', WeakOK'
  PROVE  IInv'
  BY OthersKept DEF IInv

LEMMA Acquired ==
  ASSUME TypeOK, NEW t \in Thread, NEW p \in Ptr, Acquire(t, stripe[p])
  PROVE  /\ slock' \in [Stripe -> Thread \cup {NULL}] /\ slock'[stripe[p]] = t
         /\ \A u \in Thread, s \in Stripe : slock[s] = u => slock'[s] = u
  BY StripeOfPtr DEF TypeOK, Acquire

LEMMA Released ==
  ASSUME TypeOK, NEW t \in Thread, NEW S, Release(S), \A s \in S : slock[s] = t
  PROVE  /\ slock' \in [Stripe -> Thread \cup {NULL}]
         /\ \A u \in Thread \ {t}, s \in Stripe : slock[s] = u => slock'[s] = u
  BY DEF TypeOK, Release

LEMMA LockStep ==
  ASSUME IInv, NEW t \in Thread,
         UNCHANGED <<heap, strong, call, loc, alt, new, dst, budget>>,
         pc' = [pc EXCEPT ![t] = pc'[t]], pc'[t] \in Labels,
         old' = [old EXCEPT ![t] = old'[t]], old'[t] \in Ptr,
         cnt' = [cnt EXCEPT ![t] = cnt'[t]], cnt'[t] \in Nat,
         slock' \in [Stripe -> Thread \cup {NULL}],
         \A u \in Thread \ {t}, s \in Stripe : slock[s] = u => slock'[s] = u,
         ~ Updating(t),
         pc'[t] \in Clearing => pc[t] \in Clearing /\ old'[t] = old[t],
         ThreadOK(t)'
  PROVE  IInv'
<1>1. TypeOK
  BY DEF IInv
<1>2. TypeOK' /\ KeepsLocals(t)
  BY <1>1 DEF TypeOK, KeepsLocals, heap
<1>3. LeavesOthers(t)
  BY <1>2 DEF LeavesOthers, heap
<1>4. ApartOK'
  <2>1. Exclusive(t)' = Exclusive(t)
    BY DEF Exclusive
  <2> QED BY <1>3, <2>1, ApartKept
<1>5. \A o \in Obj : ObjectOK(o)'
  BY ObjectsKept DEF heap
<1>6. WeakOK'
  BY <1>3, WeakKept DEF heap
<1> QED BY <1>2, <1>3, <1>4, <1>5, <1>6, StepKeeps

LEMMA RetainLockOK == ASSUME IInv, NEW t \in Thread, RetainLock(t) PROVE IInv'
<1>1. TypeOK /\ ThreadOK(t) /\ pc[t] = "retain_lock" /\ new[t] \in Obj
  BY HeldIsLive DEF IInv, RetainLock, ThreadOK, ArgsOK, Retaining, Held, TypeOK, Ptr
<1>2. /\ pc' = [pc EXCEPT ![t] = "retain_write"] /\ cnt' = [cnt EXCEPT ![t] = refcnts[new[t]]]
      /\ UNCHANGED <<heap, strong, call, loc, alt, old, new, dst, budget>>
  BY DEF RetainLock, Goto
<1>3. /\ slock' \in [Stripe -> Thread \cup {NULL}] /\ slock'[stripe[new[t]]] = t
      /\ \A u \in Thread, s \in Stripe : slock[s] = u => slock'[s] = u
  BY <1>1, Acquired DEF RetainLock, Ptr
<1>4. pc'[t] = "retain_write" /\ cnt'[t] = refcnts[new[t]] /\ cnt'[t] \in Nat /\ old[t] \in Ptr
  BY <1>1, <1>2 DEF TypeOK
<1>5. ThreadOK(t)'
  BY <1>1, <1>2, <1>3, <1>4 DEF ThreadOK, ArgsOK, VariablesOK, LocksOK, UpdateOK, ClearOK,
       Retaining, Releasing, Clearing, Loading, Storing, Copies, Updating, Held, heap
<1> QED BY <1>1, <1>2, <1>3, <1>4, <1>5, LockStep DEF TypeOK, Updating, Clearing, Labels

LEMMA ReleaseLockOK == ASSUME IInv, NEW t \in Thread, ReleaseLock(t) PROVE IInv'
<1> DEFINE o == strong[t][Tmp]
<1>1. TypeOK /\ ThreadOK(t) /\ pc[t] = "release_lock" /\ o \in Obj
  BY HeldIsLive DEF IInv, ReleaseLock, ThreadOK, ArgsOK, Releasing
<1>2. /\ pc' = [pc EXCEPT ![t] = "release_write"] /\ cnt' = [cnt EXCEPT ![t] = refcnts[o]]
      /\ UNCHANGED <<heap, strong, call, loc, alt, old, new, dst, budget>>
  BY DEF ReleaseLock, Goto
<1>3. /\ slock' \in [Stripe -> Thread \cup {NULL}] /\ slock'[stripe[o]] = t
      /\ \A u \in Thread, s \in Stripe : slock[s] = u => slock'[s] = u
  BY <1>1, Acquired DEF ReleaseLock, Ptr
<1>4. pc'[t] = "release_write" /\ cnt'[t] = refcnts[o] /\ cnt'[t] \in Nat /\ old[t] \in Ptr
  BY <1>1, <1>2 DEF TypeOK
<1>5. ThreadOK(t)'
  BY <1>1, <1>2, <1>3, <1>4 DEF ThreadOK, ArgsOK, VariablesOK, LocksOK, UpdateOK, ClearOK,
       Retaining, Releasing, Clearing, Loading, Storing, Copies, Updating, Held, heap
<1> QED BY <1>1, <1>2, <1>3, <1>4, <1>5, LockStep DEF TypeOK, Updating, Clearing, Labels

\* What a store under way keeps of its arguments while it goes from label to label.
LEMMA StoreGoes ==
  ASSUME IInv, NEW t \in Thread, pc[t] \in Storing, pc'[t] \in Storing,
         UNCHANGED <<storage, seen_weak_refs, strong, call, loc, alt, new, dst>>
  PROVE  /\ ArgsOK(t)' /\ VariablesOK(t)' /\ ClearOK(t)'
         /\ loc[t] \in Loc /\ old[t] \in Ptr /\ new[t] \in Ptr
<1>1. TypeOK /\ ThreadOK(t)
  BY DEF IInv
<1>2. Held(t)' = Held(t)
  BY DEF Held
<1> QED BY <1>1, <1>2 DEF TypeOK, ThreadOK, ArgsOK, VariablesOK, ClearOK,
       Retaining, Releasing, Clearing, Loading, Storing, Copies

LEMMA StoreReadOK == ASSUME IInv, NEW t \in Thread, StoreRead(t) PROVE IInv'
<1>1. TypeOK /\ pc[t] = "store_read" /\ old' = [old EXCEPT ![t] = location[loc[t]]]
  BY DEF IInv, StoreRead
<1>2. /\ pc' = [pc EXCEPT ![t] = IF stripe[old'[t]] # stripe[new[t]]
                                   THEN "store_lock2" ELSE "store_lock1"]
      /\ UNCHANGED <<heap, slock, strong, call, loc, alt, new, dst, cnt, budget>>
  BY DEF StoreRead, Goto
<1>3. /\ pc'[t] \in {"store_lock1", "store_lock2"}
      /\ pc'[t] = "store_lock1" => stripe[old'[t]] = stripe[new[t]]
  BY <1>1, <1>2 DEF TypeOK
<1>4. ArgsOK(t)' /\ VariablesOK(t)' /\ ClearOK(t)' /\ loc[t] \in Loc
  BY <1>1, <1>2, <1>3, StoreGoes DEF Storing, heap
<1>5. LocksOK(t)' /\ UpdateOK(t)'
  BY <1>2, <1>3 DEF LocksOK, UpdateOK, Updating
<1>6. old'[t] \in Ptr /\ cnt' = [cnt EXCEPT ![t] = cnt'[t]] /\ cnt'[t] \in Nat
  BY <1>1, <1>2, <1>4 DEF TypeOK
<1>7. /\ old' = [old EXCEPT ![t] = old'[t]] /\ pc' = [pc EXCEPT ![t] = pc'[t]]
      /\ slock' \in [Stripe -> Thread \cup {NULL}]
  BY <1>1, <1>2 DEF TypeOK
<1> QED BY <1>1, <1>2, <1>3, <1>4, <1>5, <1>6, <1>7, LockStep
        DEF ThreadOK, Updating, Clearing, Labels

LEMMA HighAndLow ==
  ASSUME TypeOK, NEW t \in Thread
  PROVE  /\ {High(t), Low(t)} = {stripe[old[t]], stripe[new[t]]}
         /\ \E p \in Ptr : High(t) = stripe[p]
         /\ \E p \in Ptr : Low(t) = stripe[p]
  BY DEF TypeOK, High, Low

LEMMA StoreLock2OK == ASSUME IInv, NEW t \in Thread, StoreLock2(t) PROVE IInv'
<1>1. TypeOK /\ pc[t] = "store_lock2" /\ pc' = [pc EXCEPT ![t] = "store_lock1"]
  BY DEF IInv, StoreLock2, Goto
<1>2. UNCHANGED <<heap, strong, locals, budget>>
  BY DEF StoreLock2
<1>3. PICK p \in Ptr : High(t) = stripe[p]
  BY <1>1, HighAndLow
<1>4. /\ slock' \in [Stripe -> Thread \cup {NULL}] /\ slock'[High(t)] = t
      /\ \A u \in Thread, s \in Stripe : slock[s] = u => slock'[s] = u
  BY <1>1, <1>3, Acquired DEF StoreLock2
<1>5. pc'[t] = "store_lock1" /\ High(t)' = High(t)
  BY <1>1, <1>2 DEF TypeOK, High, locals
<1>6. ArgsOK(t)' /\ VariablesOK(t)' /\ ClearOK(t)'
  BY <1>1, <1>2, <1>5, StoreGoes DEF Storing, heap, locals
<1>7. LocksOK(t)' /\ UpdateOK(t)'
  BY <1>2, <1>4, <1>5 DEF LocksOK, UpdateOK, Updating, locals
<1>8. /\ old'[t] \in Ptr /\ cnt' = [cnt EXCEPT ![t] = cnt'[t]] /\ cnt'[t] \in Nat
      /\ old' = [old EXCEPT ![t] = old'[t]] /\ pc' = [pc EXCEPT ![t] = pc'[t]]
  BY <1>1, <1>2 DEF TypeOK, locals
<1> QED BY <1>1, <1>2, <1>4, <1>5, <1>6, <1>7, <1>8, LockStep
        DEF ThreadOK, Updating, Clearing, Labels, locals

LEMMA StoreLock1OK == ASSUME IInv, NEW t \in Thread, StoreLock1(t) PROVE IInv'
<1>1. TypeOK /\ pc[t] = "store_lock1" /\ pc' = [pc EXCEPT ![t] = "store_check"]
  BY DEF IInv, StoreLock1, Goto
<1>2. UNCHANGED <<heap, strong, locals, budget>>
  BY DEF StoreLock1
<1>3. PICK p \in Ptr : Low(t) = stripe[p]
  BY <1>1, HighAndLow
<1>4. /\ slock' \in [Stripe -> Thread \cup {NULL}] /\ slock'[Low(t)] = t
      /\ \A u \in Thread, s \in Stripe : slock[s] = u => slock'[s] = u
  BY <1>1, <1>3, Acquired DEF StoreLock1
<1>5. slock'[stripe[old[t]]] = t /\ slock'[stripe[new[t]]] = t
  <2>1. stripe[old[t]] # stripe[new[t]] => slock[High(t)] = t
    BY <1>1 DEF IInv, ThreadOK, LocksOK
  <2>2. High(t) \in Stripe
    BY <1>1, HighAndLow, StripeOfPtr
  <2>3. stripe[old[t]] # stripe[new[t]] => slock'[High(t)] = t
    BY <1>4, <2>1, <2>2
  <2> QED BY <1>1, <1>4, <2>3, HighAndLow DEF Low, High
<1>6. pc'[t] = "store_check"
  BY <1>1 DEF TypeOK
<1>7. ArgsOK(t)' /\ VariablesOK(t)' /\ ClearOK(t)'
  BY <1>1, <1>2, <1>6, StoreGoes DEF Storing, heap, locals
<1>8. LocksOK(t)' /\ UpdateOK(t)'
  BY <1>2, <1>5, <1>6 DEF LocksOK, UpdateOK, Updating, locals
<1>9. /\ old'[t] \in Ptr /\ cnt' = [cnt EXCEPT ![t] = cnt'[t]] /\ cnt'[t] \in Nat
      /\ old' = [old EXCEPT ![t] = old'[t]] /\ pc' = [pc EXCEPT ![t] = pc'[t]]
  BY <1>1, <1>2 DEF TypeOK, locals
<1> QED BY <1>1, <1>2, <1>4, <1>6, <1>7, <1>8, <1>9, LockStep
        DEF ThreadOK, Updating, Clearing, Labels, locals

LEMMA StoreRetryOK == ASSUME IInv, NEW t \in Thread, StoreRetry(t) PROVE IInv'
<1>1. TypeOK /\ pc[t] = "store_check" /\ pc' = [pc EXCEPT ![t] = "store_read"]
  BY DEF IInv, StoreRetry, Goto
<1>2. UNCHANGED <<heap, strong, locals, budget>>
  BY DEF StoreRetry
<1>3. slock[stripe[old[t]]] = t /\ slock[stripe[new[t]]] = t
  BY <1>1 DEF IInv, ThreadOK, LocksOK
<1>4. /\ slock' \in [Stripe -> Thread \cup {NULL}]
      /\ \A u \in Thread \ {t}, s \in Stripe : slock[s] = u => slock'[s] = u
  BY <1>1, <1>3, Released DEF StoreRetry
<1>5. pc'[t] = "store_read"
  BY <1>1 DEF TypeOK
<1>6. ArgsOK(t)' /\ VariablesOK(t)' /\ ClearOK(t)'
  BY <1>1, <1>2, <1>5, StoreGoes DEF Storing, heap, locals
<1>7. LocksOK(t)' /\ UpdateOK(t)'
  BY <1>5 DEF LocksOK, UpdateOK, Updating
<1>8. /\ old'[t] \in Ptr /\ cnt' = [cnt EXCEPT ![t] = cnt'[t]] /\ cnt'[t] \in Nat
      /\ old' = [old EXCEPT ![t] = old'[t]] /\ pc' = [pc EXCEPT ![t] = pc'[t]]
  BY <1>1, <1>2 DEF TypeOK, locals
<1> QED BY <1>1, <1>2, <1>4, <1>5, <1>6, <1>7, <1>8, LockStep
        DEF ThreadOK, Updating, Clearing, Labels, locals

\* The same of a load.
LEMMA LoadGoes ==
  ASSUME IInv, NEW t \in Thread, pc[t] \in Loading, pc'[t] \in Loading,
         UNCHANGED <<storage, seen_weak_refs, strong, call, loc, alt, new, dst>>,
         pc'[t] # "load_read" => old'[t] # NULL
  PROVE  ArgsOK(t)' /\ VariablesOK(t)' /\ UpdateOK(t)' /\ ClearOK(t)' /\ loc[t] \in Loc
<1>1. TypeOK /\ ThreadOK(t)
  BY DEF IInv
<1> QED BY <1>1 DEF TypeOK, ThreadOK, ArgsOK, VariablesOK, UpdateOK, ClearOK, Held,
       Retaining, Releasing, Clearing, Loading, Storing, Copies, Updating

LEMMA LoadLockOK == ASSUME IInv, NEW t \in Thread, LoadLock(t) PROVE IInv'
<1>1. TypeOK /\ pc[t] = "load_lock" /\ pc' = [pc EXCEPT ![t] = "load_check"]
  BY DEF IInv, LoadLock, Goto
<1>2. UNCHANGED <<heap, strong, locals, budget>> /\ old[t] \in Ptr
  BY <1>1 DEF LoadLock, TypeOK
<1>3. /\ slock' \in [Stripe -> Thread \cup {NULL}] /\ slock'[stripe[old[t]]] = t
      /\ \A u \in Thread, s \in Stripe : slock[s] = u => slock'[s] = u
  BY <1>1, <1>2, Acquired DEF LoadLock
<1>4. pc'[t] = "load_check" /\ old[t] # NULL
  BY <1>1 DEF TypeOK, IInv, ThreadOK, VariablesOK
<1>5. ArgsOK(t)' /\ VariablesOK(t)' /\ UpdateOK(t)' /\ ClearOK(t)'
  BY <1>1, <1>2, <1>4, LoadGoes DEF Loading, heap, locals
<1>6. LocksOK(t)'
  BY <1>2, <1>3, <1>4 DEF LocksOK, locals
<1>7. /\ cnt' = [cnt EXCEPT ![t] = cnt'[t]] /\ cnt'[t] \in Nat
      /\ old' = [old EXCEPT ![t] = old'[t]] /\ pc' = [pc EXCEPT ![t] = pc'[t]]
  BY <1>1, <1>2 DEF TypeOK, locals
<1> QED BY <1>1, <1>2, <1>3, <1>4, <1>5, <1>6, <1>7, LockStep
        DEF ThreadOK, Updating, Clearing, Labels, locals

LEMMA LoadRetryOK == ASSUME IInv, NEW t \in Thread, LoadRetry(t) PROVE IInv'
<1>1. TypeOK /\ pc[t] = "load_check" /\ pc' = [pc EXCEPT ![t] = "load_read"]
  BY DEF IInv, LoadRetry, Goto
<1>2. UNCHANGED <<heap, strong, locals, budget>> /\ old[t] \in Ptr
  BY <1>1 DEF LoadRetry, TypeOK
<1>3. slock[stripe[old[t]]] = t
  BY <1>1 DEF IInv, ThreadOK, LocksOK
<1>4. /\ slock' \in [Stripe -> Thread \cup {NULL}]
      /\ \A u \in Thread \ {t}, s \in Stripe : slock[s] = u => slock'[s] = u
  BY <1>1, <1>3, Released DEF LoadRetry
<1>5. pc'[t] = "load_read"
  BY <1>1 DEF TypeOK
<1>6. ArgsOK(t)' /\ VariablesOK(t)' /\ UpdateOK(t)' /\ ClearOK(t)'
  BY <1>1, <1>2, <1>5, LoadGoes DEF Loading, heap, locals
<1>7. LocksOK(t)'
  BY <1>5 DEF LocksOK
<1>8. /\ cnt' = [cnt EXCEPT ![t] = cnt'[t]] /\ cnt'[t] \in Nat
      /\ old' = [old EXCEPT ![t] = old'[t]] /\ pc' = [pc EXCEPT ![t] = pc'[t]]
  BY <1>1, <1>2 DEF TypeOK, locals
<1> QED BY <1>1, <1>2, <1>4, <1>5, <1>6, <1>7, <1>8, LockStep
        DEF ThreadOK, Updating, Clearing, Labels, locals

LEMMA ClearLockOK == ASSUME IInv, NEW t \in Thread, ClearLock(t) PROVE IInv'
<1>1. /\ TypeOK /\ pc[t] = "clear_lock" /\ ThreadOK(t)
      /\ pc' = [pc EXCEPT ![t] = IF seen_weak_refs THEN "clear_weak" ELSE "clear_erase"]
  BY DEF IInv, ClearLock, Goto
<1>2. UNCHANGED <<heap, strong, locals, budget>> /\ old[t] \in Ptr
  BY <1>1 DEF ClearLock, TypeOK
<1>3. /\ slock' \in [Stripe -> Thread \cup {NULL}] /\ slock'[stripe[old[t]]] = t
      /\ \A u \in Thread, s \in Stripe : slock[s] = u => slock'[s] = u
  BY <1>1, <1>2, Acquired DEF ClearLock
<1>4. old[t] \in Obj
  BY <1>1, <1>2 DEF ThreadOK, ClearOK, Clearing, Ptr
<1>5. /\ pc'[t] \in {"clear_weak", "clear_erase"}
      /\ pc'[t] = "clear_erase" => weak_table[old[t]] = {}
  BY <1>1, <1>4 DEF TypeOK, IInv, WeakOK
<1>6. ThreadOK(t)'
  BY <1>1, <1>2, <1>3, <1>5 DEF ThreadOK, ArgsOK, VariablesOK, LocksOK, UpdateOK, ClearOK,
       Retaining, Releasing, Clearing, Loading, Storing, Copies, Updating, heap, locals
<1>7. /\ cnt' = [cnt EXCEPT ![t] = cnt'[t]] /\ cnt'[t] \in Nat
      /\ old' = [old EXCEPT ![t] = old'[t]] /\ pc' = [pc EXCEPT ![t] = pc'[t]]
  BY <1>1, <1>2 DEF TypeOK, locals
<1> QED BY <1>1, <1>2, <1>3, <1>5, <1>6, <1>7, LockStep
        DEF ThreadOK, Updating, Clearing, Labels, locals

-----------------------------------------------------------------------------
(* The calls.                                                                  *)

LEMMA Entered ==
  ASSUME IInv, NEW t \in Thread, NEW f \in Calls, NEW l \in Loc \cup {NULL},
         NEW a \in Loc \cup {NULL}, NEW o \in Ptr, NEW d \in Slot, NEW label \in Labels,
         Enter(t, f, l, a, o, d, label)
  PROVE  /\ KeepsLocals(t) /\ LocalsTyped' /\ budget' \in [Thread -> Nat]
         /\ pc[t] = "idle" /\ pc'[t] = label /\ call'[t] = f /\ loc'[t] = l /\ alt'[t] = a
         /\ new'[t] = o /\ dst'[t] = d /\ strong[t][Tmp] = NULL
<1>1. TypeOK
  BY DEF IInv
<1>2. /\ pc' = [pc EXCEPT ![t] = label] /\ call' = [call EXCEPT ![t] = f]
      /\ loc' = [loc EXCEPT ![t] = l] /\ alt' = [alt EXCEPT ![t] = a]
      /\ new' = [new EXCEPT ![t] = o] /\ dst' = [dst EXCEPT ![t] = d]
      /\ UNCHANGED <<old, cnt>> /\ pc[t] = "idle"
      /\ budget[t] > 0 /\ budget' = [budget EXCEPT ![t] = budget[t] - 1]
  BY DEF Enter, Goto
<1>3. KeepsLocals(t)
  BY <1>1, <1>2 DEF TypeOK, KeepsLocals
<1>4. LocalsTyped'
  BY <1>1, <1>2 DEF TypeOK, LocalsTyped
<1>5. budget' \in [Thread -> Nat]
  BY <1>1, <1>2 DEF TypeOK
<1>6. strong[t][Tmp] = NULL
  BY <1>2 DEF IInv, ThreadOK, ArgsOK, Releasing, Storing
<1> QED BY <1>1, <1>2, <1>3, <1>4, <1>5, <1>6 DEF TypeOK

\* A function takes weak variables for itself that nobody uses, and uses none that
\* another took.
LEMMA ApartEntered ==
  ASSUME IInv, NEW t \in Thread, KeepsLocals(t), pc'[t] \notin Clearing,
         \A l \in Loc : l \in Exclusive(t)' => ~ InUse(l),
         \A l \in Loc : l \in {loc'[t], alt'[t]} => \A u \in Thread : l \notin Exclusive(u)
  PROVE  ApartOK'
<1>1. \A u \in Thread \ {t} : Exclusive(u)' = Exclusive(u)
  BY DEF KeepsLocals, Exclusive
<1> SUFFICES ASSUME NEW u \in Thread, NEW v \in Thread, u # v
             PROVE  /\ \A l \in Exclusive(u)' \cap Loc : l # loc'[v] /\ l # alt'[v]
                    /\ pc'[u] \in Clearing /\ pc'[v] \in Clearing => old'[u] # old'[v]
  BY DEF ApartOK
<1>3. CASE u # t /\ v # t
  BY <1>1, <1>3 DEF KeepsLocals, IInv, ApartOK
<1>4. CASE u = t /\ v # t
  BY <1>4 DEF KeepsLocals, InUse
<1>5. CASE u # t /\ v = t
  BY <1>1, <1>5 DEF KeepsLocals
<1> QED BY <1>3, <1>4, <1>5

\* A variable nobody uses is taken by nobody.
LEMMA UnusedIsFree ==
  ASSUME NEW l \in Loc, ~ InUse(l), NEW u \in Thread
  PROVE  l \notin Exclusive(u)
  BY ExclusiveIs DEF InUse

LEMMA HeldIsPtr ==
  ASSUME IInv, NEW t \in Thread, NEW o \in Held(t) \cup {NULL}
  PROVE  o \in Ptr
  BY DEF Held, Ptr

\* A call that writes no table, no variable and no strong variable.
LEMMA CallStep ==
  ASSUME IInv, NEW t \in Thread, KeepsLocals(t), LocalsTyped', budget' \in [Thread -> Nat],
         UNCHANGED <<mem, refcnts, weak_table, location, slock, strong>>,
         storage' \in [Loc -> BOOLEAN], seen_weak_refs' \in BOOLEAN,
         seen_weak_refs => seen_weak_refs',
         \A l \in Loc : storage[l] => storage'[l],
         \A l \in Loc : storage'[l] # storage[l] => ~ InUse(l),
         pc[t] = "idle", ApartOK', ThreadOK(t)'
  PROVE  IInv'
<1>1. TypeOK
  BY DEF IInv
<1>2. TypeOK'
  BY <1>1 DEF TypeOK, LocalsTyped
<1>3. LeavesOthers(t)
  BY DEF LeavesOthers, InUse
<1>4. \A o \in Obj : ObjectOK(o)'
  BY ObjectsKept
<1>5. WeakOK'
  BY <1>3, WeakKept DEF Updating
<1> QED BY <1>2, <1>3, <1>4, <1>5, StepKeeps

LEMMA StoreWeakOK ==
  ASSUME IInv, NEW t \in Thread, NEW l \in Loc, NEW o \in Ptr, StoreWeak(t, l, o)
  PROVE  IInv'
<1>1. /\ KeepsLocals(t) /\ LocalsTyped' /\ budget' \in [Thread -> Nat]
      /\ pc[t] = "idle" /\ pc'[t] = "store_read" /\ call'[t] = "storeWeak" /\ loc'[t] = l
      /\ alt'[t] = NULL /\ new'[t] = o /\ strong[t][Tmp] = NULL
  BY Entered DEF StoreWeak, Calls, Labels
<1>2. /\ MayUse(l) /\ o \in Held(t) \cup {NULL} /\ seen_weak_refs' = TRUE
      /\ UNCHANGED <<mem, refcnts, weak_table, location, storage, slock, strong>>
  BY DEF StoreWeak
<1>3. ApartOK'
  BY <1>1, <1>2, ApartEntered, ExclusiveWillBe DEF MayUse, Clearing
<1>4. ThreadOK(t)'
  BY <1>1, <1>2 DEF ThreadOK, ArgsOK, VariablesOK, LocksOK, UpdateOK, ClearOK, MayUse, Held,
       Retaining, Releasing, Clearing, Loading, Storing, Copies, Updating
<1> QED BY <1>1, <1>2, <1>3, <1>4, CallStep DEF IInv, TypeOK

LEMMA InitWeakOK ==
  ASSUME IInv, NEW t \in Thread, NEW l \in Loc, NEW o \in Ptr, InitWeak(t, l, o)
  PROVE  IInv'
<1>1. /\ KeepsLocals(t) /\ LocalsTyped' /\ budget' \in [Thread -> Nat]
      /\ pc[t] = "idle" /\ pc'[t] = "store_read" /\ call'[t] = "initWeak" /\ loc'[t] = l
      /\ alt'[t] = NULL /\ new'[t] = o /\ strong[t][Tmp] = NULL
  BY Entered DEF InitWeak, Calls, Labels
<1>2. /\ ~ storage[l] /\ ~ InUse(l) /\ o \in Held(t) \cup {NULL} /\ seen_weak_refs' = TRUE
      /\ storage' = [storage EXCEPT ![l] = TRUE]
      /\ location' = [location EXCEPT ![l] = NULL]
      /\ UNCHANGED <<mem, refcnts, weak_table, slock, strong>>
  BY DEF InitWeak
<1>3. location' = location
  BY <1>2 DEF IInv, WeakOK, TypeOK
<1>4. ApartOK'
  BY <1>1, <1>2, ApartEntered, ExclusiveWillBe, UnusedIsFree DEF Clearing
<1>5. storage' \in [Loc -> BOOLEAN] /\ storage'[l] /\ \A m \in Loc : m # l => storage'[m] = storage[m]
  BY <1>2 DEF IInv, TypeOK
<1>6. ThreadOK(t)'
  BY <1>1, <1>2, <1>5 DEF ThreadOK, ArgsOK, VariablesOK, LocksOK, UpdateOK, ClearOK, Held,
       Retaining, Releasing, Clearing, Loading, Storing, Copies, Updating
<1>7. \A m \in Loc : storage[m] => storage'[m]
  BY <1>5
<1>8. \A m \in Loc : storage'[m] # storage[m] => ~ InUse(m)
  BY <1>2, <1>5
<1> QED BY <1>1, <1>2, <1>3, <1>4, <1>5, <1>6, <1>7, <1>8, CallStep

LEMMA DestroyWeakOK ==
  ASSUME IInv, NEW t \in Thread, NEW l \in Loc, DestroyWeak(t, l)
  PROVE  IInv'
<1>1. /\ KeepsLocals(t) /\ LocalsTyped' /\ budget' \in [Thread -> Nat]
      /\ pc[t] = "idle" /\ pc'[t] = "store_read" /\ call'[t] = "destroyWeak" /\ loc'[t] = l
      /\ alt'[t] = NULL /\ new'[t] = NULL /\ strong[t][Tmp] = NULL
  BY Entered DEF DestroyWeak, Calls, Labels, Ptr
<1>2. /\ storage[l] /\ ~ InUse(l) /\ seen_weak_refs' = TRUE
      /\ UNCHANGED <<mem, refcnts, weak_table, location, storage, slock, strong>>
  BY DEF DestroyWeak
<1>3. ApartOK'
  BY <1>1, <1>2, ApartEntered, ExclusiveWillBe, UnusedIsFree DEF Clearing
<1>4. ThreadOK(t)'
  BY <1>1, <1>2 DEF ThreadOK, ArgsOK, VariablesOK, LocksOK, UpdateOK, ClearOK, Held,
       Retaining, Releasing, Clearing, Loading, Storing, Copies, Updating
<1> QED BY <1>1, <1>2, <1>3, <1>4, CallStep, SMTT(30) DEF IInv, TypeOK

LEMMA LoadWeakOK ==
  ASSUME IInv, NEW t \in Thread, NEW l \in Loc, NEW s \in Slot, LoadWeak(t, l, s)
  PROVE  IInv'
<1>1. /\ KeepsLocals(t) /\ LocalsTyped' /\ budget' \in [Thread -> Nat]
      /\ pc[t] = "idle" /\ pc'[t] = "load_read" /\ call'[t] = "loadWeak" /\ loc'[t] = l
      /\ alt'[t] = NULL /\ dst'[t] = s /\ strong[t][Tmp] = NULL
  BY Entered DEF LoadWeak, Calls, Labels, Ptr
<1>2. /\ MayUse(l) /\ s # Tmp /\ strong[t][s] = NULL
      /\ UNCHANGED <<heap, slock, strong>>
  BY DEF LoadWeak
<1>3. ApartOK'
  BY <1>1, <1>2, ApartEntered, ExclusiveWillBe DEF MayUse, Clearing
<1>4. ThreadOK(t)'
  BY <1>1, <1>2 DEF ThreadOK, ArgsOK, VariablesOK, LocksOK, UpdateOK, ClearOK, MayUse, heap,
       Retaining, Releasing, Clearing, Loading, Storing, Copies, Updating
<1> QED BY <1>1, <1>2, <1>3, <1>4, CallStep DEF IInv, TypeOK, heap

LEMMA CopyWeakOK ==
  ASSUME IInv, NEW t \in Thread, NEW to \in Loc, NEW from \in Loc, CopyWeak(t, to, from)
  PROVE  IInv'
<1>1. /\ KeepsLocals(t) /\ LocalsTyped' /\ budget' \in [Thread -> Nat]
      /\ pc[t] = "idle" /\ pc'[t] = "load_read" /\ call'[t] = "copyWeak" /\ loc'[t] = from
      /\ alt'[t] = to /\ dst'[t] = Tmp /\ strong[t][Tmp] = NULL
  BY Entered DEF CopyWeak, Calls, Labels, Ptr
<1>2. /\ to # from /\ MayUse(from) /\ ~ storage[to] /\ ~ InUse(to)
      /\ UNCHANGED <<heap, slock, strong>>
  BY DEF CopyWeak
<1>3. ApartOK'
  BY <1>1, <1>2, ApartEntered, ExclusiveWillBe, UnusedIsFree DEF MayUse, Clearing
<1>4. ThreadOK(t)'
  BY <1>1, <1>2 DEF ThreadOK, ArgsOK, VariablesOK, LocksOK, UpdateOK, ClearOK, MayUse, heap,
       Retaining, Releasing, Clearing, Loading, Storing, Copies, Updating
<1> QED BY <1>1, <1>2, <1>3, <1>4, CallStep DEF IInv, TypeOK, heap

LEMMA MoveWeakOK ==
  ASSUME IInv, NEW t \in Thread, NEW to \in Loc, NEW from \in Loc, MoveWeak(t, to, from)
  PROVE  IInv'
<1>1. /\ KeepsLocals(t) /\ LocalsTyped' /\ budget' \in [Thread -> Nat]
      /\ pc[t] = "idle" /\ pc'[t] = "load_read" /\ call'[t] = "moveWeak" /\ loc'[t] = from
      /\ alt'[t] = to /\ dst'[t] = Tmp /\ strong[t][Tmp] = NULL
  BY Entered DEF MoveWeak, Calls, Labels, Ptr
<1>2. /\ to # from /\ storage[from] /\ ~ InUse(from) /\ ~ storage[to] /\ ~ InUse(to)
      /\ UNCHANGED <<heap, slock, strong>>
  BY DEF MoveWeak
<1>3. ApartOK'
  BY <1>1, <1>2, ApartEntered, ExclusiveWillBe, UnusedIsFree DEF Clearing
<1>4. ThreadOK(t)'
  BY <1>1, <1>2 DEF ThreadOK, ArgsOK, VariablesOK, LocksOK, UpdateOK, ClearOK, heap,
       Retaining, Releasing, Clearing, Loading, Storing, Copies, Updating
<1> QED BY <1>1, <1>2, <1>3, <1>4, CallStep DEF IInv, TypeOK, heap

-----------------------------------------------------------------------------
(* The steps that change the strong references and the counts.                 *)

LEMMA StrongStep ==
  ASSUME IInv, NEW t \in Thread, KeepsLocals(t), LocalsTyped', budget' \in [Thread -> Nat],
         UNCHANGED <<weak_table, seen_weak_refs, location, storage>>,
         mem' \in [Obj -> {"free", "live", "dying"}], refcnts' \in [Obj -> Nat],
         slock' \in [Stripe -> Thread \cup {NULL}],
         \A u \in Thread \ {t}, s \in Stripe : slock[s] = u => slock'[s] = u,
         strong' \in [Thread -> [Slot -> Ptr]],
         \A u \in Thread \ {t} : strong'[u] = strong[u],
         \A o \in Obj : refcnts'[o] # refcnts[o] => slock[stripe[o]] = t /\ mem[o] = "live",
         \A o \in Obj : mem[o] = "dying" => mem'[o] = "dying",
         \A o \in Obj : mem'[o] = "free" => mem[o] = "free",
         ~ Updating(t), ApartOK', ThreadOK(t)', \A o \in Obj : ObjectOK(o)'
  PROVE  IInv'
<1>1. TypeOK'
  BY DEF IInv, TypeOK, LocalsTyped
<1>2. LeavesOthers(t)
  BY DEF LeavesOthers
<1>3. WeakOK'
  BY <1>2, WeakKept
<1> QED BY <1>1, <1>2, <1>3, StepKeeps

LEMMA AllocOK ==
  ASSUME IInv, NEW t \in Thread, NEW s \in Slot, NEW o \in Obj, Alloc(t, s, o)
  PROVE  IInv'
<1>1. /\ TypeOK /\ ThreadOK(t) /\ ObjectOK(o) /\ pc[t] = "idle" /\ budget[t] > 0
      /\ s # Tmp /\ strong[t][s] = NULL /\ mem[o] = "free"
      /\ mem' = [mem EXCEPT ![o] = "live"] /\ strong' = [strong EXCEPT ![t][s] = o]
      /\ budget' = [budget EXCEPT ![t] = budget[t] - 1]
      /\ UNCHANGED <<refcnts, weak_table, seen_weak_refs, location, storage, slock, pc, locals>>
  BY DEF IInv, Alloc
<1>2. /\ budget' \in [Thread -> Nat] /\ mem' \in [Obj -> {"free", "live", "dying"}]
      /\ strong' \in [Thread -> [Slot -> Ptr]] /\ strong'[t][Tmp] = strong[t][Tmp]
      /\ \A u \in Thread \ {t} : strong'[u] = strong[u]
      /\ mem'[o] = "live" /\ \A p \in Obj \ {o} : mem'[p] = mem[p]
  BY <1>1 DEF TypeOK, Ptr
<1>3. KeepsLocals(t) /\ LocalsTyped'
  BY <1>1 DEF TypeOK, KeepsLocals, LocalsTyped, locals
<1>4. ApartOK'
  BY <1>1 DEF IInv, ApartOK, Exclusive, locals
<1>5. ThreadOK(t)'
  BY <1>1, <1>2 DEF ThreadOK, ArgsOK, VariablesOK, LocksOK, UpdateOK, ClearOK,
       Retaining, Releasing, Clearing, Loading, Storing, Copies, Updating, locals
<1>6. ASSUME NEW p \in Obj PROVE ObjectOK(p)'
  <2>1. CASE p = o
    <3>1. Owners(o) = {} /\ refcnts[o] = 0
      BY <1>1 DEF ObjectOK
    <3>2. Cardinality(Owners(o)) = 0
      BY <3>1, FS_EmptySet
    <3>3. Owners(o)' # {} /\ Cardinality(Owners(o)') = Cardinality(Owners(o)) + 1
      BY <1>1, OwnerAdded
    <3> QED BY <1>1, <1>2, <2>1, <3>1, <3>2, <3>3 DEF ObjectOK
  <2>2. CASE p # o
    <3>1. Owners(p)' = Owners(p)
      BY <1>1, <2>2, OwnerAdded
    <3> QED BY <1>1, <1>2, <2>2, <3>1 DEF IInv, ObjectOK
  <2> QED BY <2>1, <2>2
<1>7. ~ Updating(t) /\ slock' \in [Stripe -> Thread \cup {NULL}]
  BY <1>1 DEF Updating, TypeOK
<1> QED BY <1>1, <1>2, <1>3, <1>4, <1>5, <1>6, <1>7, StrongStep DEF TypeOK

LEMMA StoreStrongOK ==
  ASSUME IInv, NEW t \in Thread, NEW s \in Slot, NEW o \in Ptr, StoreStrong(t, s, o)
  PROVE  IInv'
<1>1. /\ TypeOK /\ s # Tmp /\ o \in Held(t) \cup {NULL} /\ strong[t][s] # o
      /\ strong' = (IF o # NULL THEN strong ELSE Assigned(t, s, NULL))
      /\ UNCHANGED <<heap, slock>>
  BY DEF IInv, StoreStrong
<1>2. /\ KeepsLocals(t) /\ LocalsTyped' /\ budget' \in [Thread -> Nat]
      /\ pc[t] = "idle" /\ pc'[t] = (IF o # NULL THEN "retain_lock" ELSE "release_lock")
      /\ call'[t] = "storeStrong" /\ loc'[t] = NULL /\ alt'[t] = NULL
      /\ new'[t] = o /\ dst'[t] = s /\ strong[t][Tmp] = NULL
  <2>1. (IF o # NULL THEN "retain_lock" ELSE "release_lock") \in Labels
    BY DEF Labels
  <2> QED BY <2>1, Entered DEF StoreStrong, Calls
<1>3. ApartOK'
  BY <1>2, ApartEntered, ExclusiveWillBe DEF Clearing
<1>4. CASE o # NULL
  <2>1. ThreadOK(t)'
    BY <1>1, <1>2, <1>4 DEF ThreadOK, ArgsOK, VariablesOK, LocksOK, UpdateOK, ClearOK, Held,
         Retaining, Releasing, Clearing, Loading, Storing, Copies, Updating, heap
  <2> QED BY <1>1, <1>2, <1>3, <1>4, <2>1, CallStep DEF TypeOK, heap
<1>5. CASE o = NULL
  <2>1. /\ strong' \in [Thread -> [Slot -> Ptr]] /\ strong'[t][Tmp] = strong[t][s]
        /\ \A u \in Thread \ {t} : strong'[u] = strong[u]
    BY <1>1, <1>5 DEF TypeOK, Assigned, Ptr
  <2>2. ThreadOK(t)'
    BY <1>1, <1>2, <1>5, <2>1 DEF ThreadOK, ArgsOK, VariablesOK, LocksOK, UpdateOK, ClearOK,
         Retaining, Releasing, Clearing, Loading, Storing, Copies, Updating, heap
  <2>3. ASSUME NEW p \in Obj PROVE ObjectOK(p)'
    <3>1. Cardinality(Owners(p)') = Cardinality(Owners(p)) /\ (Owners(p)' = {} <=> Owners(p) = {})
      BY <1>1, <1>2, <1>5, OwnerAssigned
    <3> QED BY <1>1, <3>1 DEF IInv, ObjectOK, heap
  <2>4. ~ Updating(t)
    BY <1>2 DEF Updating
  <2> QED BY <1>1, <1>2, <1>3, <2>1, <2>2, <2>3, <2>4, StrongStep DEF TypeOK, heap
<1> QED BY <1>4, <1>5

LEMMA RetainWriteOK == ASSUME IInv, NEW t \in Thread, RetainWrite(t) PROVE IInv'
<1>0. PICK o \in Obj, s \in Slot \ {Tmp} : o = new[t] /\ s = dst[t] /\ mem[o] = "live"
  BY HeldIsLive DEF IInv, RetainWrite, ThreadOK, ArgsOK, Retaining, Held, TypeOK
<1>1. /\ TypeOK /\ ThreadOK(t) /\ pc[t] = "retain_write"
      /\ refcnts' = [refcnts EXCEPT ![o] = cnt[t] + 2]
      /\ Release({stripe[o]}) /\ strong' = Assigned(t, s, o)
      /\ UNCHANGED <<mem, weak_table, seen_weak_refs, location, storage, budget>>
  BY <1>0 DEF IInv, RetainWrite
<1>2. /\ mem[o] = "live" /\ strong[t][s] # o
      /\ strong[t][Tmp] = NULL /\ call[t] = "storeStrong"
      /\ slock[stripe[o]] = t /\ cnt[t] = refcnts[o] /\ refcnts[o] \in Nat
  BY <1>0, <1>1 DEF ThreadOK, ArgsOK, LocksOK, Retaining, Releasing, Storing, TypeOK
<1>3. /\ refcnts' \in [Obj -> Nat] /\ refcnts'[o] = refcnts[o] + 2
      /\ \A p \in Obj \ {o} : refcnts'[p] = refcnts[p]
      /\ strong' \in [Thread -> [Slot -> Ptr]] /\ strong'[t][Tmp] = strong[t][s]
      /\ \A u \in Thread \ {t} : strong'[u] = strong[u]
  BY <1>1, <1>2 DEF TypeOK, Assigned, Ptr
<1>4. /\ slock' \in [Stripe -> Thread \cup {NULL}]
      /\ \A u \in Thread \ {t}, r \in Stripe : slock[r] = u => slock'[r] = u
  BY <1>1, <1>2, Released
<1>5. Moves(t) /\ ThreadOK(t)' /\ pc'[t] \in {"idle", "release_lock"}
  <2>1. CASE strong[t][s] = NULL
    BY <1>0, <1>1, <1>3, <2>1, ReturnMoves DEF RetainWrite
  <2>2. CASE strong[t][s] # NULL
    <3>1. pc' = [pc EXCEPT ![t] = "release_lock"] /\ UNCHANGED locals
      BY <1>0, <2>2 DEF RetainWrite, Goto
    <3>2. pc'[t] = "release_lock" /\ KeepsLocals(t) /\ LocalsTyped'
      BY <1>1, <3>1 DEF TypeOK, KeepsLocals, LocalsTyped, Labels, locals
    <3>3. Moves(t)
      BY <3>1, <3>2 DEF Moves, Exclusive, locals
    <3>4. ThreadOK(t)'
      BY <1>2, <1>3, <2>2, <3>1, <3>2 DEF ThreadOK, ArgsOK, VariablesOK, LocksOK, UpdateOK,
         ClearOK, Retaining, Releasing, Clearing, Loading, Storing, Copies, Updating, locals
    <3> QED BY <3>2, <3>3, <3>4
  <2> QED BY <2>1, <2>2
<1>6. ASSUME NEW p \in Obj PROVE ObjectOK(p)'
  <2>1. /\ o # NULL => Owners(o)' # {} /\ Cardinality(Owners(o)') = Cardinality(Owners(o)) + 1
        /\ \A q \in Obj \ {o} :
              Cardinality(Owners(q)') = Cardinality(Owners(q)) /\ (Owners(q)' = {} <=> Owners(q) = {})
    BY <1>1, <1>2, OwnerAssigned DEF Ptr
  <2>2. CASE p = o
    <3>1. refcnts[o] = 2 * (Cardinality(Owners(o)) - 1) /\ Cardinality(Owners(o)) \in Nat
      BY <1>1, <1>2, OwnersCount DEF IInv, ObjectOK
    <3> QED BY <1>1, <1>2, <1>3, <2>1, <2>2, <3>1 DEF ObjectOK
  <2>3. CASE p # o
    BY <1>1, <1>3, <2>1, <2>3 DEF IInv, ObjectOK
  <2> QED BY <2>2, <2>3
<1>7. /\ \A p \in Obj : refcnts'[p] # refcnts[p] => slock[stripe[p]] = t /\ mem[p] = "live"
      /\ ~ Updating(t)
  BY <1>1, <1>2, <1>3 DEF Updating
<1>8. ApartOK'
  <2>1. LeavesOthers(t)
    BY <1>1, <1>3, <1>4, <1>5, <1>7 DEF LeavesOthers, Moves
  <2> QED BY <1>5, <2>1, ApartKept DEF Moves, Clearing
<1> QED BY <1>1, <1>3, <1>4, <1>5, <1>6, <1>7, <1>8, StrongStep DEF Moves, TypeOK

LEMMA ReleaseLastOK == ASSUME IInv, NEW t \in Thread, ReleaseLast(t) PROVE IInv'
<1>0. PICK o \in Obj : o = strong[t][Tmp] /\ mem[o] = "live"
  BY HeldIsLive DEF IInv, ReleaseLast, ThreadOK, ArgsOK, Releasing
<1>1. /\ TypeOK /\ ThreadOK(t) /\ pc[t] = "release_write" /\ cnt[t] = 0
      /\ refcnts' = [refcnts EXCEPT ![o] = 1] /\ mem' = [mem EXCEPT ![o] = "dying"]
      /\ Release({stripe[o]}) /\ strong' = [strong EXCEPT ![t][Tmp] = NULL]
      /\ old' = [old EXCEPT ![t] = o] /\ pc' = [pc EXCEPT ![t] = "clear_lock"]
      /\ UNCHANGED <<weak_table, seen_weak_refs, location, storage,
                     call, loc, alt, new, dst, cnt, budget>>
  BY <1>0 DEF IInv, ReleaseLast, LastReference, Goto
<1>2. /\ o \in Obj /\ mem[o] = "live" /\ slock[stripe[o]] = t /\ refcnts[o] = 0
      /\ call[t] \in {"storeStrong"} \cup Copies
  BY <1>0, <1>1 DEF ThreadOK, ArgsOK, LocksOK, Releasing
<1>3. /\ refcnts' \in [Obj -> Nat] /\ refcnts'[o] = 1
      /\ \A p \in Obj \ {o} : refcnts'[p] = refcnts[p]
      /\ mem' \in [Obj -> {"free", "live", "dying"}] /\ mem'[o] = "dying"
      /\ \A p \in Obj \ {o} : mem'[p] = mem[p]
      /\ strong' \in [Thread -> [Slot -> Ptr]] /\ strong'[t][Tmp] = NULL
      /\ \A u \in Thread \ {t} : strong'[u] = strong[u]
  BY <1>1, <1>2 DEF TypeOK, Ptr
<1>4. /\ slock' \in [Stripe -> Thread \cup {NULL}]
      /\ \A u \in Thread \ {t}, r \in Stripe : slock[r] = u => slock'[r] = u
  BY <1>1, <1>2, Released
<1>5. pc'[t] = "clear_lock" /\ old'[t] = o /\ KeepsLocals(t) /\ LocalsTyped'
  BY <1>0, <1>1, <1>2 DEF TypeOK, KeepsLocals, LocalsTyped, Labels, Ptr
<1>6. ThreadOK(t)'
  BY <1>1, <1>2, <1>3, <1>5 DEF ThreadOK, ArgsOK, VariablesOK, LocksOK, UpdateOK, ClearOK,
       Retaining, Releasing, Clearing, Loading, Storing, Copies, Updating
<1>7. ASSUME NEW p \in Obj PROVE ObjectOK(p)'
  <2>1. /\ Owners(o)' = {} <=> Cardinality(Owners(o)) = 1
        /\ \A q \in Obj \ {o} : Owners(q)' = Owners(q)
    BY <1>0, <1>1, OwnerDropped
  <2>2. CASE p = o
    <3>1. refcnts[o] = 2 * (Cardinality(Owners(o)) - 1) /\ Cardinality(Owners(o)) \in Nat
      BY <1>1, <1>2, OwnersCount DEF IInv, ObjectOK
    <3>2. Cardinality(Owners(o)) = 1
      BY <1>2, <3>1
    <3> QED BY <1>1, <1>2, <1>3, <2>1, <2>2, <3>2 DEF ObjectOK
  <2>3. CASE p # o
    BY <1>1, <1>3, <2>1, <2>3 DEF IInv, ObjectOK
  <2> QED BY <2>2, <2>3
<1>8. /\ \A p \in Obj : refcnts'[p] # refcnts[p] => slock[stripe[p]] = t /\ mem[p] = "live"
      /\ \A p \in Obj : mem[p] = "dying" => mem'[p] = "dying"
      /\ \A p \in Obj : mem'[p] = "free" => mem[p] = "free"
      /\ ~ Updating(t)
  BY <1>1, <1>2, <1>3 DEF Updating
<1>9. ApartOK'
  <2>1. LeavesOthers(t)
    BY <1>1, <1>3, <1>4, <1>5, <1>8 DEF LeavesOthers
  <2>2. Exclusive(t)' = Exclusive(t)
    BY <1>1 DEF Exclusive
  <2> QED BY <1>1, <1>2, <1>5, <2>1, <2>2, ApartKept
<1> QED BY <1>1, <1>3, <1>4, <1>5, <1>6, <1>7, <1>8, <1>9, StrongStep DEF TypeOK

LEMMA ReleaseOneOK == ASSUME IInv, NEW t \in Thread, ReleaseOne(t) PROVE IInv'
<1>0. PICK o \in Obj : o = strong[t][Tmp] /\ mem[o] = "live"
  BY HeldIsLive DEF IInv, ReleaseOne, ThreadOK, ArgsOK, Releasing
<1>1. /\ TypeOK /\ ThreadOK(t) /\ pc[t] = "release_write" /\ cnt[t] # 0
      /\ refcnts' = [refcnts EXCEPT ![o] = cnt[t] - 2]
      /\ Release({stripe[o]}) /\ strong' = [strong EXCEPT ![t][Tmp] = NULL]
      /\ AfterRelease(t)
      /\ UNCHANGED <<mem, weak_table, seen_weak_refs, location, storage, budget>>
  BY <1>0 DEF IInv, ReleaseOne, LastReference
<1>2. o \in Obj /\ mem[o] = "live" /\ slock[stripe[o]] = t /\ refcnts[o] = cnt[t]
  BY <1>0, <1>1 DEF ThreadOK, ArgsOK, LocksOK, Releasing
<1>3. /\ refcnts[o] = 2 * (Cardinality(Owners(o)) - 1) /\ Cardinality(Owners(o)) \in Nat
      /\ Cardinality(Owners(o)) > 1
  <2>1. /\ refcnts[o] = 2 * (Cardinality(Owners(o)) - 1) /\ Cardinality(Owners(o)) \in Nat
        /\ cnt[t] \in Nat
    BY <1>1, <1>2, OwnersCount DEF IInv, ObjectOK, TypeOK
  <2> QED BY <1>1, <1>2, <2>1
<1>4. /\ refcnts' \in [Obj -> Nat] /\ refcnts'[o] = refcnts[o] - 2
      /\ \A p \in Obj \ {o} : refcnts'[p] = refcnts[p]
      /\ strong' \in [Thread -> [Slot -> Ptr]] /\ strong'[t][Tmp] = NULL
      /\ \A u \in Thread \ {t} : strong'[u] = strong[u]
  BY <1>1, <1>2, <1>3 DEF TypeOK, Ptr
<1>5. /\ slock' \in [Stripe -> Thread \cup {NULL}]
      /\ \A u \in Thread \ {t}, r \in Stripe : slock[r] = u => slock'[r] = u
  BY <1>1, <1>2, Released
<1>6. Moves(t) /\ ThreadOK(t)' /\ pc'[t] \in {"idle", "store_read"}
  BY <1>1, <1>4, AfterReleaseMoves DEF Releasing
<1>7. ASSUME NEW p \in Obj PROVE ObjectOK(p)'
  <2>1. /\ Owners(o)' = {} <=> Cardinality(Owners(o)) = 1
        /\ Cardinality(Owners(o)') = Cardinality(Owners(o)) - 1
        /\ \A q \in Obj \ {o} : Owners(q)' = Owners(q)
    BY <1>0, <1>1, OwnerDropped
  <2>2. CASE p = o
    BY <1>1, <1>2, <1>3, <1>4, <2>1, <2>2 DEF ObjectOK
  <2>3. CASE p # o
    BY <1>1, <1>4, <2>1, <2>3 DEF IInv, ObjectOK
  <2> QED BY <2>2, <2>3
<1>8. /\ \A p \in Obj : refcnts'[p] # refcnts[p] => slock[stripe[p]] = t /\ mem[p] = "live"
      /\ ~ Updating(t)
  BY <1>1, <1>2, <1>4 DEF Updating
<1>9. ApartOK'
  <2>1. LeavesOthers(t)
    BY <1>1, <1>4, <1>5, <1>6, <1>8 DEF LeavesOthers, Moves
  <2> QED BY <1>6, <2>1, ApartKept DEF Moves, Clearing
<1> QED BY <1>1, <1>4, <1>5, <1>6, <1>7, <1>8, <1>9, StrongStep DEF Moves, TypeOK

-----------------------------------------------------------------------------
(* The steps of a store under its locks.                                       *)

\* Of two threads only one holds a lock: nobody else updates a variable while t
\* holds the lock of the object it names, or registers one for an object whose
\* lock t holds.
LEMMA UnderLock ==
  ASSUME IInv, NEW t \in Thread, NEW u \in Thread, Updating(u)
  PROVE  /\ loc[u] \in Loc
         /\ slock[stripe[location[loc[u]]]] = t => u = t
         /\ slock[stripe[new[u]]] = t => u = t
<1>1. ThreadOK(u) /\ pc[u] \in {"store_register", "store_set"}
  BY DEF IInv, Updating
<1>2. slock[stripe[old[u]]] = u /\ slock[stripe[new[u]]] = u /\ location[loc[u]] = old[u]
  BY <1>1 DEF ThreadOK, LocksOK, UpdateOK, Updating
<1>3. loc[u] \in Loc
  BY <1>1 DEF ThreadOK, ArgsOK, VariablesOK, Storing, Copies
<1> QED BY <1>2, <1>3

LEMMA TableStep ==
  ASSUME IInv, NEW t \in Thread, pc[t] \in {"store_check", "store_register"},
         UNCHANGED <<mem, refcnts, seen_weak_refs, location, storage, slock, strong, locals, budget>>,
         pc' = [pc EXCEPT ![t] = pc'[t]], pc'[t] \in {"store_register", "store_set"},
         location[loc[t]] = old[t],
         weak_table' \in [Obj -> SUBSET Loc],
         \A o \in Obj : weak_table'[o] # weak_table[o] =>
            /\ slock[stripe[o]] = t
            /\ mem[o] = "live" \/ weak_table'[o] \subseteq weak_table[o],
         \A o \in Obj, l \in Loc : l # loc[t] => (l \in weak_table'[o] <=> l \in weak_table[o]),
         \A o \in Obj : loc[t] \in weak_table'[o] =>
            loc[t] \in weak_table[o] \/ (pc'[t] = "store_set" /\ new[t] = o),
         UpdateOK(t)'
  PROVE  IInv'
<1>1. TypeOK /\ ThreadOK(t)
  BY DEF IInv
<1>2. TypeOK' /\ KeepsLocals(t)
  <2>1. pc' \in [Thread -> Labels] /\ \A u \in Thread \ {t} : pc'[u] = pc[u]
    <3>1. pc'[t] \in Labels /\ pc \in [Thread -> Labels]
      BY <1>1 DEF TypeOK, Labels
    <3>2. \E p \in Labels : pc' = [pc EXCEPT ![t] = p]
      BY <3>1
    <3> QED BY <3>1, <3>2
  <2>2. TypeOK'
    BY <1>1, <2>1 DEF TypeOK, locals
  <2> QED BY <2>1, <2>2 DEF KeepsLocals, locals
<1>3. LeavesOthers(t)
  BY <1>2 DEF LeavesOthers
<1>4. ArgsOK(t)' /\ VariablesOK(t)' /\ ClearOK(t)' /\ loc[t] \in Loc
  BY StoreGoes DEF Storing, locals
<1>5. LocksOK(t)'
  BY <1>1 DEF ThreadOK, LocksOK, locals
<1>6. ThreadOK(t)'
  BY <1>4, <1>5 DEF ThreadOK
<1>7. ApartOK'
  <2>1. Exclusive(t)' = Exclusive(t)
    BY DEF Exclusive, locals
  <2> QED BY <1>3, <2>1, ApartKept DEF Clearing, locals
<1>8. \A o \in Obj : ObjectOK(o)'
  BY ObjectsKept
<1>9. \A u \in Thread \ {t} : pc'[u] = pc[u]
  BY <1>2 DEF KeepsLocals
<1>10. Updating(t)' /\ pc[t] # "store_set"
  BY DEF Updating
<1>11. ASSUME NEW l \in Loc
       PROVE  /\ ~ storage'[l] => location'[l] = NULL
              /\ location'[l] # NULL =>
                   /\ mem'[location'[l]] # "free"
                   /\ l \in weak_table'[location'[l]]
                      \/ \E u \in Thread : Updating(u)' /\ loc'[u] = l
  <2>1. location[l] # NULL => location[l] \in Obj
    BY <1>1 DEF TypeOK, Ptr
  <2>2. CASE l = loc[t]
    BY <1>10, <2>2 DEF IInv, WeakOK, locals
  <2>3. CASE l # loc[t]
    BY <1>9, <1>10, <2>1, <2>3 DEF IInv, WeakOK, Updating, locals
  <2> QED BY <2>2, <2>3
<1>12. ASSUME NEW o \in Obj, NEW l \in weak_table'[o]
       PROVE  /\ storage'[l]
              /\ \/ location'[l] = o
                 \/ \E u \in Thread : pc'[u] = "store_set" /\ loc'[u] = l /\ new'[u] = o
  <2>1. l \in Loc
    OBVIOUS
  <2>2. CASE l \in weak_table[o]
    BY <1>9, <1>10, <2>2 DEF IInv, WeakOK, locals
  <2>3. CASE l \notin weak_table[o]
    <3>1. l = loc[t] /\ pc'[t] = "store_set" /\ new[t] = o
      BY <2>1, <2>3
    <3>2. storage[loc[t]]
      BY <1>1 DEF ThreadOK, ArgsOK, VariablesOK, Storing, Copies
    <3> QED BY <3>1, <3>2 DEF locals
  <2> QED BY <2>2, <2>3
<1>13. seen_weak_refs'
  BY <1>1 DEF ThreadOK, ArgsOK, Storing
<1>14. WeakOK'
  BY <1>11, <1>12, <1>13 DEF WeakOK
<1> QED BY <1>2, <1>3, <1>6, <1>7, <1>8, <1>14, StepKeeps

LEMMA StoreUnregisterOK == ASSUME IInv, NEW t \in Thread, StoreUnregister(t) PROVE IInv'
<1>1. /\ TypeOK /\ ThreadOK(t) /\ pc[t] = "store_check" /\ location[loc[t]] = old[t]
      /\ pc' = [pc EXCEPT ![t] = IF new[t] = NULL THEN "store_set" ELSE "store_register"]
      /\ UNCHANGED <<mem, refcnts, seen_weak_refs, location, storage, slock, strong, locals, budget>>
  BY DEF IInv, StoreUnregister, Changed, Goto
<1>2. /\ pc'[t] = (IF new[t] = NULL THEN "store_set" ELSE "store_register")
      /\ pc' = [pc EXCEPT ![t] = pc'[t]]
      /\ slock[stripe[old[t]]] = t /\ old[t] \in Ptr
  BY <1>1 DEF TypeOK, ThreadOK, LocksOK
<1>3. /\ weak_table' \in [Obj -> SUBSET Loc]
      /\ \A o \in Obj : weak_table'[o] =
            IF o = old[t] THEN weak_table[o] \ {loc[t]} ELSE weak_table[o]
  <2>1. weak_table' = IF old[t] = NULL THEN weak_table
                      ELSE [weak_table EXCEPT ![old[t]] = weak_table[old[t]] \ {loc[t]}]
    BY DEF StoreUnregister
  <2>2. weak_table \in [Obj -> SUBSET Loc]
    BY <1>1 DEF TypeOK
  <2>3. CASE old[t] = NULL
    BY <2>1, <2>2, <2>3
  <2>4. CASE old[t] # NULL
    BY <1>2, <2>1, <2>2, <2>4 DEF Ptr
  <2> QED BY <2>3, <2>4
<1>4. UpdateOK(t)'
  BY <1>1, <1>2, <1>3 DEF UpdateOK, Updating, locals, Ptr
<1>5. \A o \in Obj : weak_table'[o] # weak_table[o] =>
            slock[stripe[o]] = t /\ weak_table'[o] \subseteq weak_table[o]
  BY <1>2, <1>3
<1>6. /\ \A o \in Obj, l \in Loc : l # loc[t] => (l \in weak_table'[o] <=> l \in weak_table[o])
      /\ \A o \in Obj : loc[t] \in weak_table'[o] => loc[t] \in weak_table[o]
  BY <1>3
<1> QED BY <1>1, <1>2, <1>3, <1>4, <1>5, <1>6, TableStep

\* The object to be registered is alive: its deallocating bit is not set.
LEMMA LiveIsNotDeallocating ==
  ASSUME IInv, NEW o \in Obj, mem[o] = "live"
  PROVE  ~ Deallocating(o)
<1>1. refcnts[o] = 2 * (Cardinality(Owners(o)) - 1) /\ Cardinality(Owners(o)) \in Nat
  BY OwnersCount DEF IInv, ObjectOK
<1> DEFINE n == Cardinality(Owners(o)) - 1
<1>2. n \in Int /\ refcnts[o] = 2 * n
  BY <1>1
<1> HIDE DEF n
<1>3. (2 * n) % 2 = 0
  BY <1>2
<1> QED BY <1>2, <1>3 DEF Deallocating

LEMMA StoreRegisterOK == ASSUME IInv, NEW t \in Thread, StoreRegister(t) PROVE IInv'
<1>1. /\ TypeOK /\ ThreadOK(t) /\ pc[t] = "store_register" /\ location[loc[t]] = old[t]
      /\ UNCHANGED <<mem, refcnts, seen_weak_refs, location, storage, slock, strong, locals, budget>>
  BY DEF IInv, StoreRegister, ThreadOK, UpdateOK, Updating
<1>2. new[t] \in Obj /\ mem[new[t]] = "live"
  BY <1>1, HeldIsLive DEF ThreadOK, ArgsOK, UpdateOK, Storing, Held
<1>3. /\ weak_table' = [weak_table EXCEPT ![new[t]] = weak_table[new[t]] \cup {loc[t]}]
      /\ pc' = [pc EXCEPT ![t] = "store_set"]
  BY <1>2, LiveIsNotDeallocating DEF StoreRegister, Goto
<1>4. /\ pc'[t] = "store_set" /\ slock[stripe[new[t]]] = t /\ loc[t] \in Loc
  BY <1>1, <1>3 DEF TypeOK, ThreadOK, ArgsOK, VariablesOK, LocksOK, Storing, Copies
<1>5. /\ weak_table' \in [Obj -> SUBSET Loc]
      /\ \A o \in Obj : weak_table'[o] =
            IF o = new[t] THEN weak_table[o] \cup {loc[t]} ELSE weak_table[o]
  BY <1>1, <1>2, <1>3, <1>4 DEF TypeOK
<1>6. UpdateOK(t)'
  <2>1. old[t] # NULL => loc[t] \notin weak_table[old[t]] /\ old[t] \in Obj
    BY <1>1 DEF ThreadOK, UpdateOK, TypeOK, Ptr
  <2> QED BY <1>1, <1>2, <1>4, <1>5, <2>1 DEF UpdateOK, Updating, locals
<1>7. \A o \in Obj : weak_table'[o] # weak_table[o] => slock[stripe[o]] = t /\ mem[o] = "live"
  BY <1>2, <1>4, <1>5
<1>8. /\ \A o \in Obj, l \in Loc : l # loc[t] => (l \in weak_table'[o] <=> l \in weak_table[o])
      /\ \A o \in Obj : loc[t] \in weak_table'[o] => loc[t] \in weak_table[o] \/ new[t] = o
  BY <1>5
<1> QED BY <1>1, <1>3, <1>4, <1>5, <1>6, <1>7, <1>8, TableStep

LEMMA StoreSetOK == ASSUME IInv, NEW t \in Thread, StoreSet(t) PROVE IInv'
<1>1. /\ TypeOK /\ ThreadOK(t) /\ pc[t] = "store_set"
      /\ location' = [location EXCEPT ![loc[t]] = new[t]]
      /\ storage' = [storage EXCEPT ![loc[t]] = call[t] # "destroyWeak"]
      /\ Release({stripe[old[t]], stripe[new[t]]}) /\ AfterStore(t)
      /\ UNCHANGED <<mem, refcnts, weak_table, seen_weak_refs, strong, budget>>
  BY DEF IInv, StoreSet
<1>2. /\ loc[t] \in Loc /\ storage[loc[t]] /\ location[loc[t]] = old[t]
      /\ old[t] \in Ptr /\ new[t] \in Ptr /\ new[t] \in Held(t) \cup {NULL}
      /\ slock[stripe[old[t]]] = t /\ slock[stripe[new[t]]] = t
      /\ new[t] # NULL => loc[t] \in weak_table[new[t]] /\ call[t] # "destroyWeak"
      /\ old[t] \notin {NULL, new[t]} => loc[t] \notin weak_table[old[t]]
      /\ strong[t][Tmp] # NULL => call[t] \in Copies
      /\ seen_weak_refs /\ Updating(t)
  BY <1>1 DEF TypeOK, ThreadOK, ArgsOK, VariablesOK, LocksOK, UpdateOK, Updating,
       Storing, Releasing, Copies
<1>3. /\ location' \in [Loc -> Ptr] /\ location'[loc[t]] = new[t]
      /\ \A l \in Loc : l # loc[t] => location'[l] = location[l]
      /\ storage' \in [Loc -> BOOLEAN] /\ storage'[loc[t]] = (call[t] # "destroyWeak")
      /\ \A l \in Loc : l # loc[t] => storage'[l] = storage[l]
  BY <1>1, <1>2 DEF TypeOK
<1>4. /\ slock' \in [Stripe -> Thread \cup {NULL}]
      /\ \A u \in Thread \ {t}, r \in Stripe : slock[r] = u => slock'[r] = u
  BY <1>1, <1>2, Released
<1>5. Moves(t) /\ ThreadOK(t)' /\ pc'[t] \in {"idle", "store_read", "release_lock"}
  <2>1. CASE call[t] \in Copies /\ strong[t][Tmp] # NULL
    <3>1. pc' = [pc EXCEPT ![t] = "release_lock"] /\ UNCHANGED locals
      BY <1>1, <2>1 DEF AfterStore, Goto, Copies
    <3>2. pc'[t] = "release_lock" /\ KeepsLocals(t) /\ LocalsTyped'
      BY <1>1, <3>1 DEF TypeOK, KeepsLocals, LocalsTyped, Labels, locals
    <3>3. Moves(t)
      BY <3>1, <3>2 DEF Moves, Exclusive, locals
    <3>4. alt[t] \in Loc /\ dst[t] = Tmp /\ storage[alt[t]] /\ call[t] # "destroyWeak"
      BY <1>1, <2>1 DEF ThreadOK, VariablesOK, Copies, Loading
    <3>5. storage'[loc[t]] /\ storage'[alt[t]]
      BY <1>3, <3>4
    <3>6. ThreadOK(t)'
      BY <1>1, <1>2, <2>1, <3>1, <3>2, <3>4, <3>5 DEF ThreadOK, ArgsOK, VariablesOK, LocksOK,
         UpdateOK, ClearOK, Retaining, Releasing, Clearing, Loading, Storing, Copies, Updating, locals
    <3> QED BY <3>2, <3>3, <3>6
  <2>2. CASE ~ (call[t] \in Copies /\ strong[t][Tmp] # NULL)
    <3>1. AfterRelease(t) /\ strong'[t][Tmp] = NULL
      BY <1>1, <1>2, <2>2 DEF AfterStore, Copies
    <3>2. \A l \in Loc : storage[l] /\ call[t] = "moveWeak" => storage'[l]
      BY <1>3
    <3> QED BY <1>1, <3>1, <3>2, AfterReleaseMoves
  <2> QED BY <2>1, <2>2
<1>6. new[t] # NULL => new[t] \in Obj /\ mem[new[t]] = "live"
  BY <1>2, HeldIsLive DEF Held
<1>7. LeavesOthers(t)
  <2>1. ASSUME NEW u \in Thread \ {t}, NEW l \in Loc, l \in {loc[u], alt[u]}
        PROVE  storage'[l] = storage[l]
    <3>1. CASE l = loc[t]
      <4>1. call[t] # "destroyWeak"
        BY <2>1, <3>1, ExclusiveIs DEF IInv, ApartOK
      <4> QED BY <1>1, <1>2, <1>3, <3>1, <4>1 DEF TypeOK
    <3>2. CASE l # loc[t]
      BY <1>3, <3>2
    <3> QED BY <3>1, <3>2
  <2> QED BY <1>1, <1>2, <1>3, <1>4, <1>5, <1>6, <2>1 DEF LeavesOthers, Moves
<1>8. TypeOK'
  BY <1>1, <1>3, <1>4, <1>5 DEF TypeOK, Moves, LocalsTyped
<1>9. ApartOK'
  BY <1>5, <1>7, ApartKept DEF Moves, Clearing
<1>10. \A o \in Obj : ObjectOK(o)'
  BY <1>1, ObjectsKept
<1>11. \A u \in Thread : Updating(u) /\ loc[u] = loc[t] => u = t
  BY <1>2, UnderLock
<1>12. \A u \in Thread \ {t} : pc'[u] = pc[u] /\ loc'[u] = loc[u] /\ new'[u] = new[u]
  BY <1>7 DEF LeavesOthers, KeepsLocals
<1>13. ASSUME NEW l \in Loc
       PROVE  /\ ~ storage'[l] => location'[l] = NULL
              /\ location'[l] # NULL =>
                   /\ mem'[location'[l]] # "free"
                   /\ l \in weak_table'[location'[l]]
                      \/ \E u \in Thread : Updating(u)' /\ loc'[u] = l
  <2>1. CASE l = loc[t]
    BY <1>1, <1>2, <1>3, <1>6, <2>1
  <2>2. CASE l # loc[t]
    <3>1. location'[l] = location[l] /\ storage'[l] = storage[l]
      BY <1>3, <2>2
    <3>2. \A u \in Thread : Updating(u) /\ loc[u] = l => Updating(u)' /\ loc'[u] = l
      BY <1>12, <2>2 DEF Updating
    <3> QED BY <1>1, <3>1, <3>2 DEF IInv, WeakOK
  <2> QED BY <2>1, <2>2
<1>14. ASSUME NEW o \in Obj, NEW l \in weak_table'[o]
       PROVE  /\ storage'[l]
              /\ \/ location'[l] = o
                 \/ \E u \in Thread : pc'[u] = "store_set" /\ loc'[u] = l /\ new'[u] = o
  <2>1. l \in weak_table[o] /\ l \in Loc
    BY <1>1 DEF TypeOK
  <2>2. /\ storage[l]
        /\ \/ location[l] = o
           \/ \E u \in Thread : pc[u] = "store_set" /\ loc[u] = l /\ new[u] = o
    BY <2>1 DEF IInv, WeakOK
  <2>3. CASE l = loc[t]
    <3>1. new[t] = o
      <4>1. CASE location[l] = o
        BY <1>2, <2>1, <2>3, <4>1
      <4>2. CASE \E u \in Thread : pc[u] = "store_set" /\ loc[u] = l /\ new[u] = o
        BY <1>11, <2>3, <4>2 DEF Updating
      <4> QED BY <2>2, <4>1, <4>2
    <3> QED BY <1>2, <1>3, <2>3, <3>1
  <2>4. CASE l # loc[t]
    BY <1>3, <1>12, <2>1, <2>2, <2>4
  <2> QED BY <2>3, <2>4
<1>15. WeakOK'
  BY <1>1, <1>2, <1>13, <1>14 DEF WeakOK
<1> QED BY <1>7, <1>8, <1>5, <1>9, <1>10, <1>15, StepKeeps

-----------------------------------------------------------------------------
(* The steps of a load.                                                        *)

\* The destination of a copy reads as nil before it is zeroed.
LEMMA ZeroedIsSame ==
  ASSUME IInv, NEW t \in Thread, pc[t] \in Loading
  PROVE  Zeroed(t, location) = location
<1>1. CASE call[t] \in Copies
  <2>1. location \in [Loc -> Ptr] /\ location[alt[t]] = NULL
    BY <1>1 DEF IInv, TypeOK, ThreadOK, VariablesOK, WeakOK
  <2> QED BY <1>1, <2>1 DEF Zeroed, Copies
<1>2. CASE call[t] \notin Copies
  BY <1>2 DEF Zeroed, Copies
<1> QED BY <1>1, <1>2

LEMMA LoadStep ==
  ASSUME IInv, NEW t \in Thread, NEW p \in Ptr, pc[t] \in Loading, AfterLoad(t, p),
         UNCHANGED <<mem, weak_table, location, budget>>,
         refcnts' \in [Obj -> Nat],
         \A o \in Obj : refcnts'[o] # refcnts[o] => slock[stripe[o]] = t /\ mem[o] = "live",
         slock' \in [Stripe -> Thread \cup {NULL}],
         \A u \in Thread \ {t}, s \in Stripe : slock[s] = u => slock'[s] = u,
         strong' \in [Thread -> [Slot -> Ptr]],
         \A u \in Thread \ {t} : strong'[u] = strong[u],
         strong'[t][Tmp] = IF call[t] \in Copies THEN p ELSE NULL,
         \A o \in Obj : ObjectOK(o)'
  PROVE  IInv'
<1>1. /\ Moves(t) /\ ThreadOK(t)' /\ pc'[t] \in {"idle", "store_read"}
      /\ storage' \in [Loc -> BOOLEAN] /\ seen_weak_refs' \in BOOLEAN
      /\ seen_weak_refs => seen_weak_refs'
      /\ \A l \in Loc : storage[l] => storage'[l]
      /\ \A u \in Thread \ {t}, l \in Loc : l \in {loc[u], alt[u]} => storage'[l] = storage[l]
  BY AfterLoadMoves
<1>2. TypeOK'
  BY <1>1 DEF IInv, TypeOK, Moves, LocalsTyped
<1>3. LeavesOthers(t)
  BY <1>1 DEF LeavesOthers, Moves
<1>4. ApartOK'
  BY <1>1, <1>3, ApartKept DEF Moves, Clearing
<1>5. ~ Updating(t)
  BY DEF Updating, Loading
<1>6. WeakOK'
  BY <1>1, <1>3, <1>5, WeakKept
<1> QED BY <1>1, <1>2, <1>3, <1>4, <1>6, StepKeeps

LEMMA LoadReadOK == ASSUME IInv, NEW t \in Thread, LoadRead(t) PROVE IInv'
<1>1. /\ TypeOK /\ ThreadOK(t) /\ pc[t] = "load_read" /\ strong[t][Tmp] = NULL
      /\ UNCHANGED <<mem, refcnts, weak_table, slock, strong, budget>>
  BY DEF IInv, LoadRead, ThreadOK, ArgsOK, Releasing, Storing
<1>2. loc[t] \in Loc
  BY <1>1 DEF ThreadOK, ArgsOK, VariablesOK, Loading, Copies
<1>3. CASE location[loc[t]] = NULL
  <2>1. AfterLoad(t, NULL) /\ location' = location
    BY <1>1, <1>3, ZeroedIsSame DEF LoadRead, Loading
  <2>2. \A o \in Obj : ObjectOK(o)'
    BY <1>1, ObjectsKept
  <2> QED BY <1>1, <2>1, <2>2, LoadStep DEF TypeOK, Ptr, Loading
<1>4. CASE location[loc[t]] # NULL
  <2>1. /\ old' = [old EXCEPT ![t] = location[loc[t]]] /\ pc' = [pc EXCEPT ![t] = "load_lock"]
        /\ UNCHANGED <<heap, slock, strong, call, loc, alt, new, dst, cnt, budget>>
    BY <1>4 DEF LoadRead, Goto, heap
  <2>2. /\ pc'[t] = "load_lock" /\ old'[t] = location[loc[t]] /\ old'[t] \in Ptr
        /\ old' = [old EXCEPT ![t] = old'[t]] /\ pc' = [pc EXCEPT ![t] = pc'[t]]
        /\ cnt' = [cnt EXCEPT ![t] = cnt'[t]] /\ cnt'[t] \in Nat
        /\ slock' \in [Stripe -> Thread \cup {NULL}]
    BY <1>1, <1>2, <2>1 DEF TypeOK
  <2>3. ArgsOK(t)' /\ VariablesOK(t)' /\ UpdateOK(t)' /\ ClearOK(t)'
    BY <1>1, <1>4, <2>1, <2>2, LoadGoes DEF Loading, heap
  <2>4. LocksOK(t)'
    BY <2>2 DEF LocksOK
  <2> QED BY <1>1, <2>1, <2>2, <2>3, <2>4, LockStep DEF ThreadOK, Updating, Clearing, Labels
<1> QED BY <1>3, <1>4

\* What a load knows under the lock of the object the variable names: the object
\* has the variable in its entry.
LEMMA LoadFinds ==
  ASSUME IInv, NEW t \in Thread, pc[t] = "load_check", ~ Changed(t)
  PROVE  /\ old[t] \in Obj /\ loc[t] \in weak_table[old[t]] /\ slock[stripe[old[t]]] = t
         /\ strong[t][Tmp] = NULL
<1>1. TypeOK /\ ThreadOK(t) /\ location[loc[t]] = old[t]
  BY DEF IInv, Changed
<1>2. /\ loc[t] \in Loc /\ old[t] \in Obj /\ slock[stripe[old[t]]] = t /\ strong[t][Tmp] = NULL
  BY <1>1 DEF ThreadOK, ArgsOK, VariablesOK, LocksOK, TypeOK, Ptr,
       Loading, Releasing, Storing, Copies
<1>3. loc[t] \in weak_table[old[t]] \/ \E u \in Thread : Updating(u) /\ loc[u] = loc[t]
  BY <1>1, <1>2 DEF IInv, WeakOK
<1>4. ~ \E u \in Thread : Updating(u) /\ loc[u] = loc[t]
  BY <1>1, <1>2, UnderLock DEF Updating
<1> QED BY <1>2, <1>3, <1>4

LEMMA LoadRefusedOK == ASSUME IInv, NEW t \in Thread, LoadRefused(t) PROVE IInv'
<1>1. /\ TypeOK /\ pc[t] = "load_check" /\ ~ Changed(t) /\ Release({stripe[old[t]]})
      /\ AfterLoad(t, NULL) /\ UNCHANGED <<mem, refcnts, weak_table, strong, budget>>
  BY DEF IInv, LoadRefused
<1>2. weak_table[old[t]] # {} /\ slock[stripe[old[t]]] = t /\ strong[t][Tmp] = NULL
  BY <1>1, LoadFinds
<1>3. location' = location
  BY <1>1, <1>2, ZeroedIsSame DEF LoadRefused, Loading
<1>4. /\ slock' \in [Stripe -> Thread \cup {NULL}]
      /\ \A u \in Thread \ {t}, r \in Stripe : slock[r] = u => slock'[r] = u
  BY <1>1, <1>2, Released
<1>5. \A o \in Obj : ObjectOK(o)'
  BY <1>1, ObjectsKept
<1> QED BY <1>1, <1>2, <1>3, <1>4, <1>5, LoadStep DEF TypeOK, Ptr, Loading

\* An object with weak references whose bit is not set is alive.
LEMMA RetainableIsLive ==
  ASSUME IInv, NEW o \in Obj, weak_table[o] # {}, ~ Deallocating(o)
  PROVE  mem[o] = "live"
<1>1. refcnts[o] # 1
  BY DEF Deallocating
<1> QED BY <1>1 DEF IInv, TypeOK, ObjectOK

LEMMA LoadRetainedOK == ASSUME IInv, NEW t \in Thread, LoadRetained(t) PROVE IInv'
<1>0. PICK o \in Obj, s \in Slot : o = old[t] /\ s = dst[t]
  BY LoadFinds DEF IInv, TypeOK, LoadRetained
<1>1. /\ TypeOK /\ ThreadOK(t) /\ pc[t] = "load_check" /\ ~ Changed(t)
      /\ weak_table[o] # {} /\ ~ Deallocating(o)
      /\ refcnts' = [refcnts EXCEPT ![o] = refcnts[o] + 2]
      /\ strong' = [strong EXCEPT ![t][s] = o]
      /\ Release({stripe[o]}) /\ AfterLoad(t, o) /\ location' = Zeroed(t, location)
      /\ UNCHANGED <<mem, weak_table, budget>>
  BY <1>0 DEF IInv, LoadRetained
<1>2. slock[stripe[o]] = t /\ strong[t][Tmp] = NULL /\ mem[o] = "live"
  BY <1>0, <1>1, LoadFinds, RetainableIsLive
<1>3. strong[t][s] = NULL /\ (s = Tmp <=> call[t] \in Copies)
  BY <1>0, <1>1, <1>2 DEF ThreadOK, ArgsOK, VariablesOK, Loading, Copies
<1>4. location' = location
  BY <1>1, ZeroedIsSame DEF Loading
<1>5. /\ refcnts' \in [Obj -> Nat] /\ refcnts'[o] = refcnts[o] + 2
      /\ \A p \in Obj \ {o} : refcnts'[p] = refcnts[p]
      /\ strong' \in [Thread -> [Slot -> Ptr]]
      /\ strong'[t][Tmp] = (IF s = Tmp THEN o ELSE strong[t][Tmp])
      /\ \A u \in Thread \ {t} : strong'[u] = strong[u]
  BY <1>1 DEF TypeOK, Ptr
<1>6. /\ slock' \in [Stripe -> Thread \cup {NULL}]
      /\ \A u \in Thread \ {t}, r \in Stripe : slock[r] = u => slock'[r] = u
  BY <1>1, <1>2, Released
<1>7. ASSUME NEW p \in Obj PROVE ObjectOK(p)'
  <2>1. /\ Owners(o)' # {} /\ Cardinality(Owners(o)') = Cardinality(Owners(o)) + 1
        /\ \A q \in Obj \ {o} : Owners(q)' = Owners(q)
    BY <1>1, <1>3, OwnerAdded
  <2>2. CASE p = o
    <3>1. refcnts[o] = 2 * (Cardinality(Owners(o)) - 1) /\ Cardinality(Owners(o)) \in Nat
      BY <1>1, <1>2, OwnersCount DEF IInv, ObjectOK
    <3> QED BY <1>1, <1>2, <1>5, <2>1, <2>2, <3>1 DEF ObjectOK
  <2>3. CASE p # o
    BY <1>1, <1>5, <2>1, <2>3 DEF IInv, ObjectOK
  <2> QED BY <2>2, <2>3
<1>8. strong'[t][Tmp] = IF call[t] \in Copies THEN o ELSE NULL
  BY <1>2, <1>3, <1>5
<1>9. \A p \in Obj : refcnts'[p] # refcnts[p] => slock[stripe[p]] = t /\ mem[p] = "live"
  BY <1>2, <1>5
<1> QED BY <1>1, <1>4, <1>5, <1>6, <1>7, <1>8, <1>9, LoadStep DEF Ptr, Loading

-----------------------------------------------------------------------------
(* The steps of a deallocation.                                                *)

\* What the deallocation knows of its object.
LEMMA ClearKnows ==
  ASSUME IInv, NEW t \in Thread, pc[t] \in Clearing
  PROVE  /\ old[t] \in Obj /\ mem[old[t]] = "dying" /\ call[t] \in {"storeStrong"} \cup Copies
         /\ strong[t][Tmp] = NULL /\ ~ Updating(t)
         /\ pc[t] # "free" => refcnts[old[t]] = 1
         /\ pc[t] \in {"clear_weak", "clear_erase"} => slock[stripe[old[t]]] = t
<1>1. TypeOK /\ ArgsOK(t) /\ LocksOK(t) /\ ClearOK(t)
  BY DEF IInv, ThreadOK
<1>2. old[t] \in Obj /\ mem[old[t]] = "dying" /\ (pc[t] # "free" => refcnts[old[t]] = 1)
  BY <1>1 DEF TypeOK, ClearOK, Ptr, Clearing
<1>3. call[t] \in {"storeStrong"} \cup Copies /\ strong[t][Tmp] = NULL /\ ~ Updating(t)
  BY <1>1 DEF ArgsOK, Clearing, Releasing, Storing, Updating
<1>4. pc[t] \in {"clear_weak", "clear_erase"} => slock[stripe[old[t]]] = t
  BY <1>1 DEF LocksOK
<1> QED BY <1>2, <1>3, <1>4

LEMMA ClearReferrerOK == ASSUME IInv, NEW t \in Thread, ClearReferrer(t) PROVE IInv'
<1>0. PICK o \in Obj, l \in Loc :
        /\ l \in weak_table[o] /\ o = old[t] /\ pc[t] = "clear_weak" /\ mem[o] = "dying" /\ slock[stripe[o]] = t
        /\ weak_table' = [weak_table EXCEPT ![o] = weak_table[o] \ {l}]
        /\ location' = IF location[l] = o THEN [location EXCEPT ![l] = NULL] ELSE location
  BY ClearKnows DEF ClearReferrer, Clearing, IInv, TypeOK
<1>1. /\ TypeOK /\ ThreadOK(t) /\ l \in Loc /\ ~ Updating(t)
      /\ UNCHANGED <<mem, refcnts, seen_weak_refs, storage, slock, strong, pc, locals, budget>>
  BY <1>0 DEF IInv, TypeOK, ClearReferrer, Updating
<1>2. /\ weak_table' \in [Obj -> SUBSET Loc] /\ weak_table'[o] = weak_table[o] \ {l}
      /\ \A p \in Obj \ {o} : weak_table'[p] = weak_table[p]
      /\ location' \in [Loc -> Ptr]
      /\ location[l] = o => location'[l] = NULL
      /\ \A m \in Loc : location[m] # o \/ m # l => location'[m] = location[m]
  BY <1>0, <1>1 DEF TypeOK, Ptr
<1>3. TypeOK'
  BY <1>1, <1>2 DEF TypeOK, locals
<1>4. LeavesOthers(t)
  BY <1>0, <1>1, <1>2 DEF LeavesOthers, KeepsLocals, locals
<1>5. ThreadOK(t)'
  BY <1>0, <1>1 DEF ThreadOK, ArgsOK, VariablesOK, LocksOK, UpdateOK, ClearOK, Held,
       Retaining, Releasing, Clearing, Loading, Storing, Copies, Updating, locals
<1>6. ApartOK'
  BY <1>1 DEF IInv, ApartOK, Exclusive, locals
<1>7. \A p \in Obj : ObjectOK(p)'
  BY <1>1, <1>2, ObjectsKept
<1>8. ASSUME NEW m \in Loc
      PROVE  /\ ~ storage'[m] => location'[m] = NULL
             /\ location'[m] # NULL =>
                  /\ mem'[location'[m]] # "free"
                  /\ m \in weak_table'[location'[m]]
                     \/ \E u \in Thread : Updating(u)' /\ loc'[u] = m
  <2>1. CASE location[m] = o /\ m = l
    BY <1>2, <2>1
  <2>2. CASE ~ (location[m] = o /\ m = l)
    <3>1. location'[m] = location[m] /\ location[m] \in Ptr
      BY <1>1, <1>2, <2>2 DEF TypeOK
    <3>2. location[m] # NULL =>
            (m \in weak_table'[location[m]] <=> m \in weak_table[location[m]])
      BY <1>2, <2>2, <3>1 DEF Ptr
    <3> QED BY <1>1, <3>1, <3>2 DEF IInv, WeakOK, Updating, locals
  <2> QED BY <2>1, <2>2
<1>9. ASSUME NEW p \in Obj, NEW m \in weak_table'[p]
      PROVE  /\ storage'[m]
             /\ \/ location'[m] = p
                \/ \E u \in Thread : pc'[u] = "store_set" /\ loc'[u] = m /\ new'[u] = p
  <2>1. m \in weak_table[p] /\ m \in Loc /\ ~ (p = o /\ m = l)
    BY <1>1, <1>2 DEF TypeOK
  <2>2. location[m] = p => location'[m] = p
    BY <1>2, <2>1
  <2> QED BY <1>1, <2>1, <2>2 DEF IInv, WeakOK, locals
<1>10. WeakOK'
  <2>1. ~ seen_weak_refs => FALSE
    BY <1>0 DEF IInv, WeakOK
  <2> QED BY <1>1, <1>8, <1>9, <2>1 DEF WeakOK
<1> QED BY <1>3, <1>4, <1>5, <1>6, <1>7, <1>10, StepKeeps

LEMMA ClearEraseOK == ASSUME IInv, NEW t \in Thread, ClearErase(t) PROVE IInv'
<1>0. PICK o \in Obj :
        /\ o = old[t] /\ pc[t] \in {"clear_weak", "clear_erase"} /\ mem[o] = "dying"
        /\ slock[stripe[o]] = t /\ weak_table[o] = {} /\ strong[t][Tmp] = NULL
        /\ call[t] \in {"storeStrong"} \cup Copies
  BY ClearKnows DEF ClearErase, Clearing, IInv, ThreadOK, ClearOK
<1>1. /\ TypeOK /\ ThreadOK(t) /\ ~ Updating(t)
      /\ refcnts' = [refcnts EXCEPT ![o] = 0] /\ Release({stripe[o]})
      /\ pc' = [pc EXCEPT ![t] = "free"]
      /\ UNCHANGED <<mem, weak_table, seen_weak_refs, location, storage, strong, locals, budget>>
  BY <1>0 DEF IInv, ClearErase, Goto, Updating
<1>2. /\ refcnts' \in [Obj -> Nat] /\ refcnts'[o] = 0 /\ pc'[t] = "free"
      /\ \A p \in Obj \ {o} : refcnts'[p] = refcnts[p]
  BY <1>1 DEF TypeOK
<1>3. /\ slock' \in [Stripe -> Thread \cup {NULL}]
      /\ \A u \in Thread \ {t}, r \in Stripe : slock[r] = u => slock'[r] = u
  BY <1>0, <1>1, Released
<1>4. KeepsLocals(t) /\ LocalsTyped'
  <2>1. pc' \in [Thread -> Labels] /\ \A u \in Thread \ {t} : pc'[u] = pc[u]
    BY <1>1 DEF TypeOK, Labels
  <2> QED BY <1>1, <2>1 DEF TypeOK, KeepsLocals, LocalsTyped, locals
<1>5. TypeOK'
  BY <1>1, <1>2, <1>3, <1>4 DEF TypeOK, LocalsTyped
<1>6. LeavesOthers(t)
  BY <1>0, <1>1, <1>2, <1>3, <1>4 DEF LeavesOthers, Clearing
<1>7. \A l \in Loc : location[l] # o
  <2> SUFFICES ASSUME NEW l \in Loc, location[l] = o PROVE FALSE
    OBVIOUS
  <2>1. PICK u \in Thread : Updating(u) /\ loc[u] = l
    BY <1>0 DEF IInv, WeakOK
  <2> QED BY <1>0, <1>1, <2>1, UnderLock
<1>8. ThreadOK(t)'
  BY <1>0, <1>1, <1>2, <1>7 DEF ThreadOK, ArgsOK, VariablesOK, LocksOK, UpdateOK, ClearOK,
       Retaining, Releasing, Clearing, Loading, Storing, Copies, Updating, locals
<1>9. ApartOK'
  <2>1. Exclusive(t)' = Exclusive(t)
    BY <1>1 DEF Exclusive, locals
  <2> QED BY <1>0, <1>1, <1>6, <2>1, ApartKept DEF Clearing, locals
<1>10. \A p \in Obj : ObjectOK(p)'
  <2>1. \A p \in Obj : Owners(p)' = Owners(p)
    BY <1>1 DEF Owners
  <2>2. ObjectOK(o)'
    BY <1>0, <1>1, <1>2, <2>1 DEF IInv, ObjectOK
  <2>3. \A p \in Obj \ {o} : ObjectOK(p)'
    BY <1>1, <1>2, <2>1 DEF IInv, ObjectOK
  <2> QED BY <2>2, <2>3
<1>11. WeakOK'
  BY <1>1, <1>6, WeakKept
<1> QED BY <1>5, <1>6, <1>8, <1>9, <1>10, <1>11, StepKeeps

LEMMA FreeOK == ASSUME IInv, NEW t \in Thread, Free(t) PROVE IInv'
<1>0. PICK o \in Obj :
        /\ o = old[t] /\ pc[t] = "free" /\ mem[o] = "dying" /\ strong[t][Tmp] = NULL
        /\ refcnts[o] = 0 /\ weak_table[o] = {} /\ \A l \in Loc : location[l] # o
  BY ClearKnows DEF Free, Clearing, IInv, ThreadOK, ClearOK
<1>1. /\ TypeOK /\ ThreadOK(t) /\ ~ Updating(t)
      /\ mem' = [mem EXCEPT ![o] = "free"] /\ AfterRelease(t)
      /\ UNCHANGED <<refcnts, weak_table, seen_weak_refs, location, storage, slock, strong, budget>>
  BY <1>0 DEF IInv, Free, Updating
<1>2. /\ mem' \in [Obj -> {"free", "live", "dying"}] /\ mem'[o] = "free"
      /\ \A p \in Obj \ {o} : mem'[p] = mem[p]
  BY <1>1 DEF TypeOK
<1>3. Moves(t) /\ ThreadOK(t)' /\ pc'[t] \in {"idle", "store_read"}
  BY <1>0, <1>1, AfterReleaseMoves DEF Clearing
<1>4. TypeOK'
  BY <1>1, <1>2, <1>3 DEF TypeOK, Moves, LocalsTyped
<1>5. LeavesOthers(t)
  BY <1>0, <1>1, <1>2, <1>3 DEF LeavesOthers, Moves, Clearing
<1>6. ApartOK'
  BY <1>3, <1>5, ApartKept DEF Moves, Clearing
<1>7. \A p \in Obj : ObjectOK(p)'
  <2>1. \A p \in Obj : Owners(p)' = Owners(p)
    BY <1>1 DEF Owners
  <2>2. ObjectOK(o)'
    BY <1>0, <1>1, <1>2, <2>1 DEF IInv, ObjectOK
  <2>3. \A p \in Obj \ {o} : ObjectOK(p)'
    BY <1>1, <1>2, <2>1 DEF IInv, ObjectOK
  <2> QED BY <2>2, <2>3
<1>8. \A p \in Obj : mem'[p] = "free" => mem[p] = "free" \/ \A l \in Loc : location[l] # p
  BY <1>0, <1>2
<1>9. WeakOK'
  BY <1>1, <1>5, <1>8, WeakKept
<1> QED BY <1>3, <1>4, <1>5, <1>6, <1>7, <1>9, StepKeeps

-----------------------------------------------------------------------------
LEMMA InitInv == Init => IInv
<1> SUFFICES ASSUME Init PROVE IInv
  OBVIOUS
<1>1. TypeOK
  <2>1. pc \in [Thread -> Labels] /\ call \in [Thread -> Calls]
    BY DEF Init, Labels, Calls
  <2>2. /\ mem \in [Obj -> {"free", "live", "dying"}] /\ refcnts \in [Obj -> Nat]
        /\ weak_table \in [Obj -> SUBSET Loc] /\ seen_weak_refs \in BOOLEAN
        /\ location \in [Loc -> Ptr] /\ slock \in [Stripe -> Thread \cup {NULL}]
    BY DEF Init, Ptr
  <2>3. storage \in [Loc -> BOOLEAN]
    BY DEF Init
  <2>4. strong \in [Thread -> [Slot -> Ptr]]
    BY DEF Init, Ptr
  <2>5. /\ loc \in [Thread -> Loc \cup {NULL}] /\ alt \in [Thread -> Loc \cup {NULL}]
        /\ old \in [Thread -> Ptr] /\ new \in [Thread -> Ptr]
        /\ dst \in [Thread -> Slot] /\ cnt \in [Thread -> Nat] /\ budget \in [Thread -> Nat]
    BY DEF Init, Ptr
  <2> QED BY <2>1, <2>2, <2>3, <2>4, <2>5 DEF TypeOK
<1>2. \A t \in Thread : ThreadOK(t)
  BY DEF Init, ThreadOK, ArgsOK, VariablesOK, LocksOK, UpdateOK, ClearOK,
     Retaining, Releasing, Clearing, Loading, Storing, Copies, Updating
<1>3. ApartOK
  BY DEF Init, ApartOK, Exclusive, Clearing
<1>4. \A o \in Obj : Owners(o) = {}
  BY DEF Init, Owners
<1>5. \A o \in Obj : ObjectOK(o)
  BY <1>4 DEF Init, ObjectOK
<1>6. WeakOK
  BY DEF Init, WeakOK
<1> QED BY <1>1, <1>2, <1>3, <1>5, <1>6 DEF IInv

LEMMA StutterOK == ASSUME IInv, UNCHANGED vars PROVE IInv'
<1>1. UNCHANGED <<mem, refcnts, weak_table, seen_weak_refs, location, storage, slock, strong, pc,
                  call, loc, alt, old, new, dst, cnt, budget>>
  BY DEF vars, heap, locals
<1>2. TypeOK' /\ ApartOK'
  BY <1>1 DEF IInv, TypeOK, ApartOK, Exclusive
<1>3. \A t \in Thread : ThreadOK(t)'
  BY <1>1 DEF IInv, ThreadOK, ArgsOK, VariablesOK, LocksOK, UpdateOK, ClearOK, Held, High, Updating
<1>4. \A o \in Obj : ObjectOK(o)'
  BY <1>1 DEF IInv, ObjectOK, Owners
<1>5. WeakOK'
  BY <1>1 DEF IInv, WeakOK, Updating
<1> QED BY <1>2, <1>3, <1>4, <1>5 DEF IInv

LEMMA NextInv == IInv /\ [Next]_vars => IInv'
<1> SUFFICES ASSUME IInv, [Next]_vars PROVE IInv'
  OBVIOUS
<1>1. ASSUME NEW t \in Thread, Call(t) PROVE IInv'
  BY <1>1, AllocOK, StoreStrongOK, StoreWeakOK, InitWeakOK, DestroyWeakOK, LoadWeakOK,
     CopyWeakOK, MoveWeakOK DEF Call
<1>2. ASSUME NEW t \in Thread, Step(t) PROVE IInv'
  BY <1>2, RetainLockOK, RetainWriteOK, ReleaseLockOK, ReleaseLastOK, ReleaseOneOK,
     StoreReadOK, StoreLock2OK, StoreLock1OK, StoreRetryOK, StoreUnregisterOK,
     StoreRegisterOK, StoreSetOK, LoadReadOK, LoadLockOK, LoadRetryOK, LoadRefusedOK,
     LoadRetainedOK, ClearLockOK, ClearReferrerOK, ClearEraseOK, FreeOK DEF Step
<1>3. CASE UNCHANGED vars
  BY <1>3, StutterOK
<1> QED BY <1>1, <1>2, <1>3 DEF Next, Done

LEMMA Invariance == Spec => []IInv
  BY InitInv, NextInv, PTL DEF Spec

-----------------------------------------------------------------------------
(* What a step does to the atomic weak memory.                                 *)

LEMMA WeakIs ==
  /\ WeakValue = [l \in Loc |->
        IF storage[l] /\ location[l] \in Obj /\ mem[location[l]] = "live" THEN location[l] ELSE NULL]
  /\ WeakValue' = [l \in Loc |->
        IF storage'[l] /\ location'[l] \in Obj /\ mem'[location'[l]] = "live"
          THEN location'[l] ELSE NULL]
  BY DEF WeakValue

LEMMA PointsIsOwned ==
  ASSUME NEW o \in Obj
  PROVE  /\ Memory!Points(strong, o) <=> Owners(o) # {}
         /\ Memory!Points(strong', o) <=> Owners(o)' # {}
<1>1. ASSUME NEW f
      PROVE  (\E t \in Thread, s \in Slot : f[t][s] = o)
                <=> {ts \in Thread \X Slot : f[ts[1]][ts[2]] = o} # {}
  <2>1. ASSUME NEW t \in Thread, NEW s \in Slot, f[t][s] = o
        PROVE  <<t, s>> \in {ts \in Thread \X Slot : f[ts[1]][ts[2]] = o}
    BY <2>1
  <2>2. ASSUME NEW ts \in Thread \X Slot, f[ts[1]][ts[2]] = o
        PROVE  \E t \in Thread, s \in Slot : f[t][s] = o
    BY <2>2
  <2> QED BY <2>1, <2>2
<1> QED BY <1>1 DEF Memory!Points, Owners

\* No strong variable changes, no object begins or ceases to live, and a weak
\* variable changes only from an object that is not alive to nil; its memory, only
\* while it reads as nil.
LEMMA Invisible ==
  ASSUME UNCHANGED strong,
         \A o \in Obj : mem'[o] = "live" <=> mem[o] = "live",
         \A l \in Loc : location'[l] = location[l]
            \/ (location'[l] = NULL /\ location[l] \in Obj /\ mem[location[l]] # "live"),
         \A l \in Loc : storage'[l] = storage[l] \/ location[l] = NULL
  PROVE  UNCHANGED Memory!vars
<1>1. Live' = Live
  BY DEF Live
<1>2. ASSUME NEW l \in Loc
      PROVE  (IF storage'[l] /\ location'[l] \in Obj /\ mem'[location'[l]] = "live"
                THEN location'[l] ELSE NULL)
           = (IF storage[l] /\ location[l] \in Obj /\ mem[location[l]] = "live"
                THEN location[l] ELSE NULL)
  OBVIOUS
<1>3. WeakValue' = WeakValue
  BY <1>2, WeakIs
<1> QED BY <1>1, <1>3 DEF Memory!vars

\* What follows a load gives the destination of a copy memory that reads as nil.
LEMMA AfterLoadInvisible ==
  ASSUME IInv, NEW t \in Thread, NEW p \in Ptr, AfterLoad(t, p), pc[t] \in Loading,
         UNCHANGED <<mem, location>>
  PROVE  /\ \A l \in Loc : storage'[l] = storage[l] \/ location[l] = NULL
         /\ Live' = Live /\ WeakValue' = WeakValue
<1>1. \A l \in Loc : storage'[l] = storage[l] \/ location[l] = NULL
  <2>1. CASE call[t] \in Copies
    <3>1. storage' = [storage EXCEPT ![alt[t]] = TRUE] /\ location[alt[t]] = NULL
      BY <2>1 DEF AfterLoad, Copies, IInv, ThreadOK, VariablesOK, WeakOK
    <3> QED BY <3>1 DEF IInv, TypeOK
  <2>2. CASE call[t] \notin Copies
    BY <2>2 DEF AfterLoad, Copies
  <2> QED BY <2>1, <2>2
<1>2. Live' = Live
  BY DEF Live
<1>3. ASSUME NEW l \in Loc
      PROVE  (IF storage'[l] /\ location'[l] \in Obj /\ mem'[location'[l]] = "live"
                THEN location'[l] ELSE NULL)
           = (IF storage[l] /\ location[l] \in Obj /\ mem[location[l]] = "live"
                THEN location[l] ELSE NULL)
  BY <1>1
<1>4. WeakValue' = WeakValue
  BY <1>3, WeakIs
<1> QED BY <1>1, <1>2, <1>4

\* The calls: an allocation creates an object, objc_storeStrong of nil assigns at
\* once, and no other does anything yet.
LEMMA CallSimulates ==
  ASSUME IInv, NEW t \in Thread, Call(t)
  PROVE  Memory!Next \/ UNCHANGED Memory!vars
<1>1. ASSUME NEW s \in Slot, NEW o \in Obj, Alloc(t, s, o)
      PROVE  Memory!Next
  <2>1. /\ mem[o] = "free" /\ strong[t][s] = NULL /\ mem' = [mem EXCEPT ![o] = "live"]
        /\ strong' = [strong EXCEPT ![t][s] = o] /\ UNCHANGED <<location, storage>>
    BY <1>1 DEF Alloc
  <2>2. mem'[o] = "live" /\ \A p \in Obj \ {o} : mem'[p] = mem[p]
    BY <2>1 DEF IInv, TypeOK
  <2>3. o \notin Live /\ Live' = Live \cup {o}
    BY <2>1, <2>2 DEF Live
  <2>4. \A l \in Loc : location[l] # o
    BY <2>1 DEF IInv, WeakOK
  <2>5. WeakValue' = WeakValue
    BY <2>1, <2>2, <2>4, WeakIs
  <2> QED BY <2>1, <2>3, <2>5 DEF Memory!Next, Memory!Create
<1>2. ASSUME NEW s \in Slot, NEW o \in Ptr, StoreStrong(t, s, o)
      PROVE  Memory!Next \/ UNCHANGED Memory!vars
  <2>1. UNCHANGED <<mem, location, storage>>
    BY <1>2 DEF StoreStrong, heap
  <2>2. CASE o # NULL
    BY <1>2, <2>1, <2>2, Invisible DEF StoreStrong
  <2>3. CASE o = NULL
    <3>1. strong' = Assigned(t, s, NULL) /\ strong[t][Tmp] = NULL
      BY <1>2, <2>3 DEF StoreStrong, Enter, IInv, ThreadOK, ArgsOK, Releasing, Storing
    <3>2. Live' = Live /\ WeakValue' = WeakValue
      BY <2>1 DEF Live, WeakValue
    <3>3. Memory!Assign(t, s, NULL)
      BY <3>1, <3>2 DEF Memory!Assign, Assigned
    <3> QED BY <3>3 DEF Memory!Next
  <2> QED BY <2>2, <2>3
<1>3. ASSUME NEW l \in Loc, NEW o \in Ptr, StoreWeak(t, l, o)
      PROVE  UNCHANGED Memory!vars
  BY <1>3, Invisible DEF StoreWeak
<1>4. ASSUME NEW l \in Loc, NEW o \in Ptr, InitWeak(t, l, o)
      PROVE  UNCHANGED Memory!vars
  <2>1. /\ UNCHANGED <<mem, strong>> /\ ~ storage[l]
        /\ storage' = [storage EXCEPT ![l] = TRUE]
        /\ location' = [location EXCEPT ![l] = NULL]
    BY <1>4 DEF InitWeak
  <2>2. location[l] = NULL /\ storage \in [Loc -> BOOLEAN] /\ location \in [Loc -> Ptr]
    BY <2>1 DEF IInv, WeakOK, TypeOK
  <2>3. location' = location /\ \A m \in Loc \ {l} : storage'[m] = storage[m]
    BY <2>1, <2>2
  <2> QED BY <2>1, <2>2, <2>3, Invisible
<1>5. ASSUME NEW l \in Loc, DestroyWeak(t, l)
      PROVE  UNCHANGED Memory!vars
  BY <1>5, Invisible DEF DestroyWeak
<1>6. ASSUME NEW l \in Loc, NEW s \in Slot, LoadWeak(t, l, s)
      PROVE  UNCHANGED Memory!vars
  BY <1>6, Invisible DEF LoadWeak, heap
<1>7. ASSUME NEW l \in Loc, NEW m \in Loc, CopyWeak(t, l, m) \/ MoveWeak(t, l, m)
      PROVE  UNCHANGED Memory!vars
  BY <1>7, Invisible DEF CopyWeak, MoveWeak, heap
<1> QED BY <1>1, <1>2, <1>3, <1>4, <1>5, <1>6, <1>7 DEF Call

\* A retain ends in the assignment of the retained object.
LEMMA RetainWriteSimulates ==
  ASSUME IInv, NEW t \in Thread, RetainWrite(t)
  PROVE  Memory!Next
<1>1. /\ pc[t] = "retain_write" /\ strong' = Assigned(t, dst[t], new[t])
      /\ UNCHANGED <<mem, location, storage>>
  BY DEF RetainWrite
<1>2. /\ strong[t][Tmp] = NULL /\ dst[t] \in Slot /\ new[t] \in Ptr
      /\ \E r \in Slot : strong[t][r] = new[t]
  BY <1>1 DEF IInv, TypeOK, ThreadOK, ArgsOK, Retaining, Releasing, Storing, Held
<1>3. Live' = Live /\ WeakValue' = WeakValue
  BY <1>1 DEF Live, WeakValue
<1>4. Memory!Assign(t, dst[t], new[t])
  BY <1>1, <1>2, <1>3 DEF Memory!Assign, Assigned
<1> QED BY <1>2, <1>4 DEF Memory!Next, Ptr

\* The step that finds the count at zero is the one in which the object dies and
\* its weak variables become nil.
LEMMA ReleaseLastSimulates ==
  ASSUME IInv, IInv', NEW t \in Thread, ReleaseLast(t)
  PROVE  Memory!Next
<1>0. PICK o \in Obj : o = strong[t][Tmp] /\ mem[o] = "live"
  BY HeldIsLive DEF IInv, ReleaseLast, ThreadOK, ArgsOK, Releasing
<1>1. /\ mem' = [mem EXCEPT ![o] = "dying"] /\ strong' = [strong EXCEPT ![t][Tmp] = NULL]
      /\ UNCHANGED <<location, storage>>
  BY <1>0 DEF ReleaseLast
<1>2. mem'[o] = "dying" /\ \A p \in Obj \ {o} : mem'[p] = mem[p]
  BY <1>1 DEF IInv, TypeOK
<1>3. Live' = Live \ {o}
  BY <1>0, <1>2 DEF Live
<1>4. WeakValue' = [l \in Loc |-> IF WeakValue[l] = o THEN NULL ELSE WeakValue[l]]
  BY <1>0, <1>1, <1>2, WeakIs
<1>5. ~ Memory!Points(strong', o)
  BY <1>2, PointsIsOwned DEF IInv, ObjectOK
<1>6. Memory!Drop(t)
  BY <1>0, <1>1, <1>3, <1>4, <1>5 DEF Memory!Drop, Memory!Owned, Memory!Zeroed
<1> QED BY <1>6 DEF Memory!Next

LEMMA ReleaseOneSimulates ==
  ASSUME IInv, IInv', NEW t \in Thread, ReleaseOne(t)
  PROVE  Memory!Next
<1>0. PICK o \in Obj : o = strong[t][Tmp] /\ mem[o] = "live"
  BY HeldIsLive DEF IInv, ReleaseOne, ThreadOK, ArgsOK, Releasing
<1>1. /\ strong' = [strong EXCEPT ![t][Tmp] = NULL]
      /\ UNCHANGED <<mem, location, storage>>
  BY <1>0 DEF ReleaseOne
<1>2. Live' = Live /\ WeakValue' = WeakValue
  BY <1>1 DEF Live, WeakValue
<1>3. Memory!Points(strong', o)
  BY <1>0, <1>1, PointsIsOwned DEF IInv, ObjectOK
<1>4. Memory!Drop(t)
  BY <1>0, <1>1, <1>2, <1>3 DEF Memory!Drop, Memory!Owned
<1> QED BY <1>4 DEF Memory!Next

LEMMA StoreSetSimulates ==
  ASSUME IInv, NEW t \in Thread, StoreSet(t)
  PROVE  Memory!Next
<1>1. /\ TypeOK /\ ThreadOK(t) /\ pc[t] = "store_set"
      /\ location' = [location EXCEPT ![loc[t]] = new[t]]
      /\ storage' = [storage EXCEPT ![loc[t]] = call[t] # "destroyWeak"]
      /\ UNCHANGED <<mem, strong>>
  BY DEF IInv, StoreSet
<1>2. loc[t] \in Loc /\ (new[t] # NULL => call[t] # "destroyWeak")
  BY <1>1 DEF ThreadOK, ArgsOK, VariablesOK, Storing, Copies
<1>3. new[t] = NULL \/ (new[t] \in Obj /\ mem[new[t]] = "live" /\ \E s \in Slot : strong[t][s] = new[t])
  BY <1>1, HeldIsLive DEF ThreadOK, ArgsOK, Storing, Held
<1>4. /\ location'[loc[t]] = new[t] /\ storage'[loc[t]] = (call[t] # "destroyWeak")
      /\ \A l \in Loc : l # loc[t] => location'[l] = location[l] /\ storage'[l] = storage[l]
  BY <1>1, <1>2 DEF TypeOK
<1>5. Live' = Live
  BY <1>1 DEF Live
<1>6. WeakValue' = [WeakValue EXCEPT ![loc[t]] = new[t]]
  <2>1. ASSUME NEW l \in Loc
        PROVE  WeakValue'[l] = IF l = loc[t] THEN new[t] ELSE WeakValue[l]
    <3>1. CASE l = loc[t]
      BY <1>1, <1>2, <1>3, <1>4, <3>1, WeakIs
    <3>2. CASE l # loc[t]
      BY <1>1, <1>4, <3>2, WeakIs
    <3> QED BY <3>1, <3>2
  <2> QED BY <2>1, WeakIs
<1>7. Memory!StoreWeak(t, loc[t], new[t])
  BY <1>1, <1>3, <1>5, <1>6 DEF Memory!StoreWeak
<1> QED BY <1>2, <1>3, <1>7 DEF Memory!Next

LEMMA LoadRetainedSimulates ==
  ASSUME IInv, NEW t \in Thread, LoadRetained(t)
  PROVE  Memory!Next
<1>1. /\ TypeOK /\ ThreadOK(t) /\ pc[t] = "load_check" /\ ~ Changed(t)
      /\ weak_table[old[t]] # {} /\ ~ Deallocating(old[t])
      /\ strong' = [strong EXCEPT ![t][dst[t]] = old[t]]
      /\ AfterLoad(t, old[t]) /\ location' = Zeroed(t, location) /\ UNCHANGED mem
  BY DEF IInv, LoadRetained
<1>2. /\ old[t] \in Obj /\ mem[old[t]] = "live" /\ strong[t][Tmp] = NULL
      /\ location[loc[t]] = old[t]
  BY <1>1, LoadFinds, RetainableIsLive DEF Changed
<1>3. loc[t] \in Loc /\ storage[loc[t]] /\ strong[t][dst[t]] = NULL /\ dst[t] \in Slot
  BY <1>1, <1>2 DEF TypeOK, ThreadOK, ArgsOK, VariablesOK, Loading, Copies
<1>4. WeakValue[loc[t]] = old[t]
  BY <1>2, <1>3, WeakIs
<1>5. location' = location
  BY <1>1, ZeroedIsSame DEF Loading
<1>6. Live' = Live /\ WeakValue' = WeakValue
  BY <1>1, <1>2, <1>5, AfterLoadInvisible DEF Loading, Ptr
<1>7. Memory!LoadWeak(t, loc[t], dst[t])
  BY <1>1, <1>2, <1>3, <1>4, <1>6 DEF Memory!LoadWeak
<1> QED BY <1>3, <1>7 DEF Memory!Next

\* Every other step of a function is invisible.
LEMMA StepSimulates ==
  ASSUME IInv, IInv', NEW t \in Thread, Step(t)
  PROVE  Memory!Next \/ UNCHANGED Memory!vars
<1>1. CASE RetainLock(t) \/ ReleaseLock(t) \/ StoreRead(t) \/ StoreLock2(t) \/ StoreLock1(t)
           \/ StoreRetry(t) \/ LoadLock(t) \/ LoadRetry(t) \/ ClearLock(t)
  <2>1. UNCHANGED <<heap, strong>>
    BY <1>1 DEF RetainLock, ReleaseLock, StoreRead, StoreLock2, StoreLock1, StoreRetry,
         LoadLock, LoadRetry, ClearLock
  <2> QED BY <2>1, Invisible DEF heap
<1>2. CASE StoreUnregister(t) \/ StoreRegister(t) \/ ClearErase(t)
  <2>1. UNCHANGED <<mem, location, storage, strong>>
    BY <1>2 DEF StoreUnregister, StoreRegister, ClearErase
  <2> QED BY <2>1, Invisible
<1>3. CASE LoadRead(t)
  <2>1. UNCHANGED <<mem, strong>> /\ pc[t] = "load_read"
    BY <1>3 DEF LoadRead
  <2>2. CASE location[loc[t]] = NULL
    <3>1. AfterLoad(t, NULL) /\ location' = location
      BY <1>3, <2>1, <2>2, ZeroedIsSame DEF LoadRead, Loading
    <3> QED BY <2>1, <3>1, AfterLoadInvisible, Invisible DEF Loading, Ptr
  <2>3. CASE location[loc[t]] # NULL
    BY <1>3, <2>1, <2>3, Invisible DEF LoadRead
  <2> QED BY <2>2, <2>3
<1>4. CASE LoadRefused(t)
  <2>1. /\ pc[t] = "load_check" /\ ~ Changed(t) /\ AfterLoad(t, NULL) /\ UNCHANGED <<mem, strong>>
    BY <1>4 DEF LoadRefused
  <2>2. location' = location
    BY <1>4, <2>1, LoadFinds, ZeroedIsSame DEF LoadRefused, Loading
  <2> QED BY <2>1, <2>2, AfterLoadInvisible, Invisible DEF Loading, Ptr
<1>5. CASE ClearReferrer(t)
  <2>1. PICK l \in Loc :
          location' = IF location[l] = old[t] THEN [location EXCEPT ![l] = NULL] ELSE location
    BY <1>5, ClearKnows DEF ClearReferrer, Clearing, IInv, TypeOK
  <2>2. UNCHANGED <<mem, storage, strong>> /\ old[t] \in Obj /\ mem[old[t]] = "dying"
    BY <1>5, ClearKnows DEF ClearReferrer, Clearing
  <2>3. \A m \in Loc : location'[m] = location[m]
            \/ (location'[m] = NULL /\ location[m] \in Obj /\ mem[location[m]] # "live")
    BY <2>1, <2>2 DEF IInv, TypeOK
  <2> QED BY <2>2, <2>3, Invisible
<1>6. CASE Free(t)
  <2>1. /\ mem' = [mem EXCEPT ![old[t]] = "free"] /\ mem[old[t]] = "dying"
        /\ UNCHANGED <<location, storage, strong>>
    BY <1>6, ClearKnows DEF Free, Clearing
  <2>2. \A o \in Obj : mem'[o] = "live" <=> mem[o] = "live"
    BY <2>1 DEF IInv, TypeOK
  <2> QED BY <2>1, <2>2, Invisible
<1> QED BY <1>1, <1>2, <1>3, <1>4, <1>5, <1>6, RetainWriteSimulates, ReleaseLastSimulates,
           ReleaseOneSimulates, StoreSetSimulates, LoadRetainedSimulates DEF Step

LEMMA InitSimulates == Init => Memory!Init
  BY DEF Init, Memory!Init, WeakValue, Live

LEMMA NextSimulates ==
  IInv /\ IInv' /\ [Next]_vars => Memory!Next \/ UNCHANGED Memory!vars
<1>1. UNCHANGED vars => UNCHANGED Memory!vars
  BY DEF vars, heap, Memory!vars, WeakValue, Live
<1> QED BY <1>1, CallSimulates, StepSimulates DEF Next, Done

-----------------------------------------------------------------------------
\* For any threads, objects, weak variables and any hash of addresses to side
\* tables: no weak variable names freed memory, no weak table names a variable that
\* is gone or has an entry for a freed object, and tables and variables name each
\* other, but for the store that is setting a variable.
THEOREM TablesStayConsistent == Spec => []TablesConsistent
<1>1. IInv => TablesConsistent
  <2> SUFFICES ASSUME IInv PROVE TablesConsistent
    OBVIOUS
  <2>1. TypeOK /\ WeakNeverDangles
    BY DEF IInv, WeakOK, WeakNeverDangles
  <2>2. NoStaleReferrer
    BY DEF IInv, WeakOK, ObjectOK, NoStaleReferrer
  <2>3. TablesAgree
    BY DEF IInv, WeakOK, Updating, TablesAgree
  <2> QED BY <2>1, <2>2, <2>3 DEF TablesConsistent
<1> QED BY <1>1, Invariance, PTL

\* Between any two steps an object is alive exactly as long as a strong variable
\* points to it, and its side table's count is the number of those references
\* minus one: no retain or release is lost, and no weak load revives an object.
THEOREM CountsStayExact == Spec => []RefcountExact
<1>1. IInv => RefcountExact
  BY DEF IInv, ObjectOK, RefcountExact
<1> QED BY <1>1, Invariance, PTL

\* A caller that stores only objects it holds never meets the fatal error of
\* weak_register_no_lock: the object it stores is not being deallocated.
THEOREM StoresAreNotFatal == Spec => [](\A t \in Thread : pc[t] # "fatal")
<1>1. IInv => \A t \in Thread : pc[t] # "fatal"
  BY DEF IInv, ThreadOK, ArgsOK
<1> QED BY <1>1, Invariance, PTL

\* Every step of the side tables, with their locks, retries and windows, is one
\* step of the memory in which weak references become nil in the very step that
\* drops the last strong one, or is invisible to it.
THEOREM SideTablesImplementWeakMemory == Spec => ImplementsWeakMemory
<1>1. IInv /\ IInv' /\ [Next]_vars => [Memory!Next]_(Memory!vars)
  BY NextSimulates
<1> QED BY InitSimulates, Invariance, <1>1, PTL DEF Spec, ImplementsWeakMemory, Memory!Spec

-----------------------------------------------------------------------------
(* The memory that is implemented keeps its promises by itself: an object is   *)
(* alive exactly while a strong variable points to it, and no weak variable    *)
(* names a dead one.                                                           *)

AtomicInv == Memory!TypeOK /\ Memory!LiveIffOwned /\ Memory!WeakIsLive

USE SideTableAssumption

LEMMA AtomicInit == Memory!Init => AtomicInv
  BY DEF Memory!Init, AtomicInv, Memory!TypeOK, Memory!LiveIffOwned, Memory!WeakIsLive, Memory!Points

\* Every action but Drop only adds references or moves them.
LEMMA CreateSafe ==
  ASSUME AtomicInv, NEW t \in Thread, NEW s \in Slot, NEW o \in Obj, Memory!Create(t, s, o)
  PROVE  AtomicInv'
<1>1. Memory!TypeOK'
  BY DEF AtomicInv, Memory!TypeOK, Memory!Create
<1>2. Memory!LiveIffOwned'
  BY DEF AtomicInv, Memory!TypeOK, Memory!LiveIffOwned, Memory!Create, Memory!Points
<1>3. Memory!WeakIsLive'
  BY DEF AtomicInv, Memory!TypeOK, Memory!WeakIsLive, Memory!Create
<1> QED BY <1>1, <1>2, <1>3 DEF AtomicInv

\* The assigned variable's old value moves to the temporary, so an object is
\* pointed to afterwards exactly if it was before.
LEMMA AssignSafe ==
  ASSUME AtomicInv, NEW t \in Thread, NEW s \in Slot, NEW o \in Obj \cup {NULL},
         Memory!Assign(t, s, o)
  PROVE  AtomicInv'
<1>1. Memory!TypeOK'
  BY DEF AtomicInv, Memory!TypeOK, Memory!Assign
<1>2. \A u \in Thread, r \in Slot :
         strong'[u][r] = IF u = t /\ r = s THEN o
                         ELSE IF u = t /\ r = Tmp THEN strong[t][s]
                         ELSE strong[u][r]
  BY DEF AtomicInv, Memory!TypeOK, Memory!Assign
<1>3. Memory!LiveIffOwned'
  <2> SUFFICES ASSUME NEW p \in Obj
               PROVE  Memory!Points(strong, p) <=> Memory!Points(strong', p)
    BY DEF AtomicInv, Memory!LiveIffOwned, Memory!Assign
  <2>1. ASSUME Memory!Points(strong, p) PROVE Memory!Points(strong', p)
    <3>1. PICK u \in Thread, r \in Slot : strong[u][r] = p
      BY <2>1 DEF Memory!Points
    <3>2. CASE u = t /\ r = s
      <4>1. CASE s = Tmp
        BY <1>2, <3>1, <3>2, <4>1 DEF Memory!Points, Memory!Assign
      <4>2. CASE s # Tmp
        BY <1>2, <3>1, <3>2, <4>2 DEF Memory!Points
      <4> QED BY <4>1, <4>2
    <3>3. CASE ~ (u = t /\ r = s)
      <4>1. ~ (u = t /\ r = Tmp)
        BY <3>1 DEF Memory!Assign
      <4> QED BY <1>2, <3>1, <3>3, <4>1 DEF Memory!Points
    <3> QED BY <3>2, <3>3
  <2>2. ASSUME Memory!Points(strong', p) PROVE Memory!Points(strong, p)
    <3>1. PICK u \in Thread, r \in Slot : strong'[u][r] = p
      BY <2>2 DEF Memory!Points
    <3>2. CASE u = t /\ r = s
      <4>1. o = p /\ o # NULL
        BY <1>2, <3>1, <3>2
      <4>2. \E q \in Slot : strong[t][q] = o
        BY <4>1 DEF Memory!Assign
      <4> QED BY <4>1, <4>2 DEF Memory!Points
    <3>3. CASE ~ (u = t /\ r = s) /\ u = t /\ r = Tmp
      BY <1>2, <3>1, <3>3 DEF Memory!Points
    <3>4. CASE ~ (u = t /\ r = s) /\ ~ (u = t /\ r = Tmp)
      BY <1>2, <3>1, <3>4 DEF Memory!Points
    <3> QED BY <3>2, <3>3, <3>4
  <2> QED BY <2>1, <2>2
<1>4. Memory!WeakIsLive'
  BY DEF AtomicInv, Memory!WeakIsLive, Memory!Assign
<1> QED BY <1>1, <1>3, <1>4 DEF AtomicInv

LEMMA DropSafe ==
  ASSUME AtomicInv, NEW t \in Thread, Memory!Drop(t)
  PROVE  AtomicInv'
<1> DEFINE o == strong[t][Tmp]
<1>1. o \in Obj
  BY DEF AtomicInv, Memory!TypeOK, Memory!Drop
<1>2. \A u \in Thread, r \in Slot :
         strong'[u][r] = IF u = t /\ r = Tmp THEN NULL ELSE strong[u][r]
  BY DEF AtomicInv, Memory!TypeOK, Memory!Drop
<1>3. \A p \in Obj : p # o => (Memory!Points(strong, p) <=> Memory!Points(strong', p))
  BY <1>1, <1>2 DEF Memory!Points
<1>4. Memory!TypeOK'
  BY DEF AtomicInv, Memory!TypeOK, Memory!Drop, Memory!Zeroed
<1>5. Memory!LiveIffOwned'
  <2>1. o \in Live
    BY <1>1 DEF AtomicInv, Memory!LiveIffOwned, Memory!Points
  <2> QED BY <1>1, <1>3, <2>1 DEF AtomicInv, Memory!TypeOK, Memory!LiveIffOwned, Memory!Drop, Memory!Owned
<1>6. Memory!WeakIsLive'
  BY <1>1 DEF AtomicInv, Memory!TypeOK, Memory!WeakIsLive, Memory!Drop, Memory!Zeroed, Memory!Owned
<1> QED BY <1>4, <1>5, <1>6 DEF AtomicInv

LEMMA StoreWeakSafe ==
  ASSUME AtomicInv, NEW t \in Thread, NEW l \in Loc, NEW o \in Obj \cup {NULL},
         Memory!StoreWeak(t, l, o)
  PROVE  AtomicInv'
<1>1. Memory!TypeOK'
  BY DEF AtomicInv, Memory!TypeOK, Memory!StoreWeak
<1>2. Memory!LiveIffOwned'
  BY DEF AtomicInv, Memory!LiveIffOwned, Memory!StoreWeak
<1>3. o = NULL \/ o \in Live
  BY DEF AtomicInv, Memory!LiveIffOwned, Memory!StoreWeak, Memory!Points
<1>4. Memory!WeakIsLive'
  BY <1>3 DEF AtomicInv, Memory!TypeOK, Memory!WeakIsLive, Memory!StoreWeak
<1> QED BY <1>1, <1>2, <1>4 DEF AtomicInv

LEMMA LoadWeakSafe ==
  ASSUME AtomicInv, NEW t \in Thread, NEW l \in Loc, NEW s \in Slot, Memory!LoadWeak(t, l, s)
  PROVE  AtomicInv'
<1>1. Memory!TypeOK'
  BY DEF AtomicInv, Memory!TypeOK, Memory!LoadWeak
<1>2. WeakValue[l] \in Live
  BY DEF AtomicInv, Memory!WeakIsLive, Memory!LoadWeak
<1>3. Memory!LiveIffOwned'
  BY <1>2 DEF AtomicInv, Memory!TypeOK, Memory!LiveIffOwned, Memory!LoadWeak, Memory!Points
<1>4. Memory!WeakIsLive'
  BY DEF AtomicInv, Memory!WeakIsLive, Memory!LoadWeak
<1> QED BY <1>1, <1>3, <1>4 DEF AtomicInv

LEMMA AtomicNext == AtomicInv /\ [Memory!Next]_(Memory!vars) => AtomicInv'
<1> SUFFICES ASSUME AtomicInv, [Memory!Next]_(Memory!vars) PROVE AtomicInv'
  OBVIOUS
<1>1. CASE UNCHANGED Memory!vars
  BY <1>1 DEF Memory!vars, AtomicInv, Memory!TypeOK, Memory!LiveIffOwned, Memory!WeakIsLive, Memory!Points
<1>2. ASSUME NEW t \in Thread, NEW s \in Slot, NEW o \in Obj, Memory!Create(t, s, o)
      PROVE  AtomicInv'
  BY <1>2, CreateSafe
<1>3. ASSUME NEW t \in Thread, NEW s \in Slot, NEW o \in Obj \cup {NULL}, Memory!Assign(t, s, o)
      PROVE  AtomicInv'
  BY <1>3, AssignSafe
<1>4. ASSUME NEW t \in Thread, Memory!Drop(t) PROVE AtomicInv'
  BY <1>4, DropSafe
<1>5. ASSUME NEW t \in Thread, NEW l \in Loc, NEW o \in Obj \cup {NULL}, Memory!StoreWeak(t, l, o)
      PROVE  AtomicInv'
  BY <1>5, StoreWeakSafe
<1>6. ASSUME NEW t \in Thread, NEW l \in Loc, NEW s \in Slot, Memory!LoadWeak(t, l, s)
      PROVE  AtomicInv'
  BY <1>6, LoadWeakSafe
<1> QED BY <1>1, <1>2, <1>3, <1>4, <1>5, <1>6 DEF Memory!Next

\* What the side tables implement is safe: in every behaviour of the atomic memory,
\* and so in every behaviour of the side tables, the objects that are alive are
\* those with a strong reference, and a weak variable reads nil or as one of them.
THEOREM WeakReferencesAreSafe == Spec => [](Memory!LiveIffOwned /\ Memory!WeakIsLive)
<1>1. AtomicInv => Memory!LiveIffOwned /\ Memory!WeakIsLive
  BY DEF AtomicInv
<1>2. Memory!Spec => []AtomicInv
  BY AtomicInit, AtomicNext, PTL DEF Memory!Spec
<1> QED BY SideTablesImplementWeakMemory, <1>1, <1>2, PTL DEF ImplementsWeakMemory

-----------------------------------------------------------------------------
(* The powers of two.                                                          *)

LEMMA TwoToIs ==
  /\ TwoTo \in [0 .. 30 -> Nat] /\ TwoTo[0] = 1
  /\ \A i \in 1 .. 30 : TwoTo[i] = 2 * TwoTo[i - 1]
<1> DEFINE G == [p \in Nat \X (1 .. 30) |-> 2 * p[1]]
           Eq(f) == f = [i \in 0 .. 30 |-> IF i = 0 THEN 1 ELSE 2 * f[i - 1]]
           H == CHOOSE f : Eq(f)
<1>1. TwoTo = H
  BY Zenon DEF TwoTo
<1>2. G \in [Nat \X (1 .. 30) -> Nat]
  OBVIOUS
<1>3. PICK f \in [0 .. 30 -> Nat] : CountedUp(f, 30, 1, G)
  <2> HIDE DEF G
  <2>1. 30 \in Nat /\ 1 \in Nat
    OBVIOUS
  <2> QED BY <1>2, <2>1, CountedExists
<1>4. ASSUME NEW k \in 0 .. 30 PROVE f[k] = IF k = 0 THEN 1 ELSE 2 * f[k - 1]
  <2>1. f[k] = IF k = 0 THEN 1 ELSE G[<<f[k - 1], k>>]
    BY <1>3 DEF CountedUp
  <2>2. CASE k = 0
    BY <2>1, <2>2
  <2>3. CASE k # 0
    <3>1. k - 1 \in 0 .. 30 /\ k \in 1 .. 30
      BY <2>3
    <3>2. f[k - 1] \in Nat
      BY <3>1
    <3>3. <<f[k - 1], k>> \in Nat \X (1 .. 30)
      BY <3>1, <3>2
    <3>4. G[<<f[k - 1], k>>] = 2 * f[k - 1]
      BY <3>3
    <3> HIDE DEF G
    <3> QED BY <2>1, <2>3, <3>4
  <2> QED BY <2>2, <2>3
<1>5. f = [k \in 0 .. 30 |-> f[k]]
  OBVIOUS
<1> HIDE DEF G
<1>6. Eq(f)
  <2>1. f = [k \in 0 .. 30 |-> IF k = 0 THEN 1 ELSE 2 * f[k - 1]]
    BY <1>4, <1>5, SMTT(30)
  <2> QED BY <2>1
<1>7. Eq(H)
  BY <1>6
<1> HIDE DEF H
<1>8. DOMAIN H = 0 .. 30 /\ H = [i \in 0 .. 30 |-> H[i]] /\ H[0] = 1
      /\ \A i \in 1 .. 30 : H[i] = 2 * H[i - 1]
  <2>1. \A i \in 0 .. 30 : H[i] = IF i = 0 THEN 1 ELSE 2 * H[i - 1]
    BY <1>7
  <2>2. DOMAIN H = 0 .. 30 /\ H = [i \in 0 .. 30 |-> H[i]]
    BY <1>7
  <2>3. \A i \in 1 .. 30 : i \in 0 .. 30 /\ i # 0
    OBVIOUS
  <2> QED BY <2>1, <2>2, <2>3
<1> DEFINE T == {i \in 0 .. 30 : H[i] \in Nat}
<1>9. 0 \in T
  BY <1>8
<1>10. ASSUME NEW i \in 0 .. 30 - 1, i \in T PROVE i + 1 \in T
  <2>1. i + 1 \in 1 .. 30 /\ i + 1 - 1 = i /\ i + 1 \in 0 .. 30
    OBVIOUS
  <2>2. H[i + 1] = 2 * H[i]
    BY <1>8, <2>1
  <2> QED BY <1>10, <2>1, <2>2
<1> HIDE DEF T
<1>11. \A i \in 0 .. 30 : i \in T
  BY <1>9, <1>10, CountsUp
<1>12. H \in [0 .. 30 -> Nat]
  BY <1>8, <1>11 DEF T
<1> QED BY <1>1, <1>8, <1>12

\* They grow, each at least twofold from the one before.
LEMMA PowersGrow ==
  \A j \in 0 .. 30 :
    TwoTo[j] >= 1 /\ \A i \in 0 .. 30 : i < j => 2 * TwoTo[i] <= TwoTo[j]
<1> DEFINE T == {j \in 0 .. 30 :
                  TwoTo[j] >= 1 /\ \A i \in 0 .. 30 : i < j => 2 * TwoTo[i] <= TwoTo[j]}
<1>1. 0 \in T
  BY TwoToIs
<1>2. ASSUME NEW j \in 0 .. 30 - 1, j \in T PROVE j + 1 \in T
  <2>1. j + 1 \in 1 .. 30 /\ j + 1 - 1 = j /\ j \in 0 .. 30
    OBVIOUS
  <2>2. PICK x \in Nat : x = TwoTo[j]
    BY <2>1, TwoToIs
  <2>3. TwoTo[j + 1] = 2 * x /\ x >= 1
    BY <1>2, <2>1, <2>2, TwoToIs
  <2>4. ASSUME NEW i \in 0 .. 30, i < j + 1 PROVE 2 * TwoTo[i] <= TwoTo[j + 1]
    <3>1. PICK y \in Nat : y = TwoTo[i]
      BY TwoToIs
    <3>2. y <= x
      <4>1. i = j \/ i < j
        BY <2>1, <2>4
      <4>2. i < j => 2 * y <= x
        BY <1>2, <2>1, <2>2, <3>1
      <4> QED BY <2>2, <3>1, <4>1, <4>2
    <3> QED BY <2>3, <3>1, <3>2
  <2> QED BY <2>1, <2>3, <2>4
<1> HIDE DEF T
<1>3. \A j \in 0 .. 30 : j \in T
  BY <1>1, <1>2, CountsUp
<1> QED BY <1>3 DEF T

LEMMA PowersPositive == PowersOfTwo \subseteq Nat \ {0}
<1> SUFFICES ASSUME NEW i \in 0 .. 30 PROVE TwoTo[i] \in Nat \ {0}
  BY DEF PowersOfTwo
<1>1. TwoTo[i] \in Nat /\ TwoTo[i] >= 1
  BY TwoToIs, PowersGrow
<1> QED BY <1>1

\* x divides a product of which one factor is odd only if it divides the other.
PassesOdd(x) ==
    /\ x \in Nat \ {0}
    /\ \A a \in Int : \A q \in Int : \A c \in Int :
            a * (2 * q + 1) = x * c => \E d \in Int : a = x * d

LEMMA OddPassed ==
  ASSUME NEW x \in Nat, PassesOdd(x)
  PROVE  PassesOdd(2 * x)
<1>1. x \in Nat \ {0} /\ 2 * x \in Nat \ {0}
  BY DEF PassesOdd
<1>2. ASSUME NEW a \in Int, NEW q \in Int, NEW c \in Int, a * (2 * q + 1) = (2 * x) * c
      PROVE  \E d \in Int : a = (2 * x) * d
  <2>1. a * (2 * q + 1) = x * (2 * c) /\ 2 * c \in Int
    BY <1>1, <1>2
  <2>2. PICK d \in Int : a = x * d
    BY <2>1 DEF PassesOdd
  <2>3. x * (d * (2 * q + 1)) = x * (2 * c)
    <3>1. (x * d) * (2 * q + 1) = x * (d * (2 * q + 1))
      BY <1>1
    <3> QED BY <2>1, <2>2, <3>1
  <2>4. PICK u \in Int : u = d * (2 * q + 1)
    OBVIOUS
  <2>5. PICK v \in Int : v = 2 * c
    OBVIOUS
  <2>6. u = v
    <3>1. x * u = x * v
      BY <2>3, <2>4, <2>5
    <3>2. x * (u - v) = 0
      BY <3>1, <1>1
    <3>3. u - v = 0
      BY <3>2, <1>1
    <3> QED BY <3>3
  <2>7. d = 2 * (c - d * q)
    <3>1. u = 2 * (d * q) + d
      BY <2>4
    <3> QED BY <2>5, <2>6, <3>1
  <2>8. PICK e \in Int : e = c - d * q
    OBVIOUS
  <2>9. d = 2 * e
    BY <2>7, <2>8
  <2>10. a = (2 * x) * e
    BY <1>1, <2>2, <2>9
  <2> QED BY <2>10
<1> QED BY <1>1, <1>2 DEF PassesOdd

LEMMA PowersPassOdd ==
  ASSUME NEW n \in PowersOfTwo
  PROVE  PassesOdd(2 * n)
<1> DEFINE T == {i \in 0 .. 30 : PassesOdd(TwoTo[i])}
<1>1. 0 \in T
  <2>1. PassesOdd(1)
    <3>1. ASSUME NEW a \in Int PROVE \E d \in Int : a = 1 * d
      OBVIOUS
    <3> QED BY <3>1 DEF PassesOdd
  <2> QED BY <2>1, TwoToIs
<1>2. ASSUME NEW i \in 0 .. 30 - 1, i \in T PROVE i + 1 \in T
  <2>1. i + 1 \in 1 .. 30 /\ i + 1 - 1 = i /\ i \in 0 .. 30 /\ i + 1 \in 0 .. 30
    OBVIOUS
  <2>2. TwoTo[i] \in Nat /\ TwoTo[i + 1] = 2 * TwoTo[i] /\ PassesOdd(TwoTo[i])
    BY <1>2, <2>1, TwoToIs
  <2>3. PassesOdd(TwoTo[i + 1])
    BY <2>2, OddPassed
  <2> QED BY <2>1, <2>3
<1> HIDE DEF T
<1>3. \A i \in 0 .. 30 : i \in T
  BY <1>1, <1>2, CountsUp
<1>4. PassesOdd(n) /\ n \in Nat
  BY <1>3, TwoToIs DEF T, PowersOfTwo
<1> QED BY <1>4, OddPassed

-----------------------------------------------------------------------------
(* The way of a search.                                                        *)

\* How far step i of a search is from where it began.
Triangle(i) == (i * (i + 1)) \div 2

LEMMA TriangleIs ==
  ASSUME NEW i \in Nat
  PROVE  Triangle(i) \in Nat /\ 2 * Triangle(i) = i * (i + 1)
<1>1. PICK h \in Nat : i = 2 * h \/ i = 2 * h + 1
  <2>1. i \div 2 \in Nat /\ (i = 2 * (i \div 2) \/ i = 2 * (i \div 2) + 1)
    OBVIOUS
  <2> QED BY <2>1
<1>2. PICK t \in Nat : i * (i + 1) = 2 * t
  <2>1. CASE i = 2 * h
    <3>1. h * (2 * h + 1) \in Nat
      OBVIOUS
    <3>2. i * (i + 1) = 2 * (h * (2 * h + 1))
      BY <2>1
    <3> QED BY <3>1, <3>2
  <2>2. CASE i = 2 * h + 1
    <3>1. (2 * h + 1) * (h + 1) \in Nat
      OBVIOUS
    <3>2. i * (i + 1) = 2 * ((2 * h + 1) * (h + 1))
      BY <2>2
    <3> QED BY <3>1, <3>2
  <2> QED BY <1>1, <2>1, <2>2
<1>3. PICK p \in Nat : p = i * (i + 1)
  BY <1>2
<1>4. p \div 2 = t
  BY <1>2, <1>3
<1> QED BY <1>2, <1>3, <1>4 DEF Triangle

LEMMA NotBetween ==
  ASSUME NEW x \in Nat \ {0}, NEW a \in Int, 0 < a, a < x, NEW d \in Int
  PROVE  a # x * d
<1>1. PICK p \in Int : p = x * d
  OBVIOUS
<1>2. CASE d <= 0
  <2>1. p <= 0
    BY <1>1, <1>2
  <2> QED BY <1>1, <2>1
<1>3. CASE d >= 1
  <2>1. p >= x
    BY <1>1, <1>3
  <2> QED BY <1>1, <2>1
<1> QED BY <1>2, <1>3

LEMMA SameRemainder ==
  ASSUME NEW n \in Nat \ {0}, NEW a \in Nat, NEW c \in Nat, a % n = c % n
  PROVE  \E e \in Int : c - a = n * e
<1>1. /\ a \div n \in Int /\ c \div n \in Int
      /\ a % n = a - (a \div n) * n /\ c % n = c - (c \div n) * n
  BY Z3
<1>2. PICK x \in Int : x = a \div n
  BY <1>1
<1>3. PICK y \in Int : y = c \div n
  BY <1>1
<1>4. a - x * n = c - y * n
  BY <1>1, <1>2, <1>3
<1>5. c - a = n * (y - x)
  BY <1>4
<1> QED BY <1>5

\* Different steps of a search look at different buckets.
LEMMA StepsApart ==
  ASSUME NEW n \in PowersOfTwo, NEW h \in Nat,
         NEW i \in 0 .. n - 1, NEW j \in 0 .. n - 1, i < j
  PROVE  (h + Triangle(i)) % n # (h + Triangle(j)) % n
<1>1. /\ n \in Nat \ {0} /\ i \in Nat /\ j \in Nat /\ j < n
      /\ 2 * n \in Nat \ {0}
  BY PowersPositive
<1> SUFFICES ASSUME (h + Triangle(i)) % n = (h + Triangle(j)) % n PROVE FALSE
  OBVIOUS
<1>2. PICK s \in Nat : s = Triangle(i) /\ 2 * s = i * (i + 1)
  BY <1>1, TriangleIs
<1>3. PICK t \in Nat : t = Triangle(j) /\ 2 * t = j * (j + 1)
  BY <1>1, TriangleIs
<1>4. PICK e \in Int : h + t - (h + s) = n * e
  <2>1. PICK a \in Nat : a = h + s
    OBVIOUS
  <2>2. PICK c \in Nat : c = h + t
    OBVIOUS
  <2>3. a % n = c % n
    BY <1>2, <1>3, <2>1, <2>2
  <2>4. \E e \in Int : c - a = n * e
    BY <1>1, <2>3, SameRemainder
  <2> QED BY <2>1, <2>2, <2>4
<1>5. (j - i) * (i + j + 1) = (2 * n) * e
  <2>1. (j - i) * (i + j + 1) = j * (j + 1) - i * (i + 1)
    BY <1>1
  <2>2. 2 * (t - s) = 2 * (n * e)
    BY <1>1, <1>4
  <2>3. 2 * (n * e) = (2 * n) * e
    BY <1>1
  <2> QED BY <1>1, <1>2, <1>3, <2>1, <2>2, <2>3
<1>6. PassesOdd(2 * n)
  BY PowersPassOdd
<1>7. CASE \E q \in Int : i + j + 1 = 2 * q + 1
  <2>1. PICK q \in Int : i + j + 1 = 2 * q + 1
    BY <1>7
  <2>2. j - i \in Int /\ (j - i) * (2 * q + 1) = (2 * n) * e
    BY <1>1, <1>5, <2>1
  <2>3. PICK d \in Int : j - i = (2 * n) * d
    BY <1>6, <2>2 DEF PassesOdd
  <2>4. 0 < j - i /\ j - i < 2 * n
    BY <1>1
  <2> QED BY <1>1, <2>2, <2>3, <2>4, NotBetween
<1>8. CASE \E q \in Int : j - i = 2 * q + 1
  <2>1. PICK q \in Int : j - i = 2 * q + 1
    BY <1>8
  <2>2. i + j + 1 \in Int /\ (i + j + 1) * (2 * q + 1) = (2 * n) * e
    BY <1>1, <1>5, <2>1
  <2>3. PICK d \in Int : i + j + 1 = (2 * n) * d
    BY <1>6, <2>2 DEF PassesOdd
  <2>4. 0 < i + j + 1 /\ i + j + 1 < 2 * n
    BY <1>1
  <2> QED BY <1>1, <2>2, <2>3, <2>4, NotBetween
<1>9. (\E q \in Int : i + j + 1 = 2 * q + 1) \/ (\E q \in Int : j - i = 2 * q + 1)
  <2>1. PICK q \in Int : j - i = 2 * q \/ j - i = 2 * q + 1
    <3>1. /\ (j - i) \div 2 \in Int
          /\ j - i = 2 * ((j - i) \div 2) \/ j - i = 2 * ((j - i) \div 2) + 1
      BY <1>1
    <3> QED BY <3>1
  <2>2. CASE j - i = 2 * q
    <3>1. i + q \in Int /\ i + j + 1 = 2 * (i + q) + 1
      BY <1>1, <2>2
    <3> QED BY <3>1
  <2> QED BY <2>1, <2>2
<1> QED BY <1>7, <1>8, <1>9

\* Every bucket is on the way of every key.
LEMMA WayIs ==
  ASSUME DenseMapAssumption, NEW n \in PowersOfTwo, NEW k \in Key
  PROVE  /\ \A i \in Nat : Probe(k, n, i) \in 0 .. n - 1
         /\ \A i, j \in 0 .. n - 1 : Probe(k, n, i) = Probe(k, n, j) => i = j
         /\ \A b \in 0 .. n - 1 : \E i \in 0 .. n - 1 : Probe(k, n, i) = b
<1>1. n \in Nat \ {0} /\ Hash[k] \in Nat
  BY PowersPositive DEF DenseMapAssumption
<1>2. \A i : Probe(k, n, i) = (Hash[k] + Triangle(i)) % n
  BY DEF Probe, Triangle
<1>3. ASSUME NEW i \in Nat PROVE Probe(k, n, i) \in 0 .. n - 1
  <2>1. Hash[k] + Triangle(i) \in Nat
    BY <1>1, TriangleIs
  <2>2. (Hash[k] + Triangle(i)) % n \in 0 .. n - 1
    BY <1>1, <2>1
  <2> QED BY <1>2, <2>2
<1>4. ASSUME NEW i \in 0 .. n - 1, NEW j \in 0 .. n - 1, Probe(k, n, i) = Probe(k, n, j)
      PROVE  i = j
  <2>1. i < j \/ j < i \/ i = j
    BY <1>1
  <2>2. ~ (i < j)
    BY <1>1, <1>2, <1>4, StepsApart
  <2>3. ~ (j < i)
    BY <1>1, <1>2, <1>4, StepsApart
  <2> QED BY <2>1, <2>2, <2>3
<1>5. ASSUME NEW b \in 0 .. n - 1 PROVE \E i \in 0 .. n - 1 : Probe(k, n, i) = b
  <2> DEFINE S == 0 .. n - 1
             f == [i \in S |-> Probe(k, n, i)]
  <2>1. f \in [S -> S]
    BY <1>1, <1>3
  <2>2. f \in Injection(S, S)
    <3>1. \A i, j \in S : f[i] = f[j] => i = j
      BY <1>4
    <3> HIDE DEF f, S
    <3> QED BY <2>1, <3>1 DEF Injection, IsInjective
  <2>3. IsFiniteSet(S)
    BY <1>1, FS_Interval
  <2>4. f \in Surjection(S, S)
    <3> HIDE DEF f, S
    <3> QED BY <2>2, <2>3, FS_Injection
  <2>5. PICK i \in S : f[i] = b
    <3> HIDE DEF f
    <3> QED BY <2>4 DEF Surjection
  <2> QED BY <2>5
<1> QED BY <1>3, <1>4, <1>5

-----------------------------------------------------------------------------
(* The array of buckets.                                                       *)

\* b is on the way of k, and no search for k ends before it for want of entries.
OnWay(bs, n, k, b) ==
    \E i \in 0 .. n - 1 :
        /\ Probe(k, n, i) = b
        /\ \A j \in 0 .. i - 1 : bs[Probe(k, n, j)].first # EmptyKey

\* Every entry can be found, and there is one of each key.
Placed(bs, n) ==
    /\ bs \in [0 .. n - 1 -> Bucket]
    /\ \A b \in 0 .. n - 1 : bs[b].first \in Key => OnWay(bs, n, bs[b].first, b)
    /\ \A b, c \in 0 .. n - 1 : bs[b].first \in Key /\ bs[c].first = bs[b].first => b = c

HasEmpty(bs, n) == \E b \in 0 .. n - 1 : bs[b].first = EmptyKey

Absent(bs, n, k) == \A c \in 0 .. n - 1 : bs[c].first # k

\* What LookupBucketFor answers: the bucket of k, or one that k may have.
FoundAt(bs, n, k, b) ==
    /\ b \in 0 .. n - 1
    /\ OnWay(bs, n, k, b)
    /\ \/ bs[b].first = k
       \/ /\ Absent(bs, n, k)
          /\ bs[b].first \in {EmptyKey, TombstoneKey} \/ Purgeable(bs[b])

LEMMA LookupIs ==
  ASSUME DenseMapAssumption, NEW n \in PowersOfTwo, NEW k \in Key, NEW bs,
         Placed(bs, n), HasEmpty(bs, n)
  PROVE  FoundAt(bs, n, k, LookupBucketFor(bs, n, k))
<1> DEFINE at(i) == bs[Probe(k, n, i)]
           ends(i) == at(i).first \in {k, EmptyKey}
           reusable(i) == at(i).first = TombstoneKey \/ Purgeable(at(i))
           EqS(f) == f = [i \in 0 .. n |-> IF i = n \/ ends(i) THEN i ELSE f[i + 1]]
           stop == CHOOSE f : EqS(f)
           end == stop[0]
           EqF(f) == f = [i \in 0 .. end |-> IF i = end \/ reusable(i) THEN i ELSE f[i + 1]]
           free == CHOOSE f : EqF(f)
<1>1. LookupBucketFor(bs, n, k) =
        IF end = n THEN Fatal
        ELSE Probe(k, n, IF at(end).first = k THEN end ELSE free[0])
  BY Zenon DEF LookupBucketFor
<1>2. n \in Nat \ {0} /\ n \in Nat
  BY PowersPositive
<1> HIDE DEF ends, at, reusable
<1>3. /\ end \in 0 .. n /\ (end = n \/ ends(end))
      /\ \A j \in 0 .. n - 1 : ends(j) => end <= j
  <2> DEFINE P == {i \in 0 .. n : i = n \/ ends(i)}
             EqP(f) == f = [i \in 0 .. n |-> IF i \in P THEN i ELSE f[i + 1]]
  <2>1. P \in SUBSET (0 .. n) /\ n \in P
    BY <1>2
  <2>2. \A f : EqP(f) <=> EqS(f)
    BY \A i \in 0 .. n : i \in P <=> i = n \/ ends(i)
  <2>3. PICK f : EqP(f)
    <3> HIDE DEF P
    <3> QED BY <1>2, <2>1, SearchExists
  <2>4. EqS(f)
    BY <2>2, <2>3
  <2> HIDE DEF EqS
  <2>5. EqS(stop)
    BY <2>4
  <2> HIDE DEF stop
  <2>6. EqP(stop)
    BY <2>2, <2>5
  <2>7. stop[0] \in P /\ \A j \in P : stop[0] <= j
    <3> HIDE DEF P
    <3> QED BY <1>2, <2>1, <2>6, SearchIs
  <2>8. ASSUME NEW j \in 0 .. n - 1, ends(j) PROVE j \in P
    BY <1>2, <2>8
  <2> QED BY <2>7, <2>8
<1> HIDE DEF stop
<1>4. PICK e : e = end
  OBVIOUS
<1>5. e \in 0 .. n - 1 /\ ends(e) /\ \A j \in 0 .. e - 1 : ~ ends(j)
  <2>1. PICK b \in 0 .. n - 1 : bs[b].first = EmptyKey
    BY DEF HasEmpty
  <2>2. PICK i \in 0 .. n - 1 : Probe(k, n, i) = b
    BY WayIs
  <2>3. ends(i)
    BY <2>1, <2>2 DEF ends, at
  <2>4. e <= i /\ e \in 0 .. n
    BY <1>3, <1>4, <2>3
  <2>5. e \in 0 .. n - 1 /\ e # n
    BY <1>2, <2>4
  <2>6. ASSUME NEW j \in 0 .. e - 1 PROVE ~ ends(j)
    <3>1. j \in 0 .. n - 1 /\ j < e
      BY <1>2, <2>5
    <3>2. ends(j) => e <= j
      BY <1>3, <1>4, <3>1
    <3> QED BY <2>5, <3>1, <3>2
  <2> QED BY <1>3, <1>4, <2>5, <2>6
<1>6. free[0] \in 0 .. e /\ (free[0] = e \/ reusable(free[0]))
  <2> DEFINE P == {i \in 0 .. e : i = e \/ reusable(i)}
             EqP(f) == f = [i \in 0 .. e |-> IF i \in P THEN i ELSE f[i + 1]]
  <2>1. P \in SUBSET (0 .. e) /\ e \in P /\ e \in Nat
    BY <1>5
  <2>2. \A f : EqP(f) <=> EqF(f)
    BY <1>4, \A i \in 0 .. e : i \in P <=> i = e \/ reusable(i)
  <2>3. PICK f : EqP(f)
    <3> HIDE DEF P
    <3> QED BY <2>1, SearchExists
  <2>4. EqF(f)
    BY <2>2, <2>3
  <2> HIDE DEF EqF
  <2>5. EqF(free)
    BY <2>4
  <2> HIDE DEF free
  <2>6. EqP(free)
    BY <2>2, <2>5
  <2>7. free[0] \in P
    <3> HIDE DEF P
    <3> QED BY <2>1, <2>6, SearchIs
  <2> QED BY <2>7
<1> HIDE DEF free
<1>7. PICK g : g = free[0]
  OBVIOUS
<1>8. g \in 0 .. e /\ (g = e \/ reusable(g))
  BY <1>6, <1>7
<1>9. LookupBucketFor(bs, n, k) = Probe(k, n, IF at(e).first = k THEN e ELSE g)
  <2>1. e # n
    BY <1>2, <1>5
  <2> QED BY <1>1, <1>4, <1>7, <2>1
<1>10. ASSUME NEW i \in 0 .. e
       PROVE  Probe(k, n, i) \in 0 .. n - 1 /\ OnWay(bs, n, k, Probe(k, n, i))
  <2>1. i \in 0 .. n - 1 /\ i \in Nat
    BY <1>2, <1>5
  <2>2. ASSUME NEW j \in 0 .. i - 1 PROVE bs[Probe(k, n, j)].first # EmptyKey
    <3>1. j \in 0 .. e - 1
      BY <1>5
    <3> QED BY <1>5, <3>1 DEF ends, at
  <2> QED BY <2>1, <2>2, WayIs DEF OnWay
<1>11. CASE at(e).first = k
  <2>1. LookupBucketFor(bs, n, k) = Probe(k, n, e) /\ bs[Probe(k, n, e)].first = k
    BY <1>9, <1>11 DEF at
  <2>2. e \in 0 .. e
    BY <1>5
  <2> QED BY <1>10, <2>1, <2>2 DEF FoundAt
<1>12. CASE at(e).first # k
  <2>1. LookupBucketFor(bs, n, k) = Probe(k, n, g)
    BY <1>9, <1>12
  <2>2. bs[Probe(k, n, e)].first = EmptyKey
    BY <1>5, <1>12 DEF ends, at
  <2>3. bs[Probe(k, n, g)].first \in {EmptyKey, TombstoneKey} \/ Purgeable(bs[Probe(k, n, g)])
    BY <1>8, <2>2 DEF reusable, at
  <2>4. ASSUME NEW c \in 0 .. n - 1, bs[c].first = k PROVE FALSE
    <3>1. OnWay(bs, n, k, c)
      BY <2>4 DEF Placed
    <3>2. PICK i \in 0 .. n - 1 :
            /\ Probe(k, n, i) = c
            /\ \A j \in 0 .. i - 1 : bs[Probe(k, n, j)].first # EmptyKey
      BY <3>1 DEF OnWay
    <3>3. ~ (e \in 0 .. i - 1)
      BY <2>2, <3>2
    <3>4. i \in 0 .. e - 1 \/ i = e
      BY <1>2, <1>5, <3>3
    <3>5. at(i).first = k
      BY <2>4, <3>2 DEF at
    <3>6. ends(i)
      BY <3>5 DEF ends
    <3> QED BY <1>5, <1>12, <3>4, <3>5, <3>6
  <2>5. Absent(bs, n, k)
    BY <2>4 DEF Absent
  <2> QED BY <1>8, <1>10, <2>1, <2>3, <2>5 DEF FoundAt
<1> QED BY <1>11, <1>12

\* A bucket may be written with an entry that is on the way of its key and has no
\* other bucket, or with a tombstone: no search ends earlier for it.
LEMMA PlacedWrite ==
  ASSUME DenseMapAssumption, NEW n \in PowersOfTwo, NEW bs, Placed(bs, n),
         NEW b \in 0 .. n - 1, NEW e \in Bucket, e.first # EmptyKey,
         e.first \in Key => /\ OnWay(bs, n, e.first, b)
                            /\ \A c \in 0 .. n - 1 : c # b => bs[c].first # e.first
  PROVE  Placed([bs EXCEPT ![b] = e], n)
<1> DEFINE B == 0 .. n - 1
<1>1. n \in Nat \ {0} /\ bs \in [B -> Bucket]
  BY PowersPositive DEF Placed
<1>2. PICK as : as = [bs EXCEPT ![b] = e]
  OBVIOUS
<1>3. /\ as \in [B -> Bucket] /\ as[b] = e
      /\ \A c \in B : c # b => as[c] = bs[c]
  BY <1>1, <1>2
<1>4. ASSUME NEW k \in Key, NEW c \in B, OnWay(bs, n, k, c)
      PROVE  OnWay(as, n, k, c)
  <2>1. PICK i \in B : /\ Probe(k, n, i) = c
                       /\ \A j \in 0 .. i - 1 : bs[Probe(k, n, j)].first # EmptyKey
    BY <1>4 DEF OnWay
  <2>2. ASSUME NEW j \in 0 .. i - 1 PROVE as[Probe(k, n, j)].first # EmptyKey
    <3>1. j \in Nat
      BY <1>1
    <3>2. Probe(k, n, j) \in B
      BY <3>1, WayIs
    <3> QED BY <1>3, <2>1, <3>2
  <2> QED BY <2>1, <2>2 DEF OnWay
<1> HIDE DEF B
<1>5. ASSUME NEW c \in B, as[c].first \in Key PROVE OnWay(as, n, as[c].first, c)
  <2>1. OnWay(bs, n, as[c].first, c)
    BY <1>3, <1>5 DEF Placed, B
  <2> QED BY <1>4, <1>5, <2>1
<1>6. ASSUME NEW c \in B, NEW d \in B, as[c].first \in Key, as[d].first = as[c].first
      PROVE  c = d
  <2>1. CASE c # b /\ d # b
    BY <1>3, <1>6, <2>1 DEF Placed, B
  <2>2. CASE c = b /\ d # b
    BY <1>3, <1>6, <2>2 DEF B
  <2>3. CASE c # b /\ d = b
    BY <1>3, <1>6, <2>3 DEF B
  <2> QED BY <2>1, <2>2, <2>3
<1>7. Placed(as, n)
  BY <1>3, <1>5, <1>6 DEF Placed, B
<1> QED BY <1>2, <1>7

-----------------------------------------------------------------------------
(* The counters.                                                               *)

Tombstones(bs) == {b \in DOMAIN bs : bs[b].first = TombstoneKey}

Written(as, bs, b, e) == as = [bs EXCEPT ![b] = e]

\* The counters after a write of e in bucket b.
Recounted(E, T, bs, b, e) ==
    /\ E = Cardinality(Occupied(bs)) - (IF bs[b].first \in Key THEN 1 ELSE 0)
                                     + (IF e.first \in Key THEN 1 ELSE 0)
    /\ T = Cardinality(Tombstones(bs)) - (IF bs[b].first = TombstoneKey THEN 1 ELSE 0)
                                       + (IF e.first = TombstoneKey THEN 1 ELSE 0)

\* Counts of both kinds of buckets, and what a write of e in bucket b does to them.
LEMMA CountsWrite ==
  ASSUME DenseMapAssumption, NEW n \in Nat, NEW bs \in [0 .. n - 1 -> Bucket],
         NEW b \in 0 .. n - 1, NEW e \in Bucket, NEW as, Written(as, bs, b, e)
  PROVE  /\ Cardinality(Occupied(bs)) \in Nat /\ Cardinality(Tombstones(bs)) \in Nat
         /\ Recounted(Cardinality(Occupied(as)), Cardinality(Tombstones(as)), bs, b, e)
<1> DEFINE B == 0 .. n - 1
<1>1. /\ as \in [B -> Bucket] /\ as[b] = e /\ DOMAIN as = B /\ DOMAIN bs = B
      /\ \A c \in B : c # b => as[c] = bs[c]
  BY DEF Written
<1>2. IsFiniteSet(B)
  BY FS_Interval
<1> HIDE DEF B
<1>3. PICK O : O = Occupied(bs)
  OBVIOUS
<1>4. PICK T : T = Tombstones(bs)
  OBVIOUS
<1>5. /\ O \subseteq B /\ T \subseteq B /\ (b \in O <=> bs[b].first \in Key)
      /\ (b \in T <=> bs[b].first = TombstoneKey)
  BY <1>1, <1>3, <1>4 DEF Occupied, Tombstones, B
<1>6. /\ IsFiniteSet(O) /\ Cardinality(O) \in Nat
      /\ IsFiniteSet(T) /\ Cardinality(T) \in Nat
  BY <1>2, <1>5, FS_Subset, FS_CardinalityType
<1>7. /\ Occupied(as) = IF e.first \in Key THEN O \cup {b} ELSE O \ {b}
      /\ Tombstones(as) = IF e.first = TombstoneKey THEN T \cup {b} ELSE T \ {b}
  <2>1. b \in B
    BY DEF B
  <2>2. Occupied(as) = {c \in B : as[c].first \in Key} /\ O = {c \in B : bs[c].first \in Key}
    BY <1>1, <1>3 DEF Occupied
  <2>3. /\ Tombstones(as) = {c \in B : as[c].first = TombstoneKey}
        /\ T = {c \in B : bs[c].first = TombstoneKey}
    BY <1>1, <1>4 DEF Tombstones
  <2>4. as[b].first = e.first /\ \A c \in B : c # b => as[c].first = bs[c].first
    BY <1>1
  <2>5. Occupied(as) = IF e.first \in Key THEN O \cup {b} ELSE O \ {b}
    <3>1. ASSUME NEW c PROVE c \in Occupied(as) <=>
                    c \in (IF e.first \in Key THEN O \cup {b} ELSE O \ {b})
      <4>1. CASE c = b
        BY <4>1, <2>1, <2>2, <2>4
      <4>2. CASE c # b
        BY <4>2, <2>2, <2>4
      <4> QED BY <4>1, <4>2
    <3> QED BY <3>1
  <2>6. Tombstones(as) = IF e.first = TombstoneKey THEN T \cup {b} ELSE T \ {b}
    <3>1. ASSUME NEW c PROVE c \in Tombstones(as) <=>
                    c \in (IF e.first = TombstoneKey THEN T \cup {b} ELSE T \ {b})
      <4>1. CASE c = b
        BY <4>1, <2>1, <2>3, <2>4
      <4>2. CASE c # b
        BY <4>2, <2>3, <2>4
      <4> QED BY <4>1, <4>2
    <3> QED BY <3>1
  <2> QED BY <2>5, <2>6
<1>8. Cardinality(Occupied(as)) =
        Cardinality(O) - (IF b \in O THEN 1 ELSE 0) + (IF e.first \in Key THEN 1 ELSE 0)
  <2>1. CASE e.first \in Key
    <3>1. Cardinality(O \cup {b}) = IF b \in O THEN Cardinality(O) ELSE Cardinality(O) + 1
      BY <1>6, FS_AddElement
    <3>2. Occupied(as) = O \cup {b}
      BY <1>7, <2>1
    <3>3. PICK x \in Nat : x = Cardinality(O)
      BY <1>6
    <3>4. Cardinality(Occupied(as)) = IF b \in O THEN x ELSE x + 1
      BY <3>1, <3>2, <3>3
    <3>5. Cardinality(Occupied(as)) = x - (IF b \in O THEN 1 ELSE 0) + 1
      BY <3>4
    <3> QED BY <2>1, <3>3, <3>5
  <2>2. CASE e.first \notin Key
    <3>1. Cardinality(O \ {b}) = IF b \in O THEN Cardinality(O) - 1 ELSE Cardinality(O)
      BY <1>6, FS_RemoveElement
    <3>2. Occupied(as) = O \ {b}
      BY <1>7, <2>2
    <3>3. PICK x \in Nat : x = Cardinality(O)
      BY <1>6
    <3>4. Cardinality(Occupied(as)) = IF b \in O THEN x - 1 ELSE x
      BY <3>1, <3>2, <3>3
    <3>5. Cardinality(Occupied(as)) = x - (IF b \in O THEN 1 ELSE 0) + 0
      BY <3>4
    <3> QED BY <2>2, <3>3, <3>5
  <2> QED BY <2>1, <2>2
<1>9. Cardinality(Tombstones(as)) =
        Cardinality(T) - (IF b \in T THEN 1 ELSE 0) + (IF e.first = TombstoneKey THEN 1 ELSE 0)
  <2>1. CASE e.first = TombstoneKey
    <3>1. Cardinality(T \cup {b}) = IF b \in T THEN Cardinality(T) ELSE Cardinality(T) + 1
      BY <1>6, FS_AddElement
    <3>2. Tombstones(as) = T \cup {b}
      BY <1>7, <2>1
    <3>3. PICK x \in Nat : x = Cardinality(T)
      BY <1>6
    <3>4. Cardinality(Tombstones(as)) = IF b \in T THEN x ELSE x + 1
      BY <3>1, <3>2, <3>3
    <3>5. Cardinality(Tombstones(as)) = x - (IF b \in T THEN 1 ELSE 0) + 1
      BY <3>4
    <3> QED BY <2>1, <3>3, <3>5
  <2>2. CASE e.first # TombstoneKey
    <3>1. Cardinality(T \ {b}) = IF b \in T THEN Cardinality(T) - 1 ELSE Cardinality(T)
      BY <1>6, FS_RemoveElement
    <3>2. Tombstones(as) = T \ {b}
      BY <1>7, <2>2
    <3>3. PICK x \in Nat : x = Cardinality(T)
      BY <1>6
    <3>4. Cardinality(Tombstones(as)) = IF b \in T THEN x - 1 ELSE x
      BY <3>1, <3>2, <3>3
    <3>5. Cardinality(Tombstones(as)) = x - (IF b \in T THEN 1 ELSE 0) + 0
      BY <3>4
    <3> QED BY <2>2, <3>3, <3>5
  <2> QED BY <2>1, <2>2
<1> QED BY <1>3, <1>4, <1>5, <1>6, <1>8, <1>9 DEF Recounted

\* Their sum is at most the number of buckets; while it is smaller one is empty.
LEMMA EmptyLeft ==
  ASSUME DenseMapAssumption, NEW n \in Nat, NEW bs \in [0 .. n - 1 -> Bucket]
  PROVE  /\ Cardinality(Occupied(bs)) \in Nat /\ Cardinality(Tombstones(bs)) \in Nat
         /\ Cardinality(Occupied(bs)) + Cardinality(Tombstones(bs)) < n => HasEmpty(bs, n)
<1> DEFINE B == 0 .. n - 1
<1>1. IsFiniteSet(B) /\ Cardinality(B) = n
  <2>1. PICK c \in Int : c = n - 1
    OBVIOUS
  <2>2. 0 \in Int /\ B = 0 .. c
    BY <2>1 DEF B
  <2>3. IsFiniteSet(0 .. c) /\ Cardinality(0 .. c) = IF 0 > c THEN 0 ELSE c - 0 + 1
    BY <2>2, FS_Interval, Zenon
  <2>4. PICK x : x = Cardinality(0 .. c)
    OBVIOUS
  <2>5. x = n
    <3>1. x = IF 0 > c THEN 0 ELSE c - 0 + 1
      BY <2>3, <2>4, Zenon
    <3> QED BY <2>1, <3>1
  <2> QED BY <2>2, <2>3, <2>4, <2>5
<1>2. PICK O : O = Occupied(bs)
  OBVIOUS
<1>3. PICK T : T = Tombstones(bs)
  OBVIOUS
<1>4. O \subseteq B /\ T \subseteq B
  BY <1>2, <1>3 DEF Occupied, Tombstones
<1> HIDE DEF B
<1>5. /\ IsFiniteSet(O) /\ Cardinality(O) \in Nat
      /\ IsFiniteSet(T) /\ Cardinality(T) \in Nat
  BY <1>1, <1>4, FS_Subset, FS_CardinalityType
<1>6. ASSUME ~ HasEmpty(bs, n) PROVE Cardinality(O) + Cardinality(T) >= n
  <2>1. ASSUME NEW b \in B PROVE b \in O \cup T
    <3>1. bs[b] \in Bucket /\ bs[b].first # EmptyKey /\ b \in DOMAIN bs
      BY <1>6 DEF HasEmpty, B
    <3>2. bs[b].first \in Key \cup {EmptyKey, TombstoneKey}
      BY <3>1 DEF Bucket
    <3> QED BY <1>2, <1>3, <3>1, <3>2 DEF Occupied, Tombstones
  <2>2. O \cup T = B
    BY <1>4, <2>1
  <2>3. /\ Cardinality(O \cup T) = Cardinality(O) + Cardinality(T) - Cardinality(O \cap T)
        /\ Cardinality(O \cap T) \in Nat
    <3>1. IsFiniteSet(O \cap T)
      BY <1>5, FS_Intersection
    <3> QED BY <1>5, <3>1, FS_Union, FS_CardinalityType
  <2>4. PICK x \in Nat : x = Cardinality(O)
    BY <1>5
  <2>5. PICK y \in Nat : y = Cardinality(T)
    BY <1>5
  <2>6. PICK z \in Nat : z = Cardinality(O \cap T)
    BY <2>3
  <2>7. Cardinality(O \cup T) = n
    BY <1>1, <2>2
  <2>8. n = x + y - z
    BY <2>3, <2>4, <2>5, <2>6, <2>7
  <2>9. x + y >= n
    BY <2>8
  <2> QED BY <2>4, <2>5, <2>9
<1>7. PICK x \in Nat : x = Cardinality(O)
  BY <1>5
<1>8. PICK y \in Nat : y = Cardinality(T)
  BY <1>5
<1>9. x + y < n => HasEmpty(bs, n)
  BY <1>6, <1>7, <1>8
<1> QED BY <1>2, <1>3, <1>7, <1>8, <1>9

-----------------------------------------------------------------------------
(* The values.                                                                 *)

\* The buckets hold st: the value of every key whose value is not zero.
HoldsAll(bs, n, st) ==
    \A k \in Key : \/ \E c \in 0 .. n - 1 : bs[c].first = k /\ bs[c].second = st[k]
                   \/ st[k] = 0 /\ Absent(bs, n, k)

LEMMA HeldIs ==
  ASSUME NEW n \in Nat, NEW bs, Placed(bs, n), NEW st, HoldsAll(bs, n, st),
         NEW b \in 0 .. n - 1, bs[b].first \in Key
  PROVE  bs[b].second = st[bs[b].first]
<1>1. ~ Absent(bs, n, bs[b].first)
  BY DEF Absent
<1>2. PICK c \in 0 .. n - 1 : bs[c].first = bs[b].first /\ bs[c].second = st[bs[b].first]
  BY <1>1 DEF HoldsAll
<1>3. b = c
  BY <1>2 DEF Placed
<1> QED BY <1>2, <1>3

LEMMA HeldStored ==
  ASSUME DenseMapAssumption, NEW n \in Nat, NEW bs, Placed(bs, n),
         NEW st \in [Key -> Value], HoldsAll(bs, n, st), NEW k \in Key, NEW b,
         FoundAt(bs, n, k, b), NEW v
  PROVE  HoldsAll([bs EXCEPT ![b] = [first |-> k, second |-> v]], n, [st EXCEPT ![k] = v])
<1> DEFINE B == 0 .. n - 1
<1>1. PICK as : as = [bs EXCEPT ![b] = [first |-> k, second |-> v]]
  OBVIOUS
<1>2. PICK rt : rt = [st EXCEPT ![k] = v]
  OBVIOUS
<1>3. /\ b \in B /\ as[b].first = k /\ as[b].second = v
      /\ \A c \in B : c # b => as[c] = bs[c]
      /\ rt[k] = v /\ \A l \in Key : l # k => rt[l] = st[l]
  BY <1>1, <1>2 DEF Placed, FoundAt
<1> HIDE DEF B
<1>4. ASSUME NEW l \in Key
      PROVE  \/ \E c \in B : as[c].first = l /\ as[c].second = rt[l]
             \/ rt[l] = 0 /\ Absent(as, n, l)
  <2>1. CASE l = k
    BY <1>3, <2>1
  <2>2. CASE l # k /\ bs[b].first = l
    <3>1. Purgeable(bs[b]) /\ bs[b].second = 0
      BY <2>2 DEF FoundAt, Purgeable, DenseMapAssumption
    <3>2. bs[b].second = st[l]
      BY <1>3, <2>2, HeldIs DEF B
    <3>3. ASSUME NEW c \in B PROVE as[c].first # l
      <4>1. CASE c = b
        BY <1>3, <2>2, <4>1
      <4>2. CASE c # b
        <5>1. as[c] = bs[c]
          BY <1>3, <4>2
        <5>2. bs[c].first # bs[b].first
          BY <1>3, <2>2, <4>2 DEF Placed, B
        <5> QED BY <2>2, <5>1, <5>2
      <4> QED BY <4>1, <4>2
    <3> QED BY <1>3, <2>2, <3>1, <3>2, <3>3 DEF Absent, B
  <2>3. CASE l # k /\ bs[b].first # l
    <3>1. CASE \E c \in B : bs[c].first = l /\ bs[c].second = st[l]
      <4>1. PICK c \in B : bs[c].first = l /\ bs[c].second = st[l]
        BY <3>1
      <4>2. as[c] = bs[c]
        BY <1>3, <2>3, <4>1
      <4> QED BY <1>3, <2>3, <4>1, <4>2
    <3>2. CASE st[l] = 0 /\ Absent(bs, n, l)
      <4>1. ASSUME NEW c \in B PROVE as[c].first # l
        BY <1>3, <2>3, <3>2 DEF Absent, B
      <4> QED BY <1>3, <2>3, <3>2, <4>1 DEF Absent, B
    <3> QED BY <3>1, <3>2 DEF HoldsAll, B
  <2> QED BY <2>1, <2>2, <2>3
<1>5. HoldsAll(as, n, rt)
  BY <1>4 DEF HoldsAll, B
<1> QED BY <1>1, <1>2, <1>5

LEMMA HeldErased ==
  ASSUME DenseMapAssumption, NEW n \in Nat, NEW bs, Placed(bs, n),
         NEW st \in [Key -> Value], HoldsAll(bs, n, st), NEW k \in Key,
         NEW b \in 0 .. n - 1, bs[b].first = k
  PROVE  HoldsAll([bs EXCEPT ![b] = [first |-> TombstoneKey, second |-> 0]], n,
              [st EXCEPT ![k] = 0])
<1> DEFINE B == 0 .. n - 1
<1>1. PICK as : as = [bs EXCEPT ![b] = [first |-> TombstoneKey, second |-> 0]]
  OBVIOUS
<1>2. PICK rt : rt = [st EXCEPT ![k] = 0]
  OBVIOUS
<1>3. /\ b \in B /\ as[b].first = TombstoneKey
      /\ \A c \in B : c # b => as[c] = bs[c]
      /\ rt[k] = 0 /\ \A l \in Key : l # k => rt[l] = st[l]
  BY <1>1, <1>2 DEF Placed
<1>a. \A c \in B : c # b => bs[c].first # k
  BY DEF Placed
<1>b. TombstoneKey \notin Key
  BY DEF DenseMapAssumption
<1> HIDE DEF B
<1>4. ASSUME NEW l \in Key
      PROVE  \/ \E c \in B : as[c].first = l /\ as[c].second = rt[l]
             \/ rt[l] = 0 /\ Absent(as, n, l)
  <2>1. CASE l = k
    <3>1. ASSUME NEW c \in B PROVE as[c].first # l
      BY <1>3, <1>a, <1>b, <2>1
    <3> QED BY <1>3, <2>1, <3>1 DEF Absent, B
  <2>2. CASE l # k
    <3>1. CASE \E c \in B : bs[c].first = l /\ bs[c].second = st[l]
      <4>1. PICK c \in B : bs[c].first = l /\ bs[c].second = st[l]
        BY <3>1
      <4>2. as[c] = bs[c]
        BY <1>3, <2>2, <4>1
      <4> QED BY <1>3, <2>2, <4>1, <4>2
    <3>2. CASE st[l] = 0 /\ Absent(bs, n, l)
      <4>1. ASSUME NEW c \in B PROVE as[c].first # l
        BY <1>3, <1>b, <2>2, <3>2 DEF Absent, B
      <4> QED BY <1>3, <2>2, <3>2, <4>1 DEF Absent, B
    <3> QED BY <3>1, <3>2 DEF HoldsAll, B
  <2> QED BY <2>1, <2>2
<1>5. HoldsAll(as, n, rt)
  BY <1>4 DEF HoldsAll, B
<1> QED BY <1>1, <1>2, <1>5

-----------------------------------------------------------------------------
(* Rehashing.                                                                  *)

\* An array with nothing in it.
LEMMA NewIs ==
  ASSUME DenseMapAssumption, NEW n \in Nat
  PROVE  /\ Placed(NewBuckets(n), n)
         /\ Occupied(NewBuckets(n)) = {} /\ Cardinality(Occupied(NewBuckets(n))) = 0
         /\ Tombstones(NewBuckets(n)) = {} /\ Cardinality(Tombstones(NewBuckets(n))) = 0
         /\ HoldsAll(NewBuckets(n), n, [k \in Key |-> 0])
<1>1. PICK bs : bs = NewBuckets(n)
  OBVIOUS
<1>2. /\ DOMAIN bs = 0 .. n - 1 /\ bs \in [0 .. n - 1 -> Bucket]
      /\ \A b \in 0 .. n - 1 : bs[b].first = EmptyKey
  BY <1>1 DEF NewBuckets, Bucket, DenseMapAssumption
<1>3. EmptyKey \notin Key /\ EmptyKey # TombstoneKey
  BY DEF DenseMapAssumption
<1>4. Occupied(bs) = {} /\ Tombstones(bs) = {}
  BY <1>2, <1>3 DEF Occupied, Tombstones
<1>5. Placed(bs, n)
  BY <1>2, <1>3 DEF Placed
<1>6. HoldsAll(bs, n, [k \in Key |-> 0])
  BY <1>2, <1>3 DEF HoldsAll, Absent
<1> QED BY <1>1, <1>4, <1>5, <1>6, FS_EmptySet

\* The entries of the first b buckets that are to be moved.
Kept(bs, b) == {c \in 0 .. b - 1 : bs[c].first \in Key /\ ~ Purgeable(bs[c])}

\* now holds the entries of those buckets of bs and nothing else.
HoldsKept(now, n, bs, b) ==
    /\ Placed(now, n) /\ Tombstones(now) = {}
    /\ Cardinality(Occupied(now)) = Cardinality(Kept(bs, b))
    /\ \A c \in Kept(bs, b) : \E d \in 0 .. n - 1 : now[d] = bs[c]
    /\ \A d \in 0 .. n - 1 :
            now[d].first \in Key => \E c \in Kept(bs, b) : now[d] = bs[c]

LEMMA KeptIs ==
  ASSUME NEW N \in Nat, NEW bs \in [0 .. N - 1 -> Bucket], NEW b \in 0 .. N
  PROVE  /\ Kept(bs, b) \subseteq Occupied(bs) /\ IsFiniteSet(Kept(bs, b))
         /\ Cardinality(Kept(bs, b)) \in Nat /\ IsFiniteSet(Occupied(bs))
         /\ Cardinality(Kept(bs, b)) <= Cardinality(Occupied(bs))
<1>1. Kept(bs, b) \subseteq Occupied(bs) /\ Occupied(bs) \subseteq 0 .. N - 1
  BY DEF Kept, Occupied
<1>2. IsFiniteSet(0 .. N - 1)
  BY FS_Interval
<1>3. IsFiniteSet(Occupied(bs))
  BY <1>1, <1>2, FS_Subset
<1> QED BY <1>1, <1>3, FS_Subset, FS_CardinalityType

LEMMA InsertedType ==
  ASSUME NEW n \in Nat, NEW now \in [0 .. n - 1 -> Bucket],
         NEW N \in Nat, NEW bs \in [0 .. N - 1 -> Bucket], NEW b \in 0 .. N - 1
  PROVE  Inserted(now, n, bs, b) \in [0 .. n - 1 -> Bucket]
<1>1. PICK d : d = LookupBucketFor(now, n, bs[b].first)
  OBVIOUS
<1>2. bs[b] \in Bucket
  OBVIOUS
<1>3. [now EXCEPT ![d] = bs[b]] \in [0 .. n - 1 -> Bucket]
  BY <1>2
<1> QED BY <1>1, <1>3 DEF Inserted

\* One bucket more.
LEMMA InsertedHolds ==
  ASSUME DenseMapAssumption, NEW N \in Nat, NEW bs, Placed(bs, N),
         NEW n \in PowersOfTwo, Cardinality(Occupied(bs)) < n,
         NEW b \in 0 .. N - 1, NEW now, HoldsKept(now, n, bs, b)
  PROVE  HoldsKept(Inserted(now, n, bs, b), n, bs, b + 1)
<1>1. /\ n \in Nat \ {0} /\ n \in Nat /\ bs \in [0 .. N - 1 -> Bucket] /\ b \in 0 .. N
      /\ Placed(now, n) /\ now \in [0 .. n - 1 -> Bucket]
  BY PowersPositive DEF Placed, HoldsKept
<1>2. \A c \in 0 .. b : c \in 0 .. b - 1 \/ c = b
  OBVIOUS
<1>3. CASE ~ (bs[b].first \in Key /\ ~ Purgeable(bs[b]))
  <2>1. Kept(bs, b + 1) = Kept(bs, b)
    BY <1>2, <1>3 DEF Kept
  <2>2. Inserted(now, n, bs, b) = now
    BY <1>3 DEF Inserted
  <2> QED BY <2>1, <2>2 DEF HoldsKept
<1>4. CASE bs[b].first \in Key /\ ~ Purgeable(bs[b])
  <2>1. PICK k \in Key : k = bs[b].first
    BY <1>4
  <2>2. PICK d : d = LookupBucketFor(now, n, k)
    OBVIOUS
  <2>3. PICK as : as = [now EXCEPT ![d] = bs[b]]
    OBVIOUS
  <2>4. Inserted(now, n, bs, b) = as
    BY <1>4, <2>1, <2>2, <2>3 DEF Inserted
  <2>5. Kept(bs, b + 1) = Kept(bs, b) \cup {b} /\ b \notin Kept(bs, b)
    BY <1>2, <1>4 DEF Kept
  <2>6. Cardinality(Kept(bs, b + 1)) = Cardinality(Kept(bs, b)) + 1
    BY <1>1, <2>5, KeptIs, FS_AddElement
  <2>7. HasEmpty(now, n)
    <3>1. PICK x \in Nat : x = Cardinality(Kept(bs, b))
      BY <1>1, KeptIs
    <3>2. x < n
      <4>1. PICK y \in Nat : y = Cardinality(Occupied(bs))
        BY <1>1, EmptyLeft
      <4>2. x <= y
        BY <1>1, <3>1, <4>1, KeptIs
      <4> QED BY <1>1, <4>1, <4>2
    <3>3. Cardinality(Tombstones(now)) = 0 /\ Cardinality(Occupied(now)) = x
      BY <3>1, FS_EmptySet DEF HoldsKept
    <3>4. Cardinality(Occupied(now)) + Cardinality(Tombstones(now)) < n => HasEmpty(now, n)
      BY <1>1, EmptyLeft
    <3>5. x + 0 < n
      BY <1>1, <3>2
    <3> QED BY <3>3, <3>4, <3>5
  <2>8. FoundAt(now, n, k, d)
    BY <1>1, <2>2, <2>7, LookupIs
  <2>9. d \in 0 .. n - 1 /\ now[d].first = EmptyKey /\ Absent(now, n, k)
    <3>1. d \in 0 .. n - 1
      BY <2>8 DEF FoundAt
    <3>2. now[d].first # TombstoneKey
      BY <1>1, <3>1 DEF HoldsKept, Tombstones
    <3>3. now[d].first \in Key => now[d].first # k /\ ~ Purgeable(now[d])
      <4> SUFFICES ASSUME now[d].first \in Key
                   PROVE  now[d].first # k /\ ~ Purgeable(now[d])
        OBVIOUS
      <4>1. PICK c \in Kept(bs, b) : now[d] = bs[c]
        BY <3>1 DEF HoldsKept
      <4>2. c \in 0 .. N - 1 /\ c # b /\ ~ Purgeable(bs[c]) /\ bs[c].first \in Key
        BY DEF Kept
      <4>3. bs[c].first # k
        BY <2>1, <4>2 DEF Placed
      <4> QED BY <4>1, <4>2, <4>3
    <3>4. now[d].first \in Key \cup {EmptyKey, TombstoneKey}
      BY <1>1, <3>1 DEF Bucket
    <3> QED BY <2>8, <3>1, <3>2, <3>3, <3>4 DEF FoundAt
  <2>10. /\ as[d] = bs[b] /\ \A c \in 0 .. n - 1 : c # d => as[c] = now[c]
         /\ DOMAIN as = 0 .. n - 1 /\ bs[b] \in Bucket
    BY <1>1, <2>3, <2>9
  <2>11. k # EmptyKey /\ k # TombstoneKey
    BY DEF DenseMapAssumption
  <2>12. Placed(as, n)
    <3>1. OnWay(now, n, bs[b].first, d)
      BY <2>1, <2>8 DEF FoundAt
    <3>2. \A c \in 0 .. n - 1 : c # d => now[c].first # bs[b].first
      BY <2>1, <2>9 DEF Absent
    <3> QED BY <1>1, <2>1, <2>3, <2>9, <2>10, <2>11, <3>1, <3>2, PlacedWrite
  <2>13. Tombstones(as) = {}
    <3>1. \A c \in 0 .. n - 1 : now[c].first # TombstoneKey
      BY <1>1 DEF HoldsKept, Tombstones
    <3> QED BY <2>1, <2>10, <2>11, <3>1 DEF Tombstones
  <2>14. Cardinality(Occupied(as)) = Cardinality(Kept(bs, b + 1))
    <3>1. EmptyKey \notin Key
      BY DEF DenseMapAssumption
    <3>e. PICK e \in Bucket : e = bs[b]
      BY <2>10
    <3>a. Written(as, now, d, e) /\ d \in 0 .. n - 1
      BY <2>3, <2>9, <3>e DEF Written
    <3>b. /\ Cardinality(Occupied(now)) \in Nat
          /\ Recounted(Cardinality(Occupied(as)), Cardinality(Tombstones(as)), now, d, e)
      BY <1>1, <3>a, CountsWrite
    <3>2. /\ Cardinality(Occupied(now)) \in Nat
          /\ Cardinality(Occupied(as)) =
                Cardinality(Occupied(now)) - (IF now[d].first \in Key THEN 1 ELSE 0)
                                           + (IF e.first \in Key THEN 1 ELSE 0)
      BY <3>b DEF Recounted
    <3>3. PICK x \in Nat : x = Cardinality(Occupied(now))
      BY <3>2
    <3>4. Cardinality(Occupied(as)) = x + 1
      BY <2>1, <2>9, <3>1, <3>2, <3>3, <3>e
    <3>5. x = Cardinality(Kept(bs, b))
      BY <3>3 DEF HoldsKept
    <3> QED BY <2>6, <3>4, <3>5
  <2>15. ASSUME NEW c \in Kept(bs, b + 1) PROVE \E e \in 0 .. n - 1 : as[e] = bs[c]
    <3>1. CASE c = b
      BY <2>9, <2>10, <3>1
    <3>2. CASE c \in Kept(bs, b)
      <4>1. PICK e \in 0 .. n - 1 : now[e] = bs[c]
        BY <3>2 DEF HoldsKept
      <4>2. bs[c].first \in Key /\ EmptyKey \notin Key
        BY <3>2 DEF Kept, DenseMapAssumption
      <4>3. e # d
        BY <2>9, <4>1, <4>2
      <4> QED BY <2>10, <4>1, <4>3
    <3> QED BY <2>5, <3>1, <3>2
  <2>16. ASSUME NEW e \in 0 .. n - 1, as[e].first \in Key
         PROVE  \E c \in Kept(bs, b + 1) : as[e] = bs[c]
    <3>1. CASE e = d
      BY <2>5, <2>10, <3>1
    <3>2. CASE e # d
      <4>1. as[e] = now[e]
        BY <2>10, <3>2
      <4>2. PICK c \in Kept(bs, b) : now[e] = bs[c]
        BY <2>16, <4>1 DEF HoldsKept
      <4> QED BY <2>5, <4>1, <4>2
    <3> QED BY <3>1, <3>2
  <2> QED BY <2>4, <2>12, <2>13, <2>14, <2>15, <2>16 DEF HoldsKept
<1> QED BY <1>3, <1>4

\* All of them.
LEMMA MovedHolds ==
  ASSUME DenseMapAssumption, NEW m, m.NumBuckets \in Nat, Placed(m.Buckets, m.NumBuckets),
         NEW n \in PowersOfTwo, Cardinality(Occupied(m.Buckets)) < n
  PROVE  HoldsKept(Moved(m, n), n, m.Buckets, m.NumBuckets)
<1> DEFINE Eq(f) == f = [b \in 0 .. m.NumBuckets |->
                          IF b = 0 THEN NewBuckets(n)
                          ELSE Inserted(f[b - 1], n, m.Buckets, b - 1)]
           H == CHOOSE f : Eq(f)
<1>1. Moved(m, n) = H[m.NumBuckets]
  BY Zenon DEF Moved
<1>2. PICK N \in Nat : N = m.NumBuckets
  OBVIOUS
<1>3. PICK bs : bs = m.Buckets
  OBVIOUS
<1>4. /\ n \in Nat \ {0} /\ n \in Nat /\ Placed(bs, N) /\ bs \in [0 .. N - 1 -> Bucket]
      /\ Cardinality(Occupied(bs)) < n
  BY <1>2, <1>3, PowersPositive DEF Placed
<1>5. NewBuckets(n) \in [0 .. n - 1 -> Bucket] /\ HoldsKept(NewBuckets(n), n, bs, 0)
  <2>1. Kept(bs, 0) = {}
    BY DEF Kept
  <2>2. Placed(NewBuckets(n), n) /\ Occupied(NewBuckets(n)) = {}
    BY <1>4, NewIs
  <2>3. \A d \in 0 .. n - 1 : NewBuckets(n)[d].first \notin Key
    BY DEF NewBuckets, DenseMapAssumption
  <2> QED BY <1>4, <2>1, <2>2, <2>3, NewIs DEF HoldsKept, Placed
<1> DEFINE T == [0 .. n - 1 -> Bucket]
           G == [p \in T \X (1 .. N) |-> Inserted(p[1], n, bs, p[2] - 1)]
<1>6. G \in [T \X (1 .. N) -> T]
  <2>1. ASSUME NEW p \in T \X (1 .. N) PROVE Inserted(p[1], n, bs, p[2] - 1) \in T
    <3>1. p[1] \in T /\ p[2] - 1 \in 0 .. N - 1
      OBVIOUS
    <3> QED BY <1>4, <3>1, InsertedType
  <2> QED BY <2>1
<1>7. PICK f \in [0 .. N -> T] : CountedUp(f, N, NewBuckets(n), G)
  <2> HIDE DEF G, T
  <2>1. NewBuckets(n) \in T
    BY <1>5 DEF T
  <2> QED BY <1>6, <2>1, CountedExists
<1>8. ASSUME NEW b \in 0 .. N
      PROVE  f[b] = IF b = 0 THEN NewBuckets(n) ELSE Inserted(f[b - 1], n, bs, b - 1)
  <2>1. f[b] = IF b = 0 THEN NewBuckets(n) ELSE G[<<f[b - 1], b>>]
    BY <1>7 DEF CountedUp
  <2>2. CASE b = 0
    BY <2>1, <2>2
  <2>3. CASE b # 0
    <3>1. b - 1 \in 0 .. N /\ b \in 1 .. N
      BY <2>3
    <3>2. <<f[b - 1], b>> \in T \X (1 .. N)
      BY <3>1
    <3> HIDE DEF T
    <3>3. G[<<f[b - 1], b>>] = Inserted(f[b - 1], n, bs, b - 1)
      BY <3>2
    <3> HIDE DEF G
    <3> QED BY <2>1, <2>3, <3>3
  <2> QED BY <2>2, <2>3
<1> HIDE DEF G, T
<1>9. Eq(f)
  <2>1. f = [b \in 0 .. N |-> f[b]]
    OBVIOUS
  <2>2. f = [b \in 0 .. N |-> IF b = 0 THEN NewBuckets(n)
                              ELSE Inserted(f[b - 1], n, bs, b - 1)]
    BY <1>8, <2>1
  <2> QED BY <1>2, <1>3, <2>2
<1>10. Eq(H)
  BY <1>9
<1> HIDE DEF H
<1>11. ASSUME NEW b \in 0 .. N
       PROVE  H[b] = IF b = 0 THEN NewBuckets(n) ELSE Inserted(H[b - 1], n, bs, b - 1)
  BY <1>2, <1>3, <1>10
<1> DEFINE U == {b \in 0 .. N : HoldsKept(H[b], n, bs, b)}
<1>12. 0 \in U
  BY <1>5, <1>11
<1>13. ASSUME NEW b \in 0 .. N - 1, b \in U PROVE b + 1 \in U
  <2>1. b + 1 \in 0 .. N /\ b + 1 # 0 /\ b + 1 - 1 = b
    OBVIOUS
  <2>2. H[b + 1] = Inserted(H[b], n, bs, b)
    BY <1>11, <2>1
  <2>3. HoldsKept(H[b], n, bs, b)
    BY <1>13
  <2>4. HoldsKept(Inserted(H[b], n, bs, b), n, bs, b + 1)
    BY <1>4, <2>3, InsertedHolds
  <2> QED BY <2>1, <2>2, <2>4
<1> HIDE DEF U
<1>14. \A b \in 0 .. N : b \in U
  BY <1>12, <1>13, CountsUp
<1>15. HoldsKept(H[N], n, bs, N)
  BY <1>14 DEF U
<1> QED BY <1>1, <1>2, <1>3, <1>15

\* It holds what the old array held.
LEMMA MovedHeld ==
  ASSUME NEW N \in Nat, NEW bs, Placed(bs, N), NEW st, HoldsAll(bs, N, st), NEW n \in Nat,
         NEW now, HoldsKept(now, n, bs, N)
  PROVE  HoldsAll(now, n, st)
<1> SUFFICES ASSUME NEW k \in Key
             PROVE  \/ \E c \in 0 .. n - 1 : now[c].first = k /\ now[c].second = st[k]
                    \/ st[k] = 0 /\ Absent(now, n, k)
  BY DEF HoldsAll
<1>1. ASSUME NEW d \in 0 .. n - 1, now[d].first = k
      PROVE  \E c \in Kept(bs, N) : now[d] = bs[c] /\ bs[c].first = k
  BY <1>1 DEF HoldsKept
<1>2. CASE \E c \in 0 .. N - 1 : bs[c].first = k /\ bs[c].second = st[k]
  <2>1. PICK c \in 0 .. N - 1 : bs[c].first = k /\ bs[c].second = st[k]
    BY <1>2
  <2>2. CASE c \in Kept(bs, N)
    BY <2>1, <2>2 DEF HoldsKept
  <2>3. CASE c \notin Kept(bs, N)
    <3>1. bs[c].second = 0
      BY <2>1, <2>3 DEF Kept, Purgeable
    <3>2. ASSUME NEW d \in 0 .. n - 1, now[d].first = k PROVE FALSE
      <4>1. PICK a \in Kept(bs, N) : bs[a].first = k
        BY <1>1, <3>2
      <4>2. a \in 0 .. N - 1
        BY DEF Kept
      <4>3. a = c
        BY <2>1, <4>1, <4>2 DEF Placed
      <4> QED BY <2>3, <4>1, <4>3
    <3> QED BY <2>1, <3>1, <3>2 DEF Absent
  <2> QED BY <2>2, <2>3
<1>3. CASE st[k] = 0 /\ Absent(bs, N, k)
  <2>1. ASSUME NEW d \in 0 .. n - 1, now[d].first = k PROVE FALSE
    <3>1. PICK a \in Kept(bs, N) : bs[a].first = k
      BY <1>1, <2>1
    <3>2. a \in 0 .. N - 1
      BY DEF Kept
    <3> QED BY <1>3, <3>1, <3>2 DEF Absent
  <2> QED BY <1>3, <2>1 DEF Absent
<1> QED BY <1>2, <1>3 DEF HoldsAll

\* There are as many fewer as were purged.
LEMMA KeptCount ==
  ASSUME NEW N \in Nat, NEW bs \in [0 .. N - 1 -> Bucket]
  PROVE  LET p == Cardinality({b \in Occupied(bs) : Purgeable(bs[b])})
         IN  /\ p \in Nat /\ Cardinality(Occupied(bs)) \in Nat
             /\ Cardinality(Kept(bs, N)) \in Nat
             /\ Cardinality(Kept(bs, N)) = Cardinality(Occupied(bs)) - p
<1> DEFINE P == {b \in Occupied(bs) : Purgeable(bs[b])}
<1>1. IsFiniteSet(Occupied(bs)) /\ Cardinality(Occupied(bs)) \in Nat
  BY N \in 0 .. N, KeptIs, FS_CardinalityType
<1>2. Kept(bs, N) = Occupied(bs) \ P /\ Occupied(bs) \cap P = P
  BY DEF Kept, Occupied
<1>3. IsFiniteSet(P)
  <2>1. P \subseteq Occupied(bs)
    OBVIOUS
  <2> HIDE DEF P
  <2> QED BY <1>1, <2>1, FS_Subset
<1> HIDE DEF P
<1>4. Cardinality(P) \in Nat
  BY <1>3, FS_CardinalityType
<1>5. Cardinality(Kept(bs, N)) = Cardinality(Occupied(bs)) - Cardinality(P)
  BY <1>1, <1>2, FS_Difference
<1>6. Cardinality(Kept(bs, N)) \in Nat
  BY N \in 0 .. N, KeptIs
<1> QED BY <1>1, <1>4, <1>5, <1>6 DEF P

-----------------------------------------------------------------------------
(* The table.                                                                  *)

Table == [NumBuckets : Nat, Buckets : UNION {[0 .. n - 1 -> Bucket] : n \in Nat},
          NumEntries : Nat, NumTombstones : Nat]

\* m is a table that holds st, and counts x entries more than it has.
Sound(m, x, st) ==
    /\ m \in Table
    /\ m.NumBuckets \in PowersOfTwo /\ m.NumBuckets >= 8
    /\ Placed(m.Buckets, m.NumBuckets)
    /\ m.NumEntries = Cardinality(Occupied(m.Buckets)) + x
    /\ m.NumTombstones = Cardinality(Tombstones(m.Buckets))
    /\ m.NumEntries + m.NumTombstones - x < m.NumBuckets
    /\ HoldsAll(m.Buckets, m.NumBuckets, st)

LEMMA DoubledIs ==
  ASSUME DenseMapAssumption, NEW n \in PowersOfTwo, n <= MaxBuckets
  PROVE  /\ Doubled(n, n) = n
         /\ Doubled(n, 2 * n) = 2 * n /\ 2 * n \in PowersOfTwo
<1>1. n \in Nat /\ n >= 1
  BY PowersPositive
<1>2. PICK i \in 0 .. 30 : n = TwoTo[i]
  BY DEF PowersOfTwo
<1>3. i # 30 /\ i + 1 \in 1 .. 30 /\ i + 1 \in 0 .. 30 /\ i + 1 - 1 = i
  <2>1. TwoTo[30] \in Nat /\ MaxBuckets \in Nat /\ MaxBuckets < TwoTo[30]
    BY TwoToIs DEF DenseMapAssumption
  <2>2. n < TwoTo[30]
    BY <1>1, <2>1
  <2>3. i # 30
    BY <1>1, <1>2, <2>2
  <2> QED BY <2>3
<1>4. TwoTo[i + 1] = 2 * n
  BY <1>2, <1>3, TwoToIs
<1>5. 2 * n \in PowersOfTwo
  BY <1>3, <1>4 DEF PowersOfTwo
<1>6. PowerAtLeast(2 * n) = 2 * n
  <2> DEFINE S == {p \in PowersOfTwo : p >= 2 * n}
  <2>1. 2 * n \in S /\ \A p \in S : 2 * n <= p
    BY <1>1, <1>5, PowersPositive
  <2>2. Min(S) \in S /\ \A p \in S : Min(S) <= p
    BY <2>1 DEF Min
  <2>3. Min(S) <= 2 * n /\ 2 * n <= Min(S) /\ Min(S) \in Nat
    BY <2>1, <2>2, PowersPositive
  <2>4. Min(S) = 2 * n
    <3> HIDE DEF S
    <3> QED BY <1>1, <2>3
  <2> QED BY <2>4 DEF PowerAtLeast
<1>7. ~ (n >= 2 * n) /\ n >= n
  BY <1>1
<1> QED BY <1>5, <1>6, <1>7 DEF Doubled

LEMMA SoundType ==
  ASSUME NEW m, NEW x \in Nat, NEW st, Sound(m, x, st)
  PROVE  /\ m.NumBuckets \in Nat /\ m.NumBuckets > 0
         /\ m.Buckets \in [0 .. m.NumBuckets - 1 -> Bucket]
         /\ m.NumEntries \in Nat /\ m.NumTombstones \in Nat
<1>1. m \in Table /\ m.NumBuckets \in PowersOfTwo
  BY DEF Sound
<1>2. m.NumBuckets \in Nat \ {0}
  BY <1>1, PowersPositive
<1>3. m.NumEntries \in Nat /\ m.NumTombstones \in Nat
  BY <1>1 DEF Table
<1>4. m.Buckets \in [0 .. m.NumBuckets - 1 -> Bucket]
  BY DEF Sound, Placed
<1> QED BY <1>2, <1>3, <1>4

LEMMA SoundSearch ==
  ASSUME DenseMapAssumption, NEW m, NEW x \in Nat, NEW st, Sound(m, x, st), NEW k \in Key
  PROVE  /\ HasEmpty(m.Buckets, m.NumBuckets)
         /\ FoundAt(m.Buckets, m.NumBuckets, k, LookupBucketFor(m.Buckets, m.NumBuckets, k))
<1>1. PICK n \in PowersOfTwo : n = m.NumBuckets /\ n \in Nat
  BY SoundType DEF Sound
<1>2. PICK bs \in [0 .. n - 1 -> Bucket] : bs = m.Buckets
  BY <1>1, SoundType
<1>3. PICK e \in Nat : e = Cardinality(Occupied(bs))
  BY <1>1, EmptyLeft
<1>4. PICK t \in Nat : t = Cardinality(Tombstones(bs))
  BY <1>1, EmptyLeft
<1>5. e + x + t - x < n
  BY <1>1, <1>2, <1>3, <1>4 DEF Sound
<1>6. e + t < n
  BY <1>1, <1>5
<1>7. Cardinality(Occupied(bs)) + Cardinality(Tombstones(bs)) < n => HasEmpty(bs, n)
  BY <1>1, EmptyLeft
<1>8. HasEmpty(bs, n)
  BY <1>3, <1>4, <1>6, <1>7
<1>9. Placed(bs, n)
  BY <1>1, <1>2 DEF Sound
<1> QED BY <1>1, <1>2, <1>8, <1>9, LookupIs

\* A larger array, or another of the same size, holds the same, in as many buckets
\* or fewer, with no tombstones.
LEMMA GrownIs ==
  ASSUME DenseMapAssumption, NEW m, NEW x \in Nat, NEW st, Sound(m, x, st),
         NEW AtLeast, NEW n \in PowersOfTwo, n = Doubled(m.NumBuckets, AtLeast),
         m.NumBuckets <= n
  PROVE  /\ Sound(grow(m, AtLeast), x, st)
         /\ grow(m, AtLeast).NumBuckets = n /\ grow(m, AtLeast).NumTombstones = 0
         /\ grow(m, AtLeast).NumEntries <= m.NumEntries
<1>1. n \in Nat /\ n > 0
  BY PowersPositive
<1>2. PICK N \in Nat : N = m.NumBuckets
  BY SoundType
<1>3. PICK bs \in [0 .. N - 1 -> Bucket] : bs = m.Buckets
  BY <1>2, SoundType
<1>4. /\ Placed(bs, N) /\ HoldsAll(bs, N, st) /\ N <= n /\ N >= 8
      /\ m.NumEntries = Cardinality(Occupied(bs)) + x
      /\ m.NumTombstones = Cardinality(Tombstones(bs))
      /\ m.NumEntries + m.NumTombstones - x < N
  BY <1>2, <1>3 DEF Sound
<1>5. PICK p \in Nat : p = Cardinality({b \in Occupied(bs) : Purgeable(bs[b])})
  BY KeptCount
<1>6. PICK e \in Nat : e = Cardinality(Occupied(bs))
  BY KeptCount
<1>7. PICK c \in Nat : c = Cardinality(Kept(bs, N))
  BY KeptCount
<1>8. c = e - p
  BY <1>5, <1>6, <1>7, KeptCount
<1>9. e < N /\ e < n
  <2>1. PICK t \in Nat : t = m.NumTombstones
    BY SoundType
  <2>2. e + x + t - x < N
    BY <1>4, <1>6, <2>1
  <2> QED BY <1>1, <1>4, <2>2
<1>10. PICK r : r = grow(m, AtLeast)
  OBVIOUS
<1>11. r = [NumBuckets |-> n, Buckets |-> Moved(m, n),
            NumEntries |-> m.NumEntries - p, NumTombstones |-> 0]
  BY <1>3, <1>5, <1>10, Zenon DEF grow
<1>12. PICK now : now = Moved(m, n)
  OBVIOUS
<1>13. HoldsKept(now, n, bs, N)
  <2>1. Cardinality(Occupied(m.Buckets)) < n
    BY <1>3, <1>6, <1>9
  <2>2. m.NumBuckets \in Nat /\ Placed(m.Buckets, m.NumBuckets)
    BY <1>2, <1>3, <1>4
  <2> QED BY <1>2, <1>3, <1>12, <2>1, <2>2, MovedHolds
<1>14. /\ r.NumBuckets = n /\ r.Buckets = now /\ r.NumTombstones = 0
       /\ r.NumEntries = m.NumEntries - p
  BY <1>11, <1>12
<1>15. r.NumEntries = c + x /\ r.NumEntries \in Nat
  <2>1. r.NumEntries = e + x - p
    BY <1>4, <1>6, <1>14
  <2> QED BY <1>8, <2>1
<1>16. Placed(now, n) /\ now \in [0 .. n - 1 -> Bucket]
  BY <1>13 DEF HoldsKept, Placed
<1>17. Cardinality(Occupied(now)) = c /\ Cardinality(Tombstones(now)) = 0
  BY <1>7, <1>13, FS_EmptySet DEF HoldsKept
<1>18. HoldsAll(now, n, st)
  BY <1>1, <1>4, <1>13, MovedHeld
<1>19. r \in Table
  <2>1. now \in UNION {[0 .. i - 1 -> Bucket] : i \in Nat}
    BY <1>1, <1>16
  <2>2. r = [NumBuckets |-> n, Buckets |-> now, NumEntries |-> c + x, NumTombstones |-> 0]
    BY <1>11, <1>12, <1>14, <1>15
  <2> QED BY <1>1, <2>1, <2>2 DEF Table
<1>20. c < n /\ r.NumEntries <= m.NumEntries
  <2>1. m.NumEntries = e + x
    BY <1>4, <1>6
  <2> QED BY <1>1, <1>8, <1>9, <1>15, <2>1
<1>21. r.NumEntries + r.NumTombstones - x < n
  BY <1>1, <1>14, <1>15, <1>20
<1>22. n >= 8
  BY <1>1, <1>4
<1>23. Sound(r, x, st)
  BY <1>14, <1>15, <1>16, <1>17, <1>18, <1>19, <1>21, <1>22 DEF Sound
<1> QED BY <1>10, <1>14, <1>20, <1>23

\* Room keeps what the table holds, and leaves an empty bucket beside the new entry.
LEMMA RoomIs ==
  ASSUME DenseMapAssumption, NEW m, NEW st, Sound(m, 1, st), m.NumBuckets <= MaxBuckets
  PROVE  /\ Sound(Room(m), 1, st)
         /\ Room(m).NumEntries + Room(m).NumTombstones < Room(m).NumBuckets
<1>1. PICK n \in PowersOfTwo : n = m.NumBuckets /\ n \in Nat /\ n >= 8 /\ n <= MaxBuckets
  BY SoundType DEF Sound
<1>2. PICK e \in Nat : e = m.NumEntries
  BY SoundType
<1>3. PICK t \in Nat : t = m.NumTombstones
  BY SoundType
<1>4. e + t - 1 < n
  BY <1>1, <1>2, <1>3 DEF Sound
<1>5. CASE e * 4 >= n * 3
  <2>1. Room(m) = grow(m, m.NumBuckets * 2)
    <3>1. m.NumEntries * 4 >= m.NumBuckets * 3
      BY <1>1, <1>2, <1>5
    <3>2. ~ (m.NumEntries * 4 < m.NumBuckets * 3)
      BY <1>1, <1>2, <1>5
    <3> QED BY <3>1, <3>2 DEF Room
  <2>2. PICK a \in PowersOfTwo : a = Doubled(n, 2 * n) /\ a = 2 * n
    BY <1>1, DoubledIs
  <2>3. a = Doubled(m.NumBuckets, m.NumBuckets * 2)
    <3>1. n * 2 = 2 * n
      BY <1>1
    <3> QED BY <1>1, <2>2, <3>1
  <2>4. m.NumBuckets <= a
    BY <1>1, <2>2
  <2>5. /\ Sound(Room(m), 1, st) /\ Room(m).NumBuckets = a
        /\ Room(m).NumTombstones = 0 /\ Room(m).NumEntries <= m.NumEntries
    BY <2>1, <2>3, <2>4, GrownIs
  <2>6. PICK d \in Nat : d = Room(m).NumEntries
    BY <2>5, SoundType
  <2>7. d <= e /\ e <= n
    BY <1>1, <1>2, <1>4, <2>5, <2>6
  <2>8. d + 0 < a
    BY <1>1, <2>2, <2>7
  <2> QED BY <2>5, <2>6, <2>8
<1>6. CASE e * 4 < n * 3 /\ n - (e + t) < n \div 8
  <2>1. Room(m) = grow(m, m.NumBuckets)
    <3>1. /\ m.NumEntries * 4 < m.NumBuckets * 3
          /\ m.NumBuckets - (m.NumEntries + m.NumTombstones) < m.NumBuckets \div 8
      BY <1>1, <1>2, <1>3, <1>6
    <3>2. ~ (m.NumEntries * 4 >= m.NumBuckets * 3)
      BY <1>1, <1>2, <1>6
    <3> QED BY <3>1, <3>2 DEF Room
  <2>2. n = Doubled(m.NumBuckets, m.NumBuckets) /\ m.NumBuckets <= n
    BY <1>1, DoubledIs
  <2>3. /\ Sound(Room(m), 1, st) /\ Room(m).NumBuckets = n
        /\ Room(m).NumTombstones = 0 /\ Room(m).NumEntries <= m.NumEntries
    BY <2>1, <2>2, GrownIs
  <2>4. PICK d \in Nat : d = Room(m).NumEntries
    BY <2>3, SoundType
  <2>5. d + 0 < n
    BY <1>1, <1>2, <1>6, <2>3, <2>4
  <2> QED BY <2>3, <2>4, <2>5
<1>7. CASE e * 4 < n * 3 /\ ~ (n - (e + t) < n \div 8)
  <2>1. Room(m) = m
    <3>1. ~ (m.NumBuckets - (m.NumEntries + m.NumTombstones) < m.NumBuckets \div 8)
      BY <1>1, <1>2, <1>3, <1>7
    <3>2. ~ (m.NumEntries * 4 >= m.NumBuckets * 3)
      BY <1>1, <1>2, <1>7
    <3> QED BY <3>1, <3>2 DEF Room
  <2>2. n \div 8 >= 1
    BY <1>1
  <2>3. e + t < n
    BY <1>1, <1>7, <2>2
  <2> QED BY <1>1, <1>2, <1>3, <2>1, <2>3
<1> QED BY <1>1, <1>5, <1>6, <1>7

\* The table with these fields.
Made(q, n, bs, E, T) ==
    q = [NumBuckets |-> n, Buckets |-> bs, NumEntries |-> E, NumTombstones |-> T]

LEMMA WrittenSound ==
  ASSUME DenseMapAssumption, NEW n \in PowersOfTwo, n >= 8, NEW bs, Placed(bs, n),
         NEW b \in 0 .. n - 1, NEW e \in Bucket, e.first # EmptyKey,
         e.first \in Key => /\ OnWay(bs, n, e.first, b)
                            /\ \A c \in 0 .. n - 1 : c # b => bs[c].first # e.first,
         NEW as, Written(as, bs, b, e), NEW st, HoldsAll(as, n, st),
         NEW E, NEW T, Recounted(E, T, bs, b, e), E + T < n,
         NEW q, Made(q, n, as, E, T)
  PROVE  Sound(q, 0, st)
<1>1. n \in Nat /\ bs \in [0 .. n - 1 -> Bucket]
  BY PowersPositive DEF Placed
<1>2. /\ q.NumBuckets = n /\ q.Buckets = as /\ q.NumEntries = E /\ q.NumTombstones = T
  BY DEF Made
<1>3. Placed(as, n) /\ as \in [0 .. n - 1 -> Bucket]
  <2>1. Placed([bs EXCEPT ![b] = e], n)
    BY PlacedWrite
  <2> QED BY <2>1 DEF Written, Placed
<1>4. Cardinality(Occupied(as)) = E /\ Cardinality(Tombstones(as)) = T
  <2>1. Recounted(Cardinality(Occupied(as)), Cardinality(Tombstones(as)), bs, b, e)
    BY <1>1, CountsWrite
  <2> QED BY <2>1, Zenon DEF Recounted
<1>5. E \in Nat /\ T \in Nat
  BY <1>1, <1>3, <1>4, EmptyLeft
<1>6. q \in Table
  <2>1. as \in UNION {[0 .. i - 1 -> Bucket] : i \in Nat}
    BY <1>1, <1>3
  <2> QED BY <1>1, <1>5, <2>1 DEF Table, Made
<1>7. E = E + 0 /\ E + T - 0 < n
  BY <1>1, <1>5
<1> QED BY <1>2, <1>3, <1>4, <1>6, <1>7 DEF Sound

LEMMA FieldsMade ==
  ASSUME NEW m \in Table
  PROVE  Made(m, m.NumBuckets, m.Buckets, m.NumEntries, m.NumTombstones)
BY DEF Made, Table

LEMMA CountedOneMore ==
  ASSUME NEW m, NEW st, Sound(m, 0, st)
  PROVE  /\ Sound([m EXCEPT !.NumEntries = @ + 1], 1, st)
         /\ [m EXCEPT !.NumEntries = @ + 1].NumBuckets = m.NumBuckets
<1>1. m.NumEntries \in Nat /\ m.NumTombstones \in Nat /\ m.NumBuckets \in Nat /\ m \in Table
  BY SoundType DEF Sound
<1>2. PICK q : q = [m EXCEPT !.NumEntries = @ + 1]
  OBVIOUS
<1>3. /\ q \in Table /\ q.NumBuckets = m.NumBuckets /\ q.Buckets = m.Buckets
      /\ q.NumEntries = m.NumEntries + 1 /\ q.NumTombstones = m.NumTombstones
  BY <1>1, <1>2 DEF Table
<1>4. PICK e \in Nat : e = Cardinality(Occupied(m.Buckets)) /\ m.NumEntries = e
  <2>1. Cardinality(Occupied(m.Buckets)) \in Nat
    BY <1>1, SoundType, KeptCount
  <2>2. m.NumEntries = Cardinality(Occupied(m.Buckets)) + 0
    BY DEF Sound
  <2> QED BY <2>1, <2>2
<1>5. q.NumEntries + q.NumTombstones - 1 < q.NumBuckets
  <2>1. m.NumEntries + m.NumTombstones - 0 < m.NumBuckets
    BY DEF Sound
  <2> QED BY <1>1, <1>3, <2>1
<1>6. Sound(q, 1, st)
  BY <1>3, <1>4, <1>5 DEF Sound
<1> QED BY <1>2, <1>3, <1>6

LEMMA InsertSound ==
  ASSUME DenseMapAssumption, NEW m, NEW st \in [Key -> Value], Sound(m, 0, st),
         m.NumBuckets <= MaxBuckets, NEW k \in Key, NEW v \in Value
  PROVE  Sound(InsertIntoBucket(m, k, v), 0, [st EXCEPT ![k] = v])
<1>1. PICK r : r = Room([m EXCEPT !.NumEntries = @ + 1])
  OBVIOUS
<1>2. Sound(r, 1, st) /\ r.NumEntries + r.NumTombstones < r.NumBuckets
  <2>1. PICK o : o = [m EXCEPT !.NumEntries = @ + 1]
    OBVIOUS
  <2>2. Sound(o, 1, st) /\ o.NumBuckets <= MaxBuckets
    BY <2>1, CountedOneMore
  <2> QED BY <1>1, <2>1, <2>2, RoomIs
<1>3. PICK n \in PowersOfTwo : n = r.NumBuckets /\ n \in Nat /\ n >= 8
  BY <1>2, SoundType DEF Sound
<1>4. PICK bs \in [0 .. n - 1 -> Bucket] : bs = r.Buckets
  BY <1>2, <1>3, SoundType
<1>5. PICK b : b = LookupBucketFor(r.Buckets, r.NumBuckets, k)
  OBVIOUS
<1>6. FoundAt(bs, n, k, b) /\ b \in 0 .. n - 1
  BY <1>2, <1>3, <1>4, <1>5, SoundSearch DEF FoundAt
<1>7. PICK e \in Bucket : e = [first |-> k, second |-> v]
  BY DEF Bucket
<1>8. PICK as : as = [bs EXCEPT ![b] = e]
  OBVIOUS
<1>9. PICK E : E = IF bs[b].first \in Key THEN r.NumEntries - 1 ELSE r.NumEntries
  OBVIOUS
<1>10. PICK T : T = IF bs[b].first = TombstoneKey THEN r.NumTombstones - 1 ELSE r.NumTombstones
  OBVIOUS
<1>11. PICK q : q = InsertIntoBucket(m, k, v)
  OBVIOUS
<1>12. Made(q, n, as, E, T)
  <2>1. q = [r EXCEPT
            !.Buckets[b] = [first |-> k, second |-> v],
            !.NumTombstones = IF r.Buckets[b].first = TombstoneKey THEN @ - 1 ELSE @,
            !.NumEntries = IF r.Buckets[b].first \in Key THEN @ - 1 ELSE @]
    BY <1>1, <1>5, <1>11, Zenon DEF InsertIntoBucket
  <2>2. PICK r1 : r1 = [r EXCEPT !.Buckets[b] = e]
    OBVIOUS
  <2>3. PICK r2 : r2 = [r1 EXCEPT !.NumTombstones = T]
    OBVIOUS
  <2>4. PICK r3 : r3 = [r2 EXCEPT !.NumEntries = E]
    OBVIOUS
  <2>b. PICK x : x = r.NumEntries
    OBVIOUS
  <2>c. PICK y : y = r.NumTombstones
    OBVIOUS
  <2>5. Made(r, n, bs, x, y)
    BY <1>2, <1>3, <1>4, <2>b, <2>c, FieldsMade DEF Sound
  <2>a. r1 = [r EXCEPT !.Buckets = as]
    BY <1>4, <1>8, <2>2
  <2>6. Made(r1, n, as, x, y)
    BY <2>5, <2>a DEF Made
  <2>7. Made(r2, n, as, x, T)
    BY <2>3, <2>6 DEF Made
  <2>8. Made(r3, n, as, E, T)
    BY <2>4, <2>7 DEF Made
  <2>9. q = r3
    <3>1. q = [r EXCEPT !.Buckets[b] = e, !.NumTombstones = T, !.NumEntries = E]
      BY <1>4, <1>7, <1>9, <1>10, <2>1
    <3>2. q = [[[r EXCEPT !.Buckets[b] = e] EXCEPT !.NumTombstones = T] EXCEPT !.NumEntries = E]
      BY <3>1
    <3> QED BY <2>2, <2>3, <2>4, <3>2, Zenon
  <2> QED BY <2>8, <2>9
<1>13. PICK z \in Nat : z = Cardinality(Occupied(bs)) /\ r.NumEntries = z + 1
  BY <1>2, <1>3, <1>4, EmptyLeft DEF Sound
<1>14. PICK t \in Nat : t = Cardinality(Tombstones(bs)) /\ r.NumTombstones = t
  BY <1>2, <1>3, <1>4, EmptyLeft DEF Sound
<1>15. e.first = k /\ k # TombstoneKey /\ k # EmptyKey /\ TombstoneKey \notin Key
  BY <1>7 DEF DenseMapAssumption
<1>16. Recounted(E, T, bs, b, e)
  <2>1. E = z - (IF bs[b].first \in Key THEN 1 ELSE 0) + 1
    BY <1>9, <1>13
  <2>2. T = t - (IF bs[b].first = TombstoneKey THEN 1 ELSE 0) + 0
    BY <1>10, <1>14
  <2> QED BY <1>13, <1>14, <1>15, <2>1, <2>2 DEF Recounted
<1>17. E + T < n
  <2>1. z + 1 + t < n
    BY <1>2, <1>3, <1>13, <1>14
  <2>2. E \in Int /\ T \in Int /\ E <= z + 1 /\ T <= t
    BY <1>9, <1>10, <1>13, <1>14
  <2> QED BY <1>3, <2>1, <2>2
<1>18. Placed(bs, n) /\ HoldsAll(bs, n, st)
  BY <1>2, <1>3, <1>4 DEF Sound
<1>19. HoldsAll(as, n, [st EXCEPT ![k] = v])
  BY <1>3, <1>6, <1>7, <1>8, <1>18, HeldStored
<1>20. OnWay(bs, n, k, b) /\ \A c \in 0 .. n - 1 : c # b => bs[c].first # k
  BY <1>6, <1>18 DEF FoundAt, Absent, Placed
<1>21. Written(as, bs, b, e)
  BY <1>8 DEF Written
<1>22. Sound(q, 0, [st EXCEPT ![k] = v])
  BY <1>3, <1>6, <1>12, <1>15, <1>16, <1>17, <1>18, <1>19, <1>20, <1>21, WrittenSound
<1> QED BY <1>11, <1>22

LEMMA UpdateSound ==
  ASSUME DenseMapAssumption, NEW m, NEW st \in [Key -> Value], Sound(m, 0, st),
         NEW k \in Key, NEW v \in Value, NEW b,
         FoundAt(m.Buckets, m.NumBuckets, k, b), m.Buckets[b].first = k
  PROVE  Sound([m EXCEPT !.Buckets[b].second = v], 0, [st EXCEPT ![k] = v])
<1>1. PICK n \in PowersOfTwo : n = m.NumBuckets /\ n \in Nat /\ n >= 8
  BY SoundType DEF Sound
<1>2. PICK bs \in [0 .. n - 1 -> Bucket] : bs = m.Buckets
  BY <1>1, SoundType
<1>3. /\ Placed(bs, n) /\ HoldsAll(bs, n, st) /\ FoundAt(bs, n, k, b) /\ b \in 0 .. n - 1
      /\ bs[b].first = k
  BY <1>1, <1>2 DEF Sound, FoundAt
<1>4. PICK e \in Bucket : e = [first |-> k, second |-> v]
  BY DEF Bucket
<1>5. PICK as : as = [bs EXCEPT ![b] = e]
  OBVIOUS
<1>6. PICK x \in Nat : x = m.NumEntries /\ x = Cardinality(Occupied(bs))
  <2>1. Cardinality(Occupied(bs)) \in Nat
    BY <1>1, KeptCount
  <2> QED BY <1>2, <2>1 DEF Sound
<1>7. PICK y \in Nat : y = m.NumTombstones /\ y = Cardinality(Tombstones(bs))
  BY <1>2, SoundType DEF Sound
<1>8. PICK q : q = [m EXCEPT !.Buckets[b].second = v]
  OBVIOUS
<1>9. Made(q, n, as, x, y)
  <2>1. Made(m, n, bs, x, y)
    BY <1>1, <1>2, <1>6, <1>7, FieldsMade DEF Sound
  <2>2. [bs[b] EXCEPT !.second = v] = e
    <3>1. PICK a \in Bucket : a = bs[b]
      BY <1>3
    <3>2. a.first = k
      BY <1>3, <3>1
    <3>3. [a EXCEPT !.second = v] = e
      BY <1>4, <3>2 DEF Bucket
    <3> QED BY <3>1, <3>3
  <2>3. [bs EXCEPT ![b].second = v] = as
    BY <1>5, <2>2
  <2>4. q = [m EXCEPT !.Buckets = as]
    BY <1>2, <1>8, <2>3
  <2> QED BY <2>1, <2>4 DEF Made
<1>10. e.first = k /\ k # TombstoneKey /\ k # EmptyKey
  BY <1>4 DEF DenseMapAssumption
<1>11. Recounted(x, y, bs, b, e)
  <2>1. x = x - (IF bs[b].first \in Key THEN 1 ELSE 0) + (IF e.first \in Key THEN 1 ELSE 0)
    BY <1>3, <1>10
  <2>2. y = y - (IF bs[b].first = TombstoneKey THEN 1 ELSE 0)
              + (IF e.first = TombstoneKey THEN 1 ELSE 0)
    BY <1>3, <1>10
  <2> QED BY <1>6, <1>7, <2>1, <2>2 DEF Recounted
<1>12. x + y < n
  <2>1. x + y - 0 < n
    BY <1>1, <1>6, <1>7 DEF Sound
  <2> QED BY <2>1
<1>13. HoldsAll(as, n, [st EXCEPT ![k] = v])
  BY <1>1, <1>3, <1>4, <1>5, HeldStored
<1>14. OnWay(bs, n, k, b) /\ \A c \in 0 .. n - 1 : c # b => bs[c].first # k
  BY <1>3 DEF FoundAt, Placed
<1>15. Written(as, bs, b, e)
  BY <1>5 DEF Written
<1>16. Sound(q, 0, [st EXCEPT ![k] = v])
  BY <1>1, <1>3, <1>9, <1>10, <1>11, <1>12, <1>13, <1>14, <1>15, WrittenSound
<1> QED BY <1>8, <1>16

LEMMA EraseSound ==
  ASSUME DenseMapAssumption, NEW m, NEW st \in [Key -> Value], Sound(m, 0, st),
         NEW k \in Key, NEW b,
         FoundAt(m.Buckets, m.NumBuckets, k, b), m.Buckets[b].first = k
  PROVE  Sound([m EXCEPT !.Buckets[b] = [first |-> TombstoneKey, second |-> 0],
                         !.NumEntries = @ - 1, !.NumTombstones = @ + 1],
               0, [st EXCEPT ![k] = 0])
<1>1. PICK n \in PowersOfTwo : n = m.NumBuckets /\ n \in Nat /\ n >= 8
  BY SoundType DEF Sound
<1>2. PICK bs \in [0 .. n - 1 -> Bucket] : bs = m.Buckets
  BY <1>1, SoundType
<1>3. Placed(bs, n) /\ HoldsAll(bs, n, st) /\ b \in 0 .. n - 1 /\ bs[b].first = k
  BY <1>1, <1>2 DEF Sound, FoundAt
<1>4. PICK e \in Bucket : e = [first |-> TombstoneKey, second |-> 0]
  BY DEF Bucket, DenseMapAssumption
<1>5. PICK as : as = [bs EXCEPT ![b] = e]
  OBVIOUS
<1>6. PICK x \in Nat : x = m.NumEntries /\ x = Cardinality(Occupied(bs))
  <2>1. Cardinality(Occupied(bs)) \in Nat
    BY <1>1, KeptCount
  <2> QED BY <1>2, <2>1 DEF Sound
<1>7. PICK y \in Nat : y = m.NumTombstones /\ y = Cardinality(Tombstones(bs))
  BY <1>2, SoundType DEF Sound
<1>8. PICK q : q = [m EXCEPT !.Buckets[b] = [first |-> TombstoneKey, second |-> 0],
                             !.NumEntries = @ - 1, !.NumTombstones = @ + 1]
  OBVIOUS
<1>9. Made(q, n, as, x - 1, y + 1)
  <2>1. Made(m, n, bs, x, y)
    BY <1>1, <1>2, <1>6, <1>7, FieldsMade DEF Sound
  <2>2. PICK m1 : m1 = [m EXCEPT !.Buckets = as]
    OBVIOUS
  <2>3. PICK m2 : m2 = [m1 EXCEPT !.NumEntries = x - 1]
    OBVIOUS
  <2>4. PICK m3 : m3 = [m2 EXCEPT !.NumTombstones = y + 1]
    OBVIOUS
  <2>5. Made(m1, n, as, x, y)
    BY <2>1, <2>2 DEF Made
  <2>6. Made(m2, n, as, x - 1, y)
    BY <2>3, <2>5 DEF Made
  <2>7. Made(m3, n, as, x - 1, y + 1)
    BY <2>4, <2>6 DEF Made
  <2>8. q = m3
    <3>1. q = [m EXCEPT !.Buckets[b] = e, !.NumEntries = x - 1, !.NumTombstones = y + 1]
      BY <1>4, <1>6, <1>7, <1>8
    <3>2. q = [[[m EXCEPT !.Buckets[b] = e] EXCEPT !.NumEntries = x - 1]
                  EXCEPT !.NumTombstones = y + 1]
      BY <3>1
    <3>3. [m EXCEPT !.Buckets[b] = e] = m1
      BY <1>2, <1>5, <2>2
    <3> QED BY <2>3, <2>4, <3>2, <3>3, Zenon
  <2> QED BY <2>7, <2>8
<1>10. /\ e.first = TombstoneKey /\ TombstoneKey \notin Key /\ TombstoneKey # EmptyKey
       /\ k # TombstoneKey
  BY <1>4 DEF DenseMapAssumption
<1>11. Recounted(x - 1, y + 1, bs, b, e)
  <2>1. x - 1 = x - (IF bs[b].first \in Key THEN 1 ELSE 0)
                  + (IF e.first \in Key THEN 1 ELSE 0)
    BY <1>3, <1>10
  <2>2. y + 1 = y - (IF bs[b].first = TombstoneKey THEN 1 ELSE 0)
                  + (IF e.first = TombstoneKey THEN 1 ELSE 0)
    BY <1>3, <1>10
  <2> QED BY <1>6, <1>7, <2>1, <2>2 DEF Recounted
<1>12. x - 1 + (y + 1) < n
  <2>1. x + y - 0 < n
    BY <1>1, <1>6, <1>7 DEF Sound
  <2> QED BY <1>1, <2>1
<1>13. HoldsAll(as, n, [st EXCEPT ![k] = 0])
  BY <1>1, <1>3, <1>4, <1>5, HeldErased
<1>14. Written(as, bs, b, e)
  BY <1>5 DEF Written
<1>15. Sound(q, 0, [st EXCEPT ![k] = 0])
  BY <1>1, <1>3, <1>9, <1>10, <1>11, <1>12, <1>13, <1>14, WrittenSound
<1> QED BY <1>8, <1>15

LEMMA NewSound ==
  ASSUME DenseMapAssumption, NEW n \in PowersOfTwo, n >= 8, NEW q, Made(q, n, NewBuckets(n), 0, 0)
  PROVE  Sound(q, 0, [k \in Key |-> 0])
<1>1. n \in Nat /\ n > 0
  BY PowersPositive
<1>2. PICK bs : bs = NewBuckets(n)
  OBVIOUS
<1>3. /\ Placed(bs, n) /\ Cardinality(Occupied(bs)) = 0 /\ Cardinality(Tombstones(bs)) = 0
      /\ HoldsAll(bs, n, [k \in Key |-> 0]) /\ bs \in [0 .. n - 1 -> Bucket]
  BY <1>1, <1>2, NewIs DEF Placed
<1>4. q.NumBuckets = n /\ q.Buckets = bs /\ q.NumEntries = 0 /\ q.NumTombstones = 0
  BY <1>2 DEF Made
<1>5. q \in Table
  <2>1. bs \in UNION {[0 .. i - 1 -> Bucket] : i \in Nat}
    BY <1>1, <1>3
  <2> QED BY <1>1, <1>2, <2>1 DEF Table, Made
<1>6. 0 + 0 - 0 < n /\ 0 = 0 + 0
  BY <1>1
<1> QED BY <1>3, <1>4, <1>5, <1>6 DEF Sound

-----------------------------------------------------------------------------
(* The invariant of the specification.                                         *)

MapIInv ==
    /\ Sound(map, 0, stored) /\ map.NumBuckets <= MaxBuckets
    /\ stored \in [Key -> Value]

LEMMA ClearedSize ==
  ASSUME DenseMapAssumption, NEW n \in PowersOfTwo, n <= MaxBuckets, NEW e \in Nat,
         e * 4 < n, e > InitBuckets \div 2
  PROVE  /\ 2 * PowerAtLeast(e) \in PowersOfTwo /\ 2 * PowerAtLeast(e) >= 8
         /\ 2 * PowerAtLeast(e) <= MaxBuckets
<1>1. /\ InitBuckets \in Nat /\ InitBuckets >= 8 /\ MaxBuckets \in Nat /\ e > 4 - 1
      /\ n \in Nat
  <2>1. InitBuckets \in Nat /\ InitBuckets >= 8 /\ MaxBuckets \in Nat /\ n \in Nat
    BY PowersPositive DEF DenseMapAssumption
  <2>2. InitBuckets \div 2 >= 4
    BY <2>1
  <2> QED BY <2>1, <2>2
<1>2. PICK i \in 0 .. 30 : n = TwoTo[i]
  BY DEF PowersOfTwo
<1>3. i # 0
  BY <1>1, <1>2, TwoToIs
<1>4. PICK h \in PowersOfTwo : n = 2 * h /\ h \in Nat
  <2>1. i \in 1 .. 30 /\ i - 1 \in 0 .. 30
    BY <1>3
  <2>2. n = 2 * TwoTo[i - 1] /\ TwoTo[i - 1] \in PowersOfTwo /\ TwoTo[i - 1] \in Nat
    BY <1>2, <2>1, TwoToIs DEF PowersOfTwo
  <2> QED BY <2>2
<1> DEFINE S == {p \in PowersOfTwo : p >= e}
<1>5. h \in S
  BY <1>1, <1>4
<1>6. PICK a \in S : a = Min(S) /\ \A p \in S : a <= p
  <2>1. S \in SUBSET Nat /\ S # {}
    BY <1>5, PowersPositive
  <2>2. \E a \in S : \A p \in S : a <= p
    <3> HIDE DEF S
    <3> QED BY <2>1, LeastNatural
  <2>3. Min(S) \in S /\ \A p \in S : Min(S) <= p
    <3> HIDE DEF S
    <3> QED BY <2>2 DEF Min
  <2> QED BY <2>3
<1>7. PowerAtLeast(e) = a
  BY <1>6 DEF PowerAtLeast
<1>8. a \in PowersOfTwo /\ a \in Nat /\ a >= e /\ a <= h
  BY <1>5, <1>6, PowersPositive
<1>9. a <= MaxBuckets /\ 2 * a <= MaxBuckets
  BY <1>1, <1>4, <1>8
<1>10. 2 * a \in PowersOfTwo
  BY <1>8, <1>9, DoubledIs
<1>11. 2 * a >= 8
  BY <1>1, <1>8
<1> QED BY <1>7, <1>9, <1>10, <1>11

LEMMA InitMade ==
  ASSUME NEW n
  PROVE  Made(init(n), n, NewBuckets(n), 0, 0)
BY DEF init, Made

LEMMA MapInitIs ==
  ASSUME DenseMapAssumption, MapInit
  PROVE  MapIInv
<1>1. /\ InitBuckets \in PowersOfTwo /\ InitBuckets >= 8 /\ InitBuckets <= MaxBuckets
      /\ 0 \in Value
  BY DEF DenseMapAssumption
<1>2. map = init(InitBuckets) /\ stored = [k \in Key |-> 0]
  BY DEF MapInit
<1>3. Made(map, InitBuckets, NewBuckets(InitBuckets), 0, 0)
  BY <1>2, InitMade
<1>4. Sound(map, 0, stored)
  BY <1>1, <1>2, <1>3, NewSound
<1>5. map.NumBuckets = InitBuckets
  BY <1>3 DEF Made
<1> QED BY <1>1, <1>2, <1>4, <1>5 DEF MapIInv

LEMMA MapStep ==
  ASSUME DenseMapAssumption, MapIInv, [MapNext]_mapVars
  PROVE  MapIInv'
<1>1. /\ Sound(map, 0, stored) /\ map.NumBuckets <= MaxBuckets
      /\ stored \in [Key -> Value] /\ 0 \in Value
  BY DEF MapIInv, DenseMapAssumption
<1>2. PICK n \in PowersOfTwo : n = map.NumBuckets /\ n \in Nat /\ n >= 8 /\ n <= MaxBuckets
  BY <1>1, SoundType DEF Sound
<1>3. ASSUME NEW k \in Key
      PROVE  FoundAt(map.Buckets, map.NumBuckets, k, Lookup(k))
  BY <1>1, SoundSearch DEF Lookup
<1>4. ASSUME NEW k \in Key, NEW v \in Value, Fits(map'),
             map' = InsertIntoBucket(map, k, v), stored' = [stored EXCEPT ![k] = v]
      PROVE  MapIInv'
  <2>1. Sound(map', 0, stored')
    BY <1>1, <1>4, InsertSound
  <2>2. stored' \in [Key -> Value]
    BY <1>1, <1>4
  <2> QED BY <1>4, <2>1, <2>2 DEF MapIInv, Fits
<1>5. ASSUME NEW k \in Key, insert(k, 0)
      PROVE  MapIInv'
  BY <1>1, <1>4, <1>5 DEF insert
<1>6. ASSUME NEW k \in Key, NEW v \in Value, FindAndConstruct(k, v)
      PROVE  MapIInv'
  <2>1. CASE InMap(k)
    <3>1. PICK b : b = Lookup(k)
      OBVIOUS
    <3>2. FoundAt(map.Buckets, map.NumBuckets, k, b) /\ map.Buckets[b].first = k
      BY <1>3, <2>1, <3>1 DEF InMap
    <3>3. /\ map' = [map EXCEPT !.Buckets[b].second = v] /\ Fits(map')
          /\ stored' = [stored EXCEPT ![k] = v]
      BY <1>6, <2>1, <3>1 DEF FindAndConstruct
    <3>4. Sound(map', 0, stored')
      BY <1>1, <3>2, <3>3, UpdateSound
    <3>5. stored' \in [Key -> Value]
      BY <1>1, <3>3
    <3> QED BY <3>3, <3>4, <3>5 DEF MapIInv, Fits
  <2>2. CASE ~ InMap(k)
    BY <1>4, <1>6, <2>2 DEF FindAndConstruct
  <2> QED BY <2>1, <2>2
<1>7. ASSUME NEW k \in Key, erase(k)
      PROVE  MapIInv'
  <2>1. PICK b : b = Lookup(k)
    OBVIOUS
  <2>2. FoundAt(map.Buckets, map.NumBuckets, k, b) /\ map.Buckets[b].first = k
    BY <1>3, <1>7, <2>1 DEF InMap, erase
  <2>3. /\ map' = [map EXCEPT !.Buckets[b] = [first |-> TombstoneKey, second |-> 0],
                               !.NumEntries = @ - 1, !.NumTombstones = @ + 1]
        /\ stored' = [stored EXCEPT ![k] = 0]
    BY <1>7, <2>1 DEF erase
  <2>4. Sound(map', 0, stored')
    BY <1>1, <2>2, <2>3, EraseSound
  <2>5. map'.NumBuckets = map.NumBuckets
    <3>1. map \in Table
      BY <1>1 DEF Sound
    <3> QED BY <2>3, <3>1 DEF Table
  <2>6. stored' \in [Key -> Value]
    BY <1>1, <2>3
  <2> QED BY <1>1, <2>4, <2>5, <2>6 DEF MapIInv
<1>8. ASSUME NEW Size \in {map.NumBuckets, 2 * map.NumBuckets}, resize(Size)
      PROVE  MapIInv'
  <2>1. PICK a \in PowersOfTwo : a = Doubled(map.NumBuckets, Size) /\ map.NumBuckets <= a
    <3>1. CASE Size = map.NumBuckets
      BY <1>2, <3>1, DoubledIs
    <3>2. CASE Size = 2 * map.NumBuckets
      BY <1>2, <3>2, DoubledIs
    <3> QED BY <3>1, <3>2
  <2>2. map' = grow(map, Size) /\ Fits(map') /\ stored' = stored
    BY <1>8 DEF resize
  <2>3. Sound(map', 0, stored')
    BY <1>1, <2>1, <2>2, GrownIs
  <2> QED BY <1>1, <2>2, <2>3 DEF MapIInv, Fits
<1>9. ASSUME clear PROVE MapIInv'
  <2>1. stored' = [k \in Key |-> 0]
    BY <1>9 DEF clear
  <2>2. PICK e \in Nat : e = map.NumEntries /\ e = Cardinality(Occupied(map.Buckets))
    <3>1. map.NumEntries \in Nat /\ Cardinality(Occupied(map.Buckets)) \in Nat
      BY <1>1, SoundType, KeptCount
    <3>2. map.NumEntries = Cardinality(Occupied(map.Buckets)) + 0
      BY <1>1 DEF Sound
    <3> QED BY <3>1, <3>2
  <2>3. PICK a \in PowersOfTwo : /\ a >= 8 /\ a <= MaxBuckets
                                 /\ Made(map', a, NewBuckets(a), 0, 0)
    <3>1. CASE map.NumEntries * 4 < map.NumBuckets /\ map.NumBuckets > InitBuckets
      <4>1. PICK a : a = IF map.NumEntries > InitBuckets \div 2
                         THEN 2 * PowerAtLeast(map.NumEntries) ELSE InitBuckets
        OBVIOUS
      <4>2. map' = init(a)
        BY <1>9, <3>1, <4>1 DEF clear
      <4>3. a \in PowersOfTwo /\ a >= 8 /\ a <= MaxBuckets
        <5>1. CASE e > InitBuckets \div 2
          <6>1. a = 2 * PowerAtLeast(e)
            BY <2>2, <4>1, <5>1
          <6>2. e * 4 < n
            BY <1>2, <2>2, <3>1
          <6> QED BY <1>2, <5>1, <6>1, <6>2, ClearedSize
        <5>2. CASE ~ (e > InitBuckets \div 2)
          BY <2>2, <4>1, <5>2 DEF DenseMapAssumption
        <5> QED BY <5>1, <5>2
      <4> QED BY <4>2, <4>3, InitMade
    <3>2. CASE ~ (map.NumEntries * 4 < map.NumBuckets /\ map.NumBuckets > InitBuckets)
      <4>1. map' = [init(map.NumBuckets) EXCEPT !.NumEntries =
                        map.NumEntries - Cardinality(Occupied(map.Buckets))]
        BY <1>9, <3>2 DEF clear
      <4>2. map' = [init(n) EXCEPT !.NumEntries = 0]
        <5>1. map.NumEntries - Cardinality(Occupied(map.Buckets)) = 0
          BY <2>2
        <5> QED BY <1>2, <4>1, <5>1
      <4>3. Made(map', n, NewBuckets(n), 0, 0)
        BY <4>2 DEF init, Made
      <4> QED BY <1>2, <4>3
    <3> QED BY <3>1, <3>2
  <2>4. Sound(map', 0, stored')
    BY <2>1, <2>3, NewSound
  <2>5. map'.NumBuckets = a
    BY <2>3 DEF Made
  <2> QED BY <1>1, <2>1, <2>3, <2>4, <2>5 DEF MapIInv
<1>10. CASE UNCHANGED mapVars
  BY <1>10 DEF mapVars, MapIInv
<1> QED BY <1>5, <1>6, <1>7, <1>8, <1>9, <1>10 DEF MapNext

\* No key has two buckets: there are as many keys as entries.
LEMMA KeysCounted ==
  ASSUME NEW n \in Nat, NEW bs, Placed(bs, n)
  PROVE  /\ Cardinality({bs[b].first : b \in Occupied(bs)}) = Cardinality(Occupied(bs))
         /\ Cardinality(Occupied(bs)) \in Nat
<1> DEFINE O == Occupied(bs)
           K == {bs[b].first : b \in O}
           f == [b \in O |-> bs[b].first]
<1>1. bs \in [0 .. n - 1 -> Bucket]
  BY DEF Placed
<1>2. O \subseteq 0 .. n - 1 /\ \A b \in O : bs[b].first \in Key
  BY <1>1 DEF Occupied
<1>3. IsFiniteSet(O) /\ Cardinality(O) \in Nat
  BY <1>1, n \in 0 .. n, KeptIs, FS_CardinalityType
<1> HIDE DEF O
<1>4. f \in Bijection(O, K)
  <2>1. f \in [O -> K] /\ \A x \in K : \E b \in O : f[b] = x
    OBVIOUS
  <2>2. ASSUME NEW a \in O, NEW b \in O, f[a] = f[b] PROVE a = b
    <3>1. bs[a].first = bs[b].first
      BY <2>2
    <3> QED BY <1>2, <3>1 DEF Placed
  <2> HIDE DEF f, K
  <2>3. f \in Injection(O, K)
    BY <2>1, <2>2 DEF Injection, IsInjective
  <2>4. f \in Surjection(O, K)
    BY <2>1 DEF Surjection
  <2> QED BY <2>3, <2>4 DEF Bijection
<1>5. Cardinality(K) = Cardinality(O)
  <2> HIDE DEF K, f
  <2> QED BY <1>3, <1>4, FS_Bijection DEF ExistsBijection
<1> QED BY <1>3, <1>5 DEF O

LEMMA SoundConsistent ==
  ASSUME DenseMapAssumption, MapIInv
  PROVE  TableConsistent
<1>1. Sound(map, 0, stored) /\ stored \in [Key -> Value]
  BY DEF MapIInv
<1>2. MapTypeOK
  BY <1>1, SoundType DEF MapTypeOK, Sound
<1>3. map.NumBuckets \in Nat /\ Placed(map.Buckets, map.NumBuckets)
  BY <1>1, SoundType DEF Sound
<1>4. map.NumEntries = Cardinality(Occupied(map.Buckets))
  <2>1. map.NumEntries = Cardinality(Occupied(map.Buckets)) + 0
    BY <1>1 DEF Sound
  <2>2. Cardinality(Occupied(map.Buckets)) \in Nat
    BY <1>3, KeysCounted
  <2> QED BY <2>1, <2>2
<1>5. map.NumTombstones =
        Cardinality({b \in DOMAIN map.Buckets : map.Buckets[b].first = TombstoneKey})
  BY <1>1 DEF Sound, Tombstones
<1>6. map.NumEntries = Cardinality({map.Buckets[b].first : b \in Occupied(map.Buckets)})
  BY <1>3, <1>4, KeysCounted
<1> QED BY <1>2, <1>4, <1>5, <1>6 DEF TableConsistent, CountsExact

\* s lists the keys of the buckets before p, each once.
Lists(s, bs, p) ==
    /\ s \in Seq(Key)
    /\ \A i \in 1 .. Len(s) : \E c \in 0 .. p - 1 : bs[c].first = s[i]
    /\ \A c \in 0 .. p - 1 : bs[c].first \in Key => \E i \in 1 .. Len(s) : s[i] = bs[c].first
    /\ \A i, j \in 1 .. Len(s) : s[i] = s[j] => i = j

LEMMA ListsMore ==
  ASSUME NEW n \in Nat, NEW bs, Placed(bs, n), NEW p \in 0 .. n - 1, NEW s, Lists(s, bs, p)
  PROVE  Lists(IF bs[p].first \in Key THEN Append(s, bs[p].first) ELSE s, bs, p + 1)
<1>1. \A c \in 0 .. p : c \in 0 .. p - 1 \/ c = p
  OBVIOUS
<1>2. \A c \in 0 .. p - 1 : c \in 0 .. p /\ c \in 0 .. n - 1 /\ c # p
  OBVIOUS
<1>3. p \in 0 .. p /\ p + 1 - 1 = p
  OBVIOUS
<1>4. CASE bs[p].first \notin Key
  BY <1>1, <1>2, <1>3, <1>4 DEF Lists
<1>5. CASE bs[p].first \in Key
  <2>1. PICK k \in Key : k = bs[p].first
    BY <1>5
  <2>2. PICK m \in Nat : m = Len(s) /\ s \in Seq(Key)
    BY LenProperties DEF Lists
  <2>3. PICK t : t = Append(s, k)
    OBVIOUS
  <2>4. /\ t \in Seq(Key) /\ Len(t) = m + 1 /\ t[m + 1] = k
        /\ \A i \in 1 .. m : t[i] = s[i]
    BY <2>2, <2>3, AppendProperties
  <2>5. \A i \in 1 .. m + 1 : i \in 1 .. m \/ i = m + 1
    OBVIOUS
  <2>6. \A i \in 1 .. m : s[i] # k /\ i \in 1 .. m + 1 /\ i # m + 1
    <3> SUFFICES ASSUME NEW i \in 1 .. m PROVE s[i] # k /\ i \in 1 .. m + 1 /\ i # m + 1
      OBVIOUS
    <3>1. PICK c \in 0 .. p - 1 : bs[c].first = s[i]
      BY <2>2 DEF Lists
    <3>2. bs[c].first # k
      BY <1>2, <2>1 DEF Placed
    <3> QED BY <3>1, <3>2
  <2>7. ASSUME NEW i \in 1 .. m + 1 PROVE \E c \in 0 .. p : bs[c].first = t[i]
    <3>1. CASE i \in 1 .. m
      <4>1. PICK c \in 0 .. p - 1 : bs[c].first = s[i]
        BY <2>2, <3>1 DEF Lists
      <4> QED BY <1>2, <2>4, <3>1, <4>1
    <3>2. CASE i = m + 1
      BY <1>3, <2>1, <2>4, <3>2
    <3> QED BY <2>5, <3>1, <3>2
  <2>8. ASSUME NEW c \in 0 .. p, bs[c].first \in Key
        PROVE  \E i \in 1 .. m + 1 : t[i] = bs[c].first
    <3>1. CASE c \in 0 .. p - 1
      <4>1. PICK i \in 1 .. m : s[i] = bs[c].first
        BY <2>2, <2>8, <3>1 DEF Lists
      <4> QED BY <2>4, <2>6, <4>1
    <3>2. CASE c = p
      <4>1. m + 1 \in 1 .. m + 1
        OBVIOUS
      <4> QED BY <2>1, <2>4, <3>2, <4>1
    <3> QED BY <1>1, <3>1, <3>2
  <2>9. ASSUME NEW i \in 1 .. m + 1, NEW j \in 1 .. m + 1, t[i] = t[j] PROVE i = j
    <3>1. CASE i \in 1 .. m /\ j \in 1 .. m
      BY <2>2, <2>4, <2>9, <3>1 DEF Lists
    <3>2. CASE i = m + 1 /\ j \in 1 .. m
      BY <2>4, <2>6, <2>9, <3>2
    <3>3. CASE i \in 1 .. m /\ j = m + 1
      BY <2>4, <2>6, <2>9, <3>3
    <3>4. CASE i = m + 1 /\ j = m + 1
      BY <3>4
    <3> QED BY <2>5, <3>1, <3>2, <3>3, <3>4
  <2>10. Lists(t, bs, p + 1)
    BY <1>3, <2>4, <2>7, <2>8, <2>9 DEF Lists
  <2> QED BY <1>5, <2>1, <2>3, <2>10
<1> QED BY <1>4, <1>5

\* An iteration meets every key in the table, once.
LEMMA IteratedIs ==
  ASSUME DenseMapAssumption, MapIInv
  PROVE  Lists(Iterated, map.Buckets, map.NumBuckets)
<1> DEFINE Eq(f) == f = [p \in 0 .. map.NumBuckets |->
                          IF p = 0 THEN <<>>
                          ELSE IF map.Buckets[p - 1].first \in Key
                          THEN Append(f[p - 1], map.Buckets[p - 1].first)
                          ELSE f[p - 1]]
           H == CHOOSE f : Eq(f)
<1>1. Iterated = IF map.NumEntries = 0 THEN <<>> ELSE H[map.NumBuckets]
  BY Zenon DEF Iterated
<1>2. PICK n \in Nat : n = map.NumBuckets
  BY SoundType DEF MapIInv
<1>3. PICK bs \in [0 .. n - 1 -> Bucket] : bs = map.Buckets /\ Placed(bs, n)
  BY <1>2, SoundType DEF MapIInv, Sound
<1> DEFINE T == Seq(Key)
           Next1(s, p) == IF bs[p].first \in Key THEN Append(s, bs[p].first) ELSE s
           G == [x \in T \X (1 .. n) |-> Next1(x[1], x[2] - 1)]
<1>4. <<>> \in T /\ Lists(<<>>, bs, 0)
  BY EmptySeq DEF Lists
<1>5. \A s \in T : \A p \in 0 .. n - 1 : Next1(s, p) \in T
  BY AppendProperties
<1>6. G \in [T \X (1 .. n) -> T]
  <2>1. ASSUME NEW x \in T \X (1 .. n) PROVE x[1] \in T /\ x[2] - 1 \in 0 .. n - 1
    OBVIOUS
  <2>2. \A x \in T \X (1 .. n) : Next1(x[1], x[2] - 1) \in T
    <3> HIDE DEF Next1, T
    <3> QED BY <1>5, <2>1
  <2> HIDE DEF Next1, T
  <2> QED BY <2>2
<1> HIDE DEF T
<1>7. PICK f \in [0 .. n -> T] : CountedUp(f, n, <<>>, G)
  <2> HIDE DEF G
  <2> QED BY <1>4, <1>6, CountedExists
<1>8. ASSUME NEW p \in 0 .. n
      PROVE  f[p] = IF p = 0 THEN <<>> ELSE Next1(f[p - 1], p - 1)
  <2>1. f[p] = IF p = 0 THEN <<>> ELSE G[<<f[p - 1], p>>]
    <3> HIDE DEF G
    <3> QED BY <1>7 DEF CountedUp
  <2>2. CASE p = 0
    <3> HIDE DEF G, Next1
    <3> QED BY <2>1, <2>2
  <2>3. CASE p # 0
    <3>1. p - 1 \in 0 .. n /\ p \in 1 .. n
      BY <2>3
    <3>2. <<f[p - 1], p>> \in T \X (1 .. n)
      BY <3>1
    <3> HIDE DEF Next1
    <3>3. G[<<f[p - 1], p>>] = Next1(f[p - 1], p - 1)
      BY <3>2
    <3> HIDE DEF G
    <3> QED BY <2>1, <2>3, <3>3
  <2> QED BY <2>2, <2>3
<1> HIDE DEF G
<1>9. Eq(f)
  <2>1. f = [p \in 0 .. n |-> f[p]]
    OBVIOUS
  <2>2. f = [p \in 0 .. n |-> IF p = 0 THEN <<>> ELSE Next1(f[p - 1], p - 1)]
    <3> HIDE DEF Next1
    <3> QED BY <1>8, <2>1
  <2> QED BY <1>2, <1>3, <2>2
<1>10. Eq(H)
  BY <1>9
<1> HIDE DEF H
<1>11. ASSUME NEW p \in 0 .. n PROVE H[p] = IF p = 0 THEN <<>> ELSE Next1(H[p - 1], p - 1)
  BY <1>2, <1>3, <1>10
<1> DEFINE U == {p \in 0 .. n : Lists(H[p], bs, p)}
<1>12. 0 \in U
  BY <1>4, <1>11
<1>13. ASSUME NEW p \in 0 .. n - 1, p \in U PROVE p + 1 \in U
  <2>1. p + 1 \in 0 .. n /\ p + 1 # 0 /\ p + 1 - 1 = p
    OBVIOUS
  <2>2. Lists(H[p], bs, p)
    BY <1>13
  <2>3. Lists(Next1(H[p], p), bs, p + 1)
    BY <1>3, <2>2, ListsMore
  <2> HIDE DEF Next1
  <2>4. H[p + 1] = Next1(H[p], p)
    BY <1>11, <2>1
  <2> QED BY <2>1, <2>3, <2>4
<1> HIDE DEF U
<1>14. \A p \in 0 .. n : p \in U
  BY <1>12, <1>13, CountsUp
<1>15. Lists(H[n], bs, n)
  BY <1>14 DEF U
<1>16. CASE map.NumEntries = 0
  <2>1. Occupied(bs) = {}
    <3>1. IsFiniteSet(Occupied(bs))
      BY n \in 0 .. n, KeptIs
    <3>2. Cardinality(Occupied(bs)) = 0
      BY <1>3, <1>16, SoundConsistent DEF TableConsistent, CountsExact
    <3> QED BY <3>1, <3>2, FS_EmptySet
  <2>2. \A c \in 0 .. n - 1 : bs[c].first \notin Key
    BY <2>1 DEF Occupied
  <2>3. Lists(<<>>, bs, n)
    BY <2>2, EmptySeq DEF Lists
  <2> QED BY <1>1, <1>2, <1>3, <1>16, <2>3
<1> QED BY <1>1, <1>2, <1>3, <1>15, <1>16

LEMMA SoundFinds ==
  ASSUME DenseMapAssumption, MapIInv
  PROVE  SearchesFind
<1>1. PICK n \in Nat : n = map.NumBuckets /\ Sound(map, 0, stored)
  BY SoundType DEF MapIInv
<1>2. PICK bs : bs = map.Buckets /\ Placed(bs, n) /\ HoldsAll(bs, n, stored)
  BY <1>1 DEF Sound
<1>3. ASSUME NEW k \in Key PROVE FoundAt(bs, n, k, Lookup(k))
  BY <1>1, <1>2, SoundSearch DEF Lookup
<1>4. ASSUME NEW k \in Key PROVE Lookup(k) \in 0 .. n - 1 /\ Lookup(k) # Fatal
  <2>1. Lookup(k) \in 0 .. n - 1
    BY <1>3 DEF FoundAt
  <2> QED BY <2>1 DEF Fatal
<1>5. ASSUME NEW k \in Key PROVE lookup(k) = stored[k]
  <2>1. CASE bs[Lookup(k)].first = k
    <3>1. InMap(k)
      BY <1>2, <1>4, <2>1 DEF InMap
    <3>2. bs[Lookup(k)].second = stored[k]
      BY <1>2, <1>4, <2>1, HeldIs
    <3> QED BY <1>2, <3>1, <3>2 DEF lookup
  <2>2. CASE bs[Lookup(k)].first # k
    <3>1. ~ InMap(k)
      BY <1>2, <2>2 DEF InMap
    <3>2. Absent(bs, n, k)
      BY <1>3, <2>2 DEF FoundAt
    <3>3. stored[k] = 0
      BY <1>2, <3>2 DEF HoldsAll, Absent
    <3> QED BY <3>1, <3>3 DEF lookup
  <2> QED BY <2>1, <2>2
<1>6. PICK s : s = Iterated /\ Lists(s, bs, n)
  BY <1>1, <1>2, IteratedIs
<1>7. DOMAIN s = 1 .. Len(s)
  BY <1>6, LenProperties DEF Lists
<1>8. ASSUME NEW k \in Key, stored[k] # 0 PROVE k \in ToSet(s)
  <2>1. PICK c \in 0 .. n - 1 : bs[c].first = k
    BY <1>2, <1>8 DEF HoldsAll
  <2>2. PICK i \in 1 .. Len(s) : s[i] = k
    BY <1>6, <2>1 DEF Lists
  <2> QED BY <1>7, <2>2 DEF ToSet
<1>9. IsInjective(s)
  BY <1>6, <1>7 DEF Lists, IsInjective
<1>10. FindsWhatWasStored
  <2>1. {k \in Key : stored[k] # 0} \subseteq ToSet(s)
    BY <1>8
  <2> QED BY <1>5, <1>6, <1>9, <2>1, Zenon DEF FindsWhatWasStored
<1> QED BY <1>4, <1>10 DEF SearchesFind, SearchesEnd

\* The counters of the reference count table stay exact, and no key gets two
\* buckets, through every insertion, erasure, purge, rehash and clearing.
THEOREM CountTableStaysConsistent == MapSpec => []TableConsistent
<1>1. MapInit => MapIInv
  BY MapInitIs, DenseMapAssumption
<1>2. MapIInv /\ [MapNext]_mapVars => MapIInv'
  BY MapStep, DenseMapAssumption
<1>3. MapIInv => TableConsistent
  BY SoundConsistent, DenseMapAssumption
<1> QED BY <1>1, <1>2, <1>3, PTL DEF MapSpec

\* No search of the reference count table runs out of buckets, each finds what was
\* last stored under its key, and an iteration meets every such key, once.
THEOREM SearchesStayRight == MapSpec => []SearchesFind
<1>1. MapInit => MapIInv
  BY MapInitIs, DenseMapAssumption
<1>2. MapIInv /\ [MapNext]_mapVars => MapIInv'
  BY MapStep, DenseMapAssumption
<1>3. MapIInv => SearchesFind
  BY SoundFinds, DenseMapAssumption
<1> QED BY <1>1, <1>2, <1>3, PTL DEF MapSpec
=============================================================================
