---------------------------- MODULE StorageProofs ----------------------------
(***************************************************************************)
(* Proofs about what an object, a property or a cache is stored in: about  *)
(* Accessors, for any number of threads, objects, properties, structures   *)
(* and calls, and any hash of addresses to locks; and about CacheAllocator,*)
(* for any sizes and any number of caches and regions; and about           *)
(* IvarLayout, for any hierarchy and ivars.                                *)
(*                                                                         *)
(* NoTearing: a copy holds the locks of both its ends while it moves, so   *)
(* that of two copies that move no one writes what the other reads or      *)
(* writes; a structure whose first word alone has been moved has the first *)
(* word of its source, which is whole.                                     *)
(*                                                                         *)
(* PropertiesConsistent: what a getter or setter has read is still in the  *)
(* property when it acts on it, because it holds the property's lock or,   *)
(* if that is not atomic, is the only one to use it.  Each step then       *)
(* changes the count of an object by what it changes in the references of  *)
(* its own thread and of the property it writes.                           *)
(*                                                                         *)
(* CacheMemoryExact: every word of a region is in one free block or in one *)
(* cache's block, and in one only; and free blocks never touch.            *)
(*                                                                         *)
(* IvarsApart: a realized class starts where its superclass ends or after  *)
(* it, and slides only by what all its alignments divide.                  *)
(***************************************************************************)
EXTENDS Accessors, CacheAllocator, IvarLayout, FoldLemmas

\* Where a thread is in an accessor of an object, or of a structure.
SlotPlaces == {"get", "set", "swap", "release", "done"}
CopyPlaces == {"lock1", "lock2", "copy1", "copy2", "unlock1", "unlock2"}
Place == {"idle"} \cup SlotPlaces \cup CopyPlaces

\* The variables' types, the counts as far as they are known without counting.
Shape ==
    /\ slot \in [Slot -> Obj \cup {NULL}]
    /\ struct \in [Struct -> Struct \X Struct]
    /\ PropertyLocks \in [LockIndex -> Thread \cup {NULL}]
    /\ StructLocks \in [LockIndex -> Thread \cup {NULL}]
    /\ rc \in [Obj -> Int] /\ freed \subseteq Obj
    /\ held \in [Thread -> [Obj -> Nat]]
    /\ pc \in [Thread -> Place]
    /\ at \in [Thread -> Slot \cup Struct \cup {NULL}]
    /\ src \in [Thread -> Obj \cup Struct \cup {NULL}]
    /\ value \in [Thread -> Obj \cup {NULL}]

\* What a thread's variables mean follows from where it is.
Placed ==
    \A t \in Thread :
        /\ pc[t] \in SlotPlaces => at[t] \in Slot
        /\ pc[t] = "get" => at[t] \notin NonAtomic
        /\ pc[t] \in {"swap", "release"} => src[t] \in Obj \cup {NULL}
        /\ pc[t] \in CopyPlaces => at[t] \in Struct /\ src[t] \in Struct /\ at[t] # src[t]

-----------------------------------------------------------------------------
(* Structures.                                                                 *)

\* The locks a copy holds: the first while it waits for the second, both until it
\* has moved both words.
CopyLocksHeld ==
    \A t \in Thread :
        /\ pc[t] = "lock2" => StructLocks[Locks(t)[1]] = t
        /\ pc[t] \in {"lock2", "unlock2"} => Len(Locks(t)) = 2
        /\ pc[t] \in {"copy1", "copy2", "unlock1"} =>
              \A n \in 1 .. Len(Locks(t)) : StructLocks[Locks(t)[n]] = t
        /\ pc[t] = "unlock2" => StructLocks[Locks(t)[2]] = t

\* A structure is whole unless one word of it has been moved and not the other;
\* then that word is its source's.
WholeOrHalf ==
    /\ \A d \in Struct :
         (\A t \in Thread : ~(at[t] = d /\ pc[t] = "copy2")) => struct[d][1] = struct[d][2]
    /\ \A t \in Thread : pc[t] = "copy2" => struct[at[t]][1] = struct[src[t]][1]

StructInv == Shape /\ Placed /\ CopyLocksHeld /\ WholeOrHalf

-----------------------------------------------------------------------------
(* Properties that hold objects.                                               *)

\* A getter, and a setter between its read and its write, holds the property's lock
\* or is the only one to use the property.
SlotLocksHeld ==
    \A t \in Thread :
        pc[t] = "get" \/ (pc[t] = "swap" /\ at[t] \notin NonAtomic) =>
            PropertyLocks[GOODHASH[at[t]]] = t

UsedByOne ==
    \A t, u \in Thread :
        t # u /\ pc[t] \in SlotPlaces /\ pc[u] \in SlotPlaces /\ at[t] = at[u] =>
            at[t] \notin NonAtomic

\* so that what it read is still there.
ReadIsThere ==
    \A t \in Thread :
        /\ pc[t] = "get" => value[t] = slot[at[t]]
        /\ pc[t] = "swap" => src[t] = slot[at[t]]

FreedAreGone == \A o \in freed : rc[o] = 0

SlotInv ==
    /\ Shape /\ Placed /\ SlotLocksHeld /\ UsedByOne /\ ReadIsThere
    /\ RefcountExact /\ FreedAreGone

\* The lock of an address is one of those there are.
LEMMA LocksThere ==
  \A a \in Slot \cup Struct : GOODHASH[a] \in LockIndex /\ GOODHASH[a] \in Nat
BY AccessorsAssumption DEF LockIndex

\* The locks of a copy, in their order.
LEMMA LocksAre ==
  ASSUME Placed, NEW t \in Thread, pc[t] \in CopyPlaces
  PROVE  /\ Len(Locks(t)) \in {1, 2}
         /\ \A n \in 1 .. Len(Locks(t)) : Locks(t)[n] \in LockIndex
         /\ \A a \in {at[t], src[t]} : \E n \in 1 .. Len(Locks(t)) : Locks(t)[n] = GOODHASH[a]
         /\ Len(Locks(t)) = 2 => Locks(t)[1] # Locks(t)[2]
<1>1. /\ at[t] \in Slot \cup Struct /\ src[t] \in Slot \cup Struct
  BY DEF Placed
<1>2. PICK a, b : a = GOODHASH[src[t]] /\ b = GOODHASH[at[t]]
  OBVIOUS
<1>3. a \in LockIndex /\ b \in LockIndex /\ a \in Nat /\ b \in Nat
  BY <1>1, <1>2, LocksThere
<1>4. Locks(t) = IF a = b THEN <<a>> ELSE IF a < b THEN <<a, b>> ELSE <<b, a>>
  BY <1>2 DEF Locks, LockOrder
<1>5. \A c \in {at[t], src[t]} : GOODHASH[c] = a \/ GOODHASH[c] = b
  BY <1>2
<1>6. CASE a = b
  <2>1. Locks(t) = <<a>> /\ Len(<<a>>) = 1 /\ <<a>>[1] = a /\ 1 \in 1 .. 1
    BY <1>4, <1>6
  <2> QED BY <1>3, <1>5, <1>6, <2>1
<1>7. CASE a # b
  <2>1. PICK c, d : Locks(t) = <<c, d>> /\ {c, d} = {a, b} /\ c # d
    BY <1>4, <1>7
  <2>2. Len(<<c, d>>) = 2 /\ <<c, d>>[1] = c /\ <<c, d>>[2] = d /\ 1 .. 2 = {1, 2}
    OBVIOUS
  <2> QED BY <1>3, <1>5, <2>1, <2>2
<1> QED BY <1>6, <1>7

\* The types, and where the threads are, are kept.
LEMMA ShapeNext ==
  ASSUME Shape, Placed, [Next]_vars
  PROVE  Shape' /\ Placed'
<1> USE DEF SlotPlaces, CopyPlaces, Place
<1>1. CASE UNCHANGED vars
  BY <1>1 DEF vars, Shape, Placed
<1>2. ASSUME NEW t \in Thread, NEW s \in Slot, GetNonAtomic(t, s) PROVE Shape' /\ Placed'
  BY <1>2 DEF GetNonAtomic, objects, Shape, Placed
<1>3. ASSUME NEW t \in Thread, NEW s \in Slot, GetLock(t, s) PROVE Shape' /\ Placed'
  <2>1. GOODHASH[s] \in LockIndex /\ slot[s] \in Obj \cup {NULL}
    BY LocksThere DEF Shape
  <2>2. Shape'
    BY <1>3, <2>1 DEF GetLock, Begin, Goto, Shape
  <2>3. Placed'
    BY <1>3 DEF GetLock, Begin, Goto, Atomic, Shape, Placed
  <2> QED BY <2>2, <2>3
<1>4. ASSUME NEW t \in Thread, NEW s \in Slot, NEW o \in Obj \cup {NULL}, NEW copy \in BOOLEAN,
             SetBegin(t, s, o, copy)
      PROVE  Shape' /\ Placed'
  <2>1. \E place \in {"done", "set"} : pc' = [pc EXCEPT ![t] = place]
    BY <1>4 DEF SetBegin, Goto
  <2>2. rc' \in [Obj -> Int]
    BY <1>4 DEF SetBegin, Retained, Shape
  <2>3. /\ at' = [at EXCEPT ![t] = s] /\ value' = [value EXCEPT ![t] = o] /\ src' = src
        /\ UNCHANGED <<slot, struct, PropertyLocks, StructLocks, freed, held>>
    BY <1>4 DEF SetBegin, Begin
  <2>4. Shape'
    BY <2>1, <2>2, <2>3 DEF Shape
  <2>5. Placed'
    BY <2>1, <2>3 DEF Shape, Placed
  <2> QED BY <2>4, <2>5
<1>5. ASSUME NEW t \in Thread, NEW o \in Obj, Drop(t, o) PROVE Shape' /\ Placed'
  <2>1. held' \in [Thread -> [Obj -> Nat]]
    BY <1>5 DEF Drop, Shape
  <2>2. rc' \in [Obj -> Int] /\ freed' \subseteq Obj
    BY <1>5 DEF Drop, ReleaseObject, Shape
  <2> QED BY <1>5, <2>1, <2>2 DEF Drop, Shape, Placed
<1>6. ASSUME NEW t \in Thread, NEW d \in Struct, NEW s \in Struct, CopyBegin(t, d, s)
      PROVE  Shape' /\ Placed'
  <2>1. Shape'
    BY <1>6 DEF CopyBegin, Begin, Goto, objects, Shape
  <2>2. Placed'
    BY <1>6 DEF CopyBegin, Begin, Goto, Shape, Placed
  <2> QED BY <2>1, <2>2
<1>7. ASSUME NEW t \in Thread, Step(t) PROVE Shape' /\ Placed'
  <2>1. CASE GetRetain(t)
    <3>1. at[t] \in Slot
      BY <2>1 DEF GetRetain, Placed
    <3>2. GOODHASH[at[t]] \in LockIndex
      BY <3>1, LocksThere
    <3>3. rc' \in [Obj -> Int] /\ held' \in [Thread -> [Obj -> Nat]]
      <4>1. CASE value[t] = NULL
        BY <2>1, <4>1 DEF GetRetain, Shape
      <4>2. CASE value[t] # NULL
        <5>1. PICK o \in Obj : o = value[t]
          BY <4>2 DEF Shape
        <5>2. rc' = [rc EXCEPT ![o] = @ + 1] /\ held' = [held EXCEPT ![t][o] = @ + 1]
          BY <2>1, <4>2, <5>1 DEF GetRetain
        <5> QED BY <5>2 DEF Shape
      <4> QED BY <4>1, <4>2
    <3> QED BY <2>1, <3>2, <3>3 DEF GetRetain, End, Goto, Shape, Placed
  <2>2. CASE SetRead(t)
    <3>1. at[t] \in Slot
      BY <2>2 DEF SetRead, Placed
    <3>2. GOODHASH[at[t]] \in LockIndex /\ slot[at[t]] \in Obj \cup {NULL}
      BY <3>1, LocksThere DEF Shape
    <3>3. PropertyLocks' \in [LockIndex -> Thread \cup {NULL}]
      BY <2>2, <3>2 DEF SetRead, Shape
    <3> QED BY <2>2, <3>2, <3>3 DEF SetRead, Goto, Shape, Placed
  <2>3. CASE SetWrite(t)
    <3>1. at[t] \in Slot
      BY <2>3 DEF SetWrite, Placed
    <3>2. PICK s \in Slot : s = at[t]
      BY <3>1
    <3>3. PICK x \in Obj \cup {NULL} : x = value[t]
      BY DEF Shape
    <3>4. slot' = [slot EXCEPT ![s] = x]
      BY <2>3, <3>2, <3>3 DEF SetWrite
    <3>5. PropertyLocks' \in [LockIndex -> Thread \cup {NULL}]
      BY <2>3, <3>2, LocksThere DEF SetWrite, Shape
    <3>6. /\ UNCHANGED <<struct, StructLocks, rc, freed, held, at, src, value>>
          /\ pc[t] = "swap" /\ pc' = [pc EXCEPT ![t] = "release"]
      BY <2>3 DEF SetWrite, Goto
    <3>7. Shape'
      BY <3>4, <3>5, <3>6 DEF Shape
    <3>8. Placed'
      BY <3>6 DEF Shape, Placed
    <3> QED BY <3>7, <3>8
  <2>4. CASE SetRelease(t)
    <3>1. rc' \in [Obj -> Int] /\ freed' \subseteq Obj
      <4>1. CASE src[t] = NULL
        BY <2>4, <4>1 DEF SetRelease, Shape
      <4>2. CASE src[t] # NULL
        <5>1. PICK o \in Obj : o = src[t]
          BY <2>4, <4>2 DEF SetRelease, Placed
        <5> QED BY <2>4, <4>2, <5>1 DEF SetRelease, ReleaseObject, Shape
      <4> QED BY <4>1, <4>2
    <3> QED BY <2>4, <3>1 DEF SetRelease, End, Goto, Shape, Placed
  <2>5. CASE SetSame(t)
    BY <2>5 DEF SetSame, End, Goto, objects, Shape, Placed
  <2>6. ASSUME NEW n \in {1, 2}, CopyLock(t, n) PROVE Shape' /\ Placed'
    <3>1. pc[t] \in CopyPlaces /\ pc'[t] \in CopyPlaces
      BY <2>6 DEF CopyLock, Goto, Shape
    <3>2. StructLocks' \in [LockIndex -> Thread \cup {NULL}]
      BY <2>6 DEF CopyLock, Shape
    <3>3. \E place \in CopyPlaces : pc' = [pc EXCEPT ![t] = place]
      BY <2>6 DEF CopyLock, Goto
    <3> QED BY <2>6, <3>1, <3>2, <3>3 DEF CopyLock, objects, Shape, Placed
  <2>7. ASSUME NEW n \in {1, 2}, CopyWord(t, n) PROVE Shape' /\ Placed'
    <3>1. PICK d \in Struct, s \in Struct : d = at[t] /\ s = src[t]
      BY <2>7 DEF CopyWord, Placed
    <3>2. struct' = [struct EXCEPT ![d][n] = struct[s][n]]
      BY <2>7, <3>1 DEF CopyWord
    <3>3. struct' \in [Struct -> Struct \X Struct]
      <4>1. struct[d] \in Struct \X Struct /\ struct[s][n] \in Struct
        BY DEF Shape
      <4>2. [struct[d] EXCEPT ![n] = struct[s][n]] \in Struct \X Struct
        BY <4>1
      <4> QED BY <3>2, <4>2 DEF Shape
    <3>4. \E place \in CopyPlaces : pc' = [pc EXCEPT ![t] = place]
      BY <2>7 DEF CopyWord, Goto
    <3>5. pc[t] \in CopyPlaces
      BY <2>7 DEF CopyWord
    <3> QED BY <2>7, <3>3, <3>4, <3>5 DEF CopyWord, objects, Shape, Placed
  <2>8. ASSUME NEW n \in {1, 2}, CopyUnlock(t, n) PROVE Shape' /\ Placed'
    <3>1. StructLocks' \in [LockIndex -> Thread \cup {NULL}]
      BY <2>8 DEF CopyUnlock, Shape
    <3>2. pc[t] \in CopyPlaces
      BY <2>8 DEF CopyUnlock
    <3>3. CASE n < Len(Locks(t))
      <4>1. /\ pc' = [pc EXCEPT ![t] = "unlock2"] /\ UNCHANGED <<at, src, value>>
            /\ UNCHANGED <<slot, PropertyLocks, rc, freed, held, struct>>
        BY <2>8, <3>3 DEF CopyUnlock, Goto, objects
      <4>2. Shape'
        BY <3>1, <4>1 DEF Shape
      <4>3. Placed'
        BY <3>2, <4>1 DEF Shape, Placed
      <4> QED BY <4>2, <4>3
    <3>4. CASE ~ (n < Len(Locks(t)))
      <4>1. /\ pc' = [pc EXCEPT ![t] = "idle"] /\ at' = [at EXCEPT ![t] = NULL]
            /\ value' = [value EXCEPT ![t] = NULL] /\ src' = [src EXCEPT ![t] = NULL]
            /\ UNCHANGED <<slot, PropertyLocks, rc, freed, held, struct>>
        BY <2>8, <3>4 DEF CopyUnlock, End, Goto, objects
      <4>2. Shape'
        BY <3>1, <4>1 DEF Shape
      <4>3. Placed'
        BY <4>1 DEF Shape, Placed
      <4> QED BY <4>2, <4>3
    <3> QED BY <3>3, <3>4
  <2> QED BY <1>7, <2>1, <2>2, <2>3, <2>4, <2>5, <2>6, <2>7, <2>8 DEF Step
<1> QED BY <1>1, <1>2, <1>3, <1>4, <1>5, <1>6, <1>7 DEF Next

\* Where the other threads are is left alone by a step of t.
OthersStay(t) ==
    \A u \in Thread \ {t} :
        pc'[u] = pc[u] /\ at'[u] = at[u] /\ src'[u] = src[u] /\ value'[u] = value[u]

\* The locks that a thread holds for its copy.
HeldLocks(t) ==
    /\ pc[t] = "lock2" => StructLocks[Locks(t)[1]] = t
    /\ pc[t] \in {"lock2", "unlock2"} => Len(Locks(t)) = 2
    /\ pc[t] \in {"copy1", "copy2", "unlock1"} =>
          \A n \in 1 .. Len(Locks(t)) : StructLocks[Locks(t)[n]] = t
    /\ pc[t] = "unlock2" => StructLocks[Locks(t)[2]] = t

\* It goes on holding them when the lock that is taken or released is not one of its.
LEMMA HeldKept ==
  ASSUME Shape, Placed, NEW t \in Thread, NEW u \in Thread \ {t}, OthersStay(t), HeldLocks(u),
         \A l \in LockIndex : StructLocks[l] = u => StructLocks'[l] = u
  PROVE  HeldLocks(u)'
<1>1. pc'[u] = pc[u] /\ at'[u] = at[u] /\ src'[u] = src[u]
  BY DEF OthersStay
<1>2. Locks(u)' = Locks(u)
  BY <1>1 DEF Locks
<1>3. CASE pc[u] \in CopyPlaces
  <2>1. /\ Len(Locks(u)) \in {1, 2}
        /\ \A n \in 1 .. Len(Locks(u)) : Locks(u)[n] \in LockIndex
    BY <1>3, LocksAre
  <2>2. pc[u] \in {"lock2", "unlock2"} => Locks(u)[1] \in LockIndex /\ Locks(u)[2] \in LockIndex
    <3> SUFFICES ASSUME pc[u] \in {"lock2", "unlock2"}
                 PROVE  Locks(u)[1] \in LockIndex /\ Locks(u)[2] \in LockIndex
      OBVIOUS
    <3>1. Len(Locks(u)) = 2
      BY DEF HeldLocks
    <3>2. 1 \in 1 .. 2 /\ 2 \in 1 .. 2
      OBVIOUS
    <3> QED BY <2>1, <3>1, <3>2
  <2> QED BY <1>1, <1>2, <2>1, <2>2 DEF HeldLocks
<1>4. CASE pc[u] \notin CopyPlaces
  BY <1>1, <1>4 DEF HeldLocks, CopyPlaces
<1> QED BY <1>3, <1>4

\* A step that has nothing to do with structures.
LEMMA StructStays ==
  ASSUME Shape, Placed, CopyLocksHeld, WholeOrHalf, NEW t \in Thread, OthersStay(t),
         UNCHANGED <<struct, StructLocks>>,
         pc[t] # "copy2", pc'[t] \notin CopyPlaces \ {"lock1"}
  PROVE  CopyLocksHeld' /\ WholeOrHalf'
<1>1. ASSUME NEW u \in Thread PROVE HeldLocks(u)'
  <2>1. CASE u = t
    BY <2>1 DEF HeldLocks, CopyPlaces
  <2>2. CASE u # t
    <3>1. HeldLocks(u)
      BY DEF CopyLocksHeld, HeldLocks
    <3> QED BY <2>2, <3>1, HeldKept
  <2> QED BY <2>1, <2>2
<1>2. CopyLocksHeld'
  BY <1>1 DEF CopyLocksHeld, HeldLocks
<1>3. WholeOrHalf'
  <2>1. ASSUME NEW u \in Thread, pc'[u] = "copy2" PROVE u # t /\ pc[u] = "copy2" /\ at'[u] = at[u] /\ src'[u] = src[u]
    BY <2>1 DEF OthersStay, CopyPlaces
  <2>2. ASSUME NEW u \in Thread, pc[u] = "copy2" PROVE pc'[u] = "copy2" /\ at'[u] = at[u]
    BY <2>2 DEF OthersStay
  <2> QED BY <2>1, <2>2 DEF WholeOrHalf
<1> QED BY <1>2, <1>3

\* Two copies that hold their locks have no structure in common.
LEMMA CopiersApart ==
  ASSUME Shape, Placed, CopyLocksHeld, NEW t \in Thread, NEW u \in Thread, t # u,
         pc[t] \in {"copy1", "copy2"}, pc[u] \in {"copy1", "copy2"}
  PROVE  at[t] # at[u] /\ at[t] # src[u]
<1>1. /\ \A a \in {at[t], src[t]} : \E n \in 1 .. Len(Locks(t)) : Locks(t)[n] = GOODHASH[a]
      /\ \A a \in {at[u], src[u]} : \E n \in 1 .. Len(Locks(u)) : Locks(u)[n] = GOODHASH[a]
  BY LocksAre DEF CopyPlaces
<1>2. /\ \A a \in {at[t], src[t]} : StructLocks[GOODHASH[a]] = t
      /\ \A a \in {at[u], src[u]} : StructLocks[GOODHASH[a]] = u
  BY <1>1 DEF CopyLocksHeld
<1> QED BY <1>2

\* A lock is taken.
LEMMA CopyLockInv ==
  ASSUME StructInv, NEW t \in Thread, NEW n \in {1, 2}, CopyLock(t, n)
  PROVE  CopyLocksHeld' /\ WholeOrHalf'
<1> USE DEF StructInv
<1>1. /\ pc[t] = IF n = 1 THEN "lock1" ELSE "lock2"
      /\ StructLocks[Locks(t)[n]] = NULL
      /\ StructLocks' = [StructLocks EXCEPT ![Locks(t)[n]] = t]
      /\ pc' = [pc EXCEPT ![t] = IF n < Len(Locks(t)) THEN "lock2" ELSE "copy1"]
      /\ UNCHANGED <<struct, at, src, value>>
  BY DEF CopyLock, Goto
<1>2. OthersStay(t) /\ pc'[t] = IF n < Len(Locks(t)) THEN "lock2" ELSE "copy1"
  BY <1>1 DEF OthersStay, Shape
<1>3. PICK L : L = Locks(t) /\ L = Locks(t)'
  BY <1>1 DEF Locks
<1>4. /\ Len(L) \in {1, 2} /\ \A m \in 1 .. Len(L) : L[m] \in LockIndex
      /\ Len(L) = 2 => L[1] # L[2]
      /\ n = 2 => Len(L) = 2 /\ StructLocks[L[1]] = t
  <2>1. pc[t] \in CopyPlaces
    BY <1>1 DEF CopyPlaces
  <2>2. /\ Len(L) \in {1, 2} /\ \A m \in 1 .. Len(L) : L[m] \in LockIndex
        /\ Len(L) = 2 => L[1] # L[2]
    BY <1>3, <2>1, LocksAre
  <2>3. n = 2 => Len(L) = 2 /\ StructLocks[L[1]] = t
    <3>1. n = 2 => pc[t] = "lock2"
      BY <1>1
    <3>2. pc[t] = "lock2" => Len(Locks(t)) = 2 /\ StructLocks[Locks(t)[1]] = t
      BY DEF CopyLocksHeld
    <3> QED BY <1>3, <3>1, <3>2
  <2> QED BY <2>2, <2>3
<1>5. n \in 1 .. Len(L) /\ L[n] \in LockIndex
  <2>1. n \in 1 .. Len(L)
    BY <1>4
  <2> QED BY <1>4, <2>1
<1>6. \A l \in LockIndex : StructLocks'[l] = IF l = L[n] THEN t ELSE StructLocks[l]
  BY <1>1, <1>3, <1>5 DEF Shape
<1>7. ASSUME NEW u \in Thread PROVE HeldLocks(u)'
  <2>1. CASE u # t
    <3>1. HeldLocks(u)
      BY DEF CopyLocksHeld, HeldLocks
    <3>2. \A l \in LockIndex : StructLocks[l] = u => StructLocks'[l] = u
      BY <1>1, <1>3, <1>6, AccessorsAssumption
    <3> QED BY <1>2, <2>1, <3>1, <3>2, HeldKept
  <2>2. CASE u = t
    <3>1. ASSUME NEW m \in 1 .. Len(L), m <= n PROVE StructLocks'[L[m]] = t
      <4>1. m = n \/ (m = 1 /\ n = 2)
        BY <3>1
      <4> QED BY <1>4, <1>5, <1>6, <4>1
    <3>2. CASE n < Len(L)
      <4>1. n = 1 /\ Len(L) = 2 /\ 1 \in 1 .. Len(L)
        BY <1>4, <3>2
      <4>2. StructLocks'[L[1]] = t
        BY <3>1, <4>1
      <4> QED BY <1>2, <1>3, <2>2, <3>2, <4>1, <4>2 DEF HeldLocks
    <3>3. CASE ~ (n < Len(L))
      <4>1. \A m \in 1 .. Len(L) : m <= n
        BY <1>4, <3>3
      <4> QED BY <1>2, <1>3, <2>2, <3>1, <3>3, <4>1 DEF HeldLocks
    <3> QED BY <3>2, <3>3
  <2> QED BY <2>1, <2>2
<1>8. CopyLocksHeld'
  BY <1>7 DEF CopyLocksHeld, HeldLocks
<1>9. \A u \in Thread : pc'[u] = "copy2" <=> pc[u] = "copy2"
  BY <1>1, <1>2 DEF OthersStay
<1>10. WholeOrHalf'
  BY <1>1, <1>9 DEF WholeOrHalf
<1> QED BY <1>8, <1>10

\* A lock is released.
LEMMA CopyUnlockInv ==
  ASSUME StructInv, NEW t \in Thread, NEW n \in {1, 2}, CopyUnlock(t, n)
  PROVE  CopyLocksHeld' /\ WholeOrHalf'
<1> USE DEF StructInv
<1>1. /\ pc[t] = IF n = 1 THEN "unlock1" ELSE "unlock2"
      /\ StructLocks' = [StructLocks EXCEPT ![Locks(t)[n]] = NULL]
      /\ UNCHANGED struct
      /\ IF n < Len(Locks(t)) THEN Goto(t, "unlock2") /\ UNCHANGED <<at, src, value>> ELSE End(t)
  BY DEF CopyUnlock
<1>2. PICK L : L = Locks(t)
  OBVIOUS
<1>3. /\ OthersStay(t)
      /\ pc'[t] = IF n < Len(L) THEN "unlock2" ELSE "idle"
      /\ n < Len(L) => at'[t] = at[t] /\ src'[t] = src[t]
  <2>1. CASE n < Len(L)
    BY <1>1, <1>2, <2>1 DEF Goto, OthersStay, Shape
  <2>2. CASE ~ (n < Len(L))
    BY <1>1, <1>2, <2>2 DEF Goto, End, OthersStay, Shape
  <2> QED BY <2>1, <2>2
<1>4. /\ Len(L) \in {1, 2} /\ \A m \in 1 .. Len(L) : L[m] \in LockIndex
      /\ Len(L) = 2 => L[1] # L[2]
      /\ n = 1 => \A m \in 1 .. Len(L) : StructLocks[L[m]] = t
      /\ n = 2 => Len(L) = 2 /\ StructLocks[L[2]] = t
  <2>1. pc[t] \in CopyPlaces
    BY <1>1 DEF CopyPlaces
  <2> QED BY <1>1, <1>2, <2>1, LocksAre DEF CopyLocksHeld
<1>5. n \in 1 .. Len(L) /\ L[n] \in LockIndex /\ StructLocks[L[n]] = t
  <2>1. n \in 1 .. Len(L)
    BY <1>4
  <2> QED BY <1>4, <2>1
<1>6. \A l \in LockIndex : StructLocks'[l] = IF l = L[n] THEN NULL ELSE StructLocks[l]
  BY <1>1, <1>2, <1>5 DEF Shape
<1>7. ASSUME NEW u \in Thread PROVE HeldLocks(u)'
  <2>1. CASE u # t
    <3>1. HeldLocks(u)
      BY DEF CopyLocksHeld, HeldLocks
    <3>2. \A l \in LockIndex : StructLocks[l] = u => StructLocks'[l] = u
      BY <1>5, <1>6, <2>1
    <3> QED BY <1>3, <2>1, <3>1, <3>2, HeldKept
  <2>2. CASE u = t
    <3>1. CASE n < Len(L)
      <4>1. n = 1 /\ Len(L) = 2 /\ 2 \in 1 .. Len(L) /\ Locks(t)' = L
        BY <1>2, <1>3, <1>4, <3>1 DEF Locks
      <4>2. StructLocks'[L[2]] = t
        BY <1>4, <1>6, <4>1
      <4> QED BY <1>3, <2>2, <3>1, <4>1, <4>2 DEF HeldLocks
    <3>2. CASE ~ (n < Len(L))
      BY <1>3, <2>2, <3>2 DEF HeldLocks
    <3> QED BY <3>1, <3>2
  <2> QED BY <2>1, <2>2
<1>8. CopyLocksHeld'
  BY <1>7 DEF CopyLocksHeld, HeldLocks
<1>9. \A u \in Thread : /\ pc'[u] = "copy2" <=> pc[u] = "copy2"
                        /\ pc[u] = "copy2" => at'[u] = at[u] /\ src'[u] = src[u]
  BY <1>1, <1>3 DEF OthersStay
<1>10. WholeOrHalf'
  BY <1>1, <1>9 DEF WholeOrHalf
<1> QED BY <1>8, <1>10

\* A word is moved, to a structure that no other copy reads or writes.
LEMMA CopyWordInv ==
  ASSUME StructInv, NEW t \in Thread, NEW n \in {1, 2}, CopyWord(t, n)
  PROVE  CopyLocksHeld' /\ WholeOrHalf'
<1> USE DEF StructInv
<1>1. /\ pc[t] = IF n = 1 THEN "copy1" ELSE "copy2"
      /\ struct' = [struct EXCEPT ![at[t]][n] = struct[src[t]][n]]
      /\ pc' = [pc EXCEPT ![t] = IF n = 1 THEN "copy2" ELSE "unlock1"]
      /\ UNCHANGED <<StructLocks, at, src, value>>
  BY DEF CopyWord, Goto
<1>2. OthersStay(t) /\ pc'[t] = IF n = 1 THEN "copy2" ELSE "unlock1"
  BY <1>1 DEF OthersStay, Shape
<1>3. PICK d \in Struct, s \in Struct : d = at[t] /\ s = src[t] /\ d # s
  BY <1>1 DEF Placed, CopyPlaces
<1>4. /\ \A c \in Struct \ {d} : struct'[c] = struct[c]
      /\ struct'[d][n] = struct[s][n]
      /\ \A m \in {1, 2} : m # n => struct'[d][m] = struct[d][m]
  <2>1. struct' = [struct EXCEPT ![d] = [struct[d] EXCEPT ![n] = struct[s][n]]]
    BY <1>1, <1>3
  <2>2. struct[d] \in Struct \X Struct
    BY DEF Shape
  <2>3. PICK x, y : struct[d] = <<x, y>>
    BY <2>2
  <2>4. struct'[d] = [<<x, y>> EXCEPT ![n] = struct[s][n]]
    BY <2>1, <2>3 DEF Shape
  <2>5. [<<x, y>> EXCEPT ![n] = struct[s][n]] = IF n = 1 THEN <<struct[s][n], y>> ELSE <<x, struct[s][n]>>
    OBVIOUS
  <2> QED BY <2>1, <2>3, <2>4, <2>5 DEF Shape
<1>5. ASSUME NEW u \in Thread PROVE HeldLocks(u)'
  <2>1. CASE u # t
    <3>1. HeldLocks(u)
      BY DEF CopyLocksHeld, HeldLocks
    <3> QED BY <1>1, <1>2, <2>1, <3>1, HeldKept
  <2>2. CASE u = t
    BY <1>1, <1>2, <2>2 DEF HeldLocks, CopyLocksHeld, Locks
  <2> QED BY <2>1, <2>2
<1>6. CopyLocksHeld'
  BY <1>5 DEF CopyLocksHeld, HeldLocks
<1>7. ASSUME NEW u \in Thread \ {t}, pc[u] = "copy2"
      PROVE  at[u] # d /\ src[u] # d /\ at[u] # s
  BY <1>1, <1>3, <1>7, CopiersApart
<1>8. struct[s][1] = struct[s][2]
  BY <1>3, <1>7 DEF WholeOrHalf
<1>9. ASSUME NEW u \in Thread, pc'[u] = "copy2" PROVE struct'[at'[u]][1] = struct'[src'[u]][1]
  <2>1. CASE u = t
    BY <1>1, <1>2, <1>3, <1>4, <1>9, <2>1
  <2>2. CASE u # t
    <3>1. pc[u] = "copy2" /\ at'[u] = at[u] /\ src'[u] = src[u]
      BY <1>2, <1>9, <2>2 DEF OthersStay
    <3>2. at[u] \in Struct /\ src[u] \in Struct /\ at[u] # d /\ src[u] # d
      BY <1>7, <2>2, <3>1 DEF Placed, CopyPlaces
    <3>3. struct'[at[u]] = struct[at[u]] /\ struct'[src[u]] = struct[src[u]]
      BY <1>4, <3>2
    <3> QED BY <3>1, <3>3 DEF WholeOrHalf
  <2> QED BY <2>1, <2>2
<1>10. ASSUME NEW c \in Struct, \A u \in Thread : ~ (at'[u] = c /\ pc'[u] = "copy2")
       PROVE  struct'[c][1] = struct'[c][2]
  <2>1. CASE c = d
    <3>1. n = 2
      BY <1>1, <1>2, <1>3, <1>10, <2>1
    <3>2. struct[d][1] = struct[s][1]
      BY <1>1, <1>3, <3>1 DEF WholeOrHalf
    <3> QED BY <1>4, <1>8, <2>1, <3>1, <3>2
  <2>2. CASE c # d
    <3>1. \A u \in Thread : ~ (at[u] = c /\ pc[u] = "copy2")
      BY <1>1, <1>2, <1>3, <1>10, <2>2 DEF OthersStay
    <3> QED BY <1>4, <2>2, <3>1 DEF WholeOrHalf
  <2> QED BY <2>1, <2>2
<1>11. WholeOrHalf'
  BY <1>9, <1>10 DEF WholeOrHalf
<1> QED BY <1>6, <1>11

\* A thread goes back to "idle".
LEMMA EndStays ==
  ASSUME Shape, NEW t \in Thread, End(t)
  PROVE  OthersStay(t) /\ pc'[t] = "idle"
BY DEF End, Goto, OthersStay, Shape

\* The steps of the accessors of objects touch no structure.
LEMMA StructNext ==
  ASSUME StructInv, [Next]_vars
  PROVE  StructInv'
<1> USE DEF StructInv
<1>1. Shape' /\ Placed'
  BY ShapeNext
<1>2. CopyLocksHeld' /\ WholeOrHalf'
  <2>1. CASE UNCHANGED vars
    BY <2>1 DEF vars, CopyLocksHeld, WholeOrHalf, Locks
  <2>2. ASSUME NEW t \in Thread, OthersStay(t), UNCHANGED <<struct, StructLocks>>,
               pc[t] # "copy2", pc'[t] \notin CopyPlaces \ {"lock1"}
        PROVE  CopyLocksHeld' /\ WholeOrHalf'
    BY <2>2, StructStays
  <2>3. ASSUME NEW t \in Thread, NEW s \in Slot, GetNonAtomic(t, s)
        PROVE  CopyLocksHeld' /\ WholeOrHalf'
    <3>1. OthersStay(t) /\ pc[t] = "idle" /\ pc'[t] = "idle" /\ UNCHANGED <<struct, StructLocks>>
      BY <2>3 DEF GetNonAtomic, OthersStay
    <3> QED BY <2>2, <3>1 DEF CopyPlaces
  <2>4. ASSUME NEW t \in Thread, NEW s \in Slot, GetLock(t, s)
        PROVE  CopyLocksHeld' /\ WholeOrHalf'
    <3>1. OthersStay(t) /\ pc[t] = "idle" /\ pc'[t] = "get" /\ UNCHANGED <<struct, StructLocks>>
      BY <2>4 DEF GetLock, Begin, Goto, OthersStay, Shape
    <3> QED BY <2>2, <3>1 DEF CopyPlaces
  <2>5. ASSUME NEW t \in Thread, NEW s \in Slot, NEW o \in Obj \cup {NULL}, NEW copy \in BOOLEAN,
               SetBegin(t, s, o, copy)
        PROVE  CopyLocksHeld' /\ WholeOrHalf'
    <3>1. /\ at' = [at EXCEPT ![t] = s] /\ value' = [value EXCEPT ![t] = o] /\ src' = src
          /\ pc[t] = "idle" /\ UNCHANGED <<struct, StructLocks>>
          /\ \E place \in {"done", "set"} : pc' = [pc EXCEPT ![t] = place]
      BY <2>5 DEF SetBegin, Begin, Goto
    <3>2. OthersStay(t) /\ pc'[t] \in {"done", "set"}
      BY <3>1 DEF OthersStay, Shape
    <3> QED BY <2>2, <3>1, <3>2 DEF CopyPlaces
  <2>6. ASSUME NEW t \in Thread, NEW o \in Obj, Drop(t, o)
        PROVE  CopyLocksHeld' /\ WholeOrHalf'
    <3>1. OthersStay(t) /\ pc[t] = "idle" /\ pc'[t] = "idle" /\ UNCHANGED <<struct, StructLocks>>
      BY <2>6 DEF Drop, OthersStay
    <3> QED BY <2>2, <3>1 DEF CopyPlaces
  <2>7. ASSUME NEW t \in Thread, NEW d \in Struct, NEW s \in Struct, CopyBegin(t, d, s)
        PROVE  CopyLocksHeld' /\ WholeOrHalf'
    <3>1. OthersStay(t) /\ pc[t] = "idle" /\ pc'[t] = "lock1" /\ UNCHANGED <<struct, StructLocks>>
      BY <2>7 DEF CopyBegin, Begin, Goto, OthersStay, Shape
    <3> QED BY <2>2, <3>1
  <2>8. ASSUME NEW t \in Thread, Step(t) PROVE CopyLocksHeld' /\ WholeOrHalf'
    <3>1. CASE GetRetain(t)
      <4>1. End(t) /\ pc[t] = "get" /\ UNCHANGED <<struct, StructLocks>>
        BY <3>1 DEF GetRetain
      <4> QED BY <2>2, <4>1, EndStays DEF CopyPlaces
    <3>2. CASE SetRead(t)
      <4>1. OthersStay(t) /\ pc[t] = "set" /\ pc'[t] = "swap" /\ UNCHANGED <<struct, StructLocks>>
        BY <3>2 DEF SetRead, Goto, OthersStay, Shape
      <4> QED BY <2>2, <4>1 DEF CopyPlaces
    <3>3. CASE SetWrite(t)
      <4>1. OthersStay(t) /\ pc[t] = "swap" /\ pc'[t] = "release" /\ UNCHANGED <<struct, StructLocks>>
        BY <3>3 DEF SetWrite, Goto, OthersStay, Shape
      <4> QED BY <2>2, <4>1 DEF CopyPlaces
    <3>4. CASE SetRelease(t)
      <4>1. End(t) /\ pc[t] = "release" /\ UNCHANGED <<struct, StructLocks>>
        BY <3>4 DEF SetRelease
      <4> QED BY <2>2, <4>1, EndStays DEF CopyPlaces
    <3>5. CASE SetSame(t)
      <4>1. End(t) /\ pc[t] = "done" /\ UNCHANGED <<struct, StructLocks>>
        BY <3>5 DEF SetSame
      <4> QED BY <2>2, <4>1, EndStays DEF CopyPlaces
    <3>6. ASSUME NEW n \in {1, 2}, CopyLock(t, n) \/ CopyWord(t, n) \/ CopyUnlock(t, n)
          PROVE  CopyLocksHeld' /\ WholeOrHalf'
      BY <3>6, CopyLockInv, CopyWordInv, CopyUnlockInv
    <3> QED BY <2>8, <3>1, <3>2, <3>3, <3>4, <3>5, <3>6 DEF Step
  <2> QED BY <2>1, <2>3, <2>4, <2>5, <2>6, <2>7, <2>8 DEF Next
<1> QED BY <1>1, <1>2

\* The initial states have them.
LEMMA ShapeInit ==
  ASSUME Init
  PROVE  Shape /\ Placed
<1>1. PICK holder \in [Obj -> Thread] :
        /\ rc = [o \in Obj |-> 1]
        /\ held = [t \in Thread |-> [o \in Obj |-> IF holder[o] = t THEN 1 ELSE 0]]
  BY DEF Init
<1>2. rc \in [Obj -> Int] /\ held \in [Thread -> [Obj -> Nat]]
  BY <1>1
<1>3. struct \in [Struct -> Struct \X Struct]
  BY DEF Init
<1> QED BY <1>2, <1>3 DEF Init, Shape, Placed, SlotPlaces, CopyPlaces, Place

\* At first every structure is whole and no lock is held.
LEMMA StructInit ==
  ASSUME Init
  PROVE  StructInv
<1>1. CopyLocksHeld
  BY DEF Init, CopyLocksHeld
<1>2. WholeOrHalf
  BY DEF Init, WholeOrHalf
<1> QED BY <1>1, <1>2, ShapeInit DEF StructInv

\* NoTearing: a structure nobody is writing is never half of one value and half of
\* another, whatever locks the structures share and in whatever directions they are
\* copied.
THEOREM StructuresStayWhole == Spec => []NoTearing
<1>1. Init => StructInv
  BY StructInit
<1>2. StructInv /\ [Next]_vars => StructInv'
  BY StructNext
<1>3. StructInv => NoTearing
  <2> SUFFICES ASSUME StructInv, NEW d \in Struct,
                      \A t \in Thread : ~ (at[t] = d /\ pc[t] \in {"copy1", "copy2"})
               PROVE  struct[d][1] = struct[d][2]
    BY DEF NoTearing
  <2> QED BY DEF StructInv, WholeOrHalf
<1> QED BY <1>1, <1>2, <1>3, PTL DEF Spec

\* What RefcountExact adds up.
Holders(o) == SumFunction([t \in Thread |-> held[t][o]])
InSlots(o) == {s \in Slot : slot[s] = o}
Setting(o) == {t \in Thread : pc[t] \in {"set", "swap"} /\ value[t] = o}
Releasing(o) == {t \in Thread : pc[t] = "release" /\ src[t] = o}

\* and what one thread adds to it.
Mine(t, o) == held[t][o] + One(t \in Setting(o)) + One(t \in Releasing(o))

\* RefcountExact in these terms.
LEMMA Exact ==
  RefcountExact <=>
    \A o \in Obj : rc[o] = Holders(o) + Cardinality(InSlots(o)) + Cardinality(Setting(o))
                         + Cardinality(Releasing(o))
BY DEF RefcountExact, Holders, InSlots, Setting, Releasing

\* The same for the next state.
LEMMA ExactNext ==
  RefcountExact' <=>
    \A o \in Obj : rc'[o] = Holders(o)' + Cardinality(InSlots(o)') + Cardinality(Setting(o)')
                          + Cardinality(Releasing(o)')
BY DEF RefcountExact, Holders, InSlots, Setting, Releasing

\* A thread's own part of the references, when the others' stay.
LEMMA MineChanges ==
  ASSUME Shape, Shape', NEW t \in Thread, OthersStay(t),
         \A u \in Thread \ {t} : held'[u] = held[u], NEW o \in Obj
  PROVE  /\ Holders(o) \in Nat /\ Holders(o)' \in Nat
         /\ Cardinality(Setting(o)) \in Nat /\ Cardinality(Setting(o)') \in Nat
         /\ Cardinality(Releasing(o)) \in Nat /\ Cardinality(Releasing(o)') \in Nat
         /\ Mine(t, o) \in Nat /\ Mine(t, o)' \in Nat
         /\ Holders(o)' + Cardinality(Setting(o)') + Cardinality(Releasing(o)')
              = Holders(o) + Cardinality(Setting(o)) + Cardinality(Releasing(o))
                + Mine(t, o)' - Mine(t, o)
<1>1. IsFiniteSet(Thread)
  BY AccessorsAssumption
<1>2. PICK f \in [Thread -> Nat] : f = [u \in Thread |-> held[u][o]]
  <2>1. \A u \in Thread : held[u][o] \in Nat
    BY DEF Shape
  <2> QED BY <2>1
<1>3. PICK g \in [Thread -> Nat] : g = [u \in Thread |-> held'[u][o]]
  <2>1. \A u \in Thread : held'[u][o] \in Nat
    BY DEF Shape
  <2> QED BY <2>1
<1>4. \A y \in Thread \ {t} : f[y] = g[y]
  BY <1>2, <1>3
<1>5. PICK rest \in Nat : SumFunction(f) = f[t] + rest /\ SumFunction(g) = g[t] + rest
  BY <1>1, <1>4, SumSplits
<1>6. /\ Holders(o) = held[t][o] + rest /\ held[t][o] \in Nat
      /\ Holders(o)' = held'[t][o] + rest /\ held'[t][o] \in Nat
  BY <1>2, <1>3, <1>5 DEF Holders, Shape
<1>7. PICK S \in SUBSET Thread, T \in SUBSET Thread :
        S = Setting(o) /\ T = Setting(o)' /\ \A y \in Thread \ {t} : y \in S <=> y \in T
  <2>1. Setting(o) \in SUBSET Thread /\ Setting(o)' \in SUBSET Thread
    BY DEF Setting
  <2>2. \A y \in Thread \ {t} : y \in Setting(o) <=> y \in Setting(o)'
    BY DEF Setting, OthersStay
  <2> QED BY <2>1, <2>2
<1>8. /\ Cardinality(S) \in Nat /\ Cardinality(T) \in Nat
      /\ Cardinality(T) = Cardinality(S) + One(t \in T) - One(t \in S)
      /\ One(t \in S) \in {0, 1} /\ One(t \in T) \in {0, 1}
  <2>1. S \ {t} = T \ {t}
    BY <1>7
  <2>2. /\ Cardinality(S) \in Nat /\ Cardinality(T) \in Nat
        /\ Cardinality(T) = Cardinality(S) + One(t \in T) - One(t \in S)
    BY <1>1, <2>1, OneMember
  <2>3. One(t \in S) \in {0, 1} /\ One(t \in T) \in {0, 1}
    BY DEF One
  <2> QED BY <2>2, <2>3
<1>9. PICK Q \in SUBSET Thread, R \in SUBSET Thread :
        Q = Releasing(o) /\ R = Releasing(o)' /\ \A y \in Thread \ {t} : y \in Q <=> y \in R
  <2>1. Releasing(o) \in SUBSET Thread /\ Releasing(o)' \in SUBSET Thread
    BY DEF Releasing
  <2>2. \A y \in Thread \ {t} : y \in Releasing(o) <=> y \in Releasing(o)'
    BY DEF Releasing, OthersStay
  <2> QED BY <2>1, <2>2
<1>10. /\ Cardinality(Q) \in Nat /\ Cardinality(R) \in Nat
       /\ Cardinality(R) = Cardinality(Q) + One(t \in R) - One(t \in Q)
       /\ One(t \in Q) \in {0, 1} /\ One(t \in R) \in {0, 1}
  <2>1. Q \ {t} = R \ {t}
    BY <1>9
  <2>2. /\ Cardinality(Q) \in Nat /\ Cardinality(R) \in Nat
        /\ Cardinality(R) = Cardinality(Q) + One(t \in R) - One(t \in Q)
    BY <1>1, <2>1, OneMember
  <2>3. One(t \in Q) \in {0, 1} /\ One(t \in R) \in {0, 1}
    BY DEF One
  <2> QED BY <2>2, <2>3
<1>11. /\ Mine(t, o) = held[t][o] + One(t \in S) + One(t \in Q)
       /\ Mine(t, o)' = held'[t][o] + One(t \in T) + One(t \in R)
  BY <1>7, <1>9 DEF Mine
<1>12. PICK a \in Nat, b \in Nat, c \in Nat, d \in Nat :
         a = Cardinality(S) /\ b = Cardinality(T) /\ c = Cardinality(Q) /\ d = Cardinality(R)
  BY <1>8, <1>10
<1>13. PICK i \in {0, 1}, j \in {0, 1}, k \in {0, 1}, l \in {0, 1} :
         /\ i = One(t \in S) /\ j = One(t \in T) /\ k = One(t \in Q) /\ l = One(t \in R)
         /\ b = a + j - i /\ d = c + l - k
  BY <1>8, <1>10, <1>12
<1>14. PICK m \in Nat, n \in Nat : m = held[t][o] /\ n = held'[t][o]
  BY <1>6
<1>15. Mine(t, o) = m + i + k /\ Mine(t, o)' = n + j + l
  BY <1>11, <1>13, <1>14
<1>16. Holders(o) = m + rest /\ Holders(o)' = n + rest
  BY <1>6, <1>14
<1>17. /\ Cardinality(Setting(o)) = a /\ Cardinality(Setting(o)') = b
       /\ Cardinality(Releasing(o)) = c /\ Cardinality(Releasing(o)') = d
  BY <1>7, <1>9, <1>12
<1>18. (n + rest) + b + d = (m + rest) + a + c + (n + j + l) - (m + i + k)
  BY <1>13
<1>19. m + rest \in Nat /\ n + rest \in Nat /\ m + i + k \in Nat /\ n + j + l \in Nat
  OBVIOUS
<1> QED BY <1>15, <1>16, <1>17, <1>18, <1>19

\* A step that changes no property: the count changes by the thread's own part.
LEMMA ExactKept ==
  ASSUME Shape, Shape', RefcountExact, NEW t \in Thread, OthersStay(t),
         \A u \in Thread \ {t} : held'[u] = held[u], UNCHANGED slot,
         \A o \in Obj : rc'[o] = rc[o] + Mine(t, o)' - Mine(t, o)
  PROVE  RefcountExact'
<1>1. ASSUME NEW o \in Obj
      PROVE  rc'[o] = Holders(o)' + Cardinality(InSlots(o)') + Cardinality(Setting(o)')
                    + Cardinality(Releasing(o)')
  <2>1. InSlots(o)' = InSlots(o) /\ Cardinality(InSlots(o)) \in Nat
    <3>1. InSlots(o) \in SUBSET Slot /\ IsFiniteSet(Slot)
      BY AccessorsAssumption DEF InSlots
    <3>2. IsFiniteSet(InSlots(o))
      BY <3>1, FS_Subset
    <3> QED BY <3>2, FS_CardinalityType DEF InSlots
  <2>2. rc[o] = Holders(o) + Cardinality(InSlots(o)) + Cardinality(Setting(o))
                    + Cardinality(Releasing(o))
    BY Exact
  <2> QED BY <2>1, <2>2, MineChanges
<1> QED BY <1>1, ExactNext

\* The count is no less than what anything adds to it.
LEMMA CountsAtLeast ==
  ASSUME Shape, RefcountExact, NEW o \in Obj
  PROVE  /\ rc[o] \in Nat
         /\ \A s \in Slot : slot[s] = o => rc[o] >= 1
         /\ \A t \in Thread : Mine(t, o) \in Nat /\ rc[o] >= Mine(t, o)
<1>1. /\ IsFiniteSet(Slot) /\ InSlots(o) \in SUBSET Slot
      /\ IsFiniteSet(Thread) /\ Setting(o) \in SUBSET Thread /\ Releasing(o) \in SUBSET Thread
  BY AccessorsAssumption DEF InSlots, Setting, Releasing
<1>2. /\ Cardinality(InSlots(o)) \in Nat /\ Cardinality(Setting(o)) \in Nat
      /\ Cardinality(Releasing(o)) \in Nat
  BY <1>1, FS_Subset, FS_CardinalityType
<1>3. PICK f \in [Thread -> Nat] : f = [u \in Thread |-> held[u][o]]
  BY DEF Shape
<1>4. Holders(o) \in Nat
  BY <1>1, <1>3, SumType DEF Holders
<1>5. rc[o] = Holders(o) + Cardinality(InSlots(o)) + Cardinality(Setting(o))
                  + Cardinality(Releasing(o))
  BY Exact
<1>6. ASSUME NEW s \in Slot, slot[s] = o PROVE Cardinality(InSlots(o)) >= 1
  <2>1. s \in InSlots(o)
    BY <1>6 DEF InSlots
  <2>2. One(s \in InSlots(o)) <= Cardinality(InSlots(o))
    BY <1>1, OneMember
  <2> QED BY <1>2, <2>1, <2>2 DEF One
<1>7. ASSUME NEW t \in Thread
      PROVE  /\ Mine(t, o) \in Nat
             /\ Mine(t, o) <= Holders(o) + Cardinality(Setting(o)) + Cardinality(Releasing(o))
  <2>1. PICK rest \in Nat : SumFunction(f) = f[t] + rest
    BY <1>1, SumSplits
  <2>2. Holders(o) = held[t][o] + rest /\ held[t][o] \in Nat
    BY <1>3, <2>1 DEF Holders, Shape
  <2>3. /\ One(t \in Setting(o)) \in {0, 1} /\ One(t \in Setting(o)) <= Cardinality(Setting(o))
        /\ One(t \in Releasing(o)) \in {0, 1} /\ One(t \in Releasing(o)) <= Cardinality(Releasing(o))
    BY <1>1, OneMember
  <2> QED BY <1>2, <2>2, <2>3 DEF Mine
<1> QED BY <1>2, <1>4, <1>5, <1>6, <1>7

\* What a thread is promised while the others run,
Locked(t) ==
    pc[t] = "get" \/ (pc[t] = "swap" /\ at[t] \notin NonAtomic) =>
        PropertyLocks[GOODHASH[at[t]]] = t

Read(t) ==
    /\ pc[t] = "get" => value[t] = slot[at[t]]
    /\ pc[t] = "swap" => src[t] = slot[at[t]]

\* and how it may come to use a property.
Joins(t) ==
    pc'[t] \in SlotPlaces =>
        \/ at'[t] \notin NonAtomic
        \/ pc[t] \in SlotPlaces /\ at'[t] = at[t]
        \/ \A u \in Thread \ {t} : at[u] # at'[t]

\* A step that keeps its promises to the others keeps the invariants.
LEMMA PromisesKept ==
  ASSUME Shape, Placed, SlotLocksHeld, UsedByOne, ReadIsThere, NEW t \in Thread, OthersStay(t),
         \A u \in Thread \ {t}, l \in LockIndex : PropertyLocks[l] = u => PropertyLocks'[l] = u,
         \A u \in Thread \ {t} : pc[u] \in {"get", "swap"} => slot'[at[u]] = slot[at[u]],
         Locked(t)', Read(t)', Joins(t)
  PROVE  SlotLocksHeld' /\ UsedByOne' /\ ReadIsThere'
<1>1. ASSUME NEW u \in Thread PROVE Locked(u)'
  <2>1. CASE u # t
    <3>1. /\ pc'[u] = pc[u] /\ at'[u] = at[u] /\ Locked(u)
          /\ pc[u] \in {"get", "swap"} => GOODHASH[at[u]] \in LockIndex
      BY <2>1, LocksThere DEF OthersStay, SlotLocksHeld, Locked, Placed, SlotPlaces
    <3> QED BY <2>1, <3>1 DEF Locked
  <2> QED BY <2>1
<1>2. ASSUME NEW u \in Thread PROVE Read(u)'
  <2>1. CASE u # t
    <3>1. pc'[u] = pc[u] /\ at'[u] = at[u] /\ src'[u] = src[u] /\ value'[u] = value[u] /\ Read(u)
      BY <2>1 DEF OthersStay, ReadIsThere, Read
    <3> QED BY <2>1, <3>1 DEF Read
  <2> QED BY <2>1
<1>3. ASSUME NEW u \in Thread \ {t}, pc'[t] \in SlotPlaces, pc'[u] \in SlotPlaces, at'[t] = at'[u]
      PROVE  at'[t] \notin NonAtomic
  <2>1. pc[u] \in SlotPlaces /\ at'[u] = at[u]
    BY <1>3 DEF OthersStay
  <2> QED BY <1>3, <2>1 DEF Joins, UsedByOne
<1>4. UsedByOne'
  <2> SUFFICES ASSUME NEW v \in Thread, NEW u \in Thread, v # u, pc'[v] \in SlotPlaces,
                      pc'[u] \in SlotPlaces, at'[v] = at'[u]
               PROVE  at'[v] \notin NonAtomic
    BY DEF UsedByOne
  <2>1. CASE v = t \/ u = t
    BY <1>3, <2>1
  <2>2. CASE v # t /\ u # t
    BY <2>2 DEF OthersStay, UsedByOne
  <2> QED BY <2>1, <2>2
<1>5. SlotLocksHeld' /\ ReadIsThere'
  BY <1>1, <1>2 DEF SlotLocksHeld, ReadIsThere, Locked, Read
<1> QED BY <1>4, <1>5

\* What the steps do to the counts: they change with what the thread holds, and an
\* object whose count becomes 0 is freed; one that has been freed is left alone.
Counted(t) ==
    /\ \A u \in Thread \ {t} : held'[u] = held[u]
    /\ \A o \in Obj : rc'[o] = rc[o] + Mine(t, o)' - Mine(t, o)

Frees ==
    \A o \in Obj :
        \/ rc'[o] = rc[o] /\ (o \in freed' => o \in freed)
        \/ rc[o] >= 1 /\ rc'[o] = rc[o] + 1 /\ (o \in freed' => o \in freed)
        \/ rc[o] >= 1 /\ rc'[o] = rc[o] - 1 /\ (o \in freed' => o \in freed \/ rc[o] = 1)

\* What has been freed keeps a count of 0.
LEMMA FreedNext ==
  ASSUME Shape, Shape', FreedAreGone, Frees
  PROVE  FreedAreGone'
<1> SUFFICES ASSUME NEW o \in freed' PROVE rc'[o] = 0
  BY DEF FreedAreGone
<1>1. o \in Obj /\ rc[o] \in Int /\ rc'[o] \in Int
  BY DEF Shape
<1> QED BY <1>1 DEF Frees, FreedAreGone

\* A step that changes no property.
LEMMA CountedNext ==
  ASSUME Shape, Shape', RefcountExact, FreedAreGone, NEW t \in Thread, OthersStay(t),
         UNCHANGED slot, Counted(t), Frees
  PROVE  RefcountExact' /\ FreedAreGone'
BY ExactKept, FreedNext DEF Counted

\* A step that counts nothing: the thread holds what it held.
LEMMA NothingCounted ==
  ASSUME Shape, Shape', RefcountExact, FreedAreGone, NEW t \in Thread, OthersStay(t),
         UNCHANGED <<slot, rc, freed, held>>,
         \A o \in Obj : Mine(t, o)' = Mine(t, o)
  PROVE  RefcountExact' /\ FreedAreGone'
<1>1. \A o \in Obj : rc'[o] = rc[o] /\ rc[o] \in Int /\ Mine(t, o) \in Nat
  BY CountsAtLeast DEF Shape
<1>2. Counted(t)
  BY <1>1 DEF Counted
<1>3. Frees
  BY <1>1 DEF Frees
<1> QED BY <1>2, <1>3, CountedNext

\* A step that leaves the objects alone, begun and ended where the thread is to count
\* and to release nothing.
LEMMA ObjectsStay ==
  ASSUME SlotInv, Shape', Placed', NEW t \in Thread, OthersStay(t), UNCHANGED objects,
         pc[t] \notin {"get", "set", "swap", "release"},
         pc'[t] \notin {"get", "set", "swap", "release"}, Joins(t)
  PROVE  SlotInv'
<1> USE DEF SlotInv
<1>1. UNCHANGED <<slot, PropertyLocks, rc, freed, held>>
  BY DEF objects
<1>2. \A o \in Obj : Mine(t, o)' = Mine(t, o)
  BY <1>1 DEF Mine, One, Setting, Releasing
<1>3. Locked(t)' /\ Read(t)'
  BY DEF Locked, Read
<1>4. RefcountExact' /\ FreedAreGone'
  BY <1>1, <1>2, NothingCounted
<1>5. SlotLocksHeld' /\ UsedByOne' /\ ReadIsThere'
  BY <1>1, <1>3, PromisesKept
<1> QED BY <1>4, <1>5

\* The getter takes the lock and reads,
LEMMA GetLockInv ==
  ASSUME SlotInv, Shape', Placed', NEW t \in Thread, NEW s \in Slot, GetLock(t, s)
  PROVE  SlotInv'
<1> USE DEF SlotInv
<1>1. /\ pc[t] = "idle" /\ s \notin NonAtomic /\ PropertyLocks[GOODHASH[s]] = NULL
      /\ at' = [at EXCEPT ![t] = s] /\ value' = [value EXCEPT ![t] = slot[s]] /\ src' = src
      /\ pc' = [pc EXCEPT ![t] = "get"]
      /\ PropertyLocks' = [PropertyLocks EXCEPT ![GOODHASH[s]] = t]
      /\ UNCHANGED <<slot, rc, freed, held>>
  BY DEF GetLock, Begin, Atomic, Goto
<1>2. OthersStay(t) /\ pc'[t] = "get" /\ at'[t] = s /\ value'[t] = slot[s]
  BY <1>1 DEF OthersStay, Shape
<1>3. /\ PropertyLocks'[GOODHASH[s]] = t
      /\ \A u \in Thread \ {t}, l \in LockIndex : PropertyLocks[l] = u => PropertyLocks'[l] = u
  BY <1>1, LocksThere, AccessorsAssumption DEF Shape
<1>4. Locked(t)' /\ Read(t)' /\ Joins(t)
  BY <1>1, <1>2, <1>3 DEF Locked, Read, Joins
<1>5. \A o \in Obj : Mine(t, o)' = Mine(t, o)
  BY <1>1, <1>2 DEF Mine, One, Setting, Releasing
<1>6. RefcountExact' /\ FreedAreGone'
  BY <1>1, <1>2, <1>5, NothingCounted
<1>7. SlotLocksHeld' /\ UsedByOne' /\ ReadIsThere'
  BY <1>1, <1>2, <1>3, <1>4, PromisesKept
<1> QED BY <1>6, <1>7

\* and retains what is still in the property.
LEMMA GetRetainInv ==
  ASSUME SlotInv, Shape', Placed', NEW t \in Thread, GetRetain(t)
  PROVE  SlotInv'
<1> USE DEF SlotInv
<1>1. /\ pc[t] = "get" /\ End(t) /\ UNCHANGED <<slot, freed>>
      /\ PropertyLocks' = [PropertyLocks EXCEPT ![GOODHASH[at[t]]] = NULL]
  BY DEF GetRetain
<1>2. OthersStay(t) /\ pc'[t] = "idle"
  BY <1>1, EndStays
<1>3. /\ at[t] \in Slot /\ PropertyLocks[GOODHASH[at[t]]] = t /\ value[t] = slot[at[t]]
      /\ GOODHASH[at[t]] \in LockIndex
  BY <1>1, LocksThere DEF Placed, SlotPlaces, SlotLocksHeld, ReadIsThere
<1>4. \A u \in Thread \ {t}, l \in LockIndex : PropertyLocks[l] = u => PropertyLocks'[l] = u
  BY <1>1, <1>3 DEF Shape
<1>5. Locked(t)' /\ Read(t)' /\ Joins(t)
  BY <1>2 DEF Locked, Read, Joins, SlotPlaces
<1>6. /\ \A u \in Thread \ {t} : held'[u] = held[u]
      /\ \A o \in Obj : IF o = value[t]
           THEN rc'[o] = rc[o] + 1 /\ held'[t][o] = held[t][o] + 1
           ELSE rc'[o] = rc[o] /\ held'[t][o] = held[t][o]
  <2>1. CASE value[t] = NULL
    BY <2>1, AccessorsAssumption DEF GetRetain
  <2>2. CASE value[t] # NULL
    <3>1. PICK o \in Obj : o = value[t]
      BY <2>2 DEF Shape
    <3>2. rc' = [rc EXCEPT ![o] = @ + 1] /\ held' = [held EXCEPT ![t][o] = @ + 1]
      BY <2>2, <3>1 DEF GetRetain
    <3> QED BY <3>1, <3>2 DEF Shape
  <2> QED BY <2>1, <2>2
<1>7. ASSUME NEW o \in Obj PROVE Mine(t, o) = held[t][o] /\ Mine(t, o)' = held'[t][o]
  <2>1. held[t][o] \in Nat /\ held'[t][o] \in Nat
    BY DEF Shape
  <2> QED BY <1>1, <1>2, <2>1 DEF Mine, One, Setting, Releasing
<1>8. Counted(t)
  <2> SUFFICES ASSUME NEW o \in Obj PROVE rc'[o] = rc[o] + Mine(t, o)' - Mine(t, o)
    BY <1>6 DEF Counted
  <2>1. held[t][o] \in Nat /\ rc[o] \in Int
    BY DEF Shape
  <2> QED BY <1>6, <1>7, <2>1
<1>9. Frees
  <2> SUFFICES ASSUME NEW o \in Obj
               PROVE  rc'[o] = rc[o] \/ (rc[o] >= 1 /\ rc'[o] = rc[o] + 1)
    BY <1>1 DEF Frees
  <2>1. o = value[t] => rc[o] >= 1
    BY <1>3, CountsAtLeast
  <2> QED BY <1>6, <2>1
<1>10. RefcountExact' /\ FreedAreGone'
  BY <1>1, <1>2, <1>8, <1>9, CountedNext
<1>11. SlotLocksHeld' /\ UsedByOne' /\ ReadIsThere'
  BY <1>1, <1>2, <1>4, <1>5, PromisesKept
<1> QED BY <1>10, <1>11

\* The setter retains the new value, which its caller holds,
LEMMA SetBeginInv ==
  ASSUME SlotInv, Shape', Placed', NEW t \in Thread, NEW s \in Slot, NEW o \in Obj \cup {NULL},
         NEW copy \in BOOLEAN, SetBegin(t, s, o, copy)
  PROVE  SlotInv'
<1> USE DEF SlotInv
<1>1. /\ pc[t] = "idle" /\ (o # NULL => held[t][o] > 0) /\ Exclusive(t, s)
      /\ at' = [at EXCEPT ![t] = s] /\ value' = [value EXCEPT ![t] = o] /\ src' = src
      /\ UNCHANGED <<slot, PropertyLocks, freed, held>>
      /\ \/ pc' = [pc EXCEPT ![t] = "done"] /\ rc' = rc
         \/ pc' = [pc EXCEPT ![t] = "set"] /\ rc' = Retained(o)
  BY DEF SetBegin, Begin, Goto
<1>2. OthersStay(t) /\ at'[t] = s /\ value'[t] = o
  BY <1>1 DEF OthersStay, Shape
<1>3. pc'[t] \in {"done", "set"}
  BY <1>1 DEF Shape
<1>4. Locked(t)' /\ Read(t)'
  BY <1>3 DEF Locked, Read
<1>5. Joins(t)
  BY <1>1, <1>2 DEF Joins, Exclusive
<1>6. SlotLocksHeld' /\ UsedByOne' /\ ReadIsThere'
  BY <1>1, <1>2, <1>4, <1>5, PromisesKept
<1>7. CASE pc' = [pc EXCEPT ![t] = "done"] /\ rc' = rc
  <2>1. pc'[t] = "done"
    BY <1>7 DEF Shape
  <2>2. \A p \in Obj : Mine(t, p)' = Mine(t, p)
    BY <1>1, <2>1 DEF Mine, One, Setting, Releasing
  <2>3. RefcountExact' /\ FreedAreGone'
    BY <1>1, <1>2, <1>7, <2>2, NothingCounted
  <2> QED BY <1>6, <2>3
<1>8. CASE pc' = [pc EXCEPT ![t] = "set"] /\ rc' = Retained(o)
  <2>1. pc'[t] = "set"
    BY <1>8 DEF Shape
  <2>2. \A p \in Obj : rc'[p] = IF p = o THEN rc[p] + 1 ELSE rc[p]
    BY <1>8, AccessorsAssumption DEF Retained, Shape
  <2>3. ASSUME NEW p \in Obj
        PROVE  Mine(t, p) = held[t][p] /\ Mine(t, p)' = held[t][p] + IF p = o THEN 1 ELSE 0
    <3>1. held[t][p] \in Nat
      BY DEF Shape
    <3>2. Mine(t, p) = held[t][p]
      BY <1>1, <3>1 DEF Mine, One, Setting, Releasing
    <3>3. Mine(t, p)' = held[t][p] + IF p = o THEN 1 ELSE 0
      BY <1>1, <1>2, <2>1, <3>1 DEF Mine, One, Setting, Releasing
    <3> QED BY <3>2, <3>3
  <2>4. Counted(t)
    <3> SUFFICES ASSUME NEW p \in Obj PROVE rc'[p] = rc[p] + Mine(t, p)' - Mine(t, p)
      BY <1>1 DEF Counted
    <3>1. held[t][p] \in Nat /\ rc[p] \in Int
      BY DEF Shape
    <3> QED BY <2>2, <2>3, <3>1
  <2>5. Frees
    <3> SUFFICES ASSUME NEW p \in Obj
                 PROVE  rc'[p] = rc[p] \/ (rc[p] >= 1 /\ rc'[p] = rc[p] + 1)
      BY <1>1 DEF Frees
    <3>1. p = o => rc[p] >= 1
      <4> SUFFICES ASSUME p = o PROVE rc[p] >= 1
        OBVIOUS
      <4>1. o # NULL /\ held[t][p] > 0
        BY <1>1, AccessorsAssumption
      <4>2. rc[p] \in Nat /\ rc[p] >= Mine(t, p) /\ held[t][p] \in Nat
        BY CountsAtLeast DEF Shape
      <4> QED BY <2>3, <4>1, <4>2
    <3> QED BY <2>2, <3>1
  <2>6. RefcountExact' /\ FreedAreGone'
    BY <1>1, <1>2, <2>4, <2>5, CountedNext
  <2> QED BY <1>6, <2>6
<1> QED BY <1>1, <1>7, <1>8

\* reads the old one,
LEMMA SetReadInv ==
  ASSUME SlotInv, Shape', Placed', NEW t \in Thread, SetRead(t)
  PROVE  SlotInv'
<1> USE DEF SlotInv
<1>1. /\ pc[t] = "set" /\ pc' = [pc EXCEPT ![t] = "swap"]
      /\ src' = [src EXCEPT ![t] = slot[at[t]]]
      /\ UNCHANGED <<slot, rc, freed, held, at, value>>
  BY DEF SetRead, Goto
<1>2. IF at[t] \notin NonAtomic
        THEN /\ PropertyLocks[GOODHASH[at[t]]] = NULL
             /\ PropertyLocks' = [PropertyLocks EXCEPT ![GOODHASH[at[t]]] = t]
        ELSE PropertyLocks' = PropertyLocks
  BY DEF SetRead, Atomic
<1>3. OthersStay(t) /\ pc'[t] = "swap" /\ at'[t] = at[t] /\ src'[t] = slot[at[t]]
  BY <1>1 DEF OthersStay, Shape
<1>4. at[t] \in Slot /\ GOODHASH[at[t]] \in LockIndex
  BY <1>1, LocksThere DEF Placed, SlotPlaces
<1>5. /\ at[t] \notin NonAtomic => PropertyLocks'[GOODHASH[at[t]]] = t
      /\ \A u \in Thread \ {t}, l \in LockIndex : PropertyLocks[l] = u => PropertyLocks'[l] = u
  BY <1>2, <1>4, AccessorsAssumption DEF Shape
<1>6. Locked(t)' /\ Read(t)' /\ Joins(t)
  BY <1>1, <1>3, <1>5 DEF Locked, Read, Joins, SlotPlaces
<1>7. \A o \in Obj : Mine(t, o)' = Mine(t, o)
  BY <1>1, <1>3 DEF Mine, One, Setting, Releasing
<1>8. RefcountExact' /\ FreedAreGone'
  BY <1>1, <1>3, <1>7, NothingCounted
<1>9. SlotLocksHeld' /\ UsedByOne' /\ ReadIsThere'
  BY <1>1, <1>3, <1>5, <1>6, PromisesKept
<1> QED BY <1>8, <1>9

\* puts the new one in its place, so that the property's reference is now its own,
LEMMA SetWriteInv ==
  ASSUME SlotInv, Shape', Placed', NEW t \in Thread, SetWrite(t)
  PROVE  SlotInv'
<1> USE DEF SlotInv
<1>1. PICK s \in Slot : s = at[t]
  BY DEF SetWrite, Placed, SlotPlaces
<1>2. PICK v \in Obj \cup {NULL} : v = value[t]
  BY DEF Shape
<1>3. /\ pc[t] = "swap" /\ pc' = [pc EXCEPT ![t] = "release"]
      /\ slot' = [slot EXCEPT ![s] = v]
      /\ UNCHANGED <<rc, freed, held, at, src, value>>
  BY <1>1, <1>2 DEF SetWrite, Goto
<1>4. PropertyLocks' = IF s \notin NonAtomic THEN [PropertyLocks EXCEPT ![GOODHASH[s]] = NULL]
                                             ELSE PropertyLocks
  BY <1>1 DEF SetWrite, Atomic
<1>5. OthersStay(t) /\ pc'[t] = "release" /\ at'[t] = s /\ src[t] = slot[s]
  BY <1>1, <1>3 DEF OthersStay, ReadIsThere, Shape
<1>6. \A q \in Slot : slot'[q] = IF q = s THEN v ELSE slot[q]
  BY <1>3 DEF Shape
<1>7. \A u \in Thread \ {t}, l \in LockIndex : PropertyLocks[l] = u => PropertyLocks'[l] = u
  <2>1. s \notin NonAtomic => PropertyLocks[GOODHASH[s]] = t
    BY <1>1, <1>3 DEF SlotLocksHeld
  <2> QED BY <1>4, <2>1, LocksThere DEF Shape
<1>8. ASSUME NEW u \in Thread \ {t}, pc[u] \in {"get", "swap"} PROVE slot'[at[u]] = slot[at[u]]
  <2>1. at[u] \in Slot
    BY <1>8 DEF Placed, SlotPlaces
  <2>2. at[u] # s
    <3> SUFFICES ASSUME at[u] = s PROVE FALSE
      OBVIOUS
    <3>1. s \notin NonAtomic
      BY <1>1, <1>3, <1>8 DEF UsedByOne, SlotPlaces
    <3>2. PropertyLocks[GOODHASH[s]] = t /\ PropertyLocks[GOODHASH[s]] = u
      BY <1>1, <1>3, <1>8, <3>1 DEF SlotLocksHeld
    <3> QED BY <3>2
  <2> QED BY <1>6, <2>1, <2>2
<1>9. Locked(t)' /\ Read(t)' /\ Joins(t)
  BY <1>1, <1>3, <1>5 DEF Locked, Read, Joins, SlotPlaces
<1>10. SlotLocksHeld' /\ UsedByOne' /\ ReadIsThere'
  BY <1>5, <1>7, <1>8, <1>9, PromisesKept
<1>11. ASSUME NEW o \in Obj
       PROVE  rc'[o] = Holders(o)' + Cardinality(InSlots(o)') + Cardinality(Setting(o)')
                     + Cardinality(Releasing(o)')
  <2>1. Mine(t, o) = held[t][o] + One(v = o) /\ Mine(t, o)' = held[t][o] + One(slot[s] = o)
    <3>1. held[t][o] \in Nat
      BY DEF Shape
    <3>2. Mine(t, o) = held[t][o] + One(v = o)
      BY <1>2, <1>3, <3>1 DEF Mine, One, Setting, Releasing
    <3>3. Mine(t, o)' = held[t][o] + One(slot[s] = o)
      BY <1>3, <1>5, <3>1 DEF Mine, One, Setting, Releasing
    <3> QED BY <3>2, <3>3
  <2>2. PICK S \in SUBSET Slot, T \in SUBSET Slot :
          /\ S = InSlots(o) /\ T = InSlots(o)'
          /\ \A q \in Slot \ {s} : q \in S <=> q \in T
          /\ s \in S <=> slot[s] = o
          /\ s \in T <=> v = o
    <3>1. InSlots(o) \in SUBSET Slot /\ InSlots(o)' \in SUBSET Slot
      BY DEF InSlots
    <3>2. \A q \in Slot : (q \in InSlots(o) <=> slot[q] = o) /\ (q \in InSlots(o)' <=> slot'[q] = o)
      BY DEF InSlots
    <3> QED BY <1>6, <3>1, <3>2
  <2>3. /\ Cardinality(S) \in Nat /\ Cardinality(T) \in Nat
        /\ Cardinality(T) = Cardinality(S) + One(v = o) - One(slot[s] = o)
    <3>1. /\ Cardinality(S) \in Nat /\ Cardinality(T) \in Nat
          /\ Cardinality(T) = Cardinality(S) + One(s \in T) - One(s \in S)
      <4>1. S \ {s} = T \ {s}
        BY <2>2
      <4> QED BY <4>1, AccessorsAssumption, OneMember
    <3>2. One(s \in T) = One(v = o) /\ One(s \in S) = One(slot[s] = o)
      BY <2>2 DEF One
    <3> QED BY <3>1, <3>2
  <2>4. One(v = o) \in Nat /\ One(slot[s] = o) \in Nat /\ held[t][o] \in Nat
    BY DEF One, Shape
  <2>5. rc[o] = Holders(o) + Cardinality(InSlots(o)) + Cardinality(Setting(o))
                    + Cardinality(Releasing(o))
    BY Exact
  <2>6. rc'[o] = rc[o] /\ \A u \in Thread \ {t} : held'[u] = held[u]
    BY <1>3
  <2>7. /\ Holders(o) \in Nat /\ Holders(o)' \in Nat
        /\ Cardinality(Setting(o)) \in Nat /\ Cardinality(Setting(o)') \in Nat
        /\ Cardinality(Releasing(o)) \in Nat /\ Cardinality(Releasing(o)') \in Nat
        /\ Holders(o)' + Cardinality(Setting(o)') + Cardinality(Releasing(o)')
              = Holders(o) + Cardinality(Setting(o)) + Cardinality(Releasing(o))
                + Mine(t, o)' - Mine(t, o)
    BY <1>5, <2>6, MineChanges
  <2>8. PICK a \in Nat, b \in Nat :
          /\ a = Holders(o) + Cardinality(Setting(o)) + Cardinality(Releasing(o))
          /\ b = Holders(o)' + Cardinality(Setting(o)') + Cardinality(Releasing(o)')
          /\ b = a + One(slot[s] = o) - One(v = o)
    BY <2>1, <2>4, <2>7
  <2>9. rc'[o] = a + Cardinality(S)
    BY <2>2, <2>3, <2>5, <2>6, <2>7, <2>8
  <2>10. rc'[o] = b + Cardinality(T)
    BY <2>3, <2>4, <2>8, <2>9
  <2>11. Cardinality(InSlots(o)') = Cardinality(T)
    BY <2>2
  <2> QED BY <2>3, <2>7, <2>8, <2>10, <2>11
<1>12. RefcountExact'
  BY <1>11, ExactNext
<1>13. FreedAreGone'
  BY <1>3 DEF FreedAreGone
<1> QED BY <1>10, <1>12, <1>13

\* An object loses a reference, and is freed with its last.
LEMMA ReleaseCounts ==
  ASSUME Shape, NEW o \in Obj, ReleaseObject(o), rc[o] >= 1
  PROVE  /\ Frees
         /\ \A p \in Obj : rc'[p] = IF p = o THEN rc[p] - 1 ELSE rc[p]
<1>1. /\ \A p \in Obj : rc'[p] = IF p = o THEN rc[p] - 1 ELSE rc[p]
      /\ freed' = IF rc[o] = 1 THEN freed \cup {o} ELSE freed
  BY DEF ReleaseObject, Shape
<1> QED BY <1>1 DEF Frees

\* and releases the old one, which was the property's until then.
LEMMA SetReleaseInv ==
  ASSUME SlotInv, Shape', Placed', NEW t \in Thread, SetRelease(t)
  PROVE  SlotInv'
<1> USE DEF SlotInv
<1>1. /\ pc[t] = "release" /\ End(t) /\ UNCHANGED <<slot, PropertyLocks, held>>
      /\ IF src[t] = NULL THEN UNCHANGED <<rc, freed>> ELSE ReleaseObject(src[t])
  BY DEF SetRelease
<1>2. OthersStay(t) /\ pc'[t] = "idle"
  BY <1>1, EndStays
<1>3. Locked(t)' /\ Read(t)' /\ Joins(t)
  BY <1>2 DEF Locked, Read, Joins, SlotPlaces
<1>4. SlotLocksHeld' /\ UsedByOne' /\ ReadIsThere'
  BY <1>1, <1>2, <1>3, PromisesKept
<1>5. ASSUME NEW p \in Obj
      PROVE  /\ Mine(t, p) = held[t][p] + (IF p = src[t] THEN 1 ELSE 0) /\ Mine(t, p)' = held[t][p]
             /\ held[t][p] \in Nat /\ rc[p] \in Int
  <2>1. held[t][p] \in Nat /\ rc[p] \in Int
    BY DEF Shape
  <2>2. Mine(t, p) = held[t][p] + (IF p = src[t] THEN 1 ELSE 0)
    BY <1>1, <2>1 DEF Mine, One, Setting, Releasing
  <2>3. Mine(t, p)' = held[t][p]
    BY <1>1, <1>2, <2>1 DEF Mine, One, Setting, Releasing
  <2> QED BY <2>1, <2>2, <2>3
<1>6. Frees /\ \A p \in Obj : rc'[p] = IF p = src[t] THEN rc[p] - 1 ELSE rc[p]
  <2>1. CASE src[t] = NULL
    <3>1. \A p \in Obj : p # src[t] /\ rc'[p] = rc[p]
      BY <1>1, <2>1, AccessorsAssumption
    <3> QED BY <1>1, <2>1, <3>1 DEF Frees
  <2>2. CASE src[t] # NULL
    <3>1. PICK o \in Obj : o = src[t]
      BY <1>1, <2>2 DEF Placed
    <3>2. rc[o] >= 1
      <4>1. rc[o] >= Mine(t, o) /\ rc[o] \in Nat
        BY CountsAtLeast
      <4> QED BY <1>5, <3>1, <4>1
    <3> QED BY <1>1, <2>2, <3>1, <3>2, ReleaseCounts
  <2> QED BY <2>1, <2>2
<1>7. Counted(t)
  <2>1. \A p \in Obj : rc'[p] = rc[p] + Mine(t, p)' - Mine(t, p)
    BY <1>5, <1>6
  <2> QED BY <1>1, <2>1 DEF Counted
<1>8. RefcountExact' /\ FreedAreGone'
  BY <1>1, <1>2, <1>6, <1>7, CountedNext
<1> QED BY <1>4, <1>8

\* A thread gives up a reference of its own.
LEMMA DropInv ==
  ASSUME SlotInv, Shape', Placed', NEW t \in Thread, NEW o \in Obj, Drop(t, o)
  PROVE  SlotInv'
<1> USE DEF SlotInv
<1>1. /\ pc[t] = "idle" /\ held[t][o] > 0 /\ ReleaseObject(o)
      /\ held' = [held EXCEPT ![t][o] = @ - 1]
      /\ UNCHANGED <<slot, PropertyLocks, pc, at, src, value>>
  BY DEF Drop
<1>2. OthersStay(t)
  BY <1>1 DEF OthersStay
<1>3. Locked(t)' /\ Read(t)' /\ Joins(t)
  BY <1>1 DEF Locked, Read, Joins, SlotPlaces
<1>4. SlotLocksHeld' /\ UsedByOne' /\ ReadIsThere'
  BY <1>1, <1>2, <1>3, PromisesKept
<1>5. /\ \A u \in Thread \ {t} : held'[u] = held[u]
      /\ \A p \in Obj : held'[t][p] = IF p = o THEN held[t][p] - 1 ELSE held[t][p]
  BY <1>1 DEF Shape
<1>6. ASSUME NEW p \in Obj
      PROVE  /\ Mine(t, p) = held[t][p] /\ Mine(t, p)' = held'[t][p]
             /\ held[t][p] \in Nat /\ rc[p] \in Int
  <2>1. held[t][p] \in Nat /\ held'[t][p] \in Nat /\ rc[p] \in Int
    BY DEF Shape
  <2> QED BY <1>1, <2>1 DEF Mine, One, Setting, Releasing
<1>7. rc[o] >= 1
  <2>1. rc[o] >= Mine(t, o) /\ rc[o] \in Nat
    BY CountsAtLeast
  <2> QED BY <1>1, <1>6, <2>1
<1>8. Frees /\ \A p \in Obj : rc'[p] = IF p = o THEN rc[p] - 1 ELSE rc[p]
  BY <1>1, <1>7, ReleaseCounts
<1>9. Counted(t)
  <2>1. \A p \in Obj : rc'[p] = rc[p] + Mine(t, p)' - Mine(t, p)
    BY <1>5, <1>6, <1>8
  <2> QED BY <1>5, <2>1 DEF Counted
<1>10. RefcountExact' /\ FreedAreGone'
  BY <1>1, <1>2, <1>8, <1>9, CountedNext
<1> QED BY <1>4, <1>10

\* Every step keeps the invariant of the properties.
LEMMA SlotNext ==
  ASSUME SlotInv, [Next]_vars
  PROVE  SlotInv'
<1>1. Shape' /\ Placed'
  BY ShapeNext DEF SlotInv
<1>2. Shape
  BY DEF SlotInv
<1>3. CASE UNCHANGED vars
  BY <1>1, <1>3 DEF vars, SlotInv, SlotLocksHeld, UsedByOne, ReadIsThere, RefcountExact, FreedAreGone
<1>4. ASSUME NEW t \in Thread, NEW s \in Slot, GetNonAtomic(t, s) PROVE SlotInv'
  <2>1. OthersStay(t) /\ UNCHANGED objects /\ pc[t] = "idle" /\ pc'[t] = "idle"
    BY <1>4 DEF GetNonAtomic, OthersStay
  <2> QED BY <1>1, <2>1, ObjectsStay DEF Joins, SlotPlaces
<1>5. ASSUME NEW t \in Thread, NEW d \in Struct, NEW s \in Struct, CopyBegin(t, d, s) PROVE SlotInv'
  <2>1. OthersStay(t) /\ UNCHANGED objects /\ pc[t] = "idle" /\ pc'[t] = "lock1"
    BY <1>2, <1>5 DEF CopyBegin, Begin, Goto, OthersStay, Shape
  <2> QED BY <1>1, <2>1, ObjectsStay DEF Joins, SlotPlaces
<1>6. ASSUME NEW t \in Thread, SetSame(t) PROVE SlotInv'
  <2>1. OthersStay(t) /\ UNCHANGED objects /\ pc[t] = "done" /\ pc'[t] = "idle"
    BY <1>2, <1>6, EndStays DEF SetSame
  <2> QED BY <1>1, <2>1, ObjectsStay DEF Joins, SlotPlaces
<1>7. ASSUME NEW t \in Thread, NEW n \in {1, 2}, CopyLock(t, n) \/ CopyWord(t, n) \/ CopyUnlock(t, n)
      PROVE  SlotInv'
  <2>1. UNCHANGED objects /\ pc[t] \in CopyPlaces
    BY <1>7 DEF CopyLock, CopyWord, CopyUnlock, CopyPlaces
  <2>2. OthersStay(t) /\ pc'[t] \in CopyPlaces \cup {"idle"}
    <3>1. CASE CopyLock(t, n)
      <4>1. \E p \in CopyPlaces : pc' = [pc EXCEPT ![t] = p]
        BY <3>1 DEF CopyLock, Goto, CopyPlaces
      <4> QED BY <1>2, <3>1, <4>1 DEF CopyLock, OthersStay, Shape
    <3>2. CASE CopyWord(t, n)
      <4>1. \E p \in CopyPlaces : pc' = [pc EXCEPT ![t] = p]
        BY <3>2 DEF CopyWord, Goto, CopyPlaces
      <4> QED BY <1>2, <3>2, <4>1 DEF CopyWord, OthersStay, Shape
    <3>3. CASE CopyUnlock(t, n)
      <4>1. (Goto(t, "unlock2") /\ UNCHANGED <<at, src, value>>) \/ End(t)
        BY <3>3 DEF CopyUnlock
      <4>2. CASE Goto(t, "unlock2") /\ UNCHANGED <<at, src, value>>
        BY <1>2, <4>2 DEF Goto, OthersStay, CopyPlaces, Shape
      <4> QED BY <1>2, <4>1, <4>2, EndStays
    <3> QED BY <1>7, <3>1, <3>2, <3>3
  <2> QED BY <1>1, <2>1, <2>2, ObjectsStay DEF Joins, SlotPlaces, CopyPlaces
<1>8. ASSUME NEW t \in Thread, NEW s \in Slot, GetLock(t, s) PROVE SlotInv'
  BY <1>1, <1>8, GetLockInv
<1>9. ASSUME NEW t \in Thread, NEW s \in Slot, NEW o \in Obj \cup {NULL}, NEW copy \in BOOLEAN,
             SetBegin(t, s, o, copy)
      PROVE  SlotInv'
  BY <1>1, <1>9, SetBeginInv
<1>10. ASSUME NEW t \in Thread, NEW o \in Obj, Drop(t, o) PROVE SlotInv'
  BY <1>1, <1>10, DropInv
<1>11. ASSUME NEW t \in Thread, Step(t) PROVE SlotInv'
  BY <1>1, <1>6, <1>7, <1>11, GetRetainInv, SetReadInv, SetWriteInv, SetReleaseInv DEF Step
<1> QED BY <1>3, <1>4, <1>5, <1>8, <1>9, <1>10, <1>11 DEF Next

\* At first each object has the one reference of its holder.
LEMMA SlotInit ==
  ASSUME Init
  PROVE  SlotInv
<1>1. Shape /\ Placed
  BY ShapeInit
<1>2. PICK holder \in [Obj -> Thread] :
        /\ rc = [o \in Obj |-> 1]
        /\ held = [t \in Thread |-> [o \in Obj |-> IF holder[o] = t THEN 1 ELSE 0]]
  BY DEF Init
<1>3. SlotLocksHeld /\ UsedByOne /\ ReadIsThere /\ FreedAreGone
  BY DEF Init, SlotLocksHeld, UsedByOne, ReadIsThere, FreedAreGone, SlotPlaces
<1>4. ASSUME NEW o \in Obj
      PROVE  rc[o] = Holders(o) + Cardinality(InSlots(o)) + Cardinality(Setting(o))
                   + Cardinality(Releasing(o))
  <2>1. InSlots(o) = {} /\ Setting(o) = {} /\ Releasing(o) = {}
    BY AccessorsAssumption DEF Init, InSlots, Setting, Releasing
  <2>2. Cardinality({}) = 0
    BY FS_EmptySet
  <2>3. PICK t \in Thread : t = holder[o]
    OBVIOUS
  <2>4. PICK f \in [Thread -> Nat] : f = [u \in Thread |-> held[u][o]] /\ f[t] = 1
                                     /\ \A u \in Thread \ {t} : f[u] = 0
    <3>1. \A u \in Thread : held[u][o] = IF u = t THEN 1 ELSE 0
      BY <1>2, <2>3
    <3>2. [u \in Thread |-> held[u][o]] \in [Thread -> Nat]
      BY <3>1
    <3> QED BY <3>1, <3>2
  <2>5. PICK z \in [Thread -> Nat] : z = [u \in Thread |-> 0]
    OBVIOUS
  <2>6. PICK rest \in Nat : SumFunction(f) = f[t] + rest /\ SumFunction(z) = z[t] + rest
    <3>1. \A u \in Thread \ {t} : f[u] = z[u]
      BY <2>4, <2>5
    <3> QED BY <3>1, AccessorsAssumption, SumSplits
  <2>7. SumFunction(z) = 0 /\ z[t] = 0
    <3>1. \A u \in Thread : z[u] = 0
      BY <2>5
    <3> QED BY <3>1, AccessorsAssumption, SumZero
  <2>8. Holders(o) = 1
    BY <2>4, <2>6, <2>7 DEF Holders
  <2>9. rc[o] = 1
    BY <1>2
  <2> QED BY <2>1, <2>2, <2>8, <2>9
<1>5. RefcountExact
  BY <1>4, Exact
<1> QED BY <1>1, <1>3, <1>5 DEF SlotInv

\* PropertiesConsistent: the count of every object is the sum of the references of
\* threads, properties and setters under way, and an atomic getter retains nothing that
\* has been freed.
THEOREM PropertiesStayConsistent == Spec => []PropertiesConsistent
<1>1. Init => SlotInv
  BY SlotInit
<1>2. SlotInv /\ [Next]_vars => SlotInv'
  BY SlotNext
<1>3. SlotInv => PropertiesConsistent
  <2> SUFFICES ASSUME SlotInv PROVE PropertiesConsistent
    OBVIOUS
  <2> USE DEF SlotInv
  <2>1. TypeOK
    <3>1. \A o \in Obj : rc[o] \in Nat
      BY CountsAtLeast
    <3>2. rc \in [Obj -> Nat]
      BY <3>1 DEF Shape
    <3>3. pc \in [Thread -> {"idle", "get", "set", "swap", "release", "done",
                             "lock1", "lock2", "copy1", "copy2", "unlock1", "unlock2"}]
      BY DEF Shape, Place, SlotPlaces, CopyPlaces
    <3> QED BY <3>2, <3>3 DEF TypeOK, Shape
  <2>2. GetterRetainsLive
    <3> SUFFICES ASSUME NEW t \in Thread, pc[t] = "get", value[t] # NULL PROVE value[t] \notin freed
      BY DEF GetterRetainsLive
    <3>1. at[t] \in Slot /\ slot[at[t]] = value[t] /\ value[t] \in Obj
      BY DEF Placed, SlotPlaces, ReadIsThere, Shape
    <3>2. rc[value[t]] >= 1
      BY <3>1, CountsAtLeast
    <3> QED BY <3>2 DEF FreedAreGone
  <2> QED BY <2>1, <2>2 DEF PropertiesConsistent
<1> QED BY <1>1, <1>2, <1>3, PTL DEF Spec
-----------------------------------------------------------------------------
(* CacheAllocator: sizes.                                                 *)

\* A number of quanta.
Quanta(n) == \E k \in Nat : n = k * CACHE_QUANTUM

\* A quantum has words.
LEMMA QuantumPositive == CACHE_QUANTUM \in Nat \ {0}
  BY CacheAllocatorAssumption DEF CACHE_QUANTUM, objc_cache

\* Rounding up to a multiple of q.
LEMMA RoundsUp ==
  ASSUME NEW n \in Nat, NEW q \in Nat \ {0}
  PROVE  \E k \in Nat : /\ (n + q - 1) \div q = k /\ k * q \in Nat
                        /\ k * q >= n /\ k * q < n + q
<1>1. PICK k \in Nat : k = (n + q - 1) \div q
  BY n + q - 1 \in Nat
<1>2. k * q >= n /\ k * q < n + q
  BY <1>1
<1>3. k * q \in Nat
  OBVIOUS
<1> QED BY <1>1, <1>2, <1>3

\* The next multiple of q.
LEMMA RoundsPast ==
  ASSUME NEW n \in Nat, NEW q \in Nat \ {0}
  PROVE  \E k \in Nat : n + q - (n % q) = k * q /\ k * q > n
<1>1. PICK m \in Nat : m = n \div q
  OBVIOUS
<1>2. n % q = n - m * q
  <2>1. n % q = n - (n \div q) * q
    BY Z3
  <2> QED BY <1>1, <2>1
<1>3. (m + 1) * q = m * q + q /\ m * q \in Int
  OBVIOUS
<1>4. n % q < q /\ n % q \in Int
  OBVIOUS
<1>5. n + q - (n % q) = (m + 1) * q /\ (m + 1) * q > n
  BY <1>2, <1>3, <1>4
<1>6. m + 1 \in Nat
  OBVIOUS
<1> QED BY <1>5, <1>6

\* Quanta add up to quanta.
LEMMA QuantaSum ==
  ASSUME NEW m \in Nat, NEW n \in Nat, Quanta(m), Quanta(n)
  PROVE  Quanta(m + n) /\ (m >= n => Quanta(m - n))
<1>1. PICK j \in Nat : m = j * CACHE_QUANTUM
  BY DEF Quanta
<1>2. PICK k \in Nat : n = k * CACHE_QUANTUM
  BY DEF Quanta
<1>3. PICK q \in Nat \ {0} : q = CACHE_QUANTUM
  BY QuantumPositive
<1>4. (j + k) * q = j * q + k * q /\ (j - k) * q = j * q - k * q
  OBVIOUS
<1>5. Quanta(m + n)
  <2>1. m + n = (j + k) * CACHE_QUANTUM /\ j + k \in Nat
    BY <1>1, <1>2, <1>3, <1>4
  <2> QED BY <2>1 DEF Quanta
<1>6. ASSUME m >= n PROVE Quanta(m - n)
  <2>1. ~ (j * q < k * q)
    BY <1>1, <1>2, <1>3, <1>6
  <2>2. ~ (j < k)
    BY <2>1
  <2>3. j - k \in Nat
    BY <2>2
  <2>4. m - n = (j - k) * CACHE_QUANTUM
    BY <1>1, <1>2, <1>3, <1>4
  <2> QED BY <2>3, <2>4 DEF Quanta
<1> QED BY <1>5, <1>6

\* No rest is less than a quantum.
LEMMA QuantaSmall ==
  ASSUME NEW m \in Nat, Quanta(m), m < CACHE_QUANTUM
  PROVE  m = 0
<1>1. PICK k \in Nat : m = k * CACHE_QUANTUM
  BY DEF Quanta
<1>2. PICK q \in Nat \ {0} : q = CACHE_QUANTUM
  BY QuantumPositive
<1>3. k * q < 1 * q
  BY <1>1, <1>2
<1>4. k = 0
  BY <1>3
<1> QED BY <1>1, <1>2, <1>4

\* What a cache gets is whole, enough, and not more than any that would be.
LEMMA SizeForMask ==
  ASSUME NEW m \in Nat
  PROVE  /\ size_for_mask(m) \in Nat \ {0} /\ Quanta(size_for_mask(m))
         /\ size_for_mask(m) >= objc_cache + m
         /\ \A w \in Nat : Quanta(w) /\ w >= objc_cache + m => size_for_mask(m) <= w
<1>1. PICK q \in Nat \ {0} : q = CACHE_QUANTUM
  BY QuantumPositive
<1>2. PICK n \in Nat \ {0} : n = objc_cache + m
  BY DEF objc_cache
<1>3. PICK k \in Nat : /\ (n + q - 1) \div q = k /\ k * q \in Nat
                       /\ k * q >= n /\ k * q < n + q
  BY RoundsUp
<1>4. size_for_mask(m) = k * q
  BY <1>1, <1>2, <1>3 DEF size_for_mask
<1>5. ASSUME NEW w \in Nat, Quanta(w), w >= n PROVE k * q <= w
  <2>1. PICK j \in Nat : w = j * q
    BY <1>1, <1>5 DEF Quanta
  <2>2. (j + 1) * q = j * q + q
    OBVIOUS
  <2>3. k * q < (j + 1) * q
    BY <1>3, <1>5, <2>1, <2>2
  <2>4. k <= j
    BY <2>3
  <2>5. k * q <= j * q
    BY <2>4
  <2> QED BY <2>1, <2>5
<1>6. Quanta(size_for_mask(m))
  BY <1>1, <1>4 DEF Quanta
<1>7. k * q > 0
  BY <1>3
<1> QED BY <1>2, <1>3, <1>4, <1>5, <1>6, <1>7

\* A new region has room for what it was made for.
LEMMA AddRegionIs ==
  ASSUME NEW n \in Nat
  PROVE  \E all \in Nat : /\ add_region(n) = [size |-> all, freeList |-> <<[at |-> 0, size |-> all]>>]
                          /\ Quanta(all) /\ all > n
<1>1. PICK q \in Nat \ {0} : q = CACHE_QUANTUM
  BY QuantumPositive
<1>2. PICK k \in Nat : n + q - (n % q) = k * q /\ k * q > n
  BY RoundsPast
<1>3. PICK w : w = n + CACHE_QUANTUM - (n % CACHE_QUANTUM)
  OBVIOUS
<1>4. w = k * q /\ w \in Nat /\ w > n /\ Quanta(w)
  BY <1>1, <1>2, <1>3 DEF Quanta
<1>5. CACHE_REGION_SIZE \in Nat /\ Quanta(CACHE_REGION_SIZE)
  <2>1. PICK c \in Nat : c = CACHE_REGION_QUANTA
    BY CacheAllocatorAssumption
  <2>2. CACHE_REGION_SIZE = c * CACHE_QUANTUM /\ c * q \in Nat
    BY <2>1 DEF CACHE_REGION_SIZE
  <2> QED BY <1>1, <2>1, <2>2 DEF Quanta
<1>6. PICK v : v = IF w < CACHE_REGION_SIZE THEN CACHE_REGION_SIZE ELSE w
  OBVIOUS
<1>7. v \in Nat /\ Quanta(v) /\ v > n
  <2>1. CASE w < CACHE_REGION_SIZE
    BY <1>4, <1>5, <1>6, <2>1
  <2>2. CASE ~ (w < CACHE_REGION_SIZE)
    BY <1>4, <1>6, <2>2
  <2> QED BY <2>1, <2>2
<1>8. add_region(n) = [size |-> v, freeList |-> <<[at |-> 0, size |-> v]>>]
  BY <1>3, <1>6 DEF add_region
<1> QED BY <1>7, <1>8

-----------------------------------------------------------------------------
(* CacheAllocator: lists of free blocks.                                  *)

\* A part of a sequence, which may be empty.
LEMMA PartIs ==
  ASSUME NEW S, NEW s \in Seq(S), NEW n \in Nat, n = Len(s),
         NEW p \in 1 .. n + 1, NEW q \in p - 1 .. n
  PROVE  /\ SubSeq(s, p, q) \in Seq(S) /\ Len(SubSeq(s, p, q)) = q - p + 1
         /\ \A k \in p .. q : SubSeq(s, p, q)[k - p + 1] = s[k]
<1>1. \A k \in p .. q : s[k] \in S
  <2>1. \A k \in p .. q : k \in 1 .. Len(s)
    OBVIOUS
  <2> QED BY <2>1, ElementOfSeq
<1>2. p \in Int /\ q \in Int
  OBVIOUS
<1>3. PICK a : a = SubSeq(s, p, q)
  OBVIOUS
<1>4. /\ a \in Seq(S) /\ Len(a) = IF p <= q THEN q - p + 1 ELSE 0
      /\ \A k \in 1 .. q - p + 1 : a[k] = s[p + k - 1]
  BY <1>1, <1>2, <1>3, SubSeqProperties
<1>5. Len(a) = q - p + 1
  BY <1>4
<1>6. ASSUME NEW k \in p .. q PROVE a[k - p + 1] = s[k]
  <2>1. k - p + 1 \in 1 .. q - p + 1 /\ p + (k - p + 1) - 1 = k
    OBVIOUS
  <2> QED BY <1>4, <2>1
<1> QED BY <1>3, <1>4, <1>5, <1>6

\* A sequence without its element i.
LEMMA RemoveAtIs ==
  ASSUME NEW S, NEW s \in Seq(S), NEW i \in 1 .. Len(s)
  PROVE  /\ RemoveAt(s, i) \in Seq(S) /\ Len(RemoveAt(s, i)) = Len(s) - 1
         /\ \A k \in 1 .. Len(s) - 1 :
              RemoveAt(s, i)[k] = IF k < i THEN s[k] ELSE s[k + 1]
<1> PICK n \in Nat : n = Len(s)
  BY LenProperties
<1> i \in 1 .. n
  OBVIOUS
<1>1. PICK x \in Nat : x = i - 1
  OBVIOUS
<1>2. PICK z \in Nat : z = i + 1
  OBVIOUS
<1>3. PICK a : a = SubSeq(s, 1, x)
  OBVIOUS
<1>4. a \in Seq(S) /\ Len(a) = x /\ \A k \in 1 .. x : a[k] = s[k]
  <2>1. 1 \in 1 .. n + 1 /\ x \in 1 - 1 .. n
    BY <1>1
  <2>2. /\ a \in Seq(S) /\ Len(a) = x - 1 + 1
        /\ \A k \in 1 .. x : a[k - 1 + 1] = s[k]
    BY <1>3, <2>1, PartIs
  <2> QED BY <2>2
<1>5. PICK b : b = SubSeq(s, z, n)
  OBVIOUS
<1>6. b \in Seq(S) /\ Len(b) = n - i /\ \A k \in z .. n : b[k - i] = s[k]
  <2>1. z \in 1 .. n + 1 /\ n \in z - 1 .. n
    BY <1>2
  <2>2. /\ b \in Seq(S) /\ Len(b) = n - z + 1
        /\ \A k \in z .. n : b[k - z + 1] = s[k]
    BY <1>5, <2>1, PartIs, SMTT(30)
  <2>3. n - z + 1 = n - i /\ \A k \in z .. n : k - z + 1 = k - i
    BY <1>2
  <2> QED BY <2>2, <2>3
<1>7. PICK c : c = a \o b
  OBVIOUS
<1>8. /\ c \in Seq(S) /\ Len(c) = n - 1
      /\ \A k \in 1 .. n - 1 : c[k] = IF k <= x THEN a[k] ELSE b[k - x]
  <2>1. /\ c \in Seq(S) /\ Len(c) = Len(a) + Len(b)
        /\ \A k \in 1 .. Len(a) + Len(b) : c[k] = IF k <= Len(a) THEN a[k] ELSE b[k - Len(a)]
    <3>1. a \in Seq(S) /\ b \in Seq(S)
      BY <1>4, <1>6
    <3> QED BY <1>7, <3>1, ConcatProperties
  <2>2. Len(a) = x /\ Len(a) + Len(b) = n - 1
    BY <1>1, <1>4, <1>6
  <2> QED BY <2>1, <2>2
<1>9. RemoveAt(s, i) = c
  BY <1>1, <1>2, <1>3, <1>5, <1>7 DEF RemoveAt
<1>10. ASSUME NEW k \in 1 .. n - 1
       PROVE  c[k] = IF k < i THEN s[k] ELSE s[k + 1]
  <2>1. CASE k < i
    <3>1. k \in 1 .. x /\ k <= x
      BY <1>1, <2>1
    <3> QED BY <1>4, <1>8, <2>1, <3>1
  <2>2. CASE ~ (k < i)
    <3>1. PICK j \in z .. n : j = k + 1
      BY <1>2, <2>2
    <3>2. ~ (k <= x) /\ k - x = j - i
      BY <1>1, <2>2, <3>1
    <3>3. c[k] = b[j - i]
      BY <1>8, <3>2
    <3>4. b[j - i] = s[j]
      BY <1>6
    <3> QED BY <2>2, <3>1, <3>3, <3>4
  <2> QED BY <2>1, <2>2
<1> QED BY <1>8, <1>9, <1>10

\* A sequence with one more element, at i.
LEMMA InsertAtIs ==
  ASSUME NEW S, NEW s \in Seq(S), NEW i \in 1 .. Len(s) + 1, NEW e \in S
  PROVE  /\ InsertAt(s, i, e) \in Seq(S) /\ Len(InsertAt(s, i, e)) = Len(s) + 1
         /\ \A k \in 1 .. Len(s) + 1 :
              InsertAt(s, i, e)[k] = IF k < i THEN s[k] ELSE IF k = i THEN e ELSE s[k - 1]
<1> PICK n \in Nat : n = Len(s)
  BY LenProperties
<1> i \in 1 .. n + 1
  OBVIOUS
<1>1. PICK x \in Nat : x = i - 1
  OBVIOUS
<1>2. PICK a : a = SubSeq(s, 1, x)
  OBVIOUS
<1>3. a \in Seq(S) /\ Len(a) = x /\ \A k \in 1 .. x : a[k] = s[k]
  <2>1. 1 \in 1 .. n + 1 /\ x \in 1 - 1 .. n
    BY <1>1
  <2>2. /\ a \in Seq(S) /\ Len(a) = x - 1 + 1
        /\ \A k \in 1 .. x : a[k - 1 + 1] = s[k]
    BY <1>2, <2>1, PartIs
  <2> QED BY <2>2
<1>4. PICK b : b = SubSeq(s, i, n)
  OBVIOUS
<1>5. b \in Seq(S) /\ Len(b) = n - i + 1 /\ \A k \in i .. n : b[k - i + 1] = s[k]
  <2>1. i \in 1 .. n + 1 /\ n \in i - 1 .. n
    OBVIOUS
  <2> QED BY <1>4, <2>1, PartIs
<1>6. PICK m : m = <<e>>
  OBVIOUS
<1>7. m \in Seq(S) /\ Len(m) = 1 /\ m[1] = e
  BY <1>6
<1>8. PICK c : c = a \o m
  OBVIOUS
<1>9. /\ c \in Seq(S) /\ Len(c) = i
      /\ \A k \in 1 .. i : c[k] = IF k <= x THEN a[k] ELSE m[k - x]
  <2>1. /\ c \in Seq(S) /\ Len(c) = Len(a) + Len(m)
        /\ \A k \in 1 .. Len(a) + Len(m) : c[k] = IF k <= Len(a) THEN a[k] ELSE m[k - Len(a)]
    <3>1. a \in Seq(S) /\ m \in Seq(S)
      BY <1>3, <1>7
    <3> QED BY <1>8, <3>1, ConcatProperties
  <2>2. Len(a) = x /\ Len(a) + Len(m) = i
    BY <1>1, <1>3, <1>7
  <2> QED BY <2>1, <2>2
<1>10. PICK d : d = c \o b
  OBVIOUS
<1>11. /\ d \in Seq(S) /\ Len(d) = n + 1
       /\ \A k \in 1 .. n + 1 : d[k] = IF k <= i THEN c[k] ELSE b[k - i]
  <2>1. /\ d \in Seq(S) /\ Len(d) = Len(c) + Len(b)
        /\ \A k \in 1 .. Len(c) + Len(b) : d[k] = IF k <= Len(c) THEN c[k] ELSE b[k - Len(c)]
    <3>1. c \in Seq(S) /\ b \in Seq(S)
      BY <1>5, <1>9
    <3> QED BY <1>10, <3>1, ConcatProperties
  <2>2. Len(c) = i /\ Len(c) + Len(b) = n + 1
    BY <1>5, <1>9
  <2> QED BY <2>1, <2>2
<1>12. InsertAt(s, i, e) = d
  BY <1>1, <1>2, <1>4, <1>6, <1>8, <1>10 DEF InsertAt
<1>13. ASSUME NEW k \in 1 .. n + 1
       PROVE  d[k] = IF k < i THEN s[k] ELSE IF k = i THEN e ELSE s[k - 1]
  <2>1. CASE k < i
    <3>1. k \in 1 .. x /\ k <= x /\ k \in 1 .. i /\ k <= i
      BY <1>1, <2>1
    <3>2. d[k] = c[k]
      BY <1>11, <3>1
    <3>3. c[k] = a[k] /\ a[k] = s[k]
      BY <1>3, <1>9, <3>1
    <3> QED BY <2>1, <3>2, <3>3
  <2>2. CASE k = i
    <3>1. ~ (i <= x) /\ i - x = 1 /\ i \in 1 .. i /\ i <= i
      BY <1>1
    <3>2. d[i] = c[i] /\ c[i] = m[1]
      BY <1>9, <1>11, <3>1
    <3> QED BY <1>7, <2>2, <3>2
  <2>3. CASE k > i
    <3>1. PICK j \in i .. n : j = k - 1
      BY <2>3
    <3>2. ~ (k <= i) /\ k - i = j - i + 1
      BY <2>3, <3>1
    <3>3. d[k] = b[j - i + 1]
      BY <1>11, <3>2
    <3>4. b[j - i + 1] = s[j]
      BY <1>5
    <3> QED BY <2>3, <3>1, <3>3, <3>4
  <2> QED BY <2>1, <2>2, <2>3
<1> QED BY <1>11, <1>12, <1>13

FreeBlock == [at : Nat, size : Nat \ {0}]

\* A list has the word x in one of its blocks.
InList(list, x) == \E i \in DOMAIN list : x \in Words(list[i])

\* A list is in the order of addresses, and of its blocks only those at a place
\* in T may touch the next one.
Ordered(list, T) ==
    \A i, j \in DOMAIN list :
        i < j => /\ list[i].at + list[i].size <= list[j].at
                 /\ list[i].at + list[i].size = list[j].at => j = i + 1 /\ i \in T

FreeList(list, T) ==
    /\ list \in Seq(FreeBlock)
    /\ \A i \in DOMAIN list : Quanta(list[i].size)
    /\ Ordered(list, T)

\* The list without the first words of a block, a whole number of quanta: no
\* other word is lost.
LEMMA SlicedIs ==
  ASSUME NEW list, FreeList(list, {}), NEW i \in DOMAIN list,
         NEW size \in Nat \ {0}, Quanta(size), size <= list[i].size
  PROVE  /\ FreeList(Sliced(list, i, size), {})
         /\ \A x \in Nat : /\ InList(Sliced(list, i, size), x) <=>
                                InList(list, x) /\ ~ (x \in list[i].at .. list[i].at + size - 1)
                           /\ x \in list[i].at .. list[i].at + size - 1 => InList(list, x)
<1>1. PICK n \in Nat : n = Len(list) /\ DOMAIN list = 1 .. n
  BY LenProperties DEF FreeList
<1>2. /\ \A k \in 1 .. n : /\ list[k] \in FreeBlock /\ list[k].at \in Nat
                           /\ list[k].size \in Nat \ {0} /\ Quanta(list[k].size)
      /\ \A j, k \in 1 .. n : j < k => list[j].at + list[j].size < list[k].at
  <2>1. \A k \in 1 .. n : list[k] \in FreeBlock
    BY <1>1, ElementOfSeq DEF FreeList
  <2>2. \A k \in 1 .. n : /\ list[k].at \in Nat
                          /\ list[k].size \in Nat \ {0} /\ Quanta(list[k].size)
    BY <1>1, <2>1 DEF FreeList, FreeBlock
  <2>3. ASSUME NEW j \in 1 .. n, NEW k \in 1 .. n, j < k
        PROVE  list[j].at + list[j].size < list[k].at
    <3>1. /\ list[j].at + list[j].size <= list[k].at
          /\ list[j].at + list[j].size = list[k].at => k = j + 1 /\ j \in {}
      BY <1>1, <2>3 DEF FreeList, Ordered
    <3> QED BY <2>2, <3>1
  <2> QED BY <2>1, <2>2, <2>3
<1>3. PICK a \in Nat : a = list[i].at
  BY <1>1, <1>2
<1>4. PICK m \in Nat : m = list[i].size /\ size <= m
  BY <1>1, <1>2
<1>5. Words(list[i]) = a .. a + m - 1
  BY <1>3, <1>4 DEF Words
<1>6. ASSUME NEW x \in Nat, x \in a .. a + size - 1 PROVE InList(list, x)
  <2>1. x \in a .. a + m - 1
    BY <1>4, <1>6
  <2> QED BY <1>5, <2>1 DEF InList
<1>7. ASSUME NEW x \in Nat, NEW k \in 1 .. n, k # i, x \in Words(list[k])
      PROVE  ~ (x \in a .. a + m - 1)
  <2>1. x >= list[k].at /\ x < list[k].at + list[k].size
    BY <1>2, <1>7 DEF Words
  <2>2. CASE k < i
    BY <1>1, <1>2, <1>3, <2>1, <2>2
  <2>3. CASE i < k
    <3>1. list[i].at + list[i].size < list[k].at
      BY <1>1, <1>2, <2>3
    <3>2. a + m < list[k].at
      BY <1>3, <1>4, <3>1
    <3> QED BY <1>2, <2>1, <3>2
  <2> QED BY <1>1, <1>7, <2>2, <2>3
<1>8. CASE m - size >= CACHE_QUANTUM
  <2>1. PICK e : e = [at |-> a + size, size |-> m - size]
    OBVIOUS
  <2>2. PICK l : l = [list EXCEPT ![i] = e]
    OBVIOUS
  <2>3. Sliced(list, i, size) = l
    <3>1. [list[i] EXCEPT !.at = @ + size] = [list[i] EXCEPT !.at = @ + size]
      OBVIOUS
    <3> QED BY <1>3, <1>4, <1>8, <2>1, <2>2 DEF Sliced
  <2>4. e \in FreeBlock /\ e.at = a + size /\ e.size = m - size /\ Quanta(e.size)
    <3>1. m - size \in Nat \ {0}
      BY <1>4, <1>8, QuantumPositive
    <3>2. Quanta(m - size)
      BY <1>1, <1>2, <1>4, QuantaSum
    <3> QED BY <2>1, <3>1, <3>2 DEF FreeBlock
  <2>5. /\ l \in Seq(FreeBlock) /\ DOMAIN l = 1 .. n
        /\ l[i] = e /\ \A k \in (1 .. n) \ {i} : l[k] = list[k]
    <3>1. list \in Seq(FreeBlock) /\ i \in 1 .. Len(list)
      BY <1>1 DEF FreeList
    <3>2. l \in Seq(FreeBlock)
      BY <2>2, <2>4, <3>1
    <3> QED BY <1>1, <2>2, <3>2
  <2>6. FreeList(l, {})
    <3>1. \A k \in 1 .. n : Quanta(l[k].size)
      BY <1>2, <2>4, <2>5
    <3>2. ASSUME NEW j \in 1 .. n, NEW k \in 1 .. n, j < k
          PROVE  l[j].at + l[j].size < l[k].at
      <4>1. list[j].at + list[j].size < list[k].at
        BY <1>2, <3>2
      <4>2. CASE j = i
        <5>1. a + m < list[k].at /\ l[k] = list[k] /\ l[j] = e
          BY <1>3, <1>4, <2>5, <3>2, <4>1, <4>2
        <5>2. e.at + e.size = a + m
          BY <2>4
        <5> QED BY <5>1, <5>2
      <4>3. CASE k = i
        <5>1. list[j].at + list[j].size < a /\ l[j] = list[j] /\ l[k] = e
          BY <1>3, <2>5, <3>2, <4>1, <4>3
        <5> QED BY <1>2, <2>4, <5>1
      <4> QED BY <2>5, <4>1, <4>2, <4>3
    <3>3. ASSUME NEW j \in 1 .. n, NEW k \in 1 .. n, j < k
          PROVE  /\ l[j].at + l[j].size <= l[k].at
                 /\ ~ (l[j].at + l[j].size = l[k].at)
      <4>1. l[j] \in FreeBlock /\ l[k] \in FreeBlock
        BY <1>2, <2>4, <2>5
      <4>2. l[j].at \in Nat /\ l[j].size \in Nat /\ l[k].at \in Nat
        BY <4>1 DEF FreeBlock
      <4> QED BY <3>2, <3>3, <4>2
    <3> QED BY <2>5, <3>1, <3>3 DEF FreeList, Ordered
  <2>7. ASSUME NEW x \in Nat
        PROVE  InList(l, x) <=> InList(list, x) /\ ~ (x \in a .. a + size - 1)
    <3>1. Words(l[i]) = a + size .. a + size + (m - size) - 1
      BY <2>4, <2>5 DEF Words
    <3>2. x \in Words(l[i]) <=> x \in Words(list[i]) /\ ~ (x \in a .. a + size - 1)
      BY <1>4, <1>5, <3>1
    <3>3. \A k \in (1 .. n) \ {i} : x \in Words(l[k]) <=> x \in Words(list[k])
      BY <2>5
    <3>4. \A k \in (1 .. n) \ {i} : x \in Words(list[k]) => ~ (x \in a .. a + size - 1)
      <4> SUFFICES ASSUME NEW k \in (1 .. n) \ {i}, x \in Words(list[k])
                   PROVE  ~ (x \in a .. a + size - 1)
        OBVIOUS
      <4>1. ~ (x \in a .. a + m - 1)
        BY <1>7
      <4> QED BY <1>4, <4>1
    <3> QED BY <1>1, <2>5, <3>2, <3>3, <3>4 DEF InList
  <2> QED BY <1>3, <1>6, <2>3, <2>6, <2>7
<1>9. CASE ~ (m - size >= CACHE_QUANTUM)
  <2>1. m = size
    <3>1. m \in Nat /\ Quanta(m) /\ m >= size
      BY <1>1, <1>2, <1>4
    <3>2. m - size \in Nat /\ Quanta(m - size)
      BY <3>1, QuantaSum, SMTT(30)
    <3>3. m - size = 0
      BY <1>9, <3>2, QuantaSmall, QuantumPositive
    <3> QED BY <1>4, <3>3
  <2>2. PICK l : l = RemoveAt(list, i)
    OBVIOUS
  <2>3. Sliced(list, i, size) = l
    BY <1>4, <1>9, <2>2 DEF Sliced
  <2>4. /\ l \in Seq(FreeBlock) /\ Len(l) = n - 1
        /\ \A k \in 1 .. n - 1 : l[k] = IF k < i THEN list[k] ELSE list[k + 1]
    <3>1. list \in Seq(FreeBlock) /\ i \in 1 .. Len(list)
      BY <1>1 DEF FreeList
    <3>2. /\ RemoveAt(list, i) \in Seq(FreeBlock) /\ Len(RemoveAt(list, i)) = n - 1
          /\ \A k \in 1 .. n - 1 :
               RemoveAt(list, i)[k] = IF k < i THEN list[k] ELSE list[k + 1]
      BY <1>1, <3>1, RemoveAtIs
    <3> QED BY <2>2, <3>2
  <2>5. DOMAIN l = 1 .. n - 1
    BY <2>4, LenProperties
  <2>6. FreeList(l, {})
    <3>1. \A k \in 1 .. n - 1 : Quanta(l[k].size)
      <4>1. \A k \in 1 .. n - 1 : k \in 1 .. n /\ k + 1 \in 1 .. n
        OBVIOUS
      <4> QED BY <1>2, <2>4, <4>1
    <3>2. ASSUME NEW j \in 1 .. n - 1, NEW k \in 1 .. n - 1, j < k
          PROVE  /\ l[j].at + l[j].size <= l[k].at
                 /\ ~ (l[j].at + l[j].size = l[k].at)
      <4>1. PICK u \in 1 .. n : u = IF j < i THEN j ELSE j + 1
        OBVIOUS
      <4>2. PICK v \in 1 .. n : v = IF k < i THEN k ELSE k + 1
        OBVIOUS
      <4>3. u < v
        BY <1>1, <3>2, <4>1, <4>2
      <4>4. l[j] = list[u] /\ l[k] = list[v]
        BY <2>4, <4>1, <4>2
      <4>5. list[u].at + list[u].size < list[v].at
        BY <1>2, <4>3
      <4> QED BY <1>2, <4>4, <4>5
    <3> QED BY <2>4, <2>5, <3>1, <3>2 DEF FreeList, Ordered
  <2>7. ASSUME NEW x \in Nat
        PROVE  InList(l, x) <=> InList(list, x) /\ ~ (x \in a .. a + size - 1)
    <3>1. ASSUME InList(l, x) PROVE InList(list, x) /\ ~ (x \in a .. a + size - 1)
      <4>1. PICK k \in 1 .. n - 1 : x \in Words(l[k])
        BY <2>5, <3>1 DEF InList
      <4>2. PICK u \in 1 .. n : u # i /\ l[k] = list[u]
        <5>1. CASE k < i
          BY <2>4, <5>1
        <5>2. CASE ~ (k < i)
          <6>1. k + 1 \in 1 .. n /\ k + 1 # i
            BY <1>1, <5>2
          <6> QED BY <2>4, <5>2, <6>1
        <5> QED BY <5>1, <5>2
      <4>3. x \in Words(list[u])
        BY <4>1, <4>2
      <4> QED BY <1>1, <1>7, <2>1, <4>2, <4>3 DEF InList
    <3>2. ASSUME InList(list, x), ~ (x \in a .. a + size - 1) PROVE InList(l, x)
      <4>1. PICK u \in 1 .. n : x \in Words(list[u])
        BY <1>1, <3>2 DEF InList
      <4>2. u # i
        BY <1>5, <2>1, <3>2, <4>1
      <4>3. PICK k \in 1 .. n - 1 : l[k] = list[u]
        <5>1. CASE u < i
          <6>1. u \in 1 .. n - 1
            BY <1>1, <5>1
          <6> QED BY <2>4, <5>1, <6>1
        <5>2. CASE ~ (u < i)
          <6>1. PICK k \in 1 .. n - 1 : u = k + 1
            <7>1. u - 1 \in 1 .. n - 1 /\ u = u - 1 + 1
              BY <1>1, <4>2, <5>2
            <7> QED BY <7>1
          <6>2. ~ (k < i)
            BY <1>1, <4>2, <5>2, <6>1
          <6> QED BY <2>4, <6>1, <6>2
        <5> QED BY <5>1, <5>2
      <4> QED BY <2>5, <4>1, <4>3 DEF InList
    <3> QED BY <3>1, <3>2
  <2> QED BY <1>3, <1>6, <2>3, <2>6, <2>7
<1> QED BY <1>4, <1>8, <1>9

\* Where the code puts a block that begins at x.
AtPlace(list, x, i) == i = 1 + Cardinality({j \in DOMAIN list : list[j].at < x})

\* It is after the blocks that begin before x and before the others.
LEMMA PlaceIs ==
  ASSUME NEW list, FreeList(list, {}), NEW x \in Nat
  PROVE  \E i \in 1 .. Len(list) + 1 :
            /\ i = 1 + Cardinality({j \in DOMAIN list : list[j].at < x})
            /\ \A j \in 1 .. Len(list) : list[j].at < x <=> j < i
<1>1. PICK n \in Nat : n = Len(list) /\ DOMAIN list = 1 .. n
  BY LenProperties DEF FreeList
<1>2. \A k \in 1 .. n : list[k].at \in Nat /\ list[k].size \in Nat \ {0}
  <2>1. \A k \in 1 .. n : list[k] \in FreeBlock
    BY <1>1, ElementOfSeq DEF FreeList
  <2> QED BY <2>1 DEF FreeBlock
<1>3. ASSUME NEW j \in 1 .. n, NEW k \in 1 .. n, j < k PROVE list[j].at < list[k].at
  <2>1. list[j].at + list[j].size <= list[k].at
    BY <1>1, <1>3 DEF FreeList, Ordered
  <2> QED BY <1>2, <2>1
<1>4. PICK s : s = {j \in DOMAIN list : list[j].at < x}
  OBVIOUS
<1>5. s \in SUBSET (1 .. n) /\ \A j \in 1 .. n : j \in s <=> list[j].at < x
  BY <1>1, <1>4
<1>6. PICK k \in 0 .. n : s = 1 .. k
  <2>1. CASE s = {}
    <3>1. 0 \in 0 .. n /\ s = 1 .. 0
      BY <2>1
    <3> QED BY <3>1
  <2>2. CASE s # {}
    <3>1. PICK k : k = Max(s)
      OBVIOUS
    <3>2. k \in s
      BY <1>5, <2>2, <3>1, LargestIn
    <3>3. \A j \in s : j <= k
      <4>1. \E m \in s : \A j \in s : m >= j
        <5> DEFINE U == {n - j : j \in s}
        <5>1. U \in SUBSET Nat /\ U # {}
          <6>1. \A j \in s : n - j \in Nat
            BY <1>5
          <6> QED BY <2>2, <6>1
        <5>2. PICK u \in U : \A v \in U : u <= v
          <6> HIDE DEF U
          <6> QED BY <5>1, LeastNatural
        <5>3. PICK m \in s : u = n - m
          BY <5>2
        <5>4. ASSUME NEW j \in s PROVE m >= j
          <6>1. n - j \in U
            OBVIOUS
          <6>2. n - m <= n - j
            BY <5>2, <5>3, <6>1
          <6> QED BY <1>5, <6>2
        <5> QED BY <5>4
      <4>2. \A j \in s : k >= j
        BY <3>1, <4>1 DEF Max
      <4> QED BY <1>5, <3>2, <4>2
    <3>4. ASSUME NEW j \in 1 .. k PROVE j \in s
      <4>1. j \in 1 .. n /\ k \in 1 .. n /\ (j < k \/ j = k)
        BY <1>5, <3>2
      <4>2. CASE j < k
        <5>1. list[j].at < list[k].at /\ list[k].at < x
          BY <1>3, <1>5, <3>2, <4>1, <4>2
        <5>2. list[j].at < x
          BY <1>2, <4>1, <5>1
        <5> QED BY <1>5, <4>1, <5>2
      <4> QED BY <3>2, <4>1, <4>2
    <3>5. s = 1 .. k
      <4>1. \A j \in s : j \in 1 .. k
        <5>1. k \in 1 .. n /\ \A j \in s : j \in 1 .. n
          BY <1>5, <3>2
        <5> QED BY <3>3, <5>1
      <4> QED BY <3>4, <4>1
    <3>6. k \in 0 .. n
      BY <1>5, <3>2
    <3> QED BY <3>5, <3>6
  <2> QED BY <2>1, <2>2
<1>7. Cardinality(s) = k
  <2>1. Cardinality(1 .. k) = IF 1 > k THEN 0 ELSE k - 1 + 1
    BY FS_Interval
  <2> QED BY <1>6, <2>1
<1>8. 1 + k \in 1 .. n + 1 /\ 1 + k = 1 + Cardinality({j \in DOMAIN list : list[j].at < x})
  BY <1>4, <1>6, <1>7
<1>9. \A j \in 1 .. n : list[j].at < x <=> j < 1 + k
  BY <1>5, <1>6
<1> QED BY <1>1, <1>8, <1>9

\* The list with a block that shares no word with it, before the blocks after it;
\* it may touch its two neighbours, and nothing else does.
LEMMA InsertedIs ==
  ASSUME NEW list, FreeList(list, {}), NEW d \in FreeBlock, Quanta(d.size),
         \A x \in Nat : x \in Words(d) => ~ InList(list, x),
         NEW i, AtPlace(list, d.at, i)
  PROVE  /\ i \in Nat \ {0} /\ FreeList(InsertAt(list, i, d), {i - 1, i})
         /\ i \in DOMAIN InsertAt(list, i, d)
         /\ \A x \in Nat : InList(InsertAt(list, i, d), x) <=> InList(list, x) \/ x \in Words(d)
<1>1. PICK a \in Nat : a = d.at
  BY DEF FreeBlock
<1>2. PICK m \in Nat \ {0} : m = d.size
  BY DEF FreeBlock
<1>3. Words(d) = a .. a + m - 1
  BY <1>1, <1>2 DEF Words
<1>4. PICK n \in Nat : n = Len(list)
  BY LenProperties DEF FreeList
<1>5. DOMAIN list = 1 .. n
  BY <1>4, LenProperties DEF FreeList
<1>6. i \in 1 .. n + 1 /\ \A j \in 1 .. n : list[j].at < a <=> j < i
  <2>1. PICK e \in 1 .. Len(list) + 1 :
           /\ e = 1 + Cardinality({j \in DOMAIN list : list[j].at < a})
           /\ \A j \in 1 .. Len(list) : list[j].at < a <=> j < e
    BY PlaceIs
  <2>2. e = i
    BY <1>1, <2>1 DEF AtPlace
  <2> QED BY <1>4, <2>1, <2>2
<1>7. PICK l : l = InsertAt(list, i, d)
  OBVIOUS
<1>8. /\ l \in Seq(FreeBlock) /\ Len(l) = n + 1
      /\ \A k \in 1 .. n + 1 : l[k] = IF k < i THEN list[k] ELSE IF k = i THEN d ELSE list[k - 1]
  <2>1. list \in Seq(FreeBlock) /\ i \in 1 .. Len(list) + 1 /\ d \in FreeBlock
    BY <1>4, <1>6 DEF FreeList
  <2>2. /\ InsertAt(list, i, d) \in Seq(FreeBlock) /\ Len(InsertAt(list, i, d)) = Len(list) + 1
        /\ \A k \in 1 .. Len(list) + 1 :
             InsertAt(list, i, d)[k] = IF k < i THEN list[k] ELSE IF k = i THEN d ELSE list[k - 1]
    BY <2>1, InsertAtIs
  <2> QED BY <1>4, <1>7, <2>2
<1>9. DOMAIN l = 1 .. n + 1
  BY <1>8, LenProperties
<1>10. \A k \in 1 .. n : list[k].at \in Nat /\ list[k].size \in Nat \ {0} /\ Quanta(list[k].size)
  <2>1. \A k \in 1 .. n : list[k] \in FreeBlock
    BY <1>4, ElementOfSeq DEF FreeList
  <2> QED BY <1>5, <2>1 DEF FreeList, FreeBlock
<1>11. ASSUME NEW j \in 1 .. n, NEW k \in 1 .. n, j < k
       PROVE  list[j].at + list[j].size < list[k].at
  <2>1. /\ list[j].at + list[j].size <= list[k].at
        /\ list[j].at + list[j].size = list[k].at => k = j + 1 /\ j \in {}
    BY <1>5, <1>11 DEF FreeList, Ordered
  <2> QED BY <1>10, <2>1
<1>12. ASSUME NEW j \in 1 .. n, j < i PROVE list[j].at + list[j].size <= a
  <2> SUFFICES ASSUME list[j].at + list[j].size > a PROVE FALSE
    BY <1>10
  <2>1. list[j].at < a
    BY <1>6, <1>12
  <2>2. a \in Words(list[j]) /\ a \in Words(d)
    <3>1. PICK b, e \in Nat : b = list[j].at /\ e = list[j].size
      BY <1>10
    <3>2. a \in b .. b + e - 1 /\ a \in a .. a + m - 1
      BY <2>1, <3>1
    <3> QED BY <1>3, <3>1, <3>2 DEF Words
  <2> QED BY <1>5, <2>2 DEF InList
<1>13. ASSUME NEW j \in 1 .. n, ~ (j < i) PROVE a + m <= list[j].at
  <2> SUFFICES ASSUME a + m > list[j].at PROVE FALSE
    BY <1>10
  <2>1. list[j].at >= a
    BY <1>6, <1>10, <1>13
  <2>2. list[j].at \in Words(list[j]) /\ list[j].at \in Words(d)
    <3>1. PICK b, e \in Nat : b = list[j].at /\ e = list[j].size
      BY <1>10
    <3>2. e # 0
      BY <1>10, <3>1
    <3>3. b \in b .. b + e - 1 /\ b \in a .. a + m - 1
      BY <2>1, <3>1, <3>2
    <3> QED BY <1>3, <3>1, <3>3 DEF Words
  <2> QED BY <1>5, <1>10, <2>2 DEF InList
<1>14. l[i] = d /\ i \in 1 .. n + 1
  <2>1. i \in 1 .. n + 1 /\ ~ (i < i)
    BY <1>6
  <2> QED BY <1>8, <2>1
<1>15. ASSUME NEW k \in 1 .. n + 1, k # i
       PROVE  \E u \in 1 .. n : l[k] = list[u] /\ u = IF k < i THEN k ELSE k - 1
  <2>1. CASE k < i
    BY <1>6, <1>8, <2>1
  <2>2. CASE ~ (k < i)
    <3>1. k - 1 \in 1 .. n
      BY <1>6, <1>15, <2>2
    <3> QED BY <1>8, <1>15, <2>2, <3>1
  <2> QED BY <2>1, <2>2
<1>16. ASSUME NEW u \in 1 .. n PROVE \E k \in 1 .. n + 1 : l[k] = list[u]
  <2>1. CASE u < i
    BY <1>8, <2>1
  <2>2. CASE ~ (u < i)
    <3>1. PICK k \in 1 .. n + 1 : k = u + 1
      OBVIOUS
    <3>2. ~ (k < i) /\ k # i /\ k - 1 = u
      BY <1>6, <2>2, <3>1
    <3> QED BY <1>8, <3>2
  <2> QED BY <2>1, <2>2
<1>17. \A k \in 1 .. n + 1 : Quanta(l[k].size)
  BY <1>10, <1>14, <1>15
<1>18. ASSUME NEW j \in 1 .. n + 1, NEW k \in 1 .. n + 1, j < k
       PROVE  /\ l[j].at + l[j].size <= l[k].at
              /\ l[j].at + l[j].size = l[k].at => k = j + 1 /\ j \in {i - 1, i}
  <2>1. CASE j # i /\ k # i
    <3>1. PICK u \in 1 .. n : l[j] = list[u] /\ u = IF j < i THEN j ELSE j - 1
      BY <1>15, <2>1
    <3>2. PICK v \in 1 .. n : l[k] = list[v] /\ v = IF k < i THEN k ELSE k - 1
      BY <1>15, <2>1
    <3>3. u < v
      BY <1>6, <1>18, <2>1, <3>1, <3>2
    <3>4. list[u].at + list[u].size < list[v].at
      BY <1>11, <3>3
    <3> QED BY <1>10, <3>1, <3>2, <3>4
  <2>2. CASE j = i
    <3>1. PICK v \in 1 .. n : l[k] = list[v] /\ v = k - 1
      BY <1>6, <1>15, <1>18, <2>2
    <3>2. ~ (v < i)
      BY <1>18, <2>2, <3>1, <1>6
    <3>3. a + m <= list[v].at
      BY <1>13, <3>2
    <3>4. ASSUME a + m = list[v].at PROVE k = i + 1
      <4> SUFFICES ASSUME k # i + 1 PROVE FALSE
        OBVIOUS
      <4>1. i \in 1 .. n /\ i < v
        BY <1>6, <1>18, <2>2, <3>1
      <4>2. list[i].at + list[i].size < list[v].at /\ a + m <= list[i].at
        BY <1>11, <1>13, <4>1
      <4> QED BY <1>10, <3>4, <4>1, <4>2
    <3>5. l[j].at + l[j].size = a + m
      BY <1>1, <1>2, <1>14, <2>2
    <3> QED BY <2>2, <3>1, <3>3, <3>4, <3>5
  <2>3. CASE k = i
    <3>1. PICK u \in 1 .. n : l[j] = list[u] /\ u = j
      BY <1>6, <1>15, <1>18, <2>3
    <3>2. u < i /\ list[u].at + list[u].size <= a
      BY <1>12, <1>18, <2>3, <3>1
    <3>3. ASSUME list[u].at + list[u].size = a PROVE u = i - 1
      <4> SUFFICES ASSUME u # i - 1 PROVE FALSE
        OBVIOUS
      <4>1. i \in 1 .. n + 1 /\ u < i /\ u # i - 1
        BY <1>6, <3>2
      <4>2. PICK v \in 1 .. n : v = i - 1
        BY <4>1
      <4>3. u < v /\ v < i
        BY <4>1, <4>2
      <4>4. list[u].at + list[u].size < list[v].at /\ list[v].at < a
        BY <1>6, <1>11, <4>3
      <4> QED BY <1>10, <3>3, <4>4
    <3>4. l[k].at = a
      BY <1>1, <1>14, <2>3
    <3>5. u = i - 1 => k = j + 1 /\ j \in {i - 1, i}
      BY <1>6, <2>3, <3>1
    <3> QED BY <3>1, <3>2, <3>3, <3>4, <3>5
  <2> QED BY <2>1, <2>2, <2>3
<1>19. FreeList(l, {i - 1, i})
  BY <1>8, <1>9, <1>17, <1>18 DEF FreeList, Ordered
<1>20. ASSUME NEW x \in Nat PROVE InList(l, x) <=> InList(list, x) \/ x \in Words(d)
  <2>1. ASSUME InList(l, x) PROVE InList(list, x) \/ x \in Words(d)
    <3>1. PICK k \in 1 .. n + 1 : x \in Words(l[k])
      BY <1>9, <2>1 DEF InList
    <3>2. CASE k = i
      BY <1>14, <3>1, <3>2
    <3>3. CASE k # i
      BY <1>5, <1>15, <3>1, <3>3 DEF InList
    <3> QED BY <3>2, <3>3
  <2>2. ASSUME InList(list, x) PROVE InList(l, x)
    <3>1. PICK u \in 1 .. n : x \in Words(list[u])
      BY <1>5, <2>2 DEF InList
    <3>2. PICK k \in 1 .. n + 1 : l[k] = list[u]
      BY <1>16
    <3> QED BY <1>9, <3>1, <3>2 DEF InList
  <2>3. ASSUME x \in Words(d) PROVE InList(l, x)
    BY <1>9, <1>14, <2>3 DEF InList
  <2> QED BY <2>1, <2>2, <2>3
<1> QED BY <1>6, <1>7, <1>9, <1>14, <1>19, <1>20

\* A block and the next as one, where they touch: the words are the same, and
\* nothing touches at that place any more.
LEMMA CoalesceIs ==
  ASSUME NEW list, NEW i \in Int, NEW T, FreeList(list, T), T \subseteq {i - 1, i}, i \in DOMAIN list
  PROVE  /\ FreeList(coalesce(list, i), T \ {i})
         /\ \A x \in Nat : InList(coalesce(list, i), x) <=> InList(list, x)
         /\ \A k \in DOMAIN list : k < i => k \in DOMAIN coalesce(list, i)
<1>1. PICK n \in Nat : n = Len(list) /\ DOMAIN list = 1 .. n
  BY LenProperties DEF FreeList
<1>2. \A k \in 1 .. n : /\ list[k] \in FreeBlock /\ list[k].at \in Nat
                        /\ list[k].size \in Nat \ {0} /\ Quanta(list[k].size)
  <2>1. \A k \in 1 .. n : list[k] \in FreeBlock
    BY <1>1, ElementOfSeq DEF FreeList
  <2> QED BY <1>1, <2>1 DEF FreeList, FreeBlock
<1>3. ASSUME NEW j \in 1 .. n, NEW k \in 1 .. n, j < k
      PROVE  /\ list[j].at + list[j].size <= list[k].at
             /\ list[j].at + list[j].size = list[k].at => k = j + 1 /\ j \in T
  BY <1>1, <1>3 DEF FreeList, Ordered
<1>4. CASE i < n /\ list[i].at + list[i].size = list[i + 1].at
  <2>1. PICK a \in Nat : a = list[i].at
    BY <1>1, <1>2
  <2>2. PICK m \in Nat \ {0} : m = list[i].size
    BY <1>1, <1>2
  <2>3. i + 1 \in 1 .. n
    BY <1>1, <1>4
  <2>4. PICK p \in Nat \ {0} : p = list[i + 1].size
    BY <1>2, <2>3
  <2>5. PICK e : e = [list[i] EXCEPT !.size = m + p]
    OBVIOUS
  <2>6. e \in FreeBlock /\ e.at = a /\ e.size = m + p /\ Quanta(e.size)
    <3>1. Quanta(m) /\ Quanta(p)
      BY <1>1, <1>2, <2>2, <2>3, <2>4
    <3>2. Quanta(m + p)
      BY <3>1, QuantaSum
    <3>3. list[i] \in FreeBlock
      BY <1>1, <1>2
    <3> QED BY <2>1, <2>5, <3>2, <3>3 DEF FreeBlock
  <2>7. PICK g : g = [list EXCEPT ![i] = e]
    OBVIOUS
  <2>8. /\ g \in Seq(FreeBlock) /\ Len(g) = n
        /\ g[i] = e /\ \A k \in (1 .. n) \ {i} : g[k] = list[k]
    <3>1. list \in Seq(FreeBlock) /\ i \in 1 .. Len(list)
      BY <1>1 DEF FreeList
    <3>2. g \in Seq(FreeBlock) /\ Len(g) = Len(list)
      BY <2>6, <2>7, <3>1
    <3> QED BY <1>1, <2>7, <3>1, <3>2
  <2>9. PICK l : l = RemoveAt(g, i + 1)
    OBVIOUS
  <2>10. coalesce(list, i) = l
    <3>1. [list EXCEPT ![i].size = @ + list[i + 1].size] = g
      BY <1>1, <2>2, <2>4, <2>5, <2>7
    <3> QED BY <1>1, <1>4, <2>9, <3>1 DEF coalesce
  <2>11. /\ l \in Seq(FreeBlock) /\ Len(l) = n - 1
         /\ \A k \in 1 .. n - 1 : l[k] = IF k < i + 1 THEN g[k] ELSE g[k + 1]
    <3>1. g \in Seq(FreeBlock) /\ i + 1 \in 1 .. Len(g)
      BY <2>3, <2>8
    <3>2. /\ RemoveAt(g, i + 1) \in Seq(FreeBlock) /\ Len(RemoveAt(g, i + 1)) = Len(g) - 1
          /\ \A k \in 1 .. Len(g) - 1 :
               RemoveAt(g, i + 1)[k] = IF k < i + 1 THEN g[k] ELSE g[k + 1]
      BY <3>1, RemoveAtIs
    <3> QED BY <2>8, <2>9, <3>2
  <2>12. DOMAIN l = 1 .. n - 1
    BY <2>11, LenProperties
  <2>13. i \in 1 .. n - 1 /\ l[i] = e
    <3>1. i \in 1 .. n - 1 /\ i < i + 1
      BY <1>1, <1>4
    <3> QED BY <2>8, <2>11, <3>1
  <2>14. ASSUME NEW k \in 1 .. n - 1, k # i
         PROVE  \E u \in 1 .. n : l[k] = list[u] /\ u = IF k < i THEN k ELSE k + 1
    <3>1. CASE k < i
      <4>1. k \in (1 .. n) \ {i} /\ k < i + 1
        BY <3>1, <1>1
      <4> QED BY <2>8, <2>11, <3>1, <4>1
    <3>2. CASE ~ (k < i)
      <4>1. k + 1 \in (1 .. n) \ {i} /\ ~ (k < i + 1)
        BY <2>14, <3>2, <1>1
      <4> QED BY <2>8, <2>11, <3>2, <4>1
    <3> QED BY <3>1, <3>2
  <2>15. \A k \in 1 .. n - 1 : Quanta(l[k].size)
    BY <1>2, <2>6, <2>13, <2>14
  <2>16. a + m = list[i + 1].at
    BY <1>4, <2>1, <2>2
  <2>17. ASSUME NEW j \in 1 .. n - 1, NEW k \in 1 .. n - 1, j < k
         PROVE  /\ l[j].at + l[j].size <= l[k].at
                /\ l[j].at + l[j].size = l[k].at => k = j + 1 /\ j \in T \ {i}
    <3>1. CASE j # i /\ k # i
      <4>1. PICK u \in 1 .. n : l[j] = list[u] /\ u = IF j < i THEN j ELSE j + 1
        BY <2>14, <3>1
      <4>2. PICK v \in 1 .. n : l[k] = list[v] /\ v = IF k < i THEN k ELSE k + 1
        BY <2>14, <3>1
      <4>3. u < v
        BY <2>17, <4>1, <4>2, <1>1
      <4>4. /\ list[u].at + list[u].size <= list[v].at
            /\ list[u].at + list[u].size = list[v].at => v = u + 1 /\ u \in T
        BY <1>3, <4>3
      <4>5. ASSUME v = u + 1, u \in T PROVE k = j + 1 /\ j \in T \ {i}
        <5>1. u \in {i - 1, i}
          BY <4>5
        <5>2. j < i
          BY <1>1, <2>17, <3>1, <4>1, <5>1
        <5>3. u = j
          BY <4>1, <5>2
        <5>4. j = i - 1
          BY <5>1, <5>3, <3>1
        <5>5. FALSE
          BY <1>1, <2>17, <3>1, <4>2, <4>5, <5>3, <5>4
        <5> QED BY <5>5
      <4> QED BY <4>1, <4>2, <4>4, <4>5
    <3>2. CASE j = i
      <4>1. ~ (k < i) /\ k # i
        BY <2>17, <3>2, <1>1
      <4>2. PICK v \in 1 .. n : l[k] = list[v] /\ v = k + 1
        BY <2>14, <4>1
      <4>3. i + 1 < v
        BY <2>17, <3>2, <4>2
      <4>4. /\ list[i + 1].at + list[i + 1].size <= list[v].at
            /\ list[i + 1].at + list[i + 1].size = list[v].at => i + 1 \in T
        BY <1>3, <2>3, <4>3
      <4>5. i + 1 \notin T
        OBVIOUS
      <4>6. a + m + p <= list[v].at /\ a + m + p # list[v].at
        BY <2>4, <2>16, <4>4, <4>5
      <4>7. l[j].at + l[j].size = a + m + p
        BY <2>6, <2>13, <3>2
      <4> QED BY <4>2, <4>6, <4>7
    <3>3. CASE k = i
      <4>1. j < i /\ j # i
        BY <2>17, <3>3, <1>1
      <4>2. PICK u \in 1 .. n : l[j] = list[u] /\ u = j
        BY <2>14, <4>1
      <4>3. i \in 1 .. n /\ u < i
        BY <1>1, <4>1, <4>2
      <4>4. /\ list[u].at + list[u].size <= list[i].at
            /\ list[u].at + list[u].size = list[i].at => i = u + 1 /\ u \in T
        BY <1>3, <4>3
      <4>5. l[k].at = list[i].at
        BY <2>1, <2>6, <2>13, <3>3
      <4> QED BY <3>3, <4>1, <4>2, <4>4, <4>5
    <3> QED BY <3>1, <3>2, <3>3
  <2>18. FreeList(l, T \ {i})
    BY <2>11, <2>12, <2>15, <2>17 DEF FreeList, Ordered
  <2>19. Words(list[i]) = a .. a + m - 1 /\ Words(list[i + 1]) = a + m .. a + m + p - 1
         /\ Words(l[i]) = a .. a + (m + p) - 1
    BY <2>1, <2>2, <2>4, <2>6, <2>13, <2>16 DEF Words
  <2>20. ASSUME NEW x \in Nat PROVE InList(l, x) <=> InList(list, x)
    <3>1. x \in Words(l[i]) <=> x \in Words(list[i]) \/ x \in Words(list[i + 1])
      BY <2>19
    <3>2. ASSUME InList(l, x) PROVE InList(list, x)
      <4>1. PICK k \in 1 .. n - 1 : x \in Words(l[k])
        BY <2>12, <3>2 DEF InList
      <4>2. CASE k = i
        BY <1>1, <2>3, <3>1, <4>1, <4>2 DEF InList
      <4>3. CASE k # i
        BY <1>1, <2>14, <4>1, <4>3 DEF InList
      <4> QED BY <4>2, <4>3
    <3>3. ASSUME InList(list, x) PROVE InList(l, x)
      <4>1. PICK u \in 1 .. n : x \in Words(list[u])
        BY <1>1, <3>3 DEF InList
      <4>2. CASE u \in {i, i + 1}
        BY <2>12, <2>13, <3>1, <4>1, <4>2 DEF InList
      <4>3. CASE u < i
        <5>1. u \in 1 .. n - 1 /\ u < i + 1 /\ u \in (1 .. n) \ {i}
          BY <1>1, <4>3
        <5>2. l[u] = list[u]
          BY <2>8, <2>11, <5>1
        <5> QED BY <2>12, <4>1, <5>1, <5>2 DEF InList
      <4>4. CASE u > i + 1
        <5>1. PICK k \in 1 .. n - 1 : k = u - 1
          BY <1>1, <4>4
        <5>2. ~ (k < i + 1) /\ k + 1 = u /\ u \in (1 .. n) \ {i}
          BY <1>1, <4>4, <5>1
        <5>3. l[k] = list[u]
          BY <2>8, <2>11, <5>2
        <5> QED BY <2>12, <4>1, <5>3 DEF InList
      <4> QED BY <1>1, <4>2, <4>3, <4>4
    <3> QED BY <3>2, <3>3
  <2>21. \A k \in 1 .. n : k < i => k \in 1 .. n - 1
    BY <1>1
  <2> QED BY <1>1, <2>10, <2>12, <2>18, <2>20, <2>21
<1>5. CASE ~ (i < n /\ list[i].at + list[i].size = list[i + 1].at)
  <2>1. coalesce(list, i) = list
    BY <1>1, <1>5 DEF coalesce
  <2>2. ASSUME NEW j \in 1 .. n, NEW k \in 1 .. n, j < k, list[j].at + list[j].size = list[k].at
        PROVE  k = j + 1 /\ j \in T \ {i}
    <3>1. k = j + 1 /\ j \in T
      BY <1>3, <2>2
    <3>2. j # i
      BY <1>5, <2>2, <3>1
    <3> QED BY <3>1, <3>2
  <2>3. FreeList(list, T \ {i})
    BY <1>1, <1>3, <2>2 DEF FreeList, Ordered
  <2> QED BY <2>1, <2>3
<1> QED BY <1>4, <1>5

\* The dead block with both its neighbours.
LEMMA CoalescedIs ==
  ASSUME NEW list, NEW i \in Nat \ {0}, FreeList(list, {i - 1, i}), i \in DOMAIN list
  PROVE  /\ FreeList(Coalesced(list, i), {})
         /\ \A x \in Nat : InList(Coalesced(list, i), x) <=> InList(list, x)
<1>1. PICK l : l = coalesce(list, i)
  OBVIOUS
<1>2. /\ FreeList(l, {i - 1, i} \ {i})
      /\ \A x \in Nat : InList(l, x) <=> InList(list, x)
      /\ \A k \in DOMAIN list : k < i => k \in DOMAIN l
  <2>1. {i - 1, i} \subseteq {i - 1, i} /\ i \in Int
    OBVIOUS
  <2> QED BY <1>1, <2>1, CoalesceIs
<1>3. PICK n \in Nat : n = Len(list) /\ DOMAIN list = 1 .. n
  BY LenProperties DEF FreeList
<1>4. CASE i = 1
  <2>1. Coalesced(list, i) = l
    BY <1>1, <1>4 DEF Coalesced
  <2>2. l \in Seq(FreeBlock) /\ \A k \in DOMAIN l : k \in Nat \ {0}
    <3>1. l \in Seq(FreeBlock)
      BY <1>2 DEF FreeList
    <3> QED BY <3>1, LenProperties
  <2>3. FreeList(l, {})
    <3>1. ASSUME NEW j \in DOMAIN l, j \in {i - 1, i} \ {i} PROVE FALSE
      BY <1>4, <2>2, <3>1
    <3> QED BY <1>2, <3>1 DEF FreeList, Ordered
  <2> QED BY <1>2, <2>1, <2>3
<1>5. CASE i # 1
  <2>1. PICK j \in Int : j = i - 1
    OBVIOUS
  <2>2. j \in DOMAIN l
    <3>1. j \in DOMAIN list /\ j < i
      BY <1>3, <1>5, <2>1
    <3> QED BY <1>2, <3>1
  <2>3. PICK T : T = {i - 1, i} \ {i}
    OBVIOUS
  <2>4. T \subseteq {j - 1, j} /\ T \ {j} = {} /\ FreeList(l, T)
    BY <1>2, <2>1, <2>3
  <2>5. FreeList(coalesce(l, j), {}) /\ \A x \in Nat : InList(coalesce(l, j), x) <=> InList(l, x)
    <3>1. /\ FreeList(coalesce(l, j), T \ {j})
          /\ \A x \in Nat : InList(coalesce(l, j), x) <=> InList(l, x)
      BY <2>2, <2>4, CoalesceIs
    <3> QED BY <2>4, <3>1
  <2>6. Coalesced(list, i) = coalesce(l, j)
    BY <1>1, <1>5, <2>1 DEF Coalesced
  <2> QED BY <1>2, <2>5, <2>6
<1> QED BY <1>4, <1>5

-----------------------------------------------------------------------------
(* CacheAllocator: a region and the caches in it.                         *)

\* What is taken for a cache.
CacheBlock(b) == [at |-> b.at, size |-> size_for_mask(b.mask)]

CacheType == [region : Nat, at : Nat, mask : Nat, slots : Nat \ {0}]

RegionType == [size : Nat \ {0}, freeList : Seq(FreeBlock)]

\* Every word of region g is in a free block or in one cache's, and no other is.
RegionOK(g, taken) ==
    /\ FreeList(g.freeList, {})
    /\ \A x \in Nat :
        /\ x < g.size <=> InList(g.freeList, x) \/ \E b \in taken : x \in Words(CacheBlock(b))
        /\ \A b \in taken :
            x \in Words(CacheBlock(b)) =>
                /\ ~ InList(g.freeList, x)
                /\ \A c \in taken \ {b} : x \notin Words(CacheBlock(c))

\* The least of some numbers.
LEMMA LeastOf ==
  ASSUME NEW s \in SUBSET Nat, s # {}
  PROVE  Min(s) \in s /\ \A j \in s : Min(s) <= j
<1>1. PICK m \in s : \A j \in s : m <= j
  BY LeastNatural
<1> QED BY <1>1 DEF Min

\* A cache is taken from a free block that is large enough.
LEMMA RegionTakes ==
  ASSUME NEW g, NEW h, NEW taken, NEW new, RegionOK(g, taken),
         NEW i \in DOMAIN g.freeList, NEW size \in Nat \ {0}, Quanta(size), size <= g.freeList[i].size,
         h.size = g.size, h.freeList = Sliced(g.freeList, i, size),
         Words(CacheBlock(new)) = g.freeList[i].at .. g.freeList[i].at + size - 1
  PROVE  RegionOK(h, taken \cup {new})
<1>1. PICK list : list = g.freeList
  OBVIOUS
<1>2. PICK w : w = list[i].at .. list[i].at + size - 1
  OBVIOUS
<1>3. PICK l : l = Sliced(list, i, size)
  OBVIOUS
<1>4. FreeList(list, {}) /\ i \in DOMAIN list /\ size <= list[i].size
  BY <1>1 DEF RegionOK
<1>5. /\ FreeList(l, {})
      /\ \A x \in Nat : /\ InList(l, x) <=> InList(list, x) /\ ~ (x \in w)
                        /\ x \in w => InList(list, x)
  BY <1>2, <1>3, <1>4, SlicedIs
<1>6. Words(CacheBlock(new)) = w /\ h.freeList = l /\ h.size = g.size
  BY <1>1, <1>2, <1>3
<1>7. ASSUME NEW x \in Nat
      PROVE  x < h.size <=> InList(l, x) \/ \E b \in taken \cup {new} : x \in Words(CacheBlock(b))
  <2>1. x < g.size <=> InList(list, x) \/ \E b \in taken : x \in Words(CacheBlock(b))
    BY <1>1 DEF RegionOK
  <2>2. (\E b \in taken \cup {new} : x \in Words(CacheBlock(b)))
          <=> (\E b \in taken : x \in Words(CacheBlock(b))) \/ x \in w
    BY <1>6
  <2> QED BY <1>5, <1>6, <2>1, <2>2
<1>8. ASSUME NEW x \in Nat, NEW b \in taken \cup {new}, x \in Words(CacheBlock(b))
      PROVE  ~ InList(l, x) /\ \A c \in (taken \cup {new}) \ {b} : x \notin Words(CacheBlock(c))
  <2>1. CASE b \in taken
    <3>1. ~ InList(list, x) /\ \A c \in taken \ {b} : x \notin Words(CacheBlock(c))
      BY <1>1, <1>8, <2>1 DEF RegionOK
    <3>2. x \notin w
      BY <1>5, <3>1
    <3> QED BY <1>5, <1>6, <3>1, <3>2
  <2>2. CASE b = new
    <3>1. x \in w /\ InList(list, x) /\ ~ InList(l, x)
      BY <1>5, <1>6, <1>8, <2>2
    <3>2. \A c \in taken : x \notin Words(CacheBlock(c))
      BY <1>1, <3>1 DEF RegionOK
    <3> QED BY <2>2, <3>1, <3>2
  <2> QED BY <2>1, <2>2
<1> QED BY <1>5, <1>6, <1>7, <1>8 DEF RegionOK

\* The block of a cache goes back.
LEMMA RegionGivesBack ==
  ASSUME NEW g, NEW h, NEW taken, NEW b \in taken, RegionOK(g, taken),
         b.at \in Nat, b.mask \in Nat, NEW i, AtPlace(g.freeList, b.at, i),
         h.size = g.size, h.freeList = Coalesced(InsertAt(g.freeList, i, CacheBlock(b)), i)
  PROVE  RegionOK(h, taken \ {b})
<1>1. PICK list : list = g.freeList
  OBVIOUS
<1>2. PICK d : d = CacheBlock(b)
  OBVIOUS
<1>3. d \in FreeBlock /\ Quanta(d.size) /\ d.at = b.at
  <2>1. size_for_mask(b.mask) \in Nat \ {0} /\ Quanta(size_for_mask(b.mask))
    BY SizeForMask
  <2> QED BY <1>2, <2>1 DEF CacheBlock, FreeBlock
<1>4. FreeList(list, {}) /\ AtPlace(list, d.at, i)
  BY <1>1, <1>3 DEF RegionOK
<1>5. \A x \in Nat : x \in Words(d) => ~ InList(list, x)
  BY <1>1, <1>2 DEF RegionOK
<1>6. PICK m : m = InsertAt(list, i, d)
  OBVIOUS
<1>7. /\ i \in Nat \ {0} /\ FreeList(m, {i - 1, i}) /\ i \in DOMAIN m
      /\ \A x \in Nat : InList(m, x) <=> InList(list, x) \/ x \in Words(d)
  BY <1>3, <1>4, <1>5, <1>6, InsertedIs
<1>8. PICK l : l = Coalesced(m, i)
  OBVIOUS
<1>9. FreeList(l, {}) /\ \A x \in Nat : InList(l, x) <=> InList(m, x)
  BY <1>7, <1>8, CoalescedIs
<1>10. h.freeList = l /\ h.size = g.size
  BY <1>1, <1>2, <1>6, <1>8
<1>11. ASSUME NEW x \in Nat
       PROVE  x < h.size <=> InList(l, x) \/ \E c \in taken \ {b} : x \in Words(CacheBlock(c))
  <2>1. x < g.size <=> InList(list, x) \/ \E c \in taken : x \in Words(CacheBlock(c))
    BY <1>1 DEF RegionOK
  <2>2. (\E c \in taken : x \in Words(CacheBlock(c)))
          <=> (\E c \in taken \ {b} : x \in Words(CacheBlock(c))) \/ x \in Words(d)
    BY <1>2
  <2> QED BY <1>7, <1>9, <1>10, <2>1, <2>2
<1>12. ASSUME NEW x \in Nat, NEW c \in taken \ {b}, x \in Words(CacheBlock(c))
       PROVE  ~ InList(l, x) /\ \A e \in (taken \ {b}) \ {c} : x \notin Words(CacheBlock(e))
  <2>1. ~ InList(list, x) /\ \A e \in taken \ {c} : x \notin Words(CacheBlock(e))
    BY <1>1, <1>12 DEF RegionOK
  <2>2. x \notin Words(d)
    BY <1>2, <2>1
  <2> QED BY <1>7, <1>9, <2>1, <2>2
<1> QED BY <1>9, <1>10, <1>11, <1>12 DEF RegionOK

\* A new region.
LEMMA RegionBegins ==
  ASSUME NEW g, NEW all \in Nat \ {0}, Quanta(all),
         g = [size |-> all, freeList |-> <<[at |-> 0, size |-> all]>>]
  PROVE  g \in RegionType /\ RegionOK(g, {})
<1>1. PICK e : e = [at |-> 0, size |-> all]
  OBVIOUS
<1>2. e \in FreeBlock /\ e.at = 0 /\ e.size = all
  BY <1>1 DEF FreeBlock
<1>3. PICK l : l = <<e>>
  OBVIOUS
<1>4. l \in Seq(FreeBlock) /\ DOMAIN l = {1} /\ l[1] = e
  BY <1>2, <1>3
<1>5. FreeList(l, {})
  BY <1>2, <1>4 DEF FreeList, Ordered
<1>6. Words(e) = 0 .. 0 + all - 1
  BY <1>2 DEF Words
<1>7. \A x \in Nat : InList(l, x) <=> x < all
  BY <1>4, <1>6 DEF InList
<1>8. g.freeList = l /\ g.size = all
  BY <1>1, <1>3
<1>9. g \in RegionType
  BY <1>1, <1>3, <1>4 DEF RegionType
<1>10. RegionOK(g, {})
  BY <1>5, <1>7, <1>8 DEF RegionOK
<1> QED BY <1>9, <1>10

\* A region none of whose words is taken is one block.
LEMMA RegionWhole ==
  ASSUME NEW g \in RegionType, RegionOK(g, {})
  PROVE  g.freeList = <<[at |-> 0, size |-> g.size]>>
<1>1. PICK z \in Nat \ {0} : z = g.size
  BY DEF RegionType
<1>2. PICK l : l = g.freeList
  OBVIOUS
<1>3. FreeList(l, {}) /\ \A x \in Nat : x < z <=> InList(l, x)
  BY <1>1, <1>2 DEF RegionOK
<1>4. l \in Seq(FreeBlock)
  BY <1>3 DEF FreeList
<1>5. PICK n \in Nat : n = Len(l) /\ DOMAIN l = 1 .. n
  BY <1>4, LenProperties
<1>6. \A k \in 1 .. n : l[k] \in FreeBlock /\ l[k].at \in Nat /\ l[k].size \in Nat \ {0}
  <2>1. \A k \in 1 .. n : l[k] \in FreeBlock
    BY <1>4, <1>5, ElementOfSeq
  <2> QED BY <2>1 DEF FreeBlock
<1>7. ASSUME NEW j \in 1 .. n, NEW k \in 1 .. n, j < k PROVE l[j].at + l[j].size < l[k].at
  <2>1. /\ l[j].at + l[j].size <= l[k].at
        /\ l[j].at + l[j].size = l[k].at => k = j + 1 /\ j \in {}
    BY <1>3, <1>5, <1>7 DEF FreeList, Ordered
  <2> QED BY <1>6, <2>1
<1>8. \A x \in Nat : x < z => \E k \in 1 .. n : x >= l[k].at /\ x < l[k].at + l[k].size
  <2> SUFFICES ASSUME NEW x \in Nat, x < z
               PROVE  \E k \in 1 .. n : x >= l[k].at /\ x < l[k].at + l[k].size
    OBVIOUS
  <2>1. PICK k \in 1 .. n : x \in Words(l[k])
    BY <1>3, <1>5 DEF InList
  <2> QED BY <1>6, <2>1 DEF Words
<1>9. \A k \in 1 .. n : \A x \in Nat : x >= l[k].at /\ x < l[k].at + l[k].size => x < z
  <2> SUFFICES ASSUME NEW k \in 1 .. n, NEW x \in Nat, x >= l[k].at, x < l[k].at + l[k].size
               PROVE  x < z
    OBVIOUS
  <2>1. x \in Words(l[k])
    BY <1>6 DEF Words
  <2> QED BY <1>3, <1>5, <2>1 DEF InList
<1>10. 1 \in 1 .. n /\ l[1].at = 0
  <2>1. PICK k \in 1 .. n : 0 >= l[k].at
    <3>1. PICK x \in Nat : x = 0
      OBVIOUS
    <3>2. x < z
      BY <3>1
    <3>3. \E k \in 1 .. n : x >= l[k].at /\ x < l[k].at + l[k].size
      BY <1>8, <3>2
    <3> QED BY <3>1, <3>3
  <2>2. 1 \in 1 .. n
    BY <2>1
  <2>3. CASE 1 < k
    BY <1>6, <1>7, <2>1, <2>2, <2>3
  <2>4. CASE ~ (1 < k)
    <3>1. k = 1
      BY <2>4
    <3> QED BY <1>6, <2>1, <2>2, <3>1
  <2> QED BY <2>3, <2>4
<1>11. PICK m \in Nat \ {0} : m = l[1].size
  BY <1>6, <1>10
<1>12. m <= z
  <2>1. PICK y \in Nat : y = m - 1
    OBVIOUS
  <2>2. y >= l[1].at /\ y < l[1].at + l[1].size
    BY <1>10, <1>11, <2>1
  <2>3. y < z
    BY <1>9, <1>10, <2>2
  <2> QED BY <2>1, <2>3
<1>13. n = 1
  <2> SUFFICES ASSUME n # 1 PROVE FALSE
    OBVIOUS
  <2>1. 2 \in 1 .. n /\ 1 < 2
    BY <1>10
  <2>2. m < l[2].at
    BY <1>7, <1>10, <1>11, <2>1
  <2>3. l[2].at < z
    BY <1>6, <1>9, <2>1
  <2>4. m < z /\ m \in Nat
    BY <1>6, <2>1, <2>2, <2>3
  <2>5. PICK k \in 1 .. n : m >= l[k].at /\ m < l[k].at + l[k].size
    BY <1>8, <2>4
  <2>6. k # 1
    BY <1>10, <1>11, <2>5
  <2>7. 1 < k
    BY <2>6
  <2>8. m < l[k].at
    BY <1>7, <1>10, <1>11, <2>7
  <2> QED BY <1>6, <2>5, <2>8
<1>14. m = z
  <2> SUFFICES ASSUME m < z PROVE FALSE
    BY <1>12
  <2>1. PICK k \in 1 .. n : m >= l[k].at /\ m < l[k].at + l[k].size
    BY <1>8
  <2>2. k = 1
    BY <1>13
  <2> QED BY <1>10, <1>11, <2>1, <2>2
<1>15. l[1] = [at |-> 0, size |-> z]
  BY <1>6, <1>10, <1>11, <1>14 DEF FreeBlock
<1>16. Len(l) = 1
  BY <1>5, <1>13
<1>17. l = <<l[1]>>
  BY <1>4, <1>16
<1> QED BY <1>1, <1>2, <1>15, <1>17

-----------------------------------------------------------------------------
(* CacheAllocator: the invariant.                                         *)

\* The caches in a region.
InRegion(blocks, r) == {b \in blocks : b.region = r}

\* Regions rs, the caches "blocks" in them.
RegionsOK(rs, blocks) ==
    /\ rs \in Seq(RegionType) /\ blocks \subseteq CacheType
    /\ \A b \in blocks : b.region \in 1 .. Len(rs) /\ b.mask + 1 = b.slots
    /\ \A r \in 1 .. Len(rs) : RegionOK(rs[r], InRegion(blocks, r))

AllocatorIInv == RegionsOK(regions, live)

\* The mask of a cache, from which its size follows.
LEMMA MaskIs ==
  ASSUME NEW n \in Nat \ {0}
  PROVE  mask_for_size(Requested(n)) \in Nat /\ mask_for_size(Requested(n)) + 1 = n
         /\ Requested(n) \in Nat /\ Requested(n) = objc_cache + mask_for_size(Requested(n))
  BY DEF mask_for_size, Requested, objc_cache

\* A cache is taken from region r, which has a block large enough.
LEMMA AllocateStep ==
  ASSUME NEW rs, RegionsOK(rs, live), NEW r \in 1 .. Len(rs), NEW n \in Nat \ {0},
         Enough(rs[r].freeList, size_for_mask(mask_for_size(Requested(n)))) # {},
         Allocate(rs, r, n)
  PROVE  AllocatorIInv'
<1>1. PICK mask \in Nat : mask = mask_for_size(Requested(n)) /\ mask + 1 = n
  BY MaskIs
<1>2. PICK size \in Nat \ {0} : size = size_for_mask(mask) /\ Quanta(size)
  BY SizeForMask
<1>3. PICK g : g = rs[r]
  OBVIOUS
<1>4. g \in RegionType /\ RegionOK(g, InRegion(live, r))
  <2>1. rs \in Seq(RegionType)
    BY DEF RegionsOK
  <2>2. rs[r] \in RegionType
    BY <2>1, ElementOfSeq
  <2> QED BY <1>3, <2>2 DEF RegionsOK
<1>5. PICK list : list = g.freeList
  OBVIOUS
<1>6. list \in Seq(FreeBlock) /\ DOMAIN list \in SUBSET Nat
      /\ \A k \in DOMAIN list : list[k] \in FreeBlock
  <2>1. list \in Seq(FreeBlock)
    BY <1>4, <1>5 DEF RegionType
  <2>2. DOMAIN list = 1 .. Len(list) /\ Len(list) \in Nat
    BY <2>1, LenProperties
  <2> QED BY <2>1, <2>2, ElementOfSeq
<1>7. PICK i : i = Min(Enough(list, size))
  OBVIOUS
<1>8. i \in DOMAIN list /\ size <= list[i].size
  <2>1. Enough(list, size) \in SUBSET Nat /\ Enough(list, size) # {}
    BY <1>1, <1>2, <1>3, <1>5, <1>6 DEF Enough
  <2>2. i \in Enough(list, size)
    BY <1>7, <2>1, LeastOf
  <2>3. i \in DOMAIN list /\ list[i].size >= size
    BY <2>2 DEF Enough
  <2>4. list[i].size \in Nat
    BY <1>6, <2>3 DEF FreeBlock
  <2> QED BY <2>3, <2>4
<1>9. PICK new : new = [region |-> r, at |-> list[i].at, mask |-> mask, slots |-> n]
  OBVIOUS
<1>10. PICK l : l = Sliced(list, i, size)
  OBVIOUS
<1>11. PICK h : h = [g EXCEPT !.freeList = l]
  OBVIOUS
<1>12. regions' = [rs EXCEPT ![r] = h] /\ live' = live \cup {new}
  <2>1. live' = live \cup {new}
    BY <1>1, <1>2, <1>3, <1>5, <1>7, <1>9 DEF Allocate
  <2>2. regions' = [rs EXCEPT ![r].freeList = l]
    BY <1>1, <1>2, <1>3, <1>5, <1>7, <1>10 DEF Allocate
  <2>3. [rs EXCEPT ![r].freeList = l] = [rs EXCEPT ![r] = h]
    BY <1>3, <1>11
  <2> QED BY <2>1, <2>2, <2>3
<1>13. new \in CacheType /\ new.region = r /\ new.mask + 1 = new.slots
  <2>1. list[i].at \in Nat
    BY <1>6, <1>8 DEF FreeBlock
  <2>2. r \in Nat
    BY DEF RegionsOK
  <2> QED BY <1>1, <1>9, <2>1, <2>2 DEF CacheType
<1>14. Words(CacheBlock(new)) = list[i].at .. list[i].at + size - 1
  BY <1>2, <1>9 DEF Words, CacheBlock
<1>15. h.size = g.size /\ h.freeList = l
  BY <1>4, <1>11 DEF RegionType
<1>16. RegionOK(h, InRegion(live, r) \cup {new})
  BY <1>2, <1>4, <1>5, <1>8, <1>10, <1>14, <1>15, RegionTakes
<1>17. h \in RegionType
  <2>1. FreeList(h.freeList, {})
    BY <1>16 DEF RegionOK
  <2>2. l \in Seq(FreeBlock)
    BY <1>15, <2>1 DEF FreeList
  <2> QED BY <1>4, <1>11, <2>2 DEF RegionType
<1>18. /\ regions' \in Seq(RegionType) /\ Len(regions') = Len(rs)
       /\ regions'[r] = h /\ \A k \in (1 .. Len(rs)) \ {r} : regions'[k] = rs[k]
  <2>1. rs \in Seq(RegionType)
    BY DEF RegionsOK
  <2> QED BY <1>12, <1>17, <2>1
<1>19. ASSUME NEW k \in 1 .. Len(rs) PROVE RegionOK(regions'[k], InRegion(live', k))
  <2>1. CASE k = r
    <3>1. InRegion(live', k) = InRegion(live, r) \cup {new}
      BY <1>12, <1>13, <2>1 DEF InRegion
    <3> QED BY <1>16, <1>18, <2>1, <3>1
  <2>2. CASE k # r
    <3>1. InRegion(live', k) = InRegion(live, k)
      BY <1>12, <1>13, <2>2 DEF InRegion
    <3>2. RegionOK(rs[k], InRegion(live, k))
      BY DEF RegionsOK
    <3> QED BY <1>18, <2>2, <3>1, <3>2
  <2> QED BY <2>1, <2>2
<1>20. \A b \in live' : b \in CacheType /\ b.region \in 1 .. Len(rs) /\ b.mask + 1 = b.slots
  <2>1. \A b \in live : b \in CacheType /\ b.region \in 1 .. Len(rs) /\ b.mask + 1 = b.slots
    BY DEF RegionsOK
  <2> QED BY <1>12, <1>13, <2>1
<1>21. RegionsOK(regions', live')
  BY <1>18, <1>19, <1>20 DEF RegionsOK
<1> QED BY <1>21 DEF AllocatorIInv

\* It may be the region added for it.
LEMMA CallocStep ==
  ASSUME AllocatorIInv, NEW n \in Nat \ {0}, cache_allocator_calloc(n)
  PROVE  AllocatorIInv'
<1>1. PICK mask \in Nat : mask = mask_for_size(Requested(n)) /\ Requested(n) = objc_cache + mask
                          /\ Requested(n) \in Nat
  BY MaskIs
<1>2. PICK size \in Nat \ {0} : size = size_for_mask(mask) /\ Quanta(size)
                                /\ \A w \in Nat : Quanta(w) /\ w >= objc_cache + mask => size <= w
  BY SizeForMask
<1>3. regions \in Seq(RegionType) /\ RegionsOK(regions, live)
  BY DEF AllocatorIInv, RegionsOK
<1>4. PICK m \in Nat : m = Len(regions) /\ DOMAIN regions = 1 .. m
  BY <1>3, LenProperties
<1>5. PICK fit : fit = {r \in DOMAIN regions : Enough(regions[r].freeList, size) # {}}
  OBVIOUS
<1>6. CASE fit # {}
  <2>1. Allocate(regions, Min(fit), n)
    BY <1>1, <1>2, <1>5, <1>6 DEF cache_allocator_calloc
  <2>2. fit \in SUBSET Nat
    BY <1>4, <1>5
  <2>3. Min(fit) \in fit
    BY <1>6, <2>2, LeastOf
  <2>4. /\ Min(fit) \in 1 .. Len(regions)
        /\ Enough(regions[Min(fit)].freeList, size_for_mask(mask_for_size(Requested(n)))) # {}
    BY <1>1, <1>2, <1>4, <1>5, <2>3
  <2> QED BY <1>3, <2>1, <2>4, AllocateStep
<1>7. CASE fit = {}
  <2>1. PICK g : g = add_region(Requested(n))
    OBVIOUS
  <2>2. PICK rs : rs = Append(regions, g)
    OBVIOUS
  <2>3. Allocate(rs, m + 1, n)
    BY <1>1, <1>2, <1>4, <1>5, <1>7, <2>1, <2>2 DEF cache_allocator_calloc
  <2>4. PICK all \in Nat : /\ g = [size |-> all, freeList |-> <<[at |-> 0, size |-> all]>>]
                           /\ Quanta(all) /\ all > Requested(n)
    BY <1>1, <2>1, AddRegionIs
  <2>5. all \in Nat \ {0} /\ size <= all
    BY <1>1, <1>2, <2>4
  <2>6. g \in RegionType /\ RegionOK(g, {})
    BY <2>4, <2>5, RegionBegins
  <2>7. /\ rs \in Seq(RegionType) /\ Len(rs) = m + 1
        /\ \A k \in 1 .. m : rs[k] = regions[k]
        /\ rs[m + 1] = g
    BY <1>3, <1>4, <2>2, <2>6, AppendProperties
  <2>8. RegionsOK(rs, live)
    <3>1. \A b \in live : b \in CacheType /\ b.region \in 1 .. m /\ b.mask + 1 = b.slots
      BY <1>3, <1>4 DEF RegionsOK
    <3>2. ASSUME NEW k \in 1 .. m + 1 PROVE RegionOK(rs[k], InRegion(live, k))
      <4>1. CASE k \in 1 .. m
        BY <1>3, <1>4, <2>7, <4>1 DEF RegionsOK
      <4>2. CASE k = m + 1
        <5>1. InRegion(live, k) = {}
          BY <3>1, <4>2 DEF InRegion
        <5> QED BY <2>6, <2>7, <4>2, <5>1
      <4> QED BY <4>1, <4>2
    <3>3. \A b \in live : b.region \in 1 .. m + 1
      BY <3>1
    <3> QED BY <2>7, <3>1, <3>2, <3>3 DEF RegionsOK
  <2>9. Enough(rs[m + 1].freeList, size) # {}
    <3>1. PICK e : e = [at |-> 0, size |-> all]
      OBVIOUS
    <3>2. rs[m + 1].freeList = <<e>> /\ e.size = all
      BY <2>4, <2>7, <3>1
    <3>3. 1 \in DOMAIN <<e>> /\ <<e>>[1].size >= size
      BY <2>5, <3>2
    <3> QED BY <3>2, <3>3 DEF Enough
  <2>10. m + 1 \in 1 .. Len(rs)
    BY <2>7
  <2> QED BY <1>1, <1>2, <2>3, <2>8, <2>9, <2>10, AllocateStep
<1> QED BY <1>6, <1>7

\* A cache is freed.
LEMMA FreeStep ==
  ASSUME AllocatorIInv, NEW b \in live, cache_allocator_free(b)
  PROVE  AllocatorIInv'
<1>1. regions \in Seq(RegionType) /\ RegionsOK(regions, live)
  BY DEF AllocatorIInv, RegionsOK
<1>2. PICK r \in 1 .. Len(regions) : r = b.region
  BY <1>1 DEF RegionsOK
<1>3. b.at \in Nat /\ b.mask \in Nat
  <2>1. b \in CacheType
    BY <1>1 DEF RegionsOK
  <2> QED BY <2>1 DEF CacheType
<1>4. PICK g : g = regions[r]
  OBVIOUS
<1>5. g \in RegionType /\ RegionOK(g, InRegion(live, r)) /\ b \in InRegion(live, r)
  <2>1. regions[r] \in RegionType
    BY <1>1, ElementOfSeq
  <2>2. RegionOK(regions[r], InRegion(live, r))
    BY <1>1 DEF RegionsOK
  <2> QED BY <1>2, <1>4, <2>1, <2>2 DEF InRegion
<1>6. PICK list : list = g.freeList
  OBVIOUS
<1>7. PICK i : i = 1 + Cardinality({j \in DOMAIN list : list[j].at < b.at})
  OBVIOUS
<1>8. AtPlace(list, b.at, i)
  BY <1>7 DEF AtPlace
<1>9. PICK l : l = Coalesced(InsertAt(list, i, CacheBlock(b)), i)
  OBVIOUS
<1>10. PICK h : h = [g EXCEPT !.freeList = l]
  OBVIOUS
<1>11. regions' = [regions EXCEPT ![r] = h] /\ live' = live \ {b}
  <2>1. regions' = [regions EXCEPT ![r].freeList = l]
    BY <1>2, <1>4, <1>6, <1>7, <1>9 DEF cache_allocator_free, CacheBlock
  <2>2. [regions EXCEPT ![r].freeList = l] = [regions EXCEPT ![r] = h]
    BY <1>4, <1>10
  <2> QED BY <2>1, <2>2 DEF cache_allocator_free
<1>12. h.size = g.size /\ h.freeList = l
  BY <1>5, <1>10 DEF RegionType
<1>13. RegionOK(h, InRegion(live, r) \ {b})
  BY <1>3, <1>5, <1>6, <1>8, <1>9, <1>12, RegionGivesBack
<1>14. h \in RegionType
  <2>1. FreeList(h.freeList, {})
    BY <1>13 DEF RegionOK
  <2>2. l \in Seq(FreeBlock)
    BY <1>12, <2>1 DEF FreeList
  <2> QED BY <1>5, <1>10, <2>2 DEF RegionType
<1>15. /\ regions' \in Seq(RegionType) /\ Len(regions') = Len(regions)
       /\ regions'[r] = h /\ \A k \in (1 .. Len(regions)) \ {r} : regions'[k] = regions[k]
  BY <1>1, <1>11, <1>14
<1>16. ASSUME NEW k \in 1 .. Len(regions) PROVE RegionOK(regions'[k], InRegion(live', k))
  <2>1. CASE k = r
    <3>1. InRegion(live', k) = InRegion(live, r) \ {b}
      BY <1>11, <2>1 DEF InRegion
    <3> QED BY <1>13, <1>15, <2>1, <3>1
  <2>2. CASE k # r
    <3>1. InRegion(live', k) = InRegion(live, k)
      BY <1>2, <1>11, <2>2 DEF InRegion
    <3>2. RegionOK(regions[k], InRegion(live, k))
      BY <1>1 DEF RegionsOK
    <3> QED BY <1>15, <2>2, <3>1, <3>2
  <2> QED BY <2>1, <2>2
<1>17. \A c \in live' : c \in CacheType /\ c.region \in 1 .. Len(regions) /\ c.mask + 1 = c.slots
  BY <1>1, <1>11 DEF RegionsOK
<1>18. RegionsOK(regions', live')
  BY <1>15, <1>16, <1>17 DEF RegionsOK
<1> QED BY <1>18 DEF AllocatorIInv

\* What the invariant says of the caches.
LEMMA AllocatorMeans ==
  ASSUME AllocatorIInv
  PROVE  CacheMemoryExact
<1>1. regions \in Seq(RegionType) /\ RegionsOK(regions, live)
  BY DEF AllocatorIInv, RegionsOK
<1>2. PICK m \in Nat : m = Len(regions) /\ DOMAIN regions = 1 .. m
  BY <1>1, LenProperties
<1>3. \A b \in live : b \in CacheType /\ b.region \in 1 .. m /\ b.mask + 1 = b.slots
  BY <1>1, <1>2 DEF RegionsOK
<1>4. \A r \in 1 .. m : regions[r] \in RegionType /\ RegionOK(regions[r], InRegion(live, r))
  <2>1. \A r \in 1 .. m : regions[r] \in RegionType
    BY <1>1, <1>2, ElementOfSeq
  <2> QED BY <1>1, <1>2, <2>1 DEF RegionsOK
<1>5. ASSUME NEW b \in live
      PROVE  CacheWords(b) \subseteq Words(CacheBlock(b)) /\ Words(CacheBlock(b)) \subseteq Nat
  <2>1. b.at \in Nat /\ b.mask \in Nat
    BY <1>3 DEF CacheType
  <2>2. Requested(b.mask + 1) = objc_cache + b.mask
    BY <2>1 DEF Requested, objc_cache
  <2>3. size_for_mask(b.mask) \in Nat /\ size_for_mask(b.mask) >= objc_cache + b.mask
    BY <2>1, SizeForMask
  <2>4. Words(CacheBlock(b)) = b.at .. b.at + size_for_mask(b.mask) - 1
    BY DEF Words, CacheBlock
  <2>5. CacheWords(b) = b.at .. b.at + Requested(b.mask + 1) - 1
    BY DEF CacheWords
  <2>6. objc_cache + b.mask \in Nat
    BY <2>1 DEF objc_cache
  <2> QED BY <2>1, <2>2, <2>3, <2>4, <2>5, <2>6
<1>6. ASSUME NEW b \in live, NEW c \in live, b # c, b.region = c.region
      PROVE  CacheWords(b) \cap CacheWords(c) = {}
  <2> SUFFICES ASSUME NEW x, x \in CacheWords(b), x \in CacheWords(c) PROVE FALSE
    OBVIOUS
  <2>1. x \in Nat /\ x \in Words(CacheBlock(b)) /\ x \in Words(CacheBlock(c))
    BY <1>5
  <2>2. PICK r \in 1 .. m : r = b.region
    BY <1>3
  <2>3. b \in InRegion(live, r) /\ c \in InRegion(live, r) \ {b}
    BY <1>6, <2>2 DEF InRegion
  <2>4. RegionOK(regions[r], InRegion(live, r))
    BY <1>4
  <2> QED BY <2>1, <2>3, <2>4 DEF RegionOK
<1>7. ASSUME NEW r \in 1 .. m, NEW list, list = regions[r].freeList,
             NEW taken, taken = {b \in live : b.region = r}
      PROVE  /\ \A i \in DOMAIN list :
                 /\ list[i].size > 0 /\ list[i].at + list[i].size <= regions[r].size
                 /\ i < Len(list) => list[i].at + list[i].size < list[i + 1].at
                 /\ \A b \in taken : Words(list[i]) \cap CacheWords(b) = {}
             /\ \A b \in taken : CacheWords(b) \subseteq 0 .. regions[r].size - 1
             /\ taken = {} => list = <<[at |-> 0, size |-> regions[r].size]>>
  <2>1. PICK g : g = regions[r]
    OBVIOUS
  <2>2. g \in RegionType /\ RegionOK(g, taken)
    BY <1>4, <1>7, <2>1 DEF InRegion
  <2>3. PICK z \in Nat \ {0} : z = g.size
    BY <2>2 DEF RegionType
  <2>4. PICK l : l = list
    OBVIOUS
  <2>5. /\ FreeList(l, {})
        /\ \A x \in Nat : x < z <=> InList(l, x) \/ \E b \in taken : x \in Words(CacheBlock(b))
        /\ \A x \in Nat : \A b \in taken : x \in Words(CacheBlock(b)) => ~ InList(l, x)
    BY <1>7, <2>1, <2>2, <2>3, <2>4 DEF RegionOK
  <2>6. l \in Seq(FreeBlock)
    BY <2>5 DEF FreeList
  <2>7. PICK n \in Nat : n = Len(l) /\ DOMAIN l = 1 .. n
    BY <2>6, LenProperties
  <2>8. \A k \in 1 .. n : l[k].at \in Nat /\ l[k].size \in Nat \ {0}
    <3>1. \A k \in 1 .. n : l[k] \in FreeBlock
      BY <2>6, <2>7, ElementOfSeq
    <3> QED BY <3>1 DEF FreeBlock
  <2>9. ASSUME NEW i \in 1 .. n
        PROVE  /\ l[i].size > 0 /\ l[i].at + l[i].size <= z
               /\ i < n => l[i].at + l[i].size < l[i + 1].at
               /\ \A b \in taken : Words(l[i]) \cap CacheWords(b) = {}
    <3>1. PICK a \in Nat : a = l[i].at
      BY <2>8
    <3>2. PICK s \in Nat \ {0} : s = l[i].size
      BY <2>8
    <3>3. Words(l[i]) = a .. a + s - 1
      BY <3>1, <3>2 DEF Words
    <3>4. a + s <= z
      <4>1. PICK y \in Nat : y = a + s - 1
        BY a + s - 1 \in Nat
      <4>2. y \in Words(l[i])
        BY <3>3, <4>1
      <4>3. InList(l, y)
        BY <2>7, <4>2 DEF InList
      <4>4. y < z
        BY <2>5, <4>3
      <4> QED BY <4>1, <4>4
    <3>5. ASSUME i < n PROVE a + s < l[i + 1].at
      <4>1. i + 1 \in 1 .. n /\ i < i + 1
        BY <3>5
      <4>2. /\ l[i].at + l[i].size <= l[i + 1].at
            /\ l[i].at + l[i].size = l[i + 1].at => i \in {}
        BY <2>5, <2>7, <4>1 DEF FreeList, Ordered
      <4>3. l[i + 1].at \in Nat
        BY <2>8, <4>1
      <4> QED BY <3>1, <3>2, <4>2, <4>3
    <3>6. ASSUME NEW b \in taken, NEW x, x \in Words(l[i]), x \in CacheWords(b) PROVE FALSE
      <4>1. b \in live
        BY <1>7
      <4>2. x \in Nat /\ x \in Words(CacheBlock(b))
        BY <1>5, <3>6, <4>1
      <4>3. InList(l, x)
        BY <2>7, <3>6 DEF InList
      <4> QED BY <2>5, <4>2, <4>3
    <3> QED BY <3>1, <3>2, <3>4, <3>5, <3>6
  <2>10. ASSUME NEW b \in taken PROVE CacheWords(b) \subseteq 0 .. z - 1
    <3> SUFFICES ASSUME NEW x, x \in CacheWords(b) PROVE x \in 0 .. z - 1
      OBVIOUS
    <3>1. x \in Nat /\ x \in Words(CacheBlock(b))
      BY <1>5, <1>7
    <3>2. x < z
      BY <2>5, <3>1
    <3> QED BY <3>1, <3>2
  <2>11. ASSUME taken = {} PROVE l = <<[at |-> 0, size |-> z]>>
    BY <1>7, <2>1, <2>2, <2>3, <2>4, <2>11, RegionWhole
  <2> QED BY <2>1, <2>3, <2>4, <2>7, <2>9, <2>10, <2>11
<1> QED BY <1>2, <1>3, <1>6, <1>7 DEF CacheMemoryExact

\* No cache shares memory with another or with what is free, each has the slots it
\* was asked to have, and a region whose caches have all been freed is one free
\* block again, whatever the sizes and however many caches and regions there are:
\* _cache_malloc and _cache_free_block with what they call.
THEOREM CacheMemoryStaysExact == AllocatorSpec => []CacheMemoryExact
<1>1. AllocatorInit => AllocatorIInv
  <2> SUFFICES ASSUME AllocatorInit PROVE AllocatorIInv
    OBVIOUS
  <2>1. regions = <<>> /\ live = {}
    BY DEF AllocatorInit
  <2>2. regions \in Seq(RegionType) /\ Len(regions) = 0
    BY <2>1, EmptySeq
  <2> QED BY <2>1, <2>2 DEF AllocatorIInv, RegionsOK
<1>2. AllocatorIInv /\ [AllocatorNext]_allocatorVars => AllocatorIInv'
  <2> SUFFICES ASSUME AllocatorIInv, [AllocatorNext]_allocatorVars PROVE AllocatorIInv'
    OBVIOUS
  <2>1. ASSUME NEW n \in SlotCount, cache_allocator_calloc(n) PROVE AllocatorIInv'
    BY <2>1, CallocStep, CacheAllocatorAssumption
  <2>2. ASSUME NEW b \in live, cache_allocator_free(b) PROVE AllocatorIInv'
    BY <2>2, FreeStep
  <2>3. CASE UNCHANGED allocatorVars
    BY <2>3 DEF allocatorVars, AllocatorIInv
  <2> QED BY <2>1, <2>2, <2>3 DEF AllocatorNext
<1>3. AllocatorIInv => CacheMemoryExact
  BY AllocatorMeans
<1> QED BY <1>1, <1>2, <1>3, PTL DEF AllocatorSpec
-----------------------------------------------------------------------------
(* IvarLayout: multiples.                                                      *)

\* A multiple of a.
Multiple(n, a) == \E k \in Int : n = k * a

\* Multiples add up to multiples.
LEMMA MultipleSum ==
  ASSUME NEW m \in Int, NEW n \in Int, NEW a \in Nat \ {0}, Multiple(m, a), Multiple(n, a)
  PROVE  Multiple(m + n, a)
<1>1. PICK j \in Int : m = j * a
  BY DEF Multiple
<1>2. PICK k \in Int : n = k * a
  BY DEF Multiple
<1>3. (j + k) * a = j * a + k * a /\ j + k \in Int
  OBVIOUS
<1> QED BY <1>1, <1>2, <1>3 DEF Multiple

\* A multiple of a multiple is one.
LEMMA MultipleTimes ==
  ASSUME NEW k \in Int, NEW m \in Int, NEW a \in Nat \ {0}, Multiple(m, a)
  PROVE  Multiple(k * m, a)
<1>1. PICK j \in Int : m = j * a
  BY DEF Multiple
<1>2. k * (j * a) = (k * j) * a /\ k * j \in Int
  OBVIOUS
<1>3. k * m = (k * j) * a
  BY <1>1, <1>2
<1> QED BY <1>2, <1>3 DEF Multiple

\* The remainder is 0 for multiples, and only for these.
LEMMA RemainderOf ==
  ASSUME NEW n \in Int, NEW a \in Nat \ {0}
  PROVE  (n % a = 0) <=> Multiple(n, a)
<1>1. n % a = n - (n \div a) * a /\ n \div a \in Int
  <2>1. n % a = n - (n \div a) * a
    BY Z3
  <2> QED BY <2>1
<1>2. ASSUME n % a = 0 PROVE Multiple(n, a)
  <2>1. PICK k \in Int : k = n \div a
    BY <1>1
  <2>2. n = k * a
    BY <1>1, <1>2, <2>1
  <2> QED BY <2>2 DEF Multiple
<1>3. ASSUME Multiple(n, a) PROVE n % a = 0
  <2>1. PICK k \in Int : n = k * a
    BY <1>3 DEF Multiple
  <2>2. (k * a + 0) % a = 0
    BY 0 \in 0 .. a - 1
  <2> QED BY <2>1, <2>2
<1> QED BY <1>2, <1>3

\* The next multiple of a.
LEMMA AlignedIs ==
  ASSUME NEW n \in Nat, NEW a \in Nat \ {0}
  PROVE  \E m \in Nat : Aligned(n, a) = m /\ m >= n /\ Multiple(m, a)
<1>1. PICK k \in Nat : (n + a - 1) \div a = k /\ k * a \in Nat /\ k * a >= n
  BY RoundsUp
<1>2. PICK m \in Nat : m = k * a
  BY <1>1
<1>3. Multiple(m, a)
  BY <1>2 DEF Multiple
<1> QED BY <1>1, <1>2, <1>3 DEF Aligned

-----------------------------------------------------------------------------
(* IvarLayout: layouts.                                                        *)

\* An ivar as it is declared.
IvarType == [size : Nat, alignment : Nat \ {0}]

\* Ivar x between start and end, where it may be.
Within(x, start, end) ==
    /\ start <= x.offset /\ x.offset + x.size <= end
    /\ x.alignment \in Alignment /\ Multiple(x.offset, x.alignment)

\* A layout whose ivars lie one after the other, each aligned.
LaidOut == {r \in Layout :
    /\ r.instanceStart <= r.instanceSize
    /\ \A i \in 1 .. Len(r.ivars) : Within(r.ivars[i], r.instanceStart, r.instanceSize)
    /\ \A i, j \in 1 .. Len(r.ivars) :
            i < j => r.ivars[i].offset + r.ivars[i].size <= r.ivars[j].offset}

\* What the assumption says of ivars and alignments.
LEMMA AlignmentIs ==
  /\ Alignment \in SUBSET (Nat \ {0}) /\ WORD \in Alignment
  /\ \A c \in Class : \A ivars \in Declared[c] :
        /\ ivars \in Seq(IvarType)
        /\ \A i \in 1 .. Len(ivars) : ivars[i] \in Ivar
  /\ \A x \in Ivar : x \in IvarType /\ x.alignment \in Alignment
  /\ \A a, b \in Alignment : a <= b => Multiple(b, a)
<1>1. ASSUME NEW c \in Class, NEW ivars \in Declared[c]
      PROVE  ivars \in Seq(IvarType) /\ \A i \in 1 .. Len(ivars) : ivars[i] \in Ivar
  <2>1. ivars \in Seq(IvarType)
    BY IvarLayoutAssumption DEF IvarType
  <2>2. DOMAIN ivars = 1 .. Len(ivars)
    BY <2>1, LenProperties
  <2>3. \A i \in 1 .. Len(ivars) : ivars[i] \in ToSet(ivars)
    BY <2>2 DEF ToSet
  <2> QED BY <2>1, <2>3 DEF Ivar
<1>2. ASSUME NEW x \in Ivar PROVE x \in IvarType /\ x.alignment \in Alignment
  <2>1. PICK c \in Class : \E ivars \in Declared[c] : x \in ToSet(ivars)
    BY DEF Ivar
  <2>2. PICK ivars \in Declared[c] : x \in ToSet(ivars)
    BY <2>1
  <2>3. ivars \in Seq(IvarType)
    BY <1>1
  <2>4. PICK i \in 1 .. Len(ivars) : x = ivars[i]
    BY <2>2, <2>3, LenProperties DEF ToSet
  <2>5. x \in IvarType
    BY <2>3, <2>4, ElementOfSeq
  <2> QED BY <2>5 DEF Alignment
<1>3. Alignment \in SUBSET (Nat \ {0}) /\ WORD \in Alignment
  <2>1. WORD \in Nat \ {0}
    BY IvarLayoutAssumption
  <2>2. \A x \in Ivar : x.alignment \in Nat \ {0}
    BY <1>2 DEF IvarType
  <2> QED BY <2>1, <2>2 DEF Alignment
<1>4. ASSUME NEW a \in Alignment, NEW b \in Alignment, a <= b PROVE Multiple(b, a)
  <2>1. b % a = 0
    BY <1>4, IvarLayoutAssumption
  <2>2. a \in Nat \ {0} /\ b \in Int
    BY <1>3
  <2> QED BY <2>1, <2>2, RemainderOf
<1> QED BY <1>1, <1>2, <1>3, <1>4

\* One more ivar goes behind the others.
LEMMA AddIvarIs ==
  ASSUME NEW r \in LaidOut, NEW x \in IvarType, x.alignment \in Alignment
  PROVE  /\ AddIvar(r, x) \in LaidOut
         /\ AddIvar(r, x).instanceStart = r.instanceStart
         /\ Len(AddIvar(r, x).ivars) = Len(r.ivars) + 1
<1>1. /\ r.instanceStart \in Nat /\ r.instanceSize \in Nat
      /\ r.instanceStart <= r.instanceSize /\ r.ivars \in Seq(PlacedIvar)
      /\ r \in Layout
  BY DEF LaidOut, Layout
<1>2. x.size \in Nat /\ x.alignment \in Nat \ {0}
  BY DEF IvarType
<1>3. PICK o \in Nat : /\ Aligned(r.instanceSize, x.alignment) = o /\ o >= r.instanceSize
                       /\ Multiple(o, x.alignment)
  BY <1>1, <1>2, AlignedIs
<1>4. PICK new : new = [offset |-> o, size |-> x.size, alignment |-> x.alignment]
  OBVIOUS
<1>5. new \in PlacedIvar /\ new.offset = o /\ new.size = x.size /\ new.alignment = x.alignment
  BY <1>2, <1>4 DEF PlacedIvar
<1>6. PICK s : s = r.ivars
  OBVIOUS
<1>7. PICK n \in Nat : n = Len(s)
  BY <1>1, <1>6, LenProperties
<1>8. PICK t : t = Append(s, new)
  OBVIOUS
<1>9. /\ t \in Seq(PlacedIvar) /\ Len(t) = n + 1
      /\ \A i \in 1 .. n : t[i] = s[i] /\ s[i] \in PlacedIvar
      /\ t[n + 1] = new
  BY <1>1, <1>5, <1>6, <1>7, <1>8, AppendProperties, ElementOfSeq
<1>10. PICK q : q = [instanceStart |-> r.instanceStart, instanceSize |-> o + x.size, ivars |-> t]
  OBVIOUS
<1>11. AddIvar(r, x) = q
  <2>1. PICK a : a = r.instanceStart
    OBVIOUS
  <2>2. PICK b : b = r.instanceSize
    OBVIOUS
  <2>3. r = [instanceStart |-> a, instanceSize |-> b, ivars |-> s]
    BY <1>1, <1>6, <2>1, <2>2 DEF Layout
  <2>4. AddIvar(r, x) = [r EXCEPT !.instanceSize = o + x.size, !.ivars = Append(@, new)]
    <3>1. Aligned(r.instanceSize, x.alignment) = o
      BY <1>3
    <3> QED BY <1>4, <3>1, Zenon DEF AddIvar
  <2>5. PICK v : v = o + x.size
    OBVIOUS
  <2>6. PICK r1 : r1 = [r EXCEPT !.instanceSize = v]
    OBVIOUS
  <2>7. r1 = [instanceStart |-> a, instanceSize |-> v, ivars |-> s]
    BY <2>3, <2>6
  <2>8. [r1 EXCEPT !.ivars = t] = [instanceStart |-> a, instanceSize |-> v, ivars |-> t]
    BY <2>7
  <2>9. [r EXCEPT !.instanceSize = v, !.ivars = Append(@, new)] = [r1 EXCEPT !.ivars = t]
    <3>1. r.ivars = s /\ t = Append(s, new)
      BY <1>6, <1>8
    <3>2. [r EXCEPT !.instanceSize = v, !.ivars = Append(@, new)]
          = [r EXCEPT !.instanceSize = v, !.ivars = t]
      BY <2>3, <3>1
    <3>3. [r EXCEPT !.instanceSize = v, !.ivars = t] = [r1 EXCEPT !.ivars = t]
      BY <2>6
    <3> QED BY <3>2, <3>3
  <2> QED BY <1>10, <2>1, <2>4, <2>5, <2>8, <2>9
<1>12. /\ q.instanceStart = r.instanceStart /\ q.instanceSize = o + x.size /\ q.ivars = t
       /\ q \in Layout
  BY <1>1, <1>2, <1>9, <1>10 DEF Layout
<1>13. ASSUME NEW i \in 1 .. n + 1 PROVE Within(t[i], q.instanceStart, q.instanceSize)
  <2>1. CASE i \in 1 .. n
    <3>1. Within(s[i], r.instanceStart, r.instanceSize)
      BY <1>6, <1>7, <2>1 DEF LaidOut
    <3>2. s[i].offset \in Nat /\ s[i].size \in Nat /\ t[i] = s[i]
      BY <1>9, <2>1 DEF PlacedIvar
    <3>3. r.instanceSize <= q.instanceSize
      BY <1>1, <1>2, <1>3, <1>12
    <3>4. /\ r.instanceStart <= s[i].offset /\ s[i].offset + s[i].size <= r.instanceSize
          /\ s[i].alignment \in Alignment /\ Multiple(s[i].offset, s[i].alignment)
      BY <3>1 DEF Within
    <3>5. s[i].offset + s[i].size <= q.instanceSize
      <4>1. q.instanceSize \in Nat
        BY <1>12 DEF Layout
      <4> QED BY <1>1, <3>2, <3>3, <3>4, <4>1
    <3> QED BY <1>12, <3>2, <3>4, <3>5 DEF Within
  <2>2. CASE i = n + 1
    <3>1. t[i] = new
      BY <1>9, <2>2
    <3> QED BY <1>1, <1>2, <1>3, <1>5, <1>12, <3>1 DEF Within
  <2> QED BY <2>1, <2>2
<1>14. ASSUME NEW i \in 1 .. n + 1, NEW j \in 1 .. n + 1, i < j
       PROVE  t[i].offset + t[i].size <= t[j].offset
  <2>1. i \in 1 .. n /\ t[i] = s[i]
    BY <1>9, <1>14
  <2>2. CASE j \in 1 .. n
    BY <1>6, <1>7, <1>9, <1>14, <2>1, <2>2 DEF LaidOut
  <2>3. CASE j = n + 1
    <3>1. Within(s[i], r.instanceStart, r.instanceSize)
      BY <1>6, <1>7, <2>1 DEF LaidOut
    <3>2. s[i].offset + s[i].size <= r.instanceSize /\ s[i].offset \in Nat /\ s[i].size \in Nat
      BY <1>9, <2>1, <3>1 DEF Within, PlacedIvar
    <3> QED BY <1>1, <1>3, <1>5, <1>9, <2>1, <2>3, <3>2
  <2> QED BY <2>2, <2>3
<1>15. q.instanceStart <= q.instanceSize
  BY <1>1, <1>2, <1>3, <1>12
<1>16. q \in LaidOut
  BY <1>9, <1>12, <1>13, <1>14, <1>15 DEF LaidOut
<1> QED BY <1>6, <1>7, <1>9, <1>11, <1>12, <1>16

\* The ivars of a class, one by one.
LEMMA AddIvarsIs ==
  ASSUME NEW r \in LaidOut, NEW seq \in Seq(IvarType),
         \A i \in 1 .. Len(seq) : seq[i] \in Ivar
  PROVE  /\ FoldLeft(AddIvar, r, seq) \in LaidOut
         /\ FoldLeft(AddIvar, r, seq).instanceStart = r.instanceStart
         /\ seq # <<>> => Len(FoldLeft(AddIvar, r, seq).ivars) > 0
<1>1. PICK n \in Nat : n = Len(seq)
  BY LenProperties
<1>2. DOMAIN seq = 1 .. n /\ \A k \in 1 .. n : seq[k] \in IvarType /\ seq[k].alignment \in Alignment
  BY <1>1, LenProperties, AlignmentIs
<1> DEFINE G == [p \in LaidOut \X (1 .. n) |-> AddIvar(p[1], seq[p[2]])]
           Eq(h) == h = [s \in SUBSET (1 .. n) |->
                            IF s = {} THEN r
                            ELSE AddIvar(h[s \ {Max(s)}], seq[Max(s)])]
           H == CHOOSE h : Eq(h)
<1>3. FoldLeft(AddIvar, r, seq) = H[1 .. n]
  BY <1>2 DEF FoldLeft, MapThenFoldSet
<1>4. Eq(H)
  <2>1. G \in [LaidOut \X (1 .. n) -> LaidOut]
    BY <1>2, AddIvarIs
  <2> HIDE DEF G
  <2>2. PICK h \in [SUBSET (1 .. n) -> LaidOut] : Folds(h, G, r, SUBSET (1 .. n))
    BY <2>1, FoldsExists
  <2>3. ASSUME NEW s \in SUBSET (1 .. n), s # {}
        PROVE  G[<<h[s \ {Max(s)}], Max(s)>>] = AddIvar(h[s \ {Max(s)}], seq[Max(s)])
    <3>1. Max(s) \in 1 .. n /\ s \ {Max(s)} \in SUBSET (1 .. n)
      BY <2>3, LargestIn
    <3>2. <<h[s \ {Max(s)}], Max(s)>> \in LaidOut \X (1 .. n)
      BY <2>2, <3>1
    <3> QED BY <3>2 DEF G
  <2>4. Eq(h)
    BY <2>2, <2>3 DEF Folds
  <2> QED BY <2>4
<1> HIDE DEF H
<1> DEFINE g == [k \in 0 .. n |-> H[1 .. k]]
<1>5. g[0] = r
  BY <1>4, 1 .. 0 = {}
<1>6. ASSUME NEW k \in 1 .. n
      PROVE  g[k] = AddIvar(g[k - 1], seq[k])
  <2>1. PICK s : s = 1 .. k
    OBVIOUS
  <2>2. k \in Nat \ {0} /\ k \in s /\ s \in SUBSET (1 .. n)
    BY <2>1
  <2>3. Max(s) = k /\ s \ {k} = 1 .. k - 1
    BY <2>1, <2>2, LargestIs
  <2>4. g[k] = H[s] /\ g[k - 1] = H[s \ {k}]
    BY <2>1, <2>3
  <2>5. H[s] = IF s = {} THEN r ELSE AddIvar(H[s \ {Max(s)}], seq[Max(s)])
    BY <1>4, <2>2
  <2> QED BY <2>2, <2>3, <2>4, <2>5
<1> HIDE DEF g
<1>7. FoldLeft(AddIvar, r, seq) = g[n]
  BY <1>3 DEF g
<1> DEFINE T == {k \in 0 .. n : /\ g[k] \in LaidOut /\ g[k].instanceStart = r.instanceStart
                                /\ k > 0 => Len(g[k].ivars) > 0}
<1>8. 0 \in T
  BY <1>5
<1>9. ASSUME NEW k \in 0 .. n - 1, k \in T PROVE k + 1 \in T
  <2>1. k + 1 \in 1 .. n /\ (k + 1) - 1 = k
    OBVIOUS
  <2>2. PICK m \in 1 .. n : m = k + 1 /\ m - 1 = k
    BY <2>1
  <2>3. PICK q \in LaidOut : q = g[k] /\ q.instanceStart = r.instanceStart
    BY <1>9
  <2>4. g[m] = AddIvar(q, seq[m])
    BY <1>6, <2>2, <2>3
  <2>5. seq[m] \in IvarType /\ seq[m].alignment \in Alignment
    BY <1>2
  <2>6. /\ g[m] \in LaidOut /\ g[m].instanceStart = r.instanceStart
        /\ Len(g[m].ivars) = Len(q.ivars) + 1
    BY <2>3, <2>4, <2>5, AddIvarIs
  <2>7. Len(q.ivars) \in Nat
    BY LenProperties DEF LaidOut, Layout
  <2>8. m \in 0 .. n /\ Len(g[m].ivars) > 0
    BY <2>6, <2>7
  <2> QED BY <2>2, <2>6, <2>8
<1>10. \A k \in 0 .. n : k \in T
  <2> HIDE DEF T
  <2> QED BY <1>8, <1>9, CountsUp
<1>11. seq # <<>> => n > 0
  BY <1>1, EmptySeq
<1> QED BY <1>7, <1>10, <1>11

\* The largest of a few alignments.
LEMMA MaxAlignmentIs ==
  ASSUME NEW r \in LaidOut, NEW least \in Alignment \cup {1}
  PROVE  \E m \in Nat \ {0} : /\ MaxAlignment(r.ivars, least) = m
                              /\ \A i \in 1 .. Len(r.ivars) : Multiple(m, r.ivars[i].alignment)
<1>1. PICK s : s = r.ivars
  OBVIOUS
<1>2. s \in Seq(PlacedIvar)
  BY <1>1 DEF LaidOut, Layout
<1>3. PICK n \in Nat : n = Len(s)
  BY <1>2, LenProperties
<1>4. DOMAIN s = 1 .. n
  BY <1>2, <1>3, LenProperties
<1>5. \A i \in 1 .. n : s[i].alignment \in Alignment
  BY <1>1, <1>3 DEF LaidOut, Within
<1>6. Alignment \in SUBSET (Nat \ {0})
  BY AlignmentIs
<1> DEFINE A(k) == {least} \cup {s[i].alignment : i \in 1 .. k}
           T == {k \in 0 .. n : \E x \in A(k) : \A y \in A(k) : x >= y}
<1>7. \A k \in 0 .. n : A(k) \in SUBSET (Nat \ {0})
  <2>1. least \in Nat \ {0}
    BY <1>6
  <2>2. ASSUME NEW k \in 0 .. n, NEW i \in 1 .. k PROVE s[i].alignment \in Nat \ {0}
    <3>1. i \in 1 .. n
      OBVIOUS
    <3> QED BY <1>5, <1>6, <3>1
  <2> QED BY <2>1, <2>2
<1>8. 0 \in T
  <2>1. A(0) = {least} /\ least \in Nat
    BY <1>6
  <2> QED BY <2>1
<1>9. ASSUME NEW k \in 0 .. n - 1, k \in T PROVE k + 1 \in T
  <2>1. PICK x \in A(k) : \A y \in A(k) : x >= y
    BY <1>9
  <2>2. PICK z : z = s[k + 1].alignment
    OBVIOUS
  <2>3. k + 1 \in 1 .. n /\ k + 1 \in 0 .. n /\ k \in 0 .. n
    OBVIOUS
  <2>4. z \in Nat \ {0}
    BY <1>5, <1>6, <2>2, <2>3
  <2>5. A(k + 1) = A(k) \cup {z}
    <3>1. 1 .. k + 1 = (1 .. k) \cup {k + 1}
      OBVIOUS
    <3> QED BY <2>2, <3>1
  <2>6. x \in Nat /\ A(k) \in SUBSET Nat
    BY <1>7, <2>3
  <2> HIDE DEF A
  <2>7. CASE x >= z
    BY <2>1, <2>3, <2>5, <2>7
  <2>8. CASE z > x
    <3>1. \A y \in A(k + 1) : z >= y
      BY <2>1, <2>4, <2>5, <2>6, <2>8
    <3> QED BY <2>3, <2>5, <3>1
  <2> QED BY <2>4, <2>6, <2>7, <2>8
<1>10. n \in T
  <2>1. \A k \in 0 .. n : k \in T
    <3> HIDE DEF T
    <3> QED BY <1>8, <1>9, CountsUp
  <2> QED BY <2>1
<1>11. PICK m : m = MaxAlignment(s, least)
  OBVIOUS
<1>12. m \in A(n) /\ \A y \in A(n) : m >= y
  BY <1>4, <1>10, <1>11 DEF MaxAlignment, Max
<1>13. m \in Nat \ {0}
  BY <1>7, <1>12
<1>14. ASSUME NEW i \in 1 .. n PROVE Multiple(m, s[i].alignment)
  <2>1. PICK a : a = s[i].alignment
    OBVIOUS
  <2>2. a \in Alignment /\ a \in Nat \ {0} /\ a \in A(n)
    BY <1>5, <1>6, <2>1
  <2>3. a <= m
    BY <1>12, <1>13, <2>2
  <2>4. CASE m \in Alignment
    BY <2>1, <2>2, <2>3, <2>4, AlignmentIs
  <2>5. CASE m = 1
    <3>1. m = m * a /\ m \in Int
      BY <2>2, <2>3, <2>5
    <3> QED BY <2>1, <3>1 DEF Multiple
  <2>6. m \in Alignment \cup {1}
    BY <1>5, <1>12
  <2> QED BY <2>4, <2>5, <2>6
<1> QED BY <1>1, <1>3, <1>11, <1>13, <1>14

\* All ivars slide by a multiple of their alignments.
LEMMA SlidIs ==
  ASSUME NEW r \in LaidOut, NEW diff \in Int, r.instanceStart + diff >= 0,
         \A i \in 1 .. Len(r.ivars) : Multiple(diff, r.ivars[i].alignment)
  PROVE  /\ Slid(r, diff) \in LaidOut
         /\ Slid(r, diff).instanceStart = r.instanceStart + diff
<1>1. /\ r.instanceStart \in Nat /\ r.instanceSize \in Nat
      /\ r.instanceStart <= r.instanceSize /\ r.ivars \in Seq(PlacedIvar)
  BY DEF LaidOut, Layout
<1>2. PICK s : s = r.ivars
  OBVIOUS
<1>3. PICK n \in Nat : n = Len(s)
  BY <1>1, <1>2, LenProperties
<1>4. DOMAIN s = 1 .. n
  BY <1>1, <1>2, <1>3, LenProperties
<1>5. PICK t : t = [i \in 1 .. n |-> [s[i] EXCEPT !.offset = @ + diff]]
  OBVIOUS
<1>6. PICK a \in Nat : a = r.instanceStart + diff
  BY <1>1
<1>7. PICK b \in Nat : b = r.instanceSize + diff /\ a <= b
  BY <1>1, <1>6
<1>8. PICK q : q = [instanceStart |-> a, instanceSize |-> b, ivars |-> t]
  OBVIOUS
<1>9. Slid(r, diff) = q
  BY <1>2, <1>4, <1>5, <1>6, <1>7, <1>8 DEF Slid
<1>10. q.instanceStart = a /\ q.instanceSize = b /\ q.ivars = t
  BY <1>8
<1>11. ASSUME NEW i \in 1 .. n
       PROVE  /\ s[i] \in PlacedIvar /\ Within(s[i], r.instanceStart, r.instanceSize)
              /\ t[i].offset = s[i].offset + diff /\ t[i].size = s[i].size
              /\ t[i].alignment = s[i].alignment
              /\ t[i] \in PlacedIvar /\ Within(t[i], a, b)
  <2>1. s[i] \in PlacedIvar
    BY <1>1, <1>2, <1>3, ElementOfSeq
  <2>2. Within(s[i], r.instanceStart, r.instanceSize)
    BY <1>2, <1>3 DEF LaidOut
  <2>3. t[i] = [s[i] EXCEPT !.offset = @ + diff]
    BY <1>5
  <2>4. s[i].offset \in Nat /\ s[i].size \in Nat /\ s[i].alignment \in Nat \ {0}
    BY <2>1 DEF PlacedIvar
  <2>5. /\ t[i].offset = s[i].offset + diff /\ t[i].size = s[i].size
        /\ t[i].alignment = s[i].alignment
    BY <2>1, <2>3 DEF PlacedIvar
  <2>6. a <= t[i].offset /\ t[i].offset + t[i].size <= b /\ t[i].offset \in Nat
    <3>1. r.instanceStart <= s[i].offset /\ s[i].offset + s[i].size <= r.instanceSize
      BY <2>2 DEF Within
    <3>2. PICK o \in Nat : o = s[i].offset
      BY <2>4
    <3>3. PICK z \in Nat : z = s[i].size
      BY <2>4
    <3>4. a <= o + diff /\ (o + diff) + z <= b /\ o + diff \in Nat
      <4>1. PICK u \in Nat : u = r.instanceStart
        BY <1>1
      <4>2. PICK v \in Nat : v = r.instanceSize
        BY <1>1
      <4>3. a = u + diff /\ b = v + diff
        BY <1>6, <1>7, <4>1, <4>2
      <4>4. u <= o /\ o + z <= v
        BY <3>1, <3>2, <3>3, <4>1, <4>2
      <4> QED BY <4>3, <4>4
    <3>5. t[i].offset = o + diff /\ t[i].size = z
      BY <2>5, <3>2, <3>3
    <3> QED BY <3>4, <3>5
  <2>7. Multiple(t[i].offset, t[i].alignment) /\ t[i].alignment \in Alignment
    <3>1. Multiple(s[i].offset, s[i].alignment) /\ s[i].alignment \in Alignment
      BY <2>2 DEF Within
    <3>2. Multiple(diff, s[i].alignment)
      BY <1>2, <1>3
    <3>3. PICK o \in Nat : o = s[i].offset
      BY <2>4
    <3>4. PICK l \in Nat \ {0} : l = s[i].alignment
      BY <2>4
    <3>5. Multiple(o + diff, l)
      <4>1. Multiple(o, l) /\ Multiple(diff, l) /\ o \in Int
        BY <3>1, <3>2, <3>3, <3>4
      <4> QED BY <4>1, MultipleSum
    <3> QED BY <2>5, <3>1, <3>3, <3>4, <3>5
  <2>8. t[i] \in PlacedIvar
    BY <2>1, <2>3, <2>5, <2>6 DEF PlacedIvar
  <2> QED BY <2>1, <2>2, <2>5, <2>6, <2>7, <2>8 DEF Within
<1>12. t \in Seq(PlacedIvar) /\ Len(t) = n
  <2>1. t \in [1 .. n -> PlacedIvar]
    BY <1>5, <1>11
  <2> QED BY <2>1
<1>13. ASSUME NEW i \in 1 .. n, NEW j \in 1 .. n, i < j
       PROVE  t[i].offset + t[i].size <= t[j].offset
  <2>1. s[i].offset + s[i].size <= s[j].offset
    BY <1>2, <1>3, <1>13 DEF LaidOut
  <2>2. s[i].offset \in Nat /\ s[i].size \in Nat /\ s[j].offset \in Nat
    BY <1>11 DEF PlacedIvar
  <2>3. PICK o \in Nat : o = s[i].offset
    BY <2>2
  <2>4. PICK z \in Nat : z = s[i].size
    BY <2>2
  <2>5. PICK p \in Nat : p = s[j].offset
    BY <2>2
  <2>6. (o + diff) + z <= p + diff
    <3>1. o + z <= p
      BY <2>1, <2>3, <2>4, <2>5
    <3> QED BY <3>1
  <2>7. t[i].offset = o + diff /\ t[i].size = z /\ t[j].offset = p + diff
    BY <1>11, <2>3, <2>4, <2>5
  <2> QED BY <2>6, <2>7
<1>14. q \in LaidOut
  <2>1. q \in Layout
    BY <1>8, <1>12 DEF Layout
  <2> QED BY <1>7, <1>10, <1>11, <1>12, <1>13, <2>1 DEF LaidOut
<1> QED BY <1>6, <1>9, <1>10, <1>14

\* What the ivars slide by below a superclass that ends at m or beyond.
LEMMA SlideIs ==
  ASSUME NEW r \in LaidOut, NEW m \in Nat, r.instanceStart < m
  PROVE  moveIvars(r, m) \in LaidOut /\ moveIvars(r, m).instanceStart >= m
<1>1. PICK u \in Nat : u = r.instanceStart
  BY DEF LaidOut, Layout
<1>2. PICK a \in Nat \ {0} : /\ MaxAlignment(r.ivars, 1) = a
                            /\ \A i \in 1 .. Len(r.ivars) : Multiple(a, r.ivars[i].alignment)
  BY MaxAlignmentIs
<1>3. PICK n \in Nat : n = m - u
  BY <1>1
<1>4. PICK diff \in Nat : Aligned(n, a) = diff /\ diff >= n /\ Multiple(diff, a)
  BY AlignedIs
<1>5. Slide(r, m) = diff
  BY <1>1, <1>2, <1>3, <1>4 DEF Slide
<1>6. ASSUME NEW i \in 1 .. Len(r.ivars) PROVE Multiple(diff, r.ivars[i].alignment)
  <2>1. PICK k \in Int : diff = k * a
    BY <1>4 DEF Multiple
  <2>2. Multiple(a, r.ivars[i].alignment)
    BY <1>2
  <2>3. r.ivars[i].alignment \in Nat \ {0}
    BY AlignmentIs DEF LaidOut, Within
  <2>4. PICK l \in Nat \ {0} : l = r.ivars[i].alignment
    BY <2>3
  <2>5. Multiple(k * a, l)
    <3>1. Multiple(a, l) /\ a \in Int
      BY <2>2, <2>4
    <3> QED BY <3>1, MultipleTimes
  <2> QED BY <2>1, <2>4, <2>5
<1>7. Slid(r, diff) \in LaidOut /\ Slid(r, diff).instanceStart = u + diff
  <2>1. r.instanceStart + diff >= 0 /\ diff \in Int
    BY <1>1
  <2> QED BY <1>1, <1>6, <2>1, SlidIs
<1>8. moveIvars(r, m) = Slid(r, diff)
  BY <1>5 DEF moveIvars
<1>9. u + diff >= m
  BY <1>3, <1>4
<1> QED BY <1>7, <1>8, <1>9

\* The option puts the ivars back by a multiple of their alignments.
LEMMA ResetIs ==
  ASSUME NEW r \in LaidOut
  PROVE  Reset(r) \in LaidOut
<1>1. PICK u \in Nat : u = r.instanceStart
  BY DEF LaidOut, Layout
<1>2. PICK a \in Nat \ {0} : /\ MaxAlignment(r.ivars, WORD) = a
                            /\ \A i \in 1 .. Len(r.ivars) : Multiple(a, r.ivars[i].alignment)
  BY MaxAlignmentIs, AlignmentIs
<1>3. PICK k \in Int : k = -(u \div a) /\ u + k * a = u % a
  <2>1. u % a = u - (u \div a) * a
    BY Z3
  <2>2. PICK j \in Int : j = u \div a
    OBVIOUS
  <2>3. u + (-j) * a = u - j * a /\ -j \in Int
    OBVIOUS
  <2> QED BY <2>1, <2>2, <2>3
<1>4. PICK diff \in Int : diff = k * a
  OBVIOUS
<1>5. u + diff = u % a /\ u + diff >= 0
  BY <1>3, <1>4
<1>6. Reset(r) = Slid(r, diff)
  <2>1. (u % a) - u = diff
    BY <1>5
  <2> QED BY <1>1, <1>2, <2>1 DEF Reset
<1>7. ASSUME NEW i \in 1 .. Len(r.ivars) PROVE Multiple(diff, r.ivars[i].alignment)
  <2>1. Multiple(a, r.ivars[i].alignment)
    BY <1>2
  <2>2. r.ivars[i].alignment \in Nat \ {0}
    BY AlignmentIs DEF LaidOut, Within
  <2>3. PICK l \in Nat \ {0} : l = r.ivars[i].alignment
    BY <2>2
  <2>4. Multiple(k * a, l)
    <3>1. Multiple(a, l) /\ a \in Int
      BY <2>1, <2>3
    <3> QED BY <3>1, MultipleTimes
  <2> QED BY <1>4, <2>3, <2>4
<1>8. Slid(r, diff) \in LaidOut
  <2>1. r.instanceStart + diff >= 0
    BY <1>1, <1>5
  <2> QED BY <1>7, <2>1, SlidIs
<1> QED BY <1>6, <1>8

\* A class starts where its superclass ends, or after it.
LEMMA ReconcileIs ==
  ASSUME NEW r \in LaidOut, NEW m \in Nat, NEW debug
  PROVE  /\ reconcileInstanceVariables(r, m, debug) \in LaidOut
         /\ reconcileInstanceVariables(r, m, debug).instanceStart >= m
<1>1. PICK q \in LaidOut : q = IF debug THEN Reset(r) ELSE r
  BY ResetIs
<1>2. PICK u \in Nat : u = q.instanceStart
  BY DEF LaidOut, Layout
<1>3. CASE u < m
  BY <1>1, <1>2, <1>3, SlideIs DEF reconcileInstanceVariables
<1>4. CASE u >= m
  BY <1>1, <1>2, <1>4 DEF reconcileInstanceVariables
<1> QED BY <1>3, <1>4

\* A class as it comes from the compiler.
LEMMA EmittedIs ==
  ASSUME NEW c \in Class
  PROVE  Emitted(c) \subseteq LaidOut
<1>1. ASSUME NEW ivars \in Declared[c], NEW m \in Nat PROVE Compiled(ivars, m) \in LaidOut
  <2>1. PICK r : r = [instanceStart |-> m, instanceSize |-> m, ivars |-> <<>>]
    OBVIOUS
  <2>2. /\ r.instanceStart = m /\ r.instanceSize = m /\ r.ivars = <<>>
        /\ r.ivars \in Seq(PlacedIvar) /\ Len(r.ivars) = 0
    BY <2>1, EmptySeq
  <2>3. r \in LaidOut
    BY <2>1, <2>2 DEF LaidOut, Layout
  <2>4. ivars \in Seq(IvarType) /\ \A i \in 1 .. Len(ivars) : ivars[i] \in Ivar
    BY AlignmentIs
  <2>5. PICK q : q = FoldLeft(AddIvar, r, ivars)
    OBVIOUS
  <2>6. q \in LaidOut /\ (ivars # <<>> => Len(q.ivars) > 0)
    BY <2>3, <2>4, <2>5, AddIvarsIs
  <2>7. Compiled(ivars, m) = IF ivars = <<>> THEN q
                             ELSE [q EXCEPT !.instanceStart = q.ivars[1].offset]
    BY <2>1, <2>5, Zenon DEF Compiled
  <2>8. CASE ivars = <<>>
    BY <2>6, <2>7, <2>8
  <2>9. CASE ivars # <<>>
    <3>1. q.ivars \in Seq(PlacedIvar) /\ q \in Layout
      BY <2>6 DEF LaidOut, Layout
    <3>2. PICK n \in Nat \ {0} : n = Len(q.ivars)
      BY <2>6, <2>9, <3>1, LenProperties
    <3>3. PICK o : o = q.ivars[1].offset
      OBVIOUS
    <3>4. PICK s : s = q.ivars
      OBVIOUS
    <3>5. \A i \in 1 .. n : s[i] \in PlacedIvar
      BY <3>1, <3>2, <3>4, ElementOfSeq
    <3>6. \A i \in 1 .. n : s[i].offset \in Nat /\ s[i].size \in Nat
      BY <3>5 DEF PlacedIvar
    <3>7. PICK new : new = [q EXCEPT !.instanceStart = o]
      OBVIOUS
    <3>8. new.instanceStart = o /\ new.instanceSize = q.instanceSize /\ new.ivars = s
      BY <3>1, <3>4, <3>7 DEF Layout
    <3>9. o \in Nat /\ 1 \in 1 .. n
      BY <3>2, <3>3, <3>4, <3>6
    <3>10. new \in Layout
      BY <3>1, <3>7, <3>9 DEF Layout
    <3>11. \A i \in 1 .. n : Within(s[i], q.instanceStart, q.instanceSize)
      BY <2>6, <3>2, <3>4 DEF LaidOut
    <3>12. \A i, j \in 1 .. n : i < j => s[i].offset + s[i].size <= s[j].offset
      BY <2>6, <3>2, <3>4 DEF LaidOut
    <3>13. ASSUME NEW i \in 1 .. n PROVE Within(s[i], o, q.instanceSize)
      <4>1. CASE i = 1
        BY <3>3, <3>4, <3>9, <3>11, <4>1 DEF Within
      <4>2. CASE i > 1
        <5>1. s[1].offset + s[1].size <= s[i].offset
          BY <3>9, <3>12, <4>2
        <5>2. o <= s[i].offset
          BY <3>3, <3>4, <3>6, <3>9, <5>1
        <5> QED BY <3>11, <5>2 DEF Within
      <4> QED BY <4>1, <4>2
    <3>14. o <= q.instanceSize
      <4>1. o + s[1].size <= q.instanceSize
        BY <3>3, <3>4, <3>9, <3>13 DEF Within
      <4>2. q.instanceSize \in Nat /\ s[1].size \in Nat
        BY <3>1, <3>6, <3>9 DEF Layout
      <4> QED BY <3>9, <4>1, <4>2
    <3>15. new \in LaidOut
      BY <3>2, <3>4, <3>8, <3>10, <3>12, <3>13, <3>14 DEF LaidOut
    <3> QED BY <2>7, <2>9, <3>3, <3>7, <3>15
  <2> QED BY <2>8, <2>9
<1>2. NoLocalIvars \in LaidOut
  <2>1. <<>> \in Seq(PlacedIvar) /\ Len(<<>>) = 0
    BY EmptySeq
  <2> QED BY <2>1 DEF NoLocalIvars, LaidOut, Layout
<1>3. 0 \in Nat /\ OldSize \subseteq Nat
  BY IvarLayoutAssumption
<1> QED BY <1>1, <1>2, <1>3 DEF Emitted

-----------------------------------------------------------------------------
(* IvarLayout: the invariant.                                                  *)

\* Each realized class of R starts where its superclass ends, or after it, by the
\* layouts L; what is mapped has its superclass mapped.
LayoutsOK(L, R) ==
    /\ L \in [Class \cup Pair -> LaidOut \cup {Nil}] /\ R \in SUBSET (Class \cup Pair)
    /\ \A c \in Class : L[c] # Nil /\ super[c] # Nil => L[super[c]] \in LaidOut
    /\ \A c \in Class \ R : superclass[c] = super[c]
    /\ \A c \in R :
        /\ L[c] \in LaidOut /\ superclass[c] \in (R \ constructing) \cup {Nil}
        /\ superclass[c] # Nil => L[superclass[c]].instanceSize <= L[c].instanceStart
    /\ superclass \in [Class \cup Pair -> Class \cup Pair \cup {Nil}]
    /\ constructing \in SUBSET (Pair \cap R)

IvarIInv == LayoutsOK(ro, realized)

\* It is what the property needs.
LEMMA LayoutsMean == IvarIInv => IvarsApart
<1> SUFFICES ASSUME IvarIInv, NEW c \in realized
             PROVE  LET own == ro[c].ivars
                        end == IF superclass[c] = Nil THEN 0 ELSE ro[superclass[c]].instanceSize
                    IN  /\ end <= ro[c].instanceSize
                        /\ \A i \in DOMAIN own :
                            /\ own[i].offset % own[i].alignment = 0
                            /\ Bytes(own[i]) \subseteq end .. ro[c].instanceSize - 1
                            /\ \A j \in DOMAIN own : i # j => Bytes(own[i]) \cap Bytes(own[j]) = {}
  BY DEF IvarsApart
<1>1. PICK r \in LaidOut : r = ro[c]
  BY DEF IvarIInv, LayoutsOK
<1>2. PICK own : own = r.ivars
  OBVIOUS
<1>3. PICK start \in Nat : start = r.instanceStart
  BY DEF LaidOut, Layout
<1>4. PICK size \in Nat : size = r.instanceSize /\ start <= size
  BY <1>3 DEF LaidOut, Layout
<1>5. own \in Seq(PlacedIvar)
  BY <1>2 DEF LaidOut, Layout
<1>6. PICK n \in Nat : n = Len(own) /\ DOMAIN own = 1 .. n
  BY <1>5, LenProperties
<1>7. PICK end \in Nat : /\ end = IF superclass[c] = Nil THEN 0 ELSE ro[superclass[c]].instanceSize
                         /\ end <= start
  <2>1. CASE superclass[c] = Nil
    BY <2>1
  <2>2. CASE superclass[c] # Nil
    <3>1. /\ superclass[c] \in realized
          /\ ro[superclass[c]].instanceSize <= ro[c].instanceStart
      BY <2>2 DEF IvarIInv, LayoutsOK
    <3>2. ro[superclass[c]] \in LaidOut
      BY <3>1 DEF IvarIInv, LayoutsOK
    <3>3. ro[superclass[c]].instanceSize \in Nat
      BY <3>2 DEF LaidOut, Layout
    <3> QED BY <1>1, <1>3, <2>2, <3>1, <3>3
  <2> QED BY <2>1, <2>2
<1>8. ASSUME NEW i \in 1 .. n
      PROVE  /\ own[i].offset \in Nat /\ own[i].size \in Nat /\ own[i].alignment \in Nat \ {0}
             /\ start <= own[i].offset /\ own[i].offset + own[i].size <= size
             /\ own[i].offset % own[i].alignment = 0
  <2>1. own[i] \in PlacedIvar
    BY <1>5, <1>6, ElementOfSeq
  <2>2. Within(own[i], start, size)
    BY <1>2, <1>3, <1>4, <1>6 DEF LaidOut
  <2>3. own[i].offset \in Nat /\ own[i].size \in Nat /\ own[i].alignment \in Nat \ {0}
    BY <2>1 DEF PlacedIvar
  <2>4. own[i].offset % own[i].alignment = 0
    <3>1. PICK o \in Nat : o = own[i].offset
      BY <2>3
    <3>2. PICK a \in Nat \ {0} : a = own[i].alignment
      BY <2>3
    <3>3. Multiple(o, a) /\ o \in Int
      BY <2>2, <3>1, <3>2 DEF Within
    <3>4. o % a = 0
      BY <3>3, RemainderOf
    <3> QED BY <3>1, <3>2, <3>4
  <2> QED BY <2>2, <2>3, <2>4 DEF Within
<1>9. ASSUME NEW i \in 1 .. n PROVE Bytes(own[i]) \subseteq end .. size - 1
  <2>1. PICK o \in Nat : o = own[i].offset
    BY <1>8
  <2>2. PICK z \in Nat : z = own[i].size
    BY <1>8
  <2>3. start <= o /\ o + z <= size
    BY <1>8, <2>1, <2>2
  <2>4. o .. o + z - 1 \subseteq end .. size - 1
    BY <1>7, <2>3
  <2> QED BY <2>1, <2>2, <2>4 DEF Bytes
<1>10. ASSUME NEW i \in 1 .. n, NEW j \in 1 .. n, i < j
       PROVE  Bytes(own[i]) \cap Bytes(own[j]) = {}
  <2>1. PICK o \in Nat : o = own[i].offset
    BY <1>8
  <2>2. PICK z \in Nat : z = own[i].size
    BY <1>8
  <2>3. PICK p \in Nat : p = own[j].offset
    BY <1>8
  <2>4. PICK y \in Nat : y = own[j].size
    BY <1>8
  <2>5. own[i].offset + own[i].size <= own[j].offset
    BY <1>2, <1>6, <1>10 DEF LaidOut
  <2>6. o + z <= p
    BY <2>1, <2>2, <2>3, <2>5
  <2>7. (o .. o + z - 1) \cap (p .. p + y - 1) = {}
    BY <2>6
  <2> QED BY <2>1, <2>2, <2>3, <2>4, <2>7 DEF Bytes
<1>11. ASSUME NEW i \in 1 .. n, NEW j \in 1 .. n, i # j
       PROVE  Bytes(own[i]) \cap Bytes(own[j]) = {}
  <2>1. i < j \/ j < i
    BY <1>11
  <2> QED BY <1>10, <2>1
<1>12. end <= size
  BY <1>4, <1>7
<1> QED BY <1>1, <1>2, <1>4, <1>6, <1>7, <1>8, <1>9, <1>11, <1>12

\* Class d is realized when its superclass is.
LEMMA RealizeOne ==
  ASSUME NEW L, NEW R, LayoutsOK(L, R), NEW d \in Class \ R, L[d] # Nil,
         superclass[d] \in R \cup {Nil}, NEW debug
  PROVE  LayoutsOK([L EXCEPT ![d] = Realized(L, d, debug)], R \cup {d})
<1>1. PICK q : q = Realized(L, d, debug)
  OBVIOUS
<1>2. PICK M : M = [L EXCEPT ![d] = q]
  OBVIOUS
<1>3. /\ L \in [Class \cup Pair -> LaidOut \cup {Nil}] /\ R \in SUBSET (Class \cup Pair)
      /\ \A c \in R : superclass[c] \in (R \ constructing) \cup {Nil}
      /\ constructing \in SUBSET (Pair \cap R)
  BY DEF LayoutsOK
<1>4. Nil \notin Class \cup Pair /\ Class \cap Pair = {} /\ super \in [Class -> Class \cup {Nil}]
  BY IvarLayoutAssumption
<1>5. superclass[d] \in Class \cup {Nil} /\ superclass[d] # d
  <2>1. superclass[d] = super[d]
    BY DEF LayoutsOK
  <2> QED BY <1>4, <2>1
<1>6. L[d] \in LaidOut
  BY <1>3
<1>7. q \in LaidOut /\ (superclass[d] # Nil => L[superclass[d]].instanceSize <= q.instanceStart)
  <2>1. CASE superclass[d] = Nil
    BY <1>1, <1>6, <2>1 DEF Realized
  <2>2. CASE superclass[d] # Nil
    <3>1. L[superclass[d]] \in LaidOut
      BY <2>2 DEF LayoutsOK
    <3>2. PICK m \in Nat : m = L[superclass[d]].instanceSize
      BY <3>1 DEF LaidOut, Layout
    <3>3. q = reconcileInstanceVariables(L[d], m, debug)
      BY <1>1, <2>2, <3>2 DEF Realized
    <3>4. q \in LaidOut /\ q.instanceStart >= m
      BY <1>6, <3>3, ReconcileIs
    <3>5. q.instanceStart \in Nat
      BY <3>4 DEF LaidOut, Layout
    <3> QED BY <3>2, <3>4, <3>5
  <2> QED BY <2>1, <2>2
<1>8. M[d] = q /\ \A c \in Class \cup Pair : c # d => M[c] = L[c]
  BY <1>2, <1>3
<1>9. M \in [Class \cup Pair -> LaidOut \cup {Nil}]
  BY <1>2, <1>3, <1>7
<1>10. ASSUME NEW c \in Class, M[c] # Nil, super[c] # Nil PROVE M[super[c]] \in LaidOut
  <2>1. super[c] \in Class
    BY <1>4, <1>10
  <2>2. L[super[c]] \in LaidOut
    <3>1. CASE c = d
      BY <1>10, <3>1 DEF LayoutsOK
    <3>2. CASE c # d
      BY <1>8, <1>10, <3>2 DEF LayoutsOK
    <3> QED BY <3>1, <3>2
  <2>3. CASE super[c] = d
    BY <1>7, <1>8, <2>3
  <2>4. CASE super[c] # d
    BY <1>8, <2>1, <2>2, <2>4
  <2> QED BY <2>3, <2>4
<1>11. ASSUME NEW c \in R \cup {d}
       PROVE  /\ M[c] \in LaidOut /\ superclass[c] \in ((R \cup {d}) \ constructing) \cup {Nil}
              /\ superclass[c] # Nil => M[superclass[c]].instanceSize <= M[c].instanceStart
  <2>1. CASE c = d
    <3>1. superclass[d] \notin constructing
      BY <1>3, <1>4, <1>5
    <3>2. superclass[d] # Nil => M[superclass[d]] = L[superclass[d]]
      BY <1>3, <1>5, <1>8
    <3>3. superclass[d] \in ((R \cup {d}) \ constructing) \cup {Nil}
      BY <3>1
    <3>4. superclass[d] # Nil => M[superclass[d]].instanceSize <= M[d].instanceStart
      BY <1>7, <1>8, <3>2
    <3> QED BY <1>7, <1>8, <2>1, <3>3, <3>4
  <2>2. CASE c \in R
    <3>1. M[c] = L[c] /\ L[c] \in LaidOut
      BY <1>3, <1>8, <2>2 DEF LayoutsOK
    <3>2. superclass[c] \in (R \ constructing) \cup {Nil}
      BY <1>3, <2>2
    <3>3. superclass[c] # Nil => M[superclass[c]] = L[superclass[c]]
      BY <1>3, <1>8, <3>2
    <3>4. superclass[c] # Nil => L[superclass[c]].instanceSize <= L[c].instanceStart
      BY <2>2 DEF LayoutsOK
    <3>5. superclass[c] # Nil => M[superclass[c]].instanceSize <= M[c].instanceStart
      BY <3>1, <3>3, <3>4
    <3> QED BY <3>1, <3>2, <3>5
  <2> QED BY <2>1, <2>2
<1>12. /\ \A c \in Class \ (R \cup {d}) : superclass[c] = super[c]
       /\ superclass \in [Class \cup Pair -> Class \cup Pair \cup {Nil}]
       /\ constructing \in SUBSET (Pair \cap (R \cup {d}))
       /\ R \cup {d} \in SUBSET (Class \cup Pair)
  BY <1>3 DEF LayoutsOK
<1>13. LayoutsOK(M, R \cup {d})
  BY <1>9, <1>10, <1>11, <1>12 DEF LayoutsOK
<1> QED BY <1>1, <1>2, <1>13

-----------------------------------------------------------------------------
(* IvarLayout: realizeClass.                                                   *)

\* What realizeClass leaves for d, by what it has left for the superclass.
Left(before, debug, d) ==
    [layouts |-> [before.layouts EXCEPT ![d] = Realized(before.layouts, d, d \in debug)],
     classes |-> before.classes \cup {d}]

\* The equation of Realizing.
Done(f, debug, d) ==
    IF d = Nil \/ d \in realized THEN [layouts |-> ro, classes |-> realized]
    ELSE Left(f[superclass[d]], debug, d)

\* A solution of the equation of Realizing, on classes and their superclasses.
Solves(f, debug, D) ==
    /\ D \in SUBSET (Class \cup {Nil})
    /\ \A d \in D : d = Nil \/ d \in realized \/ superclass[d] \in D
    /\ \A d \in D : f[d] = Done(f, debug, d)

\* Classes that are not realized have a topmost.
LEMMA Topmost ==
  ASSUME IvarIInv, NEW S \in SUBSET (Class \ realized), S # {}
  PROVE  \E c \in S : superclass[c] \notin S /\ superclass[c] \in Class \cup {Nil}
<1>1. PICK c \in S : super[c] \notin S
  BY S \in SUBSET Class, IvarLayoutAssumption
<1>2. superclass[c] = super[c]
  BY DEF IvarIInv, LayoutsOK
<1>3. super[c] \in Class \cup {Nil}
  BY IvarLayoutAssumption
<1> QED BY <1>1, <1>2, <1>3

\* Two solutions agree where both are.
LEMMA SolutionsAgree ==
  ASSUME IvarIInv, NEW debug, NEW f, NEW D, NEW g, NEW E,
         Solves(f, debug, D), Solves(g, debug, E)
  PROVE  \A d \in D \cap E : f[d] = g[d]
<1> DEFINE S == {d \in D \cap E : f[d] # g[d]}
<1> SUFFICES ASSUME S # {} PROVE FALSE
  OBVIOUS
<1>1. \A d \in S : f[d] = Done(f, debug, d) /\ g[d] = Done(g, debug, d) /\ f[d] # g[d]
  BY DEF Solves
<1>2. \A d \in S : d # Nil /\ d \notin realized /\ d \in Class
  BY <1>1 DEF Done, Solves
<1>3. S \in SUBSET (Class \ realized)
  BY <1>2
<1>4. PICK d \in S : superclass[d] \notin S
  BY <1>3, Topmost
<1>5. superclass[d] \in D \cap E
  BY <1>2 DEF Solves
<1>6. f[superclass[d]] = g[superclass[d]]
  BY <1>4, <1>5
<1> HIDE DEF S
<1> QED BY <1>1, <1>2, <1>6 DEF Done

\* There is a solution for each class.
LEMMA SolutionsExist ==
  ASSUME IvarIInv, NEW debug
  PROVE  \A d \in Class \cup {Nil} : \E D, f : Solves(f, debug, D) /\ d \in D
<1>1. ASSUME NEW d \in Class \cup {Nil}, d = Nil \/ d \in realized
      PROVE  \E D, f : Solves(f, debug, D) /\ d \in D
  <2> DEFINE f == [x \in {d} |-> [layouts |-> ro, classes |-> realized]]
  <2>1. Solves(f, debug, {d})
    BY <1>1 DEF Solves, Done
  <2> HIDE DEF f
  <2> QED BY <2>1
<1> DEFINE S == {d \in Class \ realized : ~ \E D, f : Solves(f, debug, D) /\ d \in D}
<1>2. S = {}
  <2> SUFFICES ASSUME S # {} PROVE FALSE
    OBVIOUS
  <2>1. PICK c \in S : superclass[c] \notin S /\ superclass[c] \in Class \cup {Nil}
    BY S \in SUBSET (Class \ realized), Topmost
  <2>2. c \in Class /\ c \notin realized /\ c # Nil
    BY IvarLayoutAssumption
  <2>3. PICK D, g : Solves(g, debug, D) /\ superclass[c] \in D
    <3>1. CASE superclass[c] = Nil \/ superclass[c] \in realized
      BY <1>1, <2>1, <3>1
    <3>2. CASE superclass[c] # Nil /\ superclass[c] \notin realized
      BY <2>1, <3>2
    <3> QED BY <3>1, <3>2
  <2>4. c \notin D
    BY <2>3
  <2> HIDE DEF S
  <2> DEFINE f == [d \in D \cup {c} |-> IF d = c THEN Left(g[superclass[c]], debug, c) ELSE g[d]]
  <2>5. ASSUME NEW d \in D \cup {c}
        PROVE  /\ d = Nil \/ d \in realized \/ superclass[d] \in D
               /\ f[d] = Done(f, debug, d)
    <3>1. CASE d = c
      <4>1. f[superclass[c]] = g[superclass[c]]
        BY <2>3, <2>4
      <4>2. f[c] = Left(g[superclass[c]], debug, c)
        OBVIOUS
      <4> HIDE DEF f
      <4> QED BY <2>2, <2>3, <3>1, <4>1, <4>2 DEF Done
    <3>2. CASE d # c
      <4>1. d \in D /\ f[d] = g[d]
        BY <3>2
      <4>2. d = Nil \/ d \in realized \/ superclass[d] \in D
        BY <2>3, <4>1 DEF Solves
      <4>3. superclass[d] \in D => f[superclass[d]] = g[superclass[d]]
        BY <2>4
      <4>4. g[d] = Done(g, debug, d)
        BY <2>3, <4>1 DEF Solves
      <4> HIDE DEF f
      <4> QED BY <4>1, <4>2, <4>3, <4>4 DEF Done
    <3> QED BY <3>1, <3>2
  <2> HIDE DEF f
  <2>6. D \cup {c} \in SUBSET (Class \cup {Nil})
    BY <2>2, <2>3 DEF Solves
  <2>7. Solves(f, debug, D \cup {c})
    BY <2>5, <2>6 DEF Solves
  <2> QED BY <2>7 DEF S
<1>3. ASSUME NEW d \in Class \ realized PROVE \E D, f : Solves(f, debug, D) /\ d \in D
  BY <1>2
<1> QED BY <1>1, <1>3

\* Realizing is what its equation says.
LEMMA RealizingIs ==
  ASSUME IvarIInv, NEW debug
  PROVE  \A d \in Class \cup {Nil} :
            Realizing(debug)[d] = Done(Realizing(debug), debug, d)
<1> DEFINE K == Class \cup {Nil}
           Eq(f) == f = [d \in Class \cup {Nil} |->
                            IF d = Nil \/ d \in realized
                            THEN [layouts |-> ro, classes |-> realized]
                            ELSE LET before == f[superclass[d]]
                                     r == Realized(before.layouts, d, d \in debug)
                                 IN  [layouts |-> [before.layouts EXCEPT ![d] = r],
                                      classes |-> before.classes \cup {d}]]
           Of(d) == CHOOSE f : \E D : Solves(f, debug, D) /\ d \in D
           F == [d \in K |-> Of(d)[d]]
           H == CHOOSE f : Eq(f)
<1>1. Realizing(debug) = H
  BY Zenon DEF Realizing
<1>2. \A d \in K : \E D : Solves(Of(d), debug, D) /\ d \in D
  BY SolutionsExist
<1> HIDE DEF Of
<1>3. ASSUME NEW d \in K PROVE F[d] = Done(F, debug, d)
  <2>1. PICK D : Solves(Of(d), debug, D) /\ d \in D
    BY <1>2
  <2>2. Of(d)[d] = Done(Of(d), debug, d)
    BY <2>1 DEF Solves
  <2>3. CASE d = Nil \/ d \in realized
    BY <2>2, <2>3 DEF Done
  <2>4. CASE d # Nil /\ d \notin realized
    <3>1. superclass[d] \in D /\ superclass[d] \in K
      BY <2>1, <2>4 DEF Solves
    <3>2. PICK E : Solves(Of(superclass[d]), debug, E) /\ superclass[d] \in E
      BY <1>2, <3>1
    <3>3. superclass[d] \in D \cap E
      BY <3>1, <3>2
    <3>4. Of(d)[superclass[d]] = F[superclass[d]]
      BY <2>1, <3>1, <3>2, <3>3, SolutionsAgree
    <3>5. F[d] = Of(d)[d]
      BY SMTT(30)
    <3> HIDE DEF F
    <3> QED BY <2>2, <2>4, <3>4, <3>5 DEF Done
  <2> QED BY <2>3, <2>4
<1>4. Eq(F)
  <2>1. F = [d \in K |-> F[d]]
    OBVIOUS
  <2> HIDE DEF F
  <2>2. F = [d \in K |-> Done(F, debug, d)]
    BY <1>3, <2>1, SMTT(30)
  <2> QED BY <2>2 DEF Done, Left
<1>5. Eq(H)
  <2> HIDE DEF F
  <2> QED BY <1>4
<1> HIDE DEF H, F
<1>6. ASSUME NEW d \in K PROVE H[d] = Done(H, debug, d)
  BY <1>5 DEF Done, Left
<1> QED BY <1>1, <1>6

\* What holds when realizeClass returns for d: the invariant; d is realized; a class
\* that is not has the layout it had; and one that is new is an image's, and what
\* its own realization brings has come.
RealizedOK(f, d) ==
    /\ LayoutsOK(f[d].layouts, f[d].classes)
    /\ d # Nil => d \in f[d].classes
    /\ \A e \in (Class \cup Pair) \ f[d].classes : f[d].layouts[e] = ro[e]
    /\ realized \subseteq f[d].classes
    /\ \A e \in f[d].classes \ realized : e \in Class /\ f[e].classes \subseteq f[d].classes

\* A class that is realized is left alone.
LEMMA RealizedAlready ==
  ASSUME IvarIInv, NEW debug, NEW d \in Class \cup {Nil}, d = Nil \/ d \in realized
  PROVE  RealizedOK(Realizing(debug), d) /\ Realizing(debug)[d].classes = realized
<1>1. PICK f : f = Realizing(debug)
  OBVIOUS
<1>2. f[d] = [layouts |-> ro, classes |-> realized]
  BY <1>1, RealizingIs DEF Done
<1>3. f[d].layouts = ro /\ f[d].classes = realized
  BY <1>2
<1> QED BY <1>1, <1>3 DEF RealizedOK, IvarIInv

\* The superclass first, and d is not among what its realization brings.
LEMMA RealizedInTurn ==
  ASSUME IvarIInv, NEW debug
  PROVE  \A d \in Class \ realized : ro[d] # Nil =>
            /\ superclass[d] \in Class \cup {Nil}
            /\ d \notin Realizing(debug)[superclass[d]].classes
            /\ RealizedOK(Realizing(debug), superclass[d])
            /\ RealizedOK(Realizing(debug), d)
<1>1. PICK f : f = Realizing(debug)
  OBVIOUS
<1> DEFINE Claim(d) == /\ superclass[d] \in Class \cup {Nil}
                       /\ d \notin f[superclass[d]].classes
                       /\ RealizedOK(f, superclass[d]) /\ RealizedOK(f, d)
           S == {d \in Class \ realized : ro[d] # Nil /\ ~ Claim(d)}
<1> SUFFICES ASSUME S # {} PROVE FALSE
  BY <1>1
<1>2. PICK c \in S : superclass[c] \notin S /\ superclass[c] \in Class \cup {Nil}
  BY S \in SUBSET (Class \ realized), Topmost
<1>3. c \in Class \ realized /\ ro[c] # Nil /\ ~ Claim(c)
  BY <1>2
<1>4. PICK s \in Class \cup {Nil} : s = superclass[c]
  BY <1>2
<1>5. Nil \notin Class /\ c # s /\ Nil \notin LaidOut
  <2>1. \E x \in {c} : superclass[x] \notin {c}
    BY <1>3, {c} \in SUBSET (Class \ realized), Topmost
  <2>2. Nil \notin Class /\ Nil \notin LaidOut
    BY IvarLayoutAssumption DEF LaidOut
  <2> QED BY <1>4, <2>1, <2>2
<1>6. s = Nil \/ s \in realized \/ (s \in Class \ realized /\ Claim(s))
  <2>1. ASSUME s \in Class \ realized PROVE ro[s] # Nil
    <3>1. superclass[c] = super[c]
      BY <1>3 DEF IvarIInv, LayoutsOK
    <3>2. ro[s] \in LaidOut
      BY <1>3, <1>4, <1>5, <2>1, <3>1 DEF IvarIInv, LayoutsOK
    <3> QED BY <1>5, <3>2
  <2> QED BY <1>2, <1>4, <2>1
<1> HIDE DEF S
<1>7. RealizedOK(f, s)
  BY <1>1, <1>6, RealizedAlready
<1>8. f[c] = Left(f[s], debug, c)
  BY <1>1, <1>3, <1>4, <1>5, RealizingIs DEF Done
<1>9. PICK L : L = f[s].layouts
  OBVIOUS
<1>10. PICK R : R = f[s].classes
  OBVIOUS
<1>11. /\ f[c].layouts = [L EXCEPT ![c] = Realized(L, c, c \in debug)]
       /\ f[c].classes = R \cup {c}
  BY <1>8, <1>9, <1>10 DEF Left
<1>12. c \notin R
  <2>1. CASE s = Nil \/ s \in realized
    <3>1. R = realized
      BY <1>1, <1>10, <2>1, RealizedAlready
    <3> QED BY <1>3, <3>1
  <2>2. CASE s # Nil /\ s \notin realized
    <3>1. PICK t \in Class \cup {Nil} : t = superclass[s]
      BY <1>6, <2>2
    <3>2. s \notin f[t].classes /\ RealizedOK(f, t)
      BY <1>6, <2>2, <3>1
    <3>3. f[s] = Left(f[t], debug, s)
      BY <1>1, <2>2, <3>1, RealizingIs DEF Done
    <3>4. R = f[t].classes \cup {s}
      BY <1>10, <3>3 DEF Left
    <3>5. ASSUME c \in R PROVE FALSE
      <4>1. c \in f[t].classes \ realized
        BY <1>3, <1>5, <3>4, <3>5
      <4>2. f[c].classes \subseteq f[t].classes
        BY <3>2, <4>1 DEF RealizedOK
      <4>3. s \in f[c].classes
        BY <1>11, <3>4
      <4> QED BY <3>2, <4>2, <4>3
    <3> QED BY <3>5
  <2> QED BY <2>1, <2>2
<1>13. /\ LayoutsOK(L, R) /\ (s # Nil => s \in R) /\ realized \subseteq R
       /\ \A e \in (Class \cup Pair) \ R : L[e] = ro[e]
       /\ \A e \in R \ realized : e \in Class /\ f[e].classes \subseteq R
  BY <1>7, <1>9, <1>10 DEF RealizedOK
<1>14. PICK M : M = f[c].layouts
  OBVIOUS
<1>15. LayoutsOK(M, R \cup {c})
  <2>1. L[c] # Nil
    BY <1>3, <1>12, <1>13
  <2>2. c \in Class \ R /\ superclass[c] \in R \cup {Nil}
    BY <1>3, <1>4, <1>12, <1>13
  <2>3. LayoutsOK([L EXCEPT ![c] = Realized(L, c, c \in debug)], R \cup {c})
    BY <1>13, <2>1, <2>2, RealizeOne
  <2> QED BY <1>11, <1>14, <2>3
<1>16. \A e \in (Class \cup Pair) \ (R \cup {c}) : M[e] = ro[e]
  <2>1. L \in [Class \cup Pair -> LaidOut \cup {Nil}]
    BY <1>13 DEF LayoutsOK
  <2>2. \A e \in (Class \cup Pair) \ (R \cup {c}) : M[e] = L[e]
    BY <1>11, <1>14, <2>1
  <2> QED BY <1>13, <2>2
<1>17. \A e \in (R \cup {c}) \ realized : e \in Class /\ f[e].classes \subseteq R \cup {c}
  BY <1>3, <1>11, <1>13
<1>18. RealizedOK(f, c)
  <2>1. realized \subseteq R \cup {c} /\ c \in R \cup {c}
    BY <1>13
  <2> QED BY <1>11, <1>14, <1>15, <1>16, <1>17, <2>1 DEF RealizedOK
<1> QED BY <1>3, <1>4, <1>7, <1>10, <1>12, <1>18

\* realizeClass keeps the invariant.
LEMMA RealizeStep ==
  ASSUME IvarIInv, NEW c \in Class, realizeClass(c)
  PROVE  IvarIInv'
<1>1. PICK debug : ro' = Realizing(debug)[c].layouts /\ realized' = Realizing(debug)[c].classes
  BY DEF realizeClass
<1>2. c \notin realized /\ ro[c] # Nil /\ UNCHANGED <<superclass, constructing>>
  BY DEF realizeClass
<1>3. RealizedOK(Realizing(debug), c)
  BY <1>2, RealizedInTurn
<1>4. PICK L : L = ro'
  OBVIOUS
<1>5. PICK R : R = realized'
  OBVIOUS
<1>6. LayoutsOK(L, R)
  BY <1>1, <1>3, <1>4, <1>5 DEF RealizedOK
<1> QED BY <1>2, <1>4, <1>5, <1>6 DEF IvarIInv, LayoutsOK

-----------------------------------------------------------------------------
(* IvarLayout: the other calls.                                                *)

\* What the constants and the invariant say of the types.
LEMMA LayoutTypes ==
  ASSUME IvarIInv
  PROVE  /\ ro \in [Class \cup Pair -> LaidOut \cup {Nil}]
         /\ realized \in SUBSET (Class \cup Pair) /\ constructing \in SUBSET (Pair \cap realized)
         /\ superclass \in [Class \cup Pair -> Class \cup Pair \cup {Nil}]
         /\ super \in [Class -> Class \cup {Nil}]
         /\ Nil \notin Class \cup Pair /\ Nil \notin LaidOut /\ Class \cap Pair = {}
         /\ \A c \in realized : ro[c] \in LaidOut /\ ro[c] # Nil
         /\ \A r \in LaidOut : r.instanceStart \in Nat /\ r.instanceSize \in Nat
<1>1. Nil \notin Class \cup Pair /\ Nil \notin LaidOut /\ Class \cap Pair = {}
  BY IvarLayoutAssumption DEF LaidOut
<1>2. \A r \in LaidOut : r.instanceStart \in Nat /\ r.instanceSize \in Nat
  BY DEF LaidOut, Layout
<1>3. \A c \in realized : ro[c] \in LaidOut
  BY DEF IvarIInv, LayoutsOK
<1>4. super \in [Class -> Class \cup {Nil}]
  BY IvarLayoutAssumption
<1> QED BY <1>1, <1>2, <1>3, <1>4 DEF IvarIInv, LayoutsOK

\* An image brings a class.
LEMMA MapStep ==
  ASSUME IvarIInv, NEW c \in Class, MapClass(c)
  PROVE  IvarIInv'
<1>1. PICK r \in LaidOut : ro' = [ro EXCEPT ![c] = r]
  BY EmittedIs DEF MapClass
<1>2. /\ ro[c] = Nil /\ super[c] \in {d \in Class : ro[d] # Nil} \cup {Nil}
      /\ UNCHANGED <<superclass, realized, constructing>>
  BY DEF MapClass
<1>3. c \notin realized
  BY <1>2, LayoutTypes
<1>4. ro'[c] = r /\ \A d \in Class \cup Pair : d # c => ro'[d] = ro[d]
  BY <1>1, LayoutTypes
<1>5. ro' \in [Class \cup Pair -> LaidOut \cup {Nil}]
  BY <1>1, LayoutTypes
<1>6. ASSUME NEW d \in Class, ro'[d] # Nil, super[d] # Nil PROVE ro'[super[d]] \in LaidOut
  <2>1. super[d] \in Class
    BY <1>6, LayoutTypes
  <2>2. CASE super[d] = c
    BY <1>4, <2>2
  <2>3. CASE super[d] # c
    <3>1. ro[super[d]] # Nil
      <4>1. CASE d = c
        BY <1>2, <1>6, <4>1
      <4>2. CASE d # c
        <5>1. ro[d] # Nil
          BY <1>4, <1>6, <4>2
        <5>2. ro[super[d]] \in LaidOut
          BY <1>6, <5>1 DEF IvarIInv, LayoutsOK
        <5> QED BY <5>2, LayoutTypes
      <4> QED BY <4>1, <4>2
    <3> QED BY <1>4, <2>1, <2>3, <3>1, LayoutTypes
  <2> QED BY <2>2, <2>3
<1>7. ASSUME NEW d \in realized
      PROVE  /\ ro'[d] \in LaidOut /\ superclass[d] \in (realized \ constructing) \cup {Nil}
             /\ superclass[d] # Nil => ro'[superclass[d]].instanceSize <= ro'[d].instanceStart
  <2>1. superclass[d] \in (realized \ constructing) \cup {Nil}
    BY DEF IvarIInv, LayoutsOK
  <2>2. ro'[d] = ro[d] /\ (superclass[d] # Nil => ro'[superclass[d]] = ro[superclass[d]])
    BY <1>3, <1>4, <2>1, LayoutTypes
  <2> QED BY <2>1, <2>2 DEF IvarIInv, LayoutsOK
<1>8. \A d \in Class \ realized : superclass[d] = super[d]
  BY DEF IvarIInv, LayoutsOK
<1> QED BY <1>2, <1>5, <1>6, <1>7, <1>8, LayoutTypes DEF IvarIInv, LayoutsOK

\* A pair is allocated.
LEMMA AllocatePairStep ==
  ASSUME IvarIInv, NEW p \in Pair, NEW s, objc_allocateClassPair(p, s)
  PROVE  IvarIInv'
<1>1. /\ ro[p] = Nil /\ s \in (realized \ constructing) \cup {Nil}
      /\ ro' = [ro EXCEPT ![p] = NewPair(s)]
      /\ superclass' = [superclass EXCEPT ![p] = s]
      /\ realized' = realized \cup {p} /\ constructing' = constructing \cup {p}
  BY DEF objc_allocateClassPair
<1>2. p \notin realized /\ p \notin Class /\ p # s
  BY <1>1, LayoutTypes
<1>3. PICK r : r = NewPair(s)
  OBVIOUS
<1>4. PICK start \in Nat : start = IF s = Nil THEN 0 ELSE ro[s].instanceSize
  <2>1. s # Nil => ro[s].instanceSize \in Nat
    BY <1>1, LayoutTypes
  <2> QED BY <2>1
<1>5. PICK size \in Nat : size = (IF s = Nil THEN WORD ELSE start) /\ start <= size
  BY <1>4, IvarLayoutAssumption
<1>6. r = [instanceStart |-> start, instanceSize |-> size, ivars |-> <<>>]
  BY <1>3, <1>4, <1>5 DEF NewPair
<1>7. r \in LaidOut /\ r.instanceStart = start
  <2>1. <<>> \in Seq(PlacedIvar) /\ Len(<<>>) = 0
    BY EmptySeq
  <2>2. /\ r \in Layout /\ r.instanceStart = start /\ r.instanceSize = size
        /\ Len(r.ivars) = 0
    BY <1>6, <2>1 DEF Layout
  <2> QED BY <1>5, <2>2 DEF LaidOut
<1>8. ro'[p] = r /\ \A d \in Class \cup Pair : d # p => ro'[d] = ro[d]
  BY <1>1, <1>3, LayoutTypes
<1>9. superclass'[p] = s /\ \A d \in Class \cup Pair : d # p => superclass'[d] = superclass[d]
  BY <1>1, LayoutTypes
<1>10. /\ ro' \in [Class \cup Pair -> LaidOut \cup {Nil}]
       /\ superclass' \in [Class \cup Pair -> Class \cup Pair \cup {Nil}]
       /\ realized' \in SUBSET (Class \cup Pair)
       /\ constructing' \in SUBSET (Pair \cap realized')
  <2>1. ro' \in [Class \cup Pair -> LaidOut \cup {Nil}]
    BY <1>1, <1>3, <1>7, LayoutTypes
  <2>2. s \in Class \cup Pair \cup {Nil}
    BY <1>1, LayoutTypes
  <2>3. superclass' \in [Class \cup Pair -> Class \cup Pair \cup {Nil}]
    BY <1>1, <2>2, LayoutTypes
  <2>4. realized' \in SUBSET (Class \cup Pair) /\ constructing' \in SUBSET (Pair \cap realized')
    BY <1>1, LayoutTypes
  <2> QED BY <2>1, <2>3, <2>4
<1>11. ASSUME NEW d \in Class, ro'[d] # Nil, super[d] # Nil PROVE ro'[super[d]] \in LaidOut
  <2>1. super[d] \in Class /\ super[d] # p /\ d # p
    BY <1>2, <1>11, LayoutTypes
  <2>2. ro[super[d]] \in LaidOut
    BY <1>8, <1>11, <2>1 DEF IvarIInv, LayoutsOK
  <2> QED BY <1>8, <2>1, <2>2
<1>12. ASSUME NEW d \in Class \ realized' PROVE superclass'[d] = super[d]
  <2>1. d \in Class \ realized /\ d # p
    BY <1>1, <1>2
  <2> QED BY <1>9, <2>1 DEF IvarIInv, LayoutsOK
<1>13. ASSUME NEW d \in realized'
       PROVE  /\ ro'[d] \in LaidOut /\ superclass'[d] \in (realized' \ constructing') \cup {Nil}
              /\ superclass'[d] # Nil => ro'[superclass'[d]].instanceSize <= ro'[d].instanceStart
  <2>1. CASE d = p
    <3>1. s \in (realized' \ constructing') \cup {Nil}
      BY <1>1, <1>2
    <3>2. s # Nil => ro'[s] = ro[s]
      BY <1>1, <1>2, <1>8, LayoutTypes
    <3>3. s # Nil => ro'[s].instanceSize <= ro'[p].instanceStart
      BY <1>4, <1>7, <1>8, <3>2
    <3> QED BY <1>7, <1>8, <1>9, <2>1, <3>1, <3>3
  <2>2. CASE d # p
    <3>1. d \in realized /\ d \in Class \cup Pair
      BY <1>1, <2>2, LayoutTypes
    <3>2. superclass[d] \in (realized \ constructing) \cup {Nil}
      BY <3>1 DEF IvarIInv, LayoutsOK
    <3>3. superclass'[d] = superclass[d]
      BY <1>9, <2>2, <3>1
    <3>4. superclass[d] \in (realized' \ constructing') \cup {Nil}
      BY <1>1, <1>2, <3>2
    <3>5. ro'[d] = ro[d] /\ (superclass[d] # Nil => ro'[superclass[d]] = ro[superclass[d]])
      BY <1>2, <1>8, <2>2, <3>1, <3>2, LayoutTypes
    <3>6. /\ ro[d] \in LaidOut
          /\ superclass[d] # Nil => ro[superclass[d]].instanceSize <= ro[d].instanceStart
      BY <3>1 DEF IvarIInv, LayoutsOK
    <3> QED BY <3>3, <3>4, <3>5, <3>6
  <2> QED BY <2>1, <2>2
<1> QED BY <1>10, <1>11, <1>12, <1>13 DEF IvarIInv, LayoutsOK

\* An ivar is added to a pair under construction, which has no subclasses.
LEMMA AddIvarStep ==
  ASSUME IvarIInv, NEW p \in Pair, NEW x \in Ivar, class_addIvar(p, x)
  PROVE  IvarIInv'
<1>1. /\ p \in constructing /\ ro' = [ro EXCEPT ![p] = AddIvar(@, x)]
      /\ UNCHANGED <<superclass, realized, constructing>>
  BY DEF class_addIvar
<1>2. p \in realized /\ p \in Class \cup Pair /\ p \notin Class /\ ro[p] \in LaidOut
  BY <1>1, LayoutTypes
<1>3. PICK r : r = AddIvar(ro[p], x)
  OBVIOUS
<1>4. r \in LaidOut /\ r.instanceStart = ro[p].instanceStart
  BY <1>2, <1>3, AddIvarIs, AlignmentIs
<1>5. ro'[p] = r /\ \A d \in Class \cup Pair : d # p => ro'[d] = ro[d]
  BY <1>1, <1>3, LayoutTypes
<1>6. ro' \in [Class \cup Pair -> LaidOut \cup {Nil}]
  BY <1>1, <1>3, <1>4, LayoutTypes
<1>7. ASSUME NEW d \in Class, ro'[d] # Nil, super[d] # Nil PROVE ro'[super[d]] \in LaidOut
  <2>1. super[d] \in Class /\ super[d] # p /\ d # p
    BY <1>2, <1>7, LayoutTypes
  <2>2. ro[super[d]] \in LaidOut
    BY <1>5, <1>7, <2>1 DEF IvarIInv, LayoutsOK
  <2> QED BY <1>5, <2>1, <2>2
<1>8. ASSUME NEW d \in realized
      PROVE  /\ ro'[d] \in LaidOut /\ superclass[d] \in (realized \ constructing) \cup {Nil}
             /\ superclass[d] # Nil => ro'[superclass[d]].instanceSize <= ro'[d].instanceStart
  <2>1. superclass[d] \in (realized \ constructing) \cup {Nil}
    BY DEF IvarIInv, LayoutsOK
  <2>2. ro'[d] \in LaidOut /\ ro'[d].instanceStart = ro[d].instanceStart
    BY <1>4, <1>5, LayoutTypes
  <2>3. superclass[d] # Nil => ro'[superclass[d]] = ro[superclass[d]]
    BY <1>1, <1>5, <2>1, LayoutTypes
  <2>4. superclass[d] # Nil => ro[superclass[d]].instanceSize <= ro[d].instanceStart
    BY DEF IvarIInv, LayoutsOK
  <2> QED BY <2>1, <2>2, <2>3, <2>4
<1>9. \A d \in Class \ realized : superclass[d] = super[d]
  BY DEF IvarIInv, LayoutsOK
<1> QED BY <1>1, <1>6, <1>7, <1>8, <1>9, LayoutTypes DEF IvarIInv, LayoutsOK

\* A class is moved below one that it fits under.
LEMMA SetSuperclassStep ==
  ASSUME IvarIInv, ~ MoveUnderBigger, NEW c, NEW s, class_setSuperclass(c, s)
  PROVE  IvarIInv'
<1>1. /\ c \in realized \ constructing /\ s \in realized \ constructing
      /\ ro[s].instanceSize <= ro[c].instanceStart
      /\ superclass' = [superclass EXCEPT ![c] = s]
      /\ UNCHANGED <<ro, realized, constructing>>
  BY DEF class_setSuperclass
<1>2. c \in Class \cup Pair /\ s \in Class \cup Pair
  BY <1>1, LayoutTypes
<1>3. superclass'[c] = s /\ \A d \in Class \cup Pair : d # c => superclass'[d] = superclass[d]
  BY <1>1, <1>2, LayoutTypes
<1>4. superclass' \in [Class \cup Pair -> Class \cup Pair \cup {Nil}]
  BY <1>1, <1>2, LayoutTypes
<1>5. ASSUME NEW d \in realized
      PROVE  /\ ro[d] \in LaidOut /\ superclass'[d] \in (realized \ constructing) \cup {Nil}
             /\ superclass'[d] # Nil => ro[superclass'[d]].instanceSize <= ro[d].instanceStart
  <2>1. CASE d = c
    BY <1>1, <1>3, <2>1, LayoutTypes
  <2>2. CASE d # c
    <3>1. superclass'[d] = superclass[d]
      BY <1>3, <2>2, LayoutTypes
    <3> QED BY <3>1 DEF IvarIInv, LayoutsOK
  <2> QED BY <2>1, <2>2
<1>6. ASSUME NEW d \in Class \ realized PROVE superclass'[d] = super[d]
  <2>1. d # c /\ d \in Class \cup Pair
    BY <1>1
  <2> QED BY <1>3, <2>1 DEF IvarIInv, LayoutsOK
<1>7. \A d \in Class : ro[d] # Nil /\ super[d] # Nil => ro[super[d]] \in LaidOut
  BY DEF IvarIInv, LayoutsOK
<1> QED BY <1>1, <1>4, <1>5, <1>6, <1>7, LayoutTypes DEF IvarIInv, LayoutsOK

\* In an instance no two ivars share a byte, each is aligned, and all lie within the
\* size that is allocated, for any hierarchy, ivars and sizes of the superclasses the
\* compiler saw, and in whatever order classes are mapped, realized, made and moved,
\* as long as none is moved below a class it does not fit: realizeClass,
\* reconcileInstanceVariables, moveIvars, class_addIvar, class_setSuperclass.
THEOREM IvarsStayApart ==
  ASSUME ~ MoveUnderBigger
  PROVE  IvarSpec => []IvarsApart
<1>1. IvarInit => IvarIInv
  <2> SUFFICES ASSUME IvarInit PROVE IvarIInv
    OBVIOUS
  <2>1. /\ ro = [c \in Class \cup Pair |-> Nil] /\ realized = {} /\ constructing = {}
        /\ superclass = [c \in Class \cup Pair |-> IF c \in Class THEN super[c] ELSE Nil]
    BY DEF IvarInit
  <2>2. super \in [Class -> Class \cup {Nil}]
    BY IvarLayoutAssumption
  <2> QED BY <2>1, <2>2 DEF IvarIInv, LayoutsOK
<1>2. IvarIInv /\ [IvarNext]_ivarVars => IvarIInv'
  <2> SUFFICES ASSUME IvarIInv, [IvarNext]_ivarVars PROVE IvarIInv'
    OBVIOUS
  <2>1. ASSUME NEW c \in Class, MapClass(c) PROVE IvarIInv'
    BY <2>1, MapStep
  <2>2. ASSUME NEW c \in Class, realizeClass(c) PROVE IvarIInv'
    BY <2>2, RealizeStep
  <2>3. ASSUME NEW p \in Pair, NEW s \in Class \cup Pair \cup {Nil}, objc_allocateClassPair(p, s)
        PROVE  IvarIInv'
    BY <2>3, AllocatePairStep
  <2>4. ASSUME NEW p \in Pair, NEW x \in Ivar, class_addIvar(p, x) PROVE IvarIInv'
    BY <2>4, AddIvarStep
  <2>5. ASSUME NEW p \in Pair, objc_registerClassPair(p) PROVE IvarIInv'
    <3>1. constructing' = constructing \ {p} /\ UNCHANGED <<ro, superclass, realized>>
      BY <2>5 DEF objc_registerClassPair
    <3> QED BY <3>1 DEF IvarIInv, LayoutsOK
  <2>6. ASSUME NEW c \in Class \cup Pair, NEW s \in Class \cup Pair, class_setSuperclass(c, s)
        PROVE  IvarIInv'
    BY <2>6, SetSuperclassStep
  <2>7. CASE UNCHANGED ivarVars
    BY <2>7 DEF ivarVars, IvarIInv, LayoutsOK
  <2> QED BY <2>1, <2>2, <2>3, <2>4, <2>5, <2>6, <2>7 DEF IvarNext
<1> QED BY <1>1, <1>2, LayoutsMean, PTL DEF IvarSpec
=============================================================================
