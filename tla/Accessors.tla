------------------------------ MODULE Accessors ------------------------------
(***************************************************************************)
(* The property accessors of Accessors.subproj/objc-accessors.mm without   *)
(* garbage collection: objc_getProperty, objc_setProperty and its          *)
(* variants, objc_copyStruct and objc_copyCppObjectAtomic.                 *)
(*                                                                         *)
(* An atomic accessor takes a spin lock out of an array, by a hash of the  *)
(* address, so that different properties may share one.  A structure copy  *)
(* takes the locks of both its ends.                                       *)
(*                                                                         *)
(* Threads use only objects they hold a reference to, and a property that  *)
(* is not atomic is used by one thread at a time.                          *)
(***************************************************************************)
EXTENDS Integers, FiniteSets, Sequences, Functions

CONSTANTS
    Thread, Obj, NULL,
    Slot, NonAtomic,    \* the properties that hold objects; those not atomic
    Struct,             \* the addresses of structures of two words
    GOODHASH,           \* the lock of each slot and structure, by index
    Calls               \* bound: calls of all threads together

ASSUME AccessorsAssumption ==
    /\ IsFiniteSet(Thread) /\ IsFiniteSet(Slot)
    /\ NULL \notin Thread \cup Obj \cup Slot \cup Struct
    /\ NonAtomic \subseteq Slot
    /\ GOODHASH \in [Slot \cup Struct -> Nat]
    /\ Calls \in Nat

LockIndex == {GOODHASH[a] : a \in Slot \cup Struct}

VARIABLES
    slot,               \* per property: the object it holds, or NULL
    struct,             \* per structure: its two words
    PropertyLocks,      \* the holders of the locks, or NULL
    StructLocks,
    rc, freed,          \* reference count; the objects freed
    held,               \* references each thread holds to each object
    pc, at, src, value, \* where each thread is and with what: the slot or
                        \* destination, the source, the object
    left                \* calls left

vars == <<slot, struct, PropertyLocks, StructLocks, rc, freed, held,
          pc, at, src, value, left>>
objects == <<slot, PropertyLocks, rc, freed, held>>

\* Every object has one holder; the properties are empty.
Init ==
    /\ slot = [s \in Slot |-> NULL]
    /\ struct = [d \in Struct |-> <<d, d>>]
    /\ PropertyLocks = [n \in LockIndex |-> NULL]
    /\ StructLocks = [n \in LockIndex |-> NULL]
    /\ \E holder \in [Obj -> Thread] :
         /\ rc = [o \in Obj |-> 1]
         /\ held = [t \in Thread |-> [o \in Obj |-> IF holder[o] = t THEN 1 ELSE 0]]
    /\ freed = {}
    /\ pc = [t \in Thread |-> "idle"]
    /\ at = [t \in Thread |-> NULL]
    /\ src = [t \in Thread |-> NULL]
    /\ value = [t \in Thread |-> NULL]
    /\ left = Calls

Goto(t, place) == pc' = [pc EXCEPT ![t] = place]

Begin(t, a, o) ==
    /\ pc[t] = "idle" /\ left > 0
    /\ left' = left - 1
    /\ at' = [at EXCEPT ![t] = a]
    /\ value' = [value EXCEPT ![t] = o]

End(t) ==
    /\ Goto(t, "idle")
    /\ at' = [at EXCEPT ![t] = NULL]
    /\ value' = [value EXCEPT ![t] = NULL]
    /\ src' = [src EXCEPT ![t] = NULL]

Exclusive(t, s) == s \in NonAtomic => \A u \in Thread \ {t} : at[u] # s

\* Mutant: the setter swaps without the lock.
SetterUnlocked(s) == FALSE

\* Whether an accessor of s takes the lock.
Atomic(s) == s \notin NonAtomic

-----------------------------------------------------------------------------
(* Properties that hold objects.                                               *)

\* objc_getProperty of a property that is not atomic returns the bare pointer.
GetNonAtomic(t, s) ==
    /\ ~Atomic(s) /\ pc[t] = "idle" /\ left > 0 /\ Exclusive(t, s)
    /\ left' = left - 1
    /\ UNCHANGED <<objects, struct, StructLocks, pc, at, src, value>>

\* objc_getProperty: lock, read and retain, unlock, autorelease.
GetLock(t, s) ==
    /\ Begin(t, s, slot[s]) /\ Atomic(s) /\ PropertyLocks[GOODHASH[s]] = NULL
    /\ PropertyLocks' = [PropertyLocks EXCEPT ![GOODHASH[s]] = t]
    /\ Goto(t, "get")
    /\ UNCHANGED <<slot, struct, StructLocks, rc, freed, held, src>>

\* The caller owns what the getter retained for as long as its pool lives.
GetRetain(t) ==
    /\ pc[t] = "get"
    /\ LET o == value[t] IN
       IF o = NULL THEN UNCHANGED <<rc, held>>
       ELSE /\ rc' = [rc EXCEPT ![o] = @ + 1]
            /\ held' = [held EXCEPT ![t][o] = @ + 1]
    /\ PropertyLocks' = [PropertyLocks EXCEPT ![GOODHASH[at[t]]] = NULL]
    /\ End(t)
    /\ UNCHANGED <<slot, struct, StructLocks, freed, left>>

Retained(o) == IF o = NULL THEN rc ELSE [rc EXCEPT ![o] = @ + 1]

\* The setters: copy, which may return the object itself, or retain unless the
\* property holds the value already, a read without the lock.
SetBegin(t, s, o, copy) ==
    /\ o # NULL => held[t][o] > 0
    /\ Exclusive(t, s)
    /\ Begin(t, s, o)
    /\ IF ~copy /\ slot[s] = o
         THEN Goto(t, "done") /\ UNCHANGED rc
         ELSE Goto(t, "set") /\ rc' = Retained(o)
    /\ UNCHANGED <<slot, struct, PropertyLocks, StructLocks, freed, held, src>>

\* The old value is read, then the new one written, under the lock.
SetRead(t) ==
    /\ pc[t] = "set"
    /\ LET s == at[t] IN
       /\ IF Atomic(s)
            THEN /\ PropertyLocks[GOODHASH[s]] = NULL
                 /\ PropertyLocks' = [PropertyLocks EXCEPT ![GOODHASH[s]] = t]
            ELSE UNCHANGED PropertyLocks
       /\ src' = [src EXCEPT ![t] = slot[s]]
    /\ Goto(t, "swap")
    /\ UNCHANGED <<slot, struct, StructLocks, rc, freed, held, at, value, left>>

SetWrite(t) ==
    /\ pc[t] = "swap"
    /\ slot' = [slot EXCEPT ![at[t]] = value[t]]
    /\ PropertyLocks' = IF Atomic(at[t])
                          THEN [PropertyLocks EXCEPT ![GOODHASH[at[t]]] = NULL]
                          ELSE PropertyLocks
    /\ Goto(t, "release")
    /\ UNCHANGED <<struct, StructLocks, rc, freed, held, at, src, value, left>>

\* -release: the object is deallocated with its last reference (the count itself is
\* SideTable's).
ReleaseObject(o) ==
    /\ rc' = [rc EXCEPT ![o] = @ - 1]
    /\ freed' = IF rc[o] = 1 THEN freed \cup {o} ELSE freed

\* The old value is released outside the lock.
SetRelease(t) ==
    /\ pc[t] = "release"
    /\ IF src[t] = NULL THEN UNCHANGED <<rc, freed>> ELSE ReleaseObject(src[t])
    /\ End(t)
    /\ UNCHANGED <<slot, struct, PropertyLocks, StructLocks, held, left>>

SetSame(t) ==
    /\ pc[t] = "done"
    /\ End(t)
    /\ UNCHANGED <<objects, struct, StructLocks, left>>

Drop(t, o) ==
    /\ pc[t] = "idle" /\ left > 0 /\ held[t][o] > 0
    /\ left' = left - 1
    /\ held' = [held EXCEPT ![t][o] = @ - 1]
    /\ ReleaseObject(o)
    /\ UNCHANGED <<slot, struct, PropertyLocks, StructLocks, pc, at, src, value>>

-----------------------------------------------------------------------------
(* Structures.                                                                 *)

\* Mutant: the source's lock, then the destination's, whatever their order.
SourceFirst(s, d) ==
    IF GOODHASH[s] = GOODHASH[d] THEN <<GOODHASH[s]>> ELSE <<GOODHASH[s], GOODHASH[d]>>

\* Mutant: only the source is locked.
OnlySource(s, d) == <<GOODHASH[s]>>

\* lockfirst and locksecond: "order the locks by address so that we don't
\* deadlock"; one lock if they are the same.
LockOrder(s, d) ==
    LET a == GOODHASH[s]
        b == GOODHASH[d]
    IN IF a = b THEN <<a>> ELSE IF a < b THEN <<a, b>> ELSE <<b, a>>

Locks(t) == LockOrder(src[t], at[t])

\* objc_copyStruct(d, s) of an atomic property and objc_copyCppObjectAtomic(d, s).
\* They have an array of locks each; a call uses one of them, so that the index of a
\* structure may stand for a lock in either.  A property that is not atomic is copied
\* without a lock by objc_copyStruct, and may be torn: it is left out.
CopyBegin(t, d, s) ==
    /\ d # s /\ Begin(t, d, NULL)
    /\ src' = [src EXCEPT ![t] = s]
    /\ Goto(t, "lock1")
    /\ UNCHANGED <<objects, struct, StructLocks>>

CopyLock(t, n) ==
    /\ pc[t] = IF n = 1 THEN "lock1" ELSE "lock2"
    /\ StructLocks[Locks(t)[n]] = NULL
    /\ StructLocks' = [StructLocks EXCEPT ![Locks(t)[n]] = t]
    /\ Goto(t, IF n < Len(Locks(t)) THEN "lock2" ELSE "copy1")
    /\ UNCHANGED <<objects, struct, at, src, value, left>>

\* memmove, a word at a time.
CopyWord(t, n) ==
    /\ pc[t] = IF n = 1 THEN "copy1" ELSE "copy2"
    /\ struct' = [struct EXCEPT ![at[t]][n] = struct[src[t]][n]]
    /\ Goto(t, IF n = 1 THEN "copy2" ELSE "unlock1")
    /\ UNCHANGED <<objects, StructLocks, at, src, value, left>>

CopyUnlock(t, n) ==
    /\ pc[t] = IF n = 1 THEN "unlock1" ELSE "unlock2"
    /\ StructLocks' = [StructLocks EXCEPT ![Locks(t)[n]] = NULL]
    /\ IF n < Len(Locks(t)) THEN Goto(t, "unlock2") /\ UNCHANGED <<at, src, value>>
                            ELSE End(t)
    /\ UNCHANGED <<objects, struct, left>>

Step(t) ==
    \/ GetRetain(t) \/ SetRead(t) \/ SetWrite(t) \/ SetRelease(t) \/ SetSame(t)
    \/ \E n \in {1, 2} : CopyLock(t, n) \/ CopyWord(t, n) \/ CopyUnlock(t, n)

Next ==
    \E t \in Thread :
        \/ \E s \in Slot : GetNonAtomic(t, s) \/ GetLock(t, s)
        \/ \E s \in Slot, o \in Obj \cup {NULL}, copy \in BOOLEAN : SetBegin(t, s, o, copy)
        \/ \E o \in Obj : Drop(t, o)
        \/ \E d, s \in Struct : CopyBegin(t, d, s)
        \/ Step(t)

Spec == Init /\ [][Next]_vars

\* A thread inside an accessor keeps running; the locks are not fair, but the
\* bound on the calls leaves nobody to lose them to for ever.
Fairness == \A t \in Thread : WF_vars(Step(t))

FairSpec == Spec /\ Fairness
-----------------------------------------------------------------------------
TypeOK ==
    /\ slot \in [Slot -> Obj \cup {NULL}]
    /\ struct \in [Struct -> Struct \X Struct]
    /\ PropertyLocks \in [LockIndex -> Thread \cup {NULL}]
    /\ StructLocks \in [LockIndex -> Thread \cup {NULL}]
    /\ rc \in [Obj -> Nat] /\ freed \subseteq Obj
    /\ held \in [Thread -> [Obj -> Nat]]
    /\ pc \in [Thread -> {"idle", "get", "set", "swap", "release", "done",
                          "lock1", "lock2", "copy1", "copy2", "unlock1", "unlock2"}]

\* The references to an object are exactly those of threads, of properties and of
\* setters on their way in or out: no setter loses or repeats one.
RefcountExact ==
    \A o \in Obj :
        rc[o] = SumFunction([t \in Thread |-> held[t][o]])
              + Cardinality({s \in Slot : slot[s] = o})
              + Cardinality({t \in Thread : pc[t] \in {"set", "swap"} /\ value[t] = o})
              + Cardinality({t \in Thread : pc[t] = "release" /\ src[t] = o})

\* An atomic getter never retains an object that has been freed.
GetterRetainsLive ==
    \A t \in Thread : pc[t] = "get" /\ value[t] # NULL => value[t] \notin freed

\* A structure nobody is writing is never half of one value and half of another.
NoTearing ==
    \A d \in Struct :
        (\A t \in Thread : ~(at[t] = d /\ pc[t] \in {"copy1", "copy2"}))
            => struct[d][1] = struct[d][2]

\* Every accessor returns: copies in opposite directions do not wait for each other.
AccessorsReturn == \A t \in Thread : pc[t] # "idle" ~> pc[t] = "idle"

\* The counts are what the properties, the threads and the calls under way make
\* them, and a getter retains what is alive.
PropertiesConsistent == TypeOK /\ RefcountExact /\ GetterRetainsLive
=============================================================================
