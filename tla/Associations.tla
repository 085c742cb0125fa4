----------------------------- MODULE Associations -----------------------------
(***************************************************************************)
(* Associated objects: objc-references.mm, the parts of object_setClass    *)
(* (objc-class.mm) and objc_destructInstance (objc-runtime-new.mm) that    *)
(* deal with them, and the retain and release of the values.               *)
(*                                                                         *)
(* One map, under one spin lock, takes an object's address to a table of   *)
(* its associations.  Values are retained before and released after the    *)
(* lock is held, so that releasing one may deallocate it, which removes    *)
(* the associations of that object in turn.  Whether an object has any is  *)
(* looked up on its class: the flag INSTANCES_HAVE_ASSOCIATED_OBJECTS.     *)
(*                                                                         *)
(* Threads use only objects they hold a reference to.                      *)
(***************************************************************************)
EXTENDS Integers, FiniteSets, SequencesExt

CONSTANTS
    Thread, Object, Key, Class, NULL,
    Policy,             \* the policies used, each the set of its bits
    ConcurrentSwizzle,  \* whether object_setClass may run while another thread
                        \* is using the object's associations
    Calls               \* bound: calls of all threads together

Bits == {"SETTER_RETAIN", "SETTER_COPY", "GETTER_RETAIN", "GETTER_AUTORELEASE"}

Entry == [value : Object, policy : Policy]

\* A setter's copy is retained, and of the constants of runtime.h those whose getter
\* retains are among those whose setter does.
ASSUME AssociationsAssumption ==
    /\ IsFiniteSet(Thread) /\ IsFiniteSet(Object) /\ IsFiniteSet(Key)
    /\ NULL \notin Thread \cup Object \cup Key \cup Class
    /\ \A K \in SUBSET Key : NULL \notin [K -> Entry]
    /\ Policy \subseteq SUBSET Bits
    /\ \A p \in Policy :
         "SETTER_COPY" \in p \/ "GETTER_RETAIN" \in p => "SETTER_RETAIN" \in p
    /\ ConcurrentSwizzle \in BOOLEAN
    /\ Calls \in Nat

VARIABLES
    associations,   \* per object: its table, a function on keys, or NULL
    lock,           \* AssociationsManager's lock: holder or NULL
    isa, hasAssoc,  \* the class of each object; the flag of each class
    rc, phase,      \* reference count; "unborn", "alive", "dying", "freed"
    held,           \* how many references each thread holds to each object
    pc, call,       \* where each thread is, in a call with what arguments
    todo,           \* per thread: releases, removals and frees yet to be done
    left            \* calls left

vars == <<associations, lock, isa, hasAssoc, rc, phase, held, pc, call, todo, left>>

NoCall == [obj |-> NULL, key |-> NULL, value |-> NULL, policy |-> {},
           old |-> NULL, new |-> NULL]     \* old and new: classes

\* One object is not allocated; each other one is held by some of the threads.
Init ==
    /\ associations = [o \in Object |-> NULL]
    /\ lock = NULL
    /\ \E c \in Class : isa = [o \in Object |-> c]
    /\ hasAssoc = [c \in Class |-> FALSE]
    /\ \E unborn \in Object :
         \E holders \in [Object -> SUBSET Thread] :
         /\ \A o \in Object : holders[o] = {} <=> o = unborn
         /\ phase = [o \in Object |-> IF o = unborn THEN "unborn" ELSE "alive"]
         /\ rc = [o \in Object |-> Cardinality(holders[o])]
         /\ held = [t \in Thread |-> [o \in Object |-> IF t \in holders[o] THEN 1 ELSE 0]]
    /\ pc = [t \in Thread |-> "idle"]
    /\ call = [t \in Thread |-> NoCall]
    /\ todo = [t \in Thread |-> <<>>]
    /\ left = Calls

Goto(t, place) == pc' = [pc EXCEPT ![t] = place]
Todo(t, what) == todo' = [todo EXCEPT ![t] = what \o @]

Begin(t, o) ==
    /\ pc[t] = "idle" /\ todo[t] = <<>> /\ left > 0 /\ held[t][o] > 0
    /\ left' = left - 1

\* Without concurrent swizzling, nobody else is in a call on o.
Alone(t, o) == \A u \in Thread \ {t} : call[u].obj # o

\* Policies whose setter takes a reference, by retaining or by copying.
Acquires(p) == "SETTER_RETAIN" \in p

\* Policies whose value is released: "both bits are set".
Releases(p) == "SETTER_RETAIN" \in p

Release(o) == [op |-> "release", obj |-> o]
ReleaseValue(a) == IF Releases(a.policy) THEN <<Release(a.value)>> ELSE <<>>

-----------------------------------------------------------------------------
\* What -copy returns: the object itself, or a new one at any free address.
Copies(v) == {v} \cup {x \in Object : phase[x] \in {"unborn", "freed"}}

\* objc_setAssociatedObject: the new value is acquired outside the lock.
SetBegin(t, o, k, v, p) ==
    /\ Begin(t, o)
    /\ v # NULL => held[t][v] > 0
    /\ ~ConcurrentSwizzle => \A u \in Thread : pc[u] = "swizzle" => call[u].obj # o
    /\ \E w \in IF v # NULL /\ "SETTER_COPY" \in p THEN Copies(v) ELSE {v} :
         /\ call' = [call EXCEPT ![t] = [NoCall EXCEPT
                       !.obj = o, !.key = k, !.value = w, !.policy = p]]
         /\ rc' = IF w # NULL /\ Acquires(p) THEN [rc EXCEPT ![w] = @ + 1] ELSE rc
         /\ phase' = IF w # v THEN [phase EXCEPT ![w] = "alive"] ELSE phase
         /\ isa' = IF w # v THEN [isa EXCEPT ![w] = isa[v]] ELSE isa
    /\ Goto(t, "set")
    /\ UNCHANGED <<associations, lock, hasAssoc, held, todo>>

\* The map under the lock.  The first association of an object makes its table
\* and reads its class, to flag it.
Set(t) ==
    /\ pc[t] = "set" /\ lock = NULL
    /\ LET c == call[t]
           table == associations[c.obj]
           entry == [value |-> c.value, policy |-> c.policy]
       IN IF table = NULL
            THEN IF c.value = NULL
              THEN /\ Goto(t, "done")
                   /\ UNCHANGED <<associations, lock, call, todo>>
              ELSE /\ associations' = [associations EXCEPT ![c.obj] =
                                         [k \in {c.key} |-> entry]]
                   /\ call' = [call EXCEPT ![t].old = isa[c.obj]]
                   /\ lock' = t
                   /\ Goto(t, "set_flag")
                   /\ UNCHANGED todo
            ELSE /\ associations' = [associations EXCEPT ![c.obj] =
                      [k \in (DOMAIN table \ {c.key}) \cup
                             (IF c.value = NULL THEN {} ELSE {c.key}) |->
                         IF k = c.key THEN entry ELSE table[k]]]
                 /\ Todo(t, IF c.key \in DOMAIN table
                              THEN ReleaseValue(table[c.key]) ELSE <<>>)
                 /\ Goto(t, "done")
                 /\ UNCHANGED <<lock, call>>
    /\ UNCHANGED <<isa, hasAssoc, rc, phase, held, left>>

SetFlag(t) ==
    /\ pc[t] = "set_flag"
    /\ hasAssoc' = [hasAssoc EXCEPT ![call[t].old] = TRUE]
    /\ lock' = NULL
    /\ Goto(t, "done")
    /\ UNCHANGED <<associations, isa, rc, phase, held, call, todo, left>>

Done(t) ==
    /\ pc[t] = "done" /\ todo[t] = <<>>
    /\ Goto(t, "idle")
    /\ call' = [call EXCEPT ![t] = NoCall]
    /\ UNCHANGED <<associations, lock, isa, hasAssoc, rc, phase, held, todo, left>>

-----------------------------------------------------------------------------
\* Mutant: the lock is released before the value is retained.
Unlocked(t) == NULL

\* Who holds the lock while the getter retains.
GetterLock(t) == t

\* objc_getAssociatedObject: what it finds is retained under the lock, if the
\* policy says so; otherwise the caller gets a bare pointer.
Get(t, o, k) ==
    /\ Begin(t, o) /\ lock = NULL
    /\ LET table == associations[o]
       IN IF table # NULL /\ k \in DOMAIN table /\ "GETTER_RETAIN" \in table[k].policy
            THEN /\ call' = [call EXCEPT ![t] = [NoCall EXCEPT
                                !.obj = o, !.key = k, !.value = table[k].value]]
                 /\ lock' = GetterLock(t)
                 /\ Goto(t, "get")
            ELSE UNCHANGED <<call, lock, pc>>
    /\ UNCHANGED <<associations, isa, hasAssoc, rc, phase, held, todo>>

\* The retain; the autorelease that follows makes the reference the caller's for
\* as long as its pool lives.
GetRetain(t) ==
    /\ pc[t] = "get"
    /\ rc' = [rc EXCEPT ![call[t].value] = @ + 1]
    /\ held' = [held EXCEPT ![t][call[t].value] = @ + 1]
    /\ lock' = IF lock = t THEN NULL ELSE lock
    /\ Goto(t, "done")
    /\ UNCHANGED <<associations, isa, hasAssoc, phase, call, todo, left>>

-----------------------------------------------------------------------------
\* object_setClass: exchange the class, then pass the flag on.
SetClass(t, o, c) ==
    /\ Begin(t, o) /\ isa[o] # c
    /\ ~ConcurrentSwizzle => Alone(t, o)
    /\ isa' = [isa EXCEPT ![o] = c]
    /\ call' = [call EXCEPT ![t] = [NoCall EXCEPT !.obj = o, !.old = isa[o], !.new = c]]
    /\ Goto(t, "swizzle")
    /\ UNCHANGED <<associations, lock, hasAssoc, rc, phase, held, todo>>

\* Mutant: the flag is not passed on.
KeepFlag(flag, old, new) == flag

PassFlag(flag, old, new) == [flag EXCEPT ![new] = @ \/ flag[old]]

Swizzled(t) ==
    /\ pc[t] = "swizzle"
    /\ hasAssoc' = PassFlag(hasAssoc, call[t].old, call[t].new)
    /\ Goto(t, "done")
    /\ UNCHANGED <<associations, lock, isa, rc, phase, held, call, todo, left>>

-----------------------------------------------------------------------------
\* The thread gives up a reference.
Drop(t, o) ==
    /\ Begin(t, o)
    /\ held' = [held EXCEPT ![t][o] = @ - 1]
    /\ Todo(t, <<Release(o)>>)
    /\ UNCHANGED <<associations, lock, isa, hasAssoc, rc, phase, pc, call>>

\* objc_removeAssociatedObjects.
RemoveAll(t, o) ==
    /\ Begin(t, o) /\ hasAssoc[isa[o]]
    /\ Todo(t, <<[op |-> "remove", obj |-> o]>>)
    /\ UNCHANGED <<associations, lock, isa, hasAssoc, rc, phase, held, pc, call>>

Next1(t) == Head(todo[t])
Pending(t, op) == todo[t] # <<>> /\ Next1(t).op = op
Then(t, what) == todo' = [todo EXCEPT ![t] = what \o Tail(@)]

\* A release; the last one starts deallocation, where objc_destructInstance asks
\* the class whether the object has associations.
DoRelease(t) ==
    /\ Pending(t, "release")
    /\ LET o == Next1(t).obj IN
       /\ rc' = [rc EXCEPT ![o] = @ - 1]
       /\ IF rc[o] = 1
            THEN /\ phase' = [phase EXCEPT ![o] = "dying"]
                 /\ Then(t, (IF hasAssoc[isa[o]] THEN <<[op |-> "remove", obj |-> o]>>
                                                  ELSE <<>>)
                            \o <<[op |-> "free", obj |-> o]>>)
            ELSE Then(t, <<>>) /\ UNCHANGED phase
    /\ UNCHANGED <<associations, lock, isa, hasAssoc, held, pc, call, left>>

\* _object_remove_assocations: the table is taken out under the lock, its values
\* are released after.
RemoveAssociations(t) ==
    /\ Pending(t, "remove") /\ lock = NULL
    /\ LET o == Next1(t).obj
           table == associations[o]
           keys == IF table = NULL THEN <<>> ELSE SetToSeq(DOMAIN table)
       IN /\ associations' = [associations EXCEPT ![o] = NULL]
          /\ Then(t, FlattenSeq([n \in DOMAIN keys |-> ReleaseValue(table[keys[n]])]))
    /\ UNCHANGED <<lock, isa, hasAssoc, rc, phase, held, pc, call, left>>

Free(t) ==
    /\ Pending(t, "free")
    /\ phase' = [phase EXCEPT ![Next1(t).obj] = "freed"]
    /\ Then(t, <<>>)
    /\ UNCHANGED <<associations, lock, isa, hasAssoc, rc, held, pc, call, left>>

Next ==
    \E t \in Thread :
        \/ \E o \in Object, k \in Key, v \in Object \cup {NULL}, p \in Policy :
              SetBegin(t, o, k, v, p)
        \/ Set(t) \/ SetFlag(t) \/ Done(t)
        \/ \E o \in Object, k \in Key : Get(t, o, k)
        \/ GetRetain(t)
        \/ \E o \in Object, c \in Class : SetClass(t, o, c)
        \/ Swizzled(t)
        \/ \E o \in Object : Drop(t, o) \/ RemoveAll(t, o)
        \/ DoRelease(t) \/ RemoveAssociations(t) \/ Free(t)

Spec == Init /\ [][Next]_vars
-----------------------------------------------------------------------------
Table(o) == IF associations[o] = NULL THEN {} ELSE DOMAIN associations[o]

TypeOK ==
    /\ \A o \in Object : associations[o] # NULL =>
         associations[o] \in [Table(o) -> Entry]
    /\ lock \in Thread \cup {NULL}
    /\ isa \in [Object -> Class] /\ hasAssoc \in [Class -> BOOLEAN]
    /\ rc \in [Object -> Nat]
    /\ phase \in [Object -> {"unborn", "alive", "dying", "freed"}]
    /\ held \in [Thread -> [Object -> Nat]]
    /\ pc \in [Thread -> {"idle", "set", "set_flag", "done", "get", "swizzle"}]

\* The references a thread holds to o and the releases it still has to do; the
\* associations of p that own o; the set calls that bring o in.
Owes(t, o) == held[t][o] + Cardinality({n \in DOMAIN todo[t] : todo[t][n] = Release(o)})
Owned(p, o) ==
    {k \in Table(p) : associations[p][k].value = o
                      /\ "SETTER_RETAIN" \in associations[p][k].policy}
Setting(o) ==
    {t \in Thread : pc[t] = "set" /\ call[t].value = o /\ "SETTER_RETAIN" \in call[t].policy}

\* An object's reference count is what it is owed: the references threads hold,
\* the associations that own it, the value of a set call on its way in, and the
\* releases still to be done.  None is lost and none is given twice.
RefcountExact ==
    \A o \in Object :
        rc[o] = SumFunction([t \in Thread |-> Owes(t, o)])
              + SumFunction([p \in Object |-> Cardinality(Owned(p, o))])
              + Cardinality(Setting(o))

\* An association that owns its value never holds a dead one, and a getter that
\* retains never retains a dead one.
OwnedValueAlive ==
    /\ \A o \in Object : \A k \in Table(o) :
         "SETTER_RETAIN" \in associations[o][k].policy =>
             phase[associations[o][k].value] = "alive"
    /\ \A t \in Thread : pc[t] = "get" => phase[call[t].value] = "alive"

\* "Don't lose associations after isa swizzling" (test/association.m:24): an object
\* with associations is freed only after they are removed, whatever its class was
\* meanwhile.  A table left behind would be that of the next object there.
NoneLeftBehind ==
    \A o \in Object : phase[o] \in {"unborn", "freed"} => associations[o] = NULL

\* The counts are what the associations, the threads and the calls under way make
\* them, and what an association owns is alive.
ReferencesConsistent == TypeOK /\ RefcountExact /\ OwnedValueAlive
=============================================================================
