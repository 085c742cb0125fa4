----------------------------- MODULE WeakMemory -----------------------------
(***************************************************************************)
(* What strong and weak references promise: an object lives exactly as     *)
(* long as a strong variable points to it, and the weak variables that     *)
(* point to it become nil in the very step that takes the last one away.   *)
(* SideTable implements it with counts, locks, retries and tables.         *)
(***************************************************************************)
CONSTANTS Thread, Obj, Loc, Slot, Tmp, NULL

VARIABLES
    strong,     \* the contents of each thread's strong variables
    weak,       \* the value of each weak variable
    live        \* the objects that are alive

vars == <<strong, weak, live>>

Init ==
    /\ strong = [t \in Thread |-> [s \in Slot |-> NULL]]
    /\ weak = [l \in Loc |-> NULL]
    /\ live = {}

Points(f, o) == \E t \in Thread, s \in Slot : f[t][s] = o

\* An address not in use becomes an object with one reference.
Create(t, s, o) ==
    /\ o \notin live /\ strong[t][s] = NULL
    /\ live' = live \cup {o}
    /\ strong' = [strong EXCEPT ![t][s] = o]
    /\ UNCHANGED weak

\* A held object is assigned to a strong variable, whose old value becomes the
\* temporary.
Assign(t, s, o) ==
    /\ strong[t][Tmp] = NULL
    /\ o = NULL \/ \E r \in Slot : strong[t][r] = o
    /\ strong' = [strong EXCEPT ![t][Tmp] = strong[t][s], ![t][s] = o]
    /\ UNCHANGED <<weak, live>>

Zeroed(o) == [l \in Loc |-> IF weak[l] = o THEN NULL ELSE weak[l]]

\* A strong variable points to o.
Owned(f, o) == Points(f, o)

\* The temporary is dropped.  If it was the last reference the object dies and
\* all its weak variables become nil at once.
Drop(t) ==
    LET o == strong[t][Tmp] IN
    /\ o # NULL
    /\ strong' = [strong EXCEPT ![t][Tmp] = NULL]
    /\ IF Owned(strong', o)
         THEN UNCHANGED <<weak, live>>
         ELSE /\ live' = live \ {o}
              /\ weak' = Zeroed(o)

StoreWeak(t, l, o) ==
    /\ o = NULL \/ \E s \in Slot : strong[t][s] = o
    /\ weak' = [weak EXCEPT ![l] = o]
    /\ UNCHANGED <<strong, live>>

\* A load that does not answer nil: the object gets one more reference.
LoadWeak(t, l, s) ==
    /\ weak[l] # NULL /\ strong[t][s] = NULL
    /\ strong' = [strong EXCEPT ![t][s] = weak[l]]
    /\ UNCHANGED <<weak, live>>

Next == \E t \in Thread :
    \/ \E s \in Slot, o \in Obj : Create(t, s, o)
    \/ \E s \in Slot, o \in Obj \cup {NULL} : Assign(t, s, o)
    \/ Drop(t)
    \/ \E l \in Loc, o \in Obj \cup {NULL} : StoreWeak(t, l, o)
    \/ \E l \in Loc, s \in Slot : LoadWeak(t, l, s)

Spec == Init /\ [][Next]_vars

-----------------------------------------------------------------------------
TypeOK ==
    /\ strong \in [Thread -> [Slot -> Obj \cup {NULL}]]
    /\ weak \in [Loc -> Obj \cup {NULL}]
    /\ live \subseteq Obj

\* An object is alive exactly as long as a strong variable points to it.
LiveIffOwned == \A o \in Obj : o \in live <=> Points(strong, o)

\* A weak variable is nil or points to a live object.
WeakIsLive == \A l \in Loc : weak[l] = NULL \/ weak[l] \in live
=============================================================================
