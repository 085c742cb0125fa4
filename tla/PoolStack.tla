------------------------------ MODULE PoolStack ------------------------------
(***************************************************************************)
(* What an autorelease pool promises: one stack of objects and boundaries. *)
(* A pop takes entries off the top until it has taken its own boundary;    *)
(* the entries below are untouched, whatever the releases add on top and   *)
(* whichever pops they run inside it.                                      *)
(***************************************************************************)
EXTENDS Naturals, Sequences, SequencesExt

CONSTANTS Obj, POOL_SENTINEL

VARIABLES
    stack,      \* the entries, the oldest first
    stops       \* the heights of the boundaries of the pops in progress

vars == <<stack, stops>>

Init == stack = <<>> /\ stops = <<>>

Add(x) == stack' = Append(stack, x) /\ UNCHANGED stops

\* A pop starts at a boundary above those of the pops it runs inside, or at the
\* bottom of the stack when the thread exits.
StartPop(h) ==
    /\ h \in 1 .. Len(stack)
    /\ stack[h] = POOL_SENTINEL \/ h = 1
    /\ \A i \in DOMAIN stops : stops[i] <= h
    /\ stops' = Append(stops, h)
    /\ UNCHANGED stack

\* The exit of a thread whose pool is empty pops nothing.
StartEmptyPop == stack = <<>> /\ stops = <<>> /\ stops' = <<1>> /\ UNCHANGED stack

TakeOff ==
    /\ stops # <<>> /\ Len(stack) >= Last(stops)
    /\ stack' = Front(stack)
    /\ UNCHANGED stops

EndPop ==
    /\ stops # <<>> /\ Len(stack) = Last(stops) - 1
    /\ stops' = Front(stops)
    /\ UNCHANGED stack

Next ==
    \/ \E x \in Obj \cup {POOL_SENTINEL} : Add(x)
    \/ \E h \in 1 .. Len(stack) : StartPop(h)
    \/ StartEmptyPop
    \/ TakeOff
    \/ EndPop

Spec == Init /\ [][Next]_vars
=============================================================================
