----------------------------- MODULE MCAccessors -----------------------------
(* Two threads that call property and structure accessors, and two that a debugger
   stops.  The two parts share nothing; a behaviour works on one of them.

   Accessors: two atomic properties that share a lock and one that is not atomic;
   three structures, of which two share a lock.

   DebuggerLocks as MCDebuggerLocks has it. *)
EXTENDS Accessors, MCDebuggerLocks, TLC

CONSTANTS o1, s1, s2, s3, x, y, z

MCObj == {o1}
MCSlot == {s1, s2, s3}
MCNonAtomic == {s3}
MCStruct == {x, y, z}

MCHash == [a \in MCSlot \cup MCStruct |-> CASE a \in {s1, s2} -> 5 [] a = s3 -> 9 [] a = x -> 3 [] OTHER -> 8]

VARIABLE part       \* what the behaviour works on

\* The debugger is looked at from one of the accessors' initial states only.
PartInit ==
    /\ part \in {"accessors", "debugger"}
    /\ Init /\ DebuggerInit
    /\ part = "debugger" => held[t1][o1] = 1

Access == part = "accessors" /\ Next /\ UNCHANGED <<debuggerVars, part>>
\* The two threads are alike: a mode that the first request begins begins on t1.
Debug ==
    /\ part = "debugger" /\ DebuggerNext /\ UNCHANGED <<vars, part>>
    /\ requests = Requests => DebuggerModeThread' # t2

PartSpec ==
    /\ PartInit
    /\ [][Access \/ Debug]_<<vars, debuggerVars, part>>
    /\ Fairness /\ DebuggerFairness
=============================================================================
