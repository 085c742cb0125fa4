--------------------------- MODULE MCDebuggerLocks ---------------------------
(* Two threads, stopped at any point of a function each. *)
EXTENDS DebuggerLocks

CONSTANTS t1, t2

MCThread == {t1, t2}
=============================================================================
