------------------------------- MODULE MCSync -------------------------------
(* Three threads and two objects that share a list, so that a SyncData one
   thread is giving up is wanted by another for a different object. *)
EXTENDS Sync, TLC

CONSTANTS t1, t2, t3, o1, o2, d1, d2, d3

MCSyncThread == {t1, t2, t3}
MCObj == {o1, o2}
MCData == {d1, d2, d3}

Symmetric == Permutations(MCSyncThread) \cup Permutations(MCObj) \cup Permutations(MCData)
=============================================================================
