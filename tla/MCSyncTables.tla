----------------------------- MODULE MCSyncTables -----------------------------
(* @synchronized, as MCSync has it, and the tables of a shared cache, as
   MCPerfectHash has them.  The two share nothing; a behaviour works on one of them.
   The three SyncDatas and the three names are the same values, so that one
   permutation serves both. *)
EXTENDS MCSync, MCPerfectHash

VARIABLE part       \* what the behaviour works on

PartInit ==
    /\ part \in {"sync", "tables"}
    /\ SyncInit /\ HashInit
    /\ part # "tables" => names = {} /\ ~ ShiftWraps

Synchronize == part = "sync" /\ SyncNext /\ UNCHANGED <<hashVars, part>>
Build == part = "tables" /\ HashNext /\ UNCHANGED <<syncVars, part>>

PartSpec == PartInit /\ [][Synchronize \/ Build]_<<syncVars, hashVars, part>>
=============================================================================
