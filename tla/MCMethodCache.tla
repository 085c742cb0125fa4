---------------------------- MODULE MCMethodCache ----------------------------
(* A class, its subclass and two selectors whose buckets collide.  The threads
   are interchangeable, so that it does not matter which makes the one change. *)
EXTENDS MethodCache

CONSTANTS t1, t2, C, D, x, y

MCThread == {t1, t2}
MCChanger == {t1}
MCClass == {C, D}
MCSuper == [c \in MCClass |-> IF c = C THEN NULL ELSE C]
MCSel == {x, y}
MCMethods == [c \in MCClass |-> IF c = C THEN {x} ELSE {}]
MCAdditions == {MCSel}
MCInitialized == {C}
MCHash == [s \in MCSel |-> 1]
=============================================================================
