---------------------------- MODULE MCAssociations ----------------------------
(* Two threads, three addresses, of which one is free at first: enough for an
   object, its value, and a copy or a chain of associated objects. *)
EXTENDS Associations, TLC

CONSTANTS t1, t2, o1, o2, o3, k1, A, B

MCThread == {t1, t2}
MCObject == {o1, o2, o3}
OneKey == {k1}
MCClass == {A, B}

ASSIGN == {}
RETAIN == {"SETTER_RETAIN", "GETTER_RETAIN", "GETTER_AUTORELEASE"}
COPY == {"SETTER_RETAIN", "SETTER_COPY", "GETTER_RETAIN", "GETTER_AUTORELEASE"}

MCPolicy == {ASSIGN, RETAIN, COPY}

Symmetric == Permutations(MCThread) \cup Permutations(MCObject) \cup Permutations(MCClass)
=============================================================================
