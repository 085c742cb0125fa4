---------------------------- MODULE ClassHierarchy ----------------------------
(***************************************************************************)
(* Classes and their superclasses, as the components that walk up a        *)
(* hierarchy find them.                                                    *)
(***************************************************************************)
CONSTANTS
    Class,
    Nil,
    super       \* the superclass of each class, Nil for a root

ASSUME ClassHierarchyAssumption ==
    /\ Nil \notin Class
    /\ super \in [Class -> Class \cup {Nil}]
=============================================================================
