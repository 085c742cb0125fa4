----------------------------- MODULE MCWeakInit ------------------------------
(* Two threads that use weak variables, and two that initialize classes.  The two
   parts share nothing; a behaviour works on one of them.

   SideTable: two objects that hash to different side tables (nil hashes to the
   first, index 0, as in the code), with one weak variable and room for another.

   ClassInit: the hierarchy of the deadlock that objc-initialize.mm describes, cut
   to the classes it needs: the root's +initialize messages a class two levels
   down, while another thread messages that class or its sibling. *)
EXTENDS SideTable, ClassInit, TLC

CONSTANTS t1, t2, o1, o2, l1, l2, s1, s2, tmp,
          OBObject, OFObject, OWController, OWAddressEntry

MCThread   == {t1, t2}
MCObj      == {o1, o2}
MCLoc      == {l1, l2}
MCGlobals  == {l1}
MCSlot     == {s1, s2, tmp}
TwoStripes == [p \in Ptr |-> IF p = o2 THEN 1 ELSE 0]
MCBudget   == t1 :> 3 @@ t2 :> 2

MCClass == {OBObject, OFObject, OWController, OWAddressEntry}
MCSuper == [c \in MCClass |->
    CASE c = OBObject -> Nil
      [] c = OFObject -> OBObject
      [] OTHER -> OFObject]

\* +[OBObject initialize] runs OBPostLoader, which initializes other classes.
PostLoader == [c \in MCClass |-> IF c = OBObject THEN {OWController} ELSE {}]

VARIABLE part       \* what the behaviour works on

PartInit == part \in {"weak", "init"} /\ Init /\ InitializeInit

UseWeak == part = "weak" /\ Next /\ UNCHANGED <<initializeVars, part>>
InitializeClasses == part = "init" /\ InitializeNext /\ UNCHANGED <<vars, part>>

PartSpec ==
    /\ PartInit
    /\ [][UseWeak \/ InitializeClasses]_<<vars, initializeVars, part>>
    /\ Fairness /\ InitializeFairness
=============================================================================
