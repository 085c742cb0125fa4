------------------------------ MODULE IvarLayout ------------------------------
(***************************************************************************)
(* Where a class's instance variables are: objc-runtime-new.mm.  The       *)
(* compiler lays a class out after what it knows of the superclass, whose  *)
(* image may have another version by the time the program runs; when a     *)
(* class is realized, its variables slide until they start where the       *)
(* superclass now ends.  A class made at run time is laid out ivar by ivar *)
(* between its allocation and its registration.                            *)
(*                                                                         *)
(* Every call here takes runtimeLock for writing, so each is one action.   *)
(* Offsets and sizes are in bytes and stay below 2^32.                     *)
(***************************************************************************)
EXTENDS Integers, SequencesExt, FiniteSetsExt

CONSTANTS
    Class, Pair,        \* classes that images bring and that the client makes
    Nil,
    super,              \* superclass of each class in an image, Nil for a root
    Declared,           \* of each of them: the lists of ivars it may declare,
                        \* each ivar with a size and an alignment
    OldSize,            \* sizes a superclass may have had for the compiler
    WORD,               \* bytes in a word
    MaxIvars,           \* bound: ivars added to a class
    MoveUnderBigger     \* whether a class is moved below one that ends after
                        \* the class's own ivars begin

Ivar == UNION {UNION {ToSet(ivars) : ivars \in Declared[c]} : c \in Class}

\* ivar_t and class_ro_t.
PlacedIvar == [offset : Nat, size : Nat, alignment : Nat \ {0}]
Layout == [instanceStart : Nat, instanceSize : Nat, ivars : Seq(PlacedIvar)]

\* Powers of two in the code.
Alignment == {WORD} \cup {ivar.alignment : ivar \in Ivar}

\* No class is its own ancestor; of two alignments one is a multiple of the other.
ASSUME IvarLayoutAssumption ==
    /\ Nil \notin Class \cup Pair /\ Nil \notin Layout /\ Class \cap Pair = {}
    /\ super \in [Class -> Class \cup {Nil}]
    /\ \A S \in SUBSET Class : S # {} => \E c \in S : super[c] \notin S
    /\ \A c \in Class : \A ivars \in Declared[c] :
            ivars \in Seq([size : Nat, alignment : Nat \ {0}])
    /\ OldSize \subseteq Nat /\ WORD \in Nat \ {0} /\ MaxIvars \in Nat
    /\ \A a, b \in Alignment : a <= b => b % a = 0
    /\ MoveUnderBigger \in BOOLEAN

VARIABLES
    ro,             \* the layout, Nil if none
    superclass,
    realized,
    constructing    \* the pairs with RW_CONSTRUCTING

ivarVars == <<ro, superclass, realized, constructing>>

IvarInit ==
    /\ ro = [c \in Class \cup Pair |-> Nil]
    /\ superclass = [c \in Class \cup Pair |-> IF c \in Class THEN super[c] ELSE Nil]
    /\ realized = {} /\ constructing = {}

Aligned(n, alignment) == ((n + alignment - 1) \div alignment) * alignment

\* A layout with one more ivar.
AddIvar(r, ivar) ==
    LET offset == Aligned(r.instanceSize, ivar.alignment)
    IN  [r EXCEPT !.instanceSize = offset + ivar.size,
                  !.ivars = Append(@, [offset |-> offset, size |-> ivar.size,
                                       alignment |-> ivar.alignment])]

\* A class as the compiler emits it over a superclass of that size: it starts at
\* its first ivar.
Compiled(ivars, size) ==
    LET r == FoldLeft(AddIvar, [instanceStart |-> size, instanceSize |-> size,
                                ivars |-> <<>>], ivars)
    IN  IF ivars = <<>> THEN r ELSE [r EXCEPT !.instanceStart = r.ivars[1].offset]

\* "gcc c++ sets instanceStart/Size=0 for classes with no local ivars".
NoLocalIvars == [instanceStart |-> 0, instanceSize |-> 0, ivars |-> <<>>]

Emitted(c) ==
    LET sizes == IF super[c] = Nil THEN {0} ELSE OldSize
    IN  {Compiled(ivars, size) : ivars \in Declared[c], size \in sizes}
        \cup (IF <<>> \in Declared[c] THEN {NoLocalIvars} ELSE {})

\* An image brings the class, with its superclass or after it.
MapClass(c) ==
    /\ ro[c] = Nil /\ super[c] \in {d \in Class : ro[d] # Nil} \cup {Nil}
    /\ \E r \in Emitted(c) : ro' = [ro EXCEPT ![c] = r]
    /\ UNCHANGED <<superclass, realized, constructing>>

MaxAlignment(ivars, least) == Max({least} \cup {ivars[i].alignment : i \in DOMAIN ivars})

Slid(r, diff) ==
    [instanceStart |-> r.instanceStart + diff, instanceSize |-> r.instanceSize + diff,
     ivars |-> [i \in DOMAIN r.ivars |-> [r.ivars[i] EXCEPT !.offset = @ + diff]]]

\* Mutant: the slide is not rounded up.
ExactSlide(r, superSize) == superSize - r.instanceStart

\* What the ivars slide by, so that every one stays aligned.
Slide(r, superSize) == Aligned(superSize - r.instanceStart, MaxAlignment(r.ivars, 1))

moveIvars(r, superSize) == Slid(r, Slide(r, superSize))

\* DebugNonFragileIvars: the ivars back to the front, so that they have to slide.
Reset(r) ==
    LET alignment == MaxAlignment(r.ivars, WORD)
    IN  Slid(r, (r.instanceStart % alignment) - r.instanceStart)

\* The layout of a class below a superclass of that size.
reconcileInstanceVariables(r, superSize, debug) ==
    LET q == IF debug THEN Reset(r) ELSE r
    IN  IF q.instanceStart < superSize THEN moveIvars(q, superSize) ELSE q

\* Class d's layout below that of its superclass.
Realized(layouts, d, debug) ==
    IF superclass[d] = Nil THEN layouts[d]
    ELSE reconcileInstanceVariables(layouts[d], layouts[superclass[d]].instanceSize, debug)

\* The layouts, and the classes realized, when realizeClass returns for each class;
\* the superclass comes first.  "debug" has the classes that the option applies to.
Realizing(debug) ==
    LET done[d \in Class \cup {Nil}] ==
            IF d = Nil \/ d \in realized
            THEN [layouts |-> ro, classes |-> realized]
            ELSE LET before == done[superclass[d]]
                     r == Realized(before.layouts, d, d \in debug)
                 IN  [layouts |-> [before.layouts EXCEPT ![d] = r],
                      classes |-> before.classes \cup {d}]
    IN  done

\* The option leaves out classes of certain names.
realizeClass(c) ==
    /\ c \notin realized /\ ro[c] # Nil
    /\ \E debug \in SUBSET (Class \ realized) :
        /\ ro' = Realizing(debug)[c].layouts
        /\ realized' = Realizing(debug)[c].classes
    /\ UNCHANGED <<superclass, constructing>>

\* A new pair ends where its superclass does; a root has its isa alone.
NewPair(s) ==
    LET start == IF s = Nil THEN 0 ELSE ro[s].instanceSize
    IN  [instanceStart |-> start, instanceSize |-> IF s = Nil THEN WORD ELSE start,
         ivars |-> <<>>]

objc_allocateClassPair(p, s) ==
    /\ ro[p] = Nil /\ s \in (realized \ constructing) \cup {Nil}
    /\ ro' = [ro EXCEPT ![p] = NewPair(s)]
    /\ superclass' = [superclass EXCEPT ![p] = s]
    /\ realized' = realized \cup {p} /\ constructing' = constructing \cup {p}

class_addIvar(p, ivar) ==
    /\ p \in constructing /\ Len(ro[p].ivars) < MaxIvars
    /\ ro' = [ro EXCEPT ![p] = AddIvar(@, ivar)]
    /\ UNCHANGED <<superclass, realized, constructing>>

objc_registerClassPair(p) ==
    /\ p \in constructing
    /\ constructing' = constructing \ {p}
    /\ UNCHANGED <<ro, superclass, realized>>

\* c and its superclasses, the root first.
Chain(c) ==
    LET up[d \in Class \cup Pair] ==
            IF superclass[d] = Nil THEN <<d>> ELSE Append(up[superclass[d]], d)
    IN  up[c]

\* Nothing is moved in the layouts: the client puts a class only where it fits.
class_setSuperclass(c, s) ==
    /\ {c, s} \subseteq realized \ constructing
    /\ superclass[c] \notin {s, Nil} /\ c \notin ToSet(Chain(s))
    /\ MoveUnderBigger \/ ro[s].instanceSize <= ro[c].instanceStart
    /\ superclass' = [superclass EXCEPT ![c] = s]
    /\ UNCHANGED <<ro, realized, constructing>>

IvarNext ==
    \/ \E c \in Class : MapClass(c) \/ realizeClass(c)
    \/ \E p \in Pair, s \in Class \cup Pair \cup {Nil} : objc_allocateClassPair(p, s)
    \/ \E p \in Pair, ivar \in Ivar : class_addIvar(p, ivar)
    \/ \E p \in Pair : objc_registerClassPair(p)
    \/ \E c, s \in Class \cup Pair : class_setSuperclass(c, s)

IvarSpec == IvarInit /\ [][IvarNext]_ivarVars

-----------------------------------------------------------------------------

\* The bytes of an ivar.
Bytes(ivar) == ivar.offset .. ivar.offset + ivar.size - 1

\* In an instance of a realized class no two ivars, its own or inherited, share a
\* byte, each is aligned as it was declared, and all lie within the size that is
\* allocated; however its superclasses grew or shrank since it was compiled, and
\* in whatever order they were realized, made or moved.
IvarsApart ==
    \A c \in realized :
        LET own == ro[c].ivars
            end == IF superclass[c] = Nil THEN 0 ELSE ro[superclass[c]].instanceSize
        IN  /\ end <= ro[c].instanceSize
            /\ \A i \in DOMAIN own :
                /\ own[i].offset % own[i].alignment = 0
                /\ Bytes(own[i]) \subseteq end .. ro[c].instanceSize - 1
                /\ \A j \in DOMAIN own : i # j => Bytes(own[i]) \cap Bytes(own[j]) = {}
=============================================================================
