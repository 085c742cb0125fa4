-------------------------- MODULE AssociationsProofs --------------------------
(***************************************************************************)
(* What is proved of the associated objects, for any threads, objects,     *)
(* keys, classes and policies.  The reference counts agree with what is    *)
(* owed (CountInv); that needs to know that a call under way holds its     *)
(* object, that what a getter has found is there as long as it holds the   *)
(* lock, and that a dead object is freed once.  And an object is freed     *)
(* with no associations left (RemoveInv), if its class is exchanged only   *)
(* while nobody else is in a call on it.                                   *)
(***************************************************************************)
EXTENDS Associations, FoldLemmas

Tables == UNION {[K -> Entry] : K \in SUBSET Key}
Operation == [op : {"release", "remove", "free"}, obj : Object]
Call == [obj : Object \cup {NULL}, key : Key \cup {NULL}, value : Object \cup {NULL},
         policy : Policy \cup {{}}, old : Class \cup {NULL}, new : Class \cup {NULL}]

\* The variables' types, the counts as far as they are known without counting.
Shape ==
    /\ associations \in [Object -> Tables \cup {NULL}]
    /\ lock \in Thread \cup {NULL}
    /\ isa \in [Object -> Class] /\ hasAssoc \in [Class -> BOOLEAN]
    /\ rc \in [Object -> Int]
    /\ phase \in [Object -> {"unborn", "alive", "dying", "freed"}]
    /\ held \in [Thread -> [Object -> Nat]]
    /\ pc \in [Thread -> {"idle", "set", "set_flag", "done", "get", "swizzle"}]
    /\ call \in [Thread -> Call]
    /\ todo \in [Thread -> Seq(Operation)]

\* What a thread's call is about follows from where it is; it holds the object,
\* and has nothing else to do.
PlacedAt(t) ==
    /\ pc[t] \in {"set", "set_flag", "get", "swizzle"} => todo[t] = <<>>
    /\ pc[t] \in {"set", "set_flag", "swizzle"} =>
          call[t].obj \in Object /\ held[t][call[t].obj] > 0
    /\ pc[t] = "set" => call[t].key \in Key /\ call[t].policy \in Policy
    /\ pc[t] = "set_flag" => call[t].old \in Class
    /\ pc[t] = "swizzle" => call[t].old \in Class /\ call[t].new \in Class

Placed == \A t \in Thread : PlacedAt(t)

\* What a getter has found is still there: it holds the lock.
FoundAt(t) ==
    pc[t] = "get" =>
        /\ lock = t
        /\ call[t].obj \in Object /\ call[t].key \in Table(call[t].obj)
        /\ associations[call[t].obj][call[t].key].value = call[t].value
        /\ "GETTER_RETAIN" \in associations[call[t].obj][call[t].key].policy

FoundIsThere == \A t \in Thread : FoundAt(t)

FlagLocked == \A t \in Thread : pc[t] = "set_flag" => lock = t

\* What is not alive has no references.
OnlyAliveCounted == \A o \in Object : phase[o] # "alive" => rc[o] = 0

Removing(o) == [op |-> "remove", obj |-> o]
Freeing(o) == [op |-> "free", obj |-> o]

\* Each object that is being deallocated is freed once.
Frees(t, o) == CountOf(todo[t], Freeing(o))

FreesOnce ==
    \A o \in Object : \A t \in Thread : Frees(t, o) # 0 =>
        /\ phase[o] = "dying" /\ Frees(t, o) = 1
        /\ \A u \in Thread \ {t} : Frees(u, o) = 0

CountInv ==
    /\ Shape /\ Placed /\ FoundIsThere /\ FlagLocked /\ RefcountExact
    /\ OnlyAliveCounted /\ FreesOnce

-----------------------------------------------------------------------------
\* An object is freed after its associations are removed.
RemovedBefore(s, o) ==
    \A n \in DOMAIN s : s[n] = Freeing(o) => \E m \in DOMAIN s : m < n /\ s[m] = Removing(o)

RemovesFirst ==
    \A o \in Object : associations[o] # NULL => \A t \in Thread : RemovedBefore(todo[t], o)

\* No two threads change an object's class, or one makes its table meanwhile.
SwizzlesAlone ==
    \A t \in Thread : pc[t] = "swizzle" =>
        /\ call[t].new = isa[call[t].obj]
        /\ \A u \in Thread \ {t} :
              pc[u] \in {"set", "set_flag", "swizzle"} => call[u].obj # call[t].obj

FlagsItsClass == \A t \in Thread : pc[t] = "set_flag" => call[t].old = isa[call[t].obj]

\* The class of an object with associations is flagged, or is about to be.
FlaggedAt(o) ==
    \/ hasAssoc[isa[o]]
    \/ \E t \in Thread : pc[t] = "set_flag" /\ call[t].obj = o
    \/ \E t \in Thread : pc[t] = "swizzle" /\ call[t].obj = o /\ hasAssoc[call[t].old]

Flagged == \A o \in Object : associations[o] # NULL /\ phase[o] = "alive" => FlaggedAt(o)

RemoveInv ==
    CountInv /\ NoneLeftBehind /\ RemovesFirst /\ SwizzlesAlone /\ FlagsItsClass
    /\ Flagged

-----------------------------------------------------------------------------
(* Tables, and what is to be done.                                             *)

\* A table is a function of keys, and NULL is none.
LEMMA TablesAre ==
  /\ NULL \notin Tables
  /\ \A T \in Tables : DOMAIN T \in SUBSET Key /\ \A k \in DOMAIN T : T[k] \in Entry
  /\ \A K \in SUBSET Key : [K -> Entry] \subseteq Tables
BY AssociationsAssumption DEF Tables

LEMMA TableIs ==
  ASSUME Shape, NEW o \in Object
  PROVE  /\ Table(o) \in SUBSET Key /\ IsFiniteSet(Table(o))
         /\ \A k \in Table(o) : associations[o][k] \in Entry
<1>1. associations[o] \in Tables \cup {NULL}
  BY DEF Shape
<1>2. Table(o) \in SUBSET Key /\ \A k \in Table(o) : associations[o][k] \in Entry
  BY <1>1, TablesAre DEF Table
<1>3. IsFiniteSet(Table(o))
  BY <1>2, AssociationsAssumption, FS_Subset
<1> QED BY <1>2, <1>3

LEMMA OwnedIs ==
  ASSUME Shape, NEW p \in Object, NEW o \in Object
  PROVE  /\ Owned(p, o) \in SUBSET Key /\ IsFiniteSet(Owned(p, o))
         /\ Cardinality(Owned(p, o)) \in Nat
<1>1. Owned(p, o) \in SUBSET Key
  BY TableIs DEF Owned
<1>2. IsFiniteSet(Owned(p, o))
  BY <1>1, AssociationsAssumption, FS_Subset
<1> QED BY <1>1, <1>2, FS_CardinalityType

LEMMA SettingIs ==
  ASSUME NEW o
  PROVE  /\ Setting(o) \in SUBSET Thread /\ IsFiniteSet(Setting(o))
         /\ Cardinality(Setting(o)) \in Nat
<1>1. Setting(o) \in SUBSET Thread
  BY DEF Setting
<1>2. IsFiniteSet(Setting(o))
  BY <1>1, AssociationsAssumption, FS_Subset
<1> QED BY <1>1, <1>2, FS_CardinalityType

\* The three operations are different, and those of different objects are.
LEMMA OperationsDiffer ==
  \A o, p : /\ Release(o) # Removing(p) /\ Release(o) # Freeing(p) /\ Removing(o) # Freeing(p)
            /\ Release(o) = Release(p) <=> o = p
            /\ Freeing(o) = Freeing(p) <=> o = p
            /\ Removing(o) = Removing(p) <=> o = p
<1> SUFFICES ASSUME NEW o, NEW p
             PROVE  /\ Release(o) # Removing(p) /\ Release(o) # Freeing(p) /\ Removing(o) # Freeing(p)
                    /\ Release(o) = Release(p) <=> o = p
                    /\ Freeing(o) = Freeing(p) <=> o = p
                    /\ Removing(o) = Removing(p) <=> o = p
  OBVIOUS
<1>1. /\ Release(o).op = "release" /\ Removing(o).op = "remove" /\ Freeing(o).op = "free"
      /\ Release(p).op = "release" /\ Removing(p).op = "remove" /\ Freeing(p).op = "free"
      /\ Release(o).obj = o /\ Release(p).obj = p /\ Removing(o).obj = o /\ Removing(p).obj = p
      /\ Freeing(o).obj = o /\ Freeing(p).obj = p
  BY DEF Release, Removing, Freeing
<1>2. o = p => Release(o) = Release(p) /\ Freeing(o) = Freeing(p) /\ Removing(o) = Removing(p)
  OBVIOUS
<1> QED BY <1>1, <1>2

LEMMA OperationsAre ==
  /\ \A o \in Object : Release(o) \in Operation /\ Removing(o) \in Operation
                       /\ Freeing(o) \in Operation
  /\ \A e \in Operation : /\ e.obj \in Object
                          /\ e.op = "release" => e = Release(e.obj)
                          /\ e.op = "remove" => e = Removing(e.obj)
                          /\ e.op = "free" => e = Freeing(e.obj)
BY DEF Release, Removing, Freeing, Operation

\* What is put before the rest of what is to be done adds to it.
LEMMA TodoCounts ==
  ASSUME Shape, NEW t \in Thread, NEW what \in Seq(Operation), Todo(t, what)
  PROVE  /\ todo' \in [Thread -> Seq(Operation)]
         /\ \A x : /\ CountOf(todo[t], x) \in Nat /\ CountOf(what, x) \in Nat
                   /\ CountOf(todo'[t], x) = CountOf(what, x) + CountOf(todo[t], x)
<1>1. todo[t] \in Seq(Operation) /\ todo \in [Thread -> Seq(Operation)]
  BY DEF Shape
<1>2. todo' = [todo EXCEPT ![t] = what \o todo[t]]
  BY DEF Todo
<1>3. what \o todo[t] \in Seq(Operation)
  BY <1>1, ConcatProperties
<1>4. todo'[t] = what \o todo[t] /\ todo' \in [Thread -> Seq(Operation)]
  BY <1>1, <1>2, <1>3
<1>5. ASSUME NEW x
      PROVE  /\ CountOf(todo[t], x) \in Nat /\ CountOf(what, x) \in Nat
             /\ CountOf(todo'[t], x) = CountOf(what, x) + CountOf(todo[t], x)
  <2>1. CountOf(todo[t], x) \in Nat /\ CountOf(what, x) \in Nat
    BY <1>1, OccursFinite
  <2>2. CountOf(what \o todo[t], x) = CountOf(what, x) + CountOf(todo[t], x)
    BY <1>1, CountConcat
  <2> QED BY <1>4, <2>1, <2>2
<1> QED BY <1>4, <1>5

LEMMA ThenCounts ==
  ASSUME Shape, NEW t \in Thread, todo[t] # <<>>, NEW what \in Seq(Operation), Then(t, what)
  PROVE  /\ todo' \in [Thread -> Seq(Operation)] /\ Next1(t) \in Operation
         /\ \A x : /\ CountOf(todo[t], x) \in Nat /\ CountOf(what, x) \in Nat
                   /\ CountOf(todo'[t], x) = CountOf(what, x) + CountOf(todo[t], x)
                                             - One(Next1(t) = x)
<1>1. todo[t] \in Seq(Operation) /\ todo \in [Thread -> Seq(Operation)]
  BY DEF Shape
<1>2. todo' = [todo EXCEPT ![t] = what \o Tail(todo[t])]
  BY DEF Then
<1>3. Head(todo[t]) \in Operation /\ Tail(todo[t]) \in Seq(Operation)
  BY <1>1, HeadTailProperties
<1>4. what \o Tail(todo[t]) \in Seq(Operation)
  BY <1>3, ConcatProperties
<1>5. todo'[t] = what \o Tail(todo[t]) /\ todo' \in [Thread -> Seq(Operation)]
  BY <1>1, <1>2, <1>4
<1>6. ASSUME NEW x
      PROVE  /\ CountOf(todo[t], x) \in Nat /\ CountOf(what, x) \in Nat
             /\ CountOf(todo'[t], x) = CountOf(what, x) + CountOf(todo[t], x)
                                       - One(Next1(t) = x)
  <2>1. PICK a \in Nat, b \in Nat, c \in Nat :
           a = CountOf(todo[t], x) /\ b = CountOf(what, x) /\ c = CountOf(Tail(todo[t]), x)
    BY <1>1, <1>3, OccursFinite
  <2>2. CountOf(what \o Tail(todo[t]), x) = b + c
    BY <1>3, <2>1, CountConcat
  <2>3. a = One(Next1(t) = x) + c
    BY <1>1, <2>1, CountTail DEF Next1
  <2>4. One(Next1(t) = x) \in {0, 1}
    BY DEF One
  <2> QED BY <1>5, <2>1, <2>2, <2>3, <2>4
<1> QED BY <1>3, <1>5, <1>6 DEF Next1

LEMMA ThenNothing ==
  ASSUME Shape, NEW t \in Thread, todo[t] # <<>>, Then(t, <<>>)
  PROVE  /\ todo' \in [Thread -> Seq(Operation)] /\ Next1(t) \in Operation
         /\ \A x : /\ CountOf(todo[t], x) \in Nat
                   /\ CountOf(todo'[t], x) = CountOf(todo[t], x) - One(Next1(t) = x)
<1>1. todo[t] \in Seq(Operation) /\ todo \in [Thread -> Seq(Operation)]
  BY DEF Shape
<1>2. PICK r \in Seq(Operation) : r = Tail(todo[t]) /\ Head(todo[t]) \in Operation
  BY <1>1, HeadTailProperties
<1>3. todo' = [todo EXCEPT ![t] = <<>> \o r]
  BY <1>2 DEF Then
<1>4. <<>> \o r = r
  BY <1>2, ConcatEmptySeq
<1>5. todo'[t] = r /\ todo' \in [Thread -> Seq(Operation)]
  BY <1>1, <1>3, <1>4
<1>6. ASSUME NEW x
      PROVE  /\ CountOf(todo[t], x) \in Nat
             /\ CountOf(todo'[t], x) = CountOf(todo[t], x) - One(Next1(t) = x)
  <2>1. PICK m \in Nat, n \in Nat : m = CountOf(todo[t], x) /\ n = CountOf(r, x)
    BY <1>1, OccursFinite
  <2>2. m = One(Next1(t) = x) + n
    BY <1>1, <1>2, <2>1, CountTail DEF Next1
  <2>3. One(Next1(t) = x) \in {0, 1}
    BY DEF One
  <2> QED BY <1>5, <2>1, <2>2, <2>3
<1> QED BY <1>2, <1>5, <1>6 DEF Next1

-----------------------------------------------------------------------------
(* What RefcountExact adds up.                                                 *)
InThreads(o) == SumFunction([t \in Thread |-> Owes(t, o)])
InTables(o) == SumFunction([p \in Object |-> Cardinality(Owned(p, o))])

\* What one thread adds to it.
Mine(t, o) == Owes(t, o) + One(t \in Setting(o))

LEMMA Exact ==
  RefcountExact <=>
    \A o \in Object : rc[o] = InThreads(o) + InTables(o) + Cardinality(Setting(o))
BY DEF RefcountExact, InThreads, InTables

LEMMA ExactNext ==
  RefcountExact' <=>
    \A o \in Object : rc'[o] = InThreads(o)' + InTables(o)' + Cardinality(Setting(o)')
BY DEF RefcountExact, InThreads, InTables

LEMMA OwesIs ==
  ASSUME Shape, NEW t \in Thread, NEW o \in Object
  PROVE  /\ Owes(t, o) = held[t][o] + CountOf(todo[t], Release(o))
         /\ held[t][o] \in Nat /\ CountOf(todo[t], Release(o)) \in Nat /\ Owes(t, o) \in Nat
<1>1. todo[t] \in Seq(Operation) /\ held[t][o] \in Nat
  BY DEF Shape
<1>2. CountOf(todo[t], Release(o)) \in Nat
  BY <1>1, OccursFinite
<1>3. Owes(t, o) = held[t][o] + CountOf(todo[t], Release(o))
  BY DEF Owes, CountOf, OccursAt
<1> QED BY <1>1, <1>2, <1>3

LEMMA OwesIsNext ==
  ASSUME Shape', NEW t \in Thread, NEW o \in Object
  PROVE  /\ Owes(t, o)' = held'[t][o] + CountOf(todo'[t], Release(o))
         /\ held'[t][o] \in Nat /\ CountOf(todo'[t], Release(o)) \in Nat /\ Owes(t, o)' \in Nat
<1>1. todo'[t] \in Seq(Operation) /\ held'[t][o] \in Nat
  BY DEF Shape
<1>2. CountOf(todo'[t], Release(o)) \in Nat
  BY <1>1, OccursFinite
<1>3. Owes(t, o)' = held'[t][o] + CountOf(todo'[t], Release(o))
  BY DEF Owes, CountOf, OccursAt
<1> QED BY <1>1, <1>2, <1>3

\* The other threads are left alone by a step of t.
OthersStay(t) ==
    \A u \in Thread \ {t} :
        pc'[u] = pc[u] /\ call'[u] = call[u] /\ held'[u] = held[u] /\ todo'[u] = todo[u]

\* Then only what t adds changes.
LEMMA MineChanges ==
  ASSUME Shape, Shape', NEW t \in Thread, OthersStay(t), NEW o \in Object
  PROVE  /\ InThreads(o) \in Nat /\ InThreads(o)' \in Nat
         /\ Cardinality(Setting(o)) \in Nat /\ Cardinality(Setting(o)') \in Nat
         /\ Mine(t, o) \in Nat /\ Mine(t, o)' \in Nat
         /\ InThreads(o)' + Cardinality(Setting(o)')
              = InThreads(o) + Cardinality(Setting(o)) + Mine(t, o)' - Mine(t, o)
<1>1. IsFiniteSet(Thread)
  BY AssociationsAssumption
<1>2. PICK f \in [Thread -> Nat] : f = [u \in Thread |-> Owes(u, o)]
  BY OwesIs
<1>3. PICK g \in [Thread -> Nat] : g = [u \in Thread |-> Owes(u, o)']
  BY OwesIsNext
<1>4. \A y \in Thread \ {t} : f[y] = g[y]
  BY <1>2, <1>3 DEF OthersStay, Owes
<1>5. PICK rest \in Nat : SumFunction(f) = f[t] + rest /\ SumFunction(g) = g[t] + rest
  BY <1>1, <1>4, SumSplits
<1>6. PICK m \in Nat, n \in Nat : m = Owes(t, o) /\ n = Owes(t, o)'
  BY OwesIs, OwesIsNext
<1>7. InThreads(o) = m + rest /\ InThreads(o)' = n + rest
  BY <1>2, <1>3, <1>5, <1>6 DEF InThreads
<1>8. PICK S \in SUBSET Thread, T \in SUBSET Thread :
        S = Setting(o) /\ T = Setting(o)' /\ \A y \in Thread \ {t} : y \in S <=> y \in T
  <2>1. Setting(o) \in SUBSET Thread /\ Setting(o)' \in SUBSET Thread
    BY DEF Setting
  <2>2. \A y \in Thread \ {t} : y \in Setting(o) <=> y \in Setting(o)'
    BY DEF Setting, OthersStay
  <2> QED BY <2>1, <2>2
<1>9. /\ Cardinality(S) \in Nat /\ Cardinality(T) \in Nat
      /\ Cardinality(T) = Cardinality(S) + One(t \in T) - One(t \in S)
  <2>1. S \ {t} = T \ {t}
    BY <1>8
  <2> QED BY <1>1, <2>1, OneMember
<1>10. PICK a \in Nat, b \in Nat : a = Cardinality(S) /\ b = Cardinality(T)
  BY <1>9
<1>11. PICK i \in {0, 1}, j \in {0, 1} : i = One(t \in S) /\ j = One(t \in T) /\ b = a + j - i
  BY <1>9, <1>10 DEF One
<1>12. Mine(t, o) = m + i /\ Mine(t, o)' = n + j
  BY <1>6, <1>8, <1>11 DEF Mine
<1>13. Cardinality(Setting(o)) = a /\ Cardinality(Setting(o)') = b
  BY <1>8, <1>10
<1>14. (n + rest) + b = (m + rest) + a + (n + j) - (m + i)
  BY <1>11
<1>15. m + rest \in Nat /\ n + rest \in Nat /\ m + i \in Nat /\ n + j \in Nat
  OBVIOUS
<1> QED BY <1>7, <1>12, <1>13, <1>14, <1>15

\* A step that changes one table changes the count of what it owns.
LEMMA OwnedChanges ==
  ASSUME Shape, Shape', NEW p \in Object,
         \A q \in Object \ {p} : associations'[q] = associations[q], NEW o \in Object
  PROVE  /\ InTables(o) \in Nat /\ InTables(o)' \in Nat
         /\ Cardinality(Owned(p, o)) \in Nat /\ Cardinality(Owned(p, o)') \in Nat
         /\ InTables(o)' = InTables(o) + Cardinality(Owned(p, o)') - Cardinality(Owned(p, o))
<1>1. IsFiniteSet(Object)
  BY AssociationsAssumption
<1>2. PICK f \in [Object -> Nat] : f = [q \in Object |-> Cardinality(Owned(q, o))]
  BY OwnedIs
<1>3. \A q \in Object : Cardinality(Owned(q, o)') \in Nat
  <2> SUFFICES ASSUME NEW q \in Object PROVE Cardinality(Owned(q, o)') \in Nat
    OBVIOUS
  <2>1. associations'[q] \in Tables \cup {NULL}
    BY DEF Shape
  <2>2. Owned(q, o)' \in SUBSET Key
    BY <2>1, TablesAre DEF Owned, Table
  <2>3. IsFiniteSet(Owned(q, o)')
    BY <2>2, AssociationsAssumption, FS_Subset
  <2> QED BY <2>3, FS_CardinalityType
<1>4. PICK g \in [Object -> Nat] : g = [q \in Object |-> Cardinality(Owned(q, o)')]
  BY <1>3
<1>5. \A q \in Object \ {p} : f[q] = g[q]
  BY <1>2, <1>4 DEF Owned, Table
<1>6. PICK rest \in Nat : SumFunction(f) = f[p] + rest /\ SumFunction(g) = g[p] + rest
  BY <1>1, <1>5, SumSplits
<1>7. PICK m \in Nat, n \in Nat : m = Cardinality(Owned(p, o)) /\ n = Cardinality(Owned(p, o)')
  BY <1>3, OwnedIs
<1>8. InTables(o) = m + rest /\ InTables(o)' = n + rest
  BY <1>2, <1>4, <1>6, <1>7 DEF InTables
<1> QED BY <1>7, <1>8

\* The counts stay exact if they change by as much: t and the table of p are the only
\* ones to change.
LEMMA ExactKept ==
  ASSUME Shape, Shape', RefcountExact, NEW t \in Thread, OthersStay(t), NEW p \in Object,
         \A q \in Object \ {p} : associations'[q] = associations[q],
         \A o \in Object :
            rc'[o] + Mine(t, o) + Cardinality(Owned(p, o))
              = rc[o] + Mine(t, o)' + Cardinality(Owned(p, o)')
  PROVE  RefcountExact'
<1> SUFFICES ASSUME NEW o \in Object
             PROVE  rc'[o] = InThreads(o)' + InTables(o)' + Cardinality(Setting(o)')
  BY ExactNext
<1>1. rc[o] = InThreads(o) + InTables(o) + Cardinality(Setting(o))
  BY Exact
<1>2. /\ InThreads(o) \in Nat /\ InThreads(o)' \in Nat
      /\ Cardinality(Setting(o)) \in Nat /\ Cardinality(Setting(o)') \in Nat
      /\ Mine(t, o) \in Nat /\ Mine(t, o)' \in Nat
      /\ InThreads(o)' + Cardinality(Setting(o)')
           = InThreads(o) + Cardinality(Setting(o)) + Mine(t, o)' - Mine(t, o)
  BY MineChanges
<1>3. /\ InTables(o) \in Nat /\ InTables(o)' \in Nat
      /\ Cardinality(Owned(p, o)) \in Nat /\ Cardinality(Owned(p, o)') \in Nat
      /\ InTables(o)' = InTables(o) + Cardinality(Owned(p, o)') - Cardinality(Owned(p, o))
  BY OwnedChanges
<1>4. PICK a \in Nat, b \in Nat, c \in Nat, d \in Nat, e \in Nat, f \in Nat :
        /\ a = InThreads(o) /\ b = InThreads(o)' /\ c = Cardinality(Setting(o))
        /\ d = Cardinality(Setting(o)') /\ e = Mine(t, o) /\ f = Mine(t, o)'
  BY <1>2
<1>5. PICK g \in Nat, h \in Nat, i \in Nat, j \in Nat :
        /\ g = InTables(o) /\ h = InTables(o)' /\ i = Cardinality(Owned(p, o))
        /\ j = Cardinality(Owned(p, o)')
  BY <1>3
<1>6. PICK r \in Int : r = rc'[o]
  BY DEF Shape
<1>7. b + d = a + c + f - e /\ h = g + j - i
  BY <1>2, <1>3, <1>4, <1>5
<1>8. r + e + i = (a + g + c) + f + j
  BY <1>1, <1>4, <1>5, <1>6
<1>9. r = b + h + d
  BY <1>7, <1>8
<1> QED BY <1>4, <1>5, <1>6, <1>9

\* A step that leaves the tables alone.
LEMMA ExactQuiet ==
  ASSUME Shape, Shape', RefcountExact, NEW t \in Thread, OthersStay(t),
         UNCHANGED associations,
         \A o \in Object : rc'[o] + Mine(t, o) = rc[o] + Mine(t, o)'
  PROVE  RefcountExact'
<1>1. CASE Object = {}
  BY <1>1 DEF RefcountExact
<1>2. CASE Object # {}
  <2>1. PICK p \in Object : TRUE
    BY <1>2
  <2>2. ASSUME NEW o \in Object
        PROVE  rc'[o] + Mine(t, o) + Cardinality(Owned(p, o))
                 = rc[o] + Mine(t, o)' + Cardinality(Owned(p, o)')
    <3>1. Owned(p, o)' = Owned(p, o) /\ Cardinality(Owned(p, o)) \in Nat
      BY OwnedIs DEF Owned, Table
    <3>2. rc'[o] + Mine(t, o) = rc[o] + Mine(t, o)'
      OBVIOUS
    <3> QED BY <3>1, <3>2
  <2> HIDE DEF Mine
  <2>3. \A q \in Object \ {p} : associations'[q] = associations[q]
    OBVIOUS
  <2> QED BY <2>2, <2>3, ExactKept
<1> QED BY <1>1, <1>2

\* The count is no less than what anything adds to it.
LEMMA CountsAtLeast ==
  ASSUME Shape, RefcountExact, NEW o \in Object
  PROVE  /\ rc[o] \in Nat
         /\ \A t \in Thread : Mine(t, o) \in Nat /\ rc[o] >= Mine(t, o)
         /\ \A p \in Object : Cardinality(Owned(p, o)) \in Nat /\ rc[o] >= Cardinality(Owned(p, o))
<1>1. IsFiniteSet(Thread) /\ IsFiniteSet(Object)
  BY AssociationsAssumption
<1>2. PICK f \in [Thread -> Nat] : f = [u \in Thread |-> Owes(u, o)]
  BY OwesIs
<1>3. PICK g \in [Object -> Nat] : g = [q \in Object |-> Cardinality(Owned(q, o))]
  BY OwnedIs
<1>4. PICK a \in Nat, b \in Nat, c \in Nat :
        a = InThreads(o) /\ b = InTables(o) /\ c = Cardinality(Setting(o))
  <2>1. InThreads(o) \in Nat
    BY <1>1, <1>2, SumType DEF InThreads
  <2>2. InTables(o) \in Nat
    BY <1>1, <1>3, SumType DEF InTables
  <2> QED BY <2>1, <2>2, SettingIs
<1>5. rc[o] = a + b + c
  BY <1>4, Exact
<1>6. ASSUME NEW t \in Thread PROVE Mine(t, o) \in Nat /\ a + c >= Mine(t, o)
  <2>1. PICK m \in Nat : m = Owes(t, o)
    BY OwesIs
  <2>2. SumFunction(f) >= f[t]
    BY <1>1, SumAtLeast
  <2>3. a >= m
    BY <1>2, <1>4, <2>1, <2>2 DEF InThreads
  <2>4. One(t \in Setting(o)) <= Cardinality(Setting(o))
    BY <1>1, SettingIs, OneMember
  <2>5. PICK i \in {0, 1} : i = One(t \in Setting(o))
    BY DEF One
  <2>6. i <= c
    BY <1>4, <2>4, <2>5
  <2>7. Mine(t, o) = m + i
    BY <2>1, <2>5 DEF Mine
  <2> QED BY <2>3, <2>6, <2>7
<1>7. ASSUME NEW p \in Object
      PROVE  Cardinality(Owned(p, o)) \in Nat /\ b >= Cardinality(Owned(p, o))
  <2>1. PICK m \in Nat : m = Cardinality(Owned(p, o))
    BY OwnedIs
  <2>2. SumFunction(g) >= g[p]
    BY <1>1, SumAtLeast
  <2>3. b >= m
    BY <1>3, <1>4, <2>1, <2>2 DEF InTables
  <2> QED BY <2>1, <2>3
<1>8. rc[o] \in Nat /\ rc[o] >= a + c /\ rc[o] >= b
  BY <1>5
<1>9. ASSUME NEW t \in Thread PROVE rc[o] >= Mine(t, o)
  BY <1>6, <1>8
<1>10. ASSUME NEW p \in Object PROVE rc[o] >= Cardinality(Owned(p, o))
  BY <1>7, <1>8
<1> QED BY <1>6, <1>7, <1>8, <1>9, <1>10

\* Nor than what two threads add to it.
LEMMA CountsAtLeastTwo ==
  ASSUME Shape, RefcountExact, NEW o \in Object, NEW t \in Thread, NEW u \in Thread, t # u
  PROVE  rc[o] >= Owes(t, o) + Owes(u, o)
<1>1. IsFiniteSet(Thread) /\ IsFiniteSet(Object)
  BY AssociationsAssumption
<1>2. PICK f \in [Thread -> Nat] : f = [v \in Thread |-> Owes(v, o)]
  BY OwesIs
<1>3. PICK g \in [Object -> Nat] : g = [q \in Object |-> Cardinality(Owned(q, o))]
  BY OwnedIs
<1>4. PICK a \in Nat, b \in Nat, c \in Nat :
        a = InThreads(o) /\ b = InTables(o) /\ c = Cardinality(Setting(o))
  <2>1. InThreads(o) \in Nat
    BY <1>1, <1>2, SumType DEF InThreads
  <2>2. InTables(o) \in Nat
    BY <1>1, <1>3, SumType DEF InTables
  <2> QED BY <2>1, <2>2, SettingIs
<1>5. rc[o] = a + b + c
  BY <1>4, Exact
<1>6. PICK m \in Nat, n \in Nat : m = Owes(t, o) /\ n = Owes(u, o)
  BY OwesIs
<1>7. SumFunction(f) >= f[t] + f[u]
  BY <1>1, <1>2, SumAtLeastTwo
<1>8. a >= m + n
  BY <1>2, <1>4, <1>6, <1>7 DEF InThreads
<1> QED BY <1>5, <1>6, <1>8

\* What is referenced is alive.
LEMMA HeldAlive ==
  ASSUME CountInv, NEW t \in Thread, NEW o \in Object, held[t][o] > 0
  PROVE  phase[o] = "alive" /\ rc[o] \in Nat \ {0}
<1> USE DEF CountInv
<1>1. PICK n \in Nat : n = Mine(t, o) /\ rc[o] >= n
  BY CountsAtLeast
<1>2. PICK h \in Nat, c \in Nat : h = held[t][o] /\ Owes(t, o) = h + c
  BY OwesIs
<1>3. One(t \in Setting(o)) \in {0, 1}
  BY DEF One
<1>4. n >= 1
  BY <1>1, <1>2, <1>3 DEF Mine
<1>5. rc[o] \in Nat /\ rc[o] >= 1
  BY <1>1, <1>4, CountsAtLeast
<1> QED BY <1>5 DEF OnlyAliveCounted

LEMMA OwnedAlive ==
  ASSUME CountInv, NEW o \in Object, NEW k \in Table(o),
         "SETTER_RETAIN" \in associations[o][k].policy
  PROVE  /\ associations[o][k].value \in Object
         /\ phase[associations[o][k].value] = "alive"
<1> USE DEF CountInv
<1>1. PICK v \in Object : v = associations[o][k].value
  BY TableIs DEF Entry
<1>2. k \in Owned(o, v)
  BY <1>1 DEF Owned
<1>3. IsFiniteSet(Key) /\ Owned(o, v) \in SUBSET Key /\ k \in Key
  BY <1>2, AssociationsAssumption, OwnedIs
<1>4. One(k \in Owned(o, v)) <= Cardinality(Owned(o, v))
  BY <1>3, OneMember
<1>5. Cardinality(Owned(o, v)) >= 1
  BY <1>2, <1>4 DEF One
<1>6. PICK n \in Nat : n = Cardinality(Owned(o, v)) /\ rc[v] >= n
  BY CountsAtLeast
<1>7. rc[v] \in Nat /\ rc[v] >= 1
  BY <1>5, <1>6, CountsAtLeast
<1> QED BY <1>1, <1>7 DEF OnlyAliveCounted

\* A getter that retains finds a value that the association owns.
LEMMA FoundAlive ==
  ASSUME CountInv, NEW t \in Thread, pc[t] = "get"
  PROVE  call[t].value \in Object /\ phase[call[t].value] = "alive"
<1>1. PICK o, k :
        /\ o \in Object /\ k \in Table(o) /\ associations[o][k].value = call[t].value
        /\ "GETTER_RETAIN" \in associations[o][k].policy
  BY DEF CountInv, FoundIsThere, FoundAt
<1>2. associations[o][k].policy \in Policy
  BY <1>1, TableIs DEF CountInv, Entry
<1>3. "SETTER_RETAIN" \in associations[o][k].policy
  BY <1>1, <1>2, AssociationsAssumption
<1> QED BY <1>1, <1>3, OwnedAlive

-----------------------------------------------------------------------------
(* The steps and CountInv.                                                     *)

\* A step may change the lock, and the tables, as its own.
LockRule(t) == lock' = lock \/ (lock = NULL /\ lock' = t) \/ lock = t
TablesRule(t) == associations' = associations \/ lock \in {NULL, t}

LEMMA PromisesKept ==
  ASSUME CountInv, Shape', NEW t \in Thread, OthersStay(t), LockRule(t), TablesRule(t),
         PlacedAt(t)', FoundAt(t)', pc'[t] = "set_flag" => lock' = t,
         RefcountExact', OnlyAliveCounted', FreesOnce'
  PROVE  CountInv'
<1> USE DEF CountInv
<1>1. ASSUME NEW u \in Thread \ {t}
      PROVE  PlacedAt(u)' /\ FoundAt(u)' /\ (pc'[u] = "set_flag" => lock' = u)
  <2>1. pc'[u] = pc[u] /\ call'[u] = call[u] /\ held'[u] = held[u] /\ todo'[u] = todo[u]
    BY DEF OthersStay
  <2>2. PlacedAt(u)'
    BY <2>1 DEF Placed, PlacedAt
  <2>3. lock = u => lock' = u /\ associations' = associations
    BY AssociationsAssumption DEF LockRule, TablesRule
  <2>4. FoundAt(u)'
    BY <2>1, <2>3 DEF FoundIsThere, FoundAt, Table
  <2>5. pc'[u] = "set_flag" => lock' = u
    BY <2>1, <2>3 DEF FlagLocked
  <2> QED BY <2>2, <2>4, <2>5
<1>2. Placed'
  BY <1>1 DEF Placed
<1>3. FoundIsThere'
  BY <1>1 DEF FoundIsThere
<1>4. FlagLocked'
  BY <1>1 DEF FlagLocked
<1> QED BY <1>2, <1>3, <1>4

\* Nothing is done to an object that is being deallocated, or to its free.
LEMMA FreesStay ==
  ASSUME CountInv, NEW t \in Thread, OthersStay(t),
         \A o \in Object : Frees(t, o)' = Frees(t, o),
         \A o \in Object : phase[o] = "dying" => phase'[o] = "dying"
  PROVE  FreesOnce'
<1>1. ASSUME NEW u \in Thread, NEW o \in Object PROVE Frees(u, o)' = Frees(u, o)
  BY DEF OthersStay, Frees
<1> HIDE DEF Frees
<1> QED BY <1>1 DEF CountInv, FreesOnce

\* A step that neither gives nor takes a reference.
LEMMA QuietStep ==
  ASSUME CountInv, Shape', NEW t \in Thread, OthersStay(t), LockRule(t),
         UNCHANGED <<associations, rc, phase, held>>,
         \A o \in Object : /\ CountOf(todo'[t], Release(o)) = CountOf(todo[t], Release(o))
                           /\ Frees(t, o)' = Frees(t, o),
         pc[t] # "set", pc'[t] # "set",
         PlacedAt(t)', FoundAt(t)', pc'[t] = "set_flag" => lock' = t
  PROVE  CountInv'
<1>1. ASSUME NEW o \in Object PROVE Mine(t, o)' = Mine(t, o)
  <2>1. Owes(t, o)' = Owes(t, o)
    BY OwesIs, OwesIsNext DEF CountInv
  <2>2. t \notin Setting(o) /\ t \notin Setting(o)'
    BY DEF Setting
  <2> QED BY <2>1, <2>2 DEF Mine
<1>2. ASSUME NEW o \in Object PROVE rc'[o] + Mine(t, o) = rc[o] + Mine(t, o)'
  BY <1>1
<1> HIDE DEF Mine
<1>3. RefcountExact'
  BY <1>2, ExactQuiet DEF CountInv
<1>4. OnlyAliveCounted'
  BY DEF CountInv, OnlyAliveCounted
<1>5. FreesOnce'
  BY FreesStay
<1>6. TablesRule(t)
  BY DEF TablesRule
<1> QED BY <1>3, <1>4, <1>5, <1>6, PromisesKept

\* A step that leaves what is to be done alone.
LEMMA TodoStays ==
  ASSUME NEW t, UNCHANGED todo
  PROVE  \A o \in Object : /\ CountOf(todo'[t], Release(o)) = CountOf(todo[t], Release(o))
                           /\ Frees(t, o)' = Frees(t, o)
BY DEF Frees

LEMMA NoCallIs == NoCall \in Call
BY DEF NoCall, Call

LEMMA SetFlagInv ==
  ASSUME CountInv, NEW t \in Thread, SetFlag(t)
  PROVE  CountInv'
<1> USE DEF CountInv
<1>1. /\ pc[t] = "set_flag" /\ lock = t /\ call[t].old \in Class
      /\ hasAssoc' = [hasAssoc EXCEPT ![call[t].old] = TRUE]
      /\ lock' = NULL /\ pc' = [pc EXCEPT ![t] = "done"]
      /\ UNCHANGED <<associations, isa, rc, phase, held, call, todo>>
  BY DEF SetFlag, Goto, FlagLocked, Placed, PlacedAt
<1>2. Shape'
  BY <1>1 DEF Shape
<1>3. OthersStay(t) /\ pc'[t] = "done"
  BY <1>1 DEF OthersStay, Shape
<1>4. PlacedAt(t)' /\ FoundAt(t)'
  BY <1>3 DEF PlacedAt, FoundAt
<1>5. LockRule(t)
  BY <1>1 DEF LockRule
<1> QED BY <1>1, <1>2, <1>3, <1>4, <1>5, TodoStays, QuietStep

LEMMA DoneInv ==
  ASSUME CountInv, NEW t \in Thread, Done(t)
  PROVE  CountInv'
<1> USE DEF CountInv
<1>1. /\ pc[t] = "done" /\ pc' = [pc EXCEPT ![t] = "idle"] /\ call' = [call EXCEPT ![t] = NoCall]
      /\ UNCHANGED <<associations, lock, isa, hasAssoc, rc, phase, held, todo>>
  BY DEF Done, Goto
<1>2. Shape'
  BY <1>1, NoCallIs DEF Shape
<1>3. OthersStay(t) /\ pc'[t] = "idle"
  BY <1>1 DEF OthersStay, Shape
<1>4. PlacedAt(t)' /\ FoundAt(t)'
  BY <1>3 DEF PlacedAt, FoundAt
<1>5. LockRule(t)
  BY <1>1 DEF LockRule
<1> QED BY <1>1, <1>2, <1>3, <1>4, <1>5, TodoStays, QuietStep

LEMMA GetInv ==
  ASSUME CountInv, NEW t \in Thread, NEW o \in Object, NEW k \in Key, Get(t, o, k)
  PROVE  CountInv'
<1> USE DEF CountInv
<1>1. /\ pc[t] = "idle" /\ todo[t] = <<>> /\ held[t][o] > 0 /\ lock = NULL
      /\ UNCHANGED <<associations, isa, hasAssoc, rc, phase, held, todo>>
  BY DEF Get, Begin
<1>2. CASE UNCHANGED <<call, lock, pc>>
  <2>1. Shape' /\ OthersStay(t)
    BY <1>1, <1>2 DEF Shape, OthersStay
  <2>2. PlacedAt(t)' /\ FoundAt(t)' /\ pc'[t] = "idle"
    BY <1>1, <1>2 DEF PlacedAt, FoundAt
  <2>3. LockRule(t)
    BY <1>2 DEF LockRule
  <2> QED BY <1>1, <2>1, <2>2, <2>3, TodoStays, QuietStep
<1>3. CASE ~ UNCHANGED <<call, lock, pc>>
  <2>1. /\ associations[o] # NULL /\ k \in DOMAIN associations[o]
        /\ "GETTER_RETAIN" \in associations[o][k].policy
        /\ call' = [call EXCEPT ![t] = [NoCall EXCEPT
                      !.obj = o, !.key = k, !.value = associations[o][k].value]]
        /\ lock' = t /\ pc' = [pc EXCEPT ![t] = "get"]
    BY <1>3 DEF Get, GetterLock, Goto
  <2>2. k \in Table(o) /\ associations[o][k] \in Entry
    BY <2>1, TableIs DEF Table
  <2>3. PICK c \in Call : /\ c = [NoCall EXCEPT !.obj = o, !.key = k,
                                                !.value = associations[o][k].value]
                          /\ c.obj = o /\ c.key = k /\ c.value = associations[o][k].value
    <3>1. PICK v \in Object : v = associations[o][k].value
      BY <2>2 DEF Entry
    <3>2. PICK c : c = [NoCall EXCEPT !.obj = o, !.key = k, !.value = v]
      OBVIOUS
    <3>3. c.obj = o /\ c.key = k /\ c.value = v
      BY <3>2 DEF NoCall
    <3>4. c \in Call
      BY <3>2, NoCallIs DEF Call
    <3> QED BY <3>1, <3>2, <3>3, <3>4
  <2>4. call' = [call EXCEPT ![t] = c]
    BY <2>1, <2>3
  <2>5. Shape' /\ OthersStay(t) /\ pc'[t] = "get" /\ call'[t] = c
    BY <1>1, <2>1, <2>4 DEF Shape, OthersStay
  <2>6. PlacedAt(t)'
    BY <1>1, <2>5 DEF PlacedAt
  <2>7. FoundAt(t)'
    BY <1>1, <2>1, <2>2, <2>3, <2>5 DEF FoundAt, Table
  <2>8. LockRule(t)
    BY <1>1, <2>1 DEF LockRule
  <2> QED BY <1>1, <2>5, <2>6, <2>7, <2>8, TodoStays, QuietStep
<1> QED BY <1>2, <1>3

LEMMA SetClassInv ==
  ASSUME CountInv, NEW t \in Thread, NEW o \in Object, NEW c \in Class, SetClass(t, o, c)
  PROVE  CountInv'
<1> USE DEF CountInv
<1>1. /\ pc[t] = "idle" /\ todo[t] = <<>> /\ held[t][o] > 0
      /\ isa' = [isa EXCEPT ![o] = c] /\ pc' = [pc EXCEPT ![t] = "swizzle"]
      /\ call' = [call EXCEPT ![t] = [NoCall EXCEPT !.obj = o, !.old = isa[o], !.new = c]]
      /\ UNCHANGED <<associations, lock, hasAssoc, rc, phase, held, todo>>
  BY DEF SetClass, Begin, Goto
<1>2. PICK d \in Call : /\ d = [NoCall EXCEPT !.obj = o, !.old = isa[o], !.new = c]
                        /\ d.obj = o /\ d.old = isa[o] /\ d.new = c
  <2>1. PICK old \in Class : old = isa[o]
    BY DEF Shape
  <2>2. PICK d : d = [NoCall EXCEPT !.obj = o, !.old = old, !.new = c]
    OBVIOUS
  <2>3. d.obj = o /\ d.old = old /\ d.new = c
    BY <2>2 DEF NoCall
  <2>4. d \in Call
    BY <2>2, NoCallIs DEF Call
  <2> QED BY <2>1, <2>2, <2>3, <2>4
<1>3. call' = [call EXCEPT ![t] = d]
  BY <1>1, <1>2
<1>4. Shape' /\ OthersStay(t) /\ pc'[t] = "swizzle" /\ call'[t] = d
  BY <1>1, <1>3 DEF Shape, OthersStay
<1>5. PlacedAt(t)' /\ FoundAt(t)'
  BY <1>1, <1>2, <1>4 DEF PlacedAt, FoundAt, Shape
<1>6. LockRule(t)
  BY <1>1 DEF LockRule
<1> QED BY <1>1, <1>4, <1>5, <1>6, TodoStays, QuietStep

LEMMA SwizzledInv ==
  ASSUME CountInv, NEW t \in Thread, Swizzled(t)
  PROVE  CountInv'
<1> USE DEF CountInv
<1>1. /\ pc[t] = "swizzle" /\ call[t].old \in Class /\ call[t].new \in Class
      /\ hasAssoc' = [hasAssoc EXCEPT ![call[t].new] = @ \/ hasAssoc[call[t].old]]
      /\ pc' = [pc EXCEPT ![t] = "done"]
      /\ UNCHANGED <<associations, lock, isa, rc, phase, held, call, todo>>
  BY DEF Swizzled, PassFlag, Goto, Placed, PlacedAt
<1>2. PICK old \in Class, new \in Class : old = call[t].old /\ new = call[t].new
  BY <1>1
<1>3. hasAssoc' \in [Class -> BOOLEAN]
  <2>1. hasAssoc' = [hasAssoc EXCEPT ![new] = hasAssoc[new] \/ hasAssoc[old]]
    BY <1>1, <1>2
  <2>2. (hasAssoc[new] \/ hasAssoc[old]) \in BOOLEAN
    OBVIOUS
  <2> QED BY <2>1, <2>2 DEF Shape
<1>4. Shape' /\ OthersStay(t) /\ pc'[t] = "done"
  BY <1>1, <1>3 DEF Shape, OthersStay
<1>5. PlacedAt(t)' /\ FoundAt(t)'
  BY <1>4 DEF PlacedAt, FoundAt
<1>6. LockRule(t)
  BY <1>1 DEF LockRule
<1> QED BY <1>1, <1>4, <1>5, <1>6, TodoStays, QuietStep

LEMMA RemoveAllInv ==
  ASSUME CountInv, NEW t \in Thread, NEW o \in Object, RemoveAll(t, o)
  PROVE  CountInv'
<1> USE DEF CountInv
<1>1. /\ pc[t] = "idle" /\ Todo(t, <<Removing(o)>>)
      /\ UNCHANGED <<associations, lock, isa, hasAssoc, rc, phase, held, pc, call>>
  BY DEF RemoveAll, Begin, Removing
<1>2. <<Removing(o)>> \in Seq(Operation)
  BY OperationsAre
<1>3. /\ todo' \in [Thread -> Seq(Operation)]
      /\ \A x : /\ CountOf(todo[t], x) \in Nat
                /\ CountOf(todo'[t], x) = CountOf(<<Removing(o)>>, x) + CountOf(todo[t], x)
  BY <1>1, <1>2, TodoCounts
<1>4. ASSUME NEW p \in Object
      PROVE  /\ CountOf(todo'[t], Release(p)) = CountOf(todo[t], Release(p))
             /\ Frees(t, p)' = Frees(t, p)
  <2>1. ASSUME NEW x, Removing(o) # x PROVE CountOf(todo'[t], x) = CountOf(todo[t], x)
    <3>1. CountOf(<<Removing(o)>>, x) = 0
      BY <2>1, CountSingle DEF One
    <3> QED BY <1>3, <3>1
  <2>2. CountOf(todo'[t], Release(p)) = CountOf(todo[t], Release(p))
    BY <2>1, OperationsDiffer
  <2>3. CountOf(todo'[t], Freeing(p)) = CountOf(todo[t], Freeing(p))
    BY <2>1, OperationsDiffer
  <2>4. Freeing(p)' = Freeing(p)
    BY DEF Freeing
  <2> QED BY <2>2, <2>3, <2>4 DEF Frees
<1>5. Shape'
  BY <1>1, <1>3 DEF Shape
<1>6. OthersStay(t)
  BY <1>1 DEF OthersStay, Todo, Shape
<1>7. PlacedAt(t)' /\ FoundAt(t)' /\ pc'[t] = "idle"
  BY <1>1 DEF PlacedAt, FoundAt
<1>8. LockRule(t)
  BY <1>1 DEF LockRule
<1> QED BY <1>1, <1>4, <1>5, <1>6, <1>7, <1>8, QuietStep

\* A reference given up is a release to be done.
LEMMA DropInv ==
  ASSUME CountInv, NEW t \in Thread, NEW o \in Object, Drop(t, o)
  PROVE  CountInv'
<1> USE DEF CountInv
<1>1. /\ pc[t] = "idle" /\ held[t][o] > 0 /\ Todo(t, <<Release(o)>>)
      /\ held' = [held EXCEPT ![t][o] = @ - 1]
      /\ UNCHANGED <<associations, lock, isa, hasAssoc, rc, phase, pc, call>>
  BY DEF Drop, Begin
<1>2. <<Release(o)>> \in Seq(Operation)
  BY OperationsAre
<1>3. /\ todo' \in [Thread -> Seq(Operation)]
      /\ \A x : /\ CountOf(todo[t], x) \in Nat
                /\ CountOf(todo'[t], x) = CountOf(<<Release(o)>>, x) + CountOf(todo[t], x)
  BY <1>1, <1>2, TodoCounts
<1>4. /\ held' \in [Thread -> [Object -> Nat]]
      /\ \A p \in Object : held'[t][p] = IF p = o THEN held[t][p] - 1 ELSE held[t][p]
  BY <1>1 DEF Shape
<1>5. Shape'
  BY <1>1, <1>3, <1>4 DEF Shape
<1>6. OthersStay(t)
  BY <1>1 DEF OthersStay, Todo, Shape
<1>7. ASSUME NEW p \in Object PROVE Mine(t, p)' = Mine(t, p)
  <2>1. CountOf(todo'[t], Release(p)) = One(o = p) + CountOf(todo[t], Release(p))
    <3>1. CountOf(<<Release(o)>>, Release(p)) = One(o = p)
      BY CountSingle, OperationsDiffer DEF One
    <3> QED BY <1>3, <3>1
  <2>2. PICK c \in Nat, h \in Nat : c = CountOf(todo[t], Release(p)) /\ h = held[t][p]
    BY <1>3 DEF Shape
  <2>3. Owes(t, p) = h + c
    BY <2>2, OwesIs
  <2>4. Owes(t, p)' = (IF p = o THEN h - 1 ELSE h) + (One(o = p) + c)
    BY <1>4, <1>5, <2>1, <2>2, OwesIsNext
  <2>5. Owes(t, p)' = Owes(t, p)
    BY <2>2, <2>3, <2>4 DEF One
  <2>6. t \notin Setting(p) /\ t \notin Setting(p)'
    BY <1>1 DEF Setting
  <2> QED BY <2>5, <2>6 DEF Mine
<1>8. ASSUME NEW p \in Object PROVE rc'[p] + Mine(t, p) = rc[p] + Mine(t, p)'
  BY <1>1, <1>7
<1>9. ASSUME NEW p \in Object PROVE Frees(t, p)' = Frees(t, p)
  <2>1. CountOf(<<Release(o)>>, Freeing(p)) = 0
    BY CountSingle, OperationsDiffer DEF One
  <2>2. Freeing(p)' = Freeing(p)
    BY DEF Freeing
  <2> QED BY <1>3, <2>1, <2>2 DEF Frees
<1> HIDE DEF Mine
<1>10. RefcountExact'
  BY <1>1, <1>5, <1>6, <1>8, ExactQuiet
<1>11. FreesOnce'
  BY <1>1, <1>6, <1>9, FreesStay
<1>12. OnlyAliveCounted'
  BY <1>1 DEF OnlyAliveCounted
<1>13. PlacedAt(t)' /\ FoundAt(t)' /\ pc'[t] = "idle"
  BY <1>1 DEF PlacedAt, FoundAt
<1>14. LockRule(t) /\ TablesRule(t)
  BY <1>1 DEF LockRule, TablesRule
<1> QED BY <1>5, <1>6, <1>10, <1>11, <1>12, <1>13, <1>14, PromisesKept

\* A getter's retain gives its thread a reference.
LEMMA GetRetainInv ==
  ASSUME CountInv, NEW t \in Thread, GetRetain(t)
  PROVE  CountInv'
<1> USE DEF CountInv
<1>1. pc[t] = "get" /\ lock = t /\ call[t].value \in Object
  BY FoundAlive DEF GetRetain, FoundIsThere, FoundAt
<1>2. PICK x \in Object : x = call[t].value /\ phase[x] = "alive"
  BY <1>1, FoundAlive
<1>3. /\ rc' = [rc EXCEPT ![x] = @ + 1] /\ held' = [held EXCEPT ![t][x] = @ + 1]
      /\ lock' = NULL /\ pc' = [pc EXCEPT ![t] = "done"]
      /\ UNCHANGED <<associations, isa, hasAssoc, phase, call, todo>>
  BY <1>1, <1>2 DEF GetRetain, Goto
<1>4. /\ held' \in [Thread -> [Object -> Nat]]
      /\ \A p \in Object : held'[t][p] = held[t][p] + One(p = x)
  BY <1>3 DEF Shape, One
<1>5. /\ rc' \in [Object -> Int]
      /\ \A p \in Object : rc'[p] = rc[p] + One(p = x)
  BY <1>3 DEF Shape, One
<1>6. Shape'
  BY <1>3, <1>4, <1>5 DEF Shape
<1>7. OthersStay(t) /\ pc'[t] = "done"
  BY <1>3 DEF OthersStay, Shape
<1>8. ASSUME NEW p \in Object PROVE rc'[p] + Mine(t, p) = rc[p] + Mine(t, p)'
  <2>1. PICK c \in Nat, h \in Nat, r \in Int :
          c = CountOf(todo[t], Release(p)) /\ h = held[t][p] /\ r = rc[p]
    BY OwesIs DEF Shape
  <2>2. PICK i \in {0, 1} : i = One(p = x)
    BY DEF One
  <2>3. Owes(t, p) = h + c /\ Owes(t, p)' = h + i + c
    BY <1>3, <1>4, <1>6, <2>1, <2>2, OwesIs, OwesIsNext
  <2>4. t \notin Setting(p) /\ t \notin Setting(p)'
    BY <1>1, <1>7 DEF Setting
  <2>5. Mine(t, p) = h + c /\ Mine(t, p)' = h + i + c
    BY <2>3, <2>4 DEF Mine, One
  <2> QED BY <1>5, <2>1, <2>2, <2>5
<1> HIDE DEF Mine
<1>9. RefcountExact'
  BY <1>3, <1>6, <1>7, <1>8, ExactQuiet
<1>10. FreesOnce'
  BY <1>3, <1>7, TodoStays, FreesStay
<1>11. OnlyAliveCounted'
  BY <1>2, <1>3, <1>5 DEF OnlyAliveCounted, One, Shape
<1>12. PlacedAt(t)' /\ FoundAt(t)'
  BY <1>7 DEF PlacedAt, FoundAt
<1>13. LockRule(t) /\ TablesRule(t)
  BY <1>1, <1>3 DEF LockRule, TablesRule
<1> QED BY <1>6, <1>7, <1>9, <1>10, <1>11, <1>12, <1>13, PromisesKept

\* A set call acquires its value: the one it is given, which its caller holds, or a
\* copy, which nobody else knows.
LEMMA SetBeginIs ==
  ASSUME CountInv, NEW t \in Thread, NEW o \in Object, NEW k \in Key,
         NEW v \in Object \cup {NULL}, NEW p \in Policy, SetBegin(t, o, k, v, p)
  PROVE  /\ pc[t] = "idle" /\ todo[t] = <<>> /\ held[t][o] > 0
         /\ pc' = [pc EXCEPT ![t] = "set"]
         /\ UNCHANGED <<associations, lock, hasAssoc, held, todo>>
         /\ \E w \in Object \cup {NULL}, c \in Call :
              /\ call' = [call EXCEPT ![t] = c]
              /\ c.obj = o /\ c.key = k /\ c.value = w /\ c.policy = p
              /\ w = v => isa' = isa /\ phase' = phase /\ (w # NULL => held[t][w] > 0)
              /\ w # v => /\ v \in Object /\ w \in Object /\ phase[w] \in {"unborn", "freed"}
                          /\ phase' = [phase EXCEPT ![w] = "alive"]
                          /\ isa' = [isa EXCEPT ![w] = isa[v]]
              /\ rc' = IF w # NULL /\ Acquires(p) THEN [rc EXCEPT ![w] = @ + 1] ELSE rc
<1>1. /\ pc[t] = "idle" /\ todo[t] = <<>> /\ held[t][o] > 0 /\ (v # NULL => held[t][v] > 0)
      /\ pc' = [pc EXCEPT ![t] = "set"]
      /\ UNCHANGED <<associations, lock, hasAssoc, held, todo>>
  BY DEF SetBegin, Begin, Goto
<1>2. PICK w \in IF v # NULL /\ "SETTER_COPY" \in p THEN Copies(v) ELSE {v} :
        /\ call' = [call EXCEPT ![t] = [NoCall EXCEPT
                      !.obj = o, !.key = k, !.value = w, !.policy = p]]
        /\ rc' = IF w # NULL /\ Acquires(p) THEN [rc EXCEPT ![w] = @ + 1] ELSE rc
        /\ phase' = IF w # v THEN [phase EXCEPT ![w] = "alive"] ELSE phase
        /\ isa' = IF w # v THEN [isa EXCEPT ![w] = isa[v]] ELSE isa
  BY DEF SetBegin
<1>3. /\ w \in Object \cup {NULL}
      /\ w # v => v \in Object /\ w \in Object /\ phase[w] \in {"unborn", "freed"}
  BY DEF Copies
<1>4. PICK c : c = [NoCall EXCEPT !.obj = o, !.key = k, !.value = w, !.policy = p]
  OBVIOUS
<1>5. c.obj = o /\ c.key = k /\ c.value = w /\ c.policy = p
  BY <1>4 DEF NoCall
<1>6. c \in Call
  BY <1>3, <1>4, NoCallIs DEF Call
<1>7. call' = [call EXCEPT ![t] = c]
  BY <1>2, <1>4
<1>8. w = v => isa' = isa /\ phase' = phase /\ (w # NULL => held[t][w] > 0)
  BY <1>1, <1>2
<1>9. w # v => /\ v \in Object /\ w \in Object /\ phase[w] \in {"unborn", "freed"}
               /\ phase' = [phase EXCEPT ![w] = "alive"]
               /\ isa' = [isa EXCEPT ![w] = isa[v]]
  BY <1>2, <1>3
<1> QED BY <1>1, <1>2, <1>3, <1>5, <1>6, <1>7, <1>8, <1>9

LEMMA SetBeginInv ==
  ASSUME CountInv, NEW t \in Thread, NEW o \in Object, NEW k \in Key,
         NEW v \in Object \cup {NULL}, NEW p \in Policy, SetBegin(t, o, k, v, p)
  PROVE  CountInv'
<1> USE DEF CountInv
<1>1. /\ pc[t] = "idle" /\ todo[t] = <<>> /\ held[t][o] > 0
      /\ pc' = [pc EXCEPT ![t] = "set"]
      /\ UNCHANGED <<associations, lock, hasAssoc, held, todo>>
  BY SetBeginIs
<1>2. PICK w \in Object \cup {NULL}, c \in Call :
        /\ call' = [call EXCEPT ![t] = c]
        /\ c.obj = o /\ c.key = k /\ c.value = w /\ c.policy = p
        /\ w = v => isa' = isa /\ phase' = phase /\ (w # NULL => held[t][w] > 0)
        /\ w # v => /\ v \in Object /\ w \in Object /\ phase[w] \in {"unborn", "freed"}
                    /\ phase' = [phase EXCEPT ![w] = "alive"]
                    /\ isa' = [isa EXCEPT ![w] = isa[v]]
        /\ rc' = IF w # NULL /\ Acquires(p) THEN [rc EXCEPT ![w] = @ + 1] ELSE rc
  BY SetBeginIs
<1>3. /\ rc' \in [Object -> Int]
      /\ \A x \in Object : rc'[x] = rc[x] + One(w = x /\ "SETTER_RETAIN" \in p)
  <2>1. CASE w # NULL /\ Acquires(p)
    <3>1. w \in Object /\ rc' = [rc EXCEPT ![w] = @ + 1]
      BY <1>2, <2>1
    <3>2. "SETTER_RETAIN" \in p
      BY <2>1 DEF Acquires
    <3>3. rc \in [Object -> Int]
      BY DEF Shape
    <3>4. /\ rc' \in [Object -> Int]
          /\ \A x \in Object : rc'[x] = IF w = x THEN rc[x] + 1 ELSE rc[x]
      BY <3>1, <3>3
    <3>5. \A x \in Object : One(w = x /\ "SETTER_RETAIN" \in p) = IF w = x THEN 1 ELSE 0
      BY <3>2 DEF One
    <3> QED BY <3>3, <3>4, <3>5
  <2>2. CASE ~ (w # NULL /\ Acquires(p))
    <3>1. rc' = rc /\ rc \in [Object -> Int]
      BY <1>2, <2>2 DEF Shape
    <3>2. \A x \in Object : ~ (w = x /\ "SETTER_RETAIN" \in p)
      BY <2>2, AssociationsAssumption DEF Acquires
    <3>3. \A x \in Object : One(w = x /\ "SETTER_RETAIN" \in p) = 0
      BY <3>2 DEF One
    <3> QED BY <3>1, <3>3
  <2> QED BY <2>1, <2>2
<1>4. /\ isa' \in [Object -> Class]
      /\ phase' \in [Object -> {"unborn", "alive", "dying", "freed"}]
  <2>1. CASE w = v
    BY <1>2, <2>1 DEF Shape
  <2>2. CASE w # v
    <3>1. PICK c0 \in Class : c0 = isa[v]
      BY <1>2, <2>2 DEF Shape
    <3>2. isa' = [isa EXCEPT ![w] = c0] /\ phase' = [phase EXCEPT ![w] = "alive"]
      BY <1>2, <2>2, <3>1
    <3> QED BY <3>1, <3>2 DEF Shape
  <2> QED BY <2>1, <2>2
<1>5. Shape'
  BY <1>1, <1>2, <1>3, <1>4 DEF Shape
<1>6. OthersStay(t) /\ pc'[t] = "set" /\ call'[t] = c
  BY <1>1, <1>2 DEF OthersStay, Shape
<1>7. ASSUME NEW x \in Object PROVE rc'[x] + Mine(t, x) = rc[x] + Mine(t, x)'
  <2>1. PICK m \in Nat, r \in Int : m = Owes(t, x) /\ r = rc[x]
    BY OwesIs DEF Shape
  <2>2. Owes(t, x)' = m
    BY <1>1, <1>5, <2>1, OwesIs, OwesIsNext
  <2>3. t \notin Setting(x) /\ (t \in Setting(x)' <=> w = x /\ "SETTER_RETAIN" \in p)
    BY <1>1, <1>2, <1>6 DEF Setting
  <2>4. PICK i \in {0, 1} : i = One(w = x /\ "SETTER_RETAIN" \in p) /\ i = One(t \in Setting(x)')
    BY <2>3 DEF One
  <2>5. Mine(t, x) = m /\ Mine(t, x)' = m + i
    BY <2>1, <2>2, <2>3, <2>4 DEF Mine, One
  <2> QED BY <1>3, <2>1, <2>4, <2>5
<1> HIDE DEF Mine
<1>8. RefcountExact'
  BY <1>1, <1>5, <1>6, <1>7, ExactQuiet
<1>9. FreesOnce'
  <2>1. \A x \in Object : phase[x] = "dying" => phase'[x] = "dying"
    BY <1>2 DEF Shape
  <2> QED BY <1>1, <1>6, <2>1, TodoStays, FreesStay
<1>10. OnlyAliveCounted'
  <2> SUFFICES ASSUME NEW x \in Object, phase'[x] # "alive" PROVE rc'[x] = 0
    BY DEF OnlyAliveCounted
  <2>1. w # x
    <3>1. CASE w = v
      BY <1>2, <3>1, HeldAlive, AssociationsAssumption
    <3>2. CASE w # v
      BY <1>2, <3>2 DEF Shape
    <3> QED BY <3>1, <3>2
  <2>2. phase'[x] = phase[x]
    BY <1>2, <2>1 DEF Shape
  <2>3. rc[x] = 0
    BY <2>2 DEF OnlyAliveCounted
  <2>4. rc'[x] = rc[x] + 0
    BY <1>3, <2>1 DEF One
  <2> QED BY <2>3, <2>4
<1>11. PlacedAt(t)' /\ FoundAt(t)'
  BY <1>1, <1>2, <1>6 DEF PlacedAt, FoundAt
<1>12. LockRule(t) /\ TablesRule(t)
  BY <1>1 DEF LockRule, TablesRule
<1> QED BY <1>5, <1>6, <1>8, <1>9, <1>10, <1>11, <1>12, PromisesKept

\* A free is the last that is done to an object.
LEMMA FreeInv ==
  ASSUME CountInv, NEW t \in Thread, Free(t)
  PROVE  CountInv'
<1> USE DEF CountInv
<1>1. /\ todo[t] # <<>> /\ Next1(t).op = "free" /\ Then(t, <<>>)
      /\ phase' = [phase EXCEPT ![Next1(t).obj] = "freed"]
      /\ UNCHANGED <<associations, lock, isa, hasAssoc, rc, held, pc, call>>
  BY DEF Free, Pending
<1>3. /\ todo' \in [Thread -> Seq(Operation)] /\ Next1(t) \in Operation
      /\ \A x : /\ CountOf(todo[t], x) \in Nat
                /\ CountOf(todo'[t], x) = CountOf(todo[t], x) - One(Next1(t) = x)
  BY <1>1, ThenNothing
<1>4. PICK o \in Object : o = Next1(t).obj /\ Next1(t) = Freeing(o)
  BY <1>1, <1>3, OperationsAre
<1>5. \A x : CountOf(todo'[t], x) = CountOf(todo[t], x) - One(Freeing(o) = x)
  BY <1>3, <1>4
<1>6. Shape'
  BY <1>1, <1>3, <1>4 DEF Shape
<1>7. OthersStay(t)
  BY <1>1 DEF OthersStay, Then, Shape
<1>8. ASSUME NEW x \in Object PROVE rc'[x] + Mine(t, x) = rc[x] + Mine(t, x)'
  <2>1. CountOf(todo'[t], Release(x)) = CountOf(todo[t], Release(x))
    <3>1. One(Freeing(o) = Release(x)) = 0
      BY OperationsDiffer DEF One
    <3> QED BY <1>3, <1>5, <3>1
  <2>2. Owes(t, x)' = Owes(t, x)
    BY <1>1, <1>6, <2>1, OwesIs, OwesIsNext
  <2>3. Setting(x)' = Setting(x)
    BY <1>1 DEF Setting
  <2> QED BY <1>1, <2>2, <2>3 DEF Mine
<1> HIDE DEF Mine
<1>9. RefcountExact'
  BY <1>1, <1>6, <1>7, <1>8, ExactQuiet
<1>10. \A x \in Object : /\ Frees(t, x) \in Nat
                         /\ Frees(t, x)' = IF x = o THEN Frees(t, x) - 1 ELSE Frees(t, x)
  <2> SUFFICES ASSUME NEW x \in Object
               PROVE  /\ Frees(t, x) \in Nat
                      /\ Frees(t, x)' = IF x = o THEN Frees(t, x) - 1 ELSE Frees(t, x)
    OBVIOUS
  <2>1. Freeing(x)' = Freeing(x)
    BY DEF Freeing
  <2>2. One(Freeing(o) = Freeing(x)) = IF x = o THEN 1 ELSE 0
    BY OperationsDiffer DEF One
  <2>3. PICK n \in Nat : n = CountOf(todo[t], Freeing(x))
    BY <1>3
  <2>4. CountOf(todo'[t], Freeing(x)) = n - (IF x = o THEN 1 ELSE 0)
    BY <1>5, <2>2, <2>3
  <2> QED BY <2>1, <2>3, <2>4 DEF Frees
<1>11. Frees(t, o) # 0
  <2>1. PICK m \in Nat, n \in Nat : m = CountOf(todo'[t], Freeing(o)) /\ n = CountOf(todo[t], Freeing(o))
    BY <1>3, <1>6, OccursFinite DEF Shape
  <2>2. m = n - 1
    BY <1>5, <2>1 DEF One
  <2> QED BY <2>1, <2>2 DEF Frees
<1>12. /\ phase[o] = "dying" /\ Frees(t, o)' = 0
       /\ \A u \in Thread \ {t} : Frees(u, o) = 0
  BY <1>10, <1>11 DEF FreesOnce
<1>13. FreesOnce'
  <2>1. ASSUME NEW x \in Object, NEW u \in Thread
        PROVE  Frees(u, x)' = IF x = o THEN 0 ELSE Frees(u, x)
    <3>1. CASE u = t
      BY <1>10, <1>12, <3>1
    <3>2. CASE u # t
      <4>1. Frees(u, x)' = Frees(u, x)
        BY <1>7, <3>2 DEF OthersStay, Frees
      <4> HIDE DEF Frees
      <4> QED BY <1>12, <3>2, <4>1
    <3> QED BY <3>1, <3>2
  <2>2. \A x \in Object : x # o => phase'[x] = phase[x]
    BY <1>1, <1>4 DEF Shape
  <2> HIDE DEF Frees
  <2> QED BY <2>1, <2>2 DEF FreesOnce
<1>14. OnlyAliveCounted'
  BY <1>1, <1>4, <1>12 DEF OnlyAliveCounted, Shape
<1>15. PlacedAt(t)'
  BY <1>1 DEF Placed, PlacedAt
<1>16. FoundAt(t)' /\ (pc'[t] = "set_flag" => lock' = t)
  BY <1>1 DEF FoundIsThere, FoundAt, Table, FlagLocked
<1>17. LockRule(t) /\ TablesRule(t)
  BY <1>1 DEF LockRule, TablesRule
<1> QED BY <1>6, <1>7, <1>9, <1>13, <1>14, <1>15, <1>16, <1>17, PromisesKept

\* The entries of a table that own x.
OwnedIn(T, x) == {k \in DOMAIN T : T[k].value = x /\ "SETTER_RETAIN" \in T[k].policy}

LEMMA OwnedOf ==
  ASSUME NEW o \in Object, NEW x
  PROVE  /\ Owned(o, x) = IF associations[o] = NULL THEN {} ELSE OwnedIn(associations[o], x)
         /\ Owned(o, x)' = IF associations'[o] = NULL THEN {} ELSE OwnedIn(associations'[o], x)
BY DEF Owned, OwnedIn, Table

\* An entry that is overwritten or removed gives its reference up.
LEMMA ReleaseValueCounts ==
  ASSUME NEW a \in Entry, NEW x
  PROVE  /\ ReleaseValue(a) \in Seq(Operation)
         /\ CountOf(ReleaseValue(a), Release(x)) = One(a.value = x /\ "SETTER_RETAIN" \in a.policy)
         /\ CountOf(ReleaseValue(a), Freeing(x)) = 0
<1>1. CASE "SETTER_RETAIN" \in a.policy
  <2>1. ReleaseValue(a) = <<Release(a.value)>>
    BY <1>1 DEF ReleaseValue, Releases
  <2>2. a.value \in Object /\ Release(a.value) \in Operation
    BY OperationsAre DEF Entry
  <2>3. <<Release(a.value)>> \in Seq(Operation)
    BY <2>2
  <2>4. CountOf(<<Release(a.value)>>, Release(x)) = One(a.value = x)
    BY CountSingle, OperationsDiffer DEF One
  <2>5. CountOf(<<Release(a.value)>>, Freeing(x)) = 0
    BY CountSingle, OperationsDiffer DEF One
  <2>6. One(a.value = x) = One(a.value = x /\ "SETTER_RETAIN" \in a.policy)
    BY <1>1 DEF One
  <2> QED BY <2>1, <2>3, <2>4, <2>5, <2>6
<1>2. CASE "SETTER_RETAIN" \notin a.policy
  <2>1. ReleaseValue(a) = <<>>
    BY <1>2 DEF ReleaseValue, Releases
  <2>2. <<>> \in Seq(Operation)
    BY EmptySeq
  <2>3. CountOf(<<>>, Release(x)) = 0 /\ CountOf(<<>>, Freeing(x)) = 0
    BY CountEmpty
  <2>4. One(a.value = x /\ "SETTER_RETAIN" \in a.policy) = 0
    BY <1>2 DEF One
  <2> QED BY <2>1, <2>2, <2>3, <2>4
<1> QED BY <1>1, <1>2

\* What a set call does under the lock: nothing, when it sets nil on an object that
\* has no table; makes the table; or changes it.
SetNothing(t, o, v) ==
    /\ associations[o] = NULL /\ v = NULL /\ pc' = [pc EXCEPT ![t] = "done"]
    /\ UNCHANGED <<associations, lock, call, todo>>

SetFirst(t, o, k, v, p) ==
    /\ associations[o] = NULL /\ v \in Object /\ pc' = [pc EXCEPT ![t] = "set_flag"]
    /\ associations' = [associations EXCEPT ![o] =
                          [j \in {k} |-> [value |-> v, policy |-> p]]]
    /\ call' = [call EXCEPT ![t].old = isa[o]] /\ lock' = t
    /\ UNCHANGED todo

SetTable(T, k, v, p) ==
    [j \in (DOMAIN T \ {k}) \cup (IF v = NULL THEN {} ELSE {k}) |->
        IF j = k THEN [value |-> v, policy |-> p] ELSE T[j]]

SetNext(t, o, k, v, p) ==
    /\ associations[o] # NULL /\ pc' = [pc EXCEPT ![t] = "done"]
    /\ associations' = [associations EXCEPT ![o] = SetTable(associations[o], k, v, p)]
    /\ Todo(t, IF k \in DOMAIN associations[o] THEN ReleaseValue(associations[o][k]) ELSE <<>>)
    /\ UNCHANGED <<lock, call>>

LEMMA SetIs ==
  ASSUME CountInv, NEW t \in Thread, Set(t)
  PROVE  /\ pc[t] = "set" /\ lock = NULL /\ todo[t] = <<>>
         /\ UNCHANGED <<isa, hasAssoc, rc, phase, held>>
         /\ \E o \in Object, k \in Key, v \in Object \cup {NULL}, p \in Policy :
              /\ call[t].obj = o /\ call[t].key = k /\ call[t].value = v /\ call[t].policy = p
              /\ held[t][o] > 0
              /\ \/ SetNothing(t, o, v) \/ SetFirst(t, o, k, v, p) \/ SetNext(t, o, k, v, p)
<1>1. /\ pc[t] = "set" /\ lock = NULL /\ todo[t] = <<>>
      /\ UNCHANGED <<isa, hasAssoc, rc, phase, held>>
  BY DEF Set, CountInv, Placed, PlacedAt
<1>2. PICK o \in Object, k \in Key, v \in Object \cup {NULL}, p \in Policy :
        /\ call[t].obj = o /\ call[t].key = k /\ call[t].value = v /\ call[t].policy = p
        /\ held[t][o] > 0
  <2>1. call[t].value \in Object \cup {NULL}
    BY DEF CountInv, Shape, Call
  <2> QED BY <1>1, <2>1 DEF CountInv, Placed, PlacedAt
<1>3. CASE associations[o] = NULL /\ v = NULL
  <2>1. associations[call[t].obj] = NULL /\ call[t].value = NULL
    BY <1>2, <1>3
  <2>2. Goto(t, "done") /\ UNCHANGED <<associations, lock, call, todo>>
    BY <2>1 DEF Set
  <2> QED BY <1>1, <1>2, <1>3, <2>2 DEF SetNothing, Goto
<1>4. CASE associations[o] = NULL /\ v # NULL
  <2>1. associations[call[t].obj] = NULL /\ call[t].value # NULL
    BY <1>2, <1>4
  <2>2. /\ associations' = [associations EXCEPT ![call[t].obj] =
              [j \in {call[t].key} |-> [value |-> call[t].value, policy |-> call[t].policy]]]
        /\ call' = [call EXCEPT ![t].old = isa[call[t].obj]]
        /\ lock' = t /\ Goto(t, "set_flag") /\ UNCHANGED todo
    BY <2>1 DEF Set
  <2>3. SetFirst(t, o, k, v, p)
    BY <1>2, <1>4, <2>2 DEF SetFirst, Goto
  <2> QED BY <1>1, <1>2, <2>3
<1>5. CASE associations[o] # NULL
  <2>1. associations[call[t].obj] # NULL
    BY <1>2, <1>5
  <2>2. /\ associations' = [associations EXCEPT ![call[t].obj] =
              SetTable(associations[call[t].obj], call[t].key, call[t].value, call[t].policy)]
        /\ Todo(t, IF call[t].key \in DOMAIN associations[call[t].obj]
                     THEN ReleaseValue(associations[call[t].obj][call[t].key]) ELSE <<>>)
        /\ Goto(t, "done") /\ UNCHANGED <<lock, call>>
    BY <2>1, Zenon DEF Set, SetTable
  <2>3. SetNext(t, o, k, v, p)
    BY <1>2, <1>5, <2>2 DEF SetNext, Goto
  <2> QED BY <1>1, <1>2, <2>3
<1> QED BY <1>1, <1>2, <1>3, <1>4, <1>5

LEMMA SetInv ==
  ASSUME CountInv, NEW t \in Thread, Set(t)
  PROVE  CountInv'
<1> USE DEF CountInv
<1>1. /\ pc[t] = "set" /\ lock = NULL /\ todo[t] = <<>>
      /\ UNCHANGED <<isa, hasAssoc, rc, phase, held>>
  BY SetIs
<1>2. PICK o \in Object, k \in Key, v \in Object \cup {NULL}, p \in Policy :
        /\ call[t].obj = o /\ call[t].key = k /\ call[t].value = v /\ call[t].policy = p
        /\ held[t][o] > 0
        /\ \/ SetNothing(t, o, v) \/ SetFirst(t, o, k, v, p) \/ SetNext(t, o, k, v, p)
  BY SetIs
<1>3. OnlyAliveCounted' /\ TablesRule(t)
  BY <1>1 DEF OnlyAliveCounted, TablesRule
<1>4. ASSUME NEW x \in Object
      PROVE  /\ Mine(t, x) = Owes(t, x) + One(v = x /\ "SETTER_RETAIN" \in p)
             /\ pc'[t] # "set" => Mine(t, x)' = Owes(t, x)' + 0
  <2>1. t \in Setting(x) <=> v = x /\ "SETTER_RETAIN" \in p
    BY <1>1, <1>2 DEF Setting
  <2>2. pc'[t] # "set" => t \notin Setting(x)'
    BY DEF Setting
  <2>3. One(t \in Setting(x)) = One(v = x /\ "SETTER_RETAIN" \in p)
    BY <2>1 DEF One
  <2>4. pc'[t] # "set" => One(t \in Setting(x)') = 0
    BY <2>2 DEF One
  <2> QED BY <2>3, <2>4 DEF Mine
<1>5. CASE SetNothing(t, o, v)
  <2>1. Shape' /\ OthersStay(t) /\ pc'[t] = "done" /\ UNCHANGED <<associations, lock, todo>>
    BY <1>1, <1>5 DEF SetNothing, Shape, OthersStay
  <2>2. ASSUME NEW x \in Object PROVE rc'[x] + Mine(t, x) = rc[x] + Mine(t, x)'
    <3>1. One(v = x /\ "SETTER_RETAIN" \in p) = 0
      BY <1>5, AssociationsAssumption DEF SetNothing, One
    <3>2. Owes(t, x)' = Owes(t, x)
      BY <1>1, <2>1 DEF Owes
    <3>3. Mine(t, x)' = Mine(t, x)
      BY <1>4, <2>1, <3>1, <3>2
    <3> QED BY <1>1, <3>3
  <2> HIDE DEF Mine
  <2>3. RefcountExact'
    BY <2>1, <2>2, ExactQuiet
  <2>4. FreesOnce'
    BY <1>1, <2>1, TodoStays, FreesStay
  <2>5. PlacedAt(t)' /\ FoundAt(t)' /\ LockRule(t)
    BY <2>1 DEF PlacedAt, FoundAt, LockRule
  <2> QED BY <1>3, <2>1, <2>3, <2>4, <2>5, PromisesKept
<1>6. CASE SetFirst(t, o, k, v, p)
  <2>1. PICK T : T = [j \in {k} |-> [value |-> v, policy |-> p]]
    OBVIOUS
  <2>2. v \in Object /\ T \in [{k} -> Entry] /\ {k} \in SUBSET Key
    BY <1>6, <2>1 DEF SetFirst, Entry
  <2>3. T \in Tables /\ T # NULL
    BY <2>2, TablesAre
  <2>4. /\ associations' = [associations EXCEPT ![o] = T] /\ pc' = [pc EXCEPT ![t] = "set_flag"]
        /\ call' = [call EXCEPT ![t].old = isa[o]] /\ lock' = t /\ UNCHANGED todo
        /\ associations[o] = NULL
    BY <1>6, <2>1 DEF SetFirst
  <2>5. PICK c \in Call : c = [call[t] EXCEPT !.old = isa[o]]
    <3>1. PICK d \in Call, old \in Class : d = call[t] /\ old = isa[o]
      BY DEF Shape
    <3>2. [d EXCEPT !.old = old] \in Call
      BY DEF Call
    <3> QED BY <3>1, <3>2
  <2>6. call' = [call EXCEPT ![t] = c]
    BY <2>4, <2>5
  <2>7. c.obj = o /\ c.old = isa[o] /\ isa[o] \in Class
    <3>1. call[t] \in Call
      BY DEF Shape
    <3> QED BY <1>2, <2>5, <3>1 DEF Call, Shape
  <2>8. Shape'
    BY <1>1, <2>3, <2>4, <2>6 DEF Shape
  <2>9. OthersStay(t) /\ pc'[t] = "set_flag" /\ call'[t] = c /\ associations'[o] = T
    BY <1>1, <2>4, <2>6 DEF OthersStay, Shape
  <2>10. ASSUME NEW x \in Object
         PROVE  rc'[x] + Mine(t, x) + Cardinality(Owned(o, x))
                  = rc[x] + Mine(t, x)' + Cardinality(Owned(o, x)')
    <3>1. Owned(o, x) = {} /\ Owned(o, x)' = OwnedIn(T, x)
      BY <2>3, <2>4, <2>9, OwnedOf
    <3>2. DOMAIN T = {k} /\ T[k].value = v /\ T[k].policy = p
      BY <2>1
    <3>3. OwnedIn(T, x) = IF v = x /\ "SETTER_RETAIN" \in p THEN {k} ELSE {}
      BY <3>2 DEF OwnedIn
    <3>4. PICK i \in {0, 1} : /\ i = One(v = x /\ "SETTER_RETAIN" \in p)
                              /\ i = Cardinality(Owned(o, x)')
      BY <3>1, <3>3, FS_EmptySet, FS_Singleton DEF One
    <3>5. Cardinality(Owned(o, x)) = 0
      BY <3>1, FS_EmptySet
    <3>6. PICK m \in Nat, r \in Int : m = Owes(t, x) /\ r = rc[x]
      BY OwesIs DEF Shape
    <3>7. Owes(t, x)' = m
      BY <1>1, <2>4, <3>6 DEF Owes
    <3>8. Mine(t, x) = m + i /\ Mine(t, x)' = m + 0
      BY <1>4, <2>9, <3>4, <3>6, <3>7
    <3> QED BY <1>1, <3>4, <3>5, <3>6, <3>8
  <2>11. \A q \in Object \ {o} : associations'[q] = associations[q]
    BY <2>4 DEF Shape
  <2> HIDE DEF Mine
  <2>12. RefcountExact'
    BY <2>8, <2>9, <2>10, <2>11, ExactKept
  <2>13. FreesOnce'
    BY <1>1, <2>4, <2>9, TodoStays, FreesStay
  <2>14. PlacedAt(t)' /\ FoundAt(t)' /\ LockRule(t)
    BY <1>1, <1>2, <2>4, <2>7, <2>9 DEF PlacedAt, FoundAt, LockRule
  <2> QED BY <1>3, <2>4, <2>8, <2>9, <2>12, <2>13, <2>14, PromisesKept
<1>7. CASE SetNext(t, o, k, v, p)
  <2>1. PICK T, what : /\ T \in Tables /\ T = associations[o]
                       /\ what = IF k \in DOMAIN T THEN ReleaseValue(T[k]) ELSE <<>>
    BY <1>7 DEF SetNext, Shape
  <2>2. /\ associations' = [associations EXCEPT ![o] = SetTable(T, k, v, p)]
        /\ pc' = [pc EXCEPT ![t] = "done"] /\ Todo(t, what) /\ UNCHANGED <<lock, call>>
        /\ T # NULL
    BY <1>7, <2>1 DEF SetNext
  <2>3. DOMAIN T \in SUBSET Key /\ \A j \in DOMAIN T : T[j] \in Entry
    BY <2>1, TablesAre
  <2>4. PICK U : U = SetTable(T, k, v, p)
    OBVIOUS
  <2>5. U \in Tables /\ U # NULL
    <3>1. PICK K \in SUBSET Key : K = (DOMAIN T \ {k}) \cup (IF v = NULL THEN {} ELSE {k})
      BY <2>3
    <3>2. U = [j \in K |-> IF j = k THEN [value |-> v, policy |-> p] ELSE T[j]]
      BY <2>4, <3>1 DEF SetTable
    <3>3. ASSUME NEW j \in K
          PROVE  (IF j = k THEN [value |-> v, policy |-> p] ELSE T[j]) \in Entry
      <4>1. CASE j = k
        <5>1. v \in Object
          BY <3>1, <4>1
        <5> QED BY <4>1, <5>1 DEF Entry
      <4>2. CASE j # k
        BY <2>3, <3>1, <4>2
      <4> QED BY <4>1, <4>2
    <3>4. U \in [K -> Entry]
      BY <3>2, <3>3
    <3> QED BY <3>4, TablesAre
  <2>6. associations' = [associations EXCEPT ![o] = U]
    BY <2>2, <2>4
  <2>7. /\ what \in Seq(Operation)
        /\ \A x : /\ CountOf(what, Release(x)) = One(k \in OwnedIn(T, x))
                  /\ CountOf(what, Freeing(x)) = 0
    <3>1. CASE k \in DOMAIN T
      <4>1. T[k] \in Entry /\ what = ReleaseValue(T[k])
        BY <2>1, <2>3, <3>1
      <4>2. \A x : One(k \in OwnedIn(T, x))
                     = One(T[k].value = x /\ "SETTER_RETAIN" \in T[k].policy)
        BY <3>1 DEF OwnedIn, One
      <4> QED BY <4>1, <4>2, ReleaseValueCounts
    <3>2. CASE k \notin DOMAIN T
      <4>1. what = <<>> /\ <<>> \in Seq(Operation)
        BY <2>1, <3>2, EmptySeq
      <4>2. \A x : One(k \in OwnedIn(T, x)) = 0
        BY <3>2 DEF OwnedIn, One
      <4>3. \A x : CountOf(<<>>, x) = 0
        BY CountEmpty
      <4> QED BY <4>1, <4>2, <4>3
    <3> QED BY <3>1, <3>2
  <2>8. /\ todo' \in [Thread -> Seq(Operation)]
        /\ \A x : /\ CountOf(todo[t], x) \in Nat
                  /\ CountOf(todo'[t], x) = CountOf(what, x) + CountOf(todo[t], x)
    <3>1. Shape /\ Todo(t, what) /\ what \in Seq(Operation)
      BY <2>2, <2>7
    <3> HIDE DEF CountInv
    <3> QED BY <3>1, TodoCounts
  <2>9. Shape'
    BY <1>1, <2>2, <2>5, <2>6, <2>8 DEF Shape
  <2>10. OthersStay(t) /\ pc'[t] = "done" /\ associations'[o] = U
    BY <1>1, <2>2, <2>6 DEF OthersStay, Todo, Shape
  <2>11. ASSUME NEW x \in Object
         PROVE  rc'[x] + Mine(t, x) + Cardinality(Owned(o, x))
                  = rc[x] + Mine(t, x)' + Cardinality(Owned(o, x)')
    <3>1. PICK A, B : A = OwnedIn(T, x) /\ B = OwnedIn(U, x) /\ A = Owned(o, x) /\ B = Owned(o, x)'
      BY <2>1, <2>2, <2>5, <2>10, OwnedOf
    <3>2. /\ DOMAIN U = (DOMAIN T \ {k}) \cup (IF v = NULL THEN {} ELSE {k})
          /\ \A j \in DOMAIN U : U[j] = IF j = k THEN [value |-> v, policy |-> p] ELSE T[j]
      BY <2>4 DEF SetTable
    <3>3. A \ {k} = B \ {k}
      BY <3>1, <3>2 DEF OwnedIn
    <3>4. k \in B <=> v = x /\ "SETTER_RETAIN" \in p
      <4>1. k \in B => v = x /\ "SETTER_RETAIN" \in p
        BY <3>1, <3>2 DEF OwnedIn
      <4>2. v = x => k \in DOMAIN U /\ U[k] = [value |-> v, policy |-> p]
        BY <3>2, AssociationsAssumption
      <4>3. v = x /\ "SETTER_RETAIN" \in p => k \in B
        BY <3>1, <4>2 DEF OwnedIn
      <4> QED BY <4>1, <4>3
    <3>5. A \in SUBSET Key /\ B \in SUBSET Key /\ IsFiniteSet(Key)
      BY <3>1, <2>3, <2>5, TablesAre, AssociationsAssumption DEF OwnedIn
    <3>6. /\ Cardinality(A) \in Nat /\ Cardinality(B) \in Nat
          /\ Cardinality(B) = Cardinality(A) + One(k \in B) - One(k \in A)
      BY <3>3, <3>5, OneMember
    <3>7. PICK a \in Nat, b \in Nat, i \in {0, 1}, j \in {0, 1} :
            /\ a = Cardinality(A) /\ b = Cardinality(B) /\ i = One(k \in B) /\ j = One(k \in A)
      BY <3>6 DEF One
    <3>8. b = a + i - j /\ i = One(v = x /\ "SETTER_RETAIN" \in p)
      BY <3>4, <3>6, <3>7 DEF One
    <3>9. PICK c \in Nat, h \in Nat, r \in Int :
            c = CountOf(todo[t], Release(x)) /\ h = held[t][x] /\ r = rc[x]
      BY OwesIs DEF Shape
    <3>10. CountOf(todo'[t], Release(x)) = j + c
      BY <2>7, <2>8, <3>1, <3>7, <3>9
    <3>11. Owes(t, x) = h + c /\ Owes(t, x)' = h + (j + c)
      BY <1>1, <2>9, <3>9, <3>10, OwesIs, OwesIsNext
    <3>12. Mine(t, x) = h + c + i /\ Mine(t, x)' = h + (j + c) + 0
      BY <1>4, <2>10, <3>8, <3>11
    <3>13. rc'[x] = r /\ Cardinality(Owned(o, x)) = a /\ Cardinality(Owned(o, x)') = b
      BY <1>1, <3>1, <3>7, <3>9
    <3>14. r + (h + c + i) + a = r + (h + (j + c) + 0) + b
      BY <3>8
    <3> QED BY <3>9, <3>12, <3>13, <3>14
  <2>12. \A q \in Object \ {o} : associations'[q] = associations[q]
    BY <2>6 DEF Shape
  <2> HIDE DEF Mine
  <2>13. RefcountExact'
    BY <2>9, <2>10, <2>11, <2>12, ExactKept
  <2>14. FreesOnce'
    <3>1. ASSUME NEW x \in Object PROVE Frees(t, x)' = Frees(t, x)
      <4>1. Freeing(x)' = Freeing(x)
        BY DEF Freeing
      <4>2. CountOf(todo'[t], Freeing(x)) = 0 + CountOf(todo[t], Freeing(x))
        BY <2>7, <2>8
      <4> QED BY <2>8, <4>1, <4>2 DEF Frees
    <3> QED BY <1>1, <2>10, <3>1, FreesStay
  <2>15. PlacedAt(t)' /\ FoundAt(t)' /\ LockRule(t)
    BY <2>2, <2>10 DEF PlacedAt, FoundAt, LockRule
  <2> QED BY <1>3, <2>9, <2>10, <2>13, <2>14, <2>15, PromisesKept
<1> QED BY <1>2, <1>5, <1>6, <1>7

\* What the last release of o leaves to be done.
LastTodo(o) == (IF hasAssoc[isa[o]] THEN <<Removing(o)>> ELSE <<>>) \o <<Freeing(o)>>

\* A release, its object's last or not.
LEMMA DoReleaseIs ==
  ASSUME CountInv, NEW t \in Thread, DoRelease(t)
  PROVE  /\ todo[t] # <<>> /\ pc[t] \notin {"set", "set_flag", "get", "swizzle"}
         /\ UNCHANGED <<associations, lock, isa, hasAssoc, held, pc, call>>
         /\ \E o \in Object :
              /\ Next1(t) = Release(o) /\ rc' = [rc EXCEPT ![o] = @ - 1]
              /\ rc[o] \in Nat \ {0} /\ phase[o] = "alive"
              /\ CountOf(todo[t], Release(o)) \in Nat \ {0}
              /\ \/ rc[o] # 1 /\ Then(t, <<>>) /\ phase' = phase
                 \/ /\ rc[o] = 1 /\ phase' = [phase EXCEPT ![o] = "dying"]
                    /\ Then(t, LastTodo(o))
<1> USE DEF CountInv
<1>1. /\ todo[t] # <<>> /\ Next1(t).op = "release"
      /\ UNCHANGED <<associations, lock, isa, hasAssoc, held, pc, call>>
  BY DEF DoRelease, Pending
<1>2. pc[t] \notin {"set", "set_flag", "get", "swizzle"}
  BY <1>1 DEF Placed, PlacedAt
<1>3. todo[t] \in Seq(Operation)
  BY DEF Shape
<1>4. Next1(t) \in Operation /\ Tail(todo[t]) \in Seq(Operation)
  BY <1>1, <1>3, HeadTailProperties DEF Next1
<1>5. PICK o \in Object : o = Next1(t).obj /\ Next1(t) = Release(o)
  BY <1>1, <1>4, OperationsAre
<1>6. CountOf(todo[t], Release(o)) \in Nat \ {0}
  <2>1. PICK m \in Nat, n \in Nat :
          m = CountOf(todo[t], Release(o)) /\ n = CountOf(Tail(todo[t]), Release(o))
    BY <1>3, <1>4, OccursFinite
  <2>2. m = One(Head(todo[t]) = Release(o)) + n
    BY <1>1, <1>3, <2>1, CountTail
  <2>3. One(Head(todo[t]) = Release(o)) = 1
    BY <1>5 DEF Next1, One
  <2> QED BY <2>1, <2>2, <2>3
<1>7. rc[o] \in Nat \ {0}
  <2>1. PICK m \in Nat : m = Mine(t, o) /\ rc[o] >= m
    BY CountsAtLeast
  <2>2. PICK h \in Nat, c \in Nat \ {0} : Owes(t, o) = h + c
    BY <1>6, OwesIs
  <2>3. One(t \in Setting(o)) \in {0, 1}
    BY DEF One
  <2>4. m >= 1
    BY <2>1, <2>2, <2>3 DEF Mine
  <2>5. rc[o] \in Nat
    BY CountsAtLeast
  <2> QED BY <2>1, <2>4, <2>5
<1>8. phase[o] = "alive"
  BY <1>7 DEF OnlyAliveCounted
<1>9. rc' = [rc EXCEPT ![o] = @ - 1]
  BY <1>5 DEF DoRelease
<1>10. CASE rc[o] = 1
  <2>1. rc[Next1(t).obj] = 1
    BY <1>5, <1>10
  <2>2. /\ phase' = [phase EXCEPT ![Next1(t).obj] = "dying"]
        /\ Then(t, (IF hasAssoc[isa[Next1(t).obj]]
                      THEN <<[op |-> "remove", obj |-> Next1(t).obj]>> ELSE <<>>)
                   \o <<[op |-> "free", obj |-> Next1(t).obj]>>)
    BY <2>1, Zenon DEF DoRelease
  <2>3. /\ phase' = [phase EXCEPT ![o] = "dying"]
        /\ Then(t, LastTodo(o))
    BY <1>5, <2>2, Zenon DEF LastTodo, Removing, Freeing
  <2> QED BY <1>1, <1>2, <1>5, <1>6, <1>7, <1>8, <1>9, <1>10, <2>3
<1>11. CASE rc[o] # 1
  <2>1. rc[Next1(t).obj] # 1
    BY <1>5, <1>11
  <2>2. Then(t, <<>>) /\ phase' = phase
    BY <2>1, Zenon DEF DoRelease
  <2> QED BY <1>1, <1>2, <1>5, <1>6, <1>7, <1>8, <1>9, <1>11, <2>2
<1> QED BY <1>10, <1>11

LEMMA LastReleaseTodo ==
  ASSUME NEW o \in Object
  PROVE  /\ LastTodo(o) \in Seq(Operation)
         /\ \A x : /\ CountOf(LastTodo(o), Release(x)) = 0
                   /\ CountOf(LastTodo(o), Freeing(x)) = One(o = x)
<1>1. PICK a : a = IF hasAssoc[isa[o]] THEN <<Removing(o)>> ELSE <<>>
  OBVIOUS
<1>2. a \in Seq(Operation) /\ \A x : CountOf(a, Release(x)) = 0 /\ CountOf(a, Freeing(x)) = 0
  <2>1. CASE hasAssoc[isa[o]]
    <3>1. a = <<Removing(o)>> /\ Removing(o) \in Operation
      BY <1>1, <2>1, OperationsAre
    <3>2. <<Removing(o)>> \in Seq(Operation)
      BY <3>1
    <3>3. ASSUME NEW x
          PROVE  CountOf(<<Removing(o)>>, Release(x)) = 0 /\ CountOf(<<Removing(o)>>, Freeing(x)) = 0
      <4>1. CountOf(<<Removing(o)>>, Release(x)) = 0
        BY CountSingle, OperationsDiffer DEF One
      <4>2. CountOf(<<Removing(o)>>, Freeing(x)) = 0
        BY CountSingle, OperationsDiffer DEF One
      <4> QED BY <4>1, <4>2
    <3> QED BY <3>1, <3>2, <3>3
  <2>2. CASE ~ hasAssoc[isa[o]]
    BY <1>1, <2>2, EmptySeq, CountEmpty
  <2> QED BY <2>1, <2>2
<1>3. PICK e : e = <<Freeing(o)>> /\ e \in Seq(Operation)
  <2>1. <<Freeing(o)>> \in Seq(Operation)
    BY OperationsAre
  <2> QED BY <2>1
<1>4. ASSUME NEW x
      PROVE  CountOf(e, Release(x)) = 0 /\ CountOf(e, Freeing(x)) = One(o = x)
  <2>1. CountOf(<<Freeing(o)>>, Release(x)) = 0
    BY CountSingle, OperationsDiffer DEF One
  <2>2. CountOf(<<Freeing(o)>>, Freeing(x)) = One(o = x)
    BY CountSingle, OperationsDiffer DEF One
  <2> QED BY <1>3, <2>1, <2>2
<1>5. PICK what : what = LastTodo(o) /\ what = a \o e
  BY <1>1, <1>3 DEF LastTodo
<1>6. what \in Seq(Operation)
  BY <1>2, <1>3, <1>5, ConcatProperties
<1>7. ASSUME NEW x
      PROVE  CountOf(what, Release(x)) = 0 /\ CountOf(what, Freeing(x)) = One(o = x)
  <2>0. a \in Seq(Operation) /\ e \in Seq(Operation)
    BY <1>2, <1>3
  <2>1. CountOf(a \o e, Release(x)) = CountOf(a, Release(x)) + CountOf(e, Release(x))
    BY <2>0, CountConcat
  <2>2. CountOf(a \o e, Freeing(x)) = CountOf(a, Freeing(x)) + CountOf(e, Freeing(x))
    BY <2>0, CountConcat
  <2>3. One(o = x) \in {0, 1}
    BY DEF One
  <2> QED BY <1>2, <1>4, <1>5, <2>1, <2>2, <2>3
<1> QED BY <1>5, <1>6, <1>7

LEMMA DoReleaseInv ==
  ASSUME CountInv, NEW t \in Thread, DoRelease(t)
  PROVE  CountInv'
<1> USE DEF CountInv
<1>1. /\ todo[t] # <<>> /\ pc[t] \notin {"set", "set_flag", "get", "swizzle"}
      /\ UNCHANGED <<associations, lock, isa, hasAssoc, held, pc, call>>
  BY DoReleaseIs
<1>2. PICK o \in Object :
        /\ Next1(t) = Release(o) /\ rc' = [rc EXCEPT ![o] = @ - 1]
        /\ rc[o] \in Nat \ {0} /\ phase[o] = "alive"
        /\ \/ rc[o] # 1 /\ Then(t, <<>>) /\ phase' = phase
           \/ /\ rc[o] = 1 /\ phase' = [phase EXCEPT ![o] = "dying"]
              /\ Then(t, LastTodo(o))
  BY DoReleaseIs
<1>3. /\ rc' \in [Object -> Int] /\ \A x \in Object : rc'[x] = rc[x] - One(o = x)
  BY <1>2 DEF Shape, One
<1>4. OthersStay(t)
  BY <1>1, <1>2 DEF OthersStay, Then, Shape
<1>5. \A x \in Object : Frees(t, x) \in Nat /\ Frees(t, x)' = CountOf(todo'[t], Freeing(x))
  <2>1. todo[t] \in Seq(Operation)
    BY DEF Shape
  <2>2. \A x : Freeing(x)' = Freeing(x)
    BY DEF Freeing
  <2> QED BY <2>1, <2>2, OccursFinite DEF Frees
\* In both cases the counts of what is to be done change so.
<1>6. /\ todo' \in [Thread -> Seq(Operation)] /\ phase' \in [Object -> {"unborn", "alive", "dying", "freed"}]
      /\ \A x \in Object :
           /\ CountOf(todo'[t], Release(x)) = CountOf(todo[t], Release(x)) - One(o = x)
           /\ Frees(t, x)' = Frees(t, x) + One(rc[o] = 1 /\ o = x)
           /\ phase'[x] = IF rc[o] = 1 /\ o = x THEN "dying" ELSE phase[x]
  <2>1. \A x : /\ One(Next1(t) = Release(x)) = One(o = x)
               /\ One(Next1(t) = Freeing(x)) = 0
    BY <1>2, OperationsDiffer DEF One
  <2>2. CASE rc[o] # 1 /\ Then(t, <<>>) /\ phase' = phase
    <3>1. /\ todo' \in [Thread -> Seq(Operation)]
          /\ \A x : /\ CountOf(todo[t], x) \in Nat
                    /\ CountOf(todo'[t], x) = CountOf(todo[t], x) - One(Next1(t) = x)
      BY <1>1, <2>2, ThenNothing
    <3>2. ASSUME NEW x \in Object
          PROVE  /\ CountOf(todo'[t], Release(x)) = CountOf(todo[t], Release(x)) - One(o = x)
                 /\ Frees(t, x)' = Frees(t, x) + One(rc[o] = 1 /\ o = x)
      <4>1. CountOf(todo'[t], Release(x)) = CountOf(todo[t], Release(x)) - One(o = x)
        BY <2>1, <3>1
      <4>2. CountOf(todo'[t], Freeing(x)) = CountOf(todo[t], Freeing(x)) - 0
        BY <2>1, <3>1
      <4>3. One(rc[o] = 1 /\ o = x) = 0
        BY <2>2 DEF One
      <4>4. Frees(t, x)' = Frees(t, x) - 0
        BY <1>5, <4>2 DEF Frees
      <4> HIDE DEF Frees
      <4> QED BY <1>5, <4>1, <4>3, <4>4
    <3> QED BY <2>2, <3>1, <3>2 DEF Shape
  <2>3. CASE /\ rc[o] = 1 /\ phase' = [phase EXCEPT ![o] = "dying"]
             /\ Then(t, LastTodo(o))
    <3>1. PICK what : what = LastTodo(o)
      OBVIOUS
    <3>2. /\ what \in Seq(Operation)
          /\ \A x : /\ CountOf(what, Release(x)) = 0
                    /\ CountOf(what, Freeing(x)) = One(o = x)
      BY <3>1, LastReleaseTodo
    <3>3. Then(t, what) /\ what \in Seq(Operation)
      BY <2>3, <3>1, <3>2
    <3>4. /\ todo' \in [Thread -> Seq(Operation)]
          /\ \A x : /\ CountOf(todo[t], x) \in Nat
                    /\ CountOf(todo'[t], x) = CountOf(what, x) + CountOf(todo[t], x)
                                              - One(Next1(t) = x)
      BY <1>1, <3>3, ThenCounts
    <3>5. ASSUME NEW x \in Object
          PROVE  /\ CountOf(todo'[t], Release(x)) = CountOf(todo[t], Release(x)) - One(o = x)
                 /\ Frees(t, x)' = Frees(t, x) + One(rc[o] = 1 /\ o = x)
      <4>1. PICK m \in Nat, n \in Nat :
              m = CountOf(todo[t], Release(x)) /\ n = CountOf(todo[t], Freeing(x))
        BY <3>4
      <4>2. CountOf(todo'[t], Release(x)) = 0 + m - One(o = x)
        BY <2>1, <3>2, <3>4, <4>1
      <4>3. CountOf(todo'[t], Freeing(x)) = One(o = x) + n - 0
        BY <2>1, <3>2, <3>4, <4>1
      <4>4. One(rc[o] = 1 /\ o = x) = One(o = x) /\ One(o = x) \in {0, 1}
        BY <2>3 DEF One
      <4>5. Frees(t, x) = n /\ Frees(t, x)' = n + One(o = x)
        BY <1>5, <4>1, <4>3, <4>4 DEF Frees
      <4> HIDE DEF Frees
      <4> QED BY <4>1, <4>2, <4>4, <4>5
    <3>6. \A x \in Object : phase'[x] = IF rc[o] = 1 /\ o = x THEN "dying" ELSE phase[x]
      BY <2>3 DEF Shape
    <3>7. phase' \in [Object -> {"unborn", "alive", "dying", "freed"}]
      BY <2>3 DEF Shape
    <3> HIDE DEF Frees
    <3> QED BY <3>4, <3>5, <3>6, <3>7
  <2> QED BY <1>2, <2>2, <2>3
<1>7. Shape'
  BY <1>1, <1>3, <1>6 DEF Shape
<1>8. ASSUME NEW x \in Object PROVE rc'[x] + Mine(t, x) = rc[x] + Mine(t, x)'
  <2>1. PICK c \in Nat, h \in Nat, r \in Int :
          c = CountOf(todo[t], Release(x)) /\ h = held[t][x] /\ r = rc[x]
    BY OwesIs DEF Shape
  <2>2. PICK i \in {0, 1} : i = One(o = x)
    BY DEF One
  <2>3. Owes(t, x) = h + c /\ Owes(t, x)' = h + (c - i)
    <3>1. CountOf(todo'[t], Release(x)) = c - i
      BY <1>6, <2>1, <2>2
    <3>2. Owes(t, x) = h + c
      BY <2>1, OwesIs
    <3>3. Owes(t, x)' = held'[t][x] + CountOf(todo'[t], Release(x))
      BY <1>7, OwesIsNext
    <3> QED BY <1>1, <2>1, <3>1, <3>2, <3>3
  <2>4. t \notin Setting(x) /\ t \notin Setting(x)'
    BY <1>1 DEF Setting
  <2>5. Mine(t, x) = h + c + 0 /\ Mine(t, x)' = h + (c - i) + 0
    BY <2>3, <2>4 DEF Mine, One
  <2>6. rc'[x] = r - i
    BY <1>3, <2>1, <2>2
  <2> QED BY <2>1, <2>2, <2>5, <2>6
<1> HIDE DEF Mine, Frees
<1>9. RefcountExact'
  BY <1>1, <1>4, <1>7, <1>8, ExactQuiet
<1>10. FreesOnce'
  <2> SUFFICES ASSUME NEW x \in Object, NEW u \in Thread, Frees(u, x)' # 0
               PROVE  /\ phase'[x] = "dying" /\ Frees(u, x)' = 1
                      /\ \A w \in Thread \ {u} : Frees(w, x)' = 0
    BY DEF FreesOnce
  <2>1. \A w \in Thread \ {t} : Frees(w, x)' = Frees(w, x)
    BY <1>4 DEF OthersStay, Frees
  <2>2. CASE rc[o] = 1 /\ o = x
    <3>1. phase[x] # "dying"
      BY <1>2, <2>2
    <3>2. \A w \in Thread : Frees(w, x) = 0
      BY <3>1 DEF FreesOnce
    <3>3. Frees(t, x)' = 0 + 1
      BY <1>6, <2>2, <3>2 DEF One
    <3> QED BY <1>6, <2>1, <2>2, <3>2, <3>3
  <2>3. CASE ~ (rc[o] = 1 /\ o = x)
    <3>1. Frees(t, x)' = Frees(t, x) /\ phase'[x] = phase[x]
      BY <1>5, <1>6, <2>3 DEF One
    <3> QED BY <2>1, <3>1 DEF FreesOnce
  <2> QED BY <2>2, <2>3
<1>11. OnlyAliveCounted'
  <2> SUFFICES ASSUME NEW x \in Object, phase'[x] # "alive" PROVE rc'[x] = 0
    BY DEF OnlyAliveCounted
  <2>1. CASE o = x
    <3>1. rc[o] = 1
      BY <1>2, <1>6, <2>1
    <3> QED BY <1>3, <2>1, <3>1 DEF One
  <2>2. CASE o # x
    <3>1. phase[x] # "alive" /\ rc'[x] = rc[x] - 0
      BY <1>3, <1>6, <2>2 DEF One
    <3> QED BY <3>1 DEF OnlyAliveCounted
  <2> QED BY <2>1, <2>2
<1>12. PlacedAt(t)' /\ FoundAt(t)' /\ pc'[t] # "set_flag"
  BY <1>1 DEF PlacedAt, FoundAt
<1>13. LockRule(t) /\ TablesRule(t)
  BY <1>1 DEF LockRule, TablesRule
<1> QED BY <1>4, <1>7, <1>9, <1>10, <1>11, <1>12, <1>13, PromisesKept

\* The values of a table that is taken out are released, once each.
LEMMA RemovedCounts ==
  ASSUME NEW T \in Tables, NEW keys, keys = SetToSeq(DOMAIN T), NEW s,
         s = [n \in DOMAIN keys |-> ReleaseValue(T[keys[n]])]
  PROVE  /\ FlattenSeq(s) \in Seq(Operation)
         /\ \A x : /\ CountOf(FlattenSeq(s), Release(x)) = Cardinality(OwnedIn(T, x))
                   /\ CountOf(FlattenSeq(s), Freeing(x)) = 0
<1>1. PICK K \in SUBSET Key : K = DOMAIN T /\ \A k \in K : T[k] \in Entry
  BY TablesAre
<1>2. IsFiniteSet(K)
  BY AssociationsAssumption, FS_Subset
<1>3. PICK N \in Nat : N = Cardinality(K)
  BY <1>2, FS_CardinalityType
<1>4. /\ keys \in Seq(K) /\ Len(keys) = N
      /\ \A i, j \in 1 .. N : keys[i] = keys[j] => i = j
      /\ \A k \in K : \E i \in 1 .. N : keys[i] = k
  BY <1>1, <1>2, <1>3, SetToSeqIs
<1>5. DOMAIN keys = 1 .. N /\ \A i \in 1 .. N : keys[i] \in K
  BY <1>4, LenProperties, ElementOfSeq
<1>6. /\ s = [n \in 1 .. N |-> ReleaseValue(T[keys[n]])]
      /\ \A i \in 1 .. N : ReleaseValue(T[keys[i]]) \in Seq(Operation)
  BY <1>1, <1>5, ReleaseValueCounts
<1>7. /\ s \in Seq(Seq(Operation)) /\ Len(s) = N
      /\ \A i \in 1 .. N : s[i] = ReleaseValue(T[keys[i]])
  <2>1. s \in [1 .. N -> Seq(Operation)]
    BY <1>6
  <2> QED BY <1>6, <2>1
<1>8. FlattenSeq(s) = Joined(s, N) /\ Joined(s, N) \in Seq(Operation) /\ Joined(s, 0) = <<>>
  <2>1. N \in 0 .. Len(s)
    BY <1>7
  <2>2. Joined(s, N) \in Seq(Operation)
    BY <1>7, <2>1, JoinedType
  <2>3. FlattenSeq(s) = Joined(s, N)
    BY <1>7, JoinedAll
  <2>4. Joined(s, 0) = <<>>
    BY <1>7, JoinedNone
  <2> QED BY <2>2, <2>3, <2>4
<1>9. ASSUME NEW x
      PROVE  /\ CountOf(Joined(s, N), Release(x)) = Cardinality(OwnedIn(T, x))
             /\ CountOf(Joined(s, N), Freeing(x)) = 0
  <2> DEFINE First(n) == {k \in OwnedIn(T, x) : \E i \in 1 .. n : keys[i] = k}
             R == {n \in Nat : n <= N =>
                      /\ CountOf(Joined(s, n), Release(x)) = Cardinality(First(n))
                      /\ CountOf(Joined(s, n), Freeing(x)) = 0}
  <2>1. 0 \in R
    <3>1. First(0) = {}
      OBVIOUS
    <3>2. Cardinality(First(0)) = 0
      BY <3>1, FS_EmptySet
    <3>3. CountOf(Joined(s, 0), Release(x)) = 0 /\ CountOf(Joined(s, 0), Freeing(x)) = 0
      BY <1>8, CountEmpty
    <3> QED BY <3>2, <3>3
  <2>2. ASSUME NEW n \in R PROVE n + 1 \in R
    <3> SUFFICES ASSUME n + 1 <= N
                 PROVE  /\ CountOf(Joined(s, n + 1), Release(x)) = Cardinality(First(n + 1))
                        /\ CountOf(Joined(s, n + 1), Freeing(x)) = 0
      OBVIOUS
    <3>1. PICK m \in 1 .. N : m = n + 1 /\ m - 1 = n
      OBVIOUS
    <3>2. PICK k \in K : k = keys[m]
      BY <1>5
    <3>3. s[m] = ReleaseValue(T[k]) /\ T[k] \in Entry
      BY <1>1, <1>7, <3>2
    <3>4. /\ CountOf(s[m], Release(x)) = One(k \in OwnedIn(T, x))
          /\ CountOf(s[m], Freeing(x)) = 0
      <4>1. k \in OwnedIn(T, x) <=> T[k].value = x /\ "SETTER_RETAIN" \in T[k].policy
        BY <1>1 DEF OwnedIn
      <4>2. One(k \in OwnedIn(T, x)) = One(T[k].value = x /\ "SETTER_RETAIN" \in T[k].policy)
        BY <4>1 DEF One
      <4> QED BY <3>3, <4>2, ReleaseValueCounts
    <3>5. /\ CountOf(Joined(s, m), Release(x))
               = CountOf(Joined(s, n), Release(x)) + CountOf(s[m], Release(x))
          /\ CountOf(Joined(s, m), Freeing(x))
               = CountOf(Joined(s, n), Freeing(x)) + CountOf(s[m], Freeing(x))
      <4>1. m \in 1 .. Len(s)
        BY <1>7
      <4>2. \A y : CountOf(Joined(s, m), y) = CountOf(Joined(s, m - 1), y) + CountOf(s[m], y)
        BY <1>7, <4>1, CountJoined
      <4> QED BY <3>1, <4>2
    <3>6. /\ CountOf(Joined(s, n), Release(x)) = Cardinality(First(n))
          /\ CountOf(Joined(s, n), Freeing(x)) = 0
      BY <3>1
    <3>7. /\ First(m) \in SUBSET Key /\ First(n) \in SUBSET Key /\ IsFiniteSet(Key) /\ k \in Key
      BY <1>1, AssociationsAssumption DEF OwnedIn
    <3>8. k \notin First(n) /\ (k \in First(m) <=> k \in OwnedIn(T, x))
      <4>1. ASSUME NEW i \in 1 .. n PROVE keys[i] # k
        <5>1. i \in 1 .. N /\ i # m
          BY <3>1
        <5> QED BY <1>4, <3>2, <5>1
      <4> QED BY <3>2, <4>1
    <3>9. First(n) \ {k} = First(m) \ {k}
      <4>1. ASSUME NEW i \in 1 .. m, keys[i] # k PROVE i \in 1 .. n
        BY <3>1, <3>2, <4>1
      <4>2. ASSUME NEW i \in 1 .. n PROVE i \in 1 .. m
        BY <3>1
      <4> QED BY <4>1, <4>2
    <3>10. /\ Cardinality(First(n)) \in Nat
           /\ Cardinality(First(m)) = Cardinality(First(n)) + One(k \in First(m)) - One(k \in First(n))
      <4> HIDE DEF First
      <4> QED BY <3>7, <3>9, OneMember
    <3>11. One(k \in First(n)) = 0 /\ One(k \in First(m)) = One(k \in OwnedIn(T, x))
      BY <3>8 DEF One
    <3>12. One(k \in OwnedIn(T, x)) \in {0, 1}
      BY DEF One
    <3> HIDE DEF First
    <3>13. /\ CountOf(Joined(s, m), Release(x)) = Cardinality(First(m))
           /\ CountOf(Joined(s, m), Freeing(x)) = 0
      BY <3>4, <3>5, <3>6, <3>10, <3>11, <3>12
    <3> QED BY <3>1, <3>13
  <2>3. First(N) = OwnedIn(T, x)
    BY <1>1, <1>4 DEF OwnedIn
  <2> HIDE DEF First
  <2>4. R \in SUBSET Nat
    OBVIOUS
  <2> HIDE DEF R
  <2>5. R = Nat
    BY <2>1, <2>2, <2>4, InductionBySet
  <2>6. N \in R
    BY <2>5
  <2> QED BY <2>3, <2>6 DEF R
<1> QED BY <1>8, <1>9

LEMMA RemoveAssociationsIs ==
  ASSUME CountInv, NEW t \in Thread, RemoveAssociations(t)
  PROVE  /\ todo[t] # <<>> /\ lock = NULL
         /\ UNCHANGED <<lock, isa, hasAssoc, rc, phase, held, pc, call>>
         /\ \E o \in Object, what \in Seq(Operation) :
              /\ Next1(t) = Removing(o) /\ Then(t, what)
              /\ associations' = [associations EXCEPT ![o] = NULL]
              /\ \A x : /\ CountOf(what, Release(x)) = Cardinality(Owned(o, x))
                        /\ CountOf(what, Freeing(x)) = 0
<1> USE DEF CountInv
<1>1. /\ todo[t] # <<>> /\ Next1(t).op = "remove" /\ lock = NULL
      /\ UNCHANGED <<lock, isa, hasAssoc, rc, phase, held, pc, call>>
  BY DEF RemoveAssociations, Pending
<1>2. Next1(t) \in Operation
  <2>1. todo[t] \in Seq(Operation)
    BY DEF Shape
  <2> QED BY <1>1, <2>1, HeadTailProperties DEF Next1
<1>3. PICK o \in Object : o = Next1(t).obj /\ Next1(t) = Removing(o)
  BY <1>1, <1>2, OperationsAre
<1>4. PICK keys : keys = IF associations[o] = NULL THEN <<>> ELSE SetToSeq(DOMAIN associations[o])
  OBVIOUS
<1>5. PICK s : s = [n \in DOMAIN keys |-> ReleaseValue(associations[o][keys[n]])]
  OBVIOUS
<1>6. Then(t, FlattenSeq(s)) /\ associations' = [associations EXCEPT ![o] = NULL]
  BY <1>3, <1>4, <1>5, Zenon DEF RemoveAssociations
<1>7. /\ FlattenSeq(s) \in Seq(Operation)
      /\ \A x : /\ CountOf(FlattenSeq(s), Release(x)) = Cardinality(Owned(o, x))
                /\ CountOf(FlattenSeq(s), Freeing(x)) = 0
  <2>1. CASE associations[o] = NULL
    <3>1. keys = <<>> /\ s = <<>>
      BY <1>4, <1>5, <2>1
    <3>2. FlattenSeq(s) = <<>>
      BY <3>1, FlattenEmpty
    <3>3. \A x : Owned(o, x) = {}
      BY <2>1 DEF Owned, Table
    <3> QED BY <3>2, <3>3, EmptySeq, CountEmpty, FS_EmptySet
  <2>2. CASE associations[o] # NULL
    <3>1. PICK T \in Tables : T = associations[o]
      BY <2>2 DEF Shape
    <3>2. keys = SetToSeq(DOMAIN T) /\ s = [n \in DOMAIN keys |-> ReleaseValue(T[keys[n]])]
      BY <1>4, <1>5, <2>2, <3>1
    <3>3. \A x : Owned(o, x) = OwnedIn(T, x)
      BY <2>2, <3>1, OwnedOf
    <3>4. /\ FlattenSeq(s) \in Seq(Operation)
          /\ \A x : /\ CountOf(FlattenSeq(s), Release(x)) = Cardinality(OwnedIn(T, x))
                    /\ CountOf(FlattenSeq(s), Freeing(x)) = 0
      BY <3>2, RemovedCounts
    <3> QED BY <3>3, <3>4
  <2> QED BY <2>1, <2>2
<1>8. PICK what : what = FlattenSeq(s)
  OBVIOUS
<1> QED BY <1>1, <1>3, <1>6, <1>7, <1>8

LEMMA RemoveAssociationsInv ==
  ASSUME CountInv, NEW t \in Thread, RemoveAssociations(t)
  PROVE  CountInv'
<1> USE DEF CountInv
<1>1. /\ todo[t] # <<>> /\ lock = NULL
      /\ UNCHANGED <<lock, isa, hasAssoc, rc, phase, held, pc, call>>
  BY RemoveAssociationsIs
<1>2. PICK o \in Object, what \in Seq(Operation) :
        /\ Next1(t) = Removing(o) /\ Then(t, what)
        /\ associations' = [associations EXCEPT ![o] = NULL]
        /\ \A x : /\ CountOf(what, Release(x)) = Cardinality(Owned(o, x))
                  /\ CountOf(what, Freeing(x)) = 0
  BY RemoveAssociationsIs
<1>3. /\ todo' \in [Thread -> Seq(Operation)]
      /\ \A x : /\ CountOf(todo[t], x) \in Nat
                /\ CountOf(todo'[t], x) = CountOf(what, x) + CountOf(todo[t], x)
                                          - One(Next1(t) = x)
  <2>1. Then(t, what) /\ Shape /\ todo[t] # <<>>
    BY <1>1, <1>2
  <2> HIDE DEF CountInv
  <2> QED BY <2>1, ThenCounts
<1>4. ASSUME NEW x \in Object
      PROVE  /\ CountOf(todo'[t], Release(x)) = Cardinality(Owned(o, x)) + CountOf(todo[t], Release(x))
             /\ Frees(t, x)' = Frees(t, x)
  <2>1. One(Next1(t) = Release(x)) = 0 /\ One(Next1(t) = Freeing(x)) = 0
    BY <1>2, OperationsDiffer DEF One
  <2>2. PICK m \in Nat, n \in Nat, c \in Nat :
          /\ m = CountOf(todo[t], Release(x)) /\ n = CountOf(todo[t], Freeing(x))
          /\ c = Cardinality(Owned(o, x))
    BY <1>3, OwnedIs
  <2>3. CountOf(todo'[t], Release(x)) = c + m - 0
    BY <1>2, <1>3, <2>1, <2>2
  <2>4. CountOf(todo'[t], Freeing(x)) = 0 + n - 0
    BY <1>2, <1>3, <2>1, <2>2
  <2>5. Freeing(x)' = Freeing(x)
    BY DEF Freeing
  <2> QED BY <2>2, <2>3, <2>4, <2>5 DEF Frees
<1>5. Shape'
  BY <1>1, <1>2, <1>3 DEF Shape
<1>6. OthersStay(t) /\ associations'[o] = NULL
  BY <1>1, <1>2 DEF OthersStay, Then, Shape
<1>7. ASSUME NEW x \in Object
      PROVE  rc'[x] + Mine(t, x) + Cardinality(Owned(o, x))
               = rc[x] + Mine(t, x)' + Cardinality(Owned(o, x)')
  <2>1. PICK c \in Nat, h \in Nat, r \in Int, a \in Nat :
          /\ c = CountOf(todo[t], Release(x)) /\ h = held[t][x] /\ r = rc[x]
          /\ a = Cardinality(Owned(o, x))
    BY OwesIs, OwnedIs DEF Shape
  <2>2. Owes(t, x) = h + c /\ Owes(t, x)' = h + (a + c)
    <3>1. CountOf(todo'[t], Release(x)) = a + c
      BY <1>4, <2>1
    <3>2. Owes(t, x) = h + c
      BY <2>1, OwesIs
    <3>3. Owes(t, x)' = held'[t][x] + CountOf(todo'[t], Release(x))
      BY <1>5, OwesIsNext
    <3> QED BY <1>1, <2>1, <3>1, <3>2, <3>3
  <2>3. PICK i \in {0, 1} : i = One(t \in Setting(x)) /\ i = One(t \in Setting(x)')
    <3>1. Setting(x)' = Setting(x)
      BY <1>1 DEF Setting
    <3> QED BY <3>1 DEF One
  <2>4. Mine(t, x) = h + c + i /\ Mine(t, x)' = h + (a + c) + i
    BY <2>2, <2>3 DEF Mine
  <2>5. Cardinality(Owned(o, x)') = 0
    <3>1. Owned(o, x)' = {}
      BY <1>6 DEF Owned, Table
    <3> QED BY <3>1, FS_EmptySet
  <2>6. rc'[x] = r
    BY <1>1, <2>1
  <2>7. r + (h + c + i) + a = r + (h + (a + c) + i) + 0
    OBVIOUS
  <2> QED BY <2>1, <2>4, <2>5, <2>6, <2>7
<1>8. \A q \in Object \ {o} : associations'[q] = associations[q]
  BY <1>2 DEF Shape
<1> HIDE DEF Mine
<1>9. RefcountExact'
  BY <1>5, <1>6, <1>7, <1>8, ExactKept
<1>10. FreesOnce'
  BY <1>1, <1>4, <1>6, FreesStay
<1>11. OnlyAliveCounted'
  BY <1>1 DEF OnlyAliveCounted
<1>12. PlacedAt(t)' /\ FoundAt(t)' /\ pc'[t] # "set_flag"
  BY <1>1 DEF Placed, PlacedAt, FoundAt
<1>13. LockRule(t) /\ TablesRule(t)
  BY <1>1 DEF LockRule, TablesRule
<1> QED BY <1>5, <1>6, <1>9, <1>10, <1>11, <1>12, <1>13, PromisesKept

LEMMA CountNext ==
  ASSUME CountInv, [Next]_vars
  PROVE  CountInv'
<1>1. CASE UNCHANGED vars
  <2> USE <1>1 DEF vars, CountInv
  <2>1. Shape'
    BY DEF Shape
  <2>2. Placed' /\ FlagLocked' /\ OnlyAliveCounted'
    BY DEF Placed, PlacedAt, FlagLocked, OnlyAliveCounted
  <2>3. FoundIsThere'
    BY DEF FoundIsThere, FoundAt, Table
  <2>4. RefcountExact'
    <3>1. \A t, o : Owes(t, o)' = Owes(t, o)
      BY DEF Owes, Release
    <3>2. \A p, o : Owned(p, o)' = Owned(p, o) /\ Setting(o)' = Setting(o)
      BY DEF Owned, Table, Setting
    <3>3. \A o : InThreads(o)' = InThreads(o) /\ InTables(o)' = InTables(o)
      BY <3>1, <3>2 DEF InThreads, InTables
    <3> QED BY <3>2, <3>3, Exact, ExactNext
  <2>5. FreesOnce'
    BY DEF FreesOnce, Frees, Freeing
  <2> QED BY <2>1, <2>2, <2>3, <2>4, <2>5
<1>2. ASSUME NEW t \in Thread, NEW o \in Object, NEW k \in Key, NEW v \in Object \cup {NULL},
             NEW p \in Policy, SetBegin(t, o, k, v, p)
      PROVE  CountInv'
  BY <1>2, SetBeginInv
<1>3. ASSUME NEW t \in Thread, NEW o \in Object, NEW k \in Key, Get(t, o, k) PROVE CountInv'
  BY <1>3, GetInv
<1>4. ASSUME NEW t \in Thread, NEW o \in Object, NEW c \in Class, SetClass(t, o, c) PROVE CountInv'
  BY <1>4, SetClassInv
<1>5. ASSUME NEW t \in Thread, NEW o \in Object, Drop(t, o) \/ RemoveAll(t, o) PROVE CountInv'
  BY <1>5, DropInv, RemoveAllInv
<1>6. ASSUME NEW t \in Thread,
             \/ Set(t) \/ SetFlag(t) \/ Done(t) \/ GetRetain(t) \/ Swizzled(t)
             \/ DoRelease(t) \/ RemoveAssociations(t) \/ Free(t)
      PROVE  CountInv'
  BY <1>6, SetInv, SetFlagInv, DoneInv, GetRetainInv, SwizzledInv, DoReleaseInv,
     RemoveAssociationsInv, FreeInv
<1> QED BY <1>1, <1>2, <1>3, <1>4, <1>5, <1>6 DEF Next

LEMMA CountInit == Init => CountInv
<1> SUFFICES ASSUME Init PROVE CountInv
  OBVIOUS
<1>1. /\ associations = [o \in Object |-> NULL] /\ lock = NULL
      /\ isa \in [Object -> Class] /\ hasAssoc = [c \in Class |-> FALSE]
      /\ pc = [t \in Thread |-> "idle"] /\ call = [t \in Thread |-> NoCall]
      /\ todo = [t \in Thread |-> <<>>]
  BY DEF Init
<1>2. PICK unborn \in Object, holders \in [Object -> SUBSET Thread] :
         /\ \A o \in Object : holders[o] = {} <=> o = unborn
         /\ phase = [o \in Object |-> IF o = unborn THEN "unborn" ELSE "alive"]
         /\ rc = [o \in Object |-> Cardinality(holders[o])]
         /\ held = [t \in Thread |-> [o \in Object |-> IF t \in holders[o] THEN 1 ELSE 0]]
  BY DEF Init
<1>3. \A o \in Object : IsFiniteSet(holders[o]) /\ Cardinality(holders[o]) \in Nat
  BY AssociationsAssumption, FS_Subset, FS_CardinalityType
<1>4. Shape
  <2>1. <<>> \in Seq(Operation)
    BY EmptySeq
  <2>2. rc \in [Object -> Int] /\ held \in [Thread -> [Object -> Nat]]
    BY <1>2, <1>3
  <2>3. phase \in [Object -> {"unborn", "alive", "dying", "freed"}]
    BY <1>2
  <2> QED BY <1>1, <2>1, <2>2, <2>3, NoCallIs DEF Shape
<1>5. Placed /\ FoundIsThere /\ FlagLocked
  BY <1>1 DEF Placed, PlacedAt, FoundIsThere, FoundAt, FlagLocked
<1>6. RefcountExact
  <2> SUFFICES ASSUME NEW o \in Object
               PROVE  rc[o] = InThreads(o) + InTables(o) + Cardinality(Setting(o))
    BY Exact
  <2>1. InTables(o) = 0
    <3>1. \A p \in Object : Cardinality(Owned(p, o)) = 0
      <4>1. \A p \in Object : Owned(p, o) = {}
        BY <1>1 DEF Owned, Table
      <4> QED BY <4>1, FS_EmptySet
    <3>2. PICK g \in [Object -> Nat] : g = [p \in Object |-> Cardinality(Owned(p, o))]
      BY <1>4, OwnedIs
    <3>3. SumFunction(g) = 0
      <4>1. \A p \in Object : g[p] = 0
        BY <3>1, <3>2
      <4> QED BY <4>1, SumZero, AssociationsAssumption
    <3> QED BY <3>2, <3>3 DEF InTables
  <2>2. Cardinality(Setting(o)) = 0
    <3>1. Setting(o) = {}
      BY <1>1 DEF Setting
    <3> QED BY <3>1, FS_EmptySet
  <2>3. \A t \in Thread : Owes(t, o) = One(t \in holders[o])
    <3> SUFFICES ASSUME NEW t \in Thread PROVE Owes(t, o) = One(t \in holders[o])
      OBVIOUS
    <3>1. CountOf(todo[t], Release(o)) = 0
      BY <1>1, CountEmpty
    <3>2. held[t][o] = One(t \in holders[o]) /\ One(t \in holders[o]) \in {0, 1}
      BY <1>2 DEF One
    <3>3. Owes(t, o) = held[t][o] + CountOf(todo[t], Release(o))
      BY <1>4, OwesIs
    <3> QED BY <3>1, <3>2, <3>3
  <2>4. [t \in Thread |-> Owes(t, o)] = Ones(Thread, holders[o])
    BY <2>3 DEF Ones
  <2>5. SumFunction(Ones(Thread, holders[o])) = Cardinality(holders[o])
    BY AssociationsAssumption, SumOnes
  <2>6. InThreads(o) = Cardinality(holders[o])
    BY <2>4, <2>5 DEF InThreads
  <2>7. rc[o] = Cardinality(holders[o])
    BY <1>2
  <2> QED BY <1>3, <2>1, <2>2, <2>6, <2>7
<1>7. OnlyAliveCounted
  <2> SUFFICES ASSUME NEW o \in Object, phase[o] # "alive" PROVE rc[o] = 0
    BY DEF OnlyAliveCounted
  <2>1. holders[o] = {}
    BY <1>2
  <2> QED BY <1>2, <2>1, FS_EmptySet
<1>8. FreesOnce
  <2>1. \A t \in Thread : \A o \in Object : Frees(t, o) = 0
    BY <1>1, CountEmpty DEF Frees
  <2> HIDE DEF Frees
  <2> QED BY <2>1 DEF FreesOnce
<1> QED BY <1>4, <1>5, <1>6, <1>7, <1>8 DEF CountInv

\* A value that an association owns, and one that a getter that retains has found, is
\* alive; and an object's count is what is owed to it: no reference is lost in a set,
\* a removal or a deallocation, and none is given twice, however the calls interleave.
THEOREM ReferencesStayConsistent == Spec => []ReferencesConsistent
<1>1. Init => CountInv
  BY CountInit
<1>2. CountInv /\ [Next]_vars => CountInv'
  BY CountNext
<1>3. CountInv => ReferencesConsistent
  <2> SUFFICES ASSUME CountInv PROVE ReferencesConsistent
    OBVIOUS
  <2> USE DEF CountInv
  <2>1. rc \in [Object -> Nat]
    <3>1. \A o \in Object : rc[o] \in Nat
      BY CountsAtLeast
    <3> QED BY <3>1 DEF Shape
  <2>2. \A o \in Object : associations[o] # NULL => associations[o] \in [Table(o) -> Entry]
    BY DEF Shape, Tables, Table
  <2>3. TypeOK
    BY <2>1, <2>2 DEF TypeOK, Shape
  <2>4. OwnedValueAlive
    BY OwnedAlive, FoundAlive DEF OwnedValueAlive
  <2> QED BY <2>3, <2>4 DEF ReferencesConsistent
<1> QED BY <1>1, <1>2, <1>3, PTL DEF Spec

-----------------------------------------------------------------------------
(* What is to be done, and RemovedBefore.                                      *)

\* What is counted zero times is nowhere.
LEMMA NotCounted ==
  ASSUME NEW s \in Seq(Operation), NEW x, CountOf(s, x) = 0
  PROVE  \A n \in DOMAIN s : s[n] # x
<1>1. IsFiniteSet(OccursAt(s, x))
  BY OccursFinite
<1>2. OccursAt(s, x) = {}
  BY <1>1, FS_EmptySet DEF CountOf
<1> QED BY <1>2 DEF OccursAt

LEMMA RemovedNone ==
  ASSUME NEW s \in Seq(Operation), NEW o, CountOf(s, Freeing(o)) = 0
  PROVE  RemovedBefore(s, o)
BY NotCounted DEF RemovedBefore

\* What frees nothing may be put before the rest.
LEMMA RemovedConcat ==
  ASSUME NEW w \in Seq(Operation), NEW s \in Seq(Operation), NEW o,
         CountOf(w, Freeing(o)) = 0, RemovedBefore(s, o)
  PROVE  RemovedBefore(w \o s, o)
<1>1. PICK a \in Nat, b \in Nat : a = Len(w) /\ b = Len(s)
  BY LenProperties
<1>2. \A n \in 1..a : w[n] # Freeing(o)
  BY <1>1, NotCounted, LenProperties
<1>3. /\ DOMAIN (w \o s) = 1..(a + b)
      /\ \A n \in 1..(a + b) : (w \o s)[n] = IF n <= a THEN w[n] ELSE s[n - a]
  BY <1>1, ConcatProperties, LenProperties
<1>4. DOMAIN s = 1..b
  BY <1>1, LenProperties
<1> SUFFICES ASSUME NEW n \in 1..(a + b), (w \o s)[n] = Freeing(o)
             PROVE  \E m \in 1..(a + b) : m < n /\ (w \o s)[m] = Removing(o)
  BY <1>3 DEF RemovedBefore
<1>5. n > a /\ s[n - a] = Freeing(o) /\ n - a \in 1..b
  <2>1. ~ (n <= a)
    <3>1. n <= a => n \in 1..a /\ (w \o s)[n] = w[n]
      BY <1>3
    <3> QED BY <1>2, <3>1
  <2>2. (w \o s)[n] = s[n - a]
    BY <1>3, <2>1
  <2>3. n > a /\ n - a \in 1..b
    BY <1>1, <2>1
  <2> QED BY <2>2, <2>3
<1>6. PICK m \in 1..b : m < n - a /\ s[m] = Removing(o)
  BY <1>4, <1>5 DEF RemovedBefore
<1>7. m + a \in 1..(a + b) /\ m + a < n /\ ~ (m + a <= a) /\ (m + a) - a = m
  BY <1>1, <1>6
<1>8. (w \o s)[m + a] = s[m]
  BY <1>3, <1>7
<1> QED BY <1>6, <1>7, <1>8

\* Nor does it matter that something else was done first.
LEMMA RemovedTail ==
  ASSUME NEW s \in Seq(Operation), s # <<>>, NEW o, Head(s) # Removing(o), RemovedBefore(s, o)
  PROVE  RemovedBefore(Tail(s), o)
<1>1. PICK b \in Nat : b = Len(s) /\ b > 0
  BY LenProperties, EmptySeq
<1>2. /\ DOMAIN s = 1..b /\ Head(s) = s[1] /\ DOMAIN Tail(s) = 1..(b - 1)
      /\ \A n \in 1..(b - 1) : Tail(s)[n] = s[n + 1]
  BY <1>1, HeadTailProperties, LenProperties
<1> SUFFICES ASSUME NEW n \in 1..(b - 1), Tail(s)[n] = Freeing(o)
             PROVE  \E m \in 1..(b - 1) : m < n /\ Tail(s)[m] = Removing(o)
  BY <1>2 DEF RemovedBefore
<1>3. n + 1 \in 1..b /\ s[n + 1] = Freeing(o)
  BY <1>1, <1>2
<1>4. PICK m \in 1..b : m < n + 1 /\ s[m] = Removing(o)
  BY <1>2, <1>3 DEF RemovedBefore
<1>5. m # 1
  BY <1>2, <1>4
<1>6. m - 1 \in 1..(b - 1) /\ m - 1 < n /\ (m - 1) + 1 = m
  BY <1>1, <1>4, <1>5
<1>7. Tail(s)[m - 1] = s[m]
  BY <1>2, <1>6
<1> QED BY <1>4, <1>6, <1>7

\* A removal that comes first is before every free.
LEMMA RemovedFirst ==
  ASSUME NEW s \in Seq(Operation), s # <<>>, NEW o, Head(s) = Removing(o)
  PROVE  RemovedBefore(s, o)
<1>1. PICK b \in Nat : b = Len(s) /\ b > 0
  BY LenProperties, EmptySeq
<1>2. DOMAIN s = 1..b /\ s[1] = Removing(o)
  BY <1>1, HeadTailProperties, LenProperties
<1> SUFFICES ASSUME NEW n \in 1..b, s[n] = Freeing(o)
             PROVE  \E m \in 1..b : m < n /\ s[m] = Removing(o)
  BY <1>2 DEF RemovedBefore
<1>3. n # 1
  BY <1>2, OperationsDiffer
<1>4. 1 \in 1..b /\ 1 < n
  BY <1>1, <1>3
<1> QED BY <1>2, <1>4

\* What comes first still does when more is to follow.
LEMMA HeadOfConcat ==
  ASSUME NEW w \in Seq(Operation), w # <<>>, NEW s \in Seq(Operation)
  PROVE  w \o s \in Seq(Operation) /\ w \o s # <<>> /\ Head(w \o s) = Head(w)
<1>1. PICK a \in Nat \ {0}, b \in Nat : a = Len(w) /\ b = Len(s)
  BY LenProperties, EmptySeq
<1>2. w \o s \in Seq(Operation) /\ Len(w \o s) = a + b
  BY <1>1, ConcatProperties
<1>3. 1 \in 1..(a + b) /\ 1 <= a
  BY <1>1
<1>4. (w \o s)[1] = w[1]
  BY <1>1, <1>3, ConcatProperties
<1>5. w \o s # <<>>
  BY <1>1, <1>2, EmptySeq
<1>6. Head(w \o s) = (w \o s)[1] /\ Head(w) = w[1]
  BY <1>2
<1> QED BY <1>2, <1>4, <1>5, <1>6

\* And a free that comes first is before every removal.
LEMMA FreedFirst ==
  ASSUME NEW s \in Seq(Operation), s # <<>>, NEW o, Head(s) = Freeing(o)
  PROVE  ~ RemovedBefore(s, o)
<1>1. PICK b \in Nat : b = Len(s) /\ b > 0
  BY LenProperties, EmptySeq
<1>2. DOMAIN s = 1..b /\ s[1] = Freeing(o) /\ 1 \in 1..b
  BY <1>1, HeadTailProperties, LenProperties
<1> SUFFICES ASSUME RemovedBefore(s, o) PROVE FALSE
  OBVIOUS
<1>3. PICK m \in 1..b : m < 1
  BY <1>2 DEF RemovedBefore
<1> QED BY <1>3

-----------------------------------------------------------------------------
(* The steps and RemoveInv.                                                    *)

\* A step gives a table to no object that had none, and revives none that has one.
NoNewTables ==
    /\ \A o \in Object : associations'[o] # NULL => associations[o] # NULL
    /\ \A o \in Object : associations'[o] # NULL /\ phase'[o] = "alive" => phase[o] = "alive"

\* A step of a thread that is not about to flag a class, and will not be.
LEMMA FlagsKept ==
  ASSUME RemoveInv, NEW t \in Thread, OthersStay(t), UNCHANGED <<isa, hasAssoc>>, NoNewTables,
         pc[t] \notin {"set_flag", "swizzle"}, pc'[t] \notin {"set", "set_flag", "swizzle"}
  PROVE  SwizzlesAlone' /\ FlagsItsClass' /\ Flagged'
<1>1. ASSUME NEW u \in Thread, pc'[u] \in {"set", "set_flag", "swizzle"}
      PROVE  u # t /\ pc'[u] = pc[u] /\ call'[u] = call[u]
  BY <1>1 DEF OthersStay
<1>2. SwizzlesAlone'
  BY <1>1 DEF RemoveInv, SwizzlesAlone
<1>3. FlagsItsClass'
  BY <1>1 DEF RemoveInv, FlagsItsClass
<1>4. Flagged'
  <2> SUFFICES ASSUME NEW o \in Object, associations'[o] # NULL, phase'[o] = "alive"
               PROVE  FlaggedAt(o)'
    BY DEF Flagged
  <2>1. FlaggedAt(o)
    BY DEF RemoveInv, Flagged, NoNewTables
  <2>2. \A u \in Thread : pc[u] \in {"set_flag", "swizzle"} =>
                            pc'[u] = pc[u] /\ call'[u] = call[u]
    BY DEF OthersStay
  <2> QED BY <2>1, <2>2 DEF FlaggedAt
<1> QED BY <1>2, <1>3, <1>4

\* What is to be done is preceded by what frees nothing.
LEMMA RemovesAfterTodo ==
  ASSUME RemoveInv, NEW t \in Thread, NEW what \in Seq(Operation), Todo(t, what),
         \A o : CountOf(what, Freeing(o)) = 0,
         \A o \in Object : associations'[o] # NULL => associations[o] # NULL
  PROVE  RemovesFirst'
<1> SUFFICES ASSUME NEW o \in Object, associations'[o] # NULL, NEW u \in Thread
             PROVE  RemovedBefore(todo'[u], o)
  BY DEF RemovesFirst, RemovedBefore, Freeing, Removing
<1>1. RemovedBefore(todo[u], o) /\ todo[u] \in Seq(Operation) /\ todo[t] \in Seq(Operation)
  BY DEF RemoveInv, RemovesFirst, CountInv, Shape
<1>2. todo'[u] = IF u = t THEN what \o todo[t] ELSE todo[u]
  BY DEF Todo, RemoveInv, CountInv, Shape
<1>3. u = t => RemovedBefore(what \o todo[t], o)
  BY <1>1, RemovedConcat
<1> QED BY <1>1, <1>2, <1>3

\* The next of what is to be done is replaced by what frees nothing, unless it removed
\* the associations of an object that is left with none.
LEMMA RemovesAfterThen ==
  ASSUME RemoveInv, NEW t \in Thread, todo[t] # <<>>, NEW what \in Seq(Operation),
         Then(t, what), NEW o \in Object, CountOf(what, Freeing(o)) = 0,
         associations[o] # NULL, Next1(t) # Removing(o), NEW u \in Thread
  PROVE  RemovedBefore(todo'[u], o)
<1>1. RemovedBefore(todo[u], o) /\ todo[u] \in Seq(Operation) /\ todo[t] \in Seq(Operation)
  BY DEF RemoveInv, RemovesFirst, CountInv, Shape
<1>2. PICK r \in Seq(Operation) : r = Tail(todo[t])
  BY <1>1, HeadTailProperties
<1>3. todo'[u] = IF u = t THEN what \o r ELSE todo[u]
  BY <1>2 DEF Then, RemoveInv, CountInv, Shape
<1>4. u = t => RemovedBefore(r, o)
  BY <1>1, <1>2, RemovedTail DEF Next1
<1>5. u = t => RemovedBefore(what \o r, o)
  BY <1>4, RemovedConcat
<1> QED BY <1>1, <1>3, <1>5

LEMMA RemovesFirstNext ==
  ASSUME \A o \in Object : \A u \in Thread :
            associations'[o] # NULL => RemovedBefore(todo'[u], o)
  PROVE  RemovesFirst'
BY DEF RemovesFirst, RemovedBefore, Freeing, Removing

\* A step that leaves the tables, and what is to be done, alone.
LEMMA TablesStay ==
  ASSUME RemoveInv, UNCHANGED <<associations, todo>>,
         \A o \in Object : phase'[o] \in {"unborn", "freed"} => phase[o] \in {"unborn", "freed"}
  PROVE  NoneLeftBehind' /\ RemovesFirst'
<1>1. NoneLeftBehind'
  BY DEF RemoveInv, NoneLeftBehind
<1>2. RemovesFirst'
  BY DEF RemoveInv, RemovesFirst, RemovedBefore, Freeing, Removing
<1> QED BY <1>1, <1>2

\* An object that is not dead is not going to be freed.
LEMMA AliveIsNotFreed ==
  ASSUME CountInv, NEW o \in Object, phase[o] = "alive", NEW u \in Thread
  PROVE  todo[u] \in Seq(Operation) /\ CountOf(todo[u], Freeing(o)) = 0
         /\ RemovedBefore(todo[u], o)
<1>1. todo[u] \in Seq(Operation)
  BY DEF CountInv, Shape
<1>2. Frees(u, o) = 0
  BY DEF CountInv, FreesOnce
<1> QED BY <1>1, <1>2, RemovedNone DEF Frees

LEMMA DoneRemoves ==
  ASSUME RemoveInv, NEW t \in Thread, Done(t)
  PROVE  RemoveInv'
<1>1. /\ pc[t] = "done" /\ pc' = [pc EXCEPT ![t] = "idle"] /\ call' = [call EXCEPT ![t] = NoCall]
      /\ UNCHANGED <<associations, lock, isa, hasAssoc, rc, phase, held, todo>>
  BY DEF Done, Goto
<1>2. OthersStay(t) /\ pc'[t] = "idle"
  BY <1>1 DEF OthersStay, RemoveInv, CountInv, Shape
<1>3. NoNewTables
  BY <1>1 DEF NoNewTables
<1>4. CountInv'
  BY DoneInv DEF RemoveInv
<1>5. NoneLeftBehind' /\ RemovesFirst'
  BY <1>1, TablesStay
<1>6. SwizzlesAlone' /\ FlagsItsClass' /\ Flagged'
  BY <1>1, <1>2, <1>3, FlagsKept
<1> QED BY <1>4, <1>5, <1>6 DEF RemoveInv

LEMMA GetRemoves ==
  ASSUME RemoveInv, NEW t \in Thread, NEW o \in Object, NEW k \in Key, Get(t, o, k)
  PROVE  RemoveInv'
<1>1. /\ pc[t] = "idle" /\ UNCHANGED <<associations, isa, hasAssoc, rc, phase, held, todo>>
      /\ \/ UNCHANGED <<pc, call>>
         \/ pc' = [pc EXCEPT ![t] = "get"] /\ \E c : call' = [call EXCEPT ![t] = c]
  BY DEF Get, Begin, Goto
<1>2. OthersStay(t) /\ pc'[t] \in {"idle", "get"}
  BY <1>1 DEF OthersStay, RemoveInv, CountInv, Shape
<1>3. NoNewTables
  BY <1>1 DEF NoNewTables
<1>4. CountInv'
  BY GetInv DEF RemoveInv
<1>5. NoneLeftBehind' /\ RemovesFirst'
  BY <1>1, TablesStay
<1>6. SwizzlesAlone' /\ FlagsItsClass' /\ Flagged'
  BY <1>1, <1>2, <1>3, FlagsKept
<1> QED BY <1>4, <1>5, <1>6 DEF RemoveInv

LEMMA GetRetainRemoves ==
  ASSUME RemoveInv, NEW t \in Thread, GetRetain(t)
  PROVE  RemoveInv'
<1>1. /\ pc[t] = "get" /\ pc' = [pc EXCEPT ![t] = "done"]
      /\ held' = [held EXCEPT ![t][call[t].value] = @ + 1]
      /\ UNCHANGED <<associations, isa, hasAssoc, phase, call, todo>>
  BY DEF GetRetain, Goto
<1>2. OthersStay(t) /\ pc'[t] = "done"
  BY <1>1 DEF OthersStay, RemoveInv, CountInv, Shape
<1>3. NoNewTables
  BY <1>1 DEF NoNewTables
<1>4. CountInv'
  BY GetRetainInv DEF RemoveInv
<1>5. NoneLeftBehind' /\ RemovesFirst'
  BY <1>1, TablesStay
<1>6. SwizzlesAlone' /\ FlagsItsClass' /\ Flagged'
  BY <1>1, <1>2, <1>3, FlagsKept
<1> QED BY <1>4, <1>5, <1>6 DEF RemoveInv

LEMMA DropRemoves ==
  ASSUME RemoveInv, NEW t \in Thread, NEW o \in Object, Drop(t, o)
  PROVE  RemoveInv'
<1>1. /\ pc[t] = "idle" /\ held' = [held EXCEPT ![t][o] = @ - 1] /\ Todo(t, <<Release(o)>>)
      /\ UNCHANGED <<associations, isa, hasAssoc, phase, pc, call>>
  BY DEF Drop, Begin
<1>2. OthersStay(t)
  BY <1>1 DEF OthersStay, Todo, RemoveInv, CountInv, Shape
<1>3. NoNewTables
  BY <1>1 DEF NoNewTables
<1>4. CountInv'
  BY DropInv DEF RemoveInv
<1>5. NoneLeftBehind'
  BY <1>1 DEF RemoveInv, NoneLeftBehind
<1>6. RemovesFirst'
  <2>1. Release(o) \in Operation
    BY OperationsAre
  <2>2. <<Release(o)>> \in Seq(Operation)
    BY <2>1
  <2>3. \A x : CountOf(<<Release(o)>>, Freeing(x)) = 0
    BY CountSingle, OperationsDiffer DEF One
  <2> QED BY <1>1, <2>2, <2>3, RemovesAfterTodo
<1>7. SwizzlesAlone' /\ FlagsItsClass' /\ Flagged'
  BY <1>1, <1>2, <1>3, FlagsKept
<1> QED BY <1>4, <1>5, <1>6, <1>7 DEF RemoveInv

LEMMA RemoveAllRemoves ==
  ASSUME RemoveInv, NEW t \in Thread, NEW o \in Object, RemoveAll(t, o)
  PROVE  RemoveInv'
<1>1. /\ pc[t] = "idle" /\ Todo(t, <<Removing(o)>>)
      /\ UNCHANGED <<associations, isa, hasAssoc, phase, held, pc, call>>
  BY DEF RemoveAll, Begin, Removing
<1>2. OthersStay(t)
  BY <1>1 DEF OthersStay, Todo, RemoveInv, CountInv, Shape
<1>3. NoNewTables
  BY <1>1 DEF NoNewTables
<1>4. CountInv'
  BY RemoveAllInv DEF RemoveInv
<1>5. NoneLeftBehind'
  BY <1>1 DEF RemoveInv, NoneLeftBehind
<1>6. RemovesFirst'
  <2>1. Removing(o) \in Operation
    BY OperationsAre
  <2>2. <<Removing(o)>> \in Seq(Operation)
    BY <2>1
  <2>3. \A x : CountOf(<<Removing(o)>>, Freeing(x)) = 0
    BY CountSingle, OperationsDiffer DEF One
  <2> QED BY <1>1, <2>2, <2>3, RemovesAfterTodo
<1>7. SwizzlesAlone' /\ FlagsItsClass' /\ Flagged'
  BY <1>1, <1>2, <1>3, FlagsKept
<1> QED BY <1>4, <1>5, <1>6, <1>7 DEF RemoveInv

\* The class that is flagged is the object's still.
LEMMA SetFlagRemoves ==
  ASSUME RemoveInv, NEW t \in Thread, SetFlag(t)
  PROVE  RemoveInv'
<1>1. /\ pc[t] = "set_flag" /\ call[t].old \in Class
      /\ hasAssoc' = [hasAssoc EXCEPT ![call[t].old] = TRUE] /\ pc' = [pc EXCEPT ![t] = "done"]
      /\ UNCHANGED <<associations, isa, phase, call, todo>>
  BY DEF SetFlag, Goto, RemoveInv, CountInv, Placed, PlacedAt
<1>2. /\ pc'[t] = "done" /\ hasAssoc'[call[t].old] = TRUE
      /\ \A u \in Thread \ {t} : pc'[u] = pc[u]
      /\ \A c \in Class : hasAssoc[c] => hasAssoc'[c]
  BY <1>1 DEF RemoveInv, CountInv, Shape
<1>3. CountInv'
  BY SetFlagInv DEF RemoveInv
<1>4. NoneLeftBehind' /\ RemovesFirst'
  BY <1>1, TablesStay
<1>5. SwizzlesAlone' /\ FlagsItsClass'
  BY <1>1, <1>2 DEF RemoveInv, SwizzlesAlone, FlagsItsClass
<1>6. Flagged'
  <2> SUFFICES ASSUME NEW o \in Object, associations[o] # NULL, phase[o] = "alive"
               PROVE  FlaggedAt(o)'
    BY <1>1 DEF Flagged
  <2>1. FlaggedAt(o) /\ isa[o] \in Class
    BY DEF RemoveInv, Flagged, CountInv, Shape
  <2>2. CASE hasAssoc[isa[o]]
    BY <1>1, <1>2, <2>1, <2>2 DEF FlaggedAt
  <2>3. ASSUME NEW u \in Thread, pc[u] = "set_flag", call[u].obj = o PROVE FlaggedAt(o)'
    <3>1. u = t => call[t].old = isa[o]
      BY <2>3 DEF RemoveInv, FlagsItsClass
    <3> QED BY <1>1, <1>2, <2>3, <3>1 DEF FlaggedAt
  <2>4. ASSUME NEW u \in Thread, pc[u] = "swizzle", call[u].obj = o, hasAssoc[call[u].old]
        PROVE  FlaggedAt(o)'
    <3>1. u # t /\ call[u].old \in Class
      BY <1>1, <2>4 DEF RemoveInv, CountInv, Placed, PlacedAt
    <3> QED BY <1>1, <1>2, <2>4, <3>1 DEF FlaggedAt
  <2> QED BY <2>1, <2>2, <2>3, <2>4 DEF FlaggedAt
<1> QED BY <1>3, <1>4, <1>5, <1>6 DEF RemoveInv

\* The old class's flag is passed to what the object's class still is.
LEMMA SwizzledRemoves ==
  ASSUME RemoveInv, NEW t \in Thread, Swizzled(t)
  PROVE  RemoveInv'
<1>1. /\ pc[t] = "swizzle" /\ call[t].new \in Class /\ call[t].old \in Class
      /\ hasAssoc' = [hasAssoc EXCEPT ![call[t].new] = @ \/ hasAssoc[call[t].old]]
      /\ pc' = [pc EXCEPT ![t] = "done"]
      /\ UNCHANGED <<associations, isa, phase, call, todo>>
  BY DEF Swizzled, PassFlag, Goto, RemoveInv, CountInv, Placed, PlacedAt
<1>2. /\ pc'[t] = "done" /\ (hasAssoc[call[t].old] => hasAssoc'[call[t].new])
      /\ \A u \in Thread \ {t} : pc'[u] = pc[u]
      /\ \A c \in Class : hasAssoc[c] => hasAssoc'[c]
  BY <1>1 DEF RemoveInv, CountInv, Shape
<1>3. CountInv'
  BY SwizzledInv DEF RemoveInv
<1>4. NoneLeftBehind' /\ RemovesFirst'
  BY <1>1, TablesStay
<1>5. SwizzlesAlone' /\ FlagsItsClass'
  BY <1>1, <1>2 DEF RemoveInv, SwizzlesAlone, FlagsItsClass
<1>6. Flagged'
  <2> SUFFICES ASSUME NEW o \in Object, associations[o] # NULL, phase[o] = "alive"
               PROVE  FlaggedAt(o)'
    BY <1>1 DEF Flagged
  <2>1. FlaggedAt(o) /\ isa[o] \in Class
    BY DEF RemoveInv, Flagged, CountInv, Shape
  <2>2. CASE hasAssoc[isa[o]]
    BY <1>1, <1>2, <2>1, <2>2 DEF FlaggedAt
  <2>3. ASSUME NEW u \in Thread, pc[u] = "set_flag", call[u].obj = o PROVE FlaggedAt(o)'
    <3>1. u # t
      BY <1>1, <2>3
    <3> QED BY <1>1, <1>2, <2>3, <3>1 DEF FlaggedAt
  <2>4. ASSUME NEW u \in Thread, pc[u] = "swizzle", call[u].obj = o, hasAssoc[call[u].old]
        PROVE  FlaggedAt(o)'
    <3>1. call[u].old \in Class /\ call[u].new = isa[o]
      BY <2>4 DEF RemoveInv, CountInv, Placed, PlacedAt, SwizzlesAlone
    <3> QED BY <1>1, <1>2, <2>4, <3>1 DEF FlaggedAt
  <2> QED BY <2>1, <2>2, <2>3, <2>4 DEF FlaggedAt
<1> QED BY <1>3, <1>4, <1>5, <1>6 DEF RemoveInv

\* Nobody else is in a call on the object whose class is exchanged.
LEMMA SetClassRemoves ==
  ASSUME RemoveInv, ~ ConcurrentSwizzle,
         NEW t \in Thread, NEW o \in Object, NEW c \in Class, SetClass(t, o, c)
  PROVE  RemoveInv'
<1>1. /\ pc[t] = "idle" /\ \A u \in Thread \ {t} : call[u].obj # o
      /\ isa' = [isa EXCEPT ![o] = c] /\ pc' = [pc EXCEPT ![t] = "swizzle"]
      /\ call' = [call EXCEPT ![t] = [NoCall EXCEPT !.obj = o, !.old = isa[o], !.new = c]]
      /\ UNCHANGED <<associations, hasAssoc, phase, todo>>
  BY DEF SetClass, Begin, Goto, Alone
<1>2. /\ pc'[t] = "swizzle" /\ call'[t].obj = o /\ call'[t].old = isa[o] /\ call'[t].new = c
      /\ \A u \in Thread \ {t} : pc'[u] = pc[u] /\ call'[u] = call[u]
      /\ isa'[o] = c /\ \A x \in Object \ {o} : isa'[x] = isa[x]
  BY <1>1 DEF RemoveInv, CountInv, Shape, NoCall
<1>3. ASSUME NEW u \in Thread \ {t}, pc[u] \in {"set", "set_flag", "swizzle"}
      PROVE  call[u].obj \in Object \ {o} /\ isa'[call[u].obj] = isa[call[u].obj]
  BY <1>1, <1>2, <1>3 DEF RemoveInv, CountInv, Placed, PlacedAt
<1>4. CountInv'
  BY SetClassInv DEF RemoveInv
<1>5. NoneLeftBehind' /\ RemovesFirst'
  BY <1>1, TablesStay
<1>6. SwizzlesAlone'
  <2>1. ASSUME NEW u \in Thread, pc'[u] = "swizzle"
        PROVE  call'[u].new = isa'[call'[u].obj]
    BY <1>2, <1>3, <2>1 DEF RemoveInv, SwizzlesAlone
  <2>2. ASSUME NEW u \in Thread, pc'[u] = "swizzle", NEW v \in Thread \ {u},
               pc'[v] \in {"set", "set_flag", "swizzle"}
        PROVE  call'[v].obj # call'[u].obj
    <3>1. CASE u = t
      BY <1>1, <1>2, <2>2, <3>1
    <3>2. CASE v = t
      BY <1>1, <1>2, <2>2, <3>2
    <3>3. CASE u # t /\ v # t
      BY <1>2, <2>2, <3>3 DEF RemoveInv, SwizzlesAlone
    <3> QED BY <3>1, <3>2, <3>3
  <2> QED BY <2>1, <2>2 DEF SwizzlesAlone
<1>7. FlagsItsClass'
  BY <1>2, <1>3 DEF RemoveInv, FlagsItsClass
<1>8. Flagged'
  <2> SUFFICES ASSUME NEW x \in Object, associations[x] # NULL, phase[x] = "alive"
               PROVE  FlaggedAt(x)'
    BY <1>1 DEF Flagged
  <2>1. FlaggedAt(x)
    BY DEF RemoveInv, Flagged
  <2>2. CASE x = o
    BY <1>1, <1>2, <2>1, <2>2 DEF FlaggedAt
  <2>3. CASE x # o
    <3>1. isa'[x] = isa[x] /\ \A u \in Thread : pc[u] # "idle" => pc'[u] = pc[u] /\ call'[u] = call[u]
      BY <1>1, <1>2, <2>3
    <3> QED BY <1>1, <2>1, <3>1 DEF FlaggedAt
  <2> QED BY <2>2, <2>3
<1> QED BY <1>4, <1>5, <1>6, <1>7, <1>8 DEF RemoveInv

\* A copy is a new object, and has no associations; nobody is in a call on it.
LEMMA SetBeginRemoves ==
  ASSUME RemoveInv, ~ ConcurrentSwizzle, NEW t \in Thread, NEW o \in Object, NEW k \in Key,
         NEW v \in Object \cup {NULL}, NEW p \in Policy, SetBegin(t, o, k, v, p)
  PROVE  RemoveInv'
<1>1. /\ pc[t] = "idle" /\ held[t][o] > 0 /\ pc' = [pc EXCEPT ![t] = "set"]
      /\ UNCHANGED <<associations, hasAssoc, todo>>
  BY SetBeginIs DEF RemoveInv
<1>2. PICK w \in Object \cup {NULL}, c \in Call :
        /\ call' = [call EXCEPT ![t] = c] /\ c.obj = o
        /\ w = v => isa' = isa /\ phase' = phase
        /\ w # v => /\ w \in Object /\ phase[w] \in {"unborn", "freed"}
                    /\ phase' = [phase EXCEPT ![w] = "alive"]
                    /\ isa' = [isa EXCEPT ![w] = isa[v]]
  BY SetBeginIs DEF RemoveInv
<1>3. \A u \in Thread : pc[u] = "swizzle" => call[u].obj # o
  BY DEF SetBegin
<1>4. /\ pc'[t] = "set" /\ call'[t].obj = o
      /\ \A u \in Thread \ {t} : pc'[u] = pc[u] /\ call'[u] = call[u]
  BY <1>1, <1>2 DEF RemoveInv, CountInv, Shape
<1>5. ASSUME NEW x \in Object, phase[x] = "alive" PROVE isa'[x] = isa[x]
  BY <1>2, <1>5 DEF RemoveInv, CountInv, Shape
<1>6. ASSUME NEW x \in Object, phase'[x] # phase[x]
      PROVE  phase'[x] = "alive" /\ phase[x] \in {"unborn", "freed"}
  BY <1>2, <1>6 DEF RemoveInv, CountInv, Shape
<1>7. ASSUME NEW u \in Thread, pc[u] \in {"set", "set_flag", "swizzle"}
      PROVE  u # t /\ isa'[call[u].obj] = isa[call[u].obj]
  <2>1. call[u].obj \in Object /\ held[u][call[u].obj] > 0
    BY <1>7 DEF RemoveInv, CountInv, Placed, PlacedAt
  <2>2. phase[call[u].obj] = "alive"
    BY <2>1, HeldAlive DEF RemoveInv
  <2> QED BY <1>1, <1>5, <1>7, <2>1, <2>2
<1>8. CountInv'
  BY SetBeginInv DEF RemoveInv
<1>9. NoneLeftBehind' /\ RemovesFirst'
  BY <1>1, <1>6, TablesStay
<1>10. SwizzlesAlone'
  BY <1>3, <1>4, <1>7 DEF RemoveInv, SwizzlesAlone
<1>11. FlagsItsClass'
  BY <1>4, <1>7 DEF RemoveInv, FlagsItsClass
<1>12. Flagged'
  <2> SUFFICES ASSUME NEW x \in Object, associations[x] # NULL, phase'[x] = "alive"
               PROVE  FlaggedAt(x)'
    BY <1>1 DEF Flagged
  <2>1. phase[x] = "alive"
    BY <1>6 DEF RemoveInv, NoneLeftBehind
  <2>2. FlaggedAt(x) /\ isa'[x] = isa[x]
    BY <1>5, <2>1 DEF RemoveInv, Flagged
  <2> QED BY <1>1, <1>4, <2>2 DEF FlaggedAt
<1> QED BY <1>8, <1>9, <1>10, <1>11, <1>12 DEF RemoveInv

\* The first association makes the table; its object, being held, is not going to be
\* freed, and its class is about to be flagged.
LEMMA SetRemoves ==
  ASSUME RemoveInv, NEW t \in Thread, Set(t)
  PROVE  RemoveInv'
<1>1. /\ pc[t] = "set" /\ todo[t] = <<>> /\ UNCHANGED <<isa, hasAssoc, rc, phase, held>>
  BY SetIs DEF RemoveInv
<1>2. PICK o \in Object, k \in Key, v \in Object \cup {NULL}, p \in Policy :
        /\ call[t].obj = o /\ held[t][o] > 0
        /\ \/ SetNothing(t, o, v) \/ SetFirst(t, o, k, v, p) \/ SetNext(t, o, k, v, p)
  BY SetIs DEF RemoveInv
<1>3. CountInv'
  BY SetInv DEF RemoveInv
<1>4. phase[o] = "alive"
  BY <1>2, HeldAlive DEF RemoveInv
<1>5. NoneLeftBehind'
  <2> SUFFICES ASSUME NEW x \in Object, phase'[x] \in {"unborn", "freed"}
               PROVE  associations'[x] = NULL
    BY DEF NoneLeftBehind
  <2>1. x # o /\ associations[x] = NULL
    BY <1>1, <1>4 DEF RemoveInv, NoneLeftBehind
  <2>2. associations'[x] = associations[x]
    BY <1>2, <2>1 DEF SetNothing, SetFirst, SetNext, RemoveInv, CountInv, Shape
  <2> QED BY <2>1, <2>2
<1>6. CASE SetNothing(t, o, v)
  <2>1. pc'[t] = "done" /\ OthersStay(t) /\ NoNewTables /\ UNCHANGED <<associations, todo>>
    BY <1>1, <1>6 DEF SetNothing, OthersStay, NoNewTables, RemoveInv, CountInv, Shape
  <2>2. SwizzlesAlone' /\ FlagsItsClass' /\ Flagged'
    BY <1>1, <2>1, FlagsKept
  <2>3. RemovesFirst'
    BY <1>1, <2>1, TablesStay
  <2> QED BY <1>3, <1>5, <2>2, <2>3 DEF RemoveInv
<1>7. CASE SetNext(t, o, k, v, p)
  <2>1. PICK T \in Tables : T = associations[o] /\ T # NULL
    BY <1>7, TablesAre DEF SetNext, RemoveInv, CountInv, Shape
  <2>2. PICK what : /\ what = IF k \in DOMAIN T THEN ReleaseValue(T[k]) ELSE <<>>
                    /\ Todo(t, what)
    BY <1>7, <2>1 DEF SetNext
  <2>3. what \in Seq(Operation) /\ \A x : CountOf(what, Freeing(x)) = 0
    <3>1. CASE k \in DOMAIN T
      <4>1. T[k] \in Entry /\ what = ReleaseValue(T[k])
        BY <2>1, <2>2, <3>1, TablesAre
      <4> QED BY <4>1, ReleaseValueCounts
    <3>2. CASE k \notin DOMAIN T
      <4>1. what = <<>>
        BY <2>2, <3>2
      <4> QED BY <4>1, EmptySeq, CountEmpty
    <3> QED BY <3>1, <3>2
  <2>4. /\ pc'[t] = "done" /\ NoNewTables
        /\ \A x \in Object : associations'[x] # NULL => associations[x] # NULL
    BY <1>1, <1>7 DEF SetNext, NoNewTables, RemoveInv, CountInv, Shape
  <2>5. OthersStay(t)
    BY <1>1, <1>7, <2>2 DEF SetNext, OthersStay, Todo, RemoveInv, CountInv, Shape
  <2>6. SwizzlesAlone' /\ FlagsItsClass' /\ Flagged'
    BY <1>1, <2>4, <2>5, FlagsKept
  <2>7. RemovesFirst'
    BY <2>2, <2>3, <2>4, RemovesAfterTodo
  <2> QED BY <1>3, <1>5, <2>6, <2>7 DEF RemoveInv
<1>8. CASE SetFirst(t, o, k, v, p)
  <2>1. /\ pc'[t] = "set_flag" /\ call'[t].obj = o /\ call'[t].old = isa[o]
        /\ \A u \in Thread \ {t} : pc'[u] = pc[u] /\ call'[u] = call[u]
        /\ \A x \in Object \ {o} : associations'[x] = associations[x]
        /\ todo' = todo
    BY <1>2, <1>8 DEF SetFirst, RemoveInv, CountInv, Shape, Call
  <2>2. RemovesFirst'
    <3> SUFFICES ASSUME NEW x \in Object, NEW u \in Thread, associations'[x] # NULL
                 PROVE  RemovedBefore(todo'[u], x)
      BY RemovesFirstNext
    <3>1. CASE x = o
      BY <1>4, <2>1, <3>1, AliveIsNotFreed DEF RemoveInv
    <3>2. CASE x # o
      BY <2>1, <3>2 DEF RemoveInv, RemovesFirst
    <3> QED BY <3>1, <3>2
  <2>3. SwizzlesAlone'
    BY <1>1, <1>2, <2>1 DEF RemoveInv, SwizzlesAlone
  <2>4. FlagsItsClass'
    BY <1>1, <2>1 DEF RemoveInv, FlagsItsClass
  <2>5. Flagged'
    <3> SUFFICES ASSUME NEW x \in Object, associations'[x] # NULL, phase'[x] = "alive"
                 PROVE  FlaggedAt(x)'
      BY DEF Flagged
    <3>1. CASE x = o
      BY <2>1, <3>1 DEF FlaggedAt
    <3>2. CASE x # o
      <4>1. FlaggedAt(x)
        BY <1>1, <2>1, <3>2 DEF RemoveInv, Flagged
      <4> QED BY <1>1, <2>1, <4>1 DEF FlaggedAt
    <3> QED BY <3>1, <3>2
  <2> QED BY <1>3, <1>5, <2>2, <2>3, <2>4, <2>5 DEF RemoveInv
<1> QED BY <1>2, <1>6, <1>7, <1>8

\* The last reference: nobody is in a call on the object, so its class is flagged if it
\* has associations, and they are removed first.
LEMMA DoReleaseRemoves ==
  ASSUME RemoveInv, NEW t \in Thread, DoRelease(t)
  PROVE  RemoveInv'
<1>1. /\ todo[t] # <<>> /\ pc[t] \notin {"set", "set_flag", "get", "swizzle"}
      /\ UNCHANGED <<associations, isa, hasAssoc, held, pc, call>>
  BY DoReleaseIs DEF RemoveInv
<1>2. PICK o \in Object :
        /\ Next1(t) = Release(o) /\ phase[o] = "alive"
        /\ CountOf(todo[t], Release(o)) \in Nat \ {0}
        /\ \/ rc[o] # 1 /\ Then(t, <<>>) /\ phase' = phase
           \/ /\ rc[o] = 1 /\ phase' = [phase EXCEPT ![o] = "dying"]
              /\ Then(t, LastTodo(o))
  BY DoReleaseIs DEF RemoveInv
<1>3. CountInv'
  BY DoReleaseInv DEF RemoveInv
<1>4. OthersStay(t) /\ NoNewTables
  BY <1>1, <1>2 DEF OthersStay, Then, NoNewTables, RemoveInv, CountInv, Shape
<1>5. NoneLeftBehind'
  BY <1>1, <1>2 DEF RemoveInv, NoneLeftBehind, CountInv, Shape
<1>6. SwizzlesAlone' /\ FlagsItsClass' /\ Flagged'
  BY <1>1, <1>4, FlagsKept
<1>7. \A x : Next1(t) # Removing(x)
  BY <1>2, OperationsDiffer
<1>8. CASE rc[o] # 1
  <2>1. Then(t, <<>>) /\ <<>> \in Seq(Operation) /\ \A x : CountOf(<<>>, Freeing(x)) = 0
    BY <1>2, <1>8, EmptySeq, CountEmpty
  <2>2. \A x \in Object : \A u \in Thread : associations'[x] # NULL => RemovedBefore(todo'[u], x)
    BY <1>1, <1>7, <2>1, RemovesAfterThen
  <2>3. RemovesFirst'
    BY <2>2, RemovesFirstNext
  <2> QED BY <1>3, <1>5, <1>6, <2>3 DEF RemoveInv
<1>9. CASE rc[o] = 1
  <2>1. Then(t, LastTodo(o)) /\ LastTodo(o) \in Seq(Operation)
    BY <1>2, <1>9, LastReleaseTodo
  <2>2. ASSUME NEW x \in Object \ {o}, NEW u \in Thread, associations[x] # NULL
        PROVE  RemovedBefore(todo'[u], x)
    <3>1. CountOf(LastTodo(o), Freeing(x)) = 0
      BY LastReleaseTodo DEF One
    <3> QED BY <1>1, <1>7, <2>1, <2>2, <3>1, RemovesAfterThen
  <2>3. ASSUME NEW u \in Thread, u # t, pc[u] \in {"set", "set_flag", "swizzle"}
        PROVE  call[u].obj # o
    <3> SUFFICES ASSUME call[u].obj = o PROVE FALSE
      OBVIOUS
    <3>1. held[u][o] > 0
      BY <2>3 DEF RemoveInv, CountInv, Placed, PlacedAt
    <3>2. PICK a \in Nat, b \in Nat : Owes(t, o) = a + CountOf(todo[t], Release(o))
                                      /\ Owes(u, o) = held[u][o] + b
      BY OwesIs DEF RemoveInv, CountInv
    <3>3. PICK m \in Nat \ {0}, n \in Nat \ {0} : m = CountOf(todo[t], Release(o)) /\ n = held[u][o]
      BY <1>2, <3>1 DEF RemoveInv, CountInv, Shape
    <3>4. rc[o] >= Owes(t, o) + Owes(u, o)
      BY <2>3, CountsAtLeastTwo DEF RemoveInv, CountInv
    <3>5. 1 >= (a + m) + (n + b)
      BY <1>9, <3>2, <3>3, <3>4
    <3> QED BY <3>3, <3>5
  <2>4. associations[o] # NULL => hasAssoc[isa[o]]
    BY <1>1, <1>2, <2>3 DEF RemoveInv, Flagged, FlaggedAt
  <2>5. ASSUME NEW u \in Thread, associations[o] # NULL
        PROVE  RemovedBefore(todo'[u], o)
    <3>1. CASE u = t
      <4>1. PICK r \in Seq(Operation) : r = Tail(todo[t])
        BY <1>1, HeadTailProperties DEF RemoveInv, CountInv, Shape
      <4>2. todo'[t] = LastTodo(o) \o r
        BY <2>1, <4>1 DEF Then, RemoveInv, CountInv, Shape
      <4>3. PICK a \in Seq(Operation), e \in Seq(Operation) :
               a = <<Removing(o)>> /\ e = <<Freeing(o)>> /\ LastTodo(o) = a \o e
        <5>1. (IF hasAssoc[isa[o]] THEN <<Removing(o)>> ELSE <<>>) = <<Removing(o)>>
          BY <2>4, <2>5
        <5>2. LastTodo(o) = <<Removing(o)>> \o <<Freeing(o)>>
          BY <5>1 DEF LastTodo
        <5>3. Removing(o) \in Operation /\ Freeing(o) \in Operation
          BY OperationsAre
        <5>4. <<Removing(o)>> \in Seq(Operation) /\ <<Freeing(o)>> \in Seq(Operation)
          BY <5>3
        <5> QED BY <5>2, <5>4
      <4>4. todo'[t] \in Seq(Operation) /\ todo'[t] # <<>> /\ Head(todo'[t]) = Removing(o)
        <5>1. a # <<>> /\ Head(a) = Removing(o)
          BY <4>3
        <5>2. a \o e # <<>> /\ Head(a \o e) = Removing(o) /\ a \o e \in Seq(Operation)
          BY <5>1, HeadOfConcat
        <5>3. (a \o e) \o r # <<>> /\ Head((a \o e) \o r) = Removing(o)
              /\ (a \o e) \o r \in Seq(Operation)
          BY <5>2, HeadOfConcat
        <5> QED BY <4>2, <4>3, <5>3
      <4> QED BY <3>1, <4>4, RemovedFirst
    <3>2. CASE u # t
      <4>1. todo'[u] = todo[u]
        BY <1>4, <3>2 DEF OthersStay
      <4> QED BY <1>2, <4>1, AliveIsNotFreed DEF RemoveInv
    <3> QED BY <3>1, <3>2
  <2>6. \A x \in Object : \A u \in Thread : associations'[x] # NULL => RemovedBefore(todo'[u], x)
    BY <1>1, <2>2, <2>5
  <2>7. RemovesFirst'
    BY <2>6, RemovesFirstNext
  <2> QED BY <1>3, <1>5, <1>6, <2>7 DEF RemoveInv
<1> QED BY <1>8, <1>9

LEMMA RemoveAssociationsRemoves ==
  ASSUME RemoveInv, NEW t \in Thread, RemoveAssociations(t)
  PROVE  RemoveInv'
<1>1. /\ todo[t] # <<>> /\ UNCHANGED <<isa, hasAssoc, phase, held, pc, call>>
  BY RemoveAssociationsIs DEF RemoveInv
<1>2. PICK o \in Object, what \in Seq(Operation) :
        /\ Next1(t) = Removing(o) /\ Then(t, what)
        /\ associations' = [associations EXCEPT ![o] = NULL]
        /\ \A x : CountOf(what, Freeing(x)) = 0
  BY RemoveAssociationsIs DEF RemoveInv
<1>3. CountInv'
  BY RemoveAssociationsInv DEF RemoveInv
<1>4. \A x \in Object : associations'[x] # NULL => x # o /\ associations[x] # NULL
  BY <1>2 DEF RemoveInv, CountInv, Shape
<1>5. OthersStay(t) /\ NoNewTables /\ pc[t] \notin {"set", "set_flag", "swizzle"}
  BY <1>1, <1>2, <1>4 DEF OthersStay, Then, NoNewTables, RemoveInv, CountInv, Shape, Placed, PlacedAt
<1>6. NoneLeftBehind'
  BY <1>1, <1>4 DEF RemoveInv, NoneLeftBehind
<1>7. SwizzlesAlone' /\ FlagsItsClass' /\ Flagged'
  BY <1>1, <1>5, FlagsKept
<1>8. RemovesFirst'
  <2> SUFFICES ASSUME NEW x \in Object, NEW u \in Thread, associations'[x] # NULL
               PROVE  RemovedBefore(todo'[u], x)
    BY RemovesFirstNext
  <2>1. associations[x] # NULL /\ Next1(t) # Removing(x)
    BY <1>2, <1>4, OperationsDiffer
  <2>2. Then(t, what) /\ CountOf(what, Freeing(x)) = 0
    BY <1>2
  <2> QED BY <1>1, <2>1, <2>2, RemovesAfterThen
<1> QED BY <1>3, <1>6, <1>7, <1>8 DEF RemoveInv

\* A free that comes next has been preceded by the removal.
LEMMA FreeRemoves ==
  ASSUME RemoveInv, NEW t \in Thread, Free(t)
  PROVE  RemoveInv'
<1>1. /\ todo[t] # <<>> /\ Next1(t).op = "free" /\ Then(t, <<>>)
      /\ phase' = [phase EXCEPT ![Next1(t).obj] = "freed"]
      /\ UNCHANGED <<associations, lock, isa, hasAssoc, rc, held, pc, call>>
  BY DEF Free, Pending
<1>2. todo[t] \in Seq(Operation) /\ Next1(t) \in Operation
  BY <1>1, HeadTailProperties DEF Next1, RemoveInv, CountInv, Shape
<1>3. PICK o \in Object : o = Next1(t).obj /\ Next1(t) = Freeing(o)
  BY <1>1, <1>2, OperationsAre
<1>4. CountInv'
  BY FreeInv DEF RemoveInv
<1>5. associations[o] = NULL
  <2>1. ~ RemovedBefore(todo[t], o)
    BY <1>1, <1>2, <1>3, FreedFirst DEF Next1
  <2> QED BY <2>1 DEF RemoveInv, RemovesFirst
<1>6. phase' = [phase EXCEPT ![o] = "freed"]
  BY <1>1, <1>3
<1>7. NoneLeftBehind'
  BY <1>1, <1>5, <1>6 DEF RemoveInv, NoneLeftBehind, CountInv, Shape
<1>8. OthersStay(t) /\ NoNewTables /\ pc[t] \notin {"set", "set_flag", "swizzle"}
  BY <1>1, <1>6 DEF OthersStay, Then, NoNewTables, RemoveInv, CountInv, Shape, Placed, PlacedAt
<1>9. SwizzlesAlone' /\ FlagsItsClass' /\ Flagged'
  BY <1>1, <1>8, FlagsKept
<1>10. RemovesFirst'
  <2> SUFFICES ASSUME NEW x \in Object, NEW u \in Thread, associations'[x] # NULL
               PROVE  RemovedBefore(todo'[u], x)
    BY RemovesFirstNext
  <2>1. associations[x] # NULL /\ Next1(t) # Removing(x)
    BY <1>1, <1>3, OperationsDiffer
  <2>2. <<>> \in Seq(Operation) /\ CountOf(<<>>, Freeing(x)) = 0
    BY EmptySeq, CountEmpty
  <2> QED BY <1>1, <2>1, <2>2, RemovesAfterThen
<1> QED BY <1>4, <1>7, <1>9, <1>10 DEF RemoveInv

LEMMA RemoveNext ==
  ASSUME RemoveInv, ~ ConcurrentSwizzle, [Next]_vars
  PROVE  RemoveInv'
<1>1. CASE UNCHANGED vars
  <2> USE <1>1 DEF vars, RemoveInv
  <2>1. CountInv'
    BY CountNext
  <2>2. NoneLeftBehind' /\ RemovesFirst'
    BY TablesStay
  <2>3. SwizzlesAlone' /\ FlagsItsClass' /\ Flagged'
    BY DEF SwizzlesAlone, FlagsItsClass, Flagged, FlaggedAt
  <2> QED BY <2>1, <2>2, <2>3
<1>2. ASSUME NEW t \in Thread, NEW o \in Object, NEW k \in Key, NEW v \in Object \cup {NULL},
             NEW p \in Policy, SetBegin(t, o, k, v, p)
      PROVE  RemoveInv'
  BY <1>2, SetBeginRemoves
<1>3. ASSUME NEW t \in Thread, NEW o \in Object, NEW k \in Key, Get(t, o, k) PROVE RemoveInv'
  BY <1>3, GetRemoves
<1>4. ASSUME NEW t \in Thread, NEW o \in Object, NEW c \in Class, SetClass(t, o, c) PROVE RemoveInv'
  BY <1>4, SetClassRemoves
<1>5. ASSUME NEW t \in Thread, NEW o \in Object, Drop(t, o) \/ RemoveAll(t, o) PROVE RemoveInv'
  BY <1>5, DropRemoves, RemoveAllRemoves
<1>6. ASSUME NEW t \in Thread,
             \/ Set(t) \/ SetFlag(t) \/ Done(t) \/ GetRetain(t) \/ Swizzled(t)
             \/ DoRelease(t) \/ RemoveAssociations(t) \/ Free(t)
      PROVE  RemoveInv'
  BY <1>6, SetRemoves, SetFlagRemoves, DoneRemoves, GetRetainRemoves, SwizzledRemoves,
     DoReleaseRemoves, RemoveAssociationsRemoves, FreeRemoves
<1> QED BY <1>1, <1>2, <1>3, <1>4, <1>5, <1>6 DEF Next

\* An object's associations are removed before it is freed, whatever its class becomes:
\* its class is flagged from the first association on, or is about to be by a thread that
\* holds the object.  Two threads must not exchange its class, or one make its first
\* association meanwhile.
THEOREM NoTableLeftBehind == ~ ConcurrentSwizzle => (Spec => []NoneLeftBehind)
<1>1. Init => RemoveInv
  <2> SUFFICES ASSUME Init PROVE RemoveInv
    OBVIOUS
  <2>1. /\ \A o \in Object : associations[o] = NULL
        /\ \A t \in Thread : pc[t] = "idle"
    BY DEF Init
  <2>2. NoneLeftBehind /\ RemovesFirst /\ Flagged
    BY <2>1 DEF NoneLeftBehind, RemovesFirst, Flagged
  <2>3. SwizzlesAlone /\ FlagsItsClass
    BY <2>1 DEF SwizzlesAlone, FlagsItsClass
  <2> QED BY <2>2, <2>3, CountInit DEF RemoveInv
<1>2. ~ ConcurrentSwizzle /\ RemoveInv /\ [Next]_vars => RemoveInv'
  BY RemoveNext
<1>3. RemoveInv => NoneLeftBehind
  BY DEF RemoveInv
<1>4. ASSUME ~ ConcurrentSwizzle PROVE RemoveInv /\ [Next]_vars => RemoveInv'
  BY <1>2, <1>4
<1>5. ASSUME ~ ConcurrentSwizzle PROVE Spec => []NoneLeftBehind
  BY <1>1, <1>3, <1>4, <1>5, PTL DEF Spec
<1> QED BY <1>5
=============================================================================
