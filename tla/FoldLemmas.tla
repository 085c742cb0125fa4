----------------------------- MODULE FoldLemmas -----------------------------
(***************************************************************************)
(* What the folds of the community modules compute that the models use:    *)
(* FlattenSeq, a concatenation, SumFunction, a sum, and FoldLeft.  Each is *)
(* defined by a recursive function; what that function is follows by       *)
(* induction, here from the first number that would be a counterexample.   *)
(* The same gives the functions that the models define themselves, one     *)
(* counting up and one looking for the first number of a kind.             *)
(***************************************************************************)
EXTENDS Integers, Sequences, FiniteSets, SequencesExt, Functions,
        WellFoundedInduction, FiniteSetTheorems, SequenceTheorems, TLAPS

\* A set of natural numbers that is not empty has a least element.
LEMMA LeastNatural ==
  ASSUME NEW T \in SUBSET Nat, T # {}
  PROVE  \E n \in T : \A m \in T : n <= m
<1>1. IsWellFoundedOn(OpToRel(<, Nat), Nat)
  BY NatLessThanWellFounded
<1>2. PICK n \in T : \A m \in T : ~ (<<m, n>> \in OpToRel(<, Nat))
  BY <1>1, WFMin
<1>3. \A m \in T : ~ (m < n)
  BY <1>2 DEF OpToRel
<1> QED BY <1>3

\* Induction over the natural numbers, for a set of them.
LEMMA InductionBySet ==
  ASSUME NEW T \in SUBSET Nat, 0 \in T, \A n \in T : n + 1 \in T
  PROVE  T = Nat
<1> SUFFICES ASSUME Nat \ T # {} PROVE FALSE
  OBVIOUS
<1>1. PICK n \in Nat \ T : \A m \in Nat \ T : n <= m
  BY LeastNatural
<1>2. n # 0 /\ n - 1 \in Nat
  BY <1>1
<1>3. n - 1 \in T
  BY <1>1, <1>2
<1> QED BY <1>3

-----------------------------------------------------------------------------
(* FlattenSeq.                                                                 *)

\* The recursive function of FlattenSeq, up to n.
Flattens(f, s, n) ==
    f = [i \in 1 .. n |-> IF i = 1 THEN s[i] ELSE f[i - 1] \o s[i]]

\* Its equation.
LEMMA FlattensAt ==
  ASSUME NEW f, NEW s, NEW n, Flattens(f, s, n), NEW i \in 1 .. n
  PROVE  f[i] = IF i = 1 THEN s[i] ELSE f[i - 1] \o s[i]
BY DEF Flattens

\* There is such a function.
LEMMA FlattensExists ==
  ASSUME NEW s
  PROVE  \A n \in Nat : \E f : Flattens(f, s, n)
<1> DEFINE T == {n \in Nat : \E f : Flattens(f, s, n)}
<1>1. 0 \in T
  <2> DEFINE f == [i \in 1 .. 0 |-> s]
  <2>1. Flattens(f, s, 0)
    BY 1 .. 0 = {} DEF Flattens
  <2> QED BY <2>1
<1>2. ASSUME NEW n \in T PROVE n + 1 \in T
  <2>1. PICK f : Flattens(f, s, n)
    OBVIOUS
  <2> DEFINE g == [i \in 1 .. n + 1 |-> IF i = 1 THEN s[i] ELSE f[i - 1] \o s[i]]
  <2>2. n \in Nat
    OBVIOUS
  <2>3. \A i \in 1 .. n : i \in 1 .. n + 1 /\ f[i] = IF i = 1 THEN s[i] ELSE f[i - 1] \o s[i]
    BY <2>1, <2>2, FlattensAt
  <2>4. \A i \in 1 .. n : g[i] = f[i]
    BY <2>3
  <2>5. \A i \in 1 .. n + 1 : i # 1 => i - 1 \in 1 .. n
    BY <2>2
  <2>6. g = [i \in 1 .. n + 1 |-> IF i = 1 THEN s[i] ELSE g[i - 1] \o s[i]]
    <3>1. \A i \in 1 .. n + 1 : g[i] = IF i = 1 THEN s[i] ELSE g[i - 1] \o s[i]
      BY <2>4, <2>5
    <3> QED BY <3>1
  <2> HIDE DEF g
  <2>7. Flattens(g, s, n + 1)
    BY <2>6 DEF Flattens
  <2> QED BY <2>2, <2>7
<1>3. T = Nat
  <2> HIDE DEF T
  <2>1. T \in SUBSET Nat
    BY DEF T
  <2> QED BY <1>1, <1>2, <2>1, InductionBySet
<1> QED BY <1>3

\* Two of them agree as far as their sequences do.
LEMMA FlattensAgree ==
  ASSUME NEW s, NEW t, NEW m \in Nat, NEW n \in Nat, n <= m, NEW f, NEW g,
         Flattens(f, s, n), Flattens(g, t, m), \A i \in 1 .. n : s[i] = t[i]
  PROVE  \A i \in 1 .. n : f[i] = g[i]
<1> DEFINE T == {i \in 1 .. n : f[i] # g[i]}
<1> SUFFICES ASSUME T # {} PROVE FALSE
  OBVIOUS
<1>1. PICK i \in T : \A j \in T : i <= j
  BY T \in SUBSET Nat, LeastNatural
<1>2. /\ i \in 1 .. n /\ i \in 1 .. m /\ f[i] # g[i] /\ s[i] = t[i]
      /\ i # 1 => i - 1 \in 1 .. n
  OBVIOUS
<1>3. i # 1 => f[i - 1] = g[i - 1]
  BY <1>1, <1>2
<1>4. f[i] = IF i = 1 THEN s[i] ELSE f[i - 1] \o s[i]
  BY <1>2, FlattensAt
<1>5. g[i] = IF i = 1 THEN t[i] ELSE g[i - 1] \o t[i]
  BY <1>2, FlattensAt
<1> QED BY <1>2, <1>3, <1>4, <1>5

LEMMA FlattensLast ==
  ASSUME NEW s, NEW t, NEW n \in Nat, n # 0, NEW f, NEW g,
         Flattens(f, s, n), Flattens(g, t, n + 1), \A i \in 1 .. n : s[i] = t[i]
  PROVE  f[n] = g[n]
<1>1. n \in 1 .. n /\ n + 1 \in Nat /\ n <= n + 1
  OBVIOUS
<1> QED BY <1>1, FlattensAgree

\* FlattenSeq is the last value of that function.
LEMMA FlattenIs ==
  ASSUME NEW S, NEW s \in Seq(S)
  PROVE  /\ Len(s) = 0 => FlattenSeq(s) = s
         /\ Len(s) # 0 => \E f : Flattens(f, s, Len(s)) /\ FlattenSeq(s) = f[Len(s)]
<1>1. Len(s) \in Nat
  BY LenProperties
<1> DEFINE F == CHOOSE f : Flattens(f, s, Len(s))
<1>2. Flattens(F, s, Len(s))
  BY <1>1, FlattensExists
<1>3. Len(s) # 0 => FlattenSeq(s) = F[Len(s)]
  BY DEF FlattenSeq, Flattens
<1>4. Len(s) = 0 => FlattenSeq(s) = s
  BY DEF FlattenSeq
<1> QED BY <1>2, <1>3, <1>4

\* The concatenation of no sequences, and of one more.
LEMMA FlattenEmpty == FlattenSeq(<<>>) = <<>>
BY DEF FlattenSeq

LEMMA FlattenAppend ==
  ASSUME NEW S, NEW s \in Seq(Seq(S)), NEW x \in Seq(S)
  PROVE  FlattenSeq(Append(s, x)) = FlattenSeq(s) \o x
<1>1. PICK n \in Nat : n = Len(s)
  BY LenProperties
<1>2. PICK t : t = Append(s, x)
  OBVIOUS
<1>3. /\ t \in Seq(Seq(S)) /\ Len(t) = n + 1
      /\ t[n + 1] = x /\ \A i \in 1 .. n : t[i] = s[i]
  BY <1>1, <1>2, LenProperties, AppendProperties
<1>4. PICK g : Flattens(g, t, n + 1) /\ FlattenSeq(t) = g[n + 1]
  BY <1>3, FlattenIs
<1>5. g[n + 1] = IF n + 1 = 1 THEN x ELSE g[n] \o x
  <2>1. n + 1 \in 1 .. n + 1 /\ n + 1 - 1 = n
    OBVIOUS
  <2>2. g[n + 1] = IF n + 1 = 1 THEN t[n + 1] ELSE g[n + 1 - 1] \o t[n + 1]
    BY <1>4, <2>1, FlattensAt
  <2> QED BY <1>3, <2>1, <2>2
<1>6. CASE n = 0
  <2>1. s = <<>> /\ FlattenSeq(s) = <<>>
    BY <1>1, <1>6, EmptySeq, FlattenEmpty
  <2> QED BY <1>2, <1>4, <1>5, <1>6, <2>1, ConcatEmptySeq
<1>7. CASE n # 0
  <2>1. PICK f : Flattens(f, s, n) /\ FlattenSeq(s) = f[n]
    BY <1>1, <1>7, FlattenIs
  <2>2. f[n] = g[n]
    <3>1. \A i \in 1 .. n : s[i] = t[i]
      BY <1>3
    <3>2. Flattens(f, s, n) /\ Flattens(g, t, n + 1)
      BY <1>4, <2>1
    <3> QED BY <1>7, <3>1, <3>2, FlattensLast
  <2> QED BY <1>2, <1>4, <1>5, <1>7, <2>1, <2>2
<1> QED BY <1>6, <1>7

-----------------------------------------------------------------------------
(* The concatenation of the first sequences of a sequence of them.             *)
Joined(s, n) == FlattenSeq(SubSeq(s, 1, n))

LEMMA JoinedNone ==
  ASSUME NEW S, NEW s \in Seq(S)
  PROVE  Joined(s, 0) = <<>>
<1>1. SubSeq(s, 1, 0) = <<>>
  BY SubSeqEmpty
<1> QED BY <1>1, FlattenEmpty, Zenon DEF Joined

LEMMA JoinedAll ==
  ASSUME NEW S, NEW s \in Seq(S)
  PROVE  FlattenSeq(s) = Joined(s, Len(s))
<1>1. SubSeq(s, 1, Len(s)) = s
  BY SubSeqFull
<1> QED BY <1>1, Zenon DEF Joined

LEMMA JoinedStep ==
  ASSUME NEW S, NEW s \in Seq(Seq(S)), NEW n \in 1 .. Len(s)
  PROVE  Joined(s, n) = Joined(s, n - 1) \o s[n]
<1>1. /\ n \in Nat \ {0} /\ n - 1 \in Nat /\ n - 1 + 1 = n /\ Len(s) \in Nat
      /\ s[n] \in Seq(S) /\ \A i \in 1 .. n : s[i] \in Seq(S)
  BY LenProperties, ElementOfSeq
<1>2. /\ SubSeq(s, 1, n - 1) \in Seq(Seq(S)) /\ Len(SubSeq(s, 1, n - 1)) = n - 1
      /\ SubSeq(s, 1, n) \in Seq(Seq(S)) /\ Len(SubSeq(s, 1, n)) = n
      /\ \A i \in 1 .. n - 1 : SubSeq(s, 1, n - 1)[i] = s[i]
      /\ \A i \in 1 .. n : SubSeq(s, 1, n)[i] = s[i]
  BY <1>1, SubSeqProperties
<1>3. SubSeq(s, 1, n) = Append(SubSeq(s, 1, n - 1), s[n])
  <2> DEFINE a == Append(SubSeq(s, 1, n - 1), s[n])
             b == SubSeq(s, 1, n)
  <2>1. /\ a \in Seq(Seq(S)) /\ Len(a) = n /\ a[n] = s[n]
        /\ \A i \in 1 .. n - 1 : a[i] = s[i]
    BY <1>1, <1>2, AppendProperties
  <2>2. b \in Seq(Seq(S)) /\ Len(b) = n /\ \A i \in 1 .. n : b[i] = s[i]
    BY <1>2
  <2> HIDE DEF a, b
  <2>3. ASSUME NEW i \in 1 .. n PROVE b[i] = a[i]
    <3>1. i = n \/ i \in 1 .. n - 1
      BY <1>1
    <3> QED BY <2>1, <2>2, <3>1
  <2>4. b = a
    BY <2>1, <2>2, <2>3, SeqEqual
  <2> QED BY <2>4 DEF a, b
<1> QED BY <1>1, <1>2, <1>3, FlattenAppend DEF Joined

LEMMA JoinedType ==
  ASSUME NEW S, NEW s \in Seq(Seq(S))
  PROVE  \A n \in 0 .. Len(s) : Joined(s, n) \in Seq(S) /\ Len(Joined(s, n)) \in Nat
<1> DEFINE T == {n \in Nat : n <= Len(s) => Joined(s, n) \in Seq(S)}
<1>1. Len(s) \in Nat
  BY LenProperties
<1>2. 0 \in T
  <2>1. Joined(s, 0) = <<>> /\ <<>> \in Seq(S)
    BY JoinedNone
  <2> QED BY <2>1
<1>3. ASSUME NEW n \in T PROVE n + 1 \in T
  <2> SUFFICES ASSUME n + 1 <= Len(s) PROVE Joined(s, n + 1) \in Seq(S)
    OBVIOUS
  <2>1. PICK k \in 1 .. Len(s) : k = n + 1 /\ k - 1 = n
    BY <1>1
  <2>2. s[k] \in Seq(S) /\ Joined(s, k - 1) \in Seq(S)
    BY <1>1, <2>1, ElementOfSeq
  <2>3. Joined(s, k) = Joined(s, k - 1) \o s[k]
    BY JoinedStep
  <2>4. Joined(s, k) \in Seq(S)
    BY <2>2, <2>3, ConcatProperties
  <2> QED BY <2>1, <2>4
<1>4. T = Nat
  <2>1. T \in SUBSET Nat
    OBVIOUS
  <2> HIDE DEF T
  <2> QED BY <1>2, <1>3, <2>1, InductionBySet
<1>5. \A n \in 0 .. Len(s) : Joined(s, n) \in Seq(S)
  BY <1>1, <1>4
<1> QED BY <1>5, LenProperties

\* It depends on those sequences only.
LEMMA JoinedSame ==
  ASSUME NEW S, NEW s \in Seq(S), NEW t \in Seq(S), NEW n \in Nat,
         n <= Len(s), n <= Len(t), \A i \in 1 .. n : s[i] = t[i]
  PROVE  Joined(s, n) = Joined(t, n)
<1>1. /\ Len(s) \in Nat /\ Len(t) \in Nat
      /\ \A i \in 1 .. n : s[i] \in S /\ t[i] \in S
  BY LenProperties, ElementOfSeq
<1>2. /\ SubSeq(s, 1, n) \in Seq(S) /\ Len(SubSeq(s, 1, n)) = n
      /\ SubSeq(t, 1, n) \in Seq(S) /\ Len(SubSeq(t, 1, n)) = n
      /\ \A i \in 1 .. n : SubSeq(s, 1, n)[i] = s[i] /\ SubSeq(t, 1, n)[i] = t[i]
  BY <1>1, SubSeqProperties
<1>3. SubSeq(s, 1, n) = SubSeq(t, 1, n)
  BY <1>2, SeqEqual
<1> QED BY <1>3 DEF Joined

\* Where the first sequences end does not depend on those that follow.
LEMMA JoinedGrows ==
  ASSUME NEW S, NEW s \in Seq(Seq(S)), NEW m \in 0 .. Len(s)
  PROVE  \A n \in m .. Len(s) :
           /\ Len(Joined(s, m)) <= Len(Joined(s, n))
           /\ \A k \in 1 .. Len(Joined(s, m)) : Joined(s, n)[k] = Joined(s, m)[k]
           /\ (\A i \in m + 1 .. n : s[i] = <<>>) => Joined(s, n) = Joined(s, m)
<1> DEFINE P(n) == /\ Len(Joined(s, m)) <= Len(Joined(s, n))
                   /\ \A k \in 1 .. Len(Joined(s, m)) : Joined(s, n)[k] = Joined(s, m)[k]
                   /\ (\A i \in m + 1 .. n : s[i] = <<>>) => Joined(s, n) = Joined(s, m)
           T == {j \in Nat : m + j <= Len(s) => P(m + j)}
<1>1. /\ Len(s) \in Nat /\ m \in Nat /\ m + 0 = m
      /\ \A n \in 0 .. Len(s) : Joined(s, n) \in Seq(S) /\ Len(Joined(s, n)) \in Nat
  BY LenProperties, JoinedType
<1>2. 0 \in T
  BY <1>1
<1>3. ASSUME NEW j \in T PROVE j + 1 \in T
  <2> SUFFICES ASSUME m + (j + 1) <= Len(s) PROVE P(m + (j + 1))
    OBVIOUS
  <2>1. j \in Nat /\ (m + j <= Len(s) => P(m + j))
    OBVIOUS
  <2> HIDE DEF P, T
  <2>2. PICK n \in Nat : n = m + j
    BY <1>1, <2>1
  <2>3. /\ n + 1 \in 1 .. Len(s) /\ n + 1 - 1 = n /\ n \in 0 .. Len(s) /\ m + (j + 1) = n + 1
        /\ m <= n /\ n <= Len(s)
    BY <1>1, <2>1, <2>2
  <2>4. /\ Joined(s, n + 1) = Joined(s, n) \o s[n + 1]
        /\ P(n) /\ s[n + 1] \in Seq(S)
    <3>1. PICK k \in 1 .. Len(s) : k = n + 1 /\ k - 1 = n
      BY <2>3
    <3>2. Joined(s, k) = Joined(s, k - 1) \o s[k] /\ s[k] \in Seq(S)
      BY JoinedStep, ElementOfSeq
    <3>3. P(n)
      BY <2>1, <2>2, <2>3
    <3> QED BY <3>1, <3>2, <3>3
  <2>5. PICK a \in Seq(S) : a = Joined(s, n) /\ Len(a) \in Nat
    BY <1>1, <2>3
  <2>6. PICK b \in Seq(S) : b = s[n + 1] /\ Len(b) \in Nat
    BY <2>4, LenProperties
  <2>7. PICK c \in Seq(S) : c = Joined(s, m) /\ Len(c) \in Nat
    BY <1>1
  <2>8. /\ Len(a \o b) = Len(a) + Len(b)
        /\ \A k \in 1 .. Len(a) : (a \o b)[k] = a[k]
        /\ b = <<>> => a \o b = a
    <3>1. \A k \in 1 .. Len(a) + Len(b) : (a \o b)[k] = IF k <= Len(a) THEN a[k] ELSE b[k - Len(a)]
      BY ConcatProperties
    <3>2. \A k \in 1 .. Len(a) : k \in 1 .. Len(a) + Len(b) /\ k <= Len(a)
      BY <2>5, <2>6
    <3>3. b = <<>> => a \o b = a
      BY ConcatEmptySeq
    <3> QED BY <3>1, <3>2, <3>3, ConcatProperties
  <2>9. /\ Len(c) <= Len(a) /\ \A k \in 1 .. Len(c) : a[k] = c[k]
        /\ (\A i \in m + 1 .. n : s[i] = <<>>) => a = c
    BY <2>4, <2>5, <2>7 DEF P
  <2>10. Len(c) <= Len(a \o b) /\ \A k \in 1 .. Len(c) : (a \o b)[k] = c[k]
    <3>1. \A k \in 1 .. Len(c) : k \in 1 .. Len(a)
      BY <2>5, <2>7, <2>9
    <3> QED BY <2>5, <2>6, <2>7, <2>8, <2>9, <3>1
  <2>11. (\A i \in m + 1 .. n + 1 : s[i] = <<>>) => a \o b = c
    <3> SUFFICES ASSUME \A i \in m + 1 .. n + 1 : s[i] = <<>> PROVE a \o b = c
      OBVIOUS
    <3>1. n + 1 \in m + 1 .. n + 1 /\ \A i \in m + 1 .. n : i \in m + 1 .. n + 1
      BY <1>1, <2>3
    <3>2. b = <<>> /\ \A i \in m + 1 .. n : s[i] = <<>>
      BY <2>6, <3>1
    <3> QED BY <2>8, <2>9, <3>2
  <2>12. PICK d : d = Joined(s, n + 1) /\ d = a \o b
    BY <2>4, <2>5, <2>6
  <2>13. P(n + 1)
    BY <2>7, <2>10, <2>11, <2>12 DEF P
  <2> QED BY <2>3, <2>13
<1>4. T = Nat
  <2>1. T \in SUBSET Nat
    OBVIOUS
  <2> HIDE DEF T
  <2> QED BY <1>2, <1>3, <2>1, InductionBySet
<1>5. ASSUME NEW n \in m .. Len(s) PROVE P(n)
  <2>1. n - m \in Nat /\ m + (n - m) = n /\ n <= Len(s)
    BY <1>1
  <2>2. n - m \in T
    BY <1>4, <2>1
  <2> QED BY <2>1, <2>2
<1> QED BY <1>5

\* c begins with a.
Begins(c, a) == Len(a) <= Len(c) /\ \A k \in 1 .. Len(a) : c[k] = a[k]

\* More sequences begin with fewer, and are the same if the others are empty.
LEMMA JoinedBegins ==
  ASSUME NEW S, NEW s, NEW m, NEW n, s \in Seq(Seq(S)), m \in 0 .. Len(s), n \in m .. Len(s)
  PROVE  Begins(Joined(s, n), Joined(s, m))
BY JoinedGrows DEF Begins

LEMMA JoinedEmpties ==
  ASSUME NEW S, NEW s, NEW m, NEW n, s \in Seq(Seq(S)), m \in 0 .. Len(s), n \in m .. Len(s),
         \A i \in m + 1 .. n : s[i] = <<>>
  PROVE  Joined(s, n) = Joined(s, m)
BY JoinedGrows

-----------------------------------------------------------------------------
(* SumFunction.                                                                *)

Chosen(s) == CHOOSE x \in s : TRUE

\* The recursive function of SumFunction, on the sets of D.
Sums(h, f, D) ==
    h = [s \in D |-> IF s = {} THEN 0 ELSE f[Chosen(s)] + h[s \ {Chosen(s)}]]

\* Its equation.
LEMMA SumsAt ==
  ASSUME NEW h, NEW f, NEW D, Sums(h, f, D), NEW s \in D
  PROVE  h[s] = IF s = {} THEN 0 ELSE f[Chosen(s)] + h[s \ {Chosen(s)}]
BY DEF Sums

\* SumFunction is the value of that function for the whole domain.
LEMMA SumIs ==
  ASSUME NEW f
  PROVE  SumFunction(f) = (CHOOSE h : Sums(h, f, SUBSET DOMAIN f))[DOMAIN f]
BY DEF SumFunction, SumFunctionOnSet, FoldFunctionOnSet, MapThenFoldSet, Sums, Chosen

\* The parts of a finite set.
LEMMA PartsFinite ==
  ASSUME NEW D, IsFiniteSet(D), NEW s \in SUBSET D
  PROVE  /\ IsFiniteSet(s) /\ Cardinality(s) \in Nat /\ Cardinality(s) <= Cardinality(D)
         /\ Cardinality(s) = 0 <=> s = {}
         /\ \A x \in s : s \ {x} \in SUBSET D /\ Cardinality(s \ {x}) = Cardinality(s) - 1
<1>1. IsFiniteSet(s) /\ Cardinality(s) <= Cardinality(D)
  BY FS_Subset
<1>2. Cardinality(s) \in Nat /\ (Cardinality(s) = 0 <=> s = {})
  BY <1>1, FS_CardinalityType, FS_EmptySet
<1>3. ASSUME NEW x \in s PROVE Cardinality(s \ {x}) = Cardinality(s) - 1
  BY <1>1, FS_RemoveElement
<1> QED BY <1>1, <1>2, <1>3

\* What is chosen is a member.
LEMMA ChosenIn ==
  ASSUME NEW s, s # {}
  PROVE  Chosen(s) \in s
BY DEF Chosen

\* There is such a function.
LEMMA SumsExists ==
  ASSUME NEW f, NEW D, IsFiniteSet(D)
  PROVE  \E h : Sums(h, f, SUBSET D)
<1> DEFINE Small(n) == {s \in SUBSET D : Cardinality(s) <= n}
           T == {n \in Nat : \E h : Sums(h, f, Small(n))}
<1>1. 0 \in T
  <2>1. \A s \in Small(0) : s = {}
    BY PartsFinite
  <2> DEFINE h == [s \in Small(0) |-> 0]
  <2>2. h = [s \in Small(0) |-> IF s = {} THEN 0 ELSE f[Chosen(s)] + h[s \ {Chosen(s)}]]
    BY <2>1
  <2>3. Sums(h, f, Small(0))
    BY <2>2 DEF Sums
  <2> QED BY <2>3
<1>2. ASSUME NEW n \in T PROVE n + 1 \in T
  <2>1. n \in Nat /\ n + 1 \in Nat
    OBVIOUS
  <2>2. PICK h : Sums(h, f, Small(n))
    OBVIOUS
  <2> DEFINE g == [s \in Small(n + 1) |-> IF s = {} THEN 0 ELSE f[Chosen(s)] + h[s \ {Chosen(s)}]]
  <2>3. ASSUME NEW s \in Small(n) PROVE s \in Small(n + 1) /\ g[s] = h[s]
    <3>1. s \in Small(n + 1)
      BY <2>1, PartsFinite
    <3>2. h[s] = IF s = {} THEN 0 ELSE f[Chosen(s)] + h[s \ {Chosen(s)}]
      BY <2>2, SumsAt, ZenonT(40)
    <3> QED BY <3>1, <3>2
  <2>4. ASSUME NEW s \in Small(n + 1), s # {} PROVE s \ {Chosen(s)} \in Small(n)
    <3>1. s \in SUBSET D /\ Cardinality(s) <= n + 1 /\ Chosen(s) \in s
      BY <2>4, ChosenIn
    <3>2. /\ Cardinality(s) \in Nat /\ s \ {Chosen(s)} \in SUBSET D
          /\ Cardinality(s \ {Chosen(s)}) = Cardinality(s) - 1
      BY <3>1, PartsFinite
    <3> QED BY <2>1, <3>1, <3>2
  <2>5. g = [s \in Small(n + 1) |-> IF s = {} THEN 0 ELSE f[Chosen(s)] + g[s \ {Chosen(s)}]]
    <3>1. ASSUME NEW s \in Small(n + 1)
          PROVE  g[s] = IF s = {} THEN 0 ELSE f[Chosen(s)] + g[s \ {Chosen(s)}]
      <4>1. g[s] = IF s = {} THEN 0 ELSE f[Chosen(s)] + h[s \ {Chosen(s)}]
        OBVIOUS
      <4>2. s # {} => g[s \ {Chosen(s)}] = h[s \ {Chosen(s)}]
        BY <2>3, <2>4
      <4> HIDE DEF g, Small
      <4> QED BY <4>1, <4>2
    <3> QED BY <3>1
  <2> HIDE DEF g
  <2>6. Sums(g, f, Small(n + 1))
    BY <2>5 DEF Sums
  <2> QED BY <2>1, <2>6
<1>3. T = Nat
  <2>1. T \in SUBSET Nat
    OBVIOUS
  <2> HIDE DEF T
  <2> QED BY <1>1, <1>2, <2>1, InductionBySet
<1>4. Cardinality(D) \in Nat /\ Small(Cardinality(D)) = SUBSET D
  <2>1. \A s \in SUBSET D : Cardinality(s) <= Cardinality(D)
    BY PartsFinite
  <2> QED BY <2>1, FS_CardinalityType
<1>5. Cardinality(D) \in T
  BY <1>3, <1>4
<1>6. \E h : Sums(h, f, Small(Cardinality(D)))
  BY <1>5
<1> QED BY <1>4, <1>6

\* The sum of a set depends on the values of its members only.
LEMMA SumsAgree ==
  ASSUME NEW D, IsFiniteSet(D), NEW f, NEW g, NEW h, NEW k,
         Sums(h, f, SUBSET D), Sums(k, g, SUBSET D)
  PROVE  \A s \in SUBSET D : (\A x \in s : f[x] = g[x]) => h[s] = k[s]
<1> DEFINE Wrong(s) == (\A x \in s : f[x] = g[x]) /\ h[s] # k[s]
           T == {n \in Nat : \E s \in SUBSET D : Cardinality(s) = n /\ Wrong(s)}
<1>1. T = {}
  <2> SUFFICES ASSUME T # {} PROVE FALSE
    OBVIOUS
  <2>1. PICK n \in T : \A m \in T : n <= m
    BY T \in SUBSET Nat, LeastNatural
  <2>2. PICK s \in SUBSET D : Cardinality(s) = n /\ Wrong(s)
    OBVIOUS
  <2>3. /\ h[s] = IF s = {} THEN 0 ELSE f[Chosen(s)] + h[s \ {Chosen(s)}]
        /\ k[s] = IF s = {} THEN 0 ELSE g[Chosen(s)] + k[s \ {Chosen(s)}]
    BY SumsAt
  <2>4. s # {}
    BY <2>2, <2>3
  <2>5. PICK c \in s : c = Chosen(s)
    BY <2>4, ChosenIn
  <2>6. PICK r : r = s \ {c}
    OBVIOUS
  <2>7. r \in SUBSET D /\ Cardinality(r) = n - 1 /\ n - 1 \in Nat /\ ~ (n <= n - 1)
    BY <2>2, <2>4, <2>6, PartsFinite
  <2>8. ~ Wrong(r)
    BY <2>1, <2>7
  <2>9. f[c] = g[c] /\ h[r] = k[r]
    BY <2>2, <2>6, <2>8
  <2>10. h[s] = f[c] + h[r] /\ k[s] = g[c] + k[r]
    BY <2>3, <2>4, <2>5, <2>6
  <2> QED BY <2>2, <2>9, <2>10
<1> SUFFICES ASSUME NEW s \in SUBSET D, Wrong(s) PROVE FALSE
  OBVIOUS
<1>2. Cardinality(s) \in T
  BY PartsFinite
<1> QED BY <1>1, <1>2

\* f counts something of every member of D.
Counts(f, D) == f \in [D -> Nat]

\* Sums of natural numbers are natural numbers.
LEMMA SumsType ==
  ASSUME NEW D, IsFiniteSet(D), NEW f, Counts(f, D), NEW h, Sums(h, f, SUBSET D)
  PROVE  \A s \in SUBSET D : h[s] \in Nat
<1> DEFINE T == {n \in Nat : \E s \in SUBSET D : Cardinality(s) = n /\ h[s] \notin Nat}
<1>1. T = {}
  <2> SUFFICES ASSUME T # {} PROVE FALSE
    OBVIOUS
  <2>1. PICK n \in T : \A m \in T : n <= m
    BY T \in SUBSET Nat, LeastNatural
  <2>2. PICK s \in SUBSET D : Cardinality(s) = n /\ h[s] \notin Nat
    OBVIOUS
  <2>3. h[s] = IF s = {} THEN 0 ELSE f[Chosen(s)] + h[s \ {Chosen(s)}]
    BY SumsAt
  <2>4. s # {}
    BY <2>2, <2>3
  <2>5. PICK c \in s : c = Chosen(s)
    BY <2>4, ChosenIn
  <2>6. PICK r : r = s \ {c}
    OBVIOUS
  <2>7. r \in SUBSET D /\ Cardinality(r) = n - 1 /\ n - 1 \in Nat /\ ~ (n <= n - 1)
    BY <2>2, <2>4, <2>6, PartsFinite
  <2>8. h[r] \in Nat /\ f[c] \in Nat
    BY <2>1, <2>7 DEF Counts
  <2>9. h[s] = f[c] + h[r]
    BY <2>3, <2>4, <2>5, <2>6
  <2> QED BY <2>2, <2>8, <2>9
<1> SUFFICES ASSUME NEW s \in SUBSET D, h[s] \notin Nat PROVE FALSE
  OBVIOUS
<1>2. Cardinality(s) \in T
  BY PartsFinite
<1> QED BY <1>1, <1>2

\* Any member may be taken first.
AnyFirst(h, f, D) == \A s \in SUBSET D : \A x \in s : h[s] = f[x] + h[s \ {x}]

LEMMA SumsTake ==
  ASSUME NEW D, IsFiniteSet(D), NEW f, Counts(f, D), NEW h, Sums(h, f, SUBSET D)
  PROVE  AnyFirst(h, f, D)
<1> USE DEF AnyFirst
<1> DEFINE Wrong(s) == \E x \in s : h[s] # f[x] + h[s \ {x}]
           T == {n \in Nat : \E s \in SUBSET D : Cardinality(s) = n /\ Wrong(s)}
<1>1. T = {}
  <2> SUFFICES ASSUME T # {} PROVE FALSE
    OBVIOUS
  <2>1. PICK n \in T : \A m \in T : n <= m
    BY T \in SUBSET Nat, LeastNatural
  <2>2. PICK s \in SUBSET D : Cardinality(s) = n /\ Wrong(s)
    OBVIOUS
  <2>3. PICK x \in s : h[s] # f[x] + h[s \ {x}]
    BY <2>2
  <2>4. h[s] = f[Chosen(s)] + h[s \ {Chosen(s)}]
    <3>1. h[s] = IF s = {} THEN 0 ELSE f[Chosen(s)] + h[s \ {Chosen(s)}]
      BY SumsAt
    <3>2. s # {}
      BY <2>3
    <3> QED BY <3>1, <3>2
  <2>5. PICK c \in s : c = Chosen(s)
    BY <2>3, ChosenIn
  <2>6. PICK r : r = s \ {c}
    OBVIOUS
  <2>7. PICK q : q = s \ {x}
    OBVIOUS
  <2>8. /\ r \in SUBSET D /\ Cardinality(r) = n - 1
        /\ q \in SUBSET D /\ Cardinality(q) = n - 1
        /\ n - 1 \in Nat /\ ~ (n <= n - 1)
    BY <2>2, <2>3, <2>6, <2>7, PartsFinite
  <2>9. ~ Wrong(r) /\ ~ Wrong(q)
    BY <2>1, <2>8
  <2>10. c # x
    BY <2>3, <2>4, <2>5
  <2>11. h[r] = f[x] + h[r \ {x}] /\ h[q] = f[c] + h[q \ {c}]
    BY <2>6, <2>7, <2>9, <2>10
  <2>12. PICK p : p = r \ {x} /\ p = q \ {c} /\ p \in SUBSET D
    <3>1. r \ {x} = q \ {c}
      BY <2>6, <2>7
    <3>2. r \ {x} \in SUBSET D
      BY <2>8
    <3> QED BY <3>1, <3>2
  <2>13. f[c] \in Nat /\ f[x] \in Nat /\ h[p] \in Nat
    BY <2>12, SumsType DEF Counts
  <2>14. h[s] = f[c] + (f[x] + h[p]) /\ h[q] = f[c] + h[p]
    BY <2>4, <2>5, <2>6, <2>11, <2>12
  <2> QED BY <2>3, <2>7, <2>13, <2>14
<1> SUFFICES ASSUME NEW s \in SUBSET D, Wrong(s) PROVE FALSE
  OBVIOUS
<1> HIDE DEF Wrong
<1>2. Cardinality(s) \in T
  BY PartsFinite
<1> QED BY <1>1, <1>2

\* A sum, as one of its terms and the rest, which depends on the others only.
LEMMA SumSplits ==
  ASSUME NEW D, IsFiniteSet(D), NEW x \in D, NEW f \in [D -> Nat], NEW g \in [D -> Nat],
         \A y \in D \ {x} : f[y] = g[y]
  PROVE  \E rest \in Nat : SumFunction(f) = f[x] + rest /\ SumFunction(g) = g[x] + rest
<1>1. PICK h : Sums(h, f, SUBSET D) /\ SumFunction(f) = h[D]
  <2>1. DOMAIN f = D /\ \E h : Sums(h, f, SUBSET D)
    BY SumsExists
  <2> QED BY <2>1, SumIs
<1>2. PICK k : Sums(k, g, SUBSET D) /\ SumFunction(g) = k[D]
  <2>1. DOMAIN g = D /\ \E k : Sums(k, g, SUBSET D)
    BY SumsExists
  <2> QED BY <2>1, SumIs
<1>3. PICK q \in SUBSET D : q = D \ {x}
  OBVIOUS
<1> Counts(f, D) /\ Counts(g, D)
  BY DEF Counts
<1>4. h[D] = f[x] + h[q] /\ k[D] = g[x] + k[q]
  <2>1. AnyFirst(h, f, D)
    BY <1>1, SumsTake
  <2>2. AnyFirst(k, g, D)
    BY <1>2, SumsTake
  <2>3. D \in SUBSET D
    OBVIOUS
  <2> QED BY <1>3, <2>1, <2>2, <2>3 DEF AnyFirst
<1>5. h[q] = k[q]
  BY <1>1, <1>2, <1>3, SumsAgree
<1>6. h[q] \in Nat
  BY <1>1, SumsType
<1> QED BY <1>1, <1>2, <1>4, <1>5, <1>6

\* A sum of natural numbers is one.
LEMMA SumType ==
  ASSUME NEW D, IsFiniteSet(D), NEW f \in [D -> Nat]
  PROVE  SumFunction(f) \in Nat
<1>1. PICK h : Sums(h, f, SUBSET D) /\ SumFunction(f) = h[D]
  <2>1. DOMAIN f = D /\ \E h : Sums(h, f, SUBSET D)
    BY SumsExists
  <2> QED BY <2>1, SumIs
<1>2. Counts(f, D)
  BY DEF Counts
<1>3. D \in SUBSET D
  OBVIOUS
<1> QED BY <1>1, <1>2, <1>3, SumsType

\* A sum of zeros.
LEMMA SumZero ==
  ASSUME NEW D, IsFiniteSet(D), NEW f \in [D -> Nat], \A x \in D : f[x] = 0
  PROVE  SumFunction(f) = 0
<1>1. PICK h : Sums(h, f, SUBSET D) /\ SumFunction(f) = h[D]
  <2>1. DOMAIN f = D /\ \E h : Sums(h, f, SUBSET D)
    BY SumsExists
  <2> QED BY <2>1, SumIs
<1> DEFINE T == {n \in Nat : \E s \in SUBSET D : Cardinality(s) = n /\ h[s] # 0}
<1>2. T = {}
  <2> SUFFICES ASSUME T # {} PROVE FALSE
    OBVIOUS
  <2>1. PICK n \in T : \A m \in T : n <= m
    BY T \in SUBSET Nat, LeastNatural
  <2>2. PICK s \in SUBSET D : Cardinality(s) = n /\ h[s] # 0
    OBVIOUS
  <2>3. h[s] = IF s = {} THEN 0 ELSE f[Chosen(s)] + h[s \ {Chosen(s)}]
    BY <1>1, SumsAt
  <2>4. s # {}
    BY <2>2, <2>3
  <2>5. PICK c \in s : c = Chosen(s)
    BY <2>4, ChosenIn
  <2>6. PICK r : r = s \ {c}
    OBVIOUS
  <2>7. r \in SUBSET D /\ Cardinality(r) = n - 1 /\ n - 1 \in Nat /\ ~ (n <= n - 1)
    BY <2>2, <2>4, <2>6, PartsFinite
  <2>8. h[r] = 0 /\ f[c] = 0
    BY <2>1, <2>7
  <2> QED BY <2>2, <2>3, <2>4, <2>5, <2>6, <2>8
<1>3. Cardinality(D) \in Nat /\ D \in SUBSET D
  BY FS_CardinalityType
<1> QED BY <1>1, <1>2, <1>3

-----------------------------------------------------------------------------
(* Counting.                                                                   *)

One(b) == IF b THEN 1 ELSE 0

\* Two sets that differ by one member at most.
LEMMA OneMember ==
  ASSUME NEW D, IsFiniteSet(D), NEW S \in SUBSET D, NEW T \in SUBSET D, NEW x \in D,
         S \ {x} = T \ {x}
  PROVE  /\ Cardinality(S) \in Nat /\ Cardinality(T) \in Nat
         /\ Cardinality(T) = Cardinality(S) + One(x \in T) - One(x \in S)
         /\ One(x \in S) \in {0, 1} /\ One(x \in T) \in {0, 1}
         /\ One(x \in S) <= Cardinality(S)
<1>1. PICK R : R = S \ {x} /\ R = T \ {x}
  OBVIOUS
<1>2. IsFiniteSet(S) /\ IsFiniteSet(T)
  BY FS_Subset
<1>3. /\ Cardinality(S) \in Nat /\ Cardinality(T) \in Nat /\ Cardinality(R) \in Nat
  <2>1. IsFiniteSet(R)
    BY <1>1, <1>2, FS_Subset
  <2> QED BY <1>2, <2>1, FS_CardinalityType
<1>4. Cardinality(S) = Cardinality(R) + One(x \in S)
  <2>1. CASE x \in S
    <3>1. Cardinality(S \ {x}) = Cardinality(S) - 1
      BY <1>2, <2>1, FS_RemoveElement
    <3>2. Cardinality(R) = Cardinality(S) - 1
      BY <1>1, <3>1
    <3>3. One(x \in S) = 1
      BY <2>1 DEF One
    <3> QED BY <1>3, <3>2, <3>3
  <2>2. CASE x \notin S
    <3>1. S = R
      BY <1>1, <2>2
    <3>2. One(x \in S) = 0
      BY <2>2 DEF One
    <3> QED BY <1>3, <3>1, <3>2
  <2> QED BY <2>1, <2>2
<1>5. Cardinality(T) = Cardinality(R) + One(x \in T)
  <2>1. CASE x \in T
    <3>1. Cardinality(T \ {x}) = Cardinality(T) - 1
      BY <1>2, <2>1, FS_RemoveElement
    <3>2. Cardinality(R) = Cardinality(T) - 1
      BY <1>1, <3>1
    <3>3. One(x \in T) = 1
      BY <2>1 DEF One
    <3> QED BY <1>3, <3>2, <3>3
  <2>2. CASE x \notin T
    <3>1. T = R
      BY <1>1, <2>2
    <3>2. One(x \in T) = 0
      BY <2>2 DEF One
    <3> QED BY <1>3, <3>1, <3>2
  <2> QED BY <2>1, <2>2
<1>6. One(x \in S) \in {0, 1} /\ One(x \in T) \in {0, 1}
  BY DEF One
<1> QED BY <1>3, <1>4, <1>5, <1>6

\* A sum is no less than any two of its terms; a sum of ones counts them.
LEMMA SumAtLeast ==
  ASSUME NEW D, IsFiniteSet(D), NEW f \in [D -> Nat], NEW x \in D
  PROVE  SumFunction(f) \in Nat /\ SumFunction(f) >= f[x]
<1>1. PICK rest \in Nat : SumFunction(f) = f[x] + rest
  BY SumSplits
<1> QED BY <1>1

LEMMA SumAtLeastTwo ==
  ASSUME NEW D, IsFiniteSet(D), NEW f \in [D -> Nat], NEW x \in D, NEW y \in D, x # y
  PROVE  SumFunction(f) >= f[x] + f[y]
<1>1. PICK g \in [D -> Nat] : g = [z \in D |-> IF z = y THEN 0 ELSE f[z]]
  OBVIOUS
<1>2. PICK rest \in Nat : SumFunction(f) = f[y] + rest /\ SumFunction(g) = g[y] + rest
  BY <1>1, SumSplits, SMTT(30)
<1>3. SumFunction(g) \in Nat /\ SumFunction(g) >= g[x]
  BY SumAtLeast
<1>4. g[x] = f[x] /\ g[y] = 0
  BY <1>1
<1>5. PICK m \in Nat, n \in Nat : m = f[x] /\ n = f[y]
  OBVIOUS
<1> QED BY <1>2, <1>3, <1>4, <1>5

Ones(D, S) == [x \in D |-> One(x \in S)]

LEMMA SumOnes ==
  ASSUME NEW D, IsFiniteSet(D), NEW S \in SUBSET D
  PROVE  SumFunction(Ones(D, S)) = Cardinality(S)
<1> DEFINE T == {n \in Nat : \A R \in SUBSET D : Cardinality(R) = n => SumFunction(Ones(D, R)) = n}
<1>1. \A R \in SUBSET D : IsFiniteSet(R) /\ Cardinality(R) \in Nat
  BY FS_Subset, FS_CardinalityType
<1>2. \A R : Ones(D, R) \in [D -> Nat]
  BY DEF Ones, One
<1>3. 0 \in T
  <2> SUFFICES ASSUME NEW R \in SUBSET D, Cardinality(R) = 0 PROVE SumFunction(Ones(D, R)) = 0
    OBVIOUS
  <2>1. R = {}
    BY <1>1, FS_EmptySet
  <2>2. \A x \in D : Ones(D, R)[x] = 0
    BY <2>1 DEF Ones, One
  <2> QED BY <1>2, <2>2, SumZero
<1>4. ASSUME NEW n \in T PROVE n + 1 \in T
  <2> SUFFICES ASSUME NEW R \in SUBSET D, Cardinality(R) = n + 1
               PROVE  SumFunction(Ones(D, R)) = n + 1
    OBVIOUS
  <2>1. R # {}
    BY FS_EmptySet
  <2>2. PICK x \in R : TRUE
    BY <2>1
  <2>3. PICK Q \in SUBSET D : Q = R \ {x}
    OBVIOUS
  <2>4. Cardinality(Q) = n
    <3>1. Cardinality(R \ {x}) = Cardinality(R) - 1
      BY <1>1, <2>2, FS_RemoveElement
    <3> QED BY <2>3, <3>1
  <2>5. SumFunction(Ones(D, Q)) = n
    BY <2>4
  <2>6. PICK f \in [D -> Nat], g \in [D -> Nat] : f = Ones(D, R) /\ g = Ones(D, Q)
    BY <1>2
  <2>7. f[x] = 1 /\ g[x] = 0 /\ \A y \in D \ {x} : f[y] = g[y]
    BY <2>2, <2>3, <2>6 DEF Ones, One
  <2>8. x \in D
    BY <2>2
  <2>9. PICK rest \in Nat : SumFunction(f) = f[x] + rest /\ SumFunction(g) = g[x] + rest
    BY <2>7, <2>8, SumSplits
  <2> QED BY <2>5, <2>6, <2>7, <2>9
<1> HIDE DEF T
<1>5. T = Nat
  <2>1. T \in SUBSET Nat
    BY DEF T
  <2> QED BY <1>3, <1>4, <2>1, InductionBySet
<1>6. Cardinality(S) \in T
  BY <1>1, <1>5
<1> QED BY <1>6 DEF T

\* The sequence of a finite set has each of its members once.
LEMMA SetToSeqIs ==
  ASSUME NEW S, IsFiniteSet(S)
  PROVE  /\ SetToSeq(S) \in Seq(S) /\ Len(SetToSeq(S)) = Cardinality(S)
         /\ \A i, j \in 1 .. Cardinality(S) : SetToSeq(S)[i] = SetToSeq(S)[j] => i = j
         /\ \A x \in S : \E i \in 1 .. Cardinality(S) : SetToSeq(S)[i] = x
<1>1. PICK n \in Nat : n = Cardinality(S)
  BY FS_CardinalityType
<1>2. PICK g \in Bijection(1 .. n, S) : TRUE
  BY <1>1, FS_CardinalityType DEF ExistsBijection
<1>3. g \in [1 .. n -> S] /\ IsInjective(g)
  BY DEF Bijection, Injection
<1>4. PICK f : f = SetToSeq(S) /\ f \in [1 .. n -> S] /\ IsInjective(f)
  BY <1>1, <1>3 DEF SetToSeq
<1>5. f \in Seq(S) /\ Len(f) = n
  BY <1>4
<1>6. f \in Injection(1 .. n, S)
  BY <1>4 DEF Injection
<1>7. Cardinality(1 .. n) = n
  BY FS_Interval
<1>8. f \in Surjection(1 .. n, S)
  BY <1>1, <1>6, <1>7, FS_Injection
<1>9. \A x \in S : \E i \in 1 .. n : f[i] = x
  BY <1>8 DEF Surjection
<1>10. \A i, j \in 1 .. n : f[i] = f[j] => i = j
  BY <1>4 DEF IsInjective
<1> QED BY <1>1, <1>4, <1>5, <1>9, <1>10

\* How often x occurs in s.
OccursAt(s, x) == {n \in DOMAIN s : s[n] = x}
CountOf(s, x) == Cardinality(OccursAt(s, x))

LEMMA OccursFinite ==
  ASSUME NEW S, NEW s \in Seq(S), NEW x
  PROVE  /\ OccursAt(s, x) = {n \in 1 .. Len(s) : s[n] = x}
         /\ IsFiniteSet(OccursAt(s, x)) /\ CountOf(s, x) \in Nat
<1>1. DOMAIN s = 1 .. Len(s) /\ Len(s) \in Nat
  BY LenProperties
<1>2. IsFiniteSet(1 .. Len(s))
  BY <1>1, FS_Interval
<1>3. OccursAt(s, x) \in SUBSET (1 .. Len(s))
  BY <1>1 DEF OccursAt
<1>4. IsFiniteSet(OccursAt(s, x))
  BY <1>2, <1>3, FS_Subset
<1> QED BY <1>1, <1>4, FS_CardinalityType DEF OccursAt, CountOf

LEMMA CountEmpty ==
  ASSUME NEW x
  PROVE  CountOf(<<>>, x) = 0
<1>1. OccursAt(<<>>, x) = {}
  BY DEF OccursAt
<1> QED BY <1>1, FS_EmptySet DEF CountOf

LEMMA CountSingle ==
  ASSUME NEW y, NEW x
  PROVE  CountOf(<<y>>, x) = One(y = x)
<1>1. OccursAt(<<y>>, x) = IF y = x THEN {1} ELSE {}
  BY DEF OccursAt
<1> QED BY <1>1, FS_EmptySet, FS_Singleton DEF CountOf, One

LEMMA CountConcat ==
  ASSUME NEW S, NEW s \in Seq(S), NEW t \in Seq(S), NEW x
  PROVE  CountOf(s \o t, x) = CountOf(s, x) + CountOf(t, x)
<1>1. PICK m \in Nat, n \in Nat : m = Len(s) /\ n = Len(t)
  BY LenProperties
<1>2. PICK r : r = s \o t
  OBVIOUS
<1>3. /\ r \in Seq(S) /\ Len(r) = m + n
      /\ \A i \in 1 .. m + n : r[i] = IF i <= m THEN s[i] ELSE t[i - m]
  BY <1>1, <1>2, ConcatProperties
<1>4. PICK P, Q, R : P = OccursAt(s, x) /\ Q = OccursAt(t, x) /\ R = OccursAt(r, x)
  OBVIOUS
<1>5. /\ P = {i \in 1 .. m : s[i] = x} /\ Q = {i \in 1 .. n : t[i] = x}
      /\ R = {i \in 1 .. m + n : r[i] = x}
      /\ IsFiniteSet(P) /\ IsFiniteSet(Q) /\ IsFiniteSet(R)
  BY <1>1, <1>3, <1>4, OccursFinite
<1> DEFINE M == {i \in R : i > m}
           f == [i \in Q |-> i + m]
<1>6. R = P \cup M /\ P \cap M = {}
  <2>1. \A i \in 1 .. m : i \in 1 .. m + n /\ i <= m
    OBVIOUS
  <2>2. \A i \in R : i <= m => i \in 1 .. m
    BY <1>5
  <2>3. P \subseteq R
    BY <1>3, <1>5, <2>1
  <2>4. \A i \in R : i <= m => i \in P
    BY <1>3, <1>5, <2>2
  <2>5. \A i \in R : i <= m \/ i > m
    BY <1>5
  <2>6. \A i \in P : ~ (i > m)
    BY <1>5
  <2> QED BY <2>3, <2>4, <2>5, <2>6
<1>7. f \in Bijection(Q, M)
  <2>1. f \in [Q -> M]
    <3> SUFFICES ASSUME NEW i \in Q PROVE i + m \in M
      OBVIOUS
    <3>1. i \in 1 .. n /\ t[i] = x
      BY <1>5
    <3>2. i + m \in 1 .. m + n /\ ~ (i + m <= m) /\ i + m > m /\ i + m - m = i
      BY <3>1
    <3> QED BY <1>3, <1>5, <3>1, <3>2
  <2>2. \A i, j \in Q : i + m = j + m => i = j
    BY <1>5
  <2>3. ASSUME NEW k \in M PROVE \E i \in Q : f[i] = k
    <3>1. k \in 1 .. m + n /\ k > m /\ r[k] = x
      BY <1>5
    <3>2. k - m \in 1 .. n /\ ~ (k <= m) /\ k - m + m = k
      BY <3>1
    <3>3. t[k - m] = x
      BY <1>3, <3>1, <3>2
    <3>4. k - m \in Q
      BY <1>5, <3>2, <3>3
    <3>5. f[k - m] = k
      BY <3>2, <3>4
    <3> QED BY <3>4, <3>5
  <2>4. f \in Injection(Q, M)
    BY <2>1, <2>2 DEF Injection, IsInjective
  <2>5. f \in Surjection(Q, M)
    BY <2>1, <2>3 DEF Surjection
  <2> QED BY <2>4, <2>5 DEF Bijection
<1> HIDE DEF f, M
<1>8. IsFiniteSet(M) /\ Cardinality(M) = Cardinality(Q)
  <2>1. ExistsBijection(Q, M)
    BY <1>7 DEF ExistsBijection
  <2> QED BY <1>5, <2>1, FS_Bijection
<1>9. Cardinality(R) = Cardinality(P) + Cardinality(M) - Cardinality(P \cap M)
  BY <1>5, <1>6, <1>8, FS_Union
<1>10. Cardinality(P \cap M) = 0
  BY <1>6, FS_EmptySet
<1>11. Cardinality(P) \in Nat /\ Cardinality(Q) \in Nat
  BY <1>5, FS_CardinalityType
<1> QED BY <1>2, <1>4, <1>8, <1>9, <1>10, <1>11 DEF CountOf

LEMMA CountTail ==
  ASSUME NEW S, NEW s \in Seq(S), s # <<>>, NEW x
  PROVE  CountOf(s, x) = One(Head(s) = x) + CountOf(Tail(s), x)
<1>1. Head(s) \in S /\ Tail(s) \in Seq(S)
  BY HeadTailProperties
<1>2. s = <<Head(s)>> \o Tail(s)
  <2>1. PICK h \in S, r \in Seq(S) : h = Head(s) /\ r = Tail(s)
    BY <1>1
  <2>2. /\ Len(s) \in Nat \ {0} /\ Len(r) = Len(s) - 1 /\ s[1] = h
        /\ \A i \in 1 .. Len(r) : r[i] = s[i + 1]
    BY <2>1, EmptySeq, HeadTailProperties
  <2>3. PICK e : e = <<h>>
    OBVIOUS
  <2>4. PICK q : q = e \o r
    OBVIOUS
  <2>5. /\ e[1] = h /\ q \in Seq(S) /\ Len(q) = 1 + Len(r)
        /\ \A i \in 1 .. 1 + Len(r) : q[i] = IF i <= 1 THEN e[i] ELSE r[i - 1]
    <3>1. e \in Seq(S) /\ Len(e) = 1 /\ e[1] = h
      BY <2>3
    <3>2. /\ e \o r \in Seq(S) /\ Len(e \o r) = Len(e) + Len(r)
          /\ \A i \in 1 .. Len(e) + Len(r) :
                (e \o r)[i] = IF i <= Len(e) THEN e[i] ELSE r[i - Len(e)]
      BY <3>1, ConcatProperties
    <3> QED BY <2>4, <3>1, <3>2
  <2>6. Len(s) = Len(q)
    BY <2>2, <2>5
  <2>7. ASSUME NEW i \in 1 .. Len(s) PROVE s[i] = q[i]
    <3>1. i \in 1 .. 1 + Len(r)
      BY <2>2
    <3>2. CASE i = 1
      BY <2>2, <2>5, <3>1, <3>2
    <3>3. CASE i # 1
      <4>1. i - 1 \in 1 .. Len(r) /\ i - 1 + 1 = i /\ ~ (i <= 1)
        BY <2>2, <3>3
      <4> QED BY <2>2, <2>5, <3>1, <4>1
    <3> QED BY <3>2, <3>3
  <2>8. s = q
    BY <2>5, <2>6, <2>7, SeqEqual
  <2> QED BY <2>1, <2>3, <2>4, <2>8
<1>3. <<Head(s)>> \in Seq(S)
  BY <1>1
<1>4. CountOf(<<Head(s)>> \o Tail(s), x) = CountOf(<<Head(s)>>, x) + CountOf(Tail(s), x)
  BY <1>1, <1>3, CountConcat
<1>5. CountOf(<<Head(s)>>, x) = One(Head(s) = x)
  BY CountSingle
<1> QED BY <1>2, <1>4, <1>5, Zenon

LEMMA CountJoined ==
  ASSUME NEW S, NEW s \in Seq(Seq(S)), NEW n \in 1 .. Len(s), NEW x
  PROVE  CountOf(Joined(s, n), x) = CountOf(Joined(s, n - 1), x) + CountOf(s[n], x)
<1>1. n - 1 \in 0 .. Len(s) /\ Len(s) \in Nat
  BY LenProperties
<1>2. Joined(s, n - 1) \in Seq(S) /\ s[n] \in Seq(S)
  BY <1>1, JoinedType, ElementOfSeq
<1>3. Joined(s, n) = Joined(s, n - 1) \o s[n]
  BY JoinedStep
<1> QED BY <1>2, <1>3, CountConcat

-----------------------------------------------------------------------------
(* FoldLeft.                                                                   *)

\* The recursive function of FoldLeft, on the sets of D.
Folds(h, G, b, D) ==
    h = [s \in D |-> IF s = {} THEN b ELSE G[<<h[s \ {Max(s)}], Max(s)>>]]

\* The largest member of a set of places.
LEMMA LargestIn ==
  ASSUME NEW n \in Nat, NEW s \in SUBSET (1 .. n), s # {}
  PROVE  Max(s) \in s
<1> DEFINE T == {n - i : i \in s}
<1>1. PICK k \in T : \A m \in T : k <= m
  <2>1. \A i \in s : n - i \in Nat
    OBVIOUS
  <2>2. T \in SUBSET Nat /\ T # {}
    BY <2>1
  <2> HIDE DEF T
  <2> QED BY <2>2, LeastNatural
<1>2. PICK i \in s : k = n - i
  OBVIOUS
<1>3. \A j \in s : i >= j
  <2> SUFFICES ASSUME NEW j \in s PROVE i >= j
    OBVIOUS
  <2>1. k <= n - j
    BY <1>1
  <2> QED BY <1>2, <2>1
<1> QED BY <1>3 DEF Max

LEMMA LargestIs ==
  ASSUME NEW k \in Nat \ {0}
  PROVE  Max(1 .. k) = k /\ (1 .. k) \ {k} = 1 .. k - 1
<1>1. Max(1 .. k) \in 1 .. k /\ \A j \in 1 .. k : Max(1 .. k) >= j
  BY k \in 1 .. k /\ \A j \in 1 .. k : k >= j DEF Max
<1> QED BY <1>1

\* Induction over the places of a sequence.
LEMMA CountsUp ==
  ASSUME NEW n \in Nat, NEW T, 0 \in T, \A k \in 0 .. n - 1 : k \in T => k + 1 \in T
  PROVE  \A k \in 0 .. n : k \in T
<1> DEFINE U == {k \in Nat : k <= n => k \in T}
<1>1. U \in SUBSET Nat /\ 0 \in U
  OBVIOUS
<1>2. ASSUME NEW k \in U PROVE k + 1 \in U
  OBVIOUS
<1> HIDE DEF U
<1>3. U = Nat
  BY <1>1, <1>2, InductionBySet
<1> QED BY <1>3 DEF U

\* There is such a function, and its values are in T if G's are.
LEMMA FoldsExists ==
  ASSUME NEW n \in Nat, NEW T, NEW b \in T, NEW G \in [T \X (1 .. n) -> T]
  PROVE  \E h \in [SUBSET (1 .. n) -> T] : Folds(h, G, b, SUBSET (1 .. n))
<1> DEFINE D == 1 .. n
           Small(m) == {s \in SUBSET D : Cardinality(s) <= m}
           U == {m \in Nat : \E h \in [Small(m) -> T] : Folds(h, G, b, Small(m))}
<1>a. IsFiniteSet(D) /\ Cardinality(D) \in Nat /\ G \in [T \X D -> T]
  <2>1. IsFiniteSet(D)
    BY FS_Interval
  <2>2. Cardinality(D) \in Nat
    BY <2>1, FS_CardinalityType
  <2> QED BY <2>1, <2>2
<1>b. \A s \in SUBSET D : s # {} => Max(s) \in s
  BY LargestIn
<1> HIDE DEF D
<1>c. \A s \in SUBSET D :
        /\ Cardinality(s) \in Nat /\ Cardinality(s) <= Cardinality(D)
        /\ Cardinality(s) = 0 => s = {}
        /\ s # {} => /\ Max(s) \in D /\ s \ {Max(s)} \in SUBSET D
                     /\ Cardinality(s \ {Max(s)}) = Cardinality(s) - 1
  <2> TAKE s \in SUBSET D
  <2>1. /\ Cardinality(s) \in Nat /\ Cardinality(s) <= Cardinality(D)
        /\ Cardinality(s) = 0 => s = {}
        /\ \A x \in s : s \ {x} \in SUBSET D /\ Cardinality(s \ {x}) = Cardinality(s) - 1
    BY <1>a, PartsFinite
  <2> QED BY <1>b, <2>1
<1>1. 0 \in U
  <2>1. \A s \in Small(0) : s = {}
    <3> SUFFICES ASSUME NEW s \in Small(0) PROVE s = {}
      OBVIOUS
    <3>1. s \in SUBSET D /\ Cardinality(s) <= 0
      OBVIOUS
    <3>2. Cardinality(s) \in Nat /\ (Cardinality(s) = 0 => s = {})
      BY <1>c, <3>1
    <3> QED BY <3>1, <3>2
  <2> DEFINE h == [s \in Small(0) |-> b]
  <2>2. h = [s \in Small(0) |-> IF s = {} THEN b ELSE G[<<h[s \ {Max(s)}], Max(s)>>]]
    BY <2>1
  <2>3. Folds(h, G, b, Small(0)) /\ h \in [Small(0) -> T]
    BY <2>2 DEF Folds
  <2> QED BY <2>3
<1>2. ASSUME NEW m \in U PROVE m + 1 \in U
  <2>1. m \in Nat /\ m + 1 \in Nat
    OBVIOUS
  <2>2. PICK h \in [Small(m) -> T] : Folds(h, G, b, Small(m))
    OBVIOUS
  <2> DEFINE g == [s \in Small(m + 1) |-> IF s = {} THEN b ELSE G[<<h[s \ {Max(s)}], Max(s)>>]]
  <2>3. ASSUME NEW s \in Small(m) PROVE s \in Small(m + 1) /\ g[s] = h[s]
    <3>1. s \in Small(m + 1)
      <4>1. s \in SUBSET D /\ Cardinality(s) <= m
        OBVIOUS
      <4>2. Cardinality(s) \in Nat
        BY <1>c, <4>1
      <4> QED BY <2>1, <4>1, <4>2
    <3>2. h[s] = IF s = {} THEN b ELSE G[<<h[s \ {Max(s)}], Max(s)>>]
      BY <2>2 DEF Folds
    <3> QED BY <3>1, <3>2
  <2>4. ASSUME NEW s \in Small(m + 1), s # {}
        PROVE  Max(s) \in D /\ s \ {Max(s)} \in Small(m)
    <3> QED BY <1>c, <2>1, <2>4
  <2>5. ASSUME NEW s \in Small(m + 1)
        PROVE  /\ g[s] = IF s = {} THEN b ELSE G[<<g[s \ {Max(s)}], Max(s)>>]
               /\ g[s] \in T
    <3>1. g[s] = IF s = {} THEN b ELSE G[<<h[s \ {Max(s)}], Max(s)>>]
      OBVIOUS
    <3>2. s # {} => g[s \ {Max(s)}] = h[s \ {Max(s)}]
      BY <2>3, <2>4
    <3>3. s # {} => h[s \ {Max(s)}] \in T /\ Max(s) \in D
      BY <2>2, <2>4
    <3> HIDE DEF g, Small
    <3> QED BY <1>a, <3>1, <3>2, <3>3
  <2>6. g = [s \in Small(m + 1) |-> IF s = {} THEN b ELSE G[<<g[s \ {Max(s)}], Max(s)>>]]
    BY <2>5
  <2>7. g \in [Small(m + 1) -> T]
    BY <2>5
  <2> HIDE DEF g
  <2>8. Folds(g, G, b, Small(m + 1))
    BY <2>6 DEF Folds
  <2> QED BY <2>1, <2>7, <2>8
<1>3. U = Nat
  <2>1. U \in SUBSET Nat
    OBVIOUS
  <2> HIDE DEF U
  <2> QED BY <1>1, <1>2, <2>1, InductionBySet
<1>4. Small(Cardinality(D)) = SUBSET D
  <2>1. \A s \in SUBSET D : Cardinality(s) <= Cardinality(D)
    BY <1>c
  <2> QED BY <2>1
<1>5. Cardinality(D) \in U
  BY <1>a, <1>3
<1>6. \E h \in [SUBSET D -> T] : Folds(h, G, b, SUBSET D)
  BY <1>4, <1>5
<1> QED BY <1>6 DEF D

-----------------------------------------------------------------------------
(* Other recursive functions.                                                  *)

\* A function that is reckoned up from 0: each value from the one before.
CountedUp(f, n, b, G) ==
    f = [k \in 0 .. n |-> IF k = 0 THEN b ELSE G[<<f[k - 1], k>>]]

LEMMA CountedExists ==
  ASSUME NEW n \in Nat, NEW T, NEW b \in T, NEW G \in [T \X (1 .. n) -> T]
  PROVE  \E f \in [0 .. n -> T] : CountedUp(f, n, b, G)
<1>1. PICK h \in [SUBSET (1 .. n) -> T] : Folds(h, G, b, SUBSET (1 .. n))
  BY FoldsExists
<1> DEFINE f == [k \in 0 .. n |-> h[1 .. k]]
<1>2. ASSUME NEW k \in 0 .. n PROVE 1 .. k \in SUBSET (1 .. n)
  OBVIOUS
<1>3. f \in [0 .. n -> T]
  BY <1>2
<1>4. ASSUME NEW k \in 0 .. n
      PROVE  f[k] = IF k = 0 THEN b ELSE G[<<f[k - 1], k>>]
  <2>1. f[k] = h[1 .. k]
    OBVIOUS
  <2>2. h[1 .. k] = IF 1 .. k = {} THEN b ELSE G[<<h[(1 .. k) \ {Max(1 .. k)}], Max(1 .. k)>>]
    BY <1>1, <1>2 DEF Folds
  <2>3. CASE k = 0
    <3>1. 1 .. k = {}
      BY <2>3
    <3> QED BY <2>1, <2>2, <2>3, <3>1
  <2>4. CASE k # 0
    <3>1. k \in Nat \ {0} /\ 1 .. k # {} /\ k - 1 \in 0 .. n
      BY <2>4
    <3>2. Max(1 .. k) = k /\ (1 .. k) \ {k} = 1 .. k - 1
      BY <3>1, LargestIs
    <3>3. f[k - 1] = h[1 .. k - 1]
      BY <3>1
    <3> HIDE DEF f
    <3> QED BY <2>1, <2>2, <2>4, <3>1, <3>2, <3>3
  <2> QED BY <2>3, <2>4
<1>5. f = [k \in 0 .. n |-> f[k]]
  OBVIOUS
<1> HIDE DEF f
<1>6. CountedUp(f, n, b, G)
  BY <1>4, <1>5 DEF CountedUp
<1> QED BY <1>3, <1>6

\* A function that looks for the first member of P that is not below its argument.
LEMMA SearchExists ==
  ASSUME NEW n \in Nat, NEW P \in SUBSET (0 .. n), n \in P
  PROVE  \E f : f = [i \in 0 .. n |-> IF i \in P THEN i ELSE f[i + 1]]
<1>a. \A j \in P : j \in Int
  OBVIOUS
<1> DEFINE From(i) == {j \in P : i <= j}
           First(i) == CHOOSE j \in From(i) : \A m \in From(i) : j <= m
           f == [i \in 0 .. n |-> First(i)]
<1>1. ASSUME NEW i \in 0 .. n PROVE f[i] = IF i \in P THEN i ELSE f[i + 1]
  <2>1. CASE i \in P
    <3>1. i \in From(i) /\ \A m \in From(i) : i <= m
      BY <2>1
    <3>2. First(i) \in From(i) /\ \A m \in From(i) : First(i) <= m
      BY <3>1
    <3>3. First(i) = i
      <4>1. First(i) <= i
        BY <3>1, <3>2
      <4> HIDE DEF First
      <4>2. First(i) \in P /\ i <= First(i)
        BY <3>2
      <4>3. First(i) \in Int
        BY <1>a, <4>2
      <4> QED BY <4>1, <4>2, <4>3
    <3> QED BY <2>1, <3>3
  <2>2. CASE i \notin P
    <3>1. i + 1 \in 0 .. n
      BY <2>2
    <3>2. From(i) = From(i + 1)
      <4>1. ASSUME NEW j \in P PROVE i <= j <=> i + 1 <= j
        <5>1. j \in Int /\ i \in Int
          BY <1>a
        <5>2. j # i
          BY <2>2
        <5> QED BY <5>1, <5>2
      <4> QED BY <4>1
    <3>3. First(i) = First(i + 1)
      BY <3>2
    <3> HIDE DEF First
    <3> QED BY <2>2, <3>1, <3>3
  <2> QED BY <2>1, <2>2
<1>2. f = [i \in 0 .. n |-> f[i]]
  OBVIOUS
<1> HIDE DEF f
<1>3. f = [i \in 0 .. n |-> IF i \in P THEN i ELSE f[i + 1]]
  BY <1>1, <1>2
<1> QED BY <1>3

\* From 0, what it finds is the least one.
LEMMA SearchIs ==
  ASSUME NEW n \in Nat, NEW P \in SUBSET (0 .. n), n \in P, NEW f,
         f = [i \in 0 .. n |-> IF i \in P THEN i ELSE f[i + 1]]
  PROVE  f[0] \in P /\ \A j \in P : f[0] <= j
<1>1. PICK l \in P : \A m \in P : l <= m
  BY LeastNatural
<1>2. l \in 0 .. n /\ l \in Nat
  OBVIOUS
<1>3. \A i \in 0 .. n : f[i] = IF i \in P THEN i ELSE f[i + 1]
  OBVIOUS
<1> DEFINE T == {d \in 0 .. l : f[l - d] = l}
<1>4. 0 \in T
  <2>1. l - 0 = l /\ 0 \in 0 .. l
    BY <1>2
  <2> QED BY <1>2, <1>3, <2>1
<1>5. ASSUME NEW d \in 0 .. l - 1, d \in T PROVE d + 1 \in T
  <2>1. /\ d + 1 \in 0 .. l /\ l - (d + 1) \in 0 .. n /\ l - (d + 1) < l
        /\ l - (d + 1) + 1 = l - d
    BY <1>2
  <2>2. l - (d + 1) \notin P
    BY <1>1, <1>2, <2>1
  <2>3. f[l - (d + 1)] = f[l - d]
    BY <1>3, <2>1, <2>2
  <2>4. f[l - d] = l
    BY <1>5
  <2> QED BY <2>1, <2>3, <2>4
<1> HIDE DEF T
<1>6. \A d \in 0 .. l : d \in T
  BY <1>2, <1>4, <1>5, CountsUp
<1>7. f[l - l] = l
  BY <1>2, <1>6 DEF T
<1>8. f[0] = l
  BY <1>2, <1>7
<1> QED BY <1>1, <1>8
=============================================================================
