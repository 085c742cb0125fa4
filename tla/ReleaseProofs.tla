---------------------------- MODULE ReleaseProofs -----------------------------
(***************************************************************************)
(* Two parts of the runtime that decide when something is released: the    *)
(* autorelease pool, and then the blocks runtime with the trampolines that *)
(* hold blocks.  They share nothing but the lemmas.                        *)
(***************************************************************************)
EXTENDS AutoreleasePool, BlockTrampolines, SequenceTheorems, FoldLemmas, TLAPS

-----------------------------------------------------------------------------
(***************************************************************************)
(* "fixme I think this `while` can be `if`, but I can't prove it", says    *)
(* releaseUntil (NSObject.mm:663) of its walk to a page that is not empty. *)
(* It is proved here, for any page size, any objects, any nesting of pops  *)
(* and any number of calls, together with what makes tokens usable, and    *)
(* with the stack that the list of pages implements.                       *)
(*                                                                         *)
(* The walk reads the pages, but why it is short lies in the calls: it is  *)
(* never begun once the boundary is reached, and every boundary and token  *)
(* is below the top of the stack.  That in turn holds because the tokens   *)
(* of each level of nested code lie between the boundaries of the pops     *)
(* outside and inside it, so that no pop takes off what a call further out *)
(* still counts on.                                                        *)
(***************************************************************************)

\* Of two addresses in the pool, the one nearer its bottom.
Below(a, b) == a[1] < b[1] \/ (a[1] = b[1] /\ a[2] < b[2])

\* The address of a pop's boundary.
Boundary(p) == <<p.page, p.stop>>

\* Each pop in progress runs code at a level of its own.
Levels == Len(tokens) = Len(pops) + 1

\* No entry is written past the end of a page.
NoOverflow == \A n \in 1 .. Len(pages) : Len(pages[n]) <= PageSize

\* Nothing under the boundary of a pop in progress has been taken off.
PopsInside ==
    \A j \in 1 .. Len(pops) :
        /\ pops[j].page <= hot /\ pops[j].stop <= PageSize
        /\ pops[j].stop - 1 <= Len(pages[pops[j].page])

\* A pop inside another one has a boundary no lower.
PopsNested ==
    \A i, j \in 1 .. Len(pops) : i < j => ~ Below(Boundary(pops[j]), Boundary(pops[i]))

TokensInside ==
    \A i \in 1 .. Len(tokens) : \A k \in 1 .. Len(tokens[i]) :
        LET tk == tokens[i][k] IN
        /\ tk[1] <= hot /\ tk[2] <= Len(pages[tk[1]])
        /\ pages[tk[1]][tk[2]] = POOL_SENTINEL

\* The tokens of a level were made in ascending order,
TokensAscend ==
    \A i \in 1 .. Len(tokens) : \A k, m \in 1 .. Len(tokens[i]) :
        k < m => Below(tokens[i][k], tokens[i][m])

\* above the boundaries of the pops it runs inside
TokensAbove ==
    \A i \in 1 .. Len(tokens) : \A k \in 1 .. Len(tokens[i]) :
        \A j \in 1 .. Len(pops) : j < i => ~ Below(tokens[i][k], Boundary(pops[j]))

\* and below those of the pops that run inside it.
TokensBelow ==
    \A i \in 1 .. Len(tokens) : \A k \in 1 .. Len(tokens[i]) :
        \A j \in 1 .. Len(pops) : i <= j => Below(tokens[i][k], Boundary(pops[j]))

\* No code runs inside a pop between two releases.
NoCodeNoTokens ==
    \A j \in 1 .. Len(pops) : pops[j].releasing = None => tokens[j + 1] = <<>>

\* The pop of everything is the outermost one, of a thread that has no tokens.
TopIsOutermost ==
    \A j \in 1 .. Len(pops) : pops[j].top => j = 1 /\ tokens[1] = <<>>

\* A boundary is the address of one pop in progress, and no token of the code
\* inside it; the bottom of the pool, where the pop of everything stops, may be.
PopsApart ==
    /\ \A i, j \in 1 .. Len(pops) :
         i < j => pops[i].top \/ Boundary(pops[j]) # Boundary(pops[i])
    /\ \A i \in 1 .. Len(tokens) : \A k \in 1 .. Len(tokens[i]) :
         \A j \in 1 .. Len(pops) :
           j < i => pops[j].top \/ tokens[i][k] # Boundary(pops[j])

Order == PopsNested /\ TokensAscend /\ TokensAbove /\ TokensBelow /\ PopsApart

\* The entry a pop in progress stops at is there, and is a boundary.
PopStands(p) ==
    /\ p.page <= hot /\ p.stop <= Len(pages[p.page])
    /\ pages[p.page][p.stop] = POOL_SENTINEL

\* A pop has taken its boundary off only when it runs no more code.
BoundariesStand ==
    \A j \in 1 .. Len(pops) :
        \/ pops[j].top
        \/ PopStands(pops[j])
        \/ j = Len(pops) /\ pops[j].releasing = None /\ Reached(pops[j])

PoolIInv ==
    /\ TypeOK /\ HotPageSplits /\ NoOverflow /\ Levels
    /\ PopsInside /\ TokensInside /\ Order /\ BoundariesStand
    /\ NoCodeNoTokens /\ TopIsOutermost

-----------------------------------------------------------------------------
(* What the operations do to the pages.                                        *)

\* The first elements of a sequence.
LEMMA PrefixProperties ==
  ASSUME NEW S, NEW s \in Seq(S), NEW n \in 0 .. Len(s)
  PROVE  /\ SubSeq(s, 1, n) \in Seq(S) /\ Len(SubSeq(s, 1, n)) = n
         /\ \A i \in 1 .. n : SubSeq(s, 1, n)[i] = s[i]
<1>1. n \in Nat /\ \A i \in 1 .. n : s[i] \in S
  BY LenProperties, ElementOfSeq
<1>2. /\ SubSeq(s, 1, n) \in Seq(S)
      /\ Len(SubSeq(s, 1, n)) = IF 1 <= n THEN n - 1 + 1 ELSE 0
      /\ \A i \in 1 .. n - 1 + 1 : SubSeq(s, 1, n)[i] = s[1 + i - 1]
  BY <1>1, SubSeqProperties
<1> QED BY <1>1, <1>2

\* The pages, as sequences.
LEMMA PagesType ==
  ASSUME TypeOK
  PROVE  /\ hot \in Nat /\ hot <= Len(pages) /\ Len(pages) \in Nat
         /\ \A n \in 1 .. Len(pages) : pages[n] \in Seq(Entry) /\ Len(pages[n]) \in Nat
<1>1. pages \in Seq(Seq(Entry)) /\ hot \in 0 .. Len(pages)
  BY DEF TypeOK
<1>2. \A n \in 1 .. Len(pages) : pages[n] \in Seq(Entry)
  BY <1>1, ElementOfSeq
<1> QED BY <1>1, <1>2, LenProperties

\* An entry goes to the hot page, or to the next one if that is full.
LEMMA PageForIs ==
  ASSUME TypeOK, HotPageSplits, hot # 0
  PROVE  PageFor = IF full(pages[hot]) THEN hot + 1 ELSE hot
<1>1. CASE ~ full(pages[hot])
  BY <1>1 DEF PageFor
<1>2. CASE full(pages[hot])
  <2> DEFINE Next1(i) == /\ i = Len(pages) + 1 \/ ~ full(pages[i])
                         /\ \A j \in hot + 1 .. i - 1 : full(pages[j])
  <2>1. \A n \in hot + 1 .. Len(pages) : ~ full(pages[n])
    <3> SUFFICES ASSUME NEW n \in hot + 1 .. Len(pages) PROVE ~ full(pages[n])
      OBVIOUS
    <3>1. n \in DOMAIN pages /\ n > hot
      BY PagesType, LenProperties DEF TypeOK
    <3>2. pages[n] = <<>>
      BY <3>1 DEF HotPageSplits, empty
    <3> QED BY <3>2, EmptySeq, PoolAssumption DEF full
  <2>2. hot + 1 \in hot + 1 .. Len(pages) + 1 /\ Next1(hot + 1)
    BY <2>1, PagesType
  <2>3. \A i \in hot + 1 .. Len(pages) + 1 : Next1(i) => i = hot + 1
    BY <2>1, PagesType
  <2>4. (CHOOSE i \in hot + 1 .. Len(pages) + 1 : Next1(i)) = hot + 1
    BY <2>2, <2>3
  <2> QED BY <1>2, <2>4 DEF PageFor
<1> QED BY <1>1, <1>2

\* What a push, or an autorelease into a pool that exists, does: x is the new top
\* entry, and nothing else changes.
AddTo(x) ==
    \/ hot = 0 /\ x = POOL_SENTINEL /\ pages' = << <<x>> >> /\ hot' = 1
    \/ hot # 0 /\ Add(x)

\* Where the entry goes: on top of the hot page, or alone on the next one.
LEMMA AddInPlace ==
  ASSUME TypeOK, HotPageSplits, NEW x \in Entry, AddTo(x)
  PROVE  \/ /\ hot # 0 /\ ~ full(pages[hot]) /\ hot' = hot
            /\ pages' = [pages EXCEPT ![hot] = Append(pages[hot], x)]
         \/ /\ hot # 0 => full(pages[hot])
            /\ hot' = hot + 1 /\ pages'[hot + 1] = <<x>>
            /\ \/ pages' = Append(pages, <<x>>) /\ Len(pages) = hot
               \/ pages' = [pages EXCEPT ![hot + 1] = <<x>>] /\ Len(pages) > hot
<1>1. CASE hot = 0
  <2>1. pages = <<>>
    BY <1>1 DEF HotPageSplits
  <2>2. Append(pages, <<x>>) = << <<x>> >> /\ Len(pages) = 0
    BY <2>1
  <2> QED BY <1>1, <2>2 DEF AddTo
<1>2. CASE hot # 0 /\ ~ full(pages[hot])
  BY <1>2, PageForIs, PagesType DEF AddTo, Add
<1>3. CASE hot # 0 /\ full(pages[hot])
  <2>1. PageFor = hot + 1 /\ Add(x)
    BY <1>3, PageForIs DEF AddTo
  <2>2. CASE Len(pages) = hot
    <3>1. pages' = Append(pages, <<x>>) /\ hot' = hot + 1
      BY <2>1, <2>2, PagesType DEF Add
    <3>2. <<x>> \in Seq(Entry) /\ pages \in Seq(Seq(Entry))
      BY DEF TypeOK
    <3>3. pages'[hot + 1] = <<x>>
      BY <3>1, <3>2, <2>2
    <3> QED BY <1>3, <2>2, <3>1, <3>3
  <2>3. CASE Len(pages) > hot
    <3>1. pages[hot + 1] = <<>> /\ hot + 1 \in 1 .. Len(pages) /\ hot + 1 \in DOMAIN pages
      <4>1. hot + 1 \in DOMAIN pages /\ hot + 1 \in 1 .. Len(pages)
        BY <2>3, PagesType, LenProperties DEF TypeOK
      <4> QED BY <4>1, PagesType DEF HotPageSplits, empty
    <3>2. pages' = [pages EXCEPT ![hot + 1] = <<x>>] /\ hot' = hot + 1
      BY <2>1, <2>3, <3>1, PagesType DEF Add
    <3>3. pages'[hot + 1] = <<x>>
      BY <3>1, <3>2
    <3> QED BY <1>3, <2>3, <3>2, <3>3
  <2> QED BY <2>2, <2>3, PagesType
<1> QED BY <1>1, <1>2, <1>3

\* The stack of pages has grown: what was in it is where it was.
Grown ==
    /\ hot <= hot'
    /\ \A n \in 1 .. hot :
         /\ Len(pages[n]) <= Len(pages'[n])
         /\ \A k \in 1 .. Len(pages[n]) : pages'[n][k] = pages[n][k]

\* What that does to the stack as a whole.
LEMMA Added ==
  ASSUME TypeOK, HotPageSplits, NoOverflow, NEW x \in Entry, AddTo(x)
  PROVE  /\ pages' \in Seq(Seq(Entry)) /\ hot' \in 1 .. Len(pages')
         /\ HotPageSplits' /\ NoOverflow' /\ Grown
         /\ Len(pages'[hot']) \in Nat \ {0} /\ Len(pages'[hot']) <= PageSize
         /\ pages'[hot'][Len(pages'[hot'])] = x
         /\ \/ hot' = hot + 1
            \/ hot' = hot /\ Len(pages'[hot]) = Len(pages[hot]) + 1
<1> USE PoolAssumption
<1>1. /\ pages \in Seq(Seq(Entry)) /\ <<x>> \in Seq(Entry)
      /\ DOMAIN pages = 1 .. Len(pages) /\ Len(<<x>>) = 1 /\ <<x>>[1] = x
  BY LenProperties DEF TypeOK
<1>2. CASE /\ hot # 0 /\ ~ full(pages[hot]) /\ hot' = hot
           /\ pages' = [pages EXCEPT ![hot] = Append(pages[hot], x)]
  <2> DEFINE p == Append(pages[hot], x)
  <2>1. hot \in 1 .. Len(pages) /\ pages[hot] \in Seq(Entry) /\ Len(pages[hot]) \in Nat
    BY <1>2, PagesType
  <2>2. /\ p \in Seq(Entry) /\ Len(p) = Len(pages[hot]) + 1 /\ p # <<>>
        /\ \A k \in 1 .. Len(pages[hot]) : p[k] = pages[hot][k]
        /\ p[Len(pages[hot]) + 1] = x
    BY <2>1, AppendProperties
  <2>3. /\ pages' \in Seq(Seq(Entry)) /\ Len(pages') = Len(pages)
        /\ \A n \in 1 .. Len(pages) : pages'[n] = IF n = hot THEN p ELSE pages[n]
    <3> HIDE DEF p
    <3>1. pages' = [pages EXCEPT ![hot] = p]
      BY <1>2 DEF p
    <3> QED BY <1>1, <2>1, <2>2, <3>1, ExceptSeq
  <2> HIDE DEF p
  <2>4. DOMAIN pages' = 1 .. Len(pages)
    BY <2>3, LenProperties
  <2>5. Len(p) <= PageSize
    BY <1>2, <2>1, <2>2 DEF NoOverflow, full
  <2>6. HotPageSplits'
    BY <1>1, <1>2, <2>1, <2>3, <2>4 DEF HotPageSplits, full, empty
  <2>7. NoOverflow'
    BY <2>3, <2>5 DEF NoOverflow
  <2>8. Grown
    BY <1>2, <2>1, <2>2, <2>3, PagesType DEF Grown
  <2> QED BY <1>2, <2>1, <2>2, <2>3, <2>5, <2>6, <2>7, <2>8
<1>3. CASE /\ hot # 0 => full(pages[hot])
           /\ hot' = hot + 1 /\ pages'[hot + 1] = <<x>>
           /\ \/ pages' = Append(pages, <<x>>) /\ Len(pages) = hot
              \/ pages' = [pages EXCEPT ![hot + 1] = <<x>>] /\ Len(pages) > hot
  <2>1. /\ pages' \in Seq(Seq(Entry)) /\ Len(pages') \in Nat /\ Len(pages') >= Len(pages)
        /\ hot + 1 \in 1 .. Len(pages')
        /\ \A n \in 1 .. Len(pages') : n # hot + 1 => n \in 1 .. Len(pages) /\ pages'[n] = pages[n]
    <3>1. CASE pages' = Append(pages, <<x>>) /\ Len(pages) = hot
      BY <1>1, <3>1, AppendProperties, PagesType
    <3>2. CASE pages' = [pages EXCEPT ![hot + 1] = <<x>>] /\ Len(pages) > hot
      <4>1. hot + 1 \in 1 .. Len(pages)
        BY <3>2, PagesType
      <4> QED BY <1>1, <3>2, <4>1, ExceptSeq, PagesType
    <3> QED BY <1>3, <3>1, <3>2
  <2>2. /\ DOMAIN pages' = 1 .. Len(pages') /\ hot' = hot + 1 /\ hot \in Nat
        /\ Len(pages) \in Nat /\ hot <= Len(pages)
        /\ pages'[hot + 1] = <<x>> /\ (hot # 0 => full(pages[hot]))
    BY <1>3, <2>1, LenProperties, PagesType
  <2>3. HotPageSplits'
    <3>1. (hot = 0)' <=> (pages = <<>>)'
      BY <2>1, <2>2
    <3>2. ASSUME NEW i \in DOMAIN pages' PROVE (i < hot' => full(pages'[i])) /\ (i > hot' => empty(pages'[i]))
      <4>1. CASE i = hot'
        BY <2>2, <4>1
      <4>2. CASE i # hot'
        <5>1. i \in 1 .. Len(pages) /\ i \in DOMAIN pages /\ pages'[i] = pages[i]
          BY <1>1, <2>1, <2>2, <4>2
        <5>2. i < hot => full(pages[i])
          BY <5>1 DEF HotPageSplits
        <5>3. i > hot => empty(pages[i])
          BY <5>1 DEF HotPageSplits
        <5> QED BY <2>2, <4>2, <5>1, <5>2, <5>3
      <4> QED BY <4>1, <4>2
    <3> QED BY <3>1, <3>2 DEF HotPageSplits
  <2>4. NoOverflow'
    <3> SUFFICES ASSUME NEW n \in 1 .. Len(pages') PROVE Len(pages'[n]) <= PageSize
      BY DEF NoOverflow
    <3>1. CASE n = hot + 1
      <4>1. pages'[n] = <<x>>
        BY <2>2, <3>1
      <4> QED BY <1>1, <4>1, 1 <= PageSize
    <3>2. CASE n # hot + 1
      BY <2>1, <3>2 DEF NoOverflow
    <3> QED BY <3>1, <3>2
  <2>5. Grown
    <3>1. ASSUME NEW n \in 1 .. hot PROVE pages'[n] = pages[n] /\ Len(pages[n]) \in Nat
      BY <2>1, <2>2, PagesType
    <3> QED BY <2>2, <3>1 DEF Grown
  <2> QED BY <1>1, <2>1, <2>2, <2>3, <2>4, <2>5
<1> QED BY AddInPlace, <1>2, <1>3

-----------------------------------------------------------------------------
(* Tokens and pops in progress.                                                *)

Token == (Nat \ {0}) \X (Nat \ {0})

\* The pops in progress, as a sequence.
LEMMA PopsType ==
  ASSUME TypeOK
  PROVE  /\ pops \in Seq(Pop) /\ Len(pops) \in Nat
         /\ \A j \in 1 .. Len(pops) :
              /\ pops[j] \in Pop
              /\ pops[j].page \in Nat \ {0} /\ pops[j].stop \in Nat \ {0}
<1>1. pops \in Seq(Pop)
  BY DEF TypeOK
<1>2. \A j \in 1 .. Len(pops) : pops[j] \in Pop
  BY <1>1, ElementOfSeq
<1> QED BY <1>1, <1>2, LenProperties DEF Pop

\* The same of tokens.
LEMMA TokensType ==
  ASSUME TypeOK
  PROVE  /\ tokens \in Seq(Seq(Token)) /\ Len(tokens) \in Nat
         /\ \A i \in 1 .. Len(tokens) :
              /\ tokens[i] \in Seq(Token) /\ Len(tokens[i]) \in Nat
              /\ \A k \in 1 .. Len(tokens[i]) :
                   /\ tokens[i][k] \in Token
                   /\ tokens[i][k][1] \in Nat \ {0} /\ tokens[i][k][2] \in Nat \ {0}
<1>1. tokens \in Seq(Seq(Token))
  BY DEF TypeOK, Token
<1>2. \A i \in 1 .. Len(tokens) : tokens[i] \in Seq(Token)
  BY <1>1, ElementOfSeq
<1>3. \A i \in 1 .. Len(tokens) : \A k \in 1 .. Len(tokens[i]) : tokens[i][k] \in Token
  BY <1>2, ElementOfSeq
<1> QED BY <1>1, <1>2, <1>3, LenProperties DEF Token

\* No token is new, and those there are belong to the level they belonged to.
TokensKept ==
    \A i \in 1 .. Len(tokens') : \A k \in 1 .. Len(tokens'[i]) :
        /\ i \in 1 .. Len(tokens) /\ k \in 1 .. Len(tokens[i])
        /\ tokens'[i][k] = tokens[i][k]

\* No pop is new.
PopsKept ==
    /\ Len(pops') <= Len(pops)
    /\ \A j \in 1 .. Len(pops') : /\ pops'[j].page = pops[j].page /\ pops'[j].stop = pops[j].stop
                                  /\ pops'[j].top = pops[j].top

\* The order of tokens and boundaries survives when none is new.
LEMMA OrderKept ==
  ASSUME TypeOK, TypeOK', Order, TokensKept, PopsKept
  PROVE  Order'
<1>1. \A j \in 1 .. Len(pops') : /\ j \in 1 .. Len(pops) /\ Boundary(pops'[j]) = Boundary(pops[j])
                                 /\ pops'[j].top = pops[j].top
  BY PopsType DEF PopsKept, Boundary, TypeOK
<1>2. PopsNested'
  BY <1>1 DEF Order, PopsNested
<1>3. TokensAscend'
  BY DEF Order, TokensAscend, TokensKept
<1>4. TokensAbove'
  BY <1>1 DEF Order, TokensAbove, TokensKept
<1>5. TokensBelow'
  BY <1>1 DEF Order, TokensBelow, TokensKept
<1>6. PopsApart'
  <2>1. ASSUME NEW i \in 1 .. Len(pops'), NEW j \in 1 .. Len(pops'), i < j
        PROVE  pops'[i].top \/ Boundary(pops'[j]) # Boundary(pops'[i])
    BY <1>1, <2>1 DEF Order, PopsApart
  <2>2. ASSUME NEW i \in 1 .. Len(tokens'), NEW k \in 1 .. Len(tokens'[i]),
               NEW j \in 1 .. Len(pops'), j < i
        PROVE  pops'[j].top \/ tokens'[i][k] # Boundary(pops'[j])
    BY <1>1, <2>2 DEF Order, PopsApart, TokensKept
  <2> QED BY <2>1, <2>2 DEF PopsApart
<1> QED BY <1>2, <1>3, <1>4, <1>5, <1>6 DEF Order

\* The numbers that Grown compares.
LEMMA GrownTypes ==
  ASSUME TypeOK, TypeOK', Grown
  PROVE  /\ hot \in Nat /\ hot' \in Nat /\ hot <= hot' /\ hot <= Len(pages) /\ hot' <= Len(pages')
         /\ \A n \in 1 .. hot : Len(pages[n]) \in Nat /\ Len(pages'[n]) \in Nat
<1>1. hot' \in 0 .. Len(pages') /\ pages' \in Seq(Seq(Entry))
  BY DEF TypeOK
<1>2. Len(pages') \in Nat
  BY <1>1, LenProperties
<1>3. \A n \in 1 .. Len(pages') : Len(pages'[n]) \in Nat
  BY <1>1, ElementOfSeq, LenProperties
<1> QED BY <1>1, <1>2, <1>3, PagesType DEF Grown

\* The boundaries of the pops in progress stay inside a stack that grows.
LEMMA PopsInsideKept ==
  ASSUME TypeOK, TypeOK', PopsInside, Grown, PopsKept
  PROVE  PopsInside'
<1> SUFFICES ASSUME NEW j \in 1 .. Len(pops')
             PROVE  /\ pops'[j].page <= hot' /\ pops'[j].stop <= PageSize
                    /\ pops'[j].stop - 1 <= Len(pages'[pops'[j].page])
  BY DEF PopsInside
<1>1. /\ j \in 1 .. Len(pops)
      /\ pops'[j].page = pops[j].page /\ pops'[j].stop = pops[j].stop
  BY PopsType DEF PopsKept, TypeOK
<1>2. pops[j].page \in 1 .. hot /\ pops[j].stop \in Nat
  BY <1>1, GrownTypes, PopsType, SMTT(30) DEF PopsInside
<1>3. /\ pops[j].page <= hot /\ pops[j].stop <= PageSize
      /\ pops[j].stop - 1 <= Len(pages[pops[j].page])
  BY <1>1 DEF PopsInside
<1>4. /\ Len(pages[pops[j].page]) \in Nat /\ Len(pages'[pops[j].page]) \in Nat
      /\ Len(pages[pops[j].page]) <= Len(pages'[pops[j].page])
  BY <1>2, GrownTypes DEF Grown
<1>5. pops[j].stop - 1 <= Len(pages'[pops[j].page])
  BY <1>2, <1>3, <1>4, SMTT(30)
<1> QED BY <1>1, <1>2, <1>3, <1>5, GrownTypes

\* What was at an address is there still.
LEMMA StaysInPlace ==
  ASSUME TypeOK, TypeOK', Grown
  PROVE  \A tk \in Token :
           /\ tk[1] <= hot /\ tk[2] <= Len(pages[tk[1]])
           /\ pages[tk[1]][tk[2]] = POOL_SENTINEL
           => /\ tk[1] <= hot' /\ tk[2] <= Len(pages'[tk[1]])
              /\ pages'[tk[1]][tk[2]] = POOL_SENTINEL
<1> SUFFICES ASSUME NEW n \in Nat \ {0}, NEW k \in Nat \ {0},
                    n <= hot, k <= Len(pages[n]), pages[n][k] = POOL_SENTINEL
             PROVE  /\ n <= hot' /\ k <= Len(pages'[n])
                    /\ pages'[n][k] = POOL_SENTINEL
  BY DEF Token
<1>1. n \in 1 .. hot /\ n <= hot'
  BY GrownTypes
<1>2. /\ Len(pages[n]) \in Nat /\ Len(pages'[n]) \in Nat
      /\ Len(pages[n]) <= Len(pages'[n])
  BY <1>1, GrownTypes DEF Grown
<1>3. k \in 1 .. Len(pages[n]) /\ k <= Len(pages'[n])
  BY <1>2
<1> QED BY <1>1, <1>3 DEF Grown

\* And so is the boundary of every pop whose code is running.
LEMMA StandingKept ==
  ASSUME TypeOK, TypeOK', BoundariesStand, Grown, PopsKept,
         \A j \in 1 .. Len(pops') : j # Len(pops) \/ pops[j].releasing # None
  PROVE  BoundariesStand'
<1> SUFFICES ASSUME NEW j \in 1 .. Len(pops'), ~ pops'[j].top PROVE PopStands(pops[j])'
  BY DEF BoundariesStand
<1>1. /\ j \in 1 .. Len(pops) /\ ~ pops[j].top
      /\ pops'[j].page = pops[j].page /\ pops'[j].stop = pops[j].stop
  BY PopsType DEF PopsKept, TypeOK
<1>2. PopStands(pops[j])
  <2>1. j # Len(pops) \/ pops[j].releasing # None
    OBVIOUS
  <2> QED BY <1>1, <2>1 DEF BoundariesStand
<1> DEFINE tk == <<pops[j].page, pops[j].stop>>
<1>3. tk \in Token /\ tk[1] = pops[j].page /\ tk[2] = pops[j].stop
  BY <1>1, PopsType DEF Token
<1> HIDE DEF tk
<1>4. tk[1] <= hot' /\ tk[2] <= Len(pages'[tk[1]]) /\ pages'[tk[1]][tk[2]] = POOL_SENTINEL
  BY <1>2, <1>3, StaysInPlace DEF PopStands
<1> QED BY <1>1, <1>3, <1>4 DEF PopStands

\* And so do the tokens.
LEMMA InsideKept ==
  ASSUME TypeOK, TypeOK', PopsInside, TokensInside, Grown, TokensKept, PopsKept
  PROVE  PopsInside' /\ TokensInside'
<1>1. TokensInside'
  <2> SUFFICES ASSUME NEW i \in 1 .. Len(tokens'), NEW k \in 1 .. Len(tokens'[i])
               PROVE  /\ tokens'[i][k][1] <= hot'
                      /\ tokens'[i][k][2] <= Len(pages'[tokens'[i][k][1]])
                      /\ pages'[tokens'[i][k][1]][tokens'[i][k][2]] = POOL_SENTINEL
    BY DEF TokensInside
  <2>1. /\ i \in 1 .. Len(tokens) /\ k \in 1 .. Len(tokens[i])
        /\ tokens'[i][k] = tokens[i][k]
    BY DEF TokensKept
  <2>2. tokens[i][k] \in Token
    BY <2>1, TokensType
  <2> QED BY <2>1, <2>2, StaysInPlace, Zenon DEF TokensInside
<1> QED BY <1>1, PopsInsideKept

-----------------------------------------------------------------------------
(* The operations.                                                             *)

\* Before the first call.
LEMMA InitInv == Init => PoolIInv
<1> SUFFICES ASSUME Init PROVE PoolIInv
  OBVIOUS
<1>1. /\ pages = <<>> /\ hot = 0 /\ pops = <<>> /\ tokens = << <<>> >>
      /\ Len(pages) = 0 /\ Len(pops) = 0 /\ Len(tokens) = 1 /\ tokens[1] = <<>> /\ Len(tokens[1]) = 0
      /\ DOMAIN pages = {}
  BY DEF Init
<1>2. TypeOK
  <2>1. /\ <<>> \in Seq(Seq(Entry)) /\ <<>> \in Seq(Pop)
        /\ << <<>> >> \in Seq(Seq((Nat \ {0}) \X (Nat \ {0})))
    OBVIOUS
  <2>2. 0 \in 0 .. Len(pages) /\ 0 \in Nat
    BY <1>1
  <2> QED BY <1>1, <2>1, <2>2, Zenon DEF Init, TypeOK
<1>3. HotPageSplits /\ NoOverflow /\ Levels
  BY <1>1 DEF HotPageSplits, NoOverflow, Levels
<1>4. PopsInside /\ TokensInside
  BY <1>1 DEF PopsInside, TokensInside
<1>5. Order
  BY <1>1 DEF Order, PopsNested, TokensAscend, TokensAbove, TokensBelow, PopsApart
<1>6. NoCodeNoTokens /\ TopIsOutermost /\ BoundariesStand
  BY <1>1 DEF NoCodeNoTokens, TopIsOutermost, BoundariesStand
<1> QED BY <1>2, <1>3, <1>4, <1>5, <1>6 DEF PoolIInv

\* Nothing moves: the pages are those they were.
LEMMA GrownInPlace ==
  ASSUME TypeOK, UNCHANGED <<pages, hot>>
  PROVE  Grown
BY PagesType DEF Grown

\* An entry more, and no token.
LEMMA AutoreleaseInv ==
  ASSUME PoolIInv, NEW o \in Obj, autorelease(o)
  PROVE  PoolIInv'
<1> USE DEF PoolIInv
<1>1. UNCHANGED <<pops, tokens, exited>> /\ calls' = calls + 1
  BY DEF autorelease
<1>2. TokensKept /\ PopsKept
  BY <1>1, PopsType DEF TokensKept, PopsKept
<1>3. TypeOK' /\ HotPageSplits' /\ NoOverflow' /\ Grown
  <2>1. CASE hot = 0
    <3>1. UNCHANGED <<pages, hot>> /\ leaked' = leaked \cup {o}
      BY <2>1 DEF autorelease
    <3> QED BY <1>1, <3>1, GrownInPlace DEF TypeOK, HotPageSplits, NoOverflow
  <2>2. CASE hot # 0
    <3>1. AddTo(o) /\ UNCHANGED leaked /\ o \in Entry
      BY <2>2 DEF autorelease, AddTo, Entry
    <3>2. /\ pages' \in Seq(Seq(Entry)) /\ hot' \in 1 .. Len(pages')
          /\ HotPageSplits' /\ NoOverflow' /\ Grown
      BY <3>1, Added
    <3> QED BY <1>1, <3>1, <3>2 DEF TypeOK
  <2> QED BY <2>1, <2>2
<1>4. PopsInside' /\ TokensInside' /\ Order'
  BY <1>2, <1>3, InsideKept, OrderKept
<1>5. Levels' /\ NoCodeNoTokens' /\ TopIsOutermost'
  BY <1>1 DEF Levels, NoCodeNoTokens, TopIsOutermost
<1>6. BoundariesStand'
  <2>1. \A j \in 1 .. Len(pops') : j # Len(pops) \/ pops[j].releasing # None
    BY <1>1, EmptySeq, PopsType DEF autorelease, Running, Last
  <2> QED BY <1>2, <1>3, <2>1, StandingKept
<1> QED BY <1>3, <1>4, <1>5, <1>6

\* A release returns: the code that ran in it, and its tokens, are gone.
LEMMA ReleasedInv ==
  ASSUME PoolIInv, released
  PROVE  PoolIInv'
<1> USE DEF PoolIInv
<1> DEFINE n == Len(pops)
           p == [pops[n] EXCEPT !.releasing = None]
<1>1. /\ UNCHANGED <<pages, hot, leaked, calls, exited>>
      /\ n \in 1 .. n /\ n \in Nat /\ p \in Pop /\ Len(tokens) = n + 1
      /\ p.page = pops[n].page /\ p.stop = pops[n].stop /\ p.top = pops[n].top
  <2>1. pops # <<>> /\ UNCHANGED <<pages, hot, leaked, calls, exited>>
    BY DEF released
  <2>2. n \in 1 .. n /\ n \in Nat /\ Len(tokens) = n + 1
    BY <2>1, PopsType, EmptySeq DEF Levels
  <2> QED BY <2>1, <2>2, PopsType DEF Pop
<1>2. /\ pops' = [pops EXCEPT ![n] = p]
      /\ tokens' = [tokens EXCEPT ![n + 1] = <<>>]
  BY <1>1 DEF released
<1> HIDE DEF p
<1>3. /\ pops' \in Seq(Pop) /\ Len(pops') = n
      /\ \A j \in 1 .. n : pops'[j] = IF j = n THEN p ELSE pops[j]
  BY <1>1, <1>2, PopsType, ExceptSeq
<1>4. /\ tokens' \in Seq(Seq(Token)) /\ Len(tokens') = n + 1
      /\ \A i \in 1 .. n + 1 : tokens'[i] = IF i = n + 1 THEN <<>> ELSE tokens[i]
  <2>1. <<>> \in Seq(Token) /\ n + 1 \in 1 .. Len(tokens)
    BY <1>1
  <2> QED BY <1>1, <1>2, <2>1, TokensType, ExceptSeq
<1>5. TypeOK' /\ HotPageSplits' /\ NoOverflow' /\ Levels'
  <2>1. HotPageSplits' /\ NoOverflow'
    BY <1>1 DEF HotPageSplits, NoOverflow
  <2>2. Levels'
    BY <1>3, <1>4 DEF Levels
  <2>3. /\ pages' \in Seq(Seq(Entry)) /\ hot' \in 0 .. Len(pages') /\ leaked' \subseteq Obj
        /\ calls' \in Nat /\ exited' \in BOOLEAN
    BY <1>1 DEF TypeOK
  <2>4. tokens' \in Seq(Seq((Nat \ {0}) \X (Nat \ {0})))
    BY <1>4 DEF Token
  <2> QED BY <1>3, <2>1, <2>2, <2>3, <2>4 DEF TypeOK
<1>6. PopsKept
  BY <1>1, <1>3 DEF PopsKept
<1>7. TokensKept
  BY <1>1, <1>4 DEF TokensKept
<1>8. PopsInside' /\ TokensInside' /\ Order'
  BY <1>1, <1>5, <1>6, <1>7, GrownInPlace, InsideKept, OrderKept
<1>9. NoCodeNoTokens'
  <2> SUFFICES ASSUME NEW j \in 1 .. n, pops'[j].releasing = None PROVE tokens'[j + 1] = <<>>
    BY <1>3 DEF NoCodeNoTokens
  <2>1. CASE j = n
    BY <1>1, <1>4, <2>1
  <2>2. CASE j # n
    <3>1. pops'[j] = pops[j] /\ tokens'[j + 1] = tokens[j + 1]
      <4>1. j + 1 \in 1 .. n + 1 /\ j + 1 # n + 1
        BY <1>1, <2>2
      <4> QED BY <1>3, <1>4, <2>2, <4>1, Zenon
    <3> QED BY <3>1 DEF NoCodeNoTokens
  <2> QED BY <2>1, <2>2
<1>10. TopIsOutermost'
  <2> SUFFICES ASSUME NEW j \in 1 .. n, pops'[j].top PROVE j = 1 /\ tokens'[1] = <<>>
    BY <1>3 DEF TopIsOutermost
  <2>1. pops'[j].top = pops[j].top
    BY <1>1, <1>3, Zenon
  <2>2. tokens'[1] = tokens[1]
    BY <1>1, <1>4
  <2> QED BY <2>1, <2>2, Zenon DEF TopIsOutermost
<1>11. BoundariesStand'
  <2>1. \A j \in 1 .. n : j # n \/ pops[j].releasing # None
    BY DEF released, Last
  <2> QED BY <1>1, <1>3, <1>5, <1>6, <2>1, GrownInPlace, StandingKept
<1> QED BY <1>5, <1>8, <1>9, <1>10, <1>11

\* The exit of the thread: it has no tokens, and pops from the bottom.
LEMMA TlsDeallocInv ==
  ASSUME PoolIInv, tls_dealloc
  PROVE  PoolIInv'
<1> USE DEF PoolIInv
<1>1. pops = <<>> /\ UNCHANGED <<pages, hot, leaked, calls>> /\ exited' = TRUE
  BY DEF tls_dealloc
<1>2. HotPageSplits' /\ NoOverflow'
  BY <1>1 DEF HotPageSplits, NoOverflow
<1>3. CASE hot = 0
  <2>1. UNCHANGED <<pops, tokens>>
    BY <1>3 DEF tls_dealloc
  <2>2. TypeOK' /\ TokensKept /\ PopsKept
    BY <1>1, <2>1, PopsType DEF TypeOK, TokensKept, PopsKept
  <2>3. PopsInside' /\ TokensInside' /\ Order'
    BY <1>1, <2>2, GrownInPlace, InsideKept, OrderKept
  <2>4. Levels' /\ NoCodeNoTokens' /\ TopIsOutermost'
    BY <2>1 DEF Levels, NoCodeNoTokens, TopIsOutermost
  <2>5. BoundariesStand'
    <3>1. Len(pops') = 0
      BY <1>1, <2>1
    <3> QED BY <3>1 DEF BoundariesStand
  <2> QED BY <1>2, <2>2, <2>3, <2>4, <2>5
<1>4. CASE hot # 0
  <2> DEFINE all == [page |-> 1, stop |-> 1, top |-> TRUE, releasing |-> None]
  <2>1. pops' = <<all>> /\ tokens' = << <<>>, <<>> >>
    BY <1>4 DEF tls_dealloc
  <2>2. all \in Pop /\ all.page = 1 /\ all.stop = 1 /\ all.top
    BY DEF Pop
  <2> HIDE DEF all
  <2>3. /\ Len(pops') = 1 /\ pops'[1] = all /\ Len(tokens') = 2
        /\ tokens'[1] = <<>> /\ tokens'[2] = <<>> /\ Len(<<>>) = 0
    BY <2>1
  <2>4. \A i \in 1 .. Len(tokens') : tokens'[i] = <<>> /\ Len(tokens'[i]) = 0
    BY <2>3
  <2>5. \A j \in 1 .. Len(pops') : j = 1
    BY <2>3
  <2>6. TypeOK'
    <3>1. pops' \in Seq(Pop) /\ tokens' \in Seq(Seq((Nat \ {0}) \X (Nat \ {0})))
      BY <2>1, <2>2
    <3> QED BY <1>1, <3>1, Zenon DEF TypeOK
  <2>7. PopsInside'
    BY <1>1, <1>4, <2>2, <2>3, <2>5, PagesType, PoolAssumption DEF PopsInside
  <2>8. Levels' /\ TokensInside'
    BY <2>3, <2>4 DEF Levels, TokensInside
  <2>9. Order'
    BY <2>3, <2>4, <2>5 DEF Order, PopsNested, TokensAscend, TokensAbove, TokensBelow, PopsApart
  <2>10. NoCodeNoTokens' /\ TopIsOutermost' /\ BoundariesStand'
    BY <2>2, <2>3, <2>5 DEF NoCodeNoTokens, TopIsOutermost, BoundariesStand
  <2> QED BY <1>2, <2>6, <2>7, <2>8, <2>9, <2>10
<1> QED BY <1>3, <1>4

\* The new token is above every other one, and not under the boundary of any pop
\* in progress.
LEMMA PushInv ==
  ASSUME PoolIInv, push
  PROVE  PoolIInv'
<1> USE DEF PoolIInv
<1> DEFINE n == Len(tokens)
           m == Len(tokens[n])
           new == NewToken
<1>1. /\ AddTo(POOL_SENTINEL) /\ POOL_SENTINEL \in Entry
      /\ UNCHANGED <<pops, leaked, exited>> /\ calls' = calls + 1
      /\ tokens' = [tokens EXCEPT ![n] = Append(tokens[n], new)]
  BY DEF push, AddTo, Entry
<1>2. /\ pages' \in Seq(Seq(Entry)) /\ hot' \in 1 .. Len(pages')
      /\ HotPageSplits' /\ NoOverflow' /\ Grown
      /\ Len(pages'[hot']) \in Nat \ {0} /\ Len(pages'[hot']) <= PageSize
      /\ pages'[hot'][Len(pages'[hot'])] = POOL_SENTINEL
      /\ \/ hot' = hot + 1
         \/ hot' = hot /\ Len(pages'[hot]) = Len(pages[hot]) + 1
  BY <1>1, Added
<1>3. /\ hot' \in Nat \ {0} /\ new \in Token
      /\ new[1] = hot' /\ new[2] = Len(pages'[hot'])
  BY <1>2, LenProperties DEF NewToken, Token
<1> HIDE DEF new
<1>4. n \in 1 .. n /\ n \in Nat /\ m \in Nat /\ tokens[n] \in Seq(Token) /\ n = Len(pops) + 1
  <2>1. n = Len(pops) + 1 /\ Len(pops) \in Nat
    BY PopsType DEF Levels
  <2> QED BY <2>1, TokensType
<1>5. /\ tokens' \in Seq(Seq(Token)) /\ Len(tokens') = n
      /\ \A i \in 1 .. n : i # n => tokens'[i] = tokens[i]
      /\ Len(tokens'[n]) = m + 1 /\ tokens'[n][m + 1] = new
      /\ \A k \in 1 .. m : tokens'[n][k] = tokens[n][k]
  <2> DEFINE t == Append(tokens[n], new)
  <2>1. /\ t \in Seq(Token) /\ Len(t) = m + 1 /\ t[m + 1] = new
        /\ \A k \in 1 .. m : t[k] = tokens[n][k]
    BY <1>3, <1>4, AppendProperties
  <2>2. tokens' = [tokens EXCEPT ![n] = t]
    BY <1>1
  <2> HIDE DEF t
  <2>3. /\ tokens' \in Seq(Seq(Token)) /\ Len(tokens') = n
        /\ \A i \in 1 .. n : tokens'[i] = IF i = n THEN t ELSE tokens[i]
    BY <1>4, <2>1, <2>2, TokensType, ExceptSeq
  <2> QED BY <1>4, <2>1, <2>3
<1>6. TypeOK'
  <2>1. hot' \in 0 .. Len(pages') /\ calls' \in Nat
    BY <1>1, <1>2, LenProperties DEF TypeOK
  <2> QED BY <1>1, <1>2, <1>5, <2>1, Zenon DEF TypeOK, Token
<1>7. ASSUME NEW i \in 1 .. Len(tokens'), NEW k \in 1 .. Len(tokens'[i])
      PROVE  \/ /\ i \in 1 .. n /\ k \in 1 .. Len(tokens[i])
                /\ tokens'[i][k] = tokens[i][k]
             \/ i = n /\ k = m + 1 /\ tokens'[i][k] = new
  <2>1. CASE i = n
    BY <1>4, <1>5, <2>1
  <2>2. CASE i # n
    BY <1>5, <2>2
  <2> QED BY <2>1, <2>2
<1>8. ASSUME NEW i \in 1 .. n, NEW k \in 1 .. Len(tokens[i])
      PROVE  Below(tokens[i][k], new)
  <2> DEFINE a == tokens[i][k][1]
             b == tokens[i][k][2]
  <2>1. a \in Nat /\ b \in Nat
    BY TokensType
  <2>2. a <= hot /\ b <= Len(pages[a]) /\ hot \in Nat
    BY PagesType DEF TokensInside
  <2> HIDE DEF a, b
  <2>3. CASE hot' = hot + 1
    BY <1>3, <2>1, <2>2, <2>3 DEF Below, a, b
  <2>4. CASE hot' = hot /\ Len(pages'[hot]) = Len(pages[hot]) + 1
    <3>1. a = hot => b < new[2]
      <4> SUFFICES ASSUME a = hot PROVE b < new[2]
        OBVIOUS
      <4>1. Len(pages[hot]) \in Nat /\ b <= Len(pages[hot])
        BY <1>3, <2>2, <2>4, PagesType
      <4> QED BY <1>3, <2>1, <2>4, <4>1
    <3>2. a < new[1] \/ a = new[1]
      BY <1>3, <2>1, <2>2, <2>4
    <3> QED BY <1>3, <2>4, <3>1, <3>2 DEF Below, a, b
  <2> QED BY <1>2, <2>3, <2>4
<1>9. ASSUME NEW j \in 1 .. Len(pops) PROVE ~ Below(new, Boundary(pops[j]))
  <2> DEFINE a == pops[j].page
             b == pops[j].stop
  <2>1. a \in Nat /\ b \in Nat /\ a <= hot /\ b - 1 <= Len(pages[a]) /\ hot \in Nat
    BY PopsType, PagesType DEF PopsInside
  <2>2. Boundary(pops[j])[1] = a /\ Boundary(pops[j])[2] = b
    BY DEF Boundary
  <2> HIDE DEF a, b
  <2>3. CASE hot' = hot + 1
    BY <1>3, <2>1, <2>2, <2>3 DEF Below
  <2>4. CASE hot' = hot /\ Len(pages'[hot]) = Len(pages[hot]) + 1
    <3>1. a = hot => b <= new[2]
      <4> SUFFICES ASSUME a = hot PROVE b <= new[2]
        OBVIOUS
      <4>1. Len(pages[hot]) \in Nat /\ b - 1 <= Len(pages[hot])
        BY <1>3, <2>1, <2>4, PagesType
      <4> QED BY <1>3, <2>1, <2>4, <4>1
    <3>2. new[1] \in Nat /\ new[2] \in Nat /\ new[1] = hot
      BY <1>2, <1>3, <2>4
    <3> QED BY <2>1, <2>2, <3>1, <3>2 DEF Below
  <2> QED BY <1>2, <2>3, <2>4
<1>10. PopsKept
  BY <1>1, PopsType DEF PopsKept
<1>11. PopsInside'
  BY <1>2, <1>6, <1>10, PopsInsideKept
<1>12. TokensInside'
  <2> SUFFICES ASSUME NEW i \in 1 .. Len(tokens'), NEW k \in 1 .. Len(tokens'[i])
               PROVE  /\ tokens'[i][k][1] <= hot'
                      /\ tokens'[i][k][2] <= Len(pages'[tokens'[i][k][1]])
                      /\ pages'[tokens'[i][k][1]][tokens'[i][k][2]] = POOL_SENTINEL
    BY DEF TokensInside
  <2>1. CASE tokens'[i][k] = new
    BY <1>2, <1>3, <2>1
  <2>2. CASE i \in 1 .. n /\ k \in 1 .. Len(tokens[i]) /\ tokens'[i][k] = tokens[i][k]
    <3>1. tokens[i][k] \in Token
      BY <2>2, TokensType
    <3> QED BY <1>2, <1>6, <2>2, <3>1, StaysInPlace, Zenon DEF TokensInside
  <2> QED BY <1>7, <2>1, <2>2
<1>13. TokensAscend'
  <2> SUFFICES ASSUME NEW i \in 1 .. Len(tokens'), NEW k \in 1 .. Len(tokens'[i]),
                      NEW l \in 1 .. Len(tokens'[i]), k < l
               PROVE  Below(tokens'[i][k], tokens'[i][l])
    BY DEF TokensAscend
  <2>1. CASE i = n /\ l = m + 1 /\ tokens'[i][l] = new
    <3>1. k # m + 1
      BY <1>4, <2>1
    <3>2. i \in 1 .. n /\ k \in 1 .. Len(tokens[i]) /\ tokens'[i][k] = tokens[i][k]
      BY <1>7, <3>1
    <3> QED BY <1>8, <2>1, <3>2
  <2>2. CASE i \in 1 .. n /\ l \in 1 .. Len(tokens[i]) /\ tokens'[i][l] = tokens[i][l]
    <3>1. ~ (i = n /\ k = m + 1)
      BY <1>4, <2>2
    <3>2. k \in 1 .. Len(tokens[i]) /\ tokens'[i][k] = tokens[i][k]
      BY <1>7, <3>1
    <3> QED BY <2>2, <3>2 DEF Order, TokensAscend
  <2> QED BY <1>7, <2>1, <2>2
<1>14. TokensAbove'
  <2> SUFFICES ASSUME NEW i \in 1 .. Len(tokens'), NEW k \in 1 .. Len(tokens'[i]),
                      NEW j \in 1 .. Len(pops), j < i
               PROVE  ~ Below(tokens'[i][k], Boundary(pops[j]))
    BY <1>1 DEF TokensAbove
  <2> QED BY <1>7, <1>9 DEF Order, TokensAbove
<1>15. TokensBelow'
  <2> SUFFICES ASSUME NEW i \in 1 .. Len(tokens'), NEW k \in 1 .. Len(tokens'[i]),
                      NEW j \in 1 .. Len(pops), i <= j
               PROVE  Below(tokens'[i][k], Boundary(pops[j]))
    BY <1>1 DEF TokensBelow
  <2>1. i # n
    BY <1>4
  <2> QED BY <1>7, <2>1 DEF Order, TokensBelow
<1>20. \A j \in 1 .. Len(pops) : j # Len(pops) \/ pops[j].releasing # None
  BY EmptySeq, PopsType DEF push, Running, Last
<1>21. PopsApart'
  <2> SUFFICES ASSUME NEW i \in 1 .. Len(tokens'), NEW k \in 1 .. Len(tokens'[i]),
                      NEW j \in 1 .. Len(pops), j < i, ~ pops[j].top
               PROVE  tokens'[i][k] # Boundary(pops[j])
    BY <1>1 DEF PopsApart, Order
  <2>1. CASE tokens'[i][k] = new
    <3> SUFFICES ASSUME new[1] = pops[j].page, new[2] = pops[j].stop PROVE FALSE
      BY <2>1 DEF Boundary
    <3>1. pops[j].page <= hot /\ pops[j].stop <= Len(pages[pops[j].page])
      BY <1>20 DEF BoundariesStand, PopStands
    <3>2. hot \in Nat /\ hot' = hot /\ Len(pages'[hot]) = Len(pages[hot]) + 1
      BY <1>2, <1>3, <3>1, PagesType
    <3>3. hot \in 1 .. Len(pages)
      BY <1>3, <3>2, PagesType
    <3>4. Len(pages[hot]) \in Nat
      BY <3>3, PagesType
    <3> QED BY <1>3, <3>1, <3>2, <3>4
  <2>2. CASE i \in 1 .. n /\ k \in 1 .. Len(tokens[i]) /\ tokens'[i][k] = tokens[i][k]
    BY <2>2 DEF Order, PopsApart
  <2> QED BY <1>7, <2>1, <2>2
<1>22. BoundariesStand'
  BY <1>1, <1>2, <1>6, <1>10, <1>20, StandingKept
<1>16. Order'
  BY <1>1, <1>13, <1>14, <1>15, <1>21 DEF Order, PopsNested
<1>17. Levels' /\ NoCodeNoTokens'
  <2>1. pops # <<>> => pops[Len(pops)].releasing # None
    BY DEF push, Running, Last
  <2>2. ASSUME NEW j \in 1 .. Len(pops), pops[j].releasing = None PROVE tokens'[j + 1] = <<>>
    <3>1. j + 1 \in 1 .. n /\ j + 1 # n
      BY <1>4, <2>1, <2>2, PopsType
    <3> QED BY <1>5, <2>2, <3>1 DEF NoCodeNoTokens
  <2> QED BY <1>1, <1>5, <2>2 DEF Levels, NoCodeNoTokens
<1>18. TopIsOutermost'
  <2> SUFFICES ASSUME NEW j \in 1 .. Len(pops), pops[j].top PROVE j = 1 /\ tokens'[1] = <<>>
    BY <1>1 DEF TopIsOutermost
  <2>1. 1 \in 1 .. n /\ 1 # n
    BY <1>4
  <2> QED BY <1>5, <2>1 DEF TopIsOutermost
<1> QED BY <1>2, <1>6, <1>11, <1>12, <1>16, <1>17, <1>18, <1>22

\* What lies under one address lies under every address that does not.
LEMMA BelowTransitive ==
  ASSUME NEW a \in Token, NEW b \in Token, NEW c \in Token, Below(a, b), ~ Below(c, b)
  PROVE  Below(a, c)
BY DEF Token, Below

\* A pop of a token of the innermost level, which takes the later tokens with it.
LEMMA PopInv ==
  ASSUME PoolIInv, NEW k \in 1 .. MaxCalls, pop(k)
  PROVE  PoolIInv'
<1> USE DEF PoolIInv
<1> DEFINE n == Len(tokens)
           p == [page |-> tokens[n][k][1], stop |-> tokens[n][k][2],
                 top |-> FALSE, releasing |-> None]
           q == SubSeq(tokens[n], 1, k - 1)
           Trimmed == [tokens EXCEPT ![n] = q]
<1>1. /\ UNCHANGED <<pages, hot, leaked, calls, exited>>
      /\ pops' = Append(pops, p) /\ tokens' = Append(Trimmed, <<>>)
      /\ k \in DOMAIN tokens[n]
      /\ pops # <<>> => pops[Len(pops)].releasing # None
  BY DEF pop, Running, Last
<1>2. n \in 1 .. n /\ n \in Nat /\ n = Len(pops) + 1 /\ Len(pops) \in Nat
  BY PopsType DEF Levels
<1>3. /\ tokens[n] \in Seq(Token) /\ k \in 1 .. Len(tokens[n]) /\ k \in Nat
      /\ Len(tokens[n]) \in Nat /\ tokens[n][k] \in Token
  <2>1. tokens[n] \in Seq(Token)
    BY <1>2, TokensType
  <2>2. k \in 1 .. Len(tokens[n])
    BY <1>1, <2>1, LenProperties
  <2> QED BY <1>2, <2>1, <2>2, TokensType
<1>4. p \in Pop /\ Boundary(p) = tokens[n][k] /\ p.top = FALSE
      /\ p.page = tokens[n][k][1] /\ p.stop = tokens[n][k][2]
  BY <1>3 DEF Pop, Boundary, Token
<1>5. q \in Seq(Token) /\ Len(q) = k - 1 /\ \A l \in 1 .. k - 1 : q[l] = tokens[n][l]
  <2>1. k - 1 \in 0 .. Len(tokens[n])
    BY <1>3
  <2> QED BY <1>3, <2>1, PrefixProperties
<1> HIDE DEF p, q
<1>6. /\ Trimmed \in Seq(Seq(Token)) /\ Len(Trimmed) = n
      /\ \A i \in 1 .. n : Trimmed[i] = IF i = n THEN q ELSE tokens[i]
  BY <1>2, <1>5, TokensType, ExceptSeq
<1> HIDE DEF Trimmed
<1>7. /\ tokens' \in Seq(Seq(Token)) /\ Len(tokens') = n + 1
      /\ \A i \in 1 .. n : i # n => tokens'[i] = tokens[i]
      /\ tokens'[n] = q /\ tokens'[n + 1] = <<>> /\ Len(tokens'[n + 1]) = 0
  <2>1. <<>> \in Seq(Token)
    OBVIOUS
  <2>2. /\ tokens' \in Seq(Seq(Token)) /\ Len(tokens') = n + 1
        /\ \A i \in 1 .. n : tokens'[i] = Trimmed[i]
    BY <1>1, <1>6, <2>1, AppendProperties
  <2>3. tokens'[n + 1] = <<>>
    BY <1>1, <1>6, <2>1
  <2> QED BY <1>2, <1>6, <2>2, <2>3
<1>8. /\ pops' \in Seq(Pop) /\ Len(pops') = n /\ pops'[n] = p
      /\ \A j \in 1 .. n : j # n => j \in 1 .. Len(pops) /\ pops'[j] = pops[j]
  BY <1>1, <1>2, <1>4, PopsType, AppendProperties
<1>9. ASSUME NEW i \in 1 .. Len(tokens'), NEW l \in 1 .. Len(tokens'[i])
      PROVE  /\ i \in 1 .. n /\ l \in 1 .. Len(tokens[i])
             /\ tokens'[i][l] = tokens[i][l] /\ (i = n => l < k)
  <2>1. CASE i = n + 1
    BY <1>7, <2>1
  <2>2. CASE i = n
    <3>1. tokens'[i] = q /\ l \in 1 .. k - 1
      BY <1>5, <1>7, <2>2
    <3>2. tokens'[i][l] = tokens[n][l]
      BY <1>5, <3>1
    <3>3. l \in 1 .. Len(tokens[n]) /\ l < k
      BY <1>3, <3>1
    <3> QED BY <1>2, <2>2, <3>2, <3>3
  <2>3. CASE i # n + 1 /\ i # n
    <3>1. i \in 1 .. n
      BY <1>2, <1>7, <2>3
    <3>2. tokens'[i] = tokens[i]
      BY <1>7, <2>3, <3>1
    <3> QED BY <2>3, <3>1, <3>2
  <2> QED BY <2>1, <2>2, <2>3
<1>10. TypeOK'
  BY <1>1, <1>7, <1>8, Zenon DEF TypeOK, Token
<1>11. HotPageSplits' /\ NoOverflow' /\ Levels'
  BY <1>1, <1>7, <1>8 DEF HotPageSplits, NoOverflow, Levels
<1>12. PopsInside'
  <2> SUFFICES ASSUME NEW j \in 1 .. n
               PROVE  /\ pops'[j].page <= hot /\ pops'[j].stop <= PageSize
                      /\ pops'[j].stop - 1 <= Len(pages[pops'[j].page])
    BY <1>1, <1>8 DEF PopsInside
  <2>1. CASE j # n
    BY <1>8, <2>1 DEF PopsInside
  <2>2. CASE j = n
    <3> DEFINE a == tokens[n][k][1]
               b == tokens[n][k][2]
    <3>1. a \in Nat \ {0} /\ b \in Nat \ {0} /\ a <= hot /\ b <= Len(pages[a])
      BY <1>2, <1>3, TokensType DEF TokensInside
    <3>2. pops'[j].page = a /\ pops'[j].stop = b
      BY <1>4, <1>8, <2>2
    <3> HIDE DEF a, b
    <3>3. a \in 1 .. Len(pages) /\ Len(pages[a]) \in Nat
      BY <3>1, PagesType
    <3>4. Len(pages[a]) <= PageSize
      BY <3>3 DEF NoOverflow
    <3> QED BY <3>1, <3>2, <3>3, <3>4, PoolAssumption
  <2> QED BY <2>1, <2>2
<1>13. TokensInside'
  <2> SUFFICES ASSUME NEW i \in 1 .. Len(tokens'), NEW l \in 1 .. Len(tokens'[i])
               PROVE  /\ tokens'[i][l][1] <= hot
                      /\ tokens'[i][l][2] <= Len(pages[tokens'[i][l][1]])
                      /\ pages[tokens'[i][l][1]][tokens'[i][l][2]] = POOL_SENTINEL
    BY <1>1 DEF TokensInside
  <2>1. /\ i \in 1 .. Len(tokens) /\ l \in 1 .. Len(tokens[i])
        /\ tokens'[i][l] = tokens[i][l]
    BY <1>9
  <2> QED BY <2>1, Zenon DEF TokensInside
<1>14. PopsNested'
  <2> SUFFICES ASSUME NEW i \in 1 .. n, NEW j \in 1 .. n, i < j
               PROVE  ~ Below(Boundary(pops'[j]), Boundary(pops'[i]))
    BY <1>8 DEF PopsNested
  <2>1. i # n /\ i \in 1 .. Len(pops) /\ pops'[i] = pops[i]
    BY <1>2, <1>8
  <2>2. CASE j # n
    BY <1>8, <2>1, <2>2 DEF Order, PopsNested
  <2>3. CASE j = n
    BY <1>2, <1>3, <1>4, <1>8, <2>1, <2>3 DEF Order, TokensAbove
  <2> QED BY <2>2, <2>3
<1>15. TokensAscend'
  BY <1>9 DEF Order, TokensAscend
<1>16. TokensAbove'
  <2> SUFFICES ASSUME NEW i \in 1 .. Len(tokens'), NEW l \in 1 .. Len(tokens'[i]),
                      NEW j \in 1 .. n, j < i
               PROVE  ~ Below(tokens'[i][l], Boundary(pops'[j]))
    BY <1>8 DEF TokensAbove
  <2>1. i \in 1 .. n /\ j # n
    BY <1>2, <1>9
  <2> QED BY <1>8, <1>9, <2>1 DEF Order, TokensAbove
<1>17. TokensBelow'
  <2> SUFFICES ASSUME NEW i \in 1 .. Len(tokens'), NEW l \in 1 .. Len(tokens'[i]),
                      NEW j \in 1 .. n, i <= j
               PROVE  Below(tokens'[i][l], Boundary(pops'[j]))
    BY <1>8 DEF TokensBelow
  <2>1. /\ i \in 1 .. n /\ l \in 1 .. Len(tokens[i]) /\ tokens[i][l] \in Token
        /\ tokens'[i][l] = tokens[i][l] /\ (i = n => l < k)
    BY <1>9, TokensType
  <2>2. CASE j # n
    BY <1>8, <2>1, <2>2 DEF Order, TokensBelow
  <2>3. CASE j = n /\ i = n
    BY <1>3, <1>4, <1>8, <2>1, <2>3 DEF Order, TokensAscend
  <2>4. CASE j = n /\ i # n
    <3>1. i \in 1 .. Len(pops) /\ i < n
      BY <1>2, <2>1, <2>4
    <3>2. Below(tokens[i][l], Boundary(pops[i]))
      BY <2>1, <3>1 DEF Order, TokensBelow
    <3>3. ~ Below(tokens[n][k], Boundary(pops[i]))
      BY <1>2, <1>3, <3>1 DEF Order, TokensAbove
    <3>4. Boundary(pops[i]) \in Token
      BY <3>1, PopsType DEF Boundary, Token
    <3>5. Below(tokens[i][l], tokens[n][k])
      BY <1>3, <2>1, <3>2, <3>3, <3>4, BelowTransitive
    <3> QED BY <1>4, <1>8, <2>1, <2>4, <3>5
  <2> QED BY <2>2, <2>3, <2>4
<1>18. NoCodeNoTokens'
  <2> SUFFICES ASSUME NEW j \in 1 .. n, pops'[j].releasing = None PROVE tokens'[j + 1] = <<>>
    BY <1>8 DEF NoCodeNoTokens
  <2>1. CASE j = n
    BY <1>7, <2>1
  <2>2. CASE j # n
    <3>1. j \in 1 .. Len(pops) /\ pops[j].releasing = None /\ pops # <<>>
      BY <1>2, <1>8, <2>2
    <3>2. j + 1 \in 1 .. n /\ j + 1 # n
      BY <1>1, <1>2, <3>1
    <3> QED BY <1>7, <3>1, <3>2 DEF NoCodeNoTokens
  <2> QED BY <2>1, <2>2
<1>19. TopIsOutermost'
  <2> SUFFICES ASSUME NEW j \in 1 .. n, pops'[j].top PROVE j = 1 /\ tokens'[1] = <<>>
    BY <1>8 DEF TopIsOutermost
  <2>1. j # n
    BY <1>4, <1>8
  <2>2. 1 \in 1 .. n /\ 1 # n
    BY <1>2, <2>1
  <2>3. j \in 1 .. Len(pops) /\ pops'[j] = pops[j] /\ tokens'[1] = tokens[1]
    BY <1>7, <1>8, <2>1, <2>2
  <2> QED BY <2>3, Zenon DEF TopIsOutermost
<1>20. \A j \in 1 .. n : pops'[j].top \/ PopStands(pops'[j])
  <2> SUFFICES ASSUME NEW j \in 1 .. n, ~ pops'[j].top PROVE PopStands(pops'[j])
    OBVIOUS
  <2>1. CASE j # n
    <3>1. j \in 1 .. Len(pops) /\ pops'[j] = pops[j] /\ pops # <<>>
      BY <1>2, <1>8, <2>1
    <3> QED BY <1>1, <3>1 DEF BoundariesStand
  <2>2. CASE j = n
    BY <1>2, <1>3, <1>4, <1>8, <2>2 DEF PopStands, TokensInside
  <2> QED BY <2>1, <2>2
<1>21. BoundariesStand'
  BY <1>1, <1>8, <1>20 DEF BoundariesStand, PopStands
<1>22. PopsApart'
  <2>1. ASSUME NEW i \in 1 .. n, NEW j \in 1 .. n, i < j
        PROVE  pops'[i].top \/ Boundary(pops'[j]) # Boundary(pops'[i])
    <3>1. i # n /\ i \in 1 .. Len(pops) /\ pops'[i] = pops[i]
      BY <1>2, <1>8, <2>1
    <3>2. CASE j # n
      BY <1>8, <2>1, <3>1, <3>2 DEF Order, PopsApart
    <3>3. CASE j = n
      BY <1>2, <1>3, <1>4, <1>8, <2>1, <3>1, <3>3 DEF Order, PopsApart
    <3> QED BY <3>2, <3>3
  <2>2. ASSUME NEW i \in 1 .. Len(tokens'), NEW l \in 1 .. Len(tokens'[i]),
               NEW j \in 1 .. n, j < i
        PROVE  pops'[j].top \/ tokens'[i][l] # Boundary(pops'[j])
    <3>1. i \in 1 .. n /\ j # n
      BY <1>2, <1>9, <2>2
    <3> QED BY <1>8, <1>9, <2>2, <3>1 DEF Order, PopsApart
  <2> QED BY <1>8, <2>1, <2>2 DEF PopsApart
<1> QED BY <1>10, <1>11, <1>12, <1>13, <1>14, <1>15, <1>16, <1>17, <1>18, <1>19, <1>21, <1>22 DEF Order

\* The walk of releaseUntil: the page it finds is the hot one or its parent, and
\* the entry on top of it is not under the boundary of the innermost pop.
LEMMA WalkIsShort ==
  ASSUME PoolIInv, Popping, ~ Reached(Last(pops))
  PROVE  /\ pops # <<>>
         /\ HotNonEmpty \in 1 .. hot /\ ~ empty(pages[HotNonEmpty])
         /\ HotNonEmpty = hot \/ (HotNonEmpty = hot - 1 /\ empty(pages[hot]))
         /\ Last(pops).page <= HotNonEmpty
         /\ Last(pops).page = HotNonEmpty => Last(pops).stop <= Len(pages[HotNonEmpty])
<1> USE DEF PoolIInv
<1> DEFINE p == Last(pops)
<1>1. /\ pops # <<>> /\ Last(pops) = pops[Len(pops)] /\ Len(pops) \in 1 .. Len(pops)
  <2>1. pops # <<>>
    BY DEF Popping
  <2> QED BY <2>1, PopsType, EmptySeq DEF Last
<1>2. /\ p.page \in Nat \ {0} /\ p.stop \in Nat \ {0} /\ p.page <= hot
      /\ p.stop - 1 <= Len(pages[p.page])
  BY <1>1, PopsType DEF PopsInside
<1>3. Len(pages[p.page]) # p.stop - 1
  BY DEF Reached
<1> HIDE DEF p
<1>4. hot \in Nat \ {0} /\ hot \in 1 .. Len(pages) /\ p.page \in 1 .. Len(pages)
  BY <1>2, PagesType
<1>5. Len(pages[p.page]) \in Nat /\ p.stop <= Len(pages[p.page])
  <2>1. Len(pages[p.page]) \in Nat
    BY <1>4, PagesType
  <2> QED BY <1>2, <1>3, <2>1
<1>6. \A n \in 1 .. Len(pages) : empty(pages[n]) <=> Len(pages[n]) = 0
  <2> SUFFICES ASSUME NEW n \in 1 .. Len(pages) PROVE pages[n] = <<>> <=> Len(pages[n]) = 0
    BY DEF empty
  <2> QED BY PagesType, EmptySeq
<1>7. \A n \in 1 .. hot - 1 : ~ empty(pages[n])
  <2> SUFFICES ASSUME NEW n \in 1 .. hot - 1 PROVE ~ empty(pages[n])
    OBVIOUS
  <2>1. n \in DOMAIN pages /\ n < hot /\ n \in 1 .. Len(pages)
    BY <1>4, PagesType, LenProperties DEF TypeOK
  <2>2. Len(pages[n]) = PageSize
    BY <2>1 DEF HotPageSplits, full
  <2> QED BY <1>6, <2>1, <2>2, PoolAssumption
<1> DEFINE Found(i) == ~ empty(pages[i]) /\ \A j \in i + 1 .. hot : empty(pages[j])
<1>8. CASE ~ empty(pages[hot])
  <2>1. hot \in 1 .. hot /\ Found(hot)
    BY <1>4, <1>8
  <2>2. \A i \in 1 .. hot : Found(i) => i = hot
    BY <1>4, <1>8
  <2>3. HotNonEmpty = hot
    BY <2>1, <2>2 DEF HotNonEmpty
  <2> QED BY <1>1, <1>2, <1>5, <1>8, <2>1, <2>3 DEF p
<1>9. CASE empty(pages[hot])
  <2>1. p.page # hot
    BY <1>4, <1>5, <1>2, <1>6, <1>9
  <2>2. hot - 1 \in 1 .. hot /\ p.page <= hot - 1
    BY <1>2, <1>4, <2>1
  <2>3. Found(hot - 1)
    BY <1>4, <1>7, <1>9, <2>2
  <2>4. \A i \in 1 .. hot : Found(i) => i = hot - 1
    BY <1>4, <1>7, <1>9, <2>2
  <2>5. HotNonEmpty = hot - 1
    BY <2>2, <2>3, <2>4 DEF HotNonEmpty
  <2> QED BY <1>1, <1>5, <1>9, <2>2, <2>3, <2>5 DEF p
<1> QED BY <1>8, <1>9

\* One turn of releaseUntil: all that anybody counts on lies under the entry taken off.
LEMMA ReleaseOneInv ==
  ASSUME PoolIInv, releaseOne
  PROVE  PoolIInv'
<1> USE DEF PoolIInv
<1> DEFINE N == Len(pops)
           h == HotNonEmpty
           f == Front(pages[h])
           x == Last(pages[h])
           p == pops[N]
<1>1. /\ UNCHANGED <<tokens, leaked, calls, exited>> /\ hot' = h
      /\ pages' = [pages EXCEPT ![h] = f]
      /\ pops' = IF x = POOL_SENTINEL THEN pops ELSE [pops EXCEPT ![N].releasing = x]
      /\ Last(pops) = p /\ p.releasing = None
  BY DEF releaseOne, Popping, Last
<1>2. /\ pops # <<>>
      /\ h \in 1 .. hot /\ ~ empty(pages[h])
      /\ h = hot \/ (h = hot - 1 /\ empty(pages[hot]))
      /\ p.page <= h
      /\ p.page = h => p.stop <= Len(pages[h])
  BY <1>1, WalkIsShort DEF releaseOne
<1> HIDE DEF h
<1>3. N \in 1 .. N /\ N \in Nat /\ p \in Pop /\ p.page \in Nat \ {0} /\ p.stop \in Nat \ {0}
  BY <1>2, PopsType, EmptySeq
<1>4. /\ hot \in Nat /\ h \in 1 .. Len(pages) /\ Len(pages) \in Nat
      /\ pages[h] \in Seq(Entry) /\ Len(pages[h]) \in Nat \ {0}
  <2>1. hot \in Nat /\ hot <= Len(pages) /\ Len(pages) \in Nat
    BY PagesType
  <2>2. h \in 1 .. Len(pages)
    BY <1>2, <2>1
  <2> QED BY <1>2, <2>1, <2>2, PagesType, EmptySeq DEF empty
<1>5. /\ x \in Entry
      /\ f \in Seq(Entry) /\ Len(f) = Len(pages[h]) - 1
      /\ \A i \in 1 .. Len(pages[h]) - 1 : f[i] = pages[h][i]
  <2>1. x = pages[h][Len(pages[h])] /\ f = SubSeq(pages[h], 1, Len(pages[h]) - 1)
    BY DEF Last, Front
  <2>2. x \in Entry
    BY <1>4, <2>1, ElementOfSeq
  <2>3. Len(pages[h]) - 1 \in 0 .. Len(pages[h])
    BY <1>4
  <2> HIDE DEF f, x
  <2> QED BY <1>4, <2>1, <2>2, <2>3, PrefixProperties
<1> HIDE DEF f, x
<1>6. /\ pages' \in Seq(Seq(Entry)) /\ Len(pages') = Len(pages)
      /\ \A n \in 1 .. Len(pages) : n # h => pages'[n] = pages[n]
      /\ pages'[h] = f
  BY <1>1, <1>4, <1>5, ExceptSeq DEF TypeOK
<1>7. /\ pops' \in Seq(Pop) /\ PopsKept /\ Len(pops') = N
      /\ \A j \in 1 .. N : /\ pops'[j].releasing = None => pops[j].releasing = None
                           /\ pops'[j].top = pops[j].top
  <2>1. CASE x = POOL_SENTINEL
    BY <1>1, <1>3, <2>1, PopsType DEF PopsKept
  <2>2. CASE x # POOL_SENTINEL
    <3> DEFINE r == [p EXCEPT !.releasing = x]
    <3>1. /\ r \in Pop /\ r.page = p.page /\ r.stop = p.stop /\ r.top = p.top
          /\ r.releasing # None
      BY <1>3, <1>5, <2>2, PoolAssumption DEF Pop, Entry
    <3>2. pops' = [pops EXCEPT ![N] = r]
      BY <1>1, <2>2
    <3> HIDE DEF r
    <3>3. /\ pops' \in Seq(Pop) /\ Len(pops') = N
          /\ \A j \in 1 .. N : pops'[j] = IF j = N THEN r ELSE pops[j]
      BY <1>3, <3>1, <3>2, PopsType, ExceptSeq
    <3>4. PopsKept
      BY <1>3, <3>1, <3>3 DEF PopsKept
    <3>5. ASSUME NEW j \in 1 .. N
          PROVE  /\ pops'[j].releasing = None => pops[j].releasing = None
                 /\ pops'[j].top = pops[j].top
      BY <3>1, <3>3, Zenon
    <3> QED BY <3>3, <3>4, <3>5
  <2> QED BY <2>1, <2>2
<1>8. TypeOK'
  <2>1. hot' \in 0 .. Len(pages')
    BY <1>1, <1>4, <1>6
  <2> QED BY <1>1, <1>6, <1>7, <2>1, Zenon DEF TypeOK
<1>9. Order'
  <2>1. TokensKept
    BY <1>1 DEF TokensKept
  <2> QED BY <1>7, <1>8, <2>1, OrderKept
<1>10. Levels' /\ NoCodeNoTokens'
  BY <1>1, <1>7 DEF Levels, NoCodeNoTokens
<1>11. TopIsOutermost'
  BY <1>1, <1>7, Zenon DEF TopIsOutermost
<1>12. HotPageSplits'
  <2>1. DOMAIN pages = 1 .. Len(pages) /\ DOMAIN pages' = 1 .. Len(pages)
    BY <1>6, LenProperties DEF TypeOK
  <2>2. (hot = 0)' <=> (pages = <<>>)'
    BY <1>1, <1>2, <1>4, <1>6
  <2>3. ASSUME NEW i \in 1 .. Len(pages), i < h PROVE full(pages'[i])
    <3>1. i < hot /\ i # h
      BY <1>2, <1>4, <2>3
    <3> QED BY <1>6, <2>1, <3>1 DEF HotPageSplits
  <2>4. ASSUME NEW i \in 1 .. Len(pages), i > h PROVE empty(pages'[i])
    <3>1. i # h /\ (i > hot \/ (i = hot /\ empty(pages[hot])))
      BY <1>2, <1>4, <2>4
    <3> QED BY <1>6, <2>1, <3>1 DEF HotPageSplits
  <2> QED BY <1>1, <2>1, <2>2, <2>3, <2>4 DEF HotPageSplits
<1>13. NoOverflow'
  <2> SUFFICES ASSUME NEW n \in 1 .. Len(pages) PROVE Len(pages'[n]) <= PageSize
    BY <1>6 DEF NoOverflow
  <2>1. CASE n # h
    BY <1>6, <2>1 DEF NoOverflow
  <2>2. CASE n = h
    <3>1. Len(pages[h]) <= PageSize
      BY <1>4 DEF NoOverflow
    <3>2. Len(pages'[n]) = Len(pages[h]) - 1
      BY <1>5, <1>6, <2>2
    <3> QED BY <1>4, <3>1, <3>2, PoolAssumption
  <2> QED BY <2>1, <2>2
<1>14. ASSUME NEW j \in 1 .. N
       PROVE  /\ pops[j].page \in Nat \ {0} /\ pops[j].stop \in Nat \ {0}
              /\ pops[j].page <= h
              /\ pops[j].page = h => pops[j].stop <= Len(pages[h])
  <2>1. pops[j].page \in Nat \ {0} /\ pops[j].stop \in Nat \ {0} /\ h \in Nat
    BY <1>4, PopsType
  <2>2. CASE j = N
    BY <1>2, <2>1, <2>2
  <2>3. CASE j # N
    <3>1. ~ Below(Boundary(p), Boundary(pops[j]))
      BY <1>3, <2>3 DEF Order, PopsNested
    <3>2. /\ ~ (p.page < pops[j].page)
          /\ ~ (p.page = pops[j].page /\ p.stop < pops[j].stop)
      BY <3>1 DEF Below, Boundary
    <3> QED BY <1>2, <1>3, <1>4, <2>1, <3>2
  <2> QED BY <2>2, <2>3
<1>15. ASSUME NEW i \in 1 .. Len(tokens), NEW k \in 1 .. Len(tokens[i])
       PROVE  /\ tokens[i][k][1] \in Nat \ {0} /\ tokens[i][k][2] \in Nat \ {0}
              /\ tokens[i][k][1] <= h
              /\ tokens[i][k][1] = h => tokens[i][k][2] < Len(pages[h])
  <2> DEFINE a == tokens[i][k][1]
             b == tokens[i][k][2]
  <2>1. a \in Nat \ {0} /\ b \in Nat \ {0} /\ h \in Nat
    BY <1>4, TokensType
  <2>2. i \in 1 .. N
    <3>1. tokens[N + 1] = <<>> /\ Len(<<>>) = 0
      BY <1>1, <1>3 DEF NoCodeNoTokens
    <3>2. i # N + 1
      BY <3>1
    <3> QED BY <1>3, <3>2 DEF Levels
  <2>3. Below(tokens[i][k], Boundary(p))
    BY <1>3, <2>2 DEF Order, TokensBelow
  <2>4. a < p.page \/ (a = p.page /\ b < p.stop)
    BY <2>3 DEF Below, Boundary
  <2> HIDE DEF a, b
  <2>5. a <= h /\ (a = h => b < Len(pages[h]))
    BY <1>2, <1>3, <1>4, <2>1, <2>4
  <2> QED BY <2>1, <2>5 DEF a, b
<1>16. PopsInside'
  <2> SUFFICES ASSUME NEW j \in 1 .. N
               PROVE  /\ pops'[j].page <= h /\ pops'[j].stop <= PageSize
                      /\ pops'[j].stop - 1 <= Len(pages'[pops'[j].page])
    BY <1>1, <1>7 DEF PopsInside
  <2>1. pops'[j].page = pops[j].page /\ pops'[j].stop = pops[j].stop
    BY <1>7 DEF PopsKept
  <2>2. pops[j].page <= h /\ pops[j].stop <= PageSize
    BY <1>14 DEF PopsInside
  <2>3. CASE pops[j].page = h
    <3>1. Len(pages'[pops[j].page]) = Len(pages[h]) - 1
      BY <1>5, <1>6, <2>3
    <3> QED BY <1>4, <1>14, <2>1, <2>2, <2>3, <3>1
  <2>4. CASE pops[j].page # h
    <3>1. pops[j].page \in 1 .. Len(pages)
      BY <1>4, <1>14
    <3>2. pages'[pops[j].page] = pages[pops[j].page]
      BY <1>6, <2>4, <3>1
    <3> QED BY <2>1, <2>2, <3>2 DEF PopsInside
  <2> QED BY <2>3, <2>4
<1>17. TokensInside'
  <2> SUFFICES ASSUME NEW i \in 1 .. Len(tokens), NEW k \in 1 .. Len(tokens[i])
               PROVE  /\ tokens[i][k][1] <= h
                      /\ tokens[i][k][2] <= Len(pages'[tokens[i][k][1]])
                      /\ pages'[tokens[i][k][1]][tokens[i][k][2]] = POOL_SENTINEL
    BY <1>1 DEF TokensInside
  <2> DEFINE a == tokens[i][k][1]
             b == tokens[i][k][2]
  <2>1. /\ a \in Nat \ {0} /\ b \in Nat \ {0} /\ a <= h
        /\ a = h => b < Len(pages[h])
    BY <1>15
  <2>2. b <= Len(pages[a]) /\ pages[a][b] = POOL_SENTINEL
    BY DEF TokensInside
  <2> HIDE DEF a, b
  <2>3. CASE a = h
    <3>1. b \in 1 .. Len(pages[h]) - 1
      BY <1>4, <2>1, <2>3
    <3>2. f[b] = pages[h][b] /\ b <= Len(f)
      BY <1>4, <1>5, <3>1
    <3>3. pages'[a] = f
      BY <1>6, <2>3
    <3> QED BY <2>1, <2>2, <2>3, <3>2, <3>3 DEF a, b
  <2>4. CASE a # h
    <3>1. a \in 1 .. Len(pages)
      BY <1>4, <2>1
    <3>2. pages'[a] = pages[a]
      BY <1>6, <2>4, <3>1
    <3> QED BY <2>1, <2>2, <3>2 DEF a, b
  <2> QED BY <2>3, <2>4
<1>18. BoundariesStand'
  <2> SUFFICES ASSUME NEW j \in 1 .. N, ~ pops[j].top
               PROVE  \/ /\ pops[j].page <= hot' /\ pops[j].stop <= Len(pages'[pops[j].page])
                         /\ pages'[pops[j].page][pops[j].stop] = POOL_SENTINEL
                      \/ /\ j = N /\ pops'[j].releasing = None
                         /\ Len(pages'[pops[j].page]) = pops[j].stop - 1
    <3>1. \A l \in 1 .. N : /\ pops'[l].page = pops[l].page /\ pops'[l].stop = pops[l].stop
                            /\ pops'[l].top = pops[l].top
      BY <1>7 DEF PopsKept
    <3>2. SUFFICES ASSUME NEW j \in 1 .. N, ~ pops'[j].top
                   PROVE  PopStands(pops[j])' \/ (j = N /\ pops'[j].releasing = None /\ Reached(pops[j])')
      BY <1>7, Zenon DEF BoundariesStand
    <3> QED BY <3>1, <3>2 DEF PopStands, Reached
  <2> DEFINE a == pops[j].page
             b == pops[j].stop
  <2>1. a \in Nat \ {0} /\ b \in Nat \ {0} /\ a <= h /\ (a = h => b <= Len(pages[h]))
    BY <1>14
  <2>2. PopStands(pops[j])
    <3>1. ~ Reached(p)
      BY <1>1 DEF releaseOne
    <3> QED BY <3>1 DEF BoundariesStand
  <2>3. pages[a][b] = POOL_SENTINEL /\ b <= Len(pages[a])
    BY <2>2 DEF PopStands
  <2>4. CASE a # h
    <3>1. a \in 1 .. Len(pages)
      BY <1>4, <2>1
    <3>2. pages'[a] = pages[a]
      BY <1>6, <2>4, <3>1, ZenonT(40)
    <3> QED BY <1>1, <2>1, <2>3, <3>2
  <2>5. CASE a = h /\ b # Len(pages[h])
    <3>1. b \in 1 .. Len(pages[h]) - 1
      BY <1>4, <2>1, <2>5
    <3>2. f[b] = pages[h][b] /\ b <= Len(f)
      BY <1>4, <1>5, <3>1
    <3>3. pages'[a] = f
      BY <1>6, <2>5
    <3> QED BY <1>1, <2>1, <2>3, <2>5, <3>2, <3>3
  <2>6. CASE a = h /\ b = Len(pages[h])
    <3>1. j = N
      <4> SUFFICES ASSUME j # N PROVE FALSE
        OBVIOUS
      <4>1. j < N /\ j \in 1 .. N
        BY <1>3
      <4>2. ~ Below(Boundary(p), Boundary(pops[j])) /\ Boundary(p) # Boundary(pops[j])
        BY <1>3, <4>1 DEF Order, PopsNested, PopsApart
      <4>3. /\ ~ (p.page < a) /\ ~ (p.page = a /\ p.stop < b)
            /\ ~ (p.page = a /\ p.stop = b)
        BY <4>2 DEF Below, Boundary
      <4> HIDE DEF a, b
      <4> QED BY <1>2, <1>3, <1>4, <2>1, <2>6, <4>3
    <3>2. x = POOL_SENTINEL
      BY <2>3, <2>6 DEF x, Last
    <3>3. pops' = pops
      BY <1>1, <3>2
    <3>4. Len(pages'[a]) = b - 1
      BY <1>5, <1>6, <2>6
    <3> QED BY <1>1, <3>1, <3>3, <3>4
  <2> QED BY <2>4, <2>5, <2>6
<1> QED BY <1>8, <1>9, <1>10, <1>11, <1>12, <1>13, <1>16, <1>17, <1>18

\* The end of a pop: the boundary was on the hot page, which stays.
LEMMA PopDoneInv ==
  ASSUME PoolIInv, popDone
  PROVE  PoolIInv'
<1> USE DEF PoolIInv
<1> DEFINE N == Len(pops)
           p == pops[N]
<1>1. /\ UNCHANGED <<leaked, calls, exited>>
      /\ pops' = SubSeq(pops, 1, N - 1) /\ tokens' = SubSeq(tokens, 1, Len(tokens) - 1)
      /\ pops # <<>> /\ Len(pages[p.page]) = p.stop - 1
      /\ IF p.top THEN pages' = <<>> /\ hot' = 0
         ELSE pages' = SubSeq(pages, 1, Kept(p.page)) /\ hot' = p.page
  BY DEF popDone, Popping, Reached, Last, Front
<1>2. /\ N \in 1 .. N /\ N \in Nat /\ Len(tokens) = N + 1
      /\ p.page \in Nat \ {0} /\ p.stop \in Nat \ {0}
  BY <1>1, PopsType, EmptySeq DEF Levels
<1>3. /\ pops' \in Seq(Pop) /\ Len(pops') = N - 1
      /\ \A j \in 1 .. N - 1 : pops'[j] = pops[j]
  <2>1. N - 1 \in 0 .. Len(pops)
    BY <1>2
  <2>2. pops \in Seq(Pop)
    BY DEF TypeOK
  <2>3. /\ SubSeq(pops, 1, N - 1) \in Seq(Pop) /\ Len(SubSeq(pops, 1, N - 1)) = N - 1
        /\ \A j \in 1 .. N - 1 : SubSeq(pops, 1, N - 1)[j] = pops[j]
    BY <2>1, <2>2, PrefixProperties
  <2> QED BY <1>1, <2>3
<1>4. /\ tokens' \in Seq(Seq(Token)) /\ Len(tokens') = N
      /\ \A i \in 1 .. N : tokens'[i] = tokens[i]
  <2>1. Len(tokens) - 1 \in 0 .. Len(tokens) /\ Len(tokens) - 1 = N
    BY <1>2
  <2> QED BY <1>1, <2>1, TokensType, PrefixProperties
<1>5. TokensKept /\ PopsKept /\ Levels'
  BY <1>2, <1>3, <1>4 DEF TokensKept, PopsKept, Levels
<1>6. CASE p.top
  <2>1. pages' = <<>> /\ hot' = 0 /\ Len(<<>>) = 0
    BY <1>1, <1>6
  <2>2. N = 1 /\ tokens[1] = <<>>
    BY <1>2, <1>6 DEF TopIsOutermost
  <2>3. /\ Len(pops') = 0 /\ Len(tokens') = 1 /\ tokens'[1] = <<>>
        /\ \A i \in 1 .. Len(tokens') : Len(tokens'[i]) = 0
    BY <1>3, <1>4, <2>1, <2>2
  <2>4. TypeOK'
    <3>1. pages' \in Seq(Seq(Entry)) /\ hot' \in 0 .. Len(pages')
      BY <2>1
    <3> QED BY <1>1, <1>3, <1>4, <3>1, Zenon DEF TypeOK, Token
  <2>5. HotPageSplits' /\ NoOverflow'
    <3>1. DOMAIN pages' = {} /\ Len(pages') = 0
      BY <2>1
    <3> QED BY <2>1, <3>1 DEF HotPageSplits, NoOverflow
  <2>6. PopsInside' /\ TokensInside'
    BY <2>3 DEF PopsInside, TokensInside
  <2>7. Order'
    BY <1>5, <2>4, OrderKept
  <2>8. NoCodeNoTokens' /\ TopIsOutermost' /\ BoundariesStand'
    BY <2>3 DEF NoCodeNoTokens, TopIsOutermost, BoundariesStand
  <2> QED BY <1>5, <2>4, <2>5, <2>6, <2>7, <2>8
<1>7. CASE ~ p.top
  <2> DEFINE K == Kept(p.page)
  <2>1. p.page \in 1 .. Len(pages) /\ p.page \in DOMAIN pages /\ hot \in Nat /\ p.page <= hot
        /\ p.stop <= PageSize
    <3>1. p.page <= hot /\ p.stop <= PageSize
      BY <1>2 DEF PopsInside
    <3>2. p.page \in 1 .. Len(pages) /\ hot \in Nat
      BY <1>2, <3>1, PagesType
    <3>3. DOMAIN pages = 1 .. Len(pages)
      BY LenProperties DEF TypeOK
    <3> QED BY <3>1, <3>2, <3>3
  <2>2. p.page = hot
    <3> SUFFICES ASSUME p.page < hot PROVE FALSE
      BY <1>2, <2>1
    <3>1. Len(pages[p.page]) = PageSize
      BY <2>1 DEF HotPageSplits, full
    <3> QED BY <1>1, <1>2, <2>1, <3>1, PoolAssumption
  <2>3. K \in hot .. Len(pages) /\ K \in 0 .. Len(pages) /\ K \in Nat
    <3>1. hot \in 1 .. Len(pages) /\ Len(pages) \in Nat
      BY <2>1, <2>2, PagesType
    <3>2. K = hot \/ (K = hot + 1 /\ hot # Len(pages))
      BY <2>2 DEF Kept
    <3> QED BY <3>1, <3>2
  <2>4. pages' = SubSeq(pages, 1, K) /\ hot' = hot
    BY <1>1, <1>7, <2>2
  <2> HIDE DEF K
  <2>5. /\ pages' \in Seq(Seq(Entry)) /\ Len(pages') = K
        /\ \A n \in 1 .. K : pages'[n] = pages[n] /\ n \in 1 .. Len(pages)
    BY <2>3, <2>4, PrefixProperties DEF TypeOK
  <2>6. TypeOK'
    <3>1. hot' \in 0 .. Len(pages')
      BY <2>1, <2>3, <2>4, <2>5
    <3> QED BY <1>1, <1>3, <1>4, <2>5, <3>1, Zenon DEF TypeOK, Token
  <2>7. HotPageSplits'
    <3>1. DOMAIN pages' = 1 .. K /\ DOMAIN pages = 1 .. Len(pages)
      BY <2>5, LenProperties DEF TypeOK
    <3>2. (hot = 0)' <=> (pages = <<>>)'
      <4>1. hot # 0 /\ Len(pages') # 0 /\ Len(<<>>) = 0
        BY <1>2, <2>1, <2>2, <2>3, <2>5
      <4> QED BY <2>4, <4>1
    <3> QED BY <2>4, <2>5, <3>1, <3>2 DEF HotPageSplits
  <2>8. NoOverflow'
    BY <2>5 DEF NoOverflow
  <2>9. Grown
    <3>1. ASSUME NEW n \in 1 .. hot PROVE pages'[n] = pages[n] /\ Len(pages[n]) \in Nat
      BY <2>1, <2>3, <2>5, PagesType
    <3>2. hot <= hot'
      BY <2>1, <2>4
    <3> QED BY <3>1, <3>2 DEF Grown
  <2>10. PopsInside' /\ TokensInside' /\ Order'
    BY <1>5, <2>6, <2>9, InsideKept, OrderKept
  <2>11. NoCodeNoTokens'
    <3> SUFFICES ASSUME NEW j \in 1 .. N - 1, pops'[j].releasing = None PROVE tokens'[j + 1] = <<>>
      BY <1>3 DEF NoCodeNoTokens
    <3>1. j \in 1 .. N /\ j + 1 \in 1 .. N
      BY <1>2
    <3> QED BY <1>3, <1>4, <3>1 DEF NoCodeNoTokens
  <2>12. TopIsOutermost'
    <3> SUFFICES ASSUME NEW j \in 1 .. N - 1, pops'[j].top PROVE j = 1 /\ tokens'[1] = <<>>
      BY <1>3 DEF TopIsOutermost
    <3>1. j \in 1 .. N /\ 1 \in 1 .. N
      BY <1>2
    <3> QED BY <1>3, <1>4, <3>1, Zenon DEF TopIsOutermost
  <2>13. BoundariesStand'
    <3>1. \A j \in 1 .. Len(pops') : j # N
      BY <1>2, <1>3
    <3> QED BY <1>5, <2>6, <2>9, <3>1, StandingKept
  <2> QED BY <1>5, <2>6, <2>7, <2>8, <2>10, <2>11, <2>12, <2>13
<1> QED BY <1>6, <1>7

\* Every step preserves the invariant.
LEMMA NextInv == PoolIInv /\ [Next]_vars => PoolIInv'
<1> SUFFICES ASSUME PoolIInv, [Next]_vars PROVE PoolIInv'
  OBVIOUS
<1>1. CASE UNCHANGED vars
  <2>1. UNCHANGED <<pages, hot, pops, tokens>>
    BY <1>1 DEF vars
  <2>2. BoundariesStand'
    BY <2>1 DEF PoolIInv, BoundariesStand, PopStands, Reached
  <2>3. PopsApart'
    BY <2>1 DEF PoolIInv, Order, PopsApart
  <2> QED
    BY <1>1, <2>2, <2>3 DEF vars, PoolIInv, TypeOK, HotPageSplits, NoOverflow, Levels, PopsInside,
       TokensInside, Order, PopsNested, TokensAscend, TokensAbove, TokensBelow, NoCodeNoTokens,
       TopIsOutermost
<1>2. ASSUME NEW o \in Obj, autorelease(o) PROVE PoolIInv'
  BY <1>2, AutoreleaseInv
<1>3. CASE push
  BY <1>3, PushInv
<1>4. ASSUME NEW k \in 1 .. MaxCalls, pop(k) PROVE PoolIInv'
  BY <1>4, PopInv
<1>5. CASE tls_dealloc
  BY <1>5, TlsDeallocInv
<1>6. CASE releaseOne
  BY <1>6, ReleaseOneInv
<1>7. CASE released
  BY <1>7, ReleasedInv
<1>8. CASE popDone
  BY <1>8, PopDoneInv
<1> QED BY <1>1, <1>2, <1>3, <1>4, <1>5, <1>6, <1>7, <1>8 DEF Next, Done

\* The invariant holds in every state.
LEMMA SpecInv == Spec => []PoolIInv
<1> QED BY InitInv, NextInv, PTL DEF Spec

-----------------------------------------------------------------------------
(* The results.                                                                *)

\* The pages hold entries, the hot page is one of them, and no entry is written
\* past the end of one: the pages colder than the hot one are full and the hotter
\* ones are empty.
THEOREM PagesWellFormed == Spec => [](TypeOK /\ HotPageSplits /\ NoOverflow)
<1>1. PoolIInv => TypeOK /\ HotPageSplits /\ NoOverflow
  BY DEF PoolIInv
<1> QED BY SpecInv, <1>1, PTL

\* The `while` of releaseUntil can be an `if`: when the hot page is empty and the
\* boundary has not been reached, the hot page has a parent and it is not empty.
THEOREM TheWhileCanBeIf == Spec => []WhileCanBeIf
<1>1. PoolIInv => WhileCanBeIf
  <2> SUFFICES ASSUME PoolIInv, Popping, ~ Reached(Last(pops)), empty(pages[hot])
               PROVE  hot > 1 /\ ~ empty(pages[hot - 1])
    BY DEF WhileCanBeIf
  <2>1. HotNonEmpty = hot - 1 /\ HotNonEmpty \in 1 .. hot /\ ~ empty(pages[HotNonEmpty])
    BY WalkIsShort
  <2>2. hot \in Nat
    BY PagesType DEF PoolIInv
  <2> QED BY <2>1, <2>2
<1> QED BY SpecInv, <1>1, PTL

\* Tokens stay valid: whatever the releases of a pop autorelease, push and pop, a
\* token that anybody holds is the address of a boundary, and so is, until it is
\* reached, the address that each pop in progress was given.
THEOREM TokensStayValid == Spec => []TokensValid
<1>1. PoolIInv => TokensValid
  <2> SUFFICES ASSUME PoolIInv PROVE TokensValid
    OBVIOUS
  <2> USE DEF PoolIInv
  <2>1. DOMAIN tokens = 1 .. Len(tokens) /\ DOMAIN pops = 1 .. Len(pops)
        /\ DOMAIN pages = 1 .. Len(pages)
    BY TokensType, PopsType, LenProperties DEF TypeOK
  <2>2. \A i \in 1 .. Len(tokens) : DOMAIN tokens[i] = 1 .. Len(tokens[i])
    BY TokensType, LenProperties
  <2>3. \A i \in 1 .. Len(tokens) : \A k \in 1 .. Len(tokens[i]) :
           IsBoundary(tokens[i][k][1], tokens[i][k][2])
    <3> SUFFICES ASSUME NEW i \in 1 .. Len(tokens), NEW k \in 1 .. Len(tokens[i])
                 PROVE  IsBoundary(tokens[i][k][1], tokens[i][k][2])
      OBVIOUS
    <3> DEFINE a == tokens[i][k][1]
               b == tokens[i][k][2]
    <3>1. /\ a \in Nat \ {0} /\ b \in Nat \ {0} /\ a <= hot /\ b <= Len(pages[a])
          /\ pages[a][b] = POOL_SENTINEL
      BY TokensType DEF TokensInside
    <3> HIDE DEF a, b
    <3>2. a \in 1 .. hot /\ a \in 1 .. Len(pages) /\ Len(pages[a]) \in Nat
      BY <3>1, PagesType
    <3> QED BY <3>1, <3>2 DEF IsBoundary, a, b
  <2>4. \A i \in 1 .. Len(pops) :
           pops[i].top \/ Reached(pops[i]) \/ IsBoundary(pops[i].page, pops[i].stop)
    BY PopsType, PagesType DEF BoundariesStand, PopStands, IsBoundary
  <2> QED BY <2>1, <2>2, <2>3, <2>4, Zenon DEF TokensValid
<1> QED BY SpecInv, <1>1, PTL

\* Between pops the list has one page to spare at most: an autorelease or a push
\* takes a new page only when the hot one is full and there is no child, and the
\* end of a pop leaves at most one child of the page it makes hot.
LEMMA SpareInv ==
  ASSUME PoolIInv, PoolIInv', OneSparePage, [Next]_vars
  PROVE  OneSparePage'
<1> USE DEF PoolIInv
<1>1. ASSUME NEW x \in Entry, AddTo(x), UNCHANGED pops PROVE OneSparePage'
  <2> SUFFICES ASSUME pops = <<>> PROVE Len(pages') <= hot' + 1
    BY <1>1 DEF OneSparePage
  <2>1. Len(pages) <= hot + 1 /\ hot \in Nat /\ Len(pages) \in Nat
    BY PagesType DEF OneSparePage
  <2>2. DOMAIN pages = 1 .. Len(pages) /\ pages \in Seq(Seq(Entry)) /\ <<x>> \in Seq(Entry)
    BY LenProperties DEF TypeOK
  <2>3. CASE /\ hot # 0 /\ hot' = hot
             /\ pages' = [pages EXCEPT ![hot] = Append(pages[hot], x)]
    <3>1. hot \in 1 .. Len(pages) /\ Append(pages[hot], x) \in Seq(Entry)
      BY <2>3, PagesType, AppendProperties
    <3>2. Len(pages') = Len(pages)
      BY <2>2, <2>3, <3>1, ExceptSeq
    <3> QED BY <2>1, <2>3, <3>2
  <2>4. CASE hot' = hot + 1 /\ pages' = Append(pages, <<x>>) /\ Len(pages) = hot
    <3>1. Len(pages') = Len(pages) + 1
      BY <2>2, <2>4, AppendProperties
    <3> QED BY <2>1, <2>4, <3>1
  <2>5. CASE /\ hot' = hot + 1 /\ Len(pages) > hot
             /\ pages' = [pages EXCEPT ![hot + 1] = <<x>>]
    <3>1. hot + 1 \in 1 .. Len(pages)
      BY <2>1, <2>5
    <3>2. Len(pages') = Len(pages)
      BY <2>2, <2>5, <3>1, ExceptSeq
    <3> QED BY <2>1, <2>5, <3>2
  <2> QED BY <1>1, <2>3, <2>4, <2>5, AddInPlace
<1>2. CASE UNCHANGED <<pages, hot, pops>>
  BY <1>2 DEF OneSparePage
<1>3. CASE pops' # <<>>
  BY <1>3 DEF OneSparePage
<1>4. ASSUME NEW o \in Obj, autorelease(o) PROVE OneSparePage'
  <2>1. CASE hot = 0
    BY <1>2, <1>4, <2>1 DEF autorelease
  <2>2. CASE hot # 0
    BY <1>1, <1>4, <2>2 DEF autorelease, AddTo, Entry
  <2> QED BY <2>1, <2>2
<1>5. CASE push
  BY <1>1, <1>5 DEF push, AddTo, Entry
<1>6. ASSUME NEW k \in 1 .. MaxCalls, pop(k) PROVE OneSparePage'
  <2> DEFINE p == [page |-> Last(tokens)[k][1], stop |-> Last(tokens)[k][2],
                   top |-> FALSE, releasing |-> None]
  <2>1. pops' = Append(pops, p)
    BY <1>6 DEF pop
  <2>2. p \in Pop
    <3>1. /\ Last(tokens) = tokens[Len(tokens)] /\ k \in DOMAIN Last(tokens)
          /\ Len(tokens) \in 1 .. Len(tokens)
      BY <1>6, PopsType, TokensType DEF pop, Last, Levels
    <3>2. Last(tokens)[k][1] \in Nat \ {0} /\ Last(tokens)[k][2] \in Nat \ {0}
      BY <3>1, TokensType, LenProperties
    <3> QED BY <3>2 DEF Pop
  <2> HIDE DEF p
  <2> QED BY <1>3, <2>1, <2>2, PopsType, AppendProperties
<1>7. CASE tls_dealloc
  <2>1. CASE hot = 0
    BY <1>2, <1>7, <2>1 DEF tls_dealloc
  <2>2. CASE hot # 0
    BY <1>3, <1>7, <2>2 DEF tls_dealloc
  <2> QED BY <2>1, <2>2
<1>8. CASE releaseOne \/ released
  <2>1. pops # <<>> /\ Len(tokens) = Len(pops) + 1 /\ Len(tokens') = Len(tokens)
        /\ Len(pops) \in Nat /\ Len(pops) # 0
    <3>1. pops # <<>>
      BY <1>8 DEF releaseOne, Popping, released
    <3>2. Len(tokens') = Len(tokens)
      <4>1. CASE releaseOne
        BY <4>1 DEF releaseOne
      <4>2. CASE released
        <5>1. Len(tokens) \in 1 .. Len(tokens) /\ <<>> \in Seq(Token)
          BY PopsType, TokensType DEF Levels
        <5> QED BY <4>2, <5>1, TokensType, ExceptSeq DEF released
      <4> QED BY <1>8, <4>1, <4>2
    <3> QED BY <3>1, <3>2, PopsType, EmptySeq DEF Levels
  <2>2. Len(pops') = Len(pops)
    <3>1. Len(tokens') = Len(pops') + 1 /\ Len(pops') \in Nat
      BY LenProperties DEF Levels, TypeOK
    <3> QED BY <2>1, <3>1
  <2> QED BY <1>3, <2>1, <2>2
<1>9. CASE popDone
  <2> DEFINE p == Last(pops)
  <2>1. CASE p.top
    <3>1. Len(pages') = 0 /\ hot' = 0
      BY <1>9, <2>1 DEF popDone
    <3> QED BY <3>1 DEF OneSparePage
  <2>2. CASE ~ p.top
    <3>1. pages' = SubSeq(pages, 1, Kept(p.page)) /\ hot' = p.page /\ pops # <<>>
      BY <1>9, <2>2 DEF popDone, Popping
    <3>2. p = pops[Len(pops)] /\ Len(pops) \in 1 .. Len(pops)
      BY <3>1, PopsType, EmptySeq DEF Last
    <3>3. p.page \in 1 .. Len(pages) /\ Len(pages) \in Nat
      BY <3>2, PopsType, PagesType DEF PopsInside
    <3>4. Kept(p.page) \in 0 .. Len(pages) /\ Kept(p.page) <= p.page + 1
      BY <3>3 DEF Kept
    <3>5. Len(pages') = Kept(p.page)
      BY <3>1, <3>4, PrefixProperties DEF TypeOK
    <3> QED BY <3>1, <3>4, <3>5 DEF OneSparePage
  <2> QED BY <2>1, <2>2
<1> QED BY <1>2, <1>4, <1>5, <1>6, <1>7, <1>8, <1>9 DEF Next, Done, vars

\* The pages are full up to the hot one and empty beyond it, and between pops one
\* empty page at most lies there, however high the pool was and whatever the
\* released objects did to it.
THEOREM PagesStayConsistent == Spec => []PagesConsistent
<1>1. Init => OneSparePage
  BY DEF Init, OneSparePage
<1>2. PoolIInv /\ OneSparePage => PagesConsistent
  BY DEF PoolIInv, PagesConsistent
<1> QED BY SpecInv, SpareInv, <1>1, <1>2, PTL DEF Spec

-----------------------------------------------------------------------------
(* The stack that the list of pages implements.                                *)

\* How many entries are colder than position i of page n of a list of pages.
HeightIn(s, n, i) == Len(Joined(s, n - 1)) + i

\* The heights of the boundaries of a sequence of pops.
StopsOf(ps, s) == [j \in 1 .. Len(ps) |-> HeightIn(s, ps[j].page, ps[j].stop)]

\* What the pages hold, up to the hot one and up to the one before it.
LEMMA StackIs ==
  ASSUME TypeOK, HotPageSplits
  PROVE  /\ FlattenSeq(pages) = Joined(pages, hot)
         /\ hot = 0 => Joined(pages, hot) = <<>>
         /\ \A n \in 0 .. Len(pages) : Joined(pages, n) \in Seq(Entry) /\ Len(Joined(pages, n)) \in Nat
         /\ \A n \in 1 .. Len(pages) :
              /\ Joined(pages, n) = Joined(pages, n - 1) \o pages[n]
              /\ n - 1 \in 0 .. Len(pages)
              /\ Len(Joined(pages, n)) = Len(Joined(pages, n - 1)) + Len(pages[n])
<1>1. /\ pages \in Seq(Seq(Entry)) /\ hot \in 0 .. Len(pages) /\ Len(pages) \in Nat
      /\ DOMAIN pages = 1 .. Len(pages)
  BY PagesType, LenProperties DEF TypeOK
<1>2. ASSUME NEW i \in hot + 1 .. Len(pages) PROVE pages[i] = <<>>
  <2>1. i \in DOMAIN pages /\ i > hot
    BY <1>1
  <2> QED BY <2>1 DEF HotPageSplits, empty
<1>3. Joined(pages, Len(pages)) = Joined(pages, hot)
  <2>1. Len(pages) \in hot .. Len(pages)
    BY <1>1
  <2> QED BY <1>1, <1>2, <2>1, JoinedEmpties, SMTT(30)
<1>4. FlattenSeq(pages) = Joined(pages, Len(pages))
  BY <1>1, JoinedAll
<1>5. Joined(pages, 0) = <<>>
  BY <1>1, JoinedNone
<1>6. \A n \in 0 .. Len(pages) : Joined(pages, n) \in Seq(Entry) /\ Len(Joined(pages, n)) \in Nat
  BY <1>1, JoinedType
<1>7. ASSUME NEW n \in 1 .. Len(pages)
      PROVE  /\ Joined(pages, n) = Joined(pages, n - 1) \o pages[n]
             /\ n - 1 \in 0 .. Len(pages)
             /\ Len(Joined(pages, n)) = Len(Joined(pages, n - 1)) + Len(pages[n])
  <2>1. Joined(pages, n) = Joined(pages, n - 1) \o pages[n]
    BY <1>1, JoinedStep
  <2>2. n - 1 \in 0 .. Len(pages)
    BY <1>1
  <2>3. PICK a \in Seq(Entry) : a = Joined(pages, n - 1)
    BY <1>6, <2>2
  <2>4. PICK b \in Seq(Entry) : b = pages[n]
    BY PagesType
  <2>5. Len(a \o b) = Len(a) + Len(b)
    BY ConcatProperties
  <2> QED BY <2>1, <2>2, <2>3, <2>4, <2>5
<1> QED BY <1>3, <1>4, <1>5, <1>6, <1>7

\* An entry is found at its height.
LEMMA EntryAt ==
  ASSUME TypeOK, HotPageSplits, NEW n \in 1 .. Len(pages), NEW i \in 1 .. Len(pages[n])
  PROVE  /\ HeightIn(pages, n, i) \in 1 .. Len(FlattenSeq(pages))
         /\ FlattenSeq(pages)[HeightIn(pages, n, i)] = pages[n][i]
<1>1. /\ pages \in Seq(Seq(Entry)) /\ Len(pages) \in Nat /\ n \in 0 .. Len(pages)
      /\ Len(pages) \in n .. Len(pages)
  BY PagesType DEF TypeOK
<1>2. PICK a \in Seq(Entry) : a = Joined(pages, n - 1) /\ Len(a) \in Nat
  BY StackIs
<1>3. PICK b \in Seq(Entry) : b = pages[n] /\ Len(b) \in Nat
  BY PagesType
<1>4. Joined(pages, n) = a \o b
  BY <1>2, <1>3, StackIs
<1>11. Len(a \o b) = Len(a) + Len(b) /\ Len(a \o b) \in Nat
  <2>1. Len(a \o b) = Len(a) + Len(b)
    BY ConcatProperties
  <2>2. Len(a \o b) \in Nat
    BY ConcatProperties, LenProperties
  <2> QED BY <2>1, <2>2
<1>5. /\ \A k \in 1 .. Len(a) + Len(b) : (a \o b)[k] = IF k <= Len(a) THEN a[k] ELSE b[k - Len(a)]
  BY ConcatProperties
<1>6. PICK k : k = Len(a) + i
  OBVIOUS
<1>7. /\ k \in 1 .. Len(a \o b) /\ (a \o b)[k] = b[i]
  BY <1>2, <1>3, <1>5, <1>6, <1>11
<1>8. PICK c : c = FlattenSeq(pages) /\ c = Joined(pages, Len(pages))
  BY <1>1, JoinedAll
<1>9. Len(a \o b) <= Len(c) /\ \A m \in 1 .. Len(a \o b) : c[m] = (a \o b)[m]
  <2>1. Begins(Joined(pages, Len(pages)), Joined(pages, n))
    BY <1>1, JoinedBegins
  <2>2. Begins(c, a \o b)
    BY <1>4, <1>8, <2>1
  <2> QED BY <2>2 DEF Begins
<1>10. Len(c) \in Nat
  BY <1>1, <1>8, StackIs
<1>12. k \in 1 .. Len(c) /\ c[k] = b[i]
  BY <1>7, <1>9, <1>10, <1>11
<1> QED BY <1>2, <1>3, <1>6, <1>8, <1>12 DEF HeightIn

\* Higher addresses are at greater heights.
LEMMA HeightsOrdered ==
  ASSUME TypeOK, HotPageSplits, NEW m \in 1 .. Len(pages), NEW n \in 1 .. Len(pages),
         NEW i \in Nat \ {0}, NEW j \in Nat \ {0}, i - 1 <= Len(pages[m]),
         ~ Below(<<n, j>>, <<m, i>>)
  PROVE  HeightIn(pages, m, i) <= HeightIn(pages, n, j)
<1>1. m < n \/ (m = n /\ i <= j)
  BY PagesType DEF Below
<1>2. /\ Len(pages[m]) \in Nat /\ m - 1 \in 0 .. Len(pages) /\ n - 1 \in 0 .. Len(pages)
      /\ m \in 0 .. Len(pages) /\ Len(pages) \in Nat
  BY PagesType
<1>3. /\ Len(Joined(pages, m - 1)) \in Nat /\ Len(Joined(pages, n - 1)) \in Nat
      /\ Len(Joined(pages, m)) = Len(Joined(pages, m - 1)) + Len(pages[m])
  BY <1>2, StackIs
<1>4. CASE m < n
  <2>1. n - 1 \in m .. Len(pages)
    BY <1>2, <1>4
  <2>2. pages \in Seq(Seq(Entry))
    BY DEF TypeOK
  <2>3. Len(Joined(pages, m)) <= Len(Joined(pages, n - 1))
    <3>1. Begins(Joined(pages, n - 1), Joined(pages, m))
      BY <1>2, <2>1, <2>2, JoinedBegins
    <3> QED BY <3>1 DEF Begins
  <2>4. PICK x \in Nat, y \in Nat, z \in Nat :
          x = Len(Joined(pages, m - 1)) /\ y = Len(pages[m]) /\ z = Len(Joined(pages, n - 1))
    BY <1>2, <1>3
  <2>5. x + y <= z /\ i - 1 <= y /\ 1 <= j
    <3>1. PICK e \in Nat : e = Len(Joined(pages, m))
      BY <1>2, StackIs
    <3>2. e = x + y
      BY <1>3, <2>4, <3>1
    <3>3. e <= z
      BY <2>3, <2>4, <3>1
    <3>4. i - 1 <= y
      BY <2>4
    <3> QED BY <3>2, <3>3, <3>4
  <2>6. x + i <= z + j
    BY <2>5
  <2> QED BY <2>4, <2>6 DEF HeightIn
<1> QED BY <1>1, <1>3, <1>4 DEF HeightIn

\* The last element of a concatenation is the last of what was appended.
LEMMA ConcatAppend ==
  ASSUME NEW S, NEW a \in Seq(S), NEW b \in Seq(S), NEW x \in S
  PROVE  a \o Append(b, x) = Append(a \o b, x)
<1>1. <<x>> \in Seq(S) /\ a \o b \in Seq(S)
  BY ConcatProperties
<1>2. Append(b, x) = b \o <<x>> /\ Append(a \o b, x) = (a \o b) \o <<x>>
  BY <1>1, AppendIsConcat
<1> QED BY <1>1, <1>2, ConcatAssociative

LEMMA ConcatFront ==
  ASSUME NEW S, NEW a \in Seq(S), NEW b \in Seq(S), b # <<>>
  PROVE  a \o Front(b) = Front(a \o b)
<1>1. Len(a) \in Nat /\ Len(b) \in Nat \ {0}
  BY EmptySeq, LenProperties
<1>2. /\ Front(b) \in Seq(S) /\ Len(Front(b)) = Len(b) - 1
      /\ \A i \in 1 .. Len(b) - 1 : Front(b)[i] = b[i]
  <2>1. Len(b) - 1 \in 0 .. Len(b)
    BY <1>1
  <2> QED BY <2>1, PrefixProperties DEF Front
<1>3. PICK m \in Nat, n \in Nat \ {0} : m = Len(a) /\ n = Len(b)
  BY <1>1
<1>4. PICK c \in Seq(S) : c = a \o b
  BY ConcatProperties
<1>5. Len(c) = m + n /\ \A i \in 1 .. m + n : c[i] = IF i <= m THEN a[i] ELSE b[i - m]
  BY <1>3, <1>4, ConcatProperties
<1>6. /\ Front(c) \in Seq(S) /\ Len(Front(c)) = m + n - 1
      /\ \A i \in 1 .. m + n - 1 : Front(c)[i] = c[i]
  <2>1. Len(c) - 1 \in 0 .. Len(c) /\ Len(c) - 1 = m + n - 1
    BY <1>5
  <2> QED BY <2>1, PrefixProperties DEF Front
<1>7. PICK d \in Seq(S) : d = Front(b)
  BY <1>2
<1>8. Len(d) = n - 1 /\ \A i \in 1 .. n - 1 : d[i] = b[i]
  BY <1>2, <1>3, <1>7
<1>9. /\ a \o d \in Seq(S) /\ Len(a \o d) = m + n - 1
      /\ \A i \in 1 .. m + n - 1 : (a \o d)[i] = IF i <= m THEN a[i] ELSE d[i - m]
  <2>1. a \o d \in Seq(S) /\ Len(a \o d) = Len(a) + Len(d)
    BY ConcatProperties
  <2>2. \A i \in 1 .. Len(a) + Len(d) : (a \o d)[i] = IF i <= Len(a) THEN a[i] ELSE d[i - Len(a)]
    BY ConcatProperties
  <2>3. Len(a) = m /\ Len(a) + Len(d) = m + n - 1
    BY <1>3, <1>8
  <2> QED BY <2>1, <2>2, <2>3
<1>10. ASSUME NEW i \in 1 .. m + n - 1 PROVE (a \o d)[i] = Front(c)[i]
  <2>1. i \in 1 .. m + n /\ (i <= m \/ i - m \in 1 .. n - 1)
    OBVIOUS
  <2>2. Front(c)[i] = IF i <= m THEN a[i] ELSE b[i - m]
    BY <1>5, <1>6, <2>1
  <2>3. (a \o d)[i] = IF i <= m THEN a[i] ELSE d[i - m]
    BY <1>9
  <2> QED BY <1>8, <2>1, <2>2, <2>3
<1>11. a \o d = Front(c)
  <2> DEFINE e == a \o d
             g == Front(c)
  <2>1. /\ e \in Seq(S) /\ g \in Seq(S) /\ Len(e) = Len(g)
        /\ \A i \in 1 .. Len(e) : e[i] = g[i]
    BY <1>6, <1>9, <1>10
  <2> HIDE DEF e, g
  <2>2. e = g
    BY <2>1, SeqEqual
  <2> QED BY <2>2 DEF e, g
<1> QED BY <1>4, <1>7, <1>11

\* The heights of a refinement's boundaries.
LEMMA StopsAre ==
  ASSUME NEW ps \in Seq(Pop), NEW s
  PROVE  /\ DOMAIN ps = 1 .. Len(ps) /\ DOMAIN StopsOf(ps, s) = 1 .. Len(ps)
         /\ StopsOf(ps, s) = [i \in DOMAIN ps |-> HeightIn(s, ps[i].page, ps[i].stop)]
         /\ Len(StopsOf(ps, s)) = Len(ps)
<1>1. Len(ps) \in Nat /\ DOMAIN ps = 1 .. Len(ps)
  BY LenProperties
<1> QED BY <1>1 DEF StopsOf

\* The stops of the stack, in this state and in the next one.
LEMMA StackStops ==
  ASSUME TypeOK, TypeOK'
  PROVE  /\ [i \in DOMAIN pops |-> Height(pops[i].page, pops[i].stop)] = StopsOf(pops, pages)
         /\ [i \in DOMAIN pops |-> Height(pops[i].page, pops[i].stop)]' = StopsOf(pops', pages')
<1>1. pops \in Seq(Pop) /\ pops' \in Seq(Pop)
  BY DEF TypeOK
<1>2. [i \in DOMAIN pops |-> Height(pops[i].page, pops[i].stop)] = StopsOf(pops, pages)
  BY <1>1, StopsAre DEF Height, HeightIn, Joined
<1>3. [i \in DOMAIN pops |-> Height(pops[i].page, pops[i].stop)]' = StopsOf(pops', pages')
  BY <1>1, StopsAre DEF Height, HeightIn, Joined
<1> QED BY <1>2, <1>3

\* The contents of the stack in the next state.
LEMMA StackThen ==
  ASSUME TypeOK', HotPageSplits'
  PROVE  FlattenSeq(pages') = Joined(pages', hot')
<1>1. PICK s : s = pages'
  OBVIOUS
<1>2. PICK h : h = hot'
  OBVIOUS
<1>3. s \in Seq(Seq(Entry)) /\ h \in 0 .. Len(s)
  BY <1>1, <1>2 DEF TypeOK
<1>4. DOMAIN s = 1 .. Len(s) /\ Len(s) \in Nat
  BY <1>3, LenProperties
<1>5. \A i \in DOMAIN s : i > h => s[i] = <<>>
  BY <1>1, <1>2 DEF HotPageSplits, empty
<1>6. ASSUME NEW i \in h + 1 .. Len(s) PROVE s[i] = <<>>
  <2>1. i \in DOMAIN s /\ i > h
    BY <1>3, <1>4
  <2> QED BY <1>5, <2>1
<1>7. Joined(s, Len(s)) = Joined(s, h)
  <2>1. Len(s) \in h .. Len(s)
    BY <1>3, <1>4
  <2> QED BY <1>3, <1>6, <2>1, JoinedEmpties
<1>8. FlattenSeq(s) = Joined(s, Len(s))
  BY <1>3, JoinedAll
<1> QED BY <1>1, <1>2, <1>7, <1>8

\* The heights of what is no hotter than the first page that changes.
LEMMA HeightsKept ==
  ASSUME TypeOK, TypeOK', NEW n \in Nat \ {0}, n - 1 <= Len(pages), n - 1 <= Len(pages'),
         \A i \in 1 .. n - 1 : pages'[i] = pages[i]
  PROVE  /\ Joined(pages', n - 1) = Joined(pages, n - 1)
         /\ \A i : HeightIn(pages', n, i) = HeightIn(pages, n, i)
<1>1. pages \in Seq(Seq(Entry)) /\ pages' \in Seq(Seq(Entry)) /\ n - 1 \in Nat
  BY DEF TypeOK
<1>2. Joined(pages', n - 1) = Joined(pages, n - 1)
  BY <1>1, JoinedSame
<1> QED BY <1>2 DEF HeightIn

\* The pops in progress keep their heights when only the pages from the hot one
\* on, or from the next one on, change.
LEMMA StopsKept ==
  ASSUME TypeOK, TypeOK', NEW h \in Nat, NEW N \in Nat, N <= Len(pops), h - 1 <= Len(pages),
         h - 1 <= Len(pages'),
         \A j \in 1 .. N : pops[j].page <= h,
         \A i \in 1 .. h - 1 : pages'[i] = pages[i]
  PROVE  \A j \in 1 .. N : HeightIn(pages', pops[j].page, pops[j].stop)
                           = HeightIn(pages, pops[j].page, pops[j].stop)
<1> SUFFICES ASSUME NEW j \in 1 .. N
             PROVE  HeightIn(pages', pops[j].page, pops[j].stop)
                    = HeightIn(pages, pops[j].page, pops[j].stop)
  OBVIOUS
<1>1. pops[j].page \in Nat \ {0} /\ pops[j].page <= h
  BY PopsType
<1>2. PICK n \in Nat \ {0} : n = pops[j].page
  BY <1>1
<1>3. Len(pages) \in Nat /\ Len(pages') \in Nat
  BY LenProperties DEF TypeOK
<1>4. n <= h /\ n - 1 <= Len(pages) /\ n - 1 <= Len(pages') /\ \A i \in 1 .. n - 1 : i \in 1 .. h - 1
  BY <1>1, <1>2, <1>3
<1>5. \A i : HeightIn(pages', n, i) = HeightIn(pages, n, i)
  BY <1>4, HeightsKept
<1> QED BY <1>2, <1>5

\* Two sequences of pops at the same heights are the same stops.
LEMMA StopsSame ==
  ASSUME NEW ps, NEW qs, NEW s, NEW t, Len(ps) = Len(qs),
         \A j \in 1 .. Len(ps) : HeightIn(s, ps[j].page, ps[j].stop) = HeightIn(t, qs[j].page, qs[j].stop)
  PROVE  StopsOf(ps, s) = StopsOf(qs, t)
BY DEF StopsOf

\* An autorelease or a push adds its entry on top of the stack.
LEMMA AddMaps ==
  ASSUME PoolIInv, PoolIInv', NEW x \in Entry, AddTo(x), UNCHANGED pops
  PROVE  Stack!Add(x)
<1> USE DEF PoolIInv
<1>1. /\ hot \in Nat /\ hot <= Len(pages) /\ Len(pages) \in Nat
      /\ DOMAIN pages = 1 .. Len(pages) /\ pages \in Seq(Seq(Entry)) /\ <<x>> \in Seq(Entry)
  BY PagesType, LenProperties DEF TypeOK
<1>2. \A n \in 0 .. Len(pages) : Joined(pages, n) \in Seq(Entry)
  BY StackIs
<1>3. FlattenSeq(pages') = Append(FlattenSeq(pages), x)
        /\ \A i \in 1 .. hot - 1 : pages'[i] = pages[i]
        /\ Len(pages') \in Nat /\ hot - 1 <= Len(pages')
  <2>1. CASE /\ hot # 0 /\ hot' = hot
             /\ pages' = [pages EXCEPT ![hot] = Append(pages[hot], x)]
    <3>1. PICK b \in Seq(Entry) : b = pages[hot]
      BY <1>1, <2>1, PagesType
    <3>2. hot \in 1 .. Len(pages) /\ Append(b, x) \in Seq(Entry) /\ hot \in Nat \ {0}
      BY <1>1, <2>1, AppendProperties
    <3>3. /\ pages' \in Seq(Seq(Entry)) /\ Len(pages') = Len(pages)
          /\ \A n \in 1 .. Len(pages) : pages'[n] = IF n = hot THEN Append(b, x) ELSE pages[n]
      BY <1>1, <2>1, <3>1, <3>2, ExceptSeq
    <3>4. pages'[hot] = Append(b, x) /\ \A i \in 1 .. hot - 1 : pages'[i] = pages[i]
      <4>1. ASSUME NEW i \in 1 .. hot - 1 PROVE i \in 1 .. Len(pages) /\ i # hot
        BY <1>1
      <4> QED BY <3>2, <3>3, <4>1
    <3>5. Joined(pages', hot - 1) = Joined(pages, hot - 1)
      <4>1. PICK n \in Nat \ {0} : n = hot
        BY <3>2
      <4>2. n - 1 <= Len(pages) /\ n - 1 <= Len(pages')
            /\ \A i \in 1 .. n - 1 : pages'[i] = pages[i]
        BY <1>1, <3>3, <3>4, <4>1
      <4>3. Joined(pages', n - 1) = Joined(pages, n - 1)
        BY <4>2, HeightsKept
      <4> QED BY <4>1, <4>3
    <3>6. PICK a \in Seq(Entry) : a = Joined(pages, hot - 1)
      BY <1>1, <1>2, <3>2
    <3>7. Joined(pages, hot) = a \o b
      BY <3>1, <3>2, <3>6, StackIs
    <3>8. Joined(pages', hot) = a \o Append(b, x)
      <4>1. hot \in 1 .. Len(pages')
        BY <3>2, <3>3
      <4> QED BY <3>3, <3>4, <3>5, <3>6, <4>1, JoinedStep
    <3>9. a \o Append(b, x) = Append(a \o b, x)
      BY ConcatAppend
    <3>10. FlattenSeq(pages) = a \o b /\ FlattenSeq(pages') = a \o Append(b, x)
      BY <2>1, <3>7, <3>8, StackIs, StackThen
    <3> QED BY <1>1, <3>3, <3>4, <3>9, <3>10
  <2>2. CASE /\ hot' = hot + 1 /\ pages'[hot + 1] = <<x>>
             /\ \/ pages' = Append(pages, <<x>>) /\ Len(pages) = hot
                \/ pages' = [pages EXCEPT ![hot + 1] = <<x>>] /\ Len(pages) > hot
    <3>1. /\ pages' \in Seq(Seq(Entry)) /\ Len(pages') \in Nat /\ hot + 1 <= Len(pages')
          /\ \A n \in 1 .. hot : pages'[n] = pages[n]
      <4>1. CASE pages' = Append(pages, <<x>>) /\ Len(pages) = hot
        BY <1>1, <4>1, AppendProperties
      <4>2. CASE pages' = [pages EXCEPT ![hot + 1] = <<x>>] /\ Len(pages) > hot
        <5>1. hot + 1 \in 1 .. Len(pages)
          BY <1>1, <4>2
        <5> QED BY <1>1, <4>2, <5>1, ExceptSeq
      <4> QED BY <2>2, <4>1, <4>2
    <3>2. PICK n \in Nat \ {0} : n = hot + 1 /\ n - 1 = hot
      BY <1>1
    <3>3. Joined(pages', n - 1) = Joined(pages, n - 1)
      <4>1. n - 1 <= Len(pages) /\ n - 1 <= Len(pages')
            /\ \A i \in 1 .. n - 1 : pages'[i] = pages[i]
        BY <1>1, <3>1, <3>2
      <4> QED BY <4>1, HeightsKept
    <3>4. PICK a \in Seq(Entry) : a = Joined(pages, hot)
      BY <1>1, <1>2
    <3>5. Joined(pages', n) = Joined(pages', n - 1) \o pages'[n]
      <4>1. n \in 1 .. Len(pages')
        BY <3>1, <3>2
      <4> QED BY <3>1, <4>1, JoinedStep
    <3>6. a \o <<x>> = Append(a, x)
      BY AppendIsConcat
    <3>7. FlattenSeq(pages) = a /\ FlattenSeq(pages') = a \o <<x>>
      BY <2>2, <3>2, <3>3, <3>4, <3>5, StackIs, StackThen
    <3>8. (\A i \in 1 .. hot - 1 : pages'[i] = pages[i]) /\ hot - 1 <= Len(pages')
      <4>1. ASSUME NEW i \in 1 .. hot - 1 PROVE i \in 1 .. hot
        BY <1>1
      <4>2. hot - 1 <= Len(pages')
        BY <1>1, <3>1
      <4> QED BY <3>1, <4>1, <4>2
    <3> QED BY <3>1, <3>6, <3>7, <3>8
  <2> QED BY <2>1, <2>2, AddInPlace
<1>4. StopsOf(pops', pages') = StopsOf(pops, pages)
  <2>1. Len(pops) \in Nat /\ Len(pops) <= Len(pops) /\ hot - 1 <= Len(pages)
    BY <1>1, PopsType
  <2>2. \A j \in 1 .. Len(pops) : pops[j].page <= hot
    BY DEF PopsInside
  <2>3. \A j \in 1 .. Len(pops) : HeightIn(pages', pops[j].page, pops[j].stop)
                                  = HeightIn(pages, pops[j].page, pops[j].stop)
    <3>1. PICK h \in Nat, N \in Nat : h = hot /\ N = Len(pops)
      BY <1>1, <2>1
    <3>2. N <= Len(pops) /\ h - 1 <= Len(pages) /\ h - 1 <= Len(pages')
      BY <1>3, <2>1, <3>1
    <3>3. \A i \in 1 .. h - 1 : pages'[i] = pages[i]
      BY <1>3, <3>1
    <3>4. \A j \in 1 .. N : pops[j].page <= h
      BY <2>2, <3>1
    <3>5. \A j \in 1 .. N : HeightIn(pages', pops[j].page, pops[j].stop)
                             = HeightIn(pages, pops[j].page, pops[j].stop)
      BY <3>2, <3>3, <3>4, StopsKept
    <3> QED BY <3>1, <3>5
  <2> QED BY <2>3, StopsSame
<1> QED BY <1>3, <1>4, StackStops DEF Stack!Add

\* The boundary of a pop in progress is no higher than the top.
LEMMA StopInStack ==
  ASSUME PoolIInv, NEW j \in 1 .. Len(pops), NEW h \in 1 .. hot, pops[j].page <= h,
         pops[j].page = h => pops[j].stop <= Len(pages[h])
  PROVE  /\ pops[j].page \in 1 .. Len(pages) /\ pops[j].stop \in 1 .. Len(pages[pops[j].page])
         /\ HeightIn(pages, pops[j].page, pops[j].stop) \in 1 .. Len(FlattenSeq(pages))
<1> USE DEF PoolIInv
<1>1. /\ hot \in Nat /\ hot <= Len(pages) /\ Len(pages) \in Nat
      /\ DOMAIN pages = 1 .. Len(pages)
      /\ pops[j].page \in Nat \ {0} /\ pops[j].stop \in Nat \ {0}
  BY PagesType, PopsType, LenProperties DEF TypeOK
<1>2. PICK n \in 1 .. Len(pages), i \in Nat \ {0} : n = pops[j].page /\ i = pops[j].stop
  BY <1>1
<1>3. Len(pages[n]) \in Nat /\ i <= Len(pages[n])
  <2>1. Len(pages[n]) \in Nat
    BY PagesType
  <2>2. CASE n = h
    BY <1>2, <2>1, <2>2
  <2>3. CASE n # h
    <3>1. n \in DOMAIN pages /\ n < hot
      BY <1>1, <1>2, <2>3
    <3>2. Len(pages[n]) = PageSize
      BY <3>1 DEF HotPageSplits, full
    <3> QED BY <1>2, <2>1, <3>2 DEF PopsInside
  <2> QED BY <2>2, <2>3
<1>4. i \in 1 .. Len(pages[n])
  BY <1>3
<1> QED BY <1>2, <1>4, EntryAt

\* The pop of everything goes down to the bottom of the stack.
TopFromBottom == \A j \in 1 .. Len(pops) : pops[j].top => pops[j].page = 1 /\ pops[j].stop = 1

\* The stops are a sequence.
LEMMA StopsType ==
  ASSUME NEW ps \in Seq(Pop), NEW s, NEW h
  PROVE  \E S : StopsOf(ps, s) \in Seq(S) /\ h \in S
<1> DEFINE S == {StopsOf(ps, s)[j] : j \in 1 .. Len(ps)} \cup {h}
<1>1. Len(ps) \in Nat
  BY LenProperties
<1>2. StopsOf(ps, s) = [j \in 1 .. Len(ps) |-> StopsOf(ps, s)[j]]
  BY DEF StopsOf
<1>3. h \in S /\ \A j \in 1 .. Len(ps) : StopsOf(ps, s)[j] \in S
  OBVIOUS
<1> HIDE DEF S
<1>4. [j \in 1 .. Len(ps) |-> StopsOf(ps, s)[j]] \in Seq(S)
  BY <1>1, <1>3, IsASeq
<1> QED BY <1>2, <1>3, <1>4

\* With one pop more and with one pop less.
LEMMA StopsMore ==
  ASSUME NEW ps \in Seq(Pop), NEW s, NEW p \in Pop
  PROVE  StopsOf(Append(ps, p), s) = Append(StopsOf(ps, s), HeightIn(s, p.page, p.stop))
<1>1. PICK h : h = HeightIn(s, p.page, p.stop)
  OBVIOUS
<1>2. PICK q : q = StopsOf(ps, s)
  OBVIOUS
<1>3. PICK S : q \in Seq(S) /\ h \in S
  BY <1>2, StopsType
<1>4. PICK n \in Nat : n = Len(ps) /\ n = Len(q)
  BY <1>2, LenProperties, StopsAre
<1>5. \A j \in 1 .. n : q[j] = HeightIn(s, ps[j].page, ps[j].stop)
  BY <1>2, <1>4 DEF StopsOf
<1>6. PICK r \in Seq(Pop) : r = Append(ps, p) /\ Len(r) = n + 1
  <2>1. Append(ps, p) \in Seq(Pop) /\ Len(Append(ps, p)) = Len(ps) + 1
    BY AppendProperties
  <2> QED BY <1>4, <2>1
<1>7. r[n + 1] = p /\ \A j \in 1 .. n : r[j] = ps[j]
  BY <1>4, <1>6, AppendProperties
<1>8. PICK t \in Seq(S) : t = Append(q, h)
  BY <1>3, AppendProperties
<1>9. Len(t) = n + 1 /\ t[n + 1] = h /\ \A j \in 1 .. n : t[j] = q[j]
  BY <1>3, <1>4, <1>8, AppendProperties
<1>10. t = [j \in 1 .. n + 1 |-> t[j]]
  BY <1>9, LenProperties
<1>11. ASSUME NEW j \in 1 .. n + 1 PROVE HeightIn(s, r[j].page, r[j].stop) = t[j]
  <2>1. j = n + 1 \/ j \in 1 .. n
    OBVIOUS
  <2> QED BY <1>1, <1>5, <1>7, <1>9, <2>1
<1>12. StopsOf(r, s) = t
  BY <1>6, <1>10, <1>11 DEF StopsOf
<1> QED BY <1>1, <1>2, <1>6, <1>8, <1>12

LEMMA StopsLess ==
  ASSUME NEW ps \in Seq(Pop), ps # <<>>, NEW s
  PROVE  /\ StopsOf(Front(ps), s) = Front(StopsOf(ps, s)) /\ StopsOf(ps, s) # <<>>
         /\ Last(StopsOf(ps, s)) = HeightIn(s, Last(ps).page, Last(ps).stop)
<1>1. PICK q : q = StopsOf(ps, s)
  OBVIOUS
<1>2. PICK S : q \in Seq(S)
  BY <1>1, StopsType
<1>3. PICK n \in Nat \ {0} : n = Len(ps) /\ n = Len(q)
  BY <1>1, EmptySeq, LenProperties, StopsAre
<1>4. \A j \in 1 .. n : q[j] = HeightIn(s, ps[j].page, ps[j].stop)
  BY <1>1, <1>3 DEF StopsOf
<1>5. n - 1 \in 0 .. Len(ps) /\ n - 1 \in 0 .. Len(q) /\ n \in 1 .. n
      /\ Len(<<>>) = 0
  BY <1>3
<1>6. PICK r \in Seq(Pop) : r = Front(ps) /\ Len(r) = n - 1 /\ \A j \in 1 .. n - 1 : r[j] = ps[j]
  <2>1. Len(ps) - 1 = n - 1
    BY <1>3
  <2>2. SubSeq(ps, 1, n - 1) = Front(ps)
    BY <2>1 DEF Front
  <2>3. /\ SubSeq(ps, 1, n - 1) \in Seq(Pop) /\ Len(SubSeq(ps, 1, n - 1)) = n - 1
        /\ \A j \in 1 .. n - 1 : SubSeq(ps, 1, n - 1)[j] = ps[j]
    BY <1>5, PrefixProperties
  <2> QED BY <2>2, <2>3
<1>7. PICK t \in Seq(S) : t = Front(q) /\ Len(t) = n - 1 /\ \A j \in 1 .. n - 1 : t[j] = q[j]
  <2>1. Len(q) - 1 = n - 1
    BY <1>3
  <2>2. SubSeq(q, 1, n - 1) = Front(q)
    BY <2>1 DEF Front
  <2>3. /\ SubSeq(q, 1, n - 1) \in Seq(S) /\ Len(SubSeq(q, 1, n - 1)) = n - 1
        /\ \A j \in 1 .. n - 1 : SubSeq(q, 1, n - 1)[j] = q[j]
    BY <1>2, <1>5, PrefixProperties
  <2> QED BY <2>2, <2>3
<1>8. t = [j \in 1 .. n - 1 |-> t[j]]
  BY <1>7, LenProperties
<1>9. ASSUME NEW j \in 1 .. n - 1 PROVE HeightIn(s, r[j].page, r[j].stop) = t[j]
  <2>1. j \in 1 .. n
    OBVIOUS
  <2> QED BY <1>4, <1>6, <1>7, <2>1
<1>10. StopsOf(r, s) = t
  BY <1>6, <1>8, <1>9 DEF StopsOf
<1>11. Last(q) = q[n] /\ Last(ps) = ps[n] /\ q # <<>>
  BY <1>3, <1>5 DEF Last
<1> QED BY <1>1, <1>4, <1>5, <1>6, <1>7, <1>10, <1>11

\* A pop starts at the height of its token.
LEMMA PopMaps ==
  ASSUME PoolIInv, PoolIInv', NEW k \in 1 .. MaxCalls, pop(k)
  PROVE  Stack!StartPop(HeightIn(pages, Last(tokens)[k][1], Last(tokens)[k][2]))
         /\ HeightIn(pages, Last(tokens)[k][1], Last(tokens)[k][2]) \in 1 .. Len(FlattenSeq(pages))
<1> USE DEF PoolIInv
<1> DEFINE n == Len(tokens)
           p == [page |-> tokens[n][k][1], stop |-> tokens[n][k][2],
                 top |-> FALSE, releasing |-> None]
<1>1. /\ UNCHANGED <<pages, hot>> /\ pops' = Append(pops, p)
      /\ k \in DOMAIN tokens[n] /\ Last(tokens) = tokens[n]
  BY DEF pop, Last
<1>2. n \in 1 .. n /\ n = Len(pops) + 1 /\ Len(pops) \in Nat
  BY PopsType DEF Levels
<1>3. PICK a \in Nat \ {0}, b \in Nat \ {0} :
        /\ a = tokens[n][k][1] /\ b = tokens[n][k][2]
        /\ a <= hot /\ b <= Len(pages[a]) /\ pages[a][b] = POOL_SENTINEL
  <2>1. tokens[n] \in Seq(Token)
    BY <1>2, TokensType
  <2>2. k \in 1 .. Len(tokens[n])
    BY <1>1, <2>1, LenProperties
  <2>3. tokens[n][k][1] \in Nat \ {0} /\ tokens[n][k][2] \in Nat \ {0}
    BY <1>2, <2>2, TokensType
  <2> QED BY <1>2, <2>2, <2>3 DEF TokensInside
<1>4. p \in Pop /\ p.page = a /\ p.stop = b /\ Boundary(p) = <<a, b>>
  BY <1>3 DEF Pop, Boundary
<1> HIDE DEF p
<1>5. /\ Len(pops') = n /\ pops'[n] = p
      /\ \A j \in 1 .. Len(pops) : pops'[j] = pops[j]
  BY <1>1, <1>2, <1>4, PopsType, AppendProperties
<1>6. a \in 1 .. Len(pages) /\ b \in 1 .. Len(pages[a])
  <2>1. a \in 1 .. Len(pages)
    BY <1>3, PagesType
  <2>2. Len(pages[a]) \in Nat
    BY <2>1, PagesType
  <2> QED BY <1>3, <2>1, <2>2
<1>7. PICK h : h = HeightIn(pages, a, b)
  OBVIOUS
<1>8. h \in 1 .. Len(FlattenSeq(pages)) /\ FlattenSeq(pages)[h] = POOL_SENTINEL
  BY <1>3, <1>6, <1>7, EntryAt
<1>9. ASSUME NEW j \in 1 .. Len(pops) PROVE HeightIn(pages, pops[j].page, pops[j].stop) <= h
  <2>1. j \in 1 .. n /\ n \in 1 .. n /\ j < n
    BY <1>2
  <2>2. ~ Below(Boundary(pops'[n]), Boundary(pops'[j]))
    BY <1>5, <2>1 DEF Order, PopsNested
  <2>3. PICK m \in Nat \ {0}, i \in Nat \ {0} : m = pops[j].page /\ i = pops[j].stop
    BY PopsType
  <2>4. ~ Below(<<a, b>>, <<m, i>>)
    BY <1>4, <1>5, <2>2, <2>3 DEF Boundary
  <2>5. m \in 1 .. Len(pages) /\ i - 1 <= Len(pages[m])
    <3>1. m <= hot /\ i - 1 <= Len(pages[m])
      BY <2>3 DEF PopsInside
    <3> QED BY <3>1, PagesType
  <2>6. HeightIn(pages, m, i) <= HeightIn(pages, a, b)
    BY <1>6, <2>4, <2>5, HeightsOrdered
  <2> QED BY <1>7, <2>3, <2>6
<1>10. pops \in Seq(Pop) /\ pops' \in Seq(Pop)
  BY DEF TypeOK
<1>11. /\ DOMAIN StopsOf(pops, pages) = 1 .. Len(pops)
       /\ \A j \in 1 .. Len(pops) : StopsOf(pops, pages)[j] = HeightIn(pages, pops[j].page, pops[j].stop)
  BY <1>10, StopsAre DEF StopsOf
<1>12. StopsOf(pops', pages') = Append(StopsOf(pops, pages), h)
  <2>1. pops' = Append(pops, p) /\ p \in Pop /\ UNCHANGED pages
    BY <1>1, <1>4
  <2> QED BY <1>4, <1>7, <1>10, <2>1, StopsMore
<1>13. UNCHANGED FlattenSeq(pages)
  BY <1>1
<1>14. Stack!StartPop(h)
  BY <1>8, <1>9, <1>11, <1>12, <1>13, StackStops DEF Stack!StartPop
<1> QED BY <1>1, <1>3, <1>7, <1>8, <1>14

\* A release, from its call to its return, leaves the pops in progress as they are.
LEMMA PopsAsWere ==
  ASSUME PoolIInv, releaseOne \/ released
  PROVE  /\ Len(pops') = Len(pops)
         /\ \A j \in 1 .. Len(pops) :
              /\ pops'[j].page = pops[j].page /\ pops'[j].stop = pops[j].stop
              /\ pops'[j].top = pops[j].top
<1> USE DEF PoolIInv
<1>1. /\ pops # <<>>
      /\ UNCHANGED pops \/ \E x : pops' = [pops EXCEPT ![Len(pops)].releasing = x]
  BY DEF releaseOne, released, Popping
<1>2. Len(pops) \in 1 .. Len(pops) /\ pops \in Seq(Pop) /\ DOMAIN pops = 1 .. Len(pops)
  BY <1>1, PopsType, EmptySeq, LenProperties
<1>3. CASE UNCHANGED pops
  BY <1>3
<1>4. ASSUME NEW x, pops' = [pops EXCEPT ![Len(pops)].releasing = x]
      PROVE  /\ Len(pops') = Len(pops)
             /\ \A j \in 1 .. Len(pops) :
                  /\ pops'[j].page = pops[j].page /\ pops'[j].stop = pops[j].stop
                  /\ pops'[j].top = pops[j].top
  <2> DEFINE r == [pops[Len(pops)] EXCEPT !.releasing = x]
  <2>1. DOMAIN pops' = 1 .. Len(pops) /\ pops' = [pops EXCEPT ![Len(pops)] = r]
    BY <1>2, <1>4
  <2>2. /\ r.page = pops[Len(pops)].page /\ r.stop = pops[Len(pops)].stop
        /\ r.top = pops[Len(pops)].top
    BY <1>2, PopsType DEF Pop
  <2> HIDE DEF r
  <2>3. \A j \in 1 .. Len(pops) : pops'[j] = IF j = Len(pops) THEN r ELSE pops[j]
    BY <1>2, <2>1
  <2>4. Len(pops') = Len(pops)
    <3>1. PICK R : r \in R /\ \A j \in 1 .. Len(pops) : pops[j] \in R
      <4> DEFINE R == {r} \cup {pops[j] : j \in 1 .. Len(pops)}
      <4>1. r \in R /\ \A j \in 1 .. Len(pops) : pops[j] \in R
        OBVIOUS
      <4> HIDE DEF R
      <4> QED BY <4>1
    <3>2. pops' = [j \in 1 .. Len(pops) |-> pops'[j]] /\ \A j \in 1 .. Len(pops) : pops'[j] \in R
      BY <2>1, <2>3, <3>1
    <3>3. Len(pops) \in Nat
      BY PopsType
    <3>4. [j \in 1 .. Len(pops) |-> pops'[j]] \in Seq(R)
      BY <3>2, <3>3, IsASeq
    <3>5. pops' \in Seq(R)
      BY <3>2, <3>4
    <3> QED BY <2>1, <3>3, <3>5, LenProperties
  <2> QED BY <2>2, <2>3, <2>4
<1> QED BY <1>1, <1>3, <1>4

LEMMA TopInv ==
  ASSUME PoolIInv, TopFromBottom, [Next]_vars
  PROVE  TopFromBottom'
<1> USE DEF PoolIInv
<1>1. CASE UNCHANGED pops
  BY <1>1 DEF TopFromBottom
<1>2. CASE releaseOne \/ released
  BY <1>2, PopsAsWere DEF TopFromBottom
<1>3. ASSUME NEW k \in 1 .. MaxCalls, pop(k) PROVE TopFromBottom'
  <2> DEFINE p == [page |-> Last(tokens)[k][1], stop |-> Last(tokens)[k][2],
                   top |-> FALSE, releasing |-> None]
  <2>1. pops' = Append(pops, p) /\ p.top = FALSE
    BY <1>3 DEF pop
  <2> HIDE DEF p
  <2>2. PICK R : p \in R /\ pops \in Seq(R)
    <3>1. pops \in Seq(Pop \cup {p})
      BY PopsType, SeqMonotonic
    <3> QED BY <3>1
  <2>3. /\ Len(pops') = Len(pops) + 1 /\ pops'[Len(pops) + 1] = p /\ Len(pops) \in Nat
        /\ \A j \in 1 .. Len(pops) : pops'[j] = pops[j]
    BY <2>1, <2>2, AppendProperties, PopsType
  <2>4. ASSUME NEW j \in 1 .. Len(pops'), pops'[j].top PROVE pops'[j].page = 1 /\ pops'[j].stop = 1
    <3>1. j # Len(pops) + 1
      BY <2>1, <2>3, <2>4
    <3>2. j \in 1 .. Len(pops)
      BY <2>3, <3>1
    <3> QED BY <2>3, <2>4, <3>2 DEF TopFromBottom
  <2> QED BY <2>4 DEF TopFromBottom
<1>4. CASE tls_dealloc
  <2>1. CASE hot # 0
    <3> DEFINE p == [page |-> 1, stop |-> 1, top |-> TRUE, releasing |-> None]
    <3>1. pops' = <<p>> /\ p.page = 1 /\ p.stop = 1
      BY <1>4, <2>1 DEF tls_dealloc
    <3> HIDE DEF p
    <3> QED BY <3>1 DEF TopFromBottom
  <2> QED BY <1>1, <1>4, <2>1 DEF tls_dealloc
<1>5. CASE popDone
  <2>1. pops' = SubSeq(pops, 1, Len(pops) - 1) /\ pops # <<>>
    BY <1>5 DEF popDone, Popping, Front
  <2>2. Len(pops) - 1 \in 0 .. Len(pops) /\ Len(pops) \in Nat /\ pops \in Seq(Pop)
    BY <2>1, PopsType, EmptySeq
  <2>3. Len(pops') = Len(pops) - 1 /\ \A j \in 1 .. Len(pops) - 1 : pops'[j] = pops[j]
    BY <2>1, <2>2, PrefixProperties
  <2>4. \A j \in 1 .. Len(pops') : j \in 1 .. Len(pops) /\ pops'[j] = pops[j]
    BY <2>2, <2>3
  <2> QED BY <2>4 DEF TopFromBottom
<1>6. CASE push \/ \E o \in Obj : autorelease(o)
  BY <1>1, <1>6 DEF push, autorelease
<1> QED BY <1>1, <1>2, <1>3, <1>4, <1>5, <1>6 DEF Next, Done, vars

\* The exit of a thread starts the pop of everything, if it has a pool.
LEMMA ExitMaps ==
  ASSUME PoolIInv, PoolIInv', tls_dealloc
  PROVE  [Stack!Next]_Stack!vars
<1> USE DEF PoolIInv
<1>1. pops = <<>> /\ UNCHANGED <<pages, hot>>
  BY DEF tls_dealloc
<1>2. CASE hot = 0
  <2>1. UNCHANGED <<pops, pages>>
    BY <1>2 DEF tls_dealloc
  <2>2. UNCHANGED FlattenSeq(pages)
    BY <2>1
  <2>3. StopsOf(pops', pages') = StopsOf(pops, pages)
    BY <2>1
  <2> QED BY <2>2, <2>3, StackStops DEF Stack!vars
<1>3. CASE hot # 0
  <2> DEFINE p == [page |-> 1, stop |-> 1, top |-> TRUE, releasing |-> None]
  <2>1. pops' = <<p>> /\ p \in Pop /\ p.page = 1 /\ p.stop = 1
    BY <1>3 DEF tls_dealloc, Pop
  <2> HIDE DEF p
  <2>2. HeightIn(pages, p.page, p.stop) = 1
    <3>1. Joined(pages, 0) = <<>>
      BY JoinedNone DEF TypeOK
    <3>2. Len(<<>>) = 0
      OBVIOUS
    <3>3. HeightIn(pages, 1, 1) = Len(Joined(pages, 0)) + 1
      BY DEF HeightIn
    <3> QED BY <2>1, <3>1, <3>2, <3>3
  <2>3. StopsOf(pops, pages) = <<>>
    BY <1>1 DEF StopsOf
  <2>4. StopsOf(pops', pages') = <<1>>
    <3>1. Len(pops') = 1 /\ pops'[1] = p
      BY <2>1
    <3>2. \A j \in 1 .. 1 : HeightIn(pages, pops'[j].page, pops'[j].stop) = 1
      BY <2>2, <3>1
    <3>3. StopsOf(pops', pages') = [j \in 1 .. 1 |-> 1]
      BY <1>1, <3>1, <3>2 DEF StopsOf
    <3> QED BY <3>3
  <2>5. PICK s : s = FlattenSeq(pages) /\ s \in Seq(Entry)
    <3>1. hot \in 0 .. Len(pages)
      BY DEF TypeOK
    <3> QED BY <3>1, StackIs
  <2>6. UNCHANGED FlattenSeq(pages)
    BY <1>1
  <2>7. CASE s = <<>>
    <3>1. Stack!StartEmptyPop
      BY <2>3, <2>4, <2>5, <2>6, <2>7, StackStops DEF Stack!StartEmptyPop
    <3> QED BY <3>1 DEF Stack!Next
  <2>8. CASE s # <<>>
    <3>1. 1 \in 1 .. Len(s)
      BY <2>5, <2>8, EmptySeq, LenProperties
    <3>2. Append(<<>>, 1) = <<1>> /\ DOMAIN <<>> = {}
      OBVIOUS
    <3>3. Stack!StartPop(1)
      BY <2>3, <2>4, <2>5, <2>6, <3>1, <3>2, StackStops DEF Stack!StartPop
    <3> QED BY <2>5, <3>1, <3>3 DEF Stack!Next
  <2> QED BY <2>7, <2>8
<1> QED BY <1>2, <1>3

\* A turn of releaseUntil takes the top entry off.
LEMMA ReleaseOneMaps ==
  ASSUME PoolIInv, PoolIInv', releaseOne
  PROVE  Stack!TakeOff
<1> USE DEF PoolIInv
<1> DEFINE N == Len(pops)
           p == pops[N]
<1>1. PICK h : h = HotNonEmpty
  OBVIOUS
<1>2. /\ pops # <<>> /\ Last(pops) = p
      /\ h \in 1 .. hot /\ ~ empty(pages[h])
      /\ h = hot \/ (h = hot - 1 /\ empty(pages[hot]))
      /\ p.page <= h
      /\ p.page = h => p.stop <= Len(pages[h])
      /\ hot' = h /\ pages' = [pages EXCEPT ![h] = Front(pages[h])]
  BY <1>1, WalkIsShort DEF releaseOne, Last
<1>3. /\ N \in 1 .. N /\ N \in Nat /\ pops \in Seq(Pop) /\ pops' \in Seq(Pop)
      /\ pages \in Seq(Seq(Entry)) /\ hot \in Nat /\ hot <= Len(pages) /\ Len(pages) \in Nat
  BY <1>2, PopsType, PagesType, EmptySeq DEF TypeOK
<1>4. h \in 1 .. Len(pages) /\ h \in Nat \ {0}
  BY <1>2, <1>3
<1>5. PICK b \in Seq(Entry) : b = pages[h] /\ b # <<>>
  BY <1>2, <1>4, PagesType DEF empty
<1>6. Front(b) \in Seq(Entry)
  <2>1. Len(b) - 1 \in 0 .. Len(b)
    BY <1>5, EmptySeq, LenProperties
  <2> QED BY <2>1, PrefixProperties DEF Front
<1>7. /\ Len(pages') = Len(pages) /\ pages' \in Seq(Seq(Entry))
      /\ \A n \in 1 .. Len(pages) : pages'[n] = IF n = h THEN Front(b) ELSE pages[n]
  BY <1>2, <1>3, <1>4, <1>5, <1>6, ExceptSeq
<1>8. \A i \in 1 .. h - 1 : pages'[i] = pages[i]
  <2>1. ASSUME NEW i \in 1 .. h - 1 PROVE i \in 1 .. Len(pages) /\ i # h
    BY <1>3, <1>4
  <2> QED BY <1>7, <2>1
<1>9. h - 1 <= Len(pages) /\ h - 1 <= Len(pages') /\ h - 1 \in 0 .. Len(pages)
  BY <1>3, <1>4, <1>7
<1>10. PICK a \in Seq(Entry) : a = Joined(pages, h - 1) /\ a = Joined(pages', h - 1)
  <2>1. Joined(pages, h - 1) \in Seq(Entry)
    BY <1>9, StackIs
  <2>2. Joined(pages', h - 1) = Joined(pages, h - 1)
    BY <1>4, <1>8, <1>9, HeightsKept
  <2> QED BY <2>1, <2>2
<1>11. FlattenSeq(pages) = a \o b
  <2>1. Joined(pages, h) = a \o b
    BY <1>4, <1>5, <1>10, StackIs
  <2>2. CASE h = hot
    BY <2>1, <2>2, StackIs
  <2>3. CASE h = hot - 1 /\ empty(pages[hot])
    <3>1. hot \in 1 .. Len(pages)
      BY <1>2, <1>3, <2>3
    <3>2. Joined(pages, hot) = Joined(pages, hot - 1) \o pages[hot]
      BY <3>1, StackIs
    <3>3. Joined(pages, hot) = (a \o b) \o <<>>
      BY <2>1, <2>3, <3>2 DEF empty
    <3>4. (a \o b) \o <<>> = a \o b
      BY ConcatProperties, ConcatEmptySeq
    <3> QED BY <3>3, <3>4, StackIs
  <2> QED BY <1>2, <2>2, <2>3
<1>12. FlattenSeq(pages') = a \o Front(b)
  <2>1. h \in 1 .. Len(pages') /\ pages'[h] = Front(b)
    BY <1>4, <1>7
  <2>2. Joined(pages', h) = Joined(pages', h - 1) \o pages'[h]
    BY <1>7, <2>1, JoinedStep
  <2> QED BY <1>2, <1>10, <2>1, <2>2, StackThen
<1>13. FlattenSeq(pages') = Front(FlattenSeq(pages))
  BY <1>5, <1>11, <1>12, ConcatFront
<1>14. ASSUME NEW j \in 1 .. N PROVE pops[j].page <= h
  <2>1. p.page \in Nat \ {0} /\ pops[j].page \in Nat \ {0}
    BY <1>3, PopsType
  <2>2. CASE j = N
    BY <1>2, <2>2
  <2>3. CASE j # N
    <3>1. j < N
      BY <1>3, <2>3
    <3>2. ~ Below(Boundary(p), Boundary(pops[j]))
      BY <1>3, <3>1 DEF Order, PopsNested
    <3>3. pops[j].page <= p.page
      BY <2>1, <3>2 DEF Below, Boundary
    <3> QED BY <1>2, <1>4, <2>1, <3>3
  <2> QED BY <2>2, <2>3
<1>15. StopsOf(pops', pages') = StopsOf(pops, pages)
  <2>1. \A j \in 1 .. N : HeightIn(pages', pops[j].page, pops[j].stop)
                          = HeightIn(pages, pops[j].page, pops[j].stop)
    <3>1. PICK k \in Nat, g \in Nat : k = N /\ g = h
      BY <1>3, <1>4
    <3>2. k <= Len(pops) /\ g - 1 <= Len(pages) /\ g - 1 <= Len(pages')
      BY <1>3, <1>9, <3>1
    <3>3. \A j \in 1 .. k : pops[j].page <= g
      BY <1>14, <3>1
    <3>4. \A n \in 1 .. g - 1 : pages'[n] = pages[n]
      BY <1>8, <3>1
    <3>5. \A j \in 1 .. k : HeightIn(pages', pops[j].page, pops[j].stop)
                             = HeightIn(pages, pops[j].page, pops[j].stop)
      BY <3>2, <3>3, <3>4, StopsKept
    <3> QED BY <3>1, <3>5
  <2>2. /\ Len(pops') = N
        /\ \A j \in 1 .. N : pops'[j].page = pops[j].page /\ pops'[j].stop = pops[j].stop
    BY PopsAsWere
  <2> QED BY <2>1, <2>2, StopsSame
<1>16. /\ StopsOf(pops, pages) # <<>>
       /\ Last(StopsOf(pops, pages)) = HeightIn(pages, p.page, p.stop)
  BY <1>2, <1>3, StopsLess
<1>17. HeightIn(pages, p.page, p.stop) \in 1 .. Len(FlattenSeq(pages))
  BY <1>2, <1>3, StopInStack
<1>18. Len(FlattenSeq(pages)) \in Nat
  BY <1>11, ConcatProperties, LenProperties
<1>19. Len(FlattenSeq(pages)) >= Last(StopsOf(pops, pages))
  BY <1>16, <1>17, <1>18
<1> QED BY <1>13, <1>15, <1>16, <1>19, StackStops DEF Stack!TakeOff, Stack!Front, Stack!Last, Front, Last

\* The return of a release changes nothing of the stack.
LEMMA ReleasedMaps ==
  ASSUME PoolIInv, PoolIInv', released
  PROVE  UNCHANGED Stack!vars
<1> USE DEF PoolIInv
<1>1. UNCHANGED pages
  BY DEF released
<1>2. StopsOf(pops', pages') = StopsOf(pops, pages)
  BY <1>1, PopsAsWere, StopsSame
<1>3. UNCHANGED FlattenSeq(pages)
  BY <1>1
<1> QED BY <1>2, <1>3, StackStops DEF Stack!vars

\* A pop ends when the stack is as high as below its boundary, and leaves it so.
LEMMA PopDoneMaps ==
  ASSUME PoolIInv, PoolIInv', TopFromBottom, popDone
  PROVE  Stack!EndPop
<1> USE DEF PoolIInv
<1> DEFINE N == Len(pops)
           p == pops[N]
<1>1. /\ pops # <<>> /\ Last(pops) = p /\ Len(pages[p.page]) = p.stop - 1
      /\ pops' = Front(pops)
      /\ IF p.top THEN pages' = <<>> /\ hot' = 0
         ELSE pages' = SubSeq(pages, 1, Kept(p.page)) /\ hot' = p.page
  BY DEF popDone, Popping, Reached, Last
<1>2. /\ N \in 1 .. N /\ N \in Nat /\ pops \in Seq(Pop) /\ pops' \in Seq(Pop)
      /\ pages \in Seq(Seq(Entry)) /\ hot \in Nat /\ hot <= Len(pages) /\ Len(pages) \in Nat
      /\ DOMAIN pages = 1 .. Len(pages)
  BY <1>1, PopsType, PagesType, EmptySeq, LenProperties DEF TypeOK
<1>3. /\ p.page \in Nat \ {0} /\ p.stop \in Nat \ {0}
      /\ p.page <= hot /\ p.stop <= PageSize
  BY <1>2, PopsType DEF PopsInside
<1>4. p.page = hot
  <2> SUFFICES ASSUME p.page < hot PROVE FALSE
    BY <1>2, <1>3
  <2>1. p.page \in DOMAIN pages
    BY <1>2, <1>3
  <2>2. Len(pages[p.page]) = PageSize
    BY <2>1 DEF HotPageSplits, full
  <2> QED BY <1>1, <1>3, <2>2, PoolAssumption
<1>5. PICK h \in 1 .. Len(pages), i \in Nat \ {0} : h = hot /\ h = p.page /\ i = p.stop
  BY <1>2, <1>3, <1>4
<1>6. PICK b \in Seq(Entry) : b = pages[h] /\ Len(b) = i - 1
  BY <1>1, <1>5, PagesType
<1>7. PICK a \in Seq(Entry) : a = Joined(pages, h - 1) /\ FlattenSeq(pages) = a \o b
  <2>1. h - 1 \in 0 .. Len(pages)
    BY <1>2
  <2>2. Joined(pages, h - 1) \in Seq(Entry)
    BY <2>1, StackIs
  <2>3. FlattenSeq(pages) = Joined(pages, h - 1) \o b
    BY <1>5, <1>6, StackIs
  <2> QED BY <2>2, <2>3
<1>8. Len(FlattenSeq(pages)) = HeightIn(pages, p.page, p.stop) - 1
  <2>1. PICK m \in Nat : m = Len(a)
    BY LenProperties
  <2>2. Len(a \o b) = m + (i - 1)
    <3>1. Len(a \o b) = Len(a) + Len(b)
      BY ConcatProperties
    <3> QED BY <1>6, <2>1, <3>1
  <2>3. HeightIn(pages, h, i) = m + i
    BY <1>7, <2>1 DEF HeightIn
  <2>4. m + (i - 1) = m + i - 1
    OBVIOUS
  <2> QED BY <1>5, <1>7, <2>2, <2>3, <2>4
<1>9. /\ StopsOf(Front(pops), pages) = Front(StopsOf(pops, pages))
      /\ StopsOf(pops, pages) # <<>>
      /\ Last(StopsOf(pops, pages)) = HeightIn(pages, p.page, p.stop)
  BY <1>1, <1>2, StopsLess
<1>10. /\ Len(pops') = N - 1 /\ \A j \in 1 .. N - 1 : pops'[j] = pops[j]
  <2>1. N - 1 \in 0 .. Len(pops)
    BY <1>2
  <2>2. pops' = SubSeq(pops, 1, N - 1)
    BY <1>1 DEF Front
  <2> QED BY <1>2, <2>1, <2>2, PrefixProperties
<1>11. FlattenSeq(pages') = FlattenSeq(pages) /\ StopsOf(pops', pages') = StopsOf(Front(pops), pages)
  <2>1. CASE p.top
    <3>1. N = 1 /\ h = 1 /\ i = 1
      BY <1>2, <1>5, <2>1 DEF TopFromBottom, TopIsOutermost
    <3>2. a = <<>> /\ b = <<>>
      <4>1. Joined(pages, 0) = <<>>
        BY <1>2, JoinedNone
      <4>2. Len(b) = 0
        BY <1>6, <3>1
      <4> QED BY <1>7, <3>1, <4>1, <4>2, EmptySeq
    <3>3. FlattenSeq(pages) = <<>>
      BY <1>7, <3>2, ConcatEmptySeq
    <3>4. FlattenSeq(pages') = <<>>
      BY <1>1, <2>1, FlattenEmpty
    <3>5. Len(pops') = 0
      BY <1>10, <3>1
    <3>6. StopsOf(pops', pages') = StopsOf(pops', pages)
      BY <3>5 DEF StopsOf
    <3> QED BY <1>1, <3>3, <3>4, <3>6
  <2>2. CASE ~ p.top
    <3> DEFINE K == Kept(p.page)
    <3>1. K \in 0 .. Len(pages) /\ K \in Nat /\ h <= K
      BY <1>2, <1>5 DEF Kept
    <3>2. pages' = SubSeq(pages, 1, K) /\ hot' = h
      BY <1>1, <1>5, <2>2
    <3> HIDE DEF K
    <3>3. pages' \in Seq(Seq(Entry)) /\ Len(pages') = K /\ \A n \in 1 .. K : pages'[n] = pages[n]
      BY <1>2, <3>1, <3>2, PrefixProperties
    <3>4. \A n \in 1 .. h : pages'[n] = pages[n]
      BY <3>1, <3>3
    <3>5. h \in Nat /\ h <= Len(pages') /\ h <= Len(pages)
      BY <1>2, <3>1, <3>3
    <3>6. Joined(pages', h) = Joined(pages, h)
      BY <1>2, <3>3, <3>4, <3>5, JoinedSame
    <3>7. FlattenSeq(pages') = FlattenSeq(pages)
      BY <1>5, <3>2, <3>6, StackIs, StackThen
    <3>8. ASSUME NEW j \in 1 .. N PROVE pops[j].page <= h
      BY <1>5 DEF PopsInside
    <3>9. h - 1 <= Len(pages) /\ h - 1 <= Len(pages') /\ \A n \in 1 .. h - 1 : pages'[n] = pages[n]
      BY <3>4, <3>5
    <3>10. \A j \in 1 .. N : HeightIn(pages', pops[j].page, pops[j].stop)
                             = HeightIn(pages, pops[j].page, pops[j].stop)
      <4>1. PICK k \in Nat, g \in Nat : k = N /\ g = h
        BY <1>2, <3>5
      <4>2. k <= Len(pops) /\ g - 1 <= Len(pages) /\ g - 1 <= Len(pages')
        BY <1>2, <3>9, <4>1
      <4>3. \A j \in 1 .. k : pops[j].page <= g
        BY <3>8, <4>1
      <4>4. \A n \in 1 .. g - 1 : pages'[n] = pages[n]
        BY <3>9, <4>1
      <4>5. \A j \in 1 .. k : HeightIn(pages', pops[j].page, pops[j].stop)
                               = HeightIn(pages, pops[j].page, pops[j].stop)
        BY <4>2, <4>3, <4>4, StopsKept
      <4> QED BY <4>1, <4>5
    <3>11. \A j \in 1 .. N - 1 : j \in 1 .. N
      BY <1>2
    <3>12. \A j \in 1 .. Len(pops') : HeightIn(pages', pops'[j].page, pops'[j].stop)
                                      = HeightIn(pages, pops'[j].page, pops'[j].stop)
      BY <1>10, <3>10, <3>11
    <3>13. StopsOf(pops', pages') = StopsOf(pops', pages)
      BY <3>12 DEF StopsOf
    <3> QED BY <1>1, <3>7, <3>13
  <2> QED BY <2>1, <2>2
<1> QED BY <1>8, <1>9, <1>11, StackStops DEF Stack!EndPop, Stack!Front, Stack!Last, Front, Last

\* Every step is a step of the stack or leaves it alone.
LEMMA NextMaps ==
  ASSUME PoolIInv, PoolIInv', TopFromBottom, [Next]_vars
  PROVE  [Stack!Next]_Stack!vars
<1> USE DEF PoolIInv
<1>1. ASSUME UNCHANGED <<pages, pops>> PROVE [Stack!Next]_Stack!vars
  <2>1. UNCHANGED FlattenSeq(pages)
    BY <1>1
  <2>2. StopsOf(pops', pages') = StopsOf(pops, pages)
    BY <1>1
  <2> QED BY <2>1, <2>2, StackStops DEF Stack!vars
<1>2. ASSUME NEW x \in Entry, AddTo(x), UNCHANGED pops PROVE [Stack!Next]_Stack!vars
  <2>1. Stack!Add(x)
    BY <1>2, AddMaps
  <2> QED BY <2>1 DEF Stack!Next, Entry
<1>3. ASSUME NEW o \in Obj, autorelease(o) PROVE [Stack!Next]_Stack!vars
  <2>1. CASE hot = 0
    BY <1>1, <1>3, <2>1 DEF autorelease
  <2>2. CASE hot # 0
    BY <1>2, <1>3, <2>2 DEF autorelease, AddTo, Entry
  <2> QED BY <2>1, <2>2
<1>4. CASE push
  BY <1>2, <1>4 DEF push, AddTo, Entry
<1>5. ASSUME NEW k \in 1 .. MaxCalls, pop(k) PROVE [Stack!Next]_Stack!vars
  BY <1>5, PopMaps DEF Stack!Next
<1>6. CASE tls_dealloc
  BY <1>6, ExitMaps
<1>7. CASE releaseOne
  BY <1>7, ReleaseOneMaps DEF Stack!Next
<1>8. CASE released
  BY <1>8, ReleasedMaps
<1>9. CASE popDone
  BY <1>9, PopDoneMaps DEF Stack!Next
<1> QED BY <1>1, <1>3, <1>4, <1>5, <1>6, <1>7, <1>8, <1>9 DEF Next, Done, vars

\* The pages, whatever their size, are one stack: an autorelease or a push adds on
\* top of it, a pop starts at the boundary of its token, no lower than those of the
\* pops it runs inside, takes entries off the top only and ends when the boundary
\* has gone and nothing below it.
THEOREM PagesImplementStack == Spec => ImplementsStack
<1>1. Init => Stack!Init
  <2> SUFFICES ASSUME Init PROVE Stack!Init
    OBVIOUS
  <2>1. FlattenSeq(pages) = <<>>
    BY FlattenEmpty DEF Init
  <2>2. [i \in DOMAIN pops |-> Height(pops[i].page, pops[i].stop)] = <<>>
    BY DEF Init
  <2> QED BY <2>1, <2>2 DEF Stack!Init
<1>2. Init => TopFromBottom
  <2> SUFFICES ASSUME Init PROVE TopFromBottom
    OBVIOUS
  <2>1. Len(pops) = 0
    BY DEF Init
  <2> QED BY <2>1 DEF TopFromBottom
<1> QED BY SpecInv, TopInv, NextMaps, <1>1, <1>2, PTL DEF Spec, ImplementsStack, Stack!Spec

-----------------------------------------------------------------------------
(***************************************************************************)
(* The blocks runtime and trampolines: for any threads, addresses, blocks  *)
(* and what they capture, for any count at which a word latches, and       *)
(* however the loops of a read and a compare-and-swap interleave.          *)
(*                                                                         *)
(* References are conserved: a step moves them between holders, blocks,    *)
(* frames and calls under way, and the counts change with their sum.  Two  *)
(* facts make that enough.  What a thread is copying is its own until it   *)
(* returns it (Building), and what a loop is to raise has a reference that *)
(* the thread keeps meanwhile (InScope), so that no count is raised from   *)
(* zero.  A slot has no block while a call makes one for it (SlotOK).      *)
(*                                                                         *)
(* The theorems hold of clients that load no block from a weak variable    *)
(* (NoWeakLoad), for NSBlock does not count such a load in the block.      *)
(***************************************************************************)

Name == Heap \cup Capture \cup {NULL}
Counted == Heap \cup {OBJECT}
OwnOrGive == {"return", "decr"}
ToFree == {"free"}

\* What can wait in a call behind its first operation, and what can be first.
LaterOp ==
    [op : {"assign"}, on : Capture, to : Heap, old : {NULL}]
    \cup [op : {"return"}, on : Heap, to : Holder, old : {NULL}]
    \cup [op : {"decr"}, on : Heap \cup {OBJECT}, to : {NULL}, old : {NULL}]
    \cup [op : {"free"}, on : Heap, to : {NULL}, old : {NULL}]
FirstOp ==
    LaterOp
    \cup [op : {"incr"}, on : Heap, to : Heap \cup Holder,
          old : {NULL} \cup {w \in Word : ~Latched(w)}]
    \cup [op : {"try"}, on : Heap, to : Holder,
          old : {NULL} \cup {w \in Word : ~Latched(w) /\ NotDeallocating(w)}]
    \cup [op : {"decr"}, on : Heap, to : {NULL}, old : {w \in Word : ~Stuck(w)}]

\* Only the first operation of a call is a loop under way, and a call returns last.
CallOK(s) ==
    /\ s \in Seq(FirstOp)
    /\ \A i \in 2 .. Len(s) : s[i] \in LaterOp
    /\ \A i \in 1 .. Len(s) - 1 : s[i].op # "return"
CallsOK == call \in [Thread -> Seq(FirstOp)] /\ \A t \in Thread : CallOK(call[t])

\* The words that count: that of a live object, and the memory of a freed one.
\* A word, what the object captures, the references to it, the frees of it.
Fits(w, s, refs, frees) ==
    /\ w.count \in {refs, BLOCK_REFCOUNT_MASK}
    /\ w.deallocating <=> w.count = 0
    /\ w.deallocating => s = <<>>
    /\ frees = One(w.deallocating)

AddressOK(h) ==
    IF mem[h] = NULL THEN References(h) = 0 /\ Due(ToFree, h) = 0
    ELSE Fits(mem[h].word, mem[h].holds, References(h), Due(ToFree, h))

AddressesOK == \A h \in Heap : AddressOK(h)
ObjectOK == object = References(OBJECT)

\* The addresses of what each thread is copying: no other thread's, and each the
\* block that its call returns or one that another of them captures.
Builds(t, S) ==
    /\ \A o \in Ops(t) : /\ o.to \in Heap => o.to \in S
                         /\ o.op = "return" => o.on \in S
    /\ \A k \in S : \/ \E o \in Ops(t) : o.op = "return" /\ o.on = k
                   \/ \E g \in S : CountOf(Holds(g), k) > 0

Building(K) ==
    /\ \A t, u \in Thread : t # u => K[t] \cap K[u] = {}
    /\ \A t \in Thread : Builds(t, K[t])

BuildsOK == \E K \in [Thread -> SUBSET Heap] : Building(K)

IsBlock(h) == mem[h] # NULL /\ mem[h].kind = "block"
IsByref(h) == mem[h] # NULL /\ mem[h].kind = "byref"

\* Holders hold blocks, and a call returns one.
OnBlocks(t) == \A o \in Ops(t) : o.op \in {"return", "try"} => IsBlock(o.on)

KindsOK ==
    /\ \A p \in Holder : \A h \in Heap : held[p][h] > 0 => IsBlock(h)
    /\ \A t \in Thread : OnBlocks(t)

\* A literal is copied while its frame is in scope, and what gets another
\* reference has one that the thread keeps for as long.
InScope(t) ==
    \A o \in Ops(t) :
        /\ o.op = "assign" => forwarding[t] # "out"
        /\ o.op = "incr" => held[t][o.on] > 0 \/ (o.to \in Heap /\ forwarding[t] = o.on)

ScopeOK == \A t \in Thread : InScope(t)

\* The __block variable that a block being copied has captured is its frame's.
Shares(t) ==
    \A o \in Ops(t) : o.op = "return" =>
        \A g \in Heap : IsByref(g) /\ CountOf(Holds(o.on), g) > 0 => forwarding[t] = g

SharedOK == \A t \in Thread : Shares(t)

BlocksIInv ==
    BlocksTypeOK /\ CallsOK /\ AddressesOK /\ ObjectOK /\ BuildsOK /\ KindsOK /\ ScopeOK /\ SharedOK

-----------------------------------------------------------------------------
(* Sequences of operations.                                                    *)

Elems(s) == {s[i] : i \in 1 .. Len(s)}

\* The specification counts as the lemmas about folds do.
LEMMA TimesIs ==
  ASSUME NEW s, NEW x
  PROVE  Times(s, x) = CountOf(s, x)
BY DEF Times, CountOf, OccursAt

\* What is counted at all is in the sequence.
LEMMA CountPositive ==
  ASSUME NEW S, NEW s \in Seq(S), NEW x
  PROVE  CountOf(s, x) \in Nat /\ (CountOf(s, x) > 0 <=> \E i \in 1 .. Len(s) : s[i] = x)
<1>1. /\ OccursAt(s, x) = {n \in 1 .. Len(s) : s[n] = x}
      /\ IsFiniteSet(OccursAt(s, x)) /\ CountOf(s, x) \in Nat
  BY OccursFinite
<1>2. CountOf(s, x) = 0 <=> OccursAt(s, x) = {}
  BY <1>1, FS_EmptySet DEF CountOf
<1>3. OccursAt(s, x) = {} <=> ~ \E i \in 1 .. Len(s) : s[i] = x
  BY <1>1
<1> QED BY <1>1, <1>2, <1>3

\* What a single operation is on, if it is of one of some kinds.
LEMMA OpNames ==
  ASSUME NEW o \in FirstOp
  PROVE  o.on \in Name /\ o.on # NULL
<1>1. o.on \in Heap \cup Capture
  BY DEF FirstOp, LaterOp, Capture
<1>2. NULL \notin Heap \cup Capture
  BY BlocksAssumption
<1> QED BY <1>1, <1>2 DEF Name

\* What a sequence of operations is on, one by one.
LEMMA NamedIs ==
  ASSUME NEW s \in Seq(FirstOp), NEW kinds
  PROVE  /\ Named(s, kinds) \in Seq(Name) /\ Len(Named(s, kinds)) = Len(s)
         /\ \A i \in 1 .. Len(s) :
              Named(s, kinds)[i] = IF s[i].op \in kinds THEN s[i].on ELSE NULL
<1>1. PICK n \in Nat : n = Len(s) /\ DOMAIN s = 1 .. n
  BY LenProperties
<1>2. \A i \in 1 .. n : s[i] \in FirstOp
  BY <1>1, ElementOfSeq
<1>3. ASSUME NEW i \in 1 .. n PROVE s[i].on \in Name
  <2>1. PICK o \in FirstOp : o = s[i]
    BY <1>2
  <2> QED BY <2>1, OpNames
<1>4. NULL \in Name
  BY DEF Name
<1>5. PICK f : f = Named(s, kinds)
  OBVIOUS
<1>6. f = [i \in 1 .. n |-> IF s[i].op \in kinds THEN s[i].on ELSE NULL]
  BY <1>1, <1>5 DEF Named
<1>7. \A i \in 1 .. n : f[i] = (IF s[i].op \in kinds THEN s[i].on ELSE NULL) /\ f[i] \in Name
  BY <1>3, <1>4, <1>6
<1>8. f \in [1 .. n -> Name]
  BY <1>6, <1>7
<1>9. f \in Seq(Name) /\ Len(f) = n
  BY <1>8
<1> QED BY <1>1, <1>5, <1>7, <1>9

\* Names of a concatenation.
LEMMA NamedConcat ==
  ASSUME NEW a \in Seq(FirstOp), NEW b \in Seq(FirstOp), NEW kinds
  PROVE  Named(a \o b, kinds) = Named(a, kinds) \o Named(b, kinds)
<1>1. PICK c : c = a \o b
  OBVIOUS
<1>2. PICK m \in Nat, n \in Nat : m = Len(a) /\ n = Len(b)
  BY LenProperties
<1>3. /\ c \in Seq(FirstOp) /\ Len(c) = m + n
      /\ \A i \in 1 .. m + n : c[i] = IF i <= m THEN a[i] ELSE b[i - m]
  BY <1>1, <1>2, ConcatProperties
<1>4. PICK p, q, r : p = Named(a, kinds) /\ q = Named(b, kinds) /\ r = Named(c, kinds)
  OBVIOUS
<1>5. /\ p \in Seq(Name) /\ Len(p) = m
      /\ \A i \in 1 .. m : p[i] = IF a[i].op \in kinds THEN a[i].on ELSE NULL
  BY <1>2, <1>4, NamedIs
<1>6. /\ q \in Seq(Name) /\ Len(q) = n
      /\ \A i \in 1 .. n : q[i] = IF b[i].op \in kinds THEN b[i].on ELSE NULL
  BY <1>2, <1>4, NamedIs
<1>7. /\ r \in Seq(Name) /\ Len(r) = m + n
      /\ \A i \in 1 .. m + n : r[i] = IF c[i].op \in kinds THEN c[i].on ELSE NULL
  <2>1. c \in Seq(FirstOp) /\ Len(c) = m + n
    BY <1>3
  <2>2. /\ Named(c, kinds) \in Seq(Name) /\ Len(Named(c, kinds)) = Len(c)
        /\ \A i \in 1 .. Len(c) :
             Named(c, kinds)[i] = IF c[i].op \in kinds THEN c[i].on ELSE NULL
    BY <2>1, NamedIs
  <2> QED BY <1>4, <2>1, <2>2
<1>8. PICK z : z = p \o q
  OBVIOUS
<1>9. /\ z \in Seq(Name) /\ Len(z) = m + n
      /\ \A i \in 1 .. m + n : z[i] = IF i <= m THEN p[i] ELSE q[i - m]
  <2>1. p \in Seq(Name) /\ Len(p) = m /\ q \in Seq(Name) /\ Len(q) = n
    BY <1>5, <1>6
  <2> QED BY <1>8, <2>1, ConcatProperties
<1>10. ASSUME NEW i \in 1 .. m + n PROVE r[i] = z[i]
  <2>1. CASE i <= m
    <3>1. i \in 1 .. m
      BY <2>1
    <3>2. c[i] = a[i] /\ z[i] = p[i]
      BY <1>3, <1>9, <2>1
    <3> QED BY <1>5, <1>7, <3>1, <3>2
  <2>2. CASE ~ (i <= m)
    <3>1. i - m \in 1 .. n
      BY <2>2
    <3>2. c[i] = b[i - m] /\ z[i] = q[i - m]
      BY <1>3, <1>9, <2>2
    <3> QED BY <1>6, <1>7, <3>1, <3>2
  <2> QED BY <2>1, <2>2
<1>11. r = z
  BY <1>7, <1>9, <1>10, SeqEqual
<1> QED BY <1>1, <1>4, <1>8, <1>11

\* A sequence with elements is its first one and the rest.
LEMMA FirstAndRest ==
  ASSUME NEW S, NEW s \in Seq(S), s # <<>>
  PROVE  \E n \in Nat \ {0}, k \in Nat :
           /\ n = Len(s) /\ n = k + 1 /\ 1 \in 1 .. n
           /\ Head(s) = s[1] /\ s[1] \in S
           /\ Tail(s) \in Seq(S) /\ Len(Tail(s)) = k /\ \A i \in 1 .. k : Tail(s)[i] = s[i + 1]
<1>1. PICK n \in Nat : n = Len(s)
  BY LenProperties
<1>2. n # 0
  BY <1>1, EmptySeq
<1>3. PICK k \in Nat : n = k + 1
  <2>1. n - 1 \in Nat /\ n = n - 1 + 1
    BY <1>2
  <2> QED BY <2>1
<1>4. /\ Tail(s) \in Seq(S) /\ Len(Tail(s)) = n - 1 /\ Head(s) \in S
      /\ \A i \in 1 .. Len(Tail(s)) : Tail(s)[i] = s[i + 1]
  BY <1>1, HeadTailProperties
<1>5. n - 1 = k /\ 1 \in 1 .. n
  BY <1>2, <1>3
<1>6. Head(s) = s[1]
  BY <1>1, <1>2
<1> QED BY <1>1, <1>2, <1>3, <1>4, <1>5, <1>6

\* The operations of a call, and those of it when the first is replaced.
LEMMA Replaced ==
  ASSUME NEW s \in Seq(FirstOp), s # <<>>, NEW ops \in Seq(FirstOp)
  PROVE  /\ Head(s) = s[1] /\ s[1] \in FirstOp /\ 1 \in 1 .. Len(s)
         /\ Elems(s) = {Head(s)} \cup Elems(Tail(s))
         /\ Elems(ops \o Tail(s)) = Elems(ops) \cup Elems(Tail(s))
         /\ ops \o Tail(s) \in Seq(FirstOp)
<1>1. PICK n \in Nat \ {0}, k \in Nat :
        /\ n = Len(s) /\ n = k + 1 /\ 1 \in 1 .. n
        /\ Head(s) = s[1] /\ s[1] \in FirstOp
        /\ Tail(s) \in Seq(FirstOp) /\ Len(Tail(s)) = k /\ \A i \in 1 .. k : Tail(s)[i] = s[i + 1]
  BY FirstAndRest
<1>2. /\ Head(s) = s[1] /\ s[1] \in FirstOp /\ Tail(s) \in Seq(FirstOp)
      /\ Len(Tail(s)) = k /\ \A i \in 1 .. k : Tail(s)[i] = s[i + 1]
  BY <1>1
<1>3. PICK r : r = Tail(s)
  OBVIOUS
<1>4. Elems(s) = {s[1]} \cup Elems(r)
  <2>1. ASSUME NEW x \in Elems(s) PROVE x = s[1] \/ x \in Elems(r)
    <3>1. PICK i \in 1 .. n : x = s[i]
      BY <1>1, <2>1 DEF Elems
    <3>2. CASE i # 1
      <4>1. i - 1 \in 1 .. k /\ i - 1 + 1 = i
        BY <1>1, <3>2
      <4>2. r[i - 1] = x
        BY <1>2, <1>3, <3>1, <4>1
      <4> QED BY <1>2, <1>3, <4>1, <4>2 DEF Elems
    <3> QED BY <3>1, <3>2
  <2>2. ASSUME NEW x \in Elems(r) PROVE x \in Elems(s)
    <3>1. PICK i \in 1 .. k : x = r[i]
      BY <1>2, <1>3, <2>2 DEF Elems
    <3>2. i + 1 \in 1 .. n
      BY <1>1
    <3>3. x = s[i + 1]
      BY <1>2, <1>3, <3>1
    <3> QED BY <1>1, <3>2, <3>3 DEF Elems
  <2>3. s[1] \in Elems(s)
    BY <1>1 DEF Elems
  <2> QED BY <2>1, <2>2, <2>3
<1>5. PICK m, c : m \in Nat /\ c = ops \o r /\ m = Len(ops)
  BY LenProperties
<1>6. /\ c \in Seq(FirstOp) /\ Len(c) = m + k
      /\ \A i \in 1 .. m + k : c[i] = IF i <= m THEN ops[i] ELSE r[i - m]
  <2>1. r \in Seq(FirstOp) /\ Len(r) = k
    BY <1>2, <1>3
  <2> QED BY <1>5, <2>1, ConcatProperties
<1>7. ASSUME NEW x \in Elems(c) PROVE x \in Elems(ops) \cup Elems(r)
  <2>1. PICK i \in 1 .. m + k : x = c[i]
    BY <1>6, <1>7 DEF Elems
  <2>2. CASE i <= m
    <3>1. i \in 1 .. m /\ x = ops[i]
      BY <1>6, <2>1, <2>2
    <3> QED BY <1>5, <3>1 DEF Elems
  <2>3. CASE ~ (i <= m)
    <3>1. i - m \in 1 .. k /\ x = r[i - m]
      BY <1>5, <1>6, <2>1, <2>3
    <3> QED BY <1>2, <1>3, <3>1 DEF Elems
  <2> QED BY <2>2, <2>3
<1>8. ASSUME NEW x \in Elems(ops) PROVE x \in Elems(c)
  <2>1. PICK i \in 1 .. m : x = ops[i]
    BY <1>5, <1>8 DEF Elems
  <2>2. i \in 1 .. m + k /\ c[i] = x
    BY <1>5, <1>6, <2>1
  <2> QED BY <1>6, <2>2 DEF Elems
<1>9. ASSUME NEW x \in Elems(r) PROVE x \in Elems(c)
  <2>1. PICK i \in 1 .. k : x = r[i]
    BY <1>2, <1>3, <1>9 DEF Elems
  <2>2. i + m \in 1 .. m + k /\ ~ (i + m <= m) /\ i + m - m = i
    BY <1>5, <2>1
  <2>3. c[i + m] = x
    BY <1>5, <1>6, <2>1, <2>2
  <2> QED BY <1>6, <2>2, <2>3 DEF Elems
<1>10. Elems(c) = Elems(ops) \cup Elems(r)
  BY <1>7, <1>8, <1>9
<1> QED BY <1>1, <1>2, <1>3, <1>4, <1>5, <1>6, <1>10

\* What operations of some kinds are on, when others replace the first.
LEMMA ReplacedCount ==
  ASSUME NEW s \in Seq(FirstOp), s # <<>>, NEW ops \in Seq(FirstOp), NEW kinds, NEW x \in Counted
  PROVE  /\ CountOf(Named(s, kinds), x) \in Nat /\ CountOf(Named(ops, kinds), x) \in Nat
         /\ CountOf(Named(ops \o Tail(s), kinds), x)
              = CountOf(Named(ops, kinds), x) + CountOf(Named(s, kinds), x)
                - One(Head(s).op \in kinds /\ Head(s).on = x)
         /\ CountOf(Named(s, kinds), x) >= One(Head(s).op \in kinds /\ Head(s).on = x)
<1>1. Head(s) = s[1] /\ Tail(s) \in Seq(FirstOp) /\ 1 \in 1 .. Len(s) /\ Len(s) \in Nat \ {0}
      /\ Len(Tail(s)) = Len(s) - 1 /\ \A i \in 1 .. Len(s) - 1 : Tail(s)[i] = s[i + 1]
  <2>1. PICK n \in Nat \ {0}, k \in Nat :
          /\ n = Len(s) /\ n = k + 1 /\ 1 \in 1 .. n
          /\ Head(s) = s[1] /\ s[1] \in FirstOp
          /\ Tail(s) \in Seq(FirstOp) /\ Len(Tail(s)) = k /\ \A i \in 1 .. k : Tail(s)[i] = s[i + 1]
    BY FirstAndRest
  <2>2. Len(s) - 1 = k
    BY <2>1
  <2> QED BY <2>1, <2>2
<1>2. PICK n, p : n \in Nat \ {0} /\ p = Named(s, kinds) /\ n = Len(s)
  BY <1>1
<1>3. PICK q, r : q = Named(Tail(s), kinds) /\ r = Named(ops, kinds)
  OBVIOUS
<1>4. /\ p = Named(s, kinds) /\ q = Named(Tail(s), kinds)
      /\ r = Named(ops, kinds) /\ n = Len(s)
  BY <1>2, <1>3
<1>5. /\ p \in Seq(Name) /\ q \in Seq(Name) /\ r \in Seq(Name) /\ Len(p) = n /\ Len(q) = n - 1
      /\ \A i \in 1 .. n : p[i] = IF s[i].op \in kinds THEN s[i].on ELSE NULL
      /\ \A i \in 1 .. n - 1 : q[i] = IF Tail(s)[i].op \in kinds THEN Tail(s)[i].on ELSE NULL
  <2>1. /\ p \in Seq(Name) /\ Len(p) = n
        /\ \A i \in 1 .. n : p[i] = IF s[i].op \in kinds THEN s[i].on ELSE NULL
    <3>1. /\ Named(s, kinds) \in Seq(Name) /\ Len(Named(s, kinds)) = Len(s)
          /\ \A i \in 1 .. Len(s) :
               Named(s, kinds)[i] = IF s[i].op \in kinds THEN s[i].on ELSE NULL
      BY NamedIs
    <3> QED BY <1>4, <3>1
  <2>2. PICK l : l = Tail(s)
    OBVIOUS
  <2>3. l \in Seq(FirstOp) /\ Len(l) = n - 1
    BY <1>1, <1>4, <2>2
  <2>4. /\ q \in Seq(Name) /\ Len(q) = n - 1
        /\ \A i \in 1 .. n - 1 : q[i] = IF l[i].op \in kinds THEN l[i].on ELSE NULL
    <3>1. /\ Named(l, kinds) \in Seq(Name) /\ Len(Named(l, kinds)) = Len(l)
          /\ \A i \in 1 .. Len(l) :
               Named(l, kinds)[i] = IF l[i].op \in kinds THEN l[i].on ELSE NULL
      <4>1. l \in Seq(FirstOp)
        BY <2>3
      <4> QED BY <4>1, NamedIs
    <3>2. Named(l, kinds) = q /\ Len(l) = n - 1
      BY <1>4, <2>3, <2>2
    <3>3. /\ q \in Seq(Name) /\ Len(q) = n - 1
          /\ \A i \in 1 .. n - 1 : q[i] = IF l[i].op \in kinds THEN l[i].on ELSE NULL
      BY <3>1, <3>2
    <3> QED BY <3>3
  <2>5. r \in Seq(Name)
    BY <1>4, NamedIs
  <2> QED BY <2>1, <2>4, <2>5, <2>2
<1>6. p # <<>> /\ Head(p) = p[1]
  BY <1>1, <1>4, <1>5, EmptySeq
<1>7. Tail(p) = q
  <2>1. /\ Tail(p) \in Seq(Name) /\ Len(Tail(p)) = n - 1
        /\ \A i \in 1 .. n - 1 : Tail(p)[i] = p[i + 1]
    BY <1>5, <1>6, HeadTailProperties
  <2>2. ASSUME NEW i \in 1 .. n - 1 PROVE Tail(p)[i] = q[i]
    <3>1. i + 1 \in 1 .. n
      BY <1>2
    <3>2. Tail(s)[i] = s[i + 1] /\ Tail(p)[i] = p[i + 1]
      BY <1>1, <1>4, <2>1
    <3>3. p[i + 1] = IF s[i + 1].op \in kinds THEN s[i + 1].on ELSE NULL
      BY <1>5, <3>1
    <3>4. q[i] = IF Tail(s)[i].op \in kinds THEN Tail(s)[i].on ELSE NULL
      BY <1>5
    <3> QED BY <3>2, <3>3, <3>4
  <2> QED BY <1>5, <2>1, <2>2, SeqEqual
<1>8. CountOf(p, x) = One(p[1] = x) + CountOf(q, x)
  <2>1. CountOf(p, x) = One(Head(p) = x) + CountOf(Tail(p), x)
    BY <1>5, <1>6, CountTail, SMTT(30)
  <2> QED BY <1>6, <1>7, <2>1
<1>9. p[1] = x <=> s[1].op \in kinds /\ s[1].on = x
  <2>1. x # NULL
    BY BlocksAssumption DEF Counted, Capture
  <2> QED BY <1>1, <1>4, <1>5, <2>1
<1>10. Named(ops \o Tail(s), kinds) = r \o q
  BY <1>1, <1>4, NamedConcat
<1>11. CountOf(r \o q, x) = CountOf(r, x) + CountOf(q, x)
  BY <1>5, CountConcat
<1>12. CountOf(p, x) \in Nat /\ CountOf(q, x) \in Nat /\ CountOf(r, x) \in Nat
  BY <1>5, CountPositive
<1>13. One(p[1] = x) = One(Head(s).op \in kinds /\ Head(s).on = x)
  BY <1>1, <1>9
<1>14. One(p[1] = x) \in {0, 1}
  BY DEF One
<1>15. PICK b \in {0, 1} : b = One(Head(s).op \in kinds /\ Head(s).on = x)
  BY <1>13, <1>14
<1>16. PICK i \in Nat, j \in Nat, l \in Nat : i = CountOf(p, x) /\ j = CountOf(q, x) /\ l = CountOf(r, x)
  BY <1>12
<1>17. i = b + j /\ CountOf(Named(ops \o Tail(s), kinds), x) = l + j
  BY <1>8, <1>10, <1>11, <1>13, <1>15, <1>16
<1>18. CountOf(Named(s, kinds), x) = i /\ CountOf(Named(ops, kinds), x) = l
  BY <1>4, <1>16
<1>19. l + j = l + i - b /\ i >= b
  BY <1>15, <1>16, <1>17
<1> QED BY <1>15, <1>17, <1>18, <1>19

\* No operations are on nothing.
LEMMA NoneNamed ==
  ASSUME NEW kinds, NEW x
  PROVE  <<>> \in Seq(FirstOp) /\ CountOf(Named(<<>>, kinds), x) = 0
<1>1. <<>> \in Seq(FirstOp) /\ Len(<<>>) = 0
  BY EmptySeq
<1>2. Named(<<>>, kinds) \in Seq(Name) /\ Len(Named(<<>>, kinds)) = 0
  BY <1>1, NamedIs
<1>3. Named(<<>>, kinds) = <<>>
  BY <1>2, EmptySeq
<1> QED BY <1>1, <1>3, CountEmpty

\* A single operation is on one thing, if it is of the kinds.
LEMMA OneNamed ==
  ASSUME NEW o \in FirstOp, NEW kinds, NEW x \in Counted
  PROVE  /\ <<o>> \in Seq(FirstOp) /\ Len(<<o>>) = 1 /\ <<o>>[1] = o
         /\ CountOf(Named(<<o>>, kinds), x) = One(o.op \in kinds /\ o.on = x)
<1>1. <<o>> \in Seq(FirstOp) /\ Len(<<o>>) = 1 /\ <<o>>[1] = o
  OBVIOUS
<1>2. PICK y : y = IF o.op \in kinds THEN o.on ELSE NULL
  OBVIOUS
<1>3. PICK f : f = Named(<<o>>, kinds)
  OBVIOUS
<1>4. f \in Seq(Name) /\ Len(f) = 1 /\ f[1] = y
  <2>1. PICK s : s = <<o>> /\ s \in Seq(FirstOp) /\ Len(s) = 1 /\ s[1] = o
    BY <1>1
  <2>2. /\ f \in Seq(Name) /\ Len(f) = 1
        /\ \A i \in 1 .. 1 : f[i] = IF s[i].op \in kinds THEN s[i].on ELSE NULL
    <3>1. /\ Named(s, kinds) \in Seq(Name) /\ Len(Named(s, kinds)) = Len(s)
          /\ \A i \in 1 .. Len(s) :
               Named(s, kinds)[i] = IF s[i].op \in kinds THEN s[i].on ELSE NULL
      <4>1. s \in Seq(FirstOp)
        BY <2>1
      <4> QED BY <4>1, NamedIs
    <3> QED BY <1>3, <2>1, <3>1
  <2>3. f[1] = IF s[1].op \in kinds THEN s[1].on ELSE NULL
    BY <2>2
  <2> QED BY <1>2, <2>1, <2>2, <2>3
<1>5. f = <<y>>
  <2>1. y \in Name
    BY <1>4, ElementOfSeq
  <2>2. <<y>> \in Seq(Name) /\ Len(<<y>>) = 1 /\ <<y>>[1] = y
    BY <2>1
  <2>3. \A i \in 1 .. Len(f) : f[i] = <<y>>[i]
    BY <1>4, <2>2
  <2> QED BY <1>4, <2>2, <2>3, SeqEqual
<1>6. CountOf(f, x) = One(y = x)
  BY <1>5, CountSingle
<1>7. x # NULL
  BY BlocksAssumption DEF Counted, Capture
<1>8. y = x <=> o.op \in kinds /\ o.on = x
  BY <1>2, <1>7
<1> QED BY <1>1, <1>3, <1>6, <1>8

\* No operation of a sequence is of the kinds.
LEMMA NotNamed ==
  ASSUME NEW s \in Seq(FirstOp), NEW kinds, NEW x \in Counted,
         \A i \in 1 .. Len(s) : s[i].op \notin kinds
  PROVE  CountOf(Named(s, kinds), x) = 0
<1>1. /\ Named(s, kinds) \in Seq(Name) /\ Len(Named(s, kinds)) = Len(s)
      /\ \A i \in 1 .. Len(s) : Named(s, kinds)[i] = NULL
  BY NamedIs
<1>2. x # NULL
  BY BlocksAssumption DEF Counted, Capture
<1>3. CountOf(Named(s, kinds), x) \in Nat /\ ~ (CountOf(Named(s, kinds), x) > 0)
  BY <1>1, <1>2, CountPositive
<1> QED BY <1>3

-----------------------------------------------------------------------------
(* References, and what of them one step can change: what one holder has, what *)
(* one object captures, the frame of one thread and its call.                  *)

MemType == [Heap -> {NULL} \cup HeapObject]
HeldType == [Holder -> [Heap -> Nat]]
CallType == [Thread -> Seq(FirstOp)]

Holding(p, x) == IF p \in Holder /\ x \in Heap THEN held[p][x] ELSE 0
Capturing(g, x) == IF g \in Heap THEN CountOf(Holds(g), x) ELSE 0

\* What the sums go over is finite.
LEMMA Finite == IsFiniteSet(Heap) /\ IsFiniteSet(Holder) /\ IsFiniteSet(Thread)
BY BlocksAssumption, FS_Subset

\* What one holder has of x, and what the rest have.
LEMMA HeldSplit ==
  ASSUME NEW p, NEW x, held \in HeldType, held' \in HeldType,
         \A q \in Holder \ {p} : held'[q] = held[q]
  PROVE  \E rest \in Nat : /\ Held(x) = rest + Holding(p, x)
                           /\ Held(x)' = rest + Holding(p, x)'
<1>1. PICK f, g : /\ f = [q \in Holder |-> IF x \in Heap THEN held[q][x] ELSE 0]
                  /\ g = [q \in Holder |-> IF x \in Heap THEN held'[q][x] ELSE 0]
  OBVIOUS
<1>2. Held(x) = SumFunction(f) /\ Held(x)' = SumFunction(g)
  BY <1>1 DEF Held
<1>3. f \in [Holder -> Nat] /\ g \in [Holder -> Nat]
  BY <1>1 DEF HeldType
<1>4. CASE p \in Holder
  <2>1. \A q \in Holder \ {p} : f[q] = g[q]
    BY <1>1
  <2>2. f[p] = Holding(p, x) /\ g[p] = Holding(p, x)'
    BY <1>1, <1>4 DEF Holding
  <2>3. \E rest \in Nat : SumFunction(f) = f[p] + rest /\ SumFunction(g) = g[p] + rest
    BY <1>3, <1>4, <2>1, Finite, SumSplits
  <2>4. f[p] \in Nat /\ g[p] \in Nat
    BY <1>3, <1>4
  <2> QED BY <1>2, <2>2, <2>3, <2>4
<1>5. CASE p \notin Holder
  <2>1. f = g
    BY <1>1, <1>5
  <2>2. Holding(p, x) = 0 /\ Holding(p, x)' = 0
    BY <1>5 DEF Holding
  <2>3. SumFunction(f) \in Nat
    BY <1>3, Finite, SumType
  <2> QED BY <1>2, <2>1, <2>2, <2>3
<1> QED BY <1>4, <1>5

\* What an address holds is a sequence, of nothing if it is free.
LEMMA HoldsType ==
  ASSUME NEW m \in MemType, NEW h \in Heap
  PROVE  (IF m[h] = NULL THEN <<>> ELSE m[h].holds) \in Seq(Counted)
BY EmptySeq DEF MemType, HeapObject, Counted

\* What one block captures of x, and what the rest capture.
LEMMA CapturedSplit ==
  ASSUME NEW e, NEW x, mem \in MemType, mem' \in MemType,
         \A k \in Heap \ {e} : Holds(k)' = Holds(k)
  PROVE  \E rest \in Nat : /\ Captured(x) = rest + Capturing(e, x)
                           /\ Captured(x)' = rest + Capturing(e, x)'
<1>1. PICK f, g : /\ f = [h \in Heap |-> Times(Holds(h), x)]
                  /\ g = [h \in Heap |-> Times(Holds(h)', x)]
  OBVIOUS
<1>2. Captured(x) = SumFunction(f) /\ Captured(x)' = SumFunction(g)
  BY <1>1 DEF Captured
<1>3. \A h \in Heap : Holds(h) \in Seq(Counted) /\ Holds(h)' \in Seq(Counted)
  BY HoldsType DEF Holds
<1>4. \A h \in Heap : f[h] = CountOf(Holds(h), x) /\ g[h] = CountOf(Holds(h)', x)
  BY <1>1, TimesIs
<1>5. f \in [Heap -> Nat] /\ g \in [Heap -> Nat]
  <2>1. \A h \in Heap : CountOf(Holds(h), x) \in Nat /\ CountOf(Holds(h)', x) \in Nat
    BY <1>3, CountPositive
  <2>2. DOMAIN f = Heap /\ DOMAIN g = Heap /\ f = [h \in Heap |-> f[h]] /\ g = [h \in Heap |-> g[h]]
    BY <1>1
  <2> QED BY <1>4, <2>1, <2>2
<1>6. CASE e \in Heap
  <2>1. \A q \in Heap \ {e} : f[q] = g[q]
    BY <1>4
  <2>2. f[e] = Capturing(e, x) /\ g[e] = Capturing(e, x)'
    BY <1>4, <1>6 DEF Capturing
  <2>3. \E rest \in Nat : SumFunction(f) = f[e] + rest /\ SumFunction(g) = g[e] + rest
    BY <1>5, <1>6, <2>1, Finite, SumSplits
  <2>4. f[e] \in Nat /\ g[e] \in Nat
    BY <1>5, <1>6
  <2> QED BY <1>2, <2>2, <2>3, <2>4
<1>7. CASE e \notin Heap
  <2>1. f = g
    BY <1>4, <1>5, <1>7
  <2>2. Capturing(e, x) = 0 /\ Capturing(e, x)' = 0
    BY <1>7 DEF Capturing
  <2>3. SumFunction(f) \in Nat
    BY <1>5, Finite, SumType
  <2> QED BY <1>2, <2>1, <2>2, <2>3
<1> QED BY <1>6, <1>7

\* The frame of one thread, and the rest.
LEMMA FramesSplit ==
  ASSUME NEW t \in Thread, NEW x,
         \A u \in Thread \ {t} : forwarding'[u] = forwarding[u]
  PROVE  \E rest \in Nat : /\ Frames(x) = rest + One(forwarding[t] = x)
                           /\ Frames(x)' = rest + One(forwarding'[t] = x)
<1>1. PICK S \in SUBSET Thread, T \in SUBSET Thread :
        S = {u \in Thread : forwarding[u] = x} /\ T = {u \in Thread : forwarding'[u] = x}
  OBVIOUS
<1>2. S \ {t} = T \ {t}
  BY <1>1
<1>3. /\ Cardinality(S) \in Nat /\ Cardinality(T) \in Nat
      /\ Cardinality(T) = Cardinality(S) + One(t \in T) - One(t \in S)
      /\ One(t \in S) \in {0, 1} /\ One(t \in T) \in {0, 1}
      /\ One(t \in S) <= Cardinality(S)
  <2>1. IsFiniteSet(Thread)
    BY Finite
  <2>2. /\ Cardinality(S) \in Nat /\ Cardinality(T) \in Nat
        /\ Cardinality(T) = Cardinality(S) + One(t \in T) - One(t \in S)
    BY <1>2, <2>1, OneMember
  <2>3. One(t \in S) <= Cardinality(S)
    BY <1>2, <2>1, OneMember
  <2>4. One(t \in S) \in {0, 1} /\ One(t \in T) \in {0, 1}
    BY DEF One
  <2> QED BY <2>2, <2>3, <2>4
<1>4. One(t \in S) = One(forwarding[t] = x) /\ One(t \in T) = One(forwarding'[t] = x)
  BY <1>1 DEF One
<1>5. Frames(x) = Cardinality(S) /\ Frames(x)' = Cardinality(T)
  BY <1>1 DEF Frames
<1>6. PICK i \in {0, 1}, j \in {0, 1}, m \in Nat :
        i = One(t \in S) /\ j = One(t \in T) /\ m = Cardinality(S)
  BY <1>3
<1>7. m - i \in Nat /\ Cardinality(S) = m - i + i /\ Cardinality(T) = m - i + j
  BY <1>3, <1>6
<1> QED BY <1>4, <1>5, <1>6, <1>7

\* What one call owes x, and what the rest owe.
LEMMA DueSplit ==
  ASSUME NEW t \in Thread, NEW x, NEW kinds, call \in CallType, call' \in CallType,
         \A u \in Thread \ {t} : call'[u] = call[u]
  PROVE  \E rest \in Nat : /\ Due(kinds, x) = rest + CountOf(Named(call[t], kinds), x)
                           /\ Due(kinds, x)' = rest + CountOf(Named(call'[t], kinds), x)
<1>1. PICK f, g : /\ f = [u \in Thread |-> Times(Named(call[u], kinds), x)]
                  /\ g = [u \in Thread |-> Times(Named(call'[u], kinds), x)]
  OBVIOUS
<1>2. Due(kinds, x) = SumFunction(f) /\ Due(kinds, x)' = SumFunction(g)
  BY <1>1 DEF Due
<1>3. \A u \in Thread : /\ f[u] = CountOf(Named(call[u], kinds), x)
                        /\ g[u] = CountOf(Named(call'[u], kinds), x)
  BY <1>1, TimesIs
<1>4. f \in [Thread -> Nat] /\ g \in [Thread -> Nat]
  <2>1. ASSUME NEW u \in Thread PROVE f[u] \in Nat /\ g[u] \in Nat
    <3>1. PICK a \in Seq(FirstOp), b \in Seq(FirstOp) : a = call[u] /\ b = call'[u]
      BY DEF CallType
    <3>2. Named(a, kinds) \in Seq(Name) /\ Named(b, kinds) \in Seq(Name)
      BY NamedIs
    <3> QED BY <1>3, <3>1, <3>2, CountPositive
  <2>2. f = [u \in Thread |-> f[u]] /\ g = [u \in Thread |-> g[u]]
    BY <1>1
  <2> QED BY <2>1, <2>2
<1>5. \A u \in Thread \ {t} : f[u] = g[u]
  BY <1>1
<1>6. \E rest \in Nat : SumFunction(f) = f[t] + rest /\ SumFunction(g) = g[t] + rest
  BY <1>4, <1>5, Finite, SumSplits
<1>7. f[t] \in Nat /\ g[t] \in Nat
  BY <1>4
<1> QED BY <1>2, <1>3, <1>6, <1>7

\* The same for all of them together.
LEMMA ReferencesSplit ==
  ASSUME NEW t \in Thread, NEW p, NEW e, NEW x \in Counted,
         held \in HeldType, held' \in HeldType, mem \in MemType, mem' \in MemType,
         call \in CallType, call' \in CallType,
         \A q \in Holder \ {p} : held'[q] = held[q],
         \A k \in Heap \ {e} : Holds(k)' = Holds(k),
         \A u \in Thread \ {t} : forwarding'[u] = forwarding[u],
         \A u \in Thread \ {t} : call'[u] = call[u]
  PROVE  \E rest \in Nat :
           /\ References(x) = rest + Holding(p, x) + Capturing(e, x) + One(forwarding[t] = x)
                                + CountOf(Named(call[t], OwnOrGive), x)
           /\ References(x)' = rest + Holding(p, x)' + Capturing(e, x)' + One(forwarding'[t] = x)
                                + CountOf(Named(call'[t], OwnOrGive), x)
<1>1. PICK a \in Nat : Held(x) = a + Holding(p, x) /\ Held(x)' = a + Holding(p, x)'
  BY HeldSplit
<1>2. PICK b \in Nat : Captured(x) = b + Capturing(e, x) /\ Captured(x)' = b + Capturing(e, x)'
  BY CapturedSplit
<1>3. PICK c \in Nat : /\ Frames(x) = c + One(forwarding[t] = x)
                       /\ Frames(x)' = c + One(forwarding'[t] = x)
  BY FramesSplit
<1>4. PICK d \in Nat : /\ Due(OwnOrGive, x) = d + CountOf(Named(call[t], OwnOrGive), x)
                       /\ Due(OwnOrGive, x)' = d + CountOf(Named(call'[t], OwnOrGive), x)
  BY DueSplit
<1>5. /\ References(x) = Held(x) + Captured(x) + Frames(x) + Due(OwnOrGive, x)
      /\ References(x)' = Held(x)' + Captured(x)' + Frames(x)' + Due(OwnOrGive, x)'
  BY DEF References, OwnOrGive
<1>6. /\ Holding(p, x) \in Nat /\ Holding(p, x)' \in Nat
  BY DEF Holding, HeldType
<1>7. Capturing(e, x) \in Nat /\ Capturing(e, x)' \in Nat
  <2>1. e \in Heap => Holds(e) \in Seq(Counted) /\ Holds(e)' \in Seq(Counted)
    BY HoldsType DEF Holds
  <2> QED BY <2>1, CountPositive DEF Capturing
<1>8. One(forwarding[t] = x) \in Nat /\ One(forwarding'[t] = x) \in Nat
  BY DEF One
<1>9. /\ CountOf(Named(call[t], OwnOrGive), x) \in Nat
      /\ CountOf(Named(call'[t], OwnOrGive), x) \in Nat
  <2>1. PICK r \in Seq(FirstOp), s \in Seq(FirstOp) : r = call[t] /\ s = call'[t]
    BY DEF CallType
  <2>2. Named(r, OwnOrGive) \in Seq(Name) /\ Named(s, OwnOrGive) \in Seq(Name)
    BY NamedIs
  <2> QED BY <2>1, <2>2, CountPositive
<1>10. PICK i \in Nat, j \in Nat, k \in Nat, l \in Nat :
         /\ i = Holding(p, x) /\ j = Capturing(e, x)
         /\ k = One(forwarding[t] = x) /\ l = CountOf(Named(call[t], OwnOrGive), x)
  BY <1>6, <1>7, <1>8, <1>9
<1>11. PICK i2 \in Nat, j2 \in Nat, k2 \in Nat, l2 \in Nat :
         /\ i2 = Holding(p, x)' /\ j2 = Capturing(e, x)'
         /\ k2 = One(forwarding'[t] = x) /\ l2 = CountOf(Named(call'[t], OwnOrGive), x)
  BY <1>6, <1>7, <1>8, <1>9
<1>12. /\ References(x) = (a + i) + (b + j) + (c + k) + (d + l)
       /\ References(x)' = (a + i2) + (b + j2) + (c + k2) + (d + l2)
  BY <1>1, <1>2, <1>3, <1>4, <1>5, <1>10, <1>11
<1>13. PICK rest \in Nat : rest = a + b + c + d
  OBVIOUS
<1>14. References(x) = rest + i + j + k + l /\ References(x)' = rest + i2 + j2 + k2 + l2
  BY <1>12, <1>13
<1> QED BY <1>10, <1>11, <1>14

-----------------------------------------------------------------------------
(* What a step does to the calls.                                              *)

\* Operations that a call goes on with in place of its first.
Follows(ops) ==
    /\ ops \in Seq(FirstOp)
    /\ \A i \in 1 .. Len(ops) : ops[i].op # "return"
    /\ \A i \in 2 .. Len(ops) : ops[i] \in LaterOp

\* A call that goes on is a call still, and counts for what has come and gone.
LEMMA CallGoesOn ==
  ASSUME NEW s, CallOK(s), s # <<>>, NEW ops, Follows(ops)
  PROVE  CallOK(ops \o Tail(s))
<1>1. s \in Seq(FirstOp) /\ ops \in Seq(FirstOp)
  BY DEF CallOK, Follows
<1>2. PICK n \in Nat \ {0}, k \in Nat :
        /\ n = Len(s) /\ n = k + 1 /\ 1 \in 1 .. n
        /\ Head(s) = s[1] /\ s[1] \in FirstOp
        /\ Tail(s) \in Seq(FirstOp) /\ Len(Tail(s)) = k /\ \A i \in 1 .. k : Tail(s)[i] = s[i + 1]
  BY <1>1, FirstAndRest
<1>3. PICK m \in Nat : m = Len(ops)
  BY <1>1, LenProperties
<1>4. PICK r : r = Tail(s)
  OBVIOUS
<1>5. r \in Seq(FirstOp) /\ Len(r) = k /\ \A i \in 1 .. k : r[i] = s[i + 1]
  BY <1>2, <1>4
<1>6. PICK c : c = ops \o r
  OBVIOUS
<1>7. /\ c \in Seq(FirstOp) /\ Len(c) = m + k
      /\ \A i \in 1 .. m + k : c[i] = IF i <= m THEN ops[i] ELSE r[i - m]
  <2>1. r \in Seq(FirstOp) /\ Len(r) = k
    BY <1>5
  <2> QED BY <1>1, <1>3, <1>6, <2>1, ConcatProperties
<1>8. ASSUME NEW i \in 1 .. m + k, i > m
      PROVE  /\ i - m + 1 \in 2 .. n /\ c[i] = s[i - m + 1]
             /\ i # m + k => i - m + 1 \in 1 .. n - 1
  <2>1. i - m \in 1 .. k /\ ~ (i <= m) /\ i - m + 1 \in 2 .. n
    BY <1>2, <1>8
  <2>2. c[i] = r[i - m]
    BY <1>7, <2>1
  <2>3. r[i - m] = s[i - m + 1]
    BY <1>5, <2>1
  <2>4. i # m + k => i - m + 1 \in 1 .. n - 1
    BY <1>2, <1>8
  <2> QED BY <2>1, <2>2, <2>3, <2>4
<1>9. ASSUME NEW i \in 2 .. Len(c) PROVE c[i] \in LaterOp
  <2>1. i \in 1 .. m + k
    BY <1>7
  <2>2. CASE i <= m
    <3>1. i \in 2 .. m /\ c[i] = ops[i]
      BY <1>7, <2>1, <2>2
    <3> QED BY <1>3, <3>1 DEF Follows
  <2>3. CASE i > m
    <3>1. i - m + 1 \in 2 .. n /\ c[i] = s[i - m + 1]
      BY <1>8, <2>1, <2>3
    <3> QED BY <1>2, <3>1 DEF CallOK
  <2> QED BY <2>1, <2>2, <2>3
<1>10. ASSUME NEW i \in 1 .. Len(c) - 1 PROVE c[i].op # "return"
  <2>1. i \in 1 .. m + k /\ i # m + k
    BY <1>7
  <2>2. CASE i <= m
    <3>1. i \in 1 .. m /\ c[i] = ops[i]
      BY <1>7, <2>1, <2>2
    <3> QED BY <1>3, <3>1 DEF Follows
  <2>3. CASE i > m
    <3>1. i - m + 1 \in 1 .. n - 1 /\ c[i] = s[i - m + 1]
      BY <1>8, <2>1, <2>3
    <3> QED BY <1>2, <3>1 DEF CallOK
  <2> QED BY <2>1, <2>2, <2>3
<1>11. CallOK(c)
  BY <1>7, <1>9, <1>10 DEF CallOK
<1> QED BY <1>6, <1>11, <1>4

\* The first operation is gone, the others wait behind the new ones.
Goes(t, ops, rest) ==
    /\ call' \in CallType
    /\ \A u \in Thread \ {t} : call'[u] = call[u] /\ Ops(u)' = Ops(u)
    /\ rest \subseteq LaterOp
    /\ Ops(t) = {This(t)} \cup rest /\ Ops(t)' = Elems(ops) \cup rest

\* The first operation of a call gives way to others, the rest stay behind
\* them.
LEMMA Continues ==
  ASSUME CallsOK, NEW t \in Thread, call[t] # <<>>, NEW ops, Follows(ops), Continue(t, ops)
  PROVE  /\ CallsOK' /\ This(t) \in FirstOp /\ This(t) \in Ops(t)
         /\ call'[t] = ops \o Tail(call[t])
         /\ \E rest : Goes(t, ops, rest)
<1>1. PICK s, c : s = call[t] /\ c = ops \o Tail(s)
  OBVIOUS
<1>2. s \in Seq(FirstOp) /\ s # <<>> /\ CallOK(s) /\ ops \in Seq(FirstOp)
  BY <1>1 DEF CallsOK, Follows
<1>3. CallOK(c) /\ c \in Seq(FirstOp)
  BY <1>1, <1>2, CallGoesOn DEF CallOK
<1>4. call' = [call EXCEPT ![t] = c]
  BY <1>1 DEF Continue
<1>5. call \in [Thread -> Seq(FirstOp)] /\ \A u \in Thread : CallOK(call[u])
  BY DEF CallsOK
<1>6. /\ call' \in [Thread -> Seq(FirstOp)] /\ call'[t] = c
      /\ \A u \in Thread \ {t} : call'[u] = call[u]
  BY <1>3, <1>4, <1>5
<1>7. CallsOK'
  BY <1>3, <1>5, <1>6 DEF CallsOK, CallOK
<1>8. /\ Elems(s) = {Head(s)} \cup Elems(Tail(s)) /\ Elems(c) = Elems(ops) \cup Elems(Tail(s))
      /\ Head(s) \in FirstOp
  BY <1>1, <1>2, Replaced
<1>9. Elems(Tail(s)) \subseteq LaterOp
  <2>1. /\ Tail(s) \in Seq(FirstOp) /\ Len(Tail(s)) = Len(s) - 1
        /\ \A i \in 1 .. Len(Tail(s)) : Tail(s)[i] = s[i + 1]
    BY <1>2, HeadTailProperties
  <2>2. Len(s) \in Nat
    BY <1>2, LenProperties
  <2>3. ASSUME NEW i \in 1 .. Len(Tail(s)) PROVE Tail(s)[i] \in LaterOp
    <3>1. i + 1 \in 2 .. Len(s) /\ Tail(s)[i] = s[i + 1]
      BY <2>1, <2>2
    <3> QED BY <1>2, <3>1 DEF CallOK
  <2> QED BY <2>3 DEF Elems
<1>10. \A u \in Thread : Ops(u) = Elems(call[u]) /\ Ops(u)' = Elems(call'[u])
  BY DEF Ops, Elems
<1>11. This(t) = Head(s)
  BY <1>1 DEF This
<1>12. Goes(t, ops, Elems(Tail(s)))
  BY <1>1, <1>6, <1>8, <1>9, <1>10, <1>11 DEF Goes, CallType
<1>13. call'[t] = ops \o Tail(call[t])
  BY <1>1, <1>6
<1> QED BY <1>1, <1>7, <1>8, <1>10, <1>11, <1>12, <1>13

\* A call that begins.
LEMMA Begins1 ==
  ASSUME CallsOK, NEW t \in Thread, call[t] = <<>>, NEW ops, CallOK(ops),
         call' = [call EXCEPT ![t] = ops]
  PROVE  /\ CallsOK' /\ call'[t] = ops /\ call' \in CallType
         /\ \A u \in Thread \ {t} : call'[u] = call[u] /\ Ops(u)' = Ops(u)
         /\ Ops(t) = {} /\ Ops(t)' = Elems(ops)
<1>1. call \in [Thread -> Seq(FirstOp)] /\ \A u \in Thread : CallOK(call[u])
  BY DEF CallsOK
<1>2. ops \in Seq(FirstOp)
  BY DEF CallOK
<1>3. /\ call' \in [Thread -> Seq(FirstOp)] /\ call'[t] = ops
      /\ \A u \in Thread \ {t} : call'[u] = call[u]
  BY <1>1, <1>2
<1>4. CallsOK'
  BY <1>1, <1>3 DEF CallsOK, CallOK
<1>5. \A u \in Thread : Ops(u) = Elems(call[u]) /\ Ops(u)' = Elems(call'[u])
  BY DEF Ops, Elems
<1>6. Elems(<<>>) = {}
  <2>1. Len(<<>>) = 0
    BY EmptySeq
  <2> QED BY <2>1 DEF Elems
<1> QED BY <1>3, <1>4, <1>5, <1>6 DEF CallType

\* One operation can follow, and can be a call.
LEMMA OneFollows ==
  ASSUME NEW o \in FirstOp
  PROVE  /\ CallOK(<<o>>) /\ Elems(<<o>>) = {o} /\ <<o>> \in Seq(FirstOp)
         /\ o.op # "return" => Follows(<<o>>)
<1>1. PICK s : s = <<o>>
  OBVIOUS
<1>2. s \in Seq(FirstOp) /\ Len(s) = 1 /\ s[1] = o
  BY <1>1
<1>3. CallOK(s)
  BY <1>2 DEF CallOK
<1>4. Elems(s) = {o}
  BY <1>2 DEF Elems
<1>5. o.op # "return" => Follows(s)
  BY <1>2 DEF Follows
<1> QED BY <1>1, <1>2, <1>3, <1>4, <1>5

\* No operation can follow, too.
LEMMA NoneFollow == CallOK(<<>>) /\ Elems(<<>>) = {} /\ Follows(<<>>)
<1>1. <<>> \in Seq(FirstOp) /\ Len(<<>>) = 0
  BY EmptySeq
<1> QED BY <1>1 DEF CallOK, Elems, Follows

\* The operations that begin a copy, and those that end an object.
LEMMA AssignsFollow ==
  ASSUME NEW l \in Lit, NEW h \in Heap
  PROVE  /\ Follows(Assigns(h, l)) /\ Assigns(h, l) \in Seq(LaterOp)
         /\ \A o \in Elems(Assigns(h, l)) : o \in LaterOp /\ o.op = "assign" /\ o.to = h
         /\ \A x \in Counted : /\ CountOf(Named(Assigns(h, l), OwnOrGive), x) = 0
                               /\ CountOf(Named(Assigns(h, l), ToFree), x) = 0
<1>1. PICK n \in Nat : n = Len(captures[l]) /\ \A i \in 1 .. n : captures[l][i] \in Capture
  <2>1. captures[l] \in Seq(Capture)
    BY BlocksAssumption
  <2> QED BY <2>1, LenProperties, ElementOfSeq
<1>2. PICK s : s = Assigns(h, l)
  OBVIOUS
<1>3. s = [i \in 1 .. n |-> Op("assign", captures[l][i], h)]
  BY <1>1, <1>2 DEF Assigns
<1>4. ASSUME NEW i \in 1 .. n
      PROVE  s[i] \in LaterOp /\ s[i].op = "assign" /\ s[i].to = h
  <2>1. s[i] = [op |-> "assign", on |-> captures[l][i], to |-> h, old |-> NULL]
    BY <1>3 DEF Op
  <2> QED BY <1>1, <2>1 DEF LaterOp
<1>5. s \in Seq(LaterOp) /\ Len(s) = n
  <2>1. s \in [1 .. n -> LaterOp]
    BY <1>3, <1>4
  <2> QED BY <2>1
<1>6. s \in Seq(FirstOp)
  BY <1>5, SeqMonotonic DEF FirstOp
<1>7. Follows(s)
  BY <1>4, <1>5, <1>6 DEF Follows
<1>8. \A o \in Elems(s) : o \in LaterOp /\ o.op = "assign" /\ o.to = h
  BY <1>4, <1>5 DEF Elems
<1>9. \A x \in Counted : /\ CountOf(Named(s, OwnOrGive), x) = 0
                         /\ CountOf(Named(s, ToFree), x) = 0
  BY <1>4, <1>5, <1>6, NotNamed DEF OwnOrGive, ToFree
<1> QED BY <1>2, <1>5, <1>7, <1>8, <1>9

\* What the copy of a literal begins with.
Copies(ops, h, l, p) == ops = Assigns(h, l) \o <<Op("return", h, p)>>

\* A copy assigns what the literal captures, then returns its block, which
\* counts once.
LEMMA CopyBegins ==
  ASSUME NEW l \in Lit, NEW h \in Heap, NEW p \in Holder, NEW ops, Copies(ops, h, l, p)
  PROVE  /\ CallOK(ops)
         /\ \A o \in Elems(ops) : /\ o.op \in {"assign", "return"}
                                  /\ o.op = "assign" => o.to = h
                                  /\ o.op = "return" => o = Op("return", h, p)
         /\ Op("return", h, p) \in Elems(ops)
         /\ \A x \in Counted : /\ CountOf(Named(ops, OwnOrGive), x) = One(x = h)
                               /\ CountOf(Named(ops, ToFree), x) = 0
<1>1. PICK a : a = Assigns(h, l)
  OBVIOUS
<1>2. PICK n \in Nat : n = Len(a) /\ a \in Seq(LaterOp) /\ a \in Seq(FirstOp)
  <2>1. a \in Seq(LaterOp) /\ a \in Seq(FirstOp)
    BY <1>1, AssignsFollow DEF Follows
  <2> QED BY <2>1, LenProperties
<1>3. PICK r : r = Op("return", h, p)
  OBVIOUS
<1>4. r \in LaterOp /\ r \in FirstOp /\ r.op = "return" /\ r.on = h /\ r.to = p
  BY <1>3 DEF Op, LaterOp, FirstOp
<1>5. /\ ops \in Seq(FirstOp) /\ Len(ops) = n + 1 /\ ops[n + 1] = r
      /\ \A i \in 1 .. n : ops[i] = a[i]
  <2>1. PICK e : e = <<r>>
    OBVIOUS
  <2>2. e \in Seq(FirstOp) /\ Len(e) = 1 /\ e[1] = r
    BY <1>4, <2>1
  <2>3. PICK c : c = a \o e
    OBVIOUS
  <2>4. /\ c \in Seq(FirstOp) /\ Len(c) = n + 1
        /\ \A i \in 1 .. n + 1 : c[i] = IF i <= n THEN a[i] ELSE e[i - n]
    <3>1. a \in Seq(FirstOp) /\ Len(a) = n /\ e \in Seq(FirstOp) /\ Len(e) = 1
      BY <1>2, <2>2
    <3>2. /\ a \o e \in Seq(FirstOp) /\ Len(a \o e) = Len(a) + Len(e)
          /\ \A i \in 1 .. Len(a) + Len(e) :
               (a \o e)[i] = IF i <= Len(a) THEN a[i] ELSE e[i - Len(a)]
      <4>1. a \in Seq(FirstOp) /\ e \in Seq(FirstOp)
        BY <3>1
      <4> QED BY <4>1, ConcatProperties
    <3> QED BY <2>3, <3>1, <3>2
  <2>5. ops = c
    BY <1>1, <1>3, <2>1, <2>3 DEF Copies
  <2>6. n + 1 \in 1 .. n + 1 /\ ~ (n + 1 <= n) /\ n + 1 - n = 1
    OBVIOUS
  <2>7. \A i \in 1 .. n : i \in 1 .. n + 1 /\ i <= n
    OBVIOUS
  <2>8. c[n + 1] = e[1] /\ \A i \in 1 .. n : c[i] = a[i]
    BY <2>4, <2>6, <2>7
  <2> QED BY <2>2, <2>4, <2>5, <2>8
<1>6. \A i \in 1 .. n : a[i] \in LaterOp /\ a[i].op = "assign" /\ a[i].to = h
  BY <1>1, <1>2, AssignsFollow DEF Elems
<1>7. \A i \in 1 .. n + 1 : \/ i \in 1 .. n /\ ops[i] = a[i]
                            \/ i = n + 1 /\ ops[i] = r
  BY <1>5
<1>8. CallOK(ops)
  <2>1. \A i \in 1 .. n + 1 : ops[i] \in LaterOp
    BY <1>4, <1>6, <1>7
  <2>2. \A i \in 1 .. n + 1 - 1 : i \in 1 .. n
    OBVIOUS
  <2>3. \A i \in 1 .. n : ops[i].op # "return"
    BY <1>5, <1>6
  <2>4. \A i \in 2 .. n + 1 : i \in 1 .. n + 1
    OBVIOUS
  <2> QED BY <1>5, <2>1, <2>2, <2>3, <2>4 DEF CallOK
<1>9. ASSUME NEW o \in Elems(ops)
      PROVE  o = r \/ (o.op = "assign" /\ o.to = h)
  BY <1>5, <1>6, <1>7 DEF Elems
<1>10. r \in Elems(ops)
  <2>1. n + 1 \in 1 .. n + 1
    OBVIOUS
  <2> QED BY <1>5, <2>1 DEF Elems
<1>11. ASSUME NEW x \in Counted
       PROVE  /\ CountOf(Named(ops, OwnOrGive), x) = One(x = h)
              /\ CountOf(Named(ops, ToFree), x) = 0
  <2>1. <<r>> \in Seq(FirstOp)
    BY <1>4
  <2>2. \A kinds : Named(ops, kinds) = Named(a, kinds) \o Named(<<r>>, kinds)
    <3>1. a \in Seq(FirstOp)
      BY <1>2
    <3>2. \A kinds : Named(a \o <<r>>, kinds) = Named(a, kinds) \o Named(<<r>>, kinds)
      BY <2>1, <3>1, NamedConcat
    <3>3. ops = a \o <<r>>
      BY <1>1, <1>3 DEF Copies
    <3> QED BY <3>2, <3>3
  <2>3. \A kinds : Named(a, kinds) \in Seq(Name) /\ Named(<<r>>, kinds) \in Seq(Name)
    BY <1>2, <2>1, NamedIs
  <2>4. \A kinds : CountOf(Named(ops, kinds), x)
                     = CountOf(Named(a, kinds), x) + CountOf(Named(<<r>>, kinds), x)
    <3> TAKE kinds
    <3>1. PICK y, z : y = Named(a, kinds) /\ z = Named(<<r>>, kinds)
      OBVIOUS
    <3>2. y \in Seq(Name) /\ z \in Seq(Name)
      BY <2>3, <3>1
    <3>3. CountOf(y \o z, x) = CountOf(y, x) + CountOf(z, x)
      BY <3>2, CountConcat
    <3> QED BY <2>2, <3>1, <3>3
  <2>5. CountOf(Named(a, OwnOrGive), x) = 0 /\ CountOf(Named(a, ToFree), x) = 0
    BY <1>1, AssignsFollow
  <2>6. /\ CountOf(Named(<<r>>, OwnOrGive), x) = One(r.op \in OwnOrGive /\ r.on = x)
        /\ CountOf(Named(<<r>>, ToFree), x) = One(r.op \in ToFree /\ r.on = x)
    BY <1>4, OneNamed
  <2>7. /\ CountOf(Named(<<r>>, OwnOrGive), x) = One(x = h)
        /\ CountOf(Named(<<r>>, ToFree), x) = 0
    BY <1>4, <2>6 DEF OwnOrGive, ToFree, One
  <2>8. One(x = h) \in {0, 1}
    BY DEF One
  <2> QED BY <2>4, <2>5, <2>7, <2>8
<1> QED BY <1>3, <1>4, <1>8, <1>9, <1>10, <1>11

-----------------------------------------------------------------------------
(* Where references are.                                                       *)

\* An operation that is waiting is counted.
LEMMA DueAtLeast ==
  ASSUME NEW c \in CallType, NEW t \in Thread, NEW o \in Elems(c[t]), NEW kinds,
         NEW x \in Counted, o.op \in kinds, o.on = x
  PROVE  SumFunction([u \in Thread |-> Times(Named(c[u], kinds), x)]) >= 1
<1>1. PICK f : f = [u \in Thread |-> Times(Named(c[u], kinds), x)]
  OBVIOUS
<1>2. \A u \in Thread : f[u] = CountOf(Named(c[u], kinds), x)
  BY <1>1, TimesIs
<1>3. ASSUME NEW u \in Thread PROVE f[u] \in Nat
  <2>1. PICK a \in Seq(FirstOp) : a = c[u]
    BY DEF CallType
  <2>2. Named(a, kinds) \in Seq(Name)
    BY NamedIs
  <2> QED BY <1>2, <2>1, <2>2, CountPositive
<1>4. f \in [Thread -> Nat]
  <2>1. f = [u \in Thread |-> f[u]]
    BY <1>1
  <2> QED BY <1>3, <2>1
<1>5. f[t] >= 1
  <2>1. PICK a \in Seq(FirstOp) : a = c[t]
    BY DEF CallType
  <2>2. PICK i \in 1 .. Len(a) : a[i] = o
    BY <2>1 DEF Elems
  <2>3. PICK n : n = Named(a, kinds)
    OBVIOUS
  <2>4. n \in Seq(Name) /\ Len(n) = Len(a) /\ n[i] = IF a[i].op \in kinds THEN a[i].on ELSE NULL
    BY <2>3, NamedIs
  <2>5. i \in 1 .. Len(n) /\ n[i] = x
    BY <2>2, <2>4
  <2>6. CountOf(n, x) \in Nat /\ CountOf(n, x) > 0
    BY <2>4, <2>5, CountPositive
  <2> QED BY <1>2, <2>1, <2>3, <2>6
<1>6. SumFunction(f) \in Nat /\ SumFunction(f) >= f[t]
  BY <1>4, Finite, SumAtLeast
<1>7. f[t] \in Nat
  BY <1>4
<1> QED BY <1>1, <1>5, <1>6, <1>7

\* What calls owe is a number.
LEMMA DueType ==
  ASSUME NEW c \in CallType, NEW kinds, NEW x
  PROVE  SumFunction([u \in Thread |-> Times(Named(c[u], kinds), x)]) \in Nat
<1>1. PICK f : f = [u \in Thread |-> Times(Named(c[u], kinds), x)]
  OBVIOUS
<1>2. \A u \in Thread : f[u] = CountOf(Named(c[u], kinds), x)
  BY <1>1, TimesIs
<1>3. ASSUME NEW u \in Thread PROVE f[u] \in Nat
  <2>1. PICK a \in Seq(FirstOp) : a = c[u]
    BY DEF CallType
  <2>2. Named(a, kinds) \in Seq(Name)
    BY NamedIs
  <2> QED BY <1>2, <2>1, <2>2, CountPositive
<1>4. f \in [Thread -> Nat]
  <2>1. f = [u \in Thread |-> f[u]]
    BY <1>1
  <2> QED BY <1>3, <2>1
<1> QED BY <1>1, <1>4, Finite, SumType

\* What a holder has is counted.
LEMMA HeldAtLeast ==
  ASSUME held \in HeldType, NEW x
  PROVE  Held(x) \in Nat /\ (x \in Heap => \A p \in Holder : Held(x) >= held[p][x])
<1>1. PICK f : f = [q \in Holder |-> IF x \in Heap THEN held[q][x] ELSE 0]
  OBVIOUS
<1>2. f \in [Holder -> Nat] /\ Held(x) = SumFunction(f)
  BY <1>1 DEF HeldType, Held
<1>3. SumFunction(f) \in Nat
  BY <1>2, Finite, SumType
<1>4. \A p \in Holder : SumFunction(f) >= f[p]
  BY <1>2, Finite, SumAtLeast
<1> QED BY <1>1, <1>2, <1>3, <1>4

\* What a block captures is counted.
LEMMA CapturedAtLeast ==
  ASSUME mem \in MemType, NEW x
  PROVE  Captured(x) \in Nat /\ \A h \in Heap : Captured(x) >= CountOf(Holds(h), x)
<1>1. PICK f : f = [h \in Heap |-> Times(Holds(h), x)]
  OBVIOUS
<1>2. Captured(x) = SumFunction(f)
  BY <1>1 DEF Captured
<1>3. \A h \in Heap : f[h] = CountOf(Holds(h), x) /\ f[h] \in Nat
  <2>1. \A h \in Heap : Holds(h) \in Seq(Counted)
    BY HoldsType DEF Holds
  <2> QED BY <1>1, <2>1, TimesIs, CountPositive
<1>4. f \in [Heap -> Nat]
  <2>1. f = [h \in Heap |-> f[h]]
    BY <1>1
  <2> QED BY <1>3, <2>1
<1>5. SumFunction(f) \in Nat
  BY <1>4, Finite, SumType
<1>6. \A p \in Heap : SumFunction(f) >= f[p]
  BY <1>4, Finite, SumAtLeast
<1> QED BY <1>2, <1>3, <1>5, <1>6

\* The copy a frame uses is counted.
LEMMA FramesAtLeast ==
  ASSUME NEW x
  PROVE  Frames(x) \in Nat /\ \A t \in Thread : forwarding[t] = x => Frames(x) >= 1
<1>1. PICK S \in SUBSET Thread : S = {u \in Thread : forwarding[u] = x}
  OBVIOUS
<1>2. IsFiniteSet(S) /\ Cardinality(S) \in Nat /\ (Cardinality(S) = 0 <=> S = {})
  <2>1. IsFiniteSet(S)
    BY <1>1, Finite, FS_Subset
  <2> QED BY <2>1, FS_CardinalityType, FS_EmptySet
<1>3. Frames(x) = Cardinality(S)
  BY <1>1 DEF Frames
<1>4. ASSUME NEW t \in Thread, forwarding[t] = x PROVE Cardinality(S) >= 1
  <2>1. S # {}
    BY <1>1, <1>4
  <2> QED BY <1>2, <2>1
<1> QED BY <1>2, <1>3, <1>4

\* The types that counting needs.
Counting == mem \in MemType /\ held \in HeldType /\ call \in CallType

\* The invariant has the types that counting needs.
LEMMA CountingOK ==
  ASSUME BlocksTypeOK, CallsOK
  PROVE  Counting
BY DEF BlocksTypeOK, CallsOK, Counting, MemType, HeldType, CallType

Sourced(x) ==
    /\ References(x) \in Nat /\ Due(ToFree, x) \in Nat
    /\ x \in Heap => \A p \in Holder : held[p][x] > 0 => References(x) > 0
    /\ \A h \in Heap : CountOf(Holds(h), x) > 0 => References(x) > 0
    /\ \A t \in Thread : forwarding[t] = x => References(x) > 0
    /\ \A t \in Thread : \A o \in Ops(t) :
         o.op \in OwnOrGive /\ o.on = x => References(x) > 0
    /\ \A t \in Thread : \A o \in Ops(t) :
         o.op \in ToFree /\ o.on = x => Due(ToFree, x) > 0

\* Each kind of reference to x is one of its references.
LEMMA Sources ==
  ASSUME Counting, NEW x \in Counted
  PROVE  Sourced(x)
<1> USE DEF Counting
<1>1. /\ Held(x) \in Nat /\ Captured(x) \in Nat /\ Frames(x) \in Nat
      /\ Due(OwnOrGive, x) \in Nat /\ Due(ToFree, x) \in Nat
  <2>1. Held(x) \in Nat /\ Captured(x) \in Nat /\ Frames(x) \in Nat
    BY HeldAtLeast, CapturedAtLeast, FramesAtLeast
  <2>2. ASSUME NEW kinds PROVE Due(kinds, x) \in Nat
    BY DueType DEF Due
  <2> QED BY <2>1, <2>2
<1>2. References(x) = Held(x) + Captured(x) + Frames(x) + Due(OwnOrGive, x)
  BY DEF References, OwnOrGive
<1>3. ASSUME x \in Heap, NEW p \in Holder, held[p][x] > 0 PROVE Held(x) > 0
  <2>1. held[p][x] \in Nat /\ Held(x) >= held[p][x]
    BY <1>3, HeldAtLeast DEF HeldType
  <2> QED BY <1>1, <1>3, <2>1
<1>4. ASSUME NEW h \in Heap, CountOf(Holds(h), x) > 0 PROVE Captured(x) > 0
  <2>1. Holds(h) \in Seq(Counted)
    BY HoldsType DEF Holds
  <2>2. CountOf(Holds(h), x) \in Nat /\ Captured(x) >= CountOf(Holds(h), x)
    BY <2>1, CountPositive, CapturedAtLeast
  <2> QED BY <1>1, <1>4, <2>2
<1>5. \A t \in Thread : forwarding[t] = x => Frames(x) > 0
  BY <1>1, FramesAtLeast
<1>6. ASSUME NEW t \in Thread, NEW o \in Ops(t), NEW kinds, o.op \in kinds, o.on = x
      PROVE  Due(kinds, x) >= 1
  <2>1. o \in Elems(call[t])
    BY DEF Ops, Elems
  <2> QED BY <1>6, <2>1, DueAtLeast DEF Due
<1>7. \A t \in Thread : \A o \in Ops(t) : o.op \in OwnOrGive /\ o.on = x => Due(OwnOrGive, x) >= 1
  BY <1>6
<1>8. \A t \in Thread : \A o \in Ops(t) : o.op \in ToFree /\ o.on = x => Due(ToFree, x) > 0
  BY <1>1, <1>6
<1> HIDE DEF Counting
<1>9. References(x) \in Nat
  BY <1>1, <1>2
<1>10. ASSUME Held(x) > 0 \/ Captured(x) > 0 \/ Frames(x) > 0 \/ Due(OwnOrGive, x) >= 1
       PROVE  References(x) > 0
  BY <1>1, <1>2, <1>10
<1> QED BY <1>1, <1>3, <1>4, <1>5, <1>7, <1>8, <1>9, <1>10 DEF Sourced

\* Whatever is counted has all of them.
LEMMA AllSourced == Counting => \A x \in Counted : Sourced(x)
BY Sources

\* And has them after a step.
LEMMA SourcedNext == Counting' => \A x \in Counted : Sourced(x)'
<1>1. (Counting => \A x \in Counted : Sourced(x))'
  BY AllSourced, PTL
<1> QED BY <1>1

\* What is referred to is alive.
LEMMA Referred ==
  ASSUME AddressesOK, NEW h \in Heap, References(h) \in Nat, References(h) > 0
  PROVE  mem[h] # NULL /\ ~ mem[h].word.deallocating /\ mem[h].word.count # 0
<1>1. AddressOK(h)
  BY DEF AddressesOK
<1>2. mem[h] # NULL
  BY <1>1 DEF AddressOK
<1>3. /\ mem[h].word.count \in {References(h), BLOCK_REFCOUNT_MASK}
      /\ mem[h].word.deallocating <=> mem[h].word.count = 0
  BY <1>1, <1>2 DEF AddressOK, Fits
<1>4. References(h) # 0 /\ BLOCK_REFCOUNT_MASK # 0
  BY BlocksAssumption
<1> QED BY <1>2, <1>3, <1>4

\* What a thread is copying is alive.
LEMMA BuiltLive ==
  ASSUME Counting, AddressesOK, NEW K \in [Thread -> SUBSET Heap], Building(K),
         NEW t \in Thread, NEW k \in K[t]
  PROVE  k \in Heap /\ mem[k] # NULL /\ ~ mem[k].word.deallocating
<1>1. k \in Heap /\ k \in Counted
  BY DEF Counted
<1>2. Sourced(k)
  BY <1>1, Sources
<1>3. References(k) > 0 /\ References(k) \in Nat
  <2>1. CASE \E o \in Ops(t) : o.op = "return" /\ o.on = k
    BY <1>2, <2>1 DEF OwnOrGive, Sourced
  <2>2. CASE \E g \in K[t] : CountOf(Holds(g), k) > 0
    <3>1. PICK g \in Heap : CountOf(Holds(g), k) > 0
      BY <2>2
    <3> QED BY <1>2, <3>1 DEF Sourced
  <2>3. (\E o \in Ops(t) : o.op = "return" /\ o.on = k) \/ \E g \in K[t] : CountOf(Holds(g), k) > 0
    BY DEF Building, Builds
  <2> QED BY <1>2, <2>1, <2>2, <2>3 DEF Sourced
<1> QED BY <1>1, <1>3, Referred

-----------------------------------------------------------------------------
(* What a step of one thread leaves to the others, and what it carries on.     *)

\* What the operations of a call are on, and for whom.
LEMMA OpFacts ==
  ASSUME NEW o \in FirstOp
  PROVE  /\ o.op \in {"assign", "return", "decr", "free", "incr", "try"}
         /\ o.op = "assign" => o.on \in Capture /\ o.to \in Heap
         /\ o.op = "return" => o.on \in Heap /\ o.to \in Holder
         /\ o.op = "decr" => o.on \in Counted /\ o.to = NULL
         /\ o.op = "free" => o.on \in Heap /\ o.to = NULL
         /\ o.op = "incr" => o.on \in Heap /\ o.to \in Heap \cup Holder
         /\ o.op = "try" => o.on \in Heap /\ o.to \in Holder
         /\ o.op \in {"incr", "try"} => o \notin LaterOp
<1> USE DEF FirstOp, LaterOp, Counted
<1>1. o.op \in {"assign", "return", "decr", "free", "incr", "try"}
  OBVIOUS
<1>2. /\ o.op = "assign" => o.on \in Capture /\ o.to \in Heap
      /\ o.op = "return" => o.on \in Heap /\ o.to \in Holder
  OBVIOUS
<1>3. /\ o.op = "decr" => o.on \in Counted /\ o.to = NULL
      /\ o.op = "free" => o.on \in Heap /\ o.to = NULL
  OBVIOUS
<1>4. /\ o.op = "incr" => o.on \in Heap /\ o.to \in Heap \cup Holder
      /\ o.op = "try" => o.on \in Heap /\ o.to \in Holder
  OBVIOUS
<1>5. o.op \in {"incr", "try"} => o \notin LaterOp
  OBVIOUS
<1> QED BY <1>1, <1>2, <1>3, <1>4, <1>5

\* Operations of a call are typed.
LEMMA OpsTyped ==
  ASSUME CallsOK, NEW t \in Thread, NEW o \in Ops(t)
  PROVE  o \in FirstOp
<1>1. PICK s \in Seq(FirstOp) : s = call[t]
  BY DEF CallsOK
<1>2. PICK i \in 1 .. Len(s) : o = s[i]
  BY <1>1 DEF Ops
<1> QED BY <1>2, ElementOfSeq

\* An object that is referred to, or a weak variable of which is being loaded.
Wanted(h) ==
    References(h) > 0 \/ \E u \in Thread : \E o \in Ops(u) : o.op = "try" /\ o.on = h

\* Such an object stays, and of its kind.
StaysAlive ==
    \A h \in Heap : mem[h] # NULL /\ Wanted(h) => mem'[h] # NULL /\ mem'[h].kind = mem[h].kind

\* The other threads keep their calls, their frames, what they hold and what they
\* are copying, of which nothing is among S; and only blocks get to be held.
Apart(t, S, K) ==
    /\ \A u \in Thread \ {t} :
         /\ forwarding'[u] = forwarding[u] /\ call'[u] = call[u]
         /\ \A h \in Heap : held[u][h] > 0 => held'[u][h] > 0
         /\ \A k \in K[u] : Holds(k)' = Holds(k)
         /\ S \cap K[u] = {}
    /\ \A p \in Holder : \A h \in Heap :
         held'[p][h] > 0 => held[p][h] > 0 \/ (mem'[h] # NULL /\ mem'[h].kind = "block")

\* What is captured or held is alive.
LEMMA ReferredLive ==
  ASSUME Counting, AddressesOK
  PROVE  /\ \A h \in Heap : References(h) > 0 => mem[h] # NULL /\ ~ mem[h].word.deallocating
         /\ \A g \in Heap : \A h \in Heap : CountOf(Holds(h), g) > 0 => References(g) > 0
         /\ \A t \in Thread : \A o \in Ops(t) :
              o.op \in OwnOrGive /\ o.on \in Heap => References(o.on) > 0
         /\ \A p \in Holder : \A h \in Heap : held[p][h] > 0 => References(h) > 0
         /\ \A t \in Thread : \A h \in Heap : forwarding[t] = h => References(h) > 0
<1>1. \A h \in Heap : Sourced(h)
  BY Sources DEF Counted
<1>2. \A h \in Heap : References(h) > 0 => mem[h] # NULL /\ ~ mem[h].word.deallocating
  <2> SUFFICES ASSUME NEW h \in Heap, References(h) > 0
               PROVE  mem[h] # NULL /\ ~ mem[h].word.deallocating
    OBVIOUS
  <2>1. References(h) \in Nat
    BY <1>1 DEF Sourced
  <2> QED BY <2>1, Referred
<1>3. \A g \in Heap : \A h \in Heap : CountOf(Holds(h), g) > 0 => References(g) > 0
  BY <1>1 DEF Sourced
<1>4. \A t \in Thread : \A o \in Ops(t) : o.op \in OwnOrGive /\ o.on \in Heap => References(o.on) > 0
  BY <1>1 DEF Sourced
<1>5. /\ \A p \in Holder : \A h \in Heap : held[p][h] > 0 => References(h) > 0
      /\ \A t \in Thread : \A h \in Heap : forwarding[t] = h => References(h) > 0
  BY <1>1 DEF Sourced
<1> QED BY <1>2, <1>3, <1>4, <1>5

\* What is referred to elsewhere stays as the other threads need it.
LEMMA OthersStand ==
  ASSUME BlocksIInv, NEW t \in Thread, NEW K \in [Thread -> SUBSET Heap], Building(K),
         NEW S, Apart(t, S, K), StaysAlive, NEW u \in Thread \ {t}
  PROVE  OnBlocks(u)' /\ InScope(u)' /\ Shares(u)' /\ Builds(u, K[u])'
<1>1. Counting /\ AddressesOK /\ CallsOK
  BY CountingOK DEF BlocksIInv
<1>2. /\ forwarding'[u] = forwarding[u] /\ Ops(u)' = Ops(u)
      /\ \A h \in Heap : held[u][h] > 0 => held'[u][h] > 0
      /\ \A k \in K[u] : Holds(k)' = Holds(k)
  <2>1. call'[u] = call[u]
    BY DEF Apart
  <2>2. Ops(u)' = Ops(u)
    BY <2>1 DEF Ops
  <2> QED BY <2>2 DEF Apart
<1>3. OnBlocks(u) /\ InScope(u) /\ Shares(u) /\ Builds(u, K[u]) /\ K[u] \in SUBSET Heap
  BY DEF BlocksIInv, KindsOK, ScopeOK, SharedOK, Building
<1>4. OnBlocks(u)'
  <2> SUFFICES ASSUME NEW o \in Ops(u), o.op \in {"return", "try"}
               PROVE  mem'[o.on] # NULL /\ mem'[o.on].kind = "block"
    BY <1>2 DEF OnBlocks, IsBlock
  <2>1. o \in FirstOp
    BY <1>1, OpsTyped
  <2>2. o.on \in Heap
    BY <2>1, OpFacts
  <2>3. Wanted(o.on)
    <3>1. CASE o.op = "return"
      BY <1>1, <2>2, <3>1, ReferredLive DEF OwnOrGive, Wanted
    <3>2. CASE o.op = "try"
      BY <3>2 DEF Wanted
    <3> QED BY <3>1, <3>2
  <2>4. mem[o.on] # NULL /\ mem[o.on].kind = "block"
    BY <1>3 DEF OnBlocks, IsBlock
  <2> QED BY <2>2, <2>3, <2>4 DEF StaysAlive
<1>5. InScope(u)'
  <2> SUFFICES ASSUME NEW o \in Ops(u)
               PROVE  /\ o.op = "assign" => forwarding'[u] # "out"
                      /\ o.op = "incr" => held'[u][o.on] > 0 \/ (o.to \in Heap /\ forwarding'[u] = o.on)
    BY <1>2 DEF InScope
  <2>1. o \in FirstOp
    BY <1>1, OpsTyped
  <2>2. o.op = "incr" => o.on \in Heap
    BY <2>1, OpFacts
  <2> QED BY <1>2, <1>3, <2>2 DEF InScope
<1>6. Shares(u)'
  <2> SUFFICES ASSUME NEW o \in Ops(u), o.op = "return", NEW g \in Heap,
                      mem'[g] # NULL, mem'[g].kind = "byref", CountOf(Holds(o.on)', g) > 0
               PROVE  forwarding'[u] = g
    BY <1>2 DEF Shares, IsByref
  <2>1. o.on \in K[u]
    BY <1>3 DEF Builds
  <2>2. CountOf(Holds(o.on), g) > 0 /\ o.on \in Heap
    BY <1>2, <1>3, <2>1
  <2>3. References(g) > 0
    BY <1>1, <2>2, ReferredLive
  <2>4. mem[g] # NULL
    BY <1>1, <2>3, ReferredLive
  <2>5. mem'[g].kind = mem[g].kind
    BY <2>3, <2>4 DEF StaysAlive, Wanted
  <2>6. IsByref(g)
    BY <2>4, <2>5 DEF IsByref
  <2> QED BY <1>2, <1>3, <2>2, <2>6 DEF Shares
<1>7. Builds(u, K[u])'
  <2>1. \A o \in Ops(u)' : (o.to \in Heap => o.to \in K[u]) /\ (o.op = "return" => o.on \in K[u])
    BY <1>2, <1>3 DEF Builds
  <2>2. ASSUME NEW k \in K[u]
        PROVE  \/ \E o \in Ops(u)' : o.op = "return" /\ o.on = k
               \/ \E g \in K[u] : CountOf(Holds(g)', k) > 0
    <3>1. \/ \E o \in Ops(u) : o.op = "return" /\ o.on = k
          \/ \E g \in K[u] : CountOf(Holds(g), k) > 0
      BY <1>3 DEF Builds
    <3> QED BY <1>2, <3>1
  <2> QED BY <2>1, <2>2 DEF Builds
<1> QED BY <1>4, <1>5, <1>6, <1>7

\* A step that keeps what is referred to keeps what the other threads rely on.
LEMMA Stands ==
  ASSUME BlocksIInv, NEW t \in Thread, NEW K \in [Thread -> SUBSET Heap], Building(K),
         NEW S \in SUBSET Heap, Apart(t, S, K), StaysAlive, Counting',
         OnBlocks(t)', InScope(t)', Shares(t)', Builds(t, S)'
  PROVE  BuildsOK' /\ KindsOK' /\ ScopeOK' /\ SharedOK'
<1>1. \A u \in Thread \ {t} : OnBlocks(u)' /\ InScope(u)' /\ Shares(u)' /\ Builds(u, K[u])'
  BY OthersStand
<1>2. PICK L : L = [K EXCEPT ![t] = S]
  OBVIOUS
<1>3. L \in [Thread -> SUBSET Heap] /\ L[t] = S /\ \A u \in Thread \ {t} : L[u] = K[u]
  BY <1>2
<1>4. \A u \in Thread : Builds(u, L[u])'
  <2> SUFFICES ASSUME NEW u \in Thread PROVE Builds(u, L[u])'
    OBVIOUS
  <2>1. CASE u = t
    <3>1. Builds(u, S)'
      BY <2>1
    <3> QED BY <1>3, <2>1, <3>1
  <2>2. CASE u # t
    <3>1. Builds(u, K[u])' /\ L[u] = K[u]
      BY <1>1, <1>3, <2>2
    <3> QED BY <3>1
  <2> QED BY <2>1, <2>2
<1>5. ASSUME NEW u \in Thread, NEW v \in Thread, u # v PROVE L[u] \cap L[v] = {}
  <2>1. K[u] \cap K[v] = {}
    BY <1>5 DEF Building
  <2>2. \A w \in Thread \ {t} : S \cap K[w] = {}
    BY DEF Apart
  <2>3. L[u] = (IF u = t THEN S ELSE K[u]) /\ L[v] = IF v = t THEN S ELSE K[v]
    BY <1>3
  <2> QED BY <1>5, <2>1, <2>2, <2>3
<1>6. Building(L)'
  BY <1>4, <1>5 DEF Building
<1>7. BuildsOK'
  BY <1>3, <1>6 DEF BuildsOK
<1>8. KindsOK'
  <2>1. ASSUME NEW p \in Holder, NEW h \in Heap, held'[p][h] > 0
        PROVE  mem'[h] # NULL /\ mem'[h].kind = "block"
    <3>1. CASE held[p][h] > 0
      <4>1. mem[h] # NULL /\ mem[h].kind = "block"
        BY <3>1 DEF BlocksIInv, KindsOK, IsBlock
      <4>2. References(h) > 0
        BY <3>1, CountingOK, ReferredLive DEF BlocksIInv
      <4> QED BY <4>1, <4>2 DEF StaysAlive, Wanted
    <3> QED BY <2>1, <3>1 DEF Apart
  <2>2. \A p \in Holder : \A h \in Heap : held'[p][h] > 0 => IsBlock(h)'
    BY <2>1 DEF IsBlock
  <2>3. \A u \in Thread : OnBlocks(u)'
    BY <1>1
  <2> QED BY <2>2, <2>3 DEF KindsOK
<1>9. ScopeOK' /\ SharedOK'
  BY <1>1 DEF ScopeOK, SharedOK
<1> QED BY <1>7, <1>8, <1>9

\* What a call goes on with, while it copies S.
Ahead(t, ops, S) ==
    /\ forwarding[t] # "out" => forwarding'[t] # "out"
    /\ \A o \in Elems(ops) :
         /\ o.op # "return" /\ (o.to \in Heap => o.to \in S)
         /\ o.op = "try" => mem'[o.on] # NULL /\ mem'[o.on].kind = "block"
         /\ o.op = "assign" => forwarding'[t] # "out"
         /\ o.op = "incr" => held'[t][o.on] > 0 \/ (o.to \in Heap /\ forwarding'[t] = o.on)

\* What it copies captures what it did, and what is new among it is captured.
Grows(t, S, K) ==
    /\ K[t] \subseteq S
    /\ \A g \in K[t] : \A k \in Heap : CountOf(Holds(g), k) > 0 => CountOf(Holds(g)', k) > 0
    /\ \A k \in S \ K[t] : \E g \in S : CountOf(Holds(g)', k) > 0

\* The block to be returned captures at most one thing more.
Adds(t, new) ==
    /\ \A o \in Ops(t) : o.op = "return" =>
         \A g \in Heap : CountOf(Holds(o.on)', g) > 0 => CountOf(Holds(o.on), g) > 0 \/ g = new
    /\ new \in Heap /\ mem'[new] # NULL /\ mem'[new].kind = "byref" => forwarding'[t] = new
    /\ forwarding'[t] = forwarding[t] \/ forwarding[t] = "stack"

\* A call that goes on keeps its part of the invariant.
LEMMA Carries ==
  ASSUME BlocksIInv, NEW t \in Thread, NEW K \in [Thread -> SUBSET Heap], Building(K),
         NEW S \in SUBSET Heap, StaysAlive, NEW ops, NEW rest, Goes(t, ops, rest),
         This(t).op # "return", Ahead(t, ops, S), Grows(t, S, K), NEW new, Adds(t, new)
  PROVE  OnBlocks(t)' /\ InScope(t)' /\ Shares(t)' /\ Builds(t, S)'
<1>1. Counting /\ AddressesOK /\ CallsOK
  BY CountingOK DEF BlocksIInv
<1>2. OnBlocks(t) /\ InScope(t) /\ Shares(t) /\ Builds(t, K[t]) /\ K[t] \in SUBSET Heap
  BY DEF BlocksIInv, KindsOK, ScopeOK, SharedOK, Building
<1>3. /\ Ops(t)' = Elems(ops) \cup rest /\ rest \subseteq Ops(t) /\ rest \subseteq LaterOp
      /\ \A o \in Ops(t) : o.op = "return" => o \in rest
  BY DEF Goes
<1>4. \A o \in rest : o \in FirstOp /\ o \in LaterOp
  BY <1>1, <1>3, OpsTyped
<1>5. \A o \in Elems(ops) :
         /\ o.op # "return" /\ (o.to \in Heap => o.to \in S)
         /\ o.op = "try" => mem'[o.on] # NULL /\ mem'[o.on].kind = "block"
         /\ o.op = "assign" => forwarding'[t] # "out"
         /\ o.op = "incr" => held'[t][o.on] > 0 \/ (o.to \in Heap /\ forwarding'[t] = o.on)
  BY DEF Ahead
<1>6. ASSUME NEW o \in rest
      PROVE  /\ o.op \notin {"incr", "try"}
             /\ o.op = "return" => o.on \in Heap /\ o.on \in K[t]
             /\ o.op = "return" => mem'[o.on] # NULL /\ mem'[o.on].kind = "block"
             /\ o.op = "assign" => forwarding'[t] # "out"
             /\ o.to \in Heap => o.to \in S
  <2>1. o \in FirstOp /\ o \in LaterOp /\ o \in Ops(t)
    BY <1>3, <1>4
  <2>2. o.op \notin {"incr", "try"} /\ (o.op = "return" => o.on \in Heap)
    BY <2>1, OpFacts
  <2>3. /\ o.op = "return" => o.on \in K[t]
        /\ o.to \in Heap => o.to \in S
    BY <1>2, <2>1 DEF Builds, Grows
  <2>4. o.op = "assign" => forwarding'[t] # "out"
    BY <1>2, <2>1 DEF InScope, Ahead
  <2>5. ASSUME o.op = "return" PROVE mem'[o.on] # NULL /\ mem'[o.on].kind = "block"
    <3>1. mem[o.on] # NULL /\ mem[o.on].kind = "block"
      BY <1>2, <2>1, <2>5 DEF OnBlocks, IsBlock
    <3>2. Wanted(o.on)
      BY <1>1, <2>1, <2>2, <2>5, ReferredLive DEF Wanted, OwnOrGive
    <3> QED BY <2>2, <2>5, <3>1, <3>2 DEF StaysAlive
  <2> QED BY <2>2, <2>3, <2>4, <2>5
<1>7. OnBlocks(t)'
  BY <1>3, <1>5, <1>6 DEF OnBlocks, IsBlock
<1>8. InScope(t)'
  BY <1>3, <1>5, <1>6 DEF InScope
<1>9. Shares(t)'
  <2> SUFFICES ASSUME NEW o \in rest, o.op = "return", NEW g \in Heap,
                      mem'[g] # NULL, mem'[g].kind = "byref", CountOf(Holds(o.on)', g) > 0
               PROVE  forwarding'[t] = g
    BY <1>3, <1>5 DEF Shares, IsByref
  <2>1. CountOf(Holds(o.on), g) > 0 \/ g = new
    BY <1>3 DEF Adds
  <2>2. CASE g = new
    BY <2>2 DEF Adds
  <2>3. CASE CountOf(Holds(o.on), g) > 0
    <3>1. o.on \in Heap
      BY <1>6
    <3>2. References(g) > 0
      BY <1>1, <2>3, <3>1, ReferredLive
    <3>3. mem[g] # NULL
      BY <1>1, <3>2, ReferredLive
    <3>4. IsByref(g)
      BY <3>2, <3>3 DEF StaysAlive, Wanted, IsByref
    <3>5. forwarding[t] = g
      BY <1>2, <1>3, <2>3, <3>4 DEF Shares
    <3>6. g # "stack"
      BY BlocksAssumption
    <3> QED BY <3>5, <3>6 DEF Adds
  <2> QED BY <2>1, <2>2, <2>3
<1>10. Builds(t, S)'
  <2>1. \A o \in Ops(t)' : (o.to \in Heap => o.to \in S) /\ (o.op = "return" => o.on \in S)
    BY <1>3, <1>5, <1>6 DEF Grows
  <2>2. ASSUME NEW k \in S
        PROVE  \/ \E o \in Ops(t)' : o.op = "return" /\ o.on = k
               \/ \E g \in S : CountOf(Holds(g)', k) > 0
    <3>1. CASE k \in K[t]
      <4>1. \/ \E o \in Ops(t) : o.op = "return" /\ o.on = k
            \/ \E g \in K[t] : CountOf(Holds(g), k) > 0
        BY <1>2, <3>1 DEF Builds
      <4>2. CASE \E o \in Ops(t) : o.op = "return" /\ o.on = k
        BY <1>3, <4>2
      <4>3. CASE \E g \in K[t] : CountOf(Holds(g), k) > 0
        BY <4>3 DEF Grows
      <4> QED BY <4>1, <4>2, <4>3
    <3>2. CASE k \notin K[t]
      BY <3>2 DEF Grows
    <3> QED BY <3>1, <3>2
  <2> QED BY <2>1, <2>2 DEF Builds
<1> QED BY <1>7, <1>8, <1>9, <1>10

-----------------------------------------------------------------------------
(* What a step does to the number of references.                               *)

Nothing == [op |-> "none", on |-> NULL]

\* Of the operations of a thread, first has gone and ops have come.
Turns(t, first, ops) ==
    /\ \A u \in Thread \ {t} : call'[u] = call[u]
    /\ \A x \in Counted : \A kinds \in {OwnOrGive, ToFree} :
         /\ CountOf(Named(ops, kinds), x) \in Nat
         /\ CountOf(Named(call'[t], kinds), x) + One(first.op \in kinds /\ first.on = x)
              = CountOf(Named(call[t], kinds), x) + CountOf(Named(ops, kinds), x)

\* A call that goes on turns its first operation into others.
LEMMA ContinueTurns ==
  ASSUME CallsOK, NEW t \in Thread, call[t] # <<>>, NEW ops, Follows(ops), Continue(t, ops)
  PROVE  Turns(t, This(t), ops)
<1>1. call'[t] = ops \o Tail(call[t]) /\ \A u \in Thread \ {t} : call'[u] = call[u]
  <2>1. call'[t] = ops \o Tail(call[t])
    BY Continues
  <2>2. PICK rest : Goes(t, ops, rest)
    BY Continues
  <2> QED BY <2>1, <2>2 DEF Goes
<1>2. PICK s, c : s = call[t] /\ c = call'[t]
  OBVIOUS
<1>3. s \in Seq(FirstOp) /\ s # <<>> /\ ops \in Seq(FirstOp)
  BY <1>2 DEF CallsOK, Follows
<1>4. ASSUME NEW x \in Counted, NEW kinds
      PROVE  /\ CountOf(Named(ops, kinds), x) \in Nat
             /\ CountOf(Named(c, kinds), x) + One(Head(s).op \in kinds /\ Head(s).on = x)
                  = CountOf(Named(s, kinds), x) + CountOf(Named(ops, kinds), x)
  <2>1. /\ CountOf(Named(s, kinds), x) \in Nat /\ CountOf(Named(ops, kinds), x) \in Nat
        /\ CountOf(Named(ops \o Tail(s), kinds), x)
             = CountOf(Named(ops, kinds), x) + CountOf(Named(s, kinds), x)
               - One(Head(s).op \in kinds /\ Head(s).on = x)
    BY <1>3, ReplacedCount
  <2>2. One(Head(s).op \in kinds /\ Head(s).on = x) \in {0, 1}
    BY DEF One
  <2>3. c = ops \o Tail(s)
    BY <1>1, <1>2
  <2> QED BY <2>1, <2>2, <2>3
<1>5. This(t) = Head(s)
  BY <1>2 DEF This
<1> QED BY <1>1, <1>2, <1>4, <1>5 DEF Turns

\* What is counted is not NULL.
LEMMA NotNothing ==
  ASSUME NEW x \in Counted, NEW kinds \in {OwnOrGive, ToFree}
  PROVE  One(Nothing.op \in kinds /\ Nothing.on = x) = 0
<1>1. Nothing.op \notin kinds
  BY DEF Nothing, OwnOrGive, ToFree
<1> QED BY <1>1 DEF One

\* A call that begins owes what its operations do.
LEMMA BeginTurns ==
  ASSUME CallsOK, NEW t \in Thread, call[t] = <<>>, NEW ops, CallOK(ops),
         call' = [call EXCEPT ![t] = ops]
  PROVE  Turns(t, Nothing, ops)
<1>1. call'[t] = ops /\ \A u \in Thread \ {t} : call'[u] = call[u]
  BY Begins1
<1>2. ASSUME NEW x \in Counted, NEW kinds \in {OwnOrGive, ToFree}
      PROVE  /\ CountOf(Named(ops, kinds), x) \in Nat
             /\ CountOf(Named(call'[t], kinds), x) + One(Nothing.op \in kinds /\ Nothing.on = x)
                  = CountOf(Named(call[t], kinds), x) + CountOf(Named(ops, kinds), x)
  <2>1. ops \in Seq(FirstOp)
    BY DEF CallOK
  <2>2. Named(ops, kinds) \in Seq(Name)
    BY <2>1, NamedIs
  <2>3. CountOf(Named(ops, kinds), x) \in Nat
    BY <2>2, CountPositive
  <2>4. CountOf(Named(call[t], kinds), x) = 0
    BY NoneNamed
  <2>5. CountOf(Named(call'[t], kinds), x) = CountOf(Named(ops, kinds), x)
    BY <1>1
  <2>6. One(Nothing.op \in kinds /\ Nothing.on = x) = 0
    BY NotNothing
  <2> QED BY <2>3, <2>4, <2>5, <2>6
<1> QED BY <1>1, <1>2 DEF Turns

\* A call that stays owes what it did.
LEMMA SameTurns ==
  ASSUME CallsOK, NEW t \in Thread, call' = call
  PROVE  Turns(t, Nothing, <<>>)
<1>1. PICK s \in Seq(FirstOp) : s = call[t]
  BY DEF CallsOK
<1>2. ASSUME NEW x \in Counted, NEW kinds \in {OwnOrGive, ToFree}
      PROVE  /\ CountOf(Named(<<>>, kinds), x) \in Nat
             /\ CountOf(Named(call'[t], kinds), x) + One(Nothing.op \in kinds /\ Nothing.on = x)
                  = CountOf(Named(call[t], kinds), x) + CountOf(Named(<<>>, kinds), x)
  <2>1. CountOf(Named(<<>>, kinds), x) = 0
    BY NoneNamed
  <2>2. Named(s, kinds) \in Seq(Name)
    BY NamedIs
  <2>3. CountOf(Named(s, kinds), x) \in Nat
    BY <2>2, CountPositive
  <2>4. One(Nothing.op \in kinds /\ Nothing.on = x) = 0
    BY NotNothing
  <2> QED BY <1>1, <2>1, <2>3, <2>4
<1> QED BY <1>2 DEF Turns

\* All the references, before and after, when what p holds and captures has changed,
\* the frame of t, and its call.
Tally(t, p, first, ops) ==
    \A x \in Counted :
        /\ References(x) \in Nat /\ References(x)' \in Nat
        /\ Due(ToFree, x) \in Nat /\ Due(ToFree, x)' \in Nat
        /\ Holding(p, x) \in Nat /\ Holding(p, x)' \in Nat
        /\ Capturing(p, x) \in Nat /\ Capturing(p, x)' \in Nat
        /\ CountOf(Named(ops, OwnOrGive), x) \in Nat /\ CountOf(Named(ops, ToFree), x) \in Nat
        /\ References(x)' + Holding(p, x) + Capturing(p, x) + One(forwarding[t] = x)
             + One(first.op \in OwnOrGive /\ first.on = x)
             = References(x) + Holding(p, x)' + Capturing(p, x)' + One(forwarding'[t] = x)
                 + CountOf(Named(ops, OwnOrGive), x)
        /\ Due(ToFree, x)' + One(first.op \in ToFree /\ first.on = x)
             = Due(ToFree, x) + CountOf(Named(ops, ToFree), x)

\* All the references to x change by what one holder, one block, one frame and
\* one call do.
LEMMA Tallies ==
  ASSUME Counting, Counting', NEW t \in Thread, NEW p, NEW first, NEW ops, Turns(t, first, ops),
         \A q \in Holder \ {p} : held'[q] = held[q],
         \A k \in Heap \ {p} : Holds(k)' = Holds(k),
         \A u \in Thread \ {t} : forwarding'[u] = forwarding[u]
  PROVE  Tally(t, p, first, ops)
<1> SUFFICES ASSUME NEW x \in Counted
             PROVE
        /\ References(x) \in Nat /\ References(x)' \in Nat
        /\ Due(ToFree, x) \in Nat /\ Due(ToFree, x)' \in Nat
        /\ Holding(p, x) \in Nat /\ Holding(p, x)' \in Nat
        /\ Capturing(p, x) \in Nat /\ Capturing(p, x)' \in Nat
        /\ CountOf(Named(ops, OwnOrGive), x) \in Nat /\ CountOf(Named(ops, ToFree), x) \in Nat
        /\ References(x)' + Holding(p, x) + Capturing(p, x) + One(forwarding[t] = x)
             + One(first.op \in OwnOrGive /\ first.on = x)
             = References(x) + Holding(p, x)' + Capturing(p, x)' + One(forwarding'[t] = x)
                 + CountOf(Named(ops, OwnOrGive), x)
        /\ Due(ToFree, x)' + One(first.op \in ToFree /\ first.on = x)
             = Due(ToFree, x) + CountOf(Named(ops, ToFree), x)
  BY DEF Tally
<1>1. /\ held \in HeldType /\ held' \in HeldType /\ mem \in MemType /\ mem' \in MemType
      /\ call \in CallType /\ call' \in CallType
  BY DEF Counting
<1>2. \A u \in Thread \ {t} : call'[u] = call[u]
  BY DEF Turns
<1>3. PICK rest \in Nat :
        /\ References(x) = rest + Holding(p, x) + Capturing(p, x) + One(forwarding[t] = x)
                             + CountOf(Named(call[t], OwnOrGive), x)
        /\ References(x)' = rest + Holding(p, x)' + Capturing(p, x)' + One(forwarding'[t] = x)
                             + CountOf(Named(call'[t], OwnOrGive), x)
  BY <1>1, <1>2, ReferencesSplit
<1>4. PICK due \in Nat : /\ Due(ToFree, x) = due + CountOf(Named(call[t], ToFree), x)
                         /\ Due(ToFree, x)' = due + CountOf(Named(call'[t], ToFree), x)
  BY <1>1, <1>2, DueSplit
<1>5. ASSUME NEW kinds
      PROVE  /\ CountOf(Named(call[t], kinds), x) \in Nat
             /\ CountOf(Named(call'[t], kinds), x) \in Nat
  <2>1. PICK r \in Seq(FirstOp), s \in Seq(FirstOp) : r = call[t] /\ s = call'[t]
    BY <1>1 DEF CallType
  <2>2. Named(r, kinds) \in Seq(Name) /\ Named(s, kinds) \in Seq(Name)
    BY NamedIs
  <2> QED BY <2>1, <2>2, CountPositive
<1>6. OwnOrGive \in {OwnOrGive, ToFree} /\ ToFree \in {OwnOrGive, ToFree}
  OBVIOUS
<1>7. /\ CountOf(Named(ops, OwnOrGive), x) \in Nat /\ CountOf(Named(ops, ToFree), x) \in Nat
      /\ CountOf(Named(call'[t], OwnOrGive), x) + One(first.op \in OwnOrGive /\ first.on = x)
           = CountOf(Named(call[t], OwnOrGive), x) + CountOf(Named(ops, OwnOrGive), x)
      /\ CountOf(Named(call'[t], ToFree), x) + One(first.op \in ToFree /\ first.on = x)
           = CountOf(Named(call[t], ToFree), x) + CountOf(Named(ops, ToFree), x)
  BY <1>6 DEF Turns
<1>8. /\ Holding(p, x) \in Nat /\ Holding(p, x)' \in Nat
  BY <1>1 DEF Holding, HeldType
<1>9. Capturing(p, x) \in Nat /\ Capturing(p, x)' \in Nat
  <2>1. p \in Heap => Holds(p) \in Seq(Counted) /\ Holds(p)' \in Seq(Counted)
    BY <1>1, HoldsType DEF Holds
  <2> QED BY <2>1, CountPositive DEF Capturing
<1>10. /\ One(forwarding[t] = x) \in {0, 1} /\ One(forwarding'[t] = x) \in {0, 1}
       /\ One(first.op \in OwnOrGive /\ first.on = x) \in {0, 1}
       /\ One(first.op \in ToFree /\ first.on = x) \in {0, 1}
  BY DEF One
<1>11. PICK h \in Nat, h2 \in Nat, c \in Nat, c2 \in Nat :
          /\ h = Holding(p, x) /\ h2 = Holding(p, x)'
          /\ c = Capturing(p, x) /\ c2 = Capturing(p, x)'
  BY <1>8, <1>9
<1>12. PICK f \in Nat, f2 \in Nat, a \in Nat, b \in Nat :
          /\ f = One(forwarding[t] = x) /\ f2 = One(forwarding'[t] = x)
          /\ a = One(first.op \in OwnOrGive /\ first.on = x)
          /\ b = One(first.op \in ToFree /\ first.on = x)
  BY <1>10
<1>13. PICK n \in Nat, n2 \in Nat, m \in Nat, m2 \in Nat :
          /\ n = CountOf(Named(call[t], OwnOrGive), x) /\ n2 = CountOf(Named(call'[t], OwnOrGive), x)
          /\ m = CountOf(Named(call[t], ToFree), x) /\ m2 = CountOf(Named(call'[t], ToFree), x)
  BY <1>5
<1>14. PICK i \in Nat, j \in Nat :
          i = CountOf(Named(ops, OwnOrGive), x) /\ j = CountOf(Named(ops, ToFree), x)
  BY <1>7
<1>15. PICK r \in Nat, r2 \in Nat : r = References(x) /\ r2 = References(x)'
  <2>1. Sourced(x) /\ Sourced(x)'
    BY Sources, SourcedNext
  <2> QED BY <2>1 DEF Sourced
<1>16. n2 + a = n + i /\ m2 + b = m + j
  BY <1>7, <1>12, <1>13, <1>14
<1>17. r = rest + h + c + f + n /\ r2 = rest + h2 + c2 + f2 + n2
  BY <1>3, <1>11, <1>12, <1>13, <1>15
<1>18. r2 + h + c + f + a = r + h2 + c2 + f2 + i
  BY <1>16, <1>17
<1>19. Due(ToFree, x) = due + m /\ Due(ToFree, x)' = due + m2
  BY <1>4, <1>13
<1>20. Due(ToFree, x)' + b = Due(ToFree, x) + j
  BY <1>16, <1>19
<1>21. Due(ToFree, x) \in Nat /\ Due(ToFree, x)' \in Nat
  BY <1>19
<1>22. /\ References(x) \in Nat /\ References(x)' \in Nat
       /\ References(x)' + Holding(p, x) + Capturing(p, x) + One(forwarding[t] = x)
             + One(first.op \in OwnOrGive /\ first.on = x)
             = References(x) + Holding(p, x)' + Capturing(p, x)' + One(forwarding'[t] = x)
                 + CountOf(Named(ops, OwnOrGive), x)
  BY <1>11, <1>12, <1>14, <1>15, <1>18
<1>23. Due(ToFree, x)' + One(first.op \in ToFree /\ first.on = x)
             = Due(ToFree, x) + CountOf(Named(ops, ToFree), x)
  BY <1>12, <1>14, <1>20
<1> QED BY <1>7, <1>8, <1>9, <1>21, <1>22, <1>23

\* An object to which nothing has happened.
LEMMA AddressStays ==
  ASSUME NEW x \in Heap, AddressOK(x), References(x)' = References(x),
         Due(ToFree, x)' = Due(ToFree, x),
         mem'[x] = NULL <=> mem[x] = NULL,
         mem[x] # NULL => /\ mem'[x].word = mem[x].word
                          /\ mem[x].word.deallocating => mem'[x].holds = mem[x].holds
  PROVE  AddressOK(x)'
<1>1. CASE mem[x] = NULL
  BY <1>1 DEF AddressOK
<1>2. CASE mem[x] # NULL
  <2>1. Fits(mem[x].word, mem[x].holds, References(x), Due(ToFree, x))
    BY <1>2 DEF AddressOK
  <2>2. Fits(mem'[x].word, mem'[x].holds, References(x)', Due(ToFree, x)')
    BY <1>2, <2>1 DEF Fits
  <2> QED BY <1>2, <2>2 DEF AddressOK
<1> QED BY <1>1, <1>2

-----------------------------------------------------------------------------
(* A reference reaches whoever asked for it.                                   *)

\* What an address holds, in a memory.
HoldsIn(m, h) == IF m[h] = NULL THEN <<>> ELSE m[h].holds
SameHolds(m) == \A k \in Heap : HoldsIn(m, k) = Holds(k)

\* Whoever asks for x, a holder or a block that is alive.
Reaches(m, o, x) ==
    /\ x \in Counted
    /\ (o.to \in Heap /\ m[o.to] # NULL) \/ (o.to \in Holder /\ x \in Heap)

\* What the gift of x leaves as it was, and what it adds.
GiftKeeps(m, to) ==
    /\ mem' \in MemType /\ held' \in HeldType
    /\ \A k \in Heap : /\ mem'[k] = NULL <=> m[k] = NULL
                       /\ m[k] # NULL => /\ mem'[k].word = m[k].word
                                         /\ mem'[k].kind = m[k].kind
                                         /\ k # to => mem'[k].holds = m[k].holds
    /\ \A k \in Heap \ {to} : Holds(k)' = Holds(k)
    /\ \A q \in Holder \ {to} : held'[q] = held[q]
    /\ \A p \in Holder : \A h \in Heap : held[p][h] > 0 => held'[p][h] > 0
    /\ \A k \in Heap : \A x \in Counted : CountOf(Holds(k), x) > 0 => CountOf(Holds(k)', x) > 0

GiftAdds(to, x) ==
    /\ \A p \in Holder : \A h \in Heap : held'[p][h] > 0 => held[p][h] > 0 \/ h = x
    /\ \A k \in Heap : \A y \in Counted : CountOf(Holds(k)', y) > 0 => CountOf(Holds(k), y) > 0 \/ y = x
    /\ to \in Heap => CountOf(Holds(to)', x) > 0
    /\ \A y \in Counted :
         Holding(to, y)' + Capturing(to, y)' = Holding(to, y) + Capturing(to, y) + One(x = y)

\* An address is neither a holder nor nothing.
LEMMA HeapApart == NULL \notin Heap /\ NULL \notin Holder /\ Heap \cap Holder = {} /\ OBJECT \notin Heap
                   /\ NULL # OBJECT /\ \A h \in Counted : h # "out" /\ h # "stack" /\ h # NULL
BY BlocksAssumption DEF Counted, Capture

\* No object is NULL.
LEMMA ObjectNotNull == \A o \in HeapObject : o # NULL
BY BlocksAssumption

\* One more at the end counts once.
LEMMA AppendCount ==
  ASSUME NEW s \in Seq(Counted), NEW x \in Counted
  PROVE  /\ Append(s, x) \in Seq(Counted)
         /\ \A y \in Counted : /\ CountOf(s, y) \in Nat
                               /\ CountOf(Append(s, x), y) = CountOf(s, y) + One(x = y)
<1>1. Append(s, x) \in Seq(Counted) /\ Append(s, x) = s \o <<x>> /\ <<x>> \in Seq(Counted)
  OBVIOUS
<1>2. ASSUME NEW y \in Counted
      PROVE  CountOf(s, y) \in Nat /\ CountOf(Append(s, x), y) = CountOf(s, y) + One(x = y)
  <2>1. CountOf(s \o <<x>>, y) = CountOf(s, y) + CountOf(<<x>>, y)
    BY <1>1, CountConcat
  <2>2. CountOf(<<x>>, y) = One(x = y)
    BY CountSingle
  <2>3. CountOf(s, y) \in Nat
    BY CountPositive
  <2> QED BY <1>1, <2>1, <2>2, <2>3
<1> QED BY <1>1, <1>2

\* Whoever asks gets exactly one reference, and nothing else changes.
LEMMA Gives ==
  ASSUME Counting, NEW m \in MemType, SameHolds(m), NEW o, Reaches(m, o, o.on),
         mem' = Given(m, o), held' = HeldBy(o)
  PROVE  GiftKeeps(m, o.to) /\ GiftAdds(o.to, o.on)
<1>1. PICK to, x : to = o.to /\ x = o.on
  OBVIOUS
<1>2. x \in Counted /\ ((to \in Heap /\ m[to] # NULL) \/ (to \in Holder /\ x \in Heap))
  BY <1>1 DEF Reaches
<1>3. x \in Counted
  BY <1>1 DEF Reaches
<1>4. held \in HeldType /\ mem \in MemType
  BY DEF Counting
<1>5. \A k \in Heap : HoldsIn(m, k) = Holds(k) /\ Holds(k) \in Seq(Counted)
  BY <1>4, HoldsType DEF SameHolds, Holds
<1>6. \A k \in Heap : Holds(k)' = HoldsIn(mem', k)
  BY DEF Holds, HoldsIn
<1>7. CASE to \in Heap /\ m[to] # NULL
  <2>1. to \notin Holder /\ held' = held
    BY <1>1, <1>7, HeapApart DEF HeldBy
  <2>2. mem' = [m EXCEPT ![to].holds = Append(@, x)]
    BY <1>1, <1>7 DEF Given
  <2>3. m[to] \in HeapObject /\ m[to].holds = Holds(to) /\ m[to].holds \in Seq(Counted)
    BY <1>5, <1>7 DEF MemType, HoldsIn
  <2>4. PICK new : new = [m[to] EXCEPT !.holds = Append(m[to].holds, x)]
    OBVIOUS
  <2>5. /\ new \in HeapObject /\ new.word = m[to].word /\ new.kind = m[to].kind
        /\ new.holds = Append(m[to].holds, x) /\ new # NULL
    <3>1. Append(m[to].holds, x) \in Seq(Heap \cup {OBJECT})
      BY <1>3, <2>3 DEF Counted
    <3>2. new \in HeapObject /\ new.word = m[to].word /\ new.kind = m[to].kind
          /\ new.holds = Append(m[to].holds, x)
      BY <2>3, <2>4, <3>1 DEF HeapObject
    <3> QED BY <3>2, ObjectNotNull
  <2>6. mem' \in MemType /\ mem'[to] = new /\ \A k \in Heap \ {to} : mem'[k] = m[k]
    <3>1. mem' = [m EXCEPT ![to] = new]
      BY <2>2, <2>4
    <3> QED BY <1>7, <2>5, <3>1 DEF MemType
  <2>7. \A k \in Heap \ {to} : Holds(k)' = Holds(k)
    BY <1>5, <1>6, <2>6 DEF HoldsIn
  <2>8. Holds(to)' = Append(Holds(to), x)
    BY <1>6, <1>7, <2>3, <2>5, <2>6 DEF HoldsIn
  <2>9. \A y \in Counted : /\ CountOf(Holds(to), y) \in Nat
                           /\ CountOf(Holds(to)', y) = CountOf(Holds(to), y) + One(x = y)
                           /\ One(x = y) \in {0, 1} /\ (One(x = y) = 1 <=> x = y)
    <3>1. \A y \in Counted : One(x = y) \in {0, 1} /\ (One(x = y) = 1 <=> x = y)
      BY DEF One
    <3> QED BY <1>3, <1>5, <1>7, <2>8, <3>1, AppendCount
  <2>10. ASSUME NEW k \in Heap, NEW y \in Counted
         PROVE  /\ CountOf(Holds(k), y) > 0 => CountOf(Holds(k)', y) > 0
                /\ CountOf(Holds(k)', y) > 0 => CountOf(Holds(k), y) > 0 \/ y = x
    <3>1. CASE k = to
      BY <2>9, <3>1
    <3>2. CASE k # to
      BY <2>7, <3>2
    <3> QED BY <3>1, <3>2
  <2>11. CountOf(Holds(to)', x) > 0
    BY <1>3, <2>9
  <2>12. \A y \in Counted :
           Holding(to, y)' + Capturing(to, y)' = Holding(to, y) + Capturing(to, y) + One(x = y)
    <3> SUFFICES ASSUME NEW y \in Counted
                 PROVE  Holding(to, y)' + Capturing(to, y)'
                          = Holding(to, y) + Capturing(to, y) + One(x = y)
      OBVIOUS
    <3>1. Holding(to, y) = 0 /\ Holding(to, y)' = 0
      BY <2>1 DEF Holding
    <3>2. Capturing(to, y) = CountOf(Holds(to), y) /\ Capturing(to, y)' = CountOf(Holds(to)', y)
      BY <1>7 DEF Capturing
    <3>3. /\ CountOf(Holds(to), y) \in Nat /\ One(x = y) \in {0, 1}
          /\ CountOf(Holds(to)', y) = CountOf(Holds(to), y) + One(x = y)
      BY <2>9
    <3>4. PICK a \in Nat, b \in {0, 1} : a = CountOf(Holds(to), y) /\ b = One(x = y)
      BY <3>3
    <3>5. Capturing(to, y) = a /\ Capturing(to, y)' = a + b
      BY <3>2, <3>3, <3>4
    <3>6. 0 + (a + b) = 0 + a + b
      OBVIOUS
    <3> QED BY <3>1, <3>4, <3>5, <3>6
  <2>13. GiftKeeps(m, to)
    <3>1. \A k \in Heap : /\ mem'[k] = NULL <=> m[k] = NULL
                          /\ m[k] # NULL => /\ mem'[k].word = m[k].word
                                            /\ mem'[k].kind = m[k].kind
                                            /\ k # to => mem'[k].holds = m[k].holds
      BY <1>7, <2>5, <2>6
    <3>2. \A k \in Heap : \A y \in Counted : CountOf(Holds(k), y) > 0 => CountOf(Holds(k)', y) > 0
      BY <2>10
    <3>3. held' \in HeldType /\ mem' \in MemType
      BY <1>4, <2>1, <2>6
    <3>4. /\ \A q \in Holder \ {to} : held'[q] = held[q]
          /\ \A p \in Holder : \A h \in Heap : held[p][h] > 0 => held'[p][h] > 0
      BY <2>1
    <3> QED BY <2>7, <3>1, <3>2, <3>3, <3>4 DEF GiftKeeps
  <2>14. GiftAdds(to, x)
    BY <2>1, <2>10, <2>11, <2>12 DEF GiftAdds
  <2> QED BY <1>1, <2>13, <2>14
<1>8. CASE to \in Holder /\ x \in Heap
  <2>1. to \notin Heap /\ mem' = m
    BY <1>1, <1>8, HeapApart DEF Given
  <2>2. held' = [held EXCEPT ![to][x] = @ + 1]
    BY <1>1, <1>8 DEF HeldBy
  <2>3. /\ held' \in HeldType
        /\ \A q \in Holder \ {to} : held'[q] = held[q]
        /\ \A h \in Heap : held[to][h] \in Nat /\ held'[to][h] = held[to][h] + One(x = h)
    <3>1. \A h \in Heap : held[to][h] \in Nat
      BY <1>4, <1>8 DEF HeldType
    <3>2. \A h \in Heap : held'[to][h] = IF h = x THEN held[to][h] + 1 ELSE held[to][h]
      BY <1>4, <1>8, <2>2 DEF HeldType
    <3>3. \A h \in Heap : held'[to][h] = held[to][h] + One(x = h)
      BY <3>1, <3>2 DEF One
    <3> QED BY <1>4, <1>8, <2>2, <3>1, <3>3 DEF HeldType
  <2>4. \A k \in Heap : Holds(k)' = Holds(k)
    BY <1>5, <1>6, <2>1
  <2>5. \A h \in Heap : One(x = h) \in {0, 1} /\ (One(x = h) = 1 <=> x = h)
    BY DEF One
  <2>6. ASSUME NEW p \in Holder, NEW h \in Heap
        PROVE  /\ held[p][h] > 0 => held'[p][h] > 0
               /\ held'[p][h] > 0 => held[p][h] > 0 \/ h = x
    <3>1. CASE p = to
      BY <2>3, <2>5, <3>1
    <3>2. CASE p # to
      BY <2>3, <3>2
    <3> QED BY <3>1, <3>2
  <2>7. ASSUME NEW y \in Counted
        PROVE  Holding(to, y)' + Capturing(to, y)' = Holding(to, y) + Capturing(to, y) + One(x = y)
    <3>1. Capturing(to, y)' = 0 /\ Capturing(to, y) = 0
      BY <2>1 DEF Capturing
    <3>2. CASE y \in Heap
      BY <1>8, <2>3, <2>5, <3>1, <3>2 DEF Holding
    <3>3. CASE y \notin Heap
      <4>1. One(x = y) = 0
        BY <1>8, <3>3 DEF One
      <4> QED BY <3>1, <3>3, <4>1 DEF Holding
    <3> QED BY <3>2, <3>3
  <2>8. GiftKeeps(m, to)
    BY <2>1, <2>3, <2>4, <2>6 DEF GiftKeeps
  <2>9. GiftAdds(to, x)
    BY <2>1, <2>4, <2>6, <2>7 DEF GiftAdds
  <2> QED BY <1>1, <2>8, <2>9
<1> QED BY <1>2, <1>3, <1>7, <1>8

-----------------------------------------------------------------------------
(* Steps that touch neither memory nor holders nor frames.                     *)

\* What a loop works on is alive.
LEMMA LoopOn ==
  ASSUME BlocksIInv, NEW t \in Thread, Loop(t)
  PROVE  /\ call[t] # <<>> /\ This(t) \in FirstOp /\ This(t) \in Ops(t)
         /\ This(t).op \in {"incr", "try", "decr"} /\ This(t).on \in Heap
         /\ mem[This(t).on] \in HeapObject /\ mem[This(t).on] # NULL
         /\ mem[This(t).on].word \in Word
         /\ This(t).op \in {"incr", "decr"} =>
              References(This(t).on) > 0 /\ ~ mem[This(t).on].word.deallocating
<1>1. Counting /\ AddressesOK /\ CallsOK
  BY CountingOK DEF BlocksIInv
<1>2. call[t] # <<>> /\ This(t).op \in {"incr", "try", "decr"} /\ This(t).on # OBJECT
  BY DEF Loop, At, This
<1>3. This(t) \in FirstOp /\ This(t) \in Ops(t)
  <2>1. PICK s \in Seq(FirstOp) : s = call[t]
    BY <1>1 DEF CallsOK
  <2>2. s[1] \in FirstOp /\ Head(s) = s[1] /\ 1 \in 1 .. Len(s)
    BY <1>2, <2>1, NoneNamed, Replaced
  <2> QED BY <2>1, <2>2 DEF This, Ops
<1>4. This(t).on \in Heap
  BY <1>2, <1>3, OpFacts DEF Counted
<1>5. ASSUME This(t).op \in {"incr", "decr"} PROVE References(This(t).on) > 0
  <2>1. CASE This(t).op = "incr"
    <3>1. held[t][This(t).on] > 0 \/ forwarding[t] = This(t).on
      BY <1>3, <2>1 DEF BlocksIInv, ScopeOK, InScope
    <3>2. t \in Holder
      BY BlocksAssumption
    <3> QED BY <1>1, <1>4, <3>1, <3>2, ReferredLive
  <2>2. CASE This(t).op = "decr"
    BY <1>1, <1>3, <1>4, <2>2, ReferredLive DEF OwnOrGive
  <2> QED BY <1>5, <2>1, <2>2
<1>6. mem[This(t).on] # NULL
  <2>1. CASE This(t).op = "try"
    BY <1>3, <2>1 DEF BlocksIInv, KindsOK, OnBlocks, IsBlock
  <2>2. CASE This(t).op # "try"
    BY <1>1, <1>2, <1>4, <1>5, <2>2, ReferredLive
  <2> QED BY <2>1, <2>2
<1>7. mem[This(t).on] \in HeapObject /\ mem[This(t).on].word \in Word
  <2>1. mem[This(t).on] \in HeapObject
    BY <1>1, <1>4, <1>6 DEF Counting, MemType
  <2> QED BY <2>1 DEF HeapObject
<1>8. This(t).op \in {"incr", "decr"} => ~ mem[This(t).on].word.deallocating
  BY <1>1, <1>4, <1>5, ReferredLive
<1> QED BY <1>2, <1>3, <1>4, <1>5, <1>6, <1>7, <1>8

\* The first operation of a call.
LEMMA FirstIs ==
  ASSUME CallsOK, NEW t \in Thread, call[t] # <<>>
  PROVE  This(t) \in FirstOp /\ This(t) \in Ops(t)
<1>1. PICK s \in Seq(FirstOp) : s = call[t]
  BY DEF CallsOK
<1>2. s[1] \in FirstOp /\ Head(s) = s[1] /\ 1 \in 1 .. Len(s)
  BY <1>1, NoneNamed, Replaced
<1> QED BY <1>1, <1>2 DEF This, Ops

\* The first operation notes what it has read.
LEMMA Marked ==
  ASSUME CallsOK, NEW t \in Thread, call[t] # <<>>, NEW w, call' = [call EXCEPT ![t][1].old = w]
  PROVE  Continue(t, <<[This(t) EXCEPT !.old = w]>>)
<1>1. PICK s \in Seq(FirstOp) : s = call[t]
  BY DEF CallsOK
<1>2. PICK o : o = [Head(s) EXCEPT !.old = w]
  OBVIOUS
<1>3. PICK n \in Nat \ {0}, k \in Nat : n = Len(s) /\ n = k + 1
  <2>1. Len(s) \in Nat \ {0} /\ Len(s) - 1 \in Nat /\ Len(s) = Len(s) - 1 + 1
    BY <1>1, EmptySeq
  <2> QED BY <2>1
<1>4. /\ Tail(s) \in Seq(FirstOp) /\ Len(Tail(s)) = k /\ Head(s) = s[1]
      /\ \A i \in 1 .. k : Tail(s)[i] = s[i + 1]
  <2>1. /\ Tail(s) \in Seq(FirstOp) /\ Len(Tail(s)) = Len(s) - 1
        /\ \A i \in 1 .. Len(Tail(s)) : Tail(s)[i] = s[i + 1]
    BY <1>1, HeadTailProperties
  <2>2. Len(s) - 1 = k
    BY <1>3
  <2>3. Head(s) = s[1]
    BY <1>3
  <2> QED BY <2>1, <2>2, <2>3
<1>5. PICK T : FirstOp \subseteq T /\ o \in T
  BY FirstOp \subseteq FirstOp \cup {o}
<1>6. PICK r, c : r = <<o>> /\ c = r \o Tail(s)
  OBVIOUS
<1>7. r \in Seq(T) /\ Len(r) = 1 /\ r[1] = o
  BY <1>5, <1>6
<1>8. Tail(s) \in Seq(T) /\ s \in Seq(T)
  BY <1>4, <1>5, SeqMonotonic
<1>9. /\ c \in Seq(T) /\ Len(c) = n
      /\ \A i \in 1 .. n : c[i] = IF i <= 1 THEN r[i] ELSE Tail(s)[i - 1]
  <2>1. /\ r \o Tail(s) \in Seq(T) /\ Len(r \o Tail(s)) = Len(r) + Len(Tail(s))
        /\ \A i \in 1 .. Len(r) + Len(Tail(s)) :
             (r \o Tail(s))[i] = IF i <= Len(r) THEN r[i] ELSE Tail(s)[i - Len(r)]
    BY <1>7, <1>8, ConcatProperties
  <2>2. Len(r) = 1 /\ Len(Tail(s)) = k /\ 1 + k = n
    BY <1>3, <1>4, <1>7
  <2> QED BY <1>6, <2>1, <2>2
<1>10. PICK d : d = [s EXCEPT ![1] = o]
  OBVIOUS
<1>11. d \in Seq(T) /\ Len(d) = n /\ \A i \in 1 .. n : d[i] = IF i = 1 THEN o ELSE s[i]
  <2>1. s \in [1 .. n -> T] /\ 1 \in 1 .. n
    <3>1. s \in [1 .. Len(s) -> T]
      BY <1>8
    <3> QED BY <1>3, <3>1
  <2>2. d \in [1 .. n -> T] /\ \A i \in 1 .. n : d[i] = IF i = 1 THEN o ELSE s[i]
    BY <1>5, <1>10, <2>1
  <2> QED BY <2>2
<1>12. \A i \in 1 .. n : c[i] = d[i]
  <2> SUFFICES ASSUME NEW i \in 1 .. n PROVE c[i] = d[i]
    OBVIOUS
  <2>1. CASE i = 1
    <3>1. c[i] = r[i]
      BY <1>9, <2>1
    <3>2. d[i] = o
      BY <1>11, <2>1
    <3> QED BY <1>7, <2>1, <3>1, <3>2
  <2>2. CASE i # 1
    <3>1. i - 1 \in 1 .. k /\ i - 1 + 1 = i /\ ~ (i <= 1)
      BY <1>3, <2>2
    <3>2. c[i] = Tail(s)[i - 1]
      BY <1>9, <3>1
    <3> QED BY <1>4, <1>11, <2>2, <3>1, <3>2
  <2> QED BY <2>1, <2>2
<1>13. c = d
  BY <1>9, <1>11, <1>12, SeqEqual
<1>14. call' = [call EXCEPT ![t] = d]
  <2>1. d = [s EXCEPT ![1] = [s[1] EXCEPT !.old = w]]
    BY <1>2, <1>4, <1>10
  <2>2. call' = [call EXCEPT ![t] = [call[t] EXCEPT ![1] = [call[t][1] EXCEPT !.old = w]]]
    OBVIOUS
  <2> QED BY <1>1, <2>1, <2>2
<1> QED BY <1>1, <1>2, <1>6, <1>13, <1>14 DEF Continue, This

\* References and frees, when first has gone and ops have come.
Balance(first, ops) ==
    \A x \in Counted :
        /\ References(x) \in Nat /\ References(x)' \in Nat
        /\ Due(ToFree, x) \in Nat /\ Due(ToFree, x)' \in Nat
        /\ CountOf(Named(ops, OwnOrGive), x) \in Nat /\ CountOf(Named(ops, ToFree), x) \in Nat
        /\ References(x)' + One(first.op \in OwnOrGive /\ first.on = x)
             = References(x) + CountOf(Named(ops, OwnOrGive), x)
        /\ Due(ToFree, x)' + One(first.op \in ToFree /\ first.on = x)
             = Due(ToFree, x) + CountOf(Named(ops, ToFree), x)

\* The balance of references and of frees, when a call goes on.
LEMMA Balances ==
  ASSUME NEW t \in Thread, NEW first, NEW ops, Tally(t, NULL, first, ops),
         forwarding'[t] = forwarding[t]
  PROVE  Balance(first, ops)
<1> SUFFICES ASSUME NEW x \in Counted
             PROVE
        /\ References(x) \in Nat /\ References(x)' \in Nat
        /\ Due(ToFree, x) \in Nat /\ Due(ToFree, x)' \in Nat
        /\ CountOf(Named(ops, OwnOrGive), x) \in Nat /\ CountOf(Named(ops, ToFree), x) \in Nat
        /\ References(x)' + One(first.op \in OwnOrGive /\ first.on = x)
             = References(x) + CountOf(Named(ops, OwnOrGive), x)
        /\ Due(ToFree, x)' + One(first.op \in ToFree /\ first.on = x)
             = Due(ToFree, x) + CountOf(Named(ops, ToFree), x)
  BY DEF Balance
<1>1. /\ References(x) \in Nat /\ References(x)' \in Nat
      /\ Due(ToFree, x) \in Nat /\ Due(ToFree, x)' \in Nat
      /\ CountOf(Named(ops, OwnOrGive), x) \in Nat /\ CountOf(Named(ops, ToFree), x) \in Nat
      /\ Due(ToFree, x)' + One(first.op \in ToFree /\ first.on = x)
             = Due(ToFree, x) + CountOf(Named(ops, ToFree), x)
  BY DEF Tally
<1>2. References(x)' + Holding(NULL, x) + Capturing(NULL, x) + One(forwarding[t] = x)
             + One(first.op \in OwnOrGive /\ first.on = x)
             = References(x) + Holding(NULL, x)' + Capturing(NULL, x)' + One(forwarding'[t] = x)
                 + CountOf(Named(ops, OwnOrGive), x)
  BY DEF Tally
<1>3. Holding(NULL, x) = 0 /\ Capturing(NULL, x) = 0 /\ Holding(NULL, x)' = 0 /\ Capturing(NULL, x)' = 0
  BY HeapApart DEF Holding, Capturing
<1>4. /\ One(forwarding[t] = x) \in {0, 1} /\ One(first.op \in OwnOrGive /\ first.on = x) \in {0, 1}
      /\ One(forwarding'[t] = x) = One(forwarding[t] = x)
  BY DEF One
<1>5. PICK r \in Nat, r2 \in Nat, f \in Nat, a \in Nat, i \in Nat :
        /\ r = References(x) /\ r2 = References(x)' /\ f = One(forwarding[t] = x)
        /\ a = One(first.op \in OwnOrGive /\ first.on = x)
        /\ i = CountOf(Named(ops, OwnOrGive), x)
  BY <1>1, <1>4
<1>6. r2 + 0 + 0 + f + a = r + 0 + 0 + f + i
  BY <1>2, <1>3, <1>4, <1>5
<1>7. r2 + a = r + i
  BY <1>6
<1> QED BY <1>1, <1>5, <1>7

\* A call that goes on with operations that fit.
SameFor(t, ops) ==
    \A o \in Elems(ops) :
        /\ o.op \notin {"return", "assign"}
        /\ o.to \in Heap => o.to = This(t).to
        /\ o.op = "try" => IsBlock(o.on)
        /\ o.op = "incr" => held[t][o.on] > 0 \/ (o.to \in Heap /\ forwarding[t] = o.on)

\* What is referred to elsewhere, and what the call is copying, when a call
\* goes on.
LEMMA StillGoes ==
  ASSUME BlocksIInv, NEW t \in Thread, call[t] # <<>>, This(t).op # "return",
         NEW ops, Follows(ops), Continue(t, ops), SameFor(t, ops),
         mem' = mem, held' = held, forwarding' = forwarding
  PROVE  /\ CallsOK' /\ BuildsOK' /\ KindsOK' /\ ScopeOK' /\ SharedOK'
         /\ Balance(This(t), ops)
<1>1. Counting /\ AddressesOK /\ CallsOK
  BY CountingOK DEF BlocksIInv
<1>2. CallsOK' /\ This(t) \in Ops(t) /\ \E rest : Goes(t, ops, rest)
  BY <1>1, Continues
<1>3. PICK rest : Goes(t, ops, rest)
  BY <1>2
<1>4. Counting'
  BY <1>1, <1>3 DEF Counting, Goes
<1>5. \A k \in Heap : Holds(k)' = Holds(k)
  BY DEF Holds
<1>6. PICK K \in [Thread -> SUBSET Heap] : Building(K)
  BY DEF BlocksIInv, BuildsOK
<1>7. StaysAlive
  BY DEF StaysAlive
<1>8. K[t] \in SUBSET Heap /\ \A u \in Thread \ {t} : K[u] \in SUBSET Heap /\ K[t] \cap K[u] = {}
  BY <1>6 DEF Building
<1>9. Apart(t, K[t], K)
  BY <1>3, <1>5, <1>8 DEF Apart, Goes
<1>10. Ahead(t, ops, K[t])
  <2>1. This(t).to \in Heap => This(t).to \in K[t]
    BY <1>2, <1>6 DEF Building, Builds
  <2> QED BY <2>1 DEF Ahead, SameFor, IsBlock
<1>11. Grows(t, K[t], K)
  BY <1>5, <1>8 DEF Grows
<1>12. Adds(t, NULL)
  <2>1. \A o \in Ops(t) : o.op = "return" => o.on \in Heap
    BY <1>1, OpsTyped, OpFacts
  <2> QED BY <1>5, <2>1, HeapApart DEF Adds
<1>13. OnBlocks(t)' /\ InScope(t)' /\ Shares(t)' /\ Builds(t, K[t])'
  BY <1>3, <1>6, <1>7, <1>8, <1>10, <1>11, <1>12, Carries
<1>14. BuildsOK' /\ KindsOK' /\ ScopeOK' /\ SharedOK'
  BY <1>4, <1>6, <1>7, <1>8, <1>9, <1>13, Stands
<1>15. Turns(t, This(t), ops)
  BY <1>1, ContinueTurns
<1>16. Tally(t, NULL, This(t), ops)
  BY <1>1, <1>4, <1>5, <1>15, Tallies
<1>17. Balance(This(t), ops)
  BY <1>16, Balances
<1> QED BY <1>2, <1>14, <1>17

\* Nothing is won and nothing lost.
Even(first, ops) ==
    \A x \in Counted : \A kinds \in {OwnOrGive, ToFree} :
        CountOf(Named(ops, kinds), x) = One(first.op \in kinds /\ first.on = x)

\* Nothing changes if what comes counts for what goes.
LEMMA EvenBalance ==
  ASSUME BlocksIInv, NEW first, NEW ops, Balance(first, ops), Even(first, ops),
         mem' = mem, object' = object
  PROVE  AddressesOK' /\ ObjectOK'
<1>1. ASSUME NEW x \in Counted PROVE References(x)' = References(x) /\ Due(ToFree, x)' = Due(ToFree, x)
  <2>1. OwnOrGive \in {OwnOrGive, ToFree} /\ ToFree \in {OwnOrGive, ToFree}
    OBVIOUS
  <2>2. PICK i \in Nat, j \in Nat :
           /\ i = CountOf(Named(ops, OwnOrGive), x) /\ j = CountOf(Named(ops, ToFree), x)
    BY DEF Balance
  <2>3. /\ i = One(first.op \in OwnOrGive /\ first.on = x)
        /\ j = One(first.op \in ToFree /\ first.on = x)
    BY <2>1, <2>2 DEF Even
  <2>4. PICK r \in Nat, r2 \in Nat, d \in Nat, d2 \in Nat :
          /\ r = References(x) /\ r2 = References(x)' /\ r2 + i = r + i
          /\ d = Due(ToFree, x) /\ d2 = Due(ToFree, x)' /\ d2 + j = d + j
    <3>1. /\ References(x) \in Nat /\ References(x)' \in Nat
          /\ Due(ToFree, x) \in Nat /\ Due(ToFree, x)' \in Nat
          /\ References(x)' + One(first.op \in OwnOrGive /\ first.on = x)
               = References(x) + CountOf(Named(ops, OwnOrGive), x)
          /\ Due(ToFree, x)' + One(first.op \in ToFree /\ first.on = x)
               = Due(ToFree, x) + CountOf(Named(ops, ToFree), x)
      BY DEF Balance
    <3> QED BY <2>2, <2>3, <3>1
  <2>5. r2 = r /\ d2 = d
    BY <2>4
  <2> QED BY <2>4, <2>5
<1>2. ASSUME NEW h \in Heap PROVE AddressOK(h)'
  <2>1. References(h)' = References(h) /\ Due(ToFree, h)' = Due(ToFree, h)
    BY <1>1 DEF Counted
  <2>2. AddressOK(h)
    BY DEF BlocksIInv, AddressesOK
  <2> QED BY <2>1, <2>2, AddressStays
<1>3. References(OBJECT)' = References(OBJECT)
  BY <1>1 DEF Counted
<1> QED BY <1>2, <1>3 DEF AddressesOK, ObjectOK, BlocksIInv

-----------------------------------------------------------------------------
(* The steps that only go on.                                                  *)

\* The counter of calls stays in its range.
LEMMA TypeStays ==
  ASSUME BlocksIInv, mem' \in MemType, held' \in HeldType, forwarding' = forwarding,
         object' \in Nat, left' = left
  PROVE  BlocksTypeOK'
BY DEF BlocksIInv, BlocksTypeOK, MemType, HeldType

\* An operation that counts for nothing gives way without disturbing a count.
LEMMA EvenGoes ==
  ASSUME BlocksIInv, NEW t \in Thread, call[t] # <<>>, This(t).op # "return",
         NEW ops, Follows(ops), Continue(t, ops), SameFor(t, ops), Even(This(t), ops),
         mem' = mem, held' = held, forwarding' = forwarding, object' = object, left' = left
  PROVE  BlocksIInv'
<1>1. CallsOK' /\ BuildsOK' /\ KindsOK' /\ ScopeOK' /\ SharedOK' /\ Balance(This(t), ops)
  BY StillGoes
<1>2. AddressesOK' /\ ObjectOK'
  BY <1>1, EvenBalance
<1>3. BlocksTypeOK'
  <2>1. mem \in MemType /\ held \in HeldType /\ object \in Nat
    BY DEF BlocksIInv, BlocksTypeOK, MemType, HeldType
  <2> QED BY <2>1, TypeStays
<1> QED BY <1>1, <1>2, <1>3 DEF BlocksIInv

\* An operation that neither owns nor frees gives way to one that does not either.
LEMMA EvenOne ==
  ASSUME NEW first, NEW o \in FirstOp, \/ first.op = o.op /\ first.on = o.on
                                       \/ {first.op, o.op} \cap (OwnOrGive \cup ToFree) = {}
  PROVE  Even(first, <<o>>)
<1>1. ASSUME NEW x \in Counted, NEW kinds \in {OwnOrGive, ToFree}
      PROVE  CountOf(Named(<<o>>, kinds), x) = One(first.op \in kinds /\ first.on = x)
  <2>1. CountOf(Named(<<o>>, kinds), x) = One(o.op \in kinds /\ o.on = x)
    BY OneNamed
  <2>2. o.op \in kinds /\ o.on = x <=> first.op \in kinds /\ first.on = x
    OBVIOUS
  <2> QED BY <2>1, <2>2 DEF One
<1> QED BY <1>1 DEF Even

\* It may give way to none.
LEMMA EvenNone ==
  ASSUME NEW first, first.op \notin OwnOrGive \cup ToFree
  PROVE  Even(first, <<>>)
<1>1. ASSUME NEW x \in Counted, NEW kinds \in {OwnOrGive, ToFree}
      PROVE  CountOf(Named(<<>>, kinds), x) = One(first.op \in kinds /\ first.on = x)
  <2>1. CountOf(Named(<<>>, kinds), x) = 0
    BY NoneNamed
  <2> QED BY <2>1 DEF One
<1> QED BY <1>1 DEF Even

\* Nothing to do needs nothing.
LEMMA SameForNone == \A t : SameFor(t, <<>>)
BY NoneFollow DEF SameFor

\* A loop that will take a reference does not count yet.
LEMMA IncrOp ==
  ASSUME NEW h \in Heap, NEW to \in Heap \cup Holder
  PROVE  /\ Op("incr", h, to) \in FirstOp /\ Op("incr", h, to).op = "incr"
         /\ Op("incr", h, to).on = h /\ Op("incr", h, to).to = to
BY DEF Op, FirstOp

\* The capture of a block the thread holds, or of none, keeps the invariant.
LEMMA AssignBlockSafe ==
  ASSUME BlocksIInv, NEW t \in Thread, AssignBlock(t)
  PROVE  BlocksIInv'
<1>1. call[t] # <<>> /\ This(t).op = "assign" /\ CallsOK
  BY DEF AssignBlock, At, This, BlocksIInv
<1>2. This(t).to \in Heap
  <2>1. This(t) \in FirstOp
    BY <1>1, FirstIs
  <2> QED BY <1>1, <2>1, OpFacts
<1>3. mem' = mem /\ held' = held /\ forwarding' = forwarding /\ object' = object /\ left' = left
  BY DEF AssignBlock
<1>4. CASE Continue(t, <<>>)
  <2>1. Even(This(t), <<>>)
    BY <1>1, EvenNone DEF OwnOrGive, ToFree
  <2> QED BY <1>1, <1>3, <1>4, <2>1, EvenGoes, NoneFollow, SameForNone
<1>5. CASE \E h \in Heap : held[t][h] > 0 /\ Continue(t, <<Op("incr", h, This(t).to)>>)
  <2>1. PICK h \in Heap : held[t][h] > 0 /\ Continue(t, <<Op("incr", h, This(t).to)>>)
    BY <1>5
  <2>2. PICK o \in FirstOp : /\ o = Op("incr", h, This(t).to)
                             /\ o.op = "incr" /\ o.on = h /\ o.to = This(t).to
    BY <1>2, IncrOp
  <2>3. Follows(<<o>>) /\ Elems(<<o>>) = {o}
    BY <2>2, OneFollows
  <2>4. SameFor(t, <<o>>)
    BY <2>1, <2>2, <2>3 DEF SameFor
  <2>5. Even(This(t), <<o>>)
    BY <1>1, <2>2, EvenOne DEF OwnOrGive, ToFree
  <2>6. Continue(t, <<o>>)
    BY <2>1, <2>2
  <2> QED BY <1>1, <1>3, <2>3, <2>4, <2>5, <2>6, EvenGoes
<1> QED BY <1>4, <1>5 DEF AssignBlock

\* A __block variable that was copied gets another reference.
LEMMA AssignCopied ==
  ASSUME BlocksIInv, NEW t \in Thread, AssignByref(t), forwarding[t] # "stack"
  PROVE  BlocksIInv'
<1>1. call[t] # <<>> /\ This(t).op = "assign" /\ CallsOK
  BY DEF AssignByref, At, This, BlocksIInv
<1>2. This(t) \in FirstOp /\ This(t) \in Ops(t)
  BY <1>1, FirstIs
<1>3. This(t).to \in Heap
  BY <1>1, <1>2, OpFacts
<1>4. forwarding[t] \in Heap
  <2>1. forwarding[t] # "out"
    BY <1>1, <1>2 DEF BlocksIInv, ScopeOK, InScope
  <2> QED BY <2>1 DEF BlocksIInv, BlocksTypeOK
<1>5. /\ mem' = mem /\ held' = held /\ forwarding' = forwarding /\ object' = object /\ left' = left
      /\ Continue(t, <<Op("incr", forwarding[t], This(t).to)>>)
  BY DEF AssignByref
<1>6. PICK o \in FirstOp : /\ o = Op("incr", forwarding[t], This(t).to)
                           /\ o.op = "incr" /\ o.on = forwarding[t] /\ o.to = This(t).to
  BY <1>3, <1>4, IncrOp
<1>7. Follows(<<o>>) /\ Elems(<<o>>) = {o}
  BY <1>6, OneFollows
<1>8. SameFor(t, <<o>>)
  BY <1>3, <1>6, <1>7 DEF SameFor
<1>9. Even(This(t), <<o>>)
  BY <1>1, <1>6, EvenOne DEF OwnOrGive, ToFree
<1>10. Continue(t, <<o>>)
  BY <1>5, <1>6
<1> QED BY <1>1, <1>5, <1>7, <1>8, <1>9, <1>10, EvenGoes

\* What a loop may have read when it goes on to swap.
Readable(o, v) ==
    v = NULL \/ /\ v \in Word
                /\ o.op \in {"incr", "try"} => ~ Latched(v)
                /\ o.op = "try" => NotDeallocating(v)
                /\ o.op = "decr" => ~ Stuck(v)

\* An operation that notes a word is an operation of the same kind.
LEMMA MarkedOp ==
  ASSUME NEW o \in FirstOp, o.op \in {"incr", "try", "decr"}, o.on \in Heap, NEW v, Readable(o, v)
  PROVE  /\ [o EXCEPT !.old = v] \in FirstOp
         /\ [o EXCEPT !.old = v].op = o.op /\ [o EXCEPT !.old = v].on = o.on
         /\ [o EXCEPT !.old = v].to = o.to
<1>1. PICK m : m = [o EXCEPT !.old = v]
  OBVIOUS
<1>2. m = [op |-> o.op, on |-> o.on, to |-> o.to, old |-> v]
  BY <1>1 DEF FirstOp, LaterOp
<1>3. /\ o.op = "incr" => o.to \in Heap \cup Holder
      /\ o.op = "try" => o.to \in Holder
      /\ o.op = "decr" => o.to = NULL
  BY OpFacts
<1>4. ASSUME o.op = "incr" PROVE m \in FirstOp
  <2>1. v \in {NULL} \cup {w \in Word : ~Latched(w)}
    BY <1>4 DEF Readable
  <2>2. m \in [op : {"incr"}, on : Heap, to : Heap \cup Holder, old : {NULL} \cup {w \in Word : ~Latched(w)}]
    BY <1>2, <1>3, <1>4, <2>1
  <2> QED BY <2>2 DEF FirstOp
<1>5. ASSUME o.op = "try" PROVE m \in FirstOp
  <2>1. v \in {NULL} \cup {w \in Word : ~Latched(w) /\ NotDeallocating(w)}
    BY <1>5 DEF Readable
  <2>2. m \in [op : {"try"}, on : Heap, to : Holder, old : {NULL} \cup {w \in Word : ~Latched(w) /\ NotDeallocating(w)}]
    BY <1>2, <1>3, <1>5, <2>1
  <2> QED BY <2>2 DEF FirstOp
<1>6. ASSUME o.op = "decr" PROVE m \in FirstOp
  <2>1. v \in {NULL} \cup {w \in Word : ~Stuck(w)}
    BY <1>6 DEF Readable
  <2>2. m \in [op : {"decr"}, on : Heap, to : {NULL}, old : {NULL} \cup {w \in Word : ~Stuck(w)}]
    BY <1>2, <1>3, <1>6, <2>1
  <2>3. m \in [op : {"decr"}, on : Heap, to : {NULL}, old : {NULL}] \/ m \in [op : {"decr"}, on : Heap, to : {NULL}, old : {w \in Word : ~Stuck(w)}]
    BY <2>2
  <2> QED BY <2>3 DEF FirstOp, LaterOp
<1>7. m.op = o.op /\ m.on = o.on /\ m.to = o.to
  BY <1>2
<1> QED BY <1>1, <1>4, <1>5, <1>6, <1>7

\* Noting a word that was read keeps the invariant.
LEMMA MarkSafe ==
  ASSUME BlocksIInv, NEW t \in Thread, Loop(t), NEW v, Readable(This(t), v),
         call' = [call EXCEPT ![t][1].old = v],
         mem' = mem, held' = held, forwarding' = forwarding, object' = object, left' = left
  PROVE  BlocksIInv'
<1>1. /\ call[t] # <<>> /\ This(t) \in FirstOp /\ This(t) \in Ops(t)
      /\ This(t).op \in {"incr", "try", "decr"} /\ This(t).on \in Heap
  BY LoopOn
<1>2. CallsOK /\ OnBlocks(t) /\ InScope(t)
  BY DEF BlocksIInv, KindsOK, ScopeOK
<1>3. PICK o \in FirstOp : /\ o = [This(t) EXCEPT !.old = v]
                           /\ o.op = This(t).op /\ o.on = This(t).on /\ o.to = This(t).to
  BY <1>1, MarkedOp
<1>4. Continue(t, <<o>>)
  BY <1>1, <1>2, <1>3, Marked
<1>5. Follows(<<o>>) /\ Elems(<<o>>) = {o}
  BY <1>1, <1>3, OneFollows
<1>6. SameFor(t, <<o>>)
  BY <1>1, <1>2, <1>3, <1>5 DEF SameFor, OnBlocks, InScope
<1>7. Even(This(t), <<o>>)
  BY <1>3, EvenOne
<1> QED BY <1>1, <1>4, <1>5, <1>6, <1>7, EvenGoes

\* A swap that fails starts over, which keeps the invariant.
LEMMA RetrySafe ==
  ASSUME BlocksIInv, NEW t \in Thread, Retry(t)
  PROVE  BlocksIInv'
<1>1. Readable(This(t), NULL)
  BY DEF Readable
<1> QED BY <1>1, MarkSafe DEF Retry

\* One reference less, and no operation more.
LEMMA DropsOne ==
  ASSUME NEW first, NEW d \in Counted, first.op = "decr", first.on = d, Balance(first, <<>>)
  PROVE  /\ References(d) \in Nat /\ References(d)' \in Nat /\ References(d) = References(d)' + 1
         /\ \A x \in Counted \ {d} : References(x)' = References(x)
         /\ \A x \in Counted : Due(ToFree, x)' = Due(ToFree, x)
<1>1. ASSUME NEW x \in Counted
      PROVE  /\ References(x) \in Nat /\ References(x)' \in Nat
             /\ References(x)' + One(x = d) = References(x)
             /\ Due(ToFree, x)' = Due(ToFree, x)
  <2>1. /\ References(x) \in Nat /\ References(x)' \in Nat
        /\ Due(ToFree, x) \in Nat /\ Due(ToFree, x)' \in Nat
        /\ References(x)' + One(first.op \in OwnOrGive /\ first.on = x)
             = References(x) + CountOf(Named(<<>>, OwnOrGive), x)
        /\ Due(ToFree, x)' + One(first.op \in ToFree /\ first.on = x)
             = Due(ToFree, x) + CountOf(Named(<<>>, ToFree), x)
    BY DEF Balance
  <2>2. CountOf(Named(<<>>, OwnOrGive), x) = 0 /\ CountOf(Named(<<>>, ToFree), x) = 0
    BY NoneNamed
  <2>3. One(first.op \in ToFree /\ first.on = x) = 0
    BY DEF One, ToFree
  <2>4. One(first.op \in OwnOrGive /\ first.on = x) = One(x = d) /\ One(x = d) \in {0, 1}
    BY DEF One, OwnOrGive
  <2> QED BY <2>1, <2>2, <2>3, <2>4
<1>2. One(d = d) = 1 /\ \A x \in Counted \ {d} : One(x = d) = 0
  BY DEF One
<1> QED BY <1>1, <1>2

\* The release of a captured object keeps the invariant.
LEMMA DisposeObjectSafe ==
  ASSUME BlocksIInv, NEW t \in Thread, DisposeObject(t)
  PROVE  BlocksIInv'
<1>1. /\ call[t] # <<>> /\ This(t).op = "decr" /\ This(t).on = OBJECT
      /\ object' = object - 1 /\ Continue(t, <<>>) /\ left' = left
      /\ mem' = mem /\ held' = held /\ forwarding' = forwarding
  BY DEF DisposeObject, At, This
<1>2. CallsOK' /\ BuildsOK' /\ KindsOK' /\ ScopeOK' /\ SharedOK' /\ Balance(This(t), <<>>)
  BY <1>1, StillGoes, NoneFollow, SameForNone
<1>3. /\ References(OBJECT) \in Nat /\ References(OBJECT)' \in Nat
      /\ References(OBJECT) = References(OBJECT)' + 1
      /\ \A x \in Counted \ {OBJECT} : References(x)' = References(x)
      /\ \A x \in Counted : Due(ToFree, x)' = Due(ToFree, x)
  <2>1. OBJECT \in Counted
    BY DEF Counted
  <2> QED BY <1>1, <1>2, <2>1, DropsOne
<1>4. object' = References(OBJECT)' /\ object' \in Nat
  BY <1>1, <1>3 DEF BlocksIInv, ObjectOK
<1>5. ASSUME NEW h \in Heap PROVE AddressOK(h)'
  <2>1. h \in Counted \ {OBJECT}
    BY HeapApart DEF Counted
  <2>2. References(h)' = References(h) /\ Due(ToFree, h)' = Due(ToFree, h) /\ AddressOK(h)
    BY <1>3, <2>1 DEF BlocksIInv, AddressesOK
  <2> QED BY <1>1, <2>2, AddressStays
<1>6. BlocksTypeOK'
  <2>1. mem \in MemType /\ held \in HeldType
    BY DEF BlocksIInv, BlocksTypeOK, MemType, HeldType
  <2> QED BY <1>1, <1>4, <2>1, TypeStays
<1> QED BY <1>2, <1>4, <1>5, <1>6 DEF BlocksIInv, AddressesOK, ObjectOK

\* A release of a latched count.
LEMMA StuckSafe ==
  ASSUME BlocksIInv, NEW t \in Thread, Loop(t), This(t).op = "decr",
         Stuck(mem[This(t).on].word), Continue(t, <<>>),
         mem' = mem, held' = held, forwarding' = forwarding, object' = object, left' = left
  PROVE  BlocksIInv'
<1>1. PICK d \in Heap : d = This(t).on
  BY LoopOn
<1>2. call[t] # <<>> /\ mem[d] # NULL /\ ~ mem[d].word.deallocating
  BY <1>1, LoopOn
<1>3. CallsOK' /\ BuildsOK' /\ KindsOK' /\ ScopeOK' /\ SharedOK' /\ Balance(This(t), <<>>)
  BY <1>2, StillGoes, NoneFollow, SameForNone
<1>4. /\ \A x \in Counted \ {d} : References(x)' = References(x)
      /\ \A x \in Counted : Due(ToFree, x)' = Due(ToFree, x)
  <2>1. d \in Counted
    BY DEF Counted
  <2> QED BY <1>1, <1>3, <2>1, DropsOne
<1>5. Fits(mem[d].word, mem[d].holds, References(d), Due(ToFree, d))
  BY <1>2 DEF BlocksIInv, AddressesOK, AddressOK
<1>6. mem[d].word.count = BLOCK_REFCOUNT_MASK
  <2>1. mem[d].word.count # 0
    BY <1>2, <1>5 DEF Fits
  <2> QED BY <1>1, <2>1 DEF Stuck, Latched
<1>7. ASSUME NEW h \in Heap PROVE AddressOK(h)'
  <2>1. CASE h = d
    <3>1. Due(ToFree, d)' = Due(ToFree, d)
      BY <1>4 DEF Counted
    <3>2. Fits(mem[d].word, mem[d].holds, References(d)', Due(ToFree, d)')
      BY <1>5, <1>6, <3>1 DEF Fits
    <3>3. AddressOK(d)'
      BY <1>2, <3>2 DEF AddressOK
    <3> QED BY <2>1, <3>3
  <2>2. CASE h # d
    <3>1. References(h)' = References(h) /\ Due(ToFree, h)' = Due(ToFree, h) /\ AddressOK(h)
      BY <1>4, <2>2 DEF BlocksIInv, AddressesOK, Counted
    <3> QED BY <3>1, AddressStays
  <2> QED BY <2>1, <2>2
<1>8. ObjectOK'
  BY <1>4, HeapApart DEF BlocksIInv, ObjectOK, Counted
<1>9. BlocksTypeOK'
  <2>1. mem \in MemType /\ held \in HeldType /\ object \in Nat
    BY DEF BlocksIInv, BlocksTypeOK, MemType, HeldType
  <2> QED BY <2>1, TypeStays
<1> QED BY <1>3, <1>7, <1>8, <1>9 DEF BlocksIInv, AddressesOK

Latches(t) == This(t).op \in {"incr", "try"} /\ Latched(mem[This(t).on].word)

FailsAt(t) ==
    \/ This(t).op = "try" /\ ~ NotDeallocating(mem[This(t).on].word)
    \/ This(t).op = "decr" /\ Stuck(mem[This(t).on].word)

\* A read that is not followed by a gift.
LEMMA ReadSafe ==
  ASSUME BlocksIInv, NEW t \in Thread, Read(t), FailsAt(t) \/ ~ Latches(t)
  PROVE  BlocksIInv'
<1>1. /\ Loop(t) /\ forwarding' = forwarding /\ object' = object /\ left' = left
      /\ IF FailsAt(t) \/ Latches(t)
           THEN /\ mem' = IF FailsAt(t) THEN mem ELSE Given(mem, This(t))
                /\ held' = IF FailsAt(t) THEN held ELSE HeldBy(This(t))
                /\ Continue(t, <<>>)
           ELSE /\ call' = [call EXCEPT ![t][1].old = mem[This(t).on].word]
                /\ mem' = mem /\ held' = held
  BY DEF Read, FailsAt, Latches
<1>2. /\ call[t] # <<>> /\ This(t).op \in {"incr", "try", "decr"}
      /\ mem[This(t).on].word \in Word
  BY <1>1, LoopOn
<1>3. CASE FailsAt(t)
  <2>1. mem' = mem /\ held' = held /\ Continue(t, <<>>)
    BY <1>1, <1>3
  <2>2. CASE This(t).op = "try"
    <3>1. Even(This(t), <<>>)
      BY <2>2, EvenNone DEF OwnOrGive, ToFree
    <3> QED BY <1>1, <1>2, <2>1, <2>2, <3>1, EvenGoes, NoneFollow, SameForNone
  <2>3. CASE This(t).op = "decr"
    <3>1. Stuck(mem[This(t).on].word)
      BY <1>3, <2>3 DEF FailsAt
    <3> QED BY <1>1, <2>1, <2>3, <3>1, StuckSafe
  <2> QED BY <1>3, <2>2, <2>3 DEF FailsAt
<1>4. CASE ~ FailsAt(t) /\ ~ Latches(t)
  <2>1. mem' = mem /\ held' = held /\ call' = [call EXCEPT ![t][1].old = mem[This(t).on].word]
    BY <1>1, <1>4
  <2>2. Readable(This(t), mem[This(t).on].word)
    BY <1>2, <1>4 DEF FailsAt, Latches, Readable
  <2> QED BY <1>1, <2>1, <2>2, MarkSafe
<1> QED BY <1>3, <1>4

-----------------------------------------------------------------------------
(* The steps in which a reference reaches whoever asked for it.                *)

\* In m all that was alive is, of its kind; o is given there for the operation of
\* t, which copies S from then on.
GiftFits(t, m, o, S, K) ==
    /\ m \in MemType /\ SameHolds(m) /\ Reaches(m, o, o.on) /\ o.to = This(t).to
    /\ \A h \in Heap : mem[h] # NULL => m[h] # NULL /\ m[h].kind = mem[h].kind
    /\ o.to \in Holder => m[o.on] # NULL /\ m[o.on].kind = "block"
    /\ o.on \in Heap /\ m[o.on] # NULL /\ m[o.on].kind = "byref" => forwarding'[t] = o.on
    /\ forwarding'[t] = forwarding[t] \/ forwarding[t] = "stack"
    /\ forwarding[t] # "out" => forwarding'[t] # "out"
    /\ \A u \in Thread \ {t} : forwarding'[u] = forwarding[u] /\ S \cap K[u] = {}
    /\ S \in SUBSET Heap /\ K[t] \subseteq S
    /\ \A k \in S \ K[t] : k = o.on /\ o.to \in S

\* Operations with which a call goes on that only assign, and count for nothing.
Idle(t, ops, S) ==
    /\ Follows(ops)
    /\ \A o \in Elems(ops) : o.op = "assign" /\ o.to \in S /\ forwarding'[t] # "out"
    /\ \A x \in Counted : /\ CountOf(Named(ops, OwnOrGive), x) = 0
                          /\ CountOf(Named(ops, ToFree), x) = 0

\* One reference more, to x; perhaps the frame's, too.
OneMore(t, x) ==
    \A y \in Counted :
        /\ References(y) \in Nat /\ References(y)' \in Nat
        /\ References(y)' + One(forwarding[t] = y)
             = References(y) + One(x = y) + One(forwarding'[t] = y)
        /\ Due(ToFree, y)' = Due(ToFree, y)

\* The references to x, when one more is given.
LEMMA TallyOneMore ==
  ASSUME NEW t \in Thread, NEW first, NEW ops, NEW to, NEW x, Tally(t, to, first, ops),
         GiftAdds(to, x), first.op \notin OwnOrGive \cup ToFree,
         \A y \in Counted : /\ CountOf(Named(ops, OwnOrGive), y) = 0
                            /\ CountOf(Named(ops, ToFree), y) = 0
  PROVE  OneMore(t, x)
<1> SUFFICES ASSUME NEW y \in Counted
             PROVE  /\ References(y) \in Nat /\ References(y)' \in Nat
                    /\ References(y)' + One(forwarding[t] = y)
                         = References(y) + One(x = y) + One(forwarding'[t] = y)
                    /\ Due(ToFree, y)' = Due(ToFree, y)
  BY DEF OneMore
<1>1. /\ References(y) \in Nat /\ References(y)' \in Nat
      /\ Due(ToFree, y) \in Nat /\ Due(ToFree, y)' \in Nat
      /\ Holding(to, y) \in Nat /\ Holding(to, y)' \in Nat
      /\ Capturing(to, y) \in Nat /\ Capturing(to, y)' \in Nat
      /\ References(y)' + Holding(to, y) + Capturing(to, y) + One(forwarding[t] = y)
             + One(first.op \in OwnOrGive /\ first.on = y)
             = References(y) + Holding(to, y)' + Capturing(to, y)' + One(forwarding'[t] = y)
                 + CountOf(Named(ops, OwnOrGive), y)
      /\ Due(ToFree, y)' + One(first.op \in ToFree /\ first.on = y)
             = Due(ToFree, y) + CountOf(Named(ops, ToFree), y)
  BY DEF Tally
<1>2. Holding(to, y)' + Capturing(to, y)' = Holding(to, y) + Capturing(to, y) + One(x = y)
  BY DEF GiftAdds
<1>3. /\ One(first.op \in OwnOrGive /\ first.on = y) = 0
      /\ One(first.op \in ToFree /\ first.on = y) = 0
  BY DEF One
<1>4. /\ One(forwarding[t] = y) \in {0, 1} /\ One(forwarding'[t] = y) \in {0, 1}
      /\ One(x = y) \in {0, 1}
  BY DEF One
<1>5. CountOf(Named(ops, OwnOrGive), y) = 0 /\ CountOf(Named(ops, ToFree), y) = 0
  OBVIOUS
<1>6. PICK r \in Nat, r2 \in Nat, h \in Nat, h2 \in Nat, c \in Nat, c2 \in Nat :
        /\ r = References(y) /\ r2 = References(y)' /\ h = Holding(to, y) /\ h2 = Holding(to, y)'
        /\ c = Capturing(to, y) /\ c2 = Capturing(to, y)'
  BY <1>1
<1>7. PICK f \in Nat, f2 \in Nat, e \in Nat :
        f = One(forwarding[t] = y) /\ f2 = One(forwarding'[t] = y) /\ e = One(x = y)
  BY <1>4
<1>8. r2 + h + c + f + 0 = r + h2 + c2 + f2 + 0 /\ h2 + c2 = h + c + e
  BY <1>1, <1>2, <1>3, <1>5, <1>6, <1>7
<1>9. r2 + f = r + e + f2
  BY <1>8
<1>10. Due(ToFree, y)' = Due(ToFree, y)
  BY <1>1, <1>3, <1>5
<1> QED BY <1>6, <1>7, <1>9, <1>10

\* The calls stay in order when what an operation asked for is there.
LEMMA GiftGoes ==
  ASSUME BlocksIInv, NEW t \in Thread, call[t] # <<>>, This(t).op \in {"assign", "incr", "try"},
         NEW K \in [Thread -> SUBSET Heap], Building(K), NEW S, NEW m, NEW o,
         GiftFits(t, m, o, S, K), mem' = Given(m, o), held' = HeldBy(o),
         NEW ops, Idle(t, ops, S), Continue(t, ops)
  PROVE  /\ CallsOK' /\ BuildsOK' /\ KindsOK' /\ ScopeOK' /\ SharedOK'
         /\ GiftKeeps(m, o.to) /\ OneMore(t, o.on)
<1>1. Counting /\ AddressesOK /\ CallsOK
  BY CountingOK DEF BlocksIInv
<1>2. PICK to, x : to = o.to /\ x = o.on
  OBVIOUS
<1>3. /\ m \in MemType /\ SameHolds(m) /\ Reaches(m, o, x) /\ to = This(t).to
      /\ \A h \in Heap : mem[h] # NULL => m[h] # NULL /\ m[h].kind = mem[h].kind
      /\ to \in Holder => m[x] # NULL /\ m[x].kind = "block"
      /\ x \in Heap /\ m[x] # NULL /\ m[x].kind = "byref" => forwarding'[t] = x
  BY <1>2 DEF GiftFits
<1>4. /\ forwarding'[t] = forwarding[t] \/ forwarding[t] = "stack"
      /\ forwarding[t] # "out" => forwarding'[t] # "out"
      /\ \A u \in Thread \ {t} : forwarding'[u] = forwarding[u] /\ S \cap K[u] = {}
      /\ S \in SUBSET Heap /\ K[t] \subseteq S
      /\ \A k \in S \ K[t] : k = x /\ to \in S
  BY <1>2 DEF GiftFits
<1>5. GiftKeeps(m, to) /\ GiftAdds(to, x)
  BY <1>1, <1>2, <1>3, Gives
<1>6. /\ \A k \in Heap : /\ mem'[k] = NULL <=> m[k] = NULL
                         /\ m[k] # NULL => mem'[k].word = m[k].word /\ mem'[k].kind = m[k].kind
      /\ \A k \in Heap \ {to} : Holds(k)' = Holds(k)
      /\ \A q \in Holder \ {to} : held'[q] = held[q]
      /\ mem' \in MemType /\ held' \in HeldType
  BY <1>5 DEF GiftKeeps
<1>7. /\ \A p \in Holder : \A h \in Heap : held[p][h] > 0 => held'[p][h] > 0
      /\ \A k \in Heap : \A y \in Counted : CountOf(Holds(k), y) > 0 => CountOf(Holds(k)', y) > 0
  BY <1>5 DEF GiftKeeps
<1>8. /\ \A p \in Holder : \A h \in Heap : held'[p][h] > 0 => held[p][h] > 0 \/ h = x
      /\ \A k \in Heap : \A y \in Counted : CountOf(Holds(k)', y) > 0 => CountOf(Holds(k), y) > 0 \/ y = x
      /\ to \in Heap => CountOf(Holds(to)', x) > 0
  BY <1>5 DEF GiftAdds
<1>9. CallsOK' /\ This(t) \in Ops(t) /\ \E rest : Goes(t, ops, rest)
  BY <1>1, Continues DEF Idle
<1>10. PICK rest : Goes(t, ops, rest)
  BY <1>9
<1>11. Counting'
  BY <1>6, <1>10 DEF Counting, Goes
<1>12. to \in Heap => to \in K[t]
  BY <1>3, <1>9 DEF Building, Builds
<1>13. StaysAlive
  BY <1>3, <1>6 DEF StaysAlive
<1>14. Apart(t, S, K)
  <2>1. ASSUME NEW u \in Thread \ {t}
        PROVE  /\ forwarding'[u] = forwarding[u] /\ call'[u] = call[u]
               /\ \A h \in Heap : held[u][h] > 0 => held'[u][h] > 0
               /\ \A k \in K[u] : Holds(k)' = Holds(k)
               /\ S \cap K[u] = {}
    <3>1. K[u] \subseteq Heap /\ K[t] \cap K[u] = {}
      BY DEF Building
    <3>2. \A k \in K[u] : k \in Heap \ {to}
      BY <1>12, <3>1
    <3>3. u \in Holder
      BY BlocksAssumption
    <3> QED BY <1>4, <1>6, <1>7, <1>10, <3>2, <3>3 DEF Goes
  <2>2. ASSUME NEW p \in Holder, NEW h \in Heap, held'[p][h] > 0
        PROVE  held[p][h] > 0 \/ (mem'[h] # NULL /\ mem'[h].kind = "block")
    <3>1. CASE p # to
      BY <1>6, <2>2, <3>1
    <3>2. CASE p = to
      BY <1>3, <1>6, <1>8, <2>2, <3>2
    <3> QED BY <3>1, <3>2
  <2> QED BY <2>1, <2>2 DEF Apart
<1>15. Ahead(t, ops, S)
  BY <1>4 DEF Idle, Ahead
<1>16. Grows(t, S, K)
  <2>1. K[t] \subseteq Heap /\ \A k \in Heap : k \in Counted
    BY DEF Counted
  <2>2. ASSUME NEW k \in S \ K[t] PROVE \E g \in S : CountOf(Holds(g)', k) > 0
    BY <1>4, <1>8
  <2> QED BY <1>4, <1>7, <2>1, <2>2 DEF Grows
<1>17. Adds(t, x)
  <2>1. \A b \in Ops(t) : b.op = "return" => b.on \in Heap
    BY <1>1, OpsTyped, OpFacts
  <2>2. \A g \in Heap : g \in Counted
    BY DEF Counted
  <2>3. x \in Heap /\ mem'[x] # NULL /\ mem'[x].kind = "byref" => forwarding'[t] = x
    BY <1>3, <1>6
  <2> QED BY <1>4, <1>8, <2>1, <2>2, <2>3 DEF Adds
<1>18. OnBlocks(t)' /\ InScope(t)' /\ Shares(t)' /\ Builds(t, S)'
  BY <1>4, <1>10, <1>13, <1>15, <1>16, <1>17, Carries
<1>19. BuildsOK' /\ KindsOK' /\ ScopeOK' /\ SharedOK'
  BY <1>4, <1>11, <1>13, <1>14, <1>18, Stands
<1>20. Turns(t, This(t), ops)
  BY <1>1, ContinueTurns DEF Idle
<1>21. Tally(t, to, This(t), ops)
  <2>1. \A u \in Thread \ {t} : forwarding'[u] = forwarding[u]
    BY <1>4
  <2> QED BY <1>1, <1>6, <1>11, <1>20, <2>1, Tallies
<1>22. OneMore(t, x)
  <2>1. This(t).op \notin OwnOrGive \cup ToFree
    BY DEF OwnOrGive, ToFree
  <2> QED BY <1>5, <1>21, <2>1, TallyOneMore DEF Idle
<1> QED BY <1>2, <1>5, <1>9, <1>19, <1>22

\* Nothing to do counts for nothing.
LEMMA IdleNone ==
  ASSUME NEW t, NEW S
  PROVE  Idle(t, <<>>, S)
BY NoneFollow, NoneNamed DEF Idle

\* An address to which nothing is given.
LEMMA GiftAddress ==
  ASSUME BlocksIInv, NEW t \in Thread, NEW m, NEW to, NEW x, GiftKeeps(m, to), OneMore(t, x),
         NEW h \in Heap, h # x, forwarding'[t] = h <=> forwarding[t] = h,
         m[h] = mem[h], h = to => mem[h] # NULL /\ ~ mem[h].word.deallocating
  PROVE  AddressOK(h)'
<1>1. References(h)' = References(h) /\ Due(ToFree, h)' = Due(ToFree, h)
  <2>1. h \in Counted
    BY DEF Counted
  <2>2. /\ References(h) \in Nat /\ References(h)' \in Nat
        /\ References(h)' + One(forwarding[t] = h)
             = References(h) + One(x = h) + One(forwarding'[t] = h)
        /\ Due(ToFree, h)' = Due(ToFree, h)
    BY <2>1 DEF OneMore
  <2>3. One(x = h) = 0 /\ One(forwarding'[t] = h) = One(forwarding[t] = h)
    BY DEF One
  <2>4. One(forwarding[t] = h) \in {0, 1}
    BY DEF One
  <2>5. PICK f \in {0, 1}, r \in Nat, r2 \in Nat :
          f = One(forwarding[t] = h) /\ r = References(h) /\ r2 = References(h)'
    BY <2>2, <2>4
  <2>6. r2 + f = r + 0 + f
    BY <2>2, <2>3, <2>5
  <2> QED BY <2>2, <2>5, <2>6
<1>2. /\ mem'[h] = NULL <=> mem[h] = NULL
      /\ mem[h] # NULL => mem'[h].word = mem[h].word
      /\ mem[h] # NULL /\ h # to => mem'[h].holds = mem[h].holds
  BY DEF GiftKeeps
<1>3. AddressOK(h)
  BY DEF BlocksIInv, AddressesOK
<1> QED BY <1>1, <1>2, <1>3, AddressStays

\* Nor is the captured object referred to otherwise than it was.
LEMMA GiftObject ==
  ASSUME BlocksIInv, NEW t \in Thread, NEW x \in Heap, OneMore(t, x), object' = object,
         forwarding[t] # OBJECT, forwarding'[t] # OBJECT
  PROVE  ObjectOK'
<1>1. OBJECT \in Counted /\ OBJECT # x
  BY HeapApart DEF Counted
<1>2. /\ References(OBJECT) \in Nat /\ References(OBJECT)' \in Nat
      /\ References(OBJECT)' + One(forwarding[t] = OBJECT)
           = References(OBJECT) + One(x = OBJECT) + One(forwarding'[t] = OBJECT)
  BY <1>1 DEF OneMore
<1>3. One(x = OBJECT) = 0 /\ One(forwarding'[t] = OBJECT) = 0 /\ One(forwarding[t] = OBJECT) = 0
  BY <1>1 DEF One
<1>4. References(OBJECT)' = References(OBJECT)
  BY <1>2, <1>3
<1> QED BY <1>4 DEF BlocksIInv, ObjectOK

\* Frames never name the captured object.
LEMMA FrameNames ==
  ASSUME BlocksIInv, NEW t \in Thread
  PROVE  forwarding[t] \in {"out", "stack"} \cup Heap /\ forwarding[t] # OBJECT
<1>1. forwarding[t] \in {"out", "stack"} \cup Heap
  BY DEF BlocksIInv, BlocksTypeOK
<1>2. OBJECT \notin {"out", "stack"} /\ OBJECT \notin Heap
  <2>1. OBJECT \notin {"out", "stack"}
    BY BlocksAssumption
  <2> QED BY <2>1, HeapApart
<1> QED BY <1>1, <1>2

\* The capture of an object keeps the invariant.
LEMMA AssignObjectSafe ==
  ASSUME BlocksIInv, NEW t \in Thread, AssignObject(t)
  PROVE  BlocksIInv'
<1>1. /\ call[t] # <<>> /\ This(t).op = "assign" /\ This(t).on = OBJECT /\ object' = object + 1
      /\ mem' = Given(mem, This(t)) /\ Continue(t, <<>>)
      /\ forwarding' = forwarding /\ held' = held /\ left' = left
  BY DEF AssignObject, At, This
<1>2. Counting /\ AddressesOK /\ CallsOK
  BY CountingOK DEF BlocksIInv
<1>3. PICK K \in [Thread -> SUBSET Heap] : Building(K)
  BY DEF BlocksIInv, BuildsOK
<1>4. This(t) \in FirstOp /\ This(t) \in Ops(t) /\ This(t).to \in Heap
  <2>1. This(t) \in FirstOp /\ This(t) \in Ops(t)
    BY <1>1, <1>2, FirstIs
  <2> QED BY <1>1, <2>1, OpFacts
<1>5. /\ This(t).to \in K[t] /\ mem[This(t).to] # NULL
      /\ ~ mem[This(t).to].word.deallocating /\ This(t).to \notin Holder
  <2>1. This(t).to \in K[t]
    BY <1>3, <1>4 DEF Building, Builds
  <2> QED BY <1>2, <1>3, <1>4, <2>1, BuiltLive, HeapApart
<1>6. held' = HeldBy(This(t))
  BY <1>1, <1>5 DEF HeldBy
<1>7. GiftFits(t, mem, This(t), K[t], K)
  <2>1. Reaches(mem, This(t), This(t).on)
    BY <1>1, <1>4, <1>5 DEF Reaches, Counted
  <2>2. SameHolds(mem) /\ mem \in MemType
    BY <1>2 DEF SameHolds, HoldsIn, Holds, Counting
  <2>3. \A u \in Thread \ {t} : K[t] \cap K[u] = {}
    BY <1>3 DEF Building
  <2> QED BY <1>1, <1>5, <2>1, <2>2, <2>3, HeapApart DEF GiftFits
<1>8. /\ CallsOK' /\ BuildsOK' /\ KindsOK' /\ ScopeOK' /\ SharedOK'
      /\ GiftKeeps(mem, This(t).to) /\ OneMore(t, OBJECT)
  BY <1>1, <1>3, <1>6, <1>7, IdleNone, GiftGoes
<1>9. AddressesOK'
  <2>1. ASSUME NEW h \in Heap PROVE AddressOK(h)'
    BY <1>1, <1>5, <1>8, GiftAddress, HeapApart
  <2> QED BY <2>1 DEF AddressesOK
<1>10. ObjectOK' /\ object' \in Nat
  <2>1. OBJECT \in Counted /\ object = References(OBJECT)
    BY DEF Counted, BlocksIInv, ObjectOK
  <2>2. /\ References(OBJECT) \in Nat /\ References(OBJECT)' \in Nat
        /\ References(OBJECT)' + One(forwarding[t] = OBJECT)
             = References(OBJECT) + One(OBJECT = OBJECT) + One(forwarding'[t] = OBJECT)
    BY <1>8, <2>1 DEF OneMore
  <2>3. /\ One(OBJECT = OBJECT) = 1 /\ One(forwarding'[t] = OBJECT) = 0
        /\ One(forwarding[t] = OBJECT) = 0
    BY <1>1, FrameNames DEF One
  <2>4. References(OBJECT)' = References(OBJECT) + 1
    BY <2>2, <2>3
  <2> QED BY <1>1, <2>1, <2>2, <2>4 DEF ObjectOK
<1>11. BlocksTypeOK'
  BY <1>1, <1>8, <1>10, TypeStays DEF GiftKeeps
<1> QED BY <1>8, <1>9, <1>10, <1>11 DEF BlocksIInv

\* The memory with a new object at an address.
WithNew(m, h, kind, w) == m = [mem EXCEPT ![h] = Object(kind, w)]

\* A new object at an address that is free.
LEMMA NewObject ==
  ASSUME BlocksIInv, NEW h \in Allocated, NEW kind \in {"block", "byref"}, NEW w \in Word,
         NEW m, WithNew(m, h, kind, w)
  PROVE  /\ h \in Heap /\ mem[h] = NULL /\ m \in MemType /\ SameHolds(m)
         /\ m[h] # NULL /\ m[h].kind = kind /\ m[h].word = w /\ m[h].holds = <<>>
         /\ \A k \in Heap \ {h} : m[k] = mem[k]
         /\ References(h) = 0 /\ Due(ToFree, h) = 0
         /\ \A p \in Holder : ~ (held[p][h] > 0)
         /\ \A t \in Thread : forwarding[t] # h
<1>1. h \in Heap /\ mem[h] = NULL /\ mem \in MemType
  BY DEF Allocated, BlocksIInv, BlocksTypeOK, MemType
<1>2. PICK n : n = Object(kind, w)
  OBVIOUS
<1>3. n \in HeapObject /\ n.kind = kind /\ n.word = w /\ n.holds = <<>> /\ n # NULL
  <2>1. <<>> \in Seq(Heap \cup {OBJECT})
    BY EmptySeq
  <2>2. n \in HeapObject /\ n.kind = kind /\ n.word = w /\ n.holds = <<>>
    BY <1>2, <2>1 DEF Object, HeapObject
  <2> QED BY <2>2, ObjectNotNull
<1>4. /\ m \in [Heap -> {NULL} \cup HeapObject] /\ m[h] = n
      /\ \A k \in Heap \ {h} : m[k] = mem[k]
  BY <1>1, <1>2, <1>3 DEF MemType, WithNew
<1>5. SameHolds(m)
  <2>1. ASSUME NEW k \in Heap PROVE HoldsIn(m, k) = Holds(k)
    <3>1. CASE k = h
      BY <1>1, <1>3, <1>4, <3>1 DEF HoldsIn, Holds
    <3>2. CASE k # h
      BY <1>4, <3>2 DEF HoldsIn, Holds
    <3> QED BY <3>1, <3>2
  <2> QED BY <2>1 DEF SameHolds
<1>6. References(h) = 0 /\ Due(ToFree, h) = 0
  BY <1>1 DEF BlocksIInv, AddressesOK, AddressOK
<1>7. /\ \A p \in Holder : ~ (held[p][h] > 0)
      /\ \A t \in Thread : forwarding[t] # h
  <2>1. Counting /\ AddressesOK
    BY CountingOK DEF BlocksIInv
  <2>2. ~ (References(h) > 0)
    BY <1>6
  <2> QED BY <1>1, <2>1, <2>2, ReferredLive
<1> QED BY <1>1, <1>3, <1>4, <1>5, <1>6, <1>7 DEF MemType

\* What is new is not what a thread is copying already.
LEMMA NewApart ==
  ASSUME BlocksIInv, NEW h \in Allocated, NEW K \in [Thread -> SUBSET Heap], Building(K)
  PROVE  \A t \in Thread : h \notin K[t]
<1>1. Counting /\ AddressesOK /\ mem[h] = NULL
  BY CountingOK DEF BlocksIInv, Allocated
<1> QED BY <1>1, BuiltLive

\* What was alive is not touched by an allocation.
LEMMA NewWords ==
  /\ NewBlock \in Word /\ NewByref \in Word
  /\ NewBlock.count = 1 /\ ~ NewBlock.deallocating
  /\ NewByref.count = 2 /\ ~ NewByref.deallocating
<1>1. 1 \in 0 .. BLOCK_REFCOUNT_MASK /\ 2 \in 0 .. BLOCK_REFCOUNT_MASK
  BY BlocksAssumption
<1> QED BY <1>1 DEF NewBlock, NewByref, Word

\* An address that has become that of an object with n references.
LEMMA NewAddress ==
  ASSUME NEW h \in Heap, mem'[h] # NULL, mem'[h].word.count \in Nat \ {0},
         ~ mem'[h].word.deallocating, References(h)' = mem'[h].word.count, Due(ToFree, h)' = 0
  PROVE  AddressOK(h)'
<1>1. mem'[h].word.deallocating <=> mem'[h].word.count = 0
  OBVIOUS
<1>2. One(mem'[h].word.deallocating) = 0
  BY DEF One
<1>3. Fits(mem'[h].word, mem'[h].holds, References(h)', Due(ToFree, h)')
  BY <1>1, <1>2 DEF Fits
<1> QED BY <1>3 DEF AddressOK

\* A capture of what has just been allocated, for the operation in hand.
CaptureOf(o, h) == [o EXCEPT !.on = h]

\* The operation of a capture, with the address that is captured.
LEMMA CaptureIs ==
  ASSUME NEW o \in FirstOp, NEW h
  PROVE  CaptureOf(o, h).on = h /\ CaptureOf(o, h).to = o.to
BY DEF CaptureOf, FirstOp, LaterOp

\* What the steps that allocate have in common.
\* An object of a kind is made at h, in m, and captured by the block of the operation.
Makes(t, h, kind, w, m) ==
    /\ WithNew(m, h, kind, w) /\ mem' = Given(m, CaptureOf(This(t), h))
    /\ held' = held /\ object' = object
    /\ w.count = (IF kind = "byref" THEN 2 ELSE 1) /\ ~ w.deallocating

\* The frame finds the copy of its __block variable.
Finds(t, h, kind) ==
    /\ forwarding'[t] # "out"
    /\ \A u \in Thread \ {t} : forwarding'[u] = forwarding[u]
    /\ \/ kind = "block" /\ forwarding'[t] = forwarding[t]
       \/ kind = "byref" /\ forwarding'[t] = h /\ forwarding[t] = "stack"

IdleOver(t, h, ops) == \A S : This(t).to \in S /\ h \in S => Idle(t, ops, S)

\* An object that is made for a block and captured by it keeps the invariant.
LEMMA CapturesNew ==
  ASSUME BlocksIInv, NEW t \in Thread, call[t] # <<>>, This(t).op = "assign",
         NEW h \in Allocated, NEW kind \in {"block", "byref"}, NEW w \in Word, NEW m,
         Makes(t, h, kind, w, m), Finds(t, h, kind), NEW ops, IdleOver(t, h, ops), Continue(t, ops)
  PROVE  /\ CallsOK' /\ BuildsOK' /\ KindsOK' /\ ScopeOK' /\ SharedOK'
         /\ AddressesOK' /\ ObjectOK' /\ mem' \in MemType
<1>1. Counting /\ AddressesOK /\ CallsOK
  BY CountingOK DEF BlocksIInv
<1>2. PICK K \in [Thread -> SUBSET Heap] : Building(K)
  BY DEF BlocksIInv, BuildsOK
<1>3. This(t) \in FirstOp /\ This(t) \in Ops(t) /\ This(t).to \in Heap
  <2>1. This(t) \in FirstOp /\ This(t) \in Ops(t)
    BY <1>1, FirstIs
  <2> QED BY <2>1, OpFacts
<1>4. PICK to \in Heap : to = This(t).to
  BY <1>3
<1>5. to \in K[t] /\ mem[to] # NULL /\ ~ mem[to].word.deallocating /\ to \notin Holder
  <2>1. to \in K[t]
    BY <1>2, <1>3, <1>4 DEF Building, Builds
  <2> QED BY <1>1, <1>2, <2>1, BuiltLive, HeapApart
<1>6. /\ h \in Heap /\ mem[h] = NULL /\ m \in MemType /\ SameHolds(m)
      /\ m[h] # NULL /\ m[h].kind = kind /\ m[h].word = w
      /\ \A k \in Heap \ {h} : m[k] = mem[k]
      /\ References(h) = 0 /\ Due(ToFree, h) = 0 /\ forwarding[t] # h
  <2>1. WithNew(m, h, kind, w)
    BY DEF Makes
  <2> QED BY <2>1, NewObject
<1>7. PICK o : o = CaptureOf(This(t), h)
  OBVIOUS
<1>8. o.on = h /\ o.to = to /\ o.to = This(t).to
  BY <1>3, <1>4, <1>7, CaptureIs
<1>9. held' = HeldBy(o) /\ mem' = Given(m, o)
  BY <1>5, <1>7, <1>8 DEF HeldBy, Makes
<1>10. PICK S : S = K[t] \cup {h}
  OBVIOUS
<1>11. S \in SUBSET Heap /\ to \in S /\ h \in S /\ \A u \in Thread \ {t} : S \cap K[u] = {}
  <2>1. \A u \in Thread : h \notin K[u]
    BY <1>2, NewApart
  <2>2. \A u \in Thread \ {t} : K[t] \cap K[u] = {}
    BY <1>2 DEF Building
  <2> QED BY <1>5, <1>6, <1>10, <2>1, <2>2
<1>12. GiftFits(t, m, o, S, K)
  <2>1. Reaches(m, o, o.on)
    BY <1>5, <1>6, <1>8 DEF Reaches, Counted
  <2>2. \A k \in Heap : mem[k] # NULL => m[k] # NULL /\ m[k].kind = mem[k].kind
    BY <1>6
  <2>3. o.on \in Heap /\ m[o.on] # NULL /\ m[o.on].kind = "byref" => forwarding'[t] = o.on
    BY <1>6, <1>8 DEF Finds
  <2>4. \A k \in S \ K[t] : k = o.on /\ o.to \in S
    BY <1>8, <1>10, <1>11
  <2>5. K[t] \subseteq S
    BY <1>10
  <2>6. o.to \notin Holder
    BY <1>5, <1>8
  <2> QED BY <1>6, <1>8, <1>11, <2>1, <2>2, <2>3, <2>4, <2>5, <2>6 DEF GiftFits, Finds
<1>13. Idle(t, ops, S)
  BY <1>4, <1>11 DEF IdleOver
<1>14. /\ CallsOK' /\ BuildsOK' /\ KindsOK' /\ ScopeOK' /\ SharedOK'
       /\ GiftKeeps(m, to) /\ OneMore(t, h)
  <2>1. This(t).op \in {"assign", "incr", "try"}
    OBVIOUS
  <2> QED BY <1>2, <1>8, <1>9, <1>12, <1>13, <2>1, GiftGoes
<1>15. mem' \in MemType /\ mem'[h] # NULL /\ mem'[h].word = w
  BY <1>6, <1>14 DEF GiftKeeps
<1>16. AddressOK(h)'
  <2>1. h \in Counted
    BY <1>6 DEF Counted
  <2>2. /\ References(h)' \in Nat
        /\ References(h)' + One(forwarding[t] = h) = 0 + One(h = h) + One(forwarding'[t] = h)
        /\ Due(ToFree, h)' = 0
    BY <1>6, <1>14, <2>1 DEF OneMore
  <2>3. One(forwarding[t] = h) = 0 /\ One(h = h) = 1
    BY <1>6 DEF One
  <2>4. One(forwarding'[t] = h) = IF kind = "byref" THEN 1 ELSE 0
    BY <1>6 DEF One, Finds
  <2>5. References(h)' = w.count /\ w.count \in Nat \ {0}
    BY <2>2, <2>3, <2>4 DEF Makes
  <2> QED BY <1>6, <1>15, <2>2, <2>5, NewAddress DEF Makes
<1>17. AddressesOK'
  <2>1. ASSUME NEW k \in Heap, k # h PROVE AddressOK(k)'
    <3>1. forwarding'[t] = k <=> forwarding[t] = k
      BY <2>1, HeapApart DEF Counted, Finds
    <3> QED BY <1>5, <1>6, <1>14, <2>1, <3>1, GiftAddress
  <2> QED BY <1>16, <2>1 DEF AddressesOK
<1>18. ObjectOK'
  <2>1. forwarding[t] # OBJECT /\ forwarding'[t] # OBJECT
    BY <1>6, FrameNames, HeapApart DEF Finds
  <2>2. object' = object
    BY DEF Makes
  <2> QED BY <1>6, <1>14, <2>1, <2>2, GiftObject
<1> QED BY <1>14, <1>15, <1>17, <1>18

\* The copy of a literal for the block that captures it keeps the invariant.
LEMMA AssignLiteralSafe ==
  ASSUME BlocksIInv, NEW t \in Thread, AssignLiteral(t)
  PROVE  BlocksIInv'
<1>1. PICK h \in Allocated :
        /\ mem' = Given([mem EXCEPT ![h] = Object("block", NewBlock)], [This(t) EXCEPT !.on = h])
        /\ Continue(t, Assigns(h, This(t).on))
  BY DEF AssignLiteral
<1>2. /\ call[t] # <<>> /\ This(t).op = "assign" /\ This(t).on \in Lit
      /\ forwarding' = forwarding /\ object' = object /\ held' = held /\ left' = left
  BY DEF AssignLiteral, At, This
<1>3. PICK m : m = [mem EXCEPT ![h] = Object("block", NewBlock)]
  OBVIOUS
<1>4. mem' = Given(m, CaptureOf(This(t), h))
  BY <1>1, <1>3 DEF CaptureOf
<1>5. forwarding'[t] # "out"
  <2>1. CallsOK /\ InScope(t)
    BY DEF BlocksIInv, ScopeOK
  <2>2. This(t) \in Ops(t)
    BY <1>2, <2>1, FirstIs
  <2> QED BY <1>2, <2>1, <2>2 DEF InScope
<1>6. ASSUME NEW S, h \in S PROVE Idle(t, Assigns(h, This(t).on), S)
  <2>1. h \in Heap
    BY DEF Allocated
  <2> QED BY <1>2, <1>5, <1>6, <2>1, AssignsFollow DEF Idle
<1>7. /\ CallsOK' /\ BuildsOK' /\ KindsOK' /\ ScopeOK' /\ SharedOK'
      /\ AddressesOK' /\ ObjectOK' /\ mem' \in MemType
  <2>1. Makes(t, h, "block", NewBlock, m)
    BY <1>2, <1>3, <1>4, NewWords DEF Makes, WithNew
  <2>2. Finds(t, h, "block")
    BY <1>2, <1>5 DEF Finds
  <2>3. IdleOver(t, h, Assigns(h, This(t).on))
    BY <1>6 DEF IdleOver
  <2> QED BY <1>1, <1>2, <2>1, <2>2, <2>3, NewWords, CapturesNew
<1>8. BlocksTypeOK'
  <2>1. held \in HeldType /\ object \in Nat
    BY DEF BlocksIInv, BlocksTypeOK, HeldType
  <2> QED BY <1>2, <1>7, <2>1, TypeStays
<1> QED BY <1>7, <1>8 DEF BlocksIInv

\* The capture of a __block variable keeps the invariant, whether its frame had
\* copied it or not.
LEMMA AssignByrefSafe ==
  ASSUME BlocksIInv, NEW t \in Thread, AssignByref(t)
  PROVE  BlocksIInv'
<1>1. CASE forwarding[t] # "stack"
  BY <1>1, AssignCopied
<1>2. CASE forwarding[t] = "stack"
  <2>1. PICK h \in Allocated :
          /\ mem' = Given([mem EXCEPT ![h] = Object("byref", NewByref)], [This(t) EXCEPT !.on = h])
          /\ forwarding' = Forwarded(t, h) /\ Continue(t, <<>>)
    BY <1>2 DEF AssignByref
  <2>2. /\ call[t] # <<>> /\ This(t).op = "assign"
        /\ object' = object /\ held' = held /\ left' = left
    BY DEF AssignByref, At, This
  <2>3. PICK m : m = [mem EXCEPT ![h] = Object("byref", NewByref)]
    OBVIOUS
  <2>4. mem' = Given(m, CaptureOf(This(t), h))
    BY <2>1, <2>3 DEF CaptureOf
  <2>5. /\ forwarding' \in [Thread -> {"out", "stack"} \cup Heap] /\ forwarding'[t] = h
        /\ \A u \in Thread \ {t} : forwarding'[u] = forwarding[u]
    <3>1. forwarding \in [Thread -> {"out", "stack"} \cup Heap] /\ h \in Heap
      BY DEF BlocksIInv, BlocksTypeOK, Allocated
    <3> QED BY <2>1, <3>1 DEF Forwarded
  <2>6. h \in Heap /\ forwarding'[t] # "out"
    BY <2>5, HeapApart DEF Allocated, Counted
  <2>7. /\ CallsOK' /\ BuildsOK' /\ KindsOK' /\ ScopeOK' /\ SharedOK'
        /\ AddressesOK' /\ ObjectOK' /\ mem' \in MemType
    <3>1. Makes(t, h, "byref", NewByref, m)
      BY <2>2, <2>3, <2>4, NewWords DEF Makes, WithNew
    <3>2. Finds(t, h, "byref")
      BY <1>2, <2>5, <2>6 DEF Finds
    <3>3. IdleOver(t, h, <<>>)
      BY IdleNone DEF IdleOver
    <3> QED BY <2>1, <2>2, <3>1, <3>2, <3>3, NewWords, CapturesNew
  <2>8. BlocksTypeOK'
    BY <2>2, <2>5, <2>7 DEF BlocksIInv, BlocksTypeOK, MemType
  <2> QED BY <2>7, <2>8 DEF BlocksIInv
<1> QED BY <1>1, <1>2

\* A loop that gets another reference to what it works on, whose word becomes w.
Raises(t, m, w) ==
    /\ Loop(t) /\ This(t).op \in {"incr", "try"} /\ Continue(t, <<>>)
    /\ mem' = Given(m, This(t)) /\ held' = HeldBy(This(t))
    /\ forwarding' = forwarding /\ object' = object /\ left' = left
    /\ m \in MemType /\ m[This(t).on] = [mem[This(t).on] EXCEPT !.word = w]
    /\ \A h \in Heap \ {This(t).on} : m[h] = mem[h]
    /\ w \in Word /\ w.count # 0 /\ ~ w.deallocating /\ ~ mem[This(t).on].word.deallocating
    /\ w.count \in {References(This(t).on) + 1, BLOCK_REFCOUNT_MASK}

\* What is in the memory after it, and for whom the reference is.
LEMMA RaisesFacts ==
  ASSUME BlocksIInv, NEW t \in Thread, NEW m, NEW w, Raises(t, m, w),
         NEW K \in [Thread -> SUBSET Heap], Building(K)
  PROVE  /\ GiftFits(t, m, This(t), K[t], K)
         /\ m[This(t).on].word = w /\ m[This(t).on] # NULL
         /\ This(t).to \in Heap => mem[This(t).to] # NULL /\ ~ mem[This(t).to].word.deallocating
<1>1. Counting /\ AddressesOK /\ CallsOK /\ OnBlocks(t) /\ InScope(t)
  BY CountingOK DEF BlocksIInv, KindsOK, ScopeOK
<1>2. PICK on, to : on \in Heap /\ on = This(t).on /\ to = This(t).to
  BY LoopOn DEF Raises
<1>3. /\ This(t) \in FirstOp /\ This(t) \in Ops(t) /\ This(t).op \in {"incr", "try"}
      /\ mem[on] \in HeapObject /\ mem[on] # NULL
  BY <1>2, LoopOn DEF Raises
<1>4. to \in Heap \cup Holder /\ (This(t).op = "try" => to \in Holder)
  BY <1>2, <1>3, OpFacts
<1>5. /\ m \in MemType /\ m[on] = [mem[on] EXCEPT !.word = w] /\ w \in Word
      /\ \A h \in Heap \ {on} : m[h] = mem[h]
      /\ forwarding' = forwarding
  BY <1>2 DEF Raises
<1>6. PICK n : n = m[on]
  OBVIOUS
<1>7. /\ n \in HeapObject /\ n # NULL /\ n.word = w
      /\ n.kind = mem[on].kind /\ n.holds = mem[on].holds
  <2>1. /\ n \in HeapObject /\ n.word = w
        /\ n.kind = mem[on].kind /\ n.holds = mem[on].holds
    BY <1>3, <1>5, <1>6 DEF HeapObject
  <2> QED BY <2>1, ObjectNotNull
<1>8. SameHolds(m)
  <2>1. ASSUME NEW k \in Heap PROVE HoldsIn(m, k) = Holds(k)
    <3>1. CASE k = on
      BY <1>3, <1>6, <1>7, <3>1 DEF HoldsIn, Holds
    <3>2. CASE k # on
      BY <1>5, <3>2 DEF HoldsIn, Holds
    <3> QED BY <3>1, <3>2
  <2> QED BY <2>1 DEF SameHolds
<1>9. ASSUME to \in Heap
      PROVE  to \in K[t] /\ mem[to] # NULL /\ ~ mem[to].word.deallocating /\ to \notin Holder
  <2>1. to \in K[t]
    BY <1>2, <1>3, <1>9 DEF Building, Builds
  <2> QED BY <1>1, <1>9, <2>1, BuiltLive, HeapApart
<1>10. m[on] # NULL /\ \A h \in Heap : mem[h] # NULL => m[h] # NULL /\ m[h].kind = mem[h].kind
  BY <1>5, <1>6, <1>7
<1>11. Reaches(m, This(t), on)
  BY <1>2, <1>4, <1>9, <1>10 DEF Reaches, Counted
<1>12. held[t][on] > 0 => mem[on].kind = "block"
  <2>1. t \in Holder
    BY BlocksAssumption
  <2> QED BY <1>2, <2>1 DEF BlocksIInv, KindsOK, IsBlock
<1>13. to \in Holder => mem[on].kind = "block"
  <2>1. CASE This(t).op = "try"
    BY <1>1, <1>2, <1>3, <2>1 DEF OnBlocks, IsBlock
  <2>2. CASE This(t).op = "incr"
    BY <1>1, <1>2, <1>3, <1>9, <1>12, <2>2 DEF InScope
  <2> QED BY <1>3, <2>1, <2>2
<1>14. mem[on].kind = "byref" => forwarding[t] = on
  <2>1. CASE This(t).op = "try"
    BY <1>4, <1>13, <2>1
  <2>2. CASE This(t).op = "incr"
    BY <1>1, <1>2, <1>3, <1>12, <2>2 DEF InScope
  <2> QED BY <1>3, <2>1, <2>2
<1>15. \A u \in Thread \ {t} : K[t] \cap K[u] = {}
  BY DEF Building
<1>16. K[t] \in SUBSET Heap
  OBVIOUS
<1>17. GiftFits(t, m, This(t), K[t], K)
  BY <1>2, <1>5, <1>6, <1>7, <1>8, <1>10, <1>11, <1>13, <1>14, <1>15, <1>16 DEF GiftFits
<1> QED BY <1>2, <1>6, <1>7, <1>9, <1>17

\* A reference that is counted as it is given keeps the invariant.
LEMMA RaiseSafe ==
  ASSUME BlocksIInv, NEW t \in Thread, NEW m, NEW w, Raises(t, m, w)
  PROVE  BlocksIInv'
<1>1. PICK K \in [Thread -> SUBSET Heap] : Building(K)
  BY DEF BlocksIInv, BuildsOK
<1>2. PICK on, to : on \in Heap /\ on = This(t).on /\ to = This(t).to
  BY LoopOn DEF Raises
<1>3. /\ GiftFits(t, m, This(t), K[t], K) /\ m[on].word = w /\ m[on] # NULL
      /\ to \in Heap => mem[to] # NULL /\ ~ mem[to].word.deallocating
  BY <1>1, <1>2, RaisesFacts
<1>4. /\ call[t] # <<>> /\ This(t).op \in {"assign", "incr", "try"} /\ Continue(t, <<>>)
      /\ mem' = Given(m, This(t)) /\ held' = HeldBy(This(t))
  BY LoopOn DEF Raises
<1>5. /\ CallsOK' /\ BuildsOK' /\ KindsOK' /\ ScopeOK' /\ SharedOK'
      /\ GiftKeeps(m, to) /\ OneMore(t, on)
  BY <1>1, <1>2, <1>3, <1>4, IdleNone, GiftGoes
<1>6. /\ forwarding' = forwarding /\ object' = object /\ left' = left
      /\ \A h \in Heap \ {on} : m[h] = mem[h]
      /\ w \in Word /\ w.count # 0 /\ ~ w.deallocating /\ ~ mem[on].word.deallocating
      /\ w.count \in {References(on) + 1, BLOCK_REFCOUNT_MASK}
  BY <1>2 DEF Raises
<1>7. AddressOK(on)'
  <2>1. on \in Counted
    BY <1>2 DEF Counted
  <2>2. /\ References(on) \in Nat /\ References(on)' \in Nat
        /\ References(on)' + One(forwarding[t] = on)
             = References(on) + One(on = on) + One(forwarding'[t] = on)
        /\ Due(ToFree, on)' = Due(ToFree, on)
    BY <1>5, <2>1 DEF OneMore
  <2>3. One(on = on) = 1 /\ One(forwarding'[t] = on) = One(forwarding[t] = on)
        /\ One(forwarding[t] = on) \in {0, 1}
    BY <1>6 DEF One
  <2>4. References(on)' = References(on) + 1
    BY <2>2, <2>3
  <2>5. mem[on] # NULL /\ Fits(mem[on].word, mem[on].holds, References(on), Due(ToFree, on))
    <3>1. mem[on] # NULL
      BY <1>2, LoopOn DEF Raises
    <3> QED BY <1>2, <3>1 DEF BlocksIInv, AddressesOK, AddressOK
  <2>6. Due(ToFree, on)' = One(w.deallocating)
    BY <1>6, <2>2, <2>5 DEF Fits, One
  <2>7. mem'[on] # NULL /\ mem'[on].word = w
    BY <1>2, <1>3, <1>5 DEF GiftKeeps
  <2>8. Fits(w, mem'[on].holds, References(on)', Due(ToFree, on)')
    BY <1>6, <2>4, <2>6 DEF Fits
  <2> QED BY <2>7, <2>8 DEF AddressOK
<1>8. AddressesOK'
  <2>1. ASSUME NEW h \in Heap, h # on PROVE AddressOK(h)'
    BY <1>3, <1>5, <1>6, <2>1, GiftAddress
  <2> QED BY <1>7, <2>1 DEF AddressesOK
<1>9. ObjectOK'
  <2>1. forwarding[t] # OBJECT
    BY FrameNames
  <2> QED BY <1>2, <1>5, <1>6, <2>1, GiftObject
<1>10. BlocksTypeOK'
  <2>1. object \in Nat
    BY DEF BlocksIInv, BlocksTypeOK
  <2>2. mem' \in MemType /\ held' \in HeldType
    BY <1>5 DEF GiftKeeps
  <2> QED BY <1>6, <2>1, <2>2, TypeStays
<1> QED BY <1>5, <1>8, <1>9, <1>10 DEF BlocksIInv

\* What an operation that has read goes by.
LEMMA OldFacts ==
  ASSUME NEW o \in FirstOp, o.op \in {"incr", "try", "decr"}, o.on \in Heap, o.old # NULL
  PROVE  o.old \in Word /\ Readable(o, o.old)
<1>1. CASE o.op = "incr"
  <2>1. o \in [op : {"incr"}, on : Heap, to : Heap \cup Holder,
               old : {NULL} \cup {w \in Word : ~Latched(w)}]
    BY <1>1 DEF FirstOp, LaterOp
  <2>2. o.old \in {NULL} \cup {w \in Word : ~Latched(w)}
    BY <2>1
  <2> QED BY <1>1, <2>2 DEF Readable
<1>2. CASE o.op = "try"
  <2>1. o \in [op : {"try"}, on : Heap, to : Holder,
               old : {NULL} \cup {w \in Word : ~Latched(w) /\ NotDeallocating(w)}]
    BY <1>2 DEF FirstOp, LaterOp
  <2>2. o.old \in {NULL} \cup {w \in Word : ~Latched(w) /\ NotDeallocating(w)}
    BY <2>1
  <2> QED BY <1>2, <2>2 DEF Readable
<1>3. CASE o.op = "decr"
  <2>1. \/ o \in [op : {"decr"}, on : Heap \cup {OBJECT}, to : {NULL}, old : {NULL}]
        \/ o \in [op : {"decr"}, on : Heap, to : {NULL}, old : {w \in Word : ~Stuck(w)}]
    BY <1>3 DEF FirstOp, LaterOp
  <2>2. o.old \in {NULL} \/ o.old \in {w \in Word : ~Stuck(w)}
    BY <2>1
  <2> QED BY <1>3, <2>2 DEF Readable
<1> QED BY <1>1, <1>2, <1>3

\* The count of what is alive, unless it has latched.
LEMMA CountIs ==
  ASSUME BlocksIInv, NEW h \in Heap, mem[h] # NULL
  PROVE  /\ mem[h] \in HeapObject /\ mem[h].word \in Word /\ References(h) \in Nat
         /\ Fits(mem[h].word, mem[h].holds, References(h), Due(ToFree, h))
         /\ ~ Latched(mem[h].word) => mem[h].word.count = References(h)
         /\ mem[h].word.deallocating <=> mem[h].word.count = 0
<1>1. mem[h] \in HeapObject /\ mem[h].word \in Word
  <2>1. mem[h] \in HeapObject
    BY DEF BlocksIInv, BlocksTypeOK
  <2> QED BY <2>1 DEF HeapObject
<1>2. Fits(mem[h].word, mem[h].holds, References(h), Due(ToFree, h))
  BY DEF BlocksIInv, AddressesOK, AddressOK
<1>3. References(h) \in Nat
  <2>1. Counting /\ h \in Counted
    BY CountingOK DEF BlocksIInv, Counted
  <2> QED BY <2>1, Sources DEF Sourced
<1>4. /\ ~ Latched(mem[h].word) => mem[h].word.count = References(h)
      /\ mem[h].word.deallocating <=> mem[h].word.count = 0
  BY <1>2 DEF Fits, Latched
<1> QED BY <1>1, <1>2, <1>3, <1>4

\* A latched count gives a reference without counting it, which keeps the
\* invariant.
LEMMA ReadGivesSafe ==
  ASSUME BlocksIInv, NEW t \in Thread, Read(t), ~ FailsAt(t), Latches(t)
  PROVE  BlocksIInv'
<1>1. /\ Loop(t) /\ forwarding' = forwarding /\ object' = object /\ left' = left
      /\ mem' = Given(mem, This(t)) /\ held' = HeldBy(This(t)) /\ Continue(t, <<>>)
  BY DEF Read, FailsAt, Latches
<1>2. PICK on \in Heap : on = This(t).on /\ mem[on] # NULL /\ mem[on] \in HeapObject
  BY <1>1, LoopOn
<1>3. PICK w : w = mem[on].word
  OBVIOUS
<1>4. This(t).op \in {"incr", "try"} /\ w.count = BLOCK_REFCOUNT_MASK
  BY <1>2, <1>3 DEF Latches, Latched
<1>5. w \in Word /\ (w.deallocating <=> w.count = 0)
  BY <1>2, <1>3, CountIs
<1>6. w.count # 0 /\ ~ w.deallocating
  BY <1>4, <1>5, BlocksAssumption
<1>7. [mem[on] EXCEPT !.word = w] = mem[on]
  BY <1>2, <1>3 DEF HeapObject
<1>8. mem \in MemType
  BY DEF BlocksIInv, BlocksTypeOK, MemType
<1>9. Raises(t, mem, w)
  BY <1>1, <1>2, <1>3, <1>4, <1>5, <1>6, <1>7, <1>8 DEF Raises
<1> QED BY <1>9, RaiseSafe

\* Every read keeps the invariant.
LEMMA ReadAllSafe ==
  ASSUME BlocksIInv, NEW t \in Thread, Read(t)
  PROVE  BlocksIInv'
BY ReadSafe, ReadGivesSafe

\* The word that an increment stores.
LEMMA IncrementedWord ==
  ASSUME NEW w \in Word, w.count # BLOCK_REFCOUNT_MASK
  PROVE  /\ Incremented(w) \in Word /\ Incremented(w).count = w.count + 1
         /\ Incremented(w).deallocating = w.deallocating
<1>1. w.count \in 0 .. BLOCK_REFCOUNT_MASK /\ w.count + 1 \in 0 .. BLOCK_REFCOUNT_MASK
  <2>1. w.count \in 0 .. BLOCK_REFCOUNT_MASK /\ BLOCK_REFCOUNT_MASK \in Nat
    BY BlocksAssumption DEF Word
  <2> QED BY <2>1
<1> QED BY <1>1 DEF Incremented, Word

\* A swap that counts one more keeps the invariant.
LEMMA SwapIncrementSafe ==
  ASSUME BlocksIInv, NEW t \in Thread, SwapIncrement(t)
  PROVE  BlocksIInv'
<1>1. /\ At(t, "incr") \/ At(t, "try")
      /\ This(t).old # NULL /\ Swaps(This(t)) /\ Continue(t, <<>>)
      /\ mem' = Given([mem EXCEPT ![This(t).on].word = Incremented(This(t).old)], This(t))
      /\ held' = HeldBy(This(t))
      /\ forwarding' = forwarding /\ object' = object /\ left' = left
  BY DEF SwapIncrement
<1>2. Loop(t) /\ This(t).op \in {"incr", "try"}
  <2>1. call[t] # <<>> /\ This(t).op \in {"incr", "try"} /\ CallsOK
    BY <1>1 DEF At, This, BlocksIInv
  <2>2. This(t) \in FirstOp
    BY <2>1, FirstIs
  <2>3. This(t).on \in Heap
    BY <2>1, <2>2, OpFacts
  <2> QED BY <1>1, <2>1, <2>3, HeapApart DEF Loop
<1>3. PICK on \in Heap : on = This(t).on /\ mem[on] # NULL /\ This(t) \in FirstOp
  BY <1>2, LoopOn
<1>4. PICK old \in Word : old = This(t).old /\ Readable(This(t), old) /\ mem[on].word = old
  <2>1. This(t).old \in Word /\ Readable(This(t), This(t).old)
    BY <1>1, <1>2, <1>3, OldFacts
  <2> QED BY <1>1, <1>3, <2>1 DEF Swaps
<1>5. /\ mem[on] \in HeapObject /\ References(on) \in Nat
      /\ ~ Latched(old) => old.count = References(on)
      /\ old.deallocating <=> old.count = 0
  BY <1>3, <1>4, CountIs
<1>6. ~ Latched(old) /\ ~ old.deallocating
  <2>1. old # NULL
    BY <1>1, <1>4
  <2>2. CASE This(t).op = "incr"
    BY <1>2, <1>3, <1>4, <2>1, <2>2, LoopOn DEF Readable
  <2>3. CASE This(t).op = "try"
    BY <1>4, <2>1, <2>3 DEF Readable, NotDeallocating
  <2> QED BY <1>2, <2>2, <2>3
<1>7. PICK w : w = Incremented(old)
  OBVIOUS
<1>8. w \in Word /\ w.count = References(on) + 1 /\ ~ w.deallocating /\ w.count # 0
  <2>1. old.count = References(on) /\ old.count # BLOCK_REFCOUNT_MASK
    BY <1>5, <1>6 DEF Latched
  <2>2. w \in Word /\ w.count = old.count + 1 /\ w.deallocating = old.deallocating
    BY <1>7, <2>1, IncrementedWord
  <2> QED BY <1>5, <1>6, <2>1, <2>2
<1>9. PICK m : m = [mem EXCEPT ![on].word = w]
  OBVIOUS
<1>10. /\ m \in MemType /\ m[on] = [mem[on] EXCEPT !.word = w]
       /\ \A h \in Heap \ {on} : m[h] = mem[h]
  <2>1. mem \in MemType
    BY DEF BlocksIInv, BlocksTypeOK, MemType
  <2>2. [mem[on] EXCEPT !.word = w] \in HeapObject
    BY <1>5, <1>8 DEF HeapObject
  <2>3. PICK n \in HeapObject : n = [mem[on] EXCEPT !.word = w]
    BY <2>2
  <2>4. m = [mem EXCEPT ![on] = n]
    BY <1>9, <2>3
  <2> QED BY <2>1, <2>3, <2>4 DEF MemType
<1>11. mem' = Given(m, This(t))
  BY <1>1, <1>3, <1>4, <1>7, <1>9
<1>12. Raises(t, m, w)
  BY <1>1, <1>2, <1>3, <1>4, <1>6, <1>8, <1>10, <1>11 DEF Raises
<1> QED BY <1>12, RaiseSafe

\* A return is the last of a call.
LEMMA ReturnEmpties ==
  ASSUME CallsOK, NEW t \in Thread, call[t] # <<>>, This(t).op = "return", Continue(t, <<>>)
  PROVE  call'[t] = <<>> /\ Ops(t)' = {}
<1>1. PICK s \in Seq(FirstOp) : s = call[t]
  BY DEF CallsOK
<1>2. Len(s) = 1
  <2>1. Len(s) \in Nat \ {0} /\ s[1] = Head(s)
    BY <1>1, EmptySeq
  <2>2. \A i \in 1 .. Len(s) - 1 : s[i].op # "return"
    BY <1>1 DEF CallsOK, CallOK
  <2>3. s[1].op = "return"
    BY <1>1, <2>1 DEF This
  <2>4. PICK n \in Nat \ {0} : n = Len(s)
    BY <2>1
  <2>5. n # 1 => 1 \in 1 .. n - 1
    OBVIOUS
  <2> QED BY <2>2, <2>3, <2>4, <2>5
<1>3. Tail(s) \in Seq(FirstOp) /\ Len(Tail(s)) = 0
  BY <1>1, <1>2, HeadTailProperties
<1>4. Tail(s) = <<>>
  BY <1>3, EmptySeq
<1>5. call'[t] = <<>> \o Tail(s)
  BY <1>1, Continues, NoneFollow
<1>6. call'[t] = <<>>
  BY <1>4, <1>5
<1>7. Len(<<>>) = 0
  BY EmptySeq
<1> QED BY <1>6, <1>7 DEF Ops

\* The return of a copied block to its holder keeps the invariant.
LEMMA ReturnSafe ==
  ASSUME BlocksIInv, NEW t \in Thread, Return(t)
  PROVE  BlocksIInv'
<1>1. /\ call[t] # <<>> /\ This(t).op = "return" /\ held' = HeldBy(This(t)) /\ Continue(t, <<>>)
      /\ mem' = mem /\ forwarding' = forwarding /\ object' = object /\ left' = left
  BY DEF Return, At, This
<1>2. Counting /\ AddressesOK /\ CallsOK /\ OnBlocks(t)
  BY CountingOK DEF BlocksIInv, KindsOK
<1>3. This(t) \in FirstOp /\ This(t) \in Ops(t)
  BY <1>1, <1>2, FirstIs
<1>4. PICK on \in Heap, to \in Holder : on = This(t).on /\ to = This(t).to
  BY <1>1, <1>3, OpFacts
<1>5. mem[on] # NULL /\ mem[on].kind = "block" /\ to \notin Heap
  <2>1. to \notin Heap
    BY HeapApart
  <2> QED BY <1>1, <1>2, <1>3, <1>4, <2>1 DEF OnBlocks, IsBlock
<1>6. GiftKeeps(mem, to) /\ GiftAdds(to, on)
  <2>1. SameHolds(mem) /\ mem \in MemType
    BY <1>2 DEF SameHolds, HoldsIn, Holds, Counting
  <2>2. Reaches(mem, This(t), This(t).on)
    BY <1>4, <1>5 DEF Reaches, Counted
  <2>3. mem' = Given(mem, This(t))
    BY <1>1, <1>4, <1>5 DEF Given
  <2>4. held' = HeldBy(This(t)) /\ Counting
    BY <1>1, <1>2
  <2>5. GiftKeeps(mem, This(t).to) /\ GiftAdds(This(t).to, This(t).on)
    BY <2>1, <2>2, <2>3, <2>4, Gives
  <2> QED BY <1>4, <2>5
<1>7. CallsOK' /\ \E rest : Goes(t, <<>>, rest)
  BY <1>1, <1>2, Continues, NoneFollow
<1>8. call'[t] = <<>> /\ Ops(t)' = {}
  BY <1>1, <1>2, ReturnEmpties
<1>9. PICK K \in [Thread -> SUBSET Heap] : Building(K)
  BY DEF BlocksIInv, BuildsOK
<1>10. PICK rest : Goes(t, <<>>, rest)
  BY <1>7
<1>11. Counting'
  BY <1>6, <1>10 DEF Counting, Goes, GiftKeeps
<1>12. StaysAlive
  BY <1>1 DEF StaysAlive
<1>13. Apart(t, {}, K)
  <2>1. ASSUME NEW u \in Thread \ {t}
        PROVE  /\ forwarding'[u] = forwarding[u] /\ call'[u] = call[u]
               /\ \A h \in Heap : held[u][h] > 0 => held'[u][h] > 0
               /\ \A k \in K[u] : Holds(k)' = Holds(k)
    <3>1. u \in Holder
      BY BlocksAssumption
    <3> QED BY <1>1, <1>6, <1>10, <3>1 DEF Goes, GiftKeeps, Holds
  <2>2. \A p \in Holder : \A h \in Heap :
          held'[p][h] > 0 => held[p][h] > 0 \/ (mem'[h] # NULL /\ mem'[h].kind = "block")
    BY <1>1, <1>5, <1>6 DEF GiftAdds
  <2> QED BY <2>1, <2>2 DEF Apart
<1>14. OnBlocks(t)' /\ InScope(t)' /\ Shares(t)' /\ Builds(t, {})'
  BY <1>8 DEF OnBlocks, InScope, Shares, Builds
<1>15. BuildsOK' /\ KindsOK' /\ ScopeOK' /\ SharedOK'
  BY <1>9, <1>11, <1>12, <1>13, <1>14, Stands
<1>16. Tally(t, to, This(t), <<>>)
  <2>1. Turns(t, This(t), <<>>)
    BY <1>1, <1>2, ContinueTurns, NoneFollow
  <2>2. /\ \A q \in Holder \ {to} : held'[q] = held[q]
        /\ \A k \in Heap \ {to} : Holds(k)' = Holds(k)
        /\ \A u \in Thread \ {t} : forwarding'[u] = forwarding[u]
    BY <1>1, <1>6 DEF GiftKeeps
  <2> QED BY <1>2, <1>11, <2>1, <2>2, Tallies
<1>17. ASSUME NEW x \in Counted
       PROVE  References(x)' = References(x) /\ Due(ToFree, x)' = Due(ToFree, x)
  <2>1. /\ References(x) \in Nat /\ References(x)' \in Nat
        /\ Due(ToFree, x) \in Nat /\ Due(ToFree, x)' \in Nat
        /\ Holding(to, x) \in Nat /\ Holding(to, x)' \in Nat
        /\ Capturing(to, x) \in Nat /\ Capturing(to, x)' \in Nat
        /\ References(x)' + Holding(to, x) + Capturing(to, x) + One(forwarding[t] = x)
             + One(This(t).op \in OwnOrGive /\ This(t).on = x)
             = References(x) + Holding(to, x)' + Capturing(to, x)' + One(forwarding'[t] = x)
                 + CountOf(Named(<<>>, OwnOrGive), x)
        /\ Due(ToFree, x)' + One(This(t).op \in ToFree /\ This(t).on = x)
             = Due(ToFree, x) + CountOf(Named(<<>>, ToFree), x)
    BY <1>16 DEF Tally
  <2>2. Holding(to, x)' + Capturing(to, x)' = Holding(to, x) + Capturing(to, x) + One(on = x)
    BY <1>6 DEF GiftAdds
  <2>3. /\ One(This(t).op \in OwnOrGive /\ This(t).on = x) = One(on = x)
        /\ One(This(t).op \in ToFree /\ This(t).on = x) = 0
    BY <1>1, <1>4 DEF One, OwnOrGive, ToFree
  <2>4. CountOf(Named(<<>>, OwnOrGive), x) = 0 /\ CountOf(Named(<<>>, ToFree), x) = 0
    BY NoneNamed
  <2>5. /\ One(on = x) \in {0, 1} /\ One(forwarding[t] = x) \in {0, 1}
        /\ One(forwarding'[t] = x) = One(forwarding[t] = x)
    BY <1>1 DEF One
  <2>6. PICK r \in Nat, r2 \in Nat, a \in Nat, a2 \in Nat, c \in Nat, c2 \in Nat :
          /\ r = References(x) /\ r2 = References(x)' /\ a = Holding(to, x) /\ a2 = Holding(to, x)'
          /\ c = Capturing(to, x) /\ c2 = Capturing(to, x)'
    BY <2>1
  <2>7. PICK e \in Nat, f \in Nat : e = One(on = x) /\ f = One(forwarding[t] = x)
    BY <2>5
  <2>8. r2 + a + c + f + e = r + a2 + c2 + f + 0 /\ a2 + c2 = a + c + e
    BY <2>1, <2>2, <2>3, <2>4, <2>5, <2>6, <2>7
  <2>9. r2 = r
    BY <2>8
  <2> QED BY <2>1, <2>3, <2>4, <2>6, <2>9
<1>18. AddressesOK' /\ ObjectOK'
  <2>1. ASSUME NEW h \in Heap PROVE AddressOK(h)'
    <3>1. References(h)' = References(h) /\ Due(ToFree, h)' = Due(ToFree, h) /\ AddressOK(h)
      BY <1>17 DEF BlocksIInv, AddressesOK, Counted
    <3> QED BY <1>1, <3>1, AddressStays
  <2>2. References(OBJECT)' = References(OBJECT)
    BY <1>17 DEF Counted
  <2> QED BY <1>1, <2>1, <2>2 DEF AddressesOK, ObjectOK, BlocksIInv
<1>19. BlocksTypeOK'
  <2>1. object \in Nat
    BY DEF BlocksIInv, BlocksTypeOK
  <2> QED BY <1>1, <1>6, <2>1, TypeStays DEF GiftKeeps
<1> QED BY <1>7, <1>15, <1>18, <1>19 DEF BlocksIInv

-----------------------------------------------------------------------------
(* The calls of a client.                                                      *)

\* Every object has as many references as it had.
Unmoved ==
    \A x \in Counted : References(x)' = References(x) /\ Due(ToFree, x)' = Due(ToFree, x)

\* An object whose memory and references stay is counted as it was.
LEMMA UnmovedCounts ==
  ASSUME BlocksIInv, Unmoved, mem' = mem, object' = object
  PROVE  AddressesOK' /\ ObjectOK'
<1>1. ASSUME NEW h \in Heap PROVE AddressOK(h)'
  <2>1. References(h)' = References(h) /\ Due(ToFree, h)' = Due(ToFree, h) /\ AddressOK(h)
    BY DEF Unmoved, BlocksIInv, AddressesOK, Counted
  <2> QED BY <2>1, AddressStays
<1>2. References(OBJECT)' = References(OBJECT)
  BY DEF Unmoved, Counted
<1> QED BY <1>1, <1>2 DEF AddressesOK, ObjectOK, BlocksIInv

\* What the thread has no more, its call is to give up.
Conserved(t, p, ops) ==
    \A x \in Counted :
        /\ Holding(p, x)' + Capturing(p, x)' + One(forwarding'[t] = x)
             + CountOf(Named(ops, OwnOrGive), x)
             = Holding(p, x) + Capturing(p, x) + One(forwarding[t] = x)
        /\ CountOf(Named(ops, ToFree), x) = 0

\* Such a step keeps the invariant, if what it leaves to do is in order.
LEMMA ConservedMoves ==
  ASSUME NEW t \in Thread, NEW p, NEW ops, Tally(t, p, Nothing, ops), Conserved(t, p, ops)
  PROVE  Unmoved
<1> SUFFICES ASSUME NEW x \in Counted
             PROVE  References(x)' = References(x) /\ Due(ToFree, x)' = Due(ToFree, x)
  BY DEF Unmoved
<1>1. /\ References(x) \in Nat /\ References(x)' \in Nat
      /\ Due(ToFree, x) \in Nat /\ Due(ToFree, x)' \in Nat
      /\ Holding(p, x) \in Nat /\ Holding(p, x)' \in Nat
      /\ Capturing(p, x) \in Nat /\ Capturing(p, x)' \in Nat
      /\ CountOf(Named(ops, OwnOrGive), x) \in Nat
      /\ References(x)' + Holding(p, x) + Capturing(p, x) + One(forwarding[t] = x)
             + One(Nothing.op \in OwnOrGive /\ Nothing.on = x)
             = References(x) + Holding(p, x)' + Capturing(p, x)' + One(forwarding'[t] = x)
                 + CountOf(Named(ops, OwnOrGive), x)
      /\ Due(ToFree, x)' + One(Nothing.op \in ToFree /\ Nothing.on = x)
             = Due(ToFree, x) + CountOf(Named(ops, ToFree), x)
  BY DEF Tally
<1>2. /\ One(Nothing.op \in OwnOrGive /\ Nothing.on = x) = 0
      /\ One(Nothing.op \in ToFree /\ Nothing.on = x) = 0
  BY NotNothing
<1>3. /\ Holding(p, x)' + Capturing(p, x)' + One(forwarding'[t] = x)
           + CountOf(Named(ops, OwnOrGive), x)
           = Holding(p, x) + Capturing(p, x) + One(forwarding[t] = x)
      /\ CountOf(Named(ops, ToFree), x) = 0
  BY DEF Conserved
<1>4. One(forwarding[t] = x) \in {0, 1} /\ One(forwarding'[t] = x) \in {0, 1}
  BY DEF One
<1>5. PICK r \in Nat, r2 \in Nat, a \in Nat, a2 \in Nat, c \in Nat, c2 \in Nat, n \in Nat :
        /\ r = References(x) /\ r2 = References(x)' /\ a = Holding(p, x) /\ a2 = Holding(p, x)'
        /\ c = Capturing(p, x) /\ c2 = Capturing(p, x)' /\ n = CountOf(Named(ops, OwnOrGive), x)
  BY <1>1
<1>6. PICK f \in Nat, f2 \in Nat : f = One(forwarding[t] = x) /\ f2 = One(forwarding'[t] = x)
  BY <1>4
<1>7. r2 + a + c + f + 0 = r + a2 + c2 + f2 + n /\ a2 + c2 + f2 + n = a + c + f
  BY <1>1, <1>2, <1>3, <1>5, <1>6
<1>8. r2 = r
  BY <1>7
<1>9. Due(ToFree, x)' = Due(ToFree, x)
  BY <1>1, <1>2, <1>3
<1> QED BY <1>5, <1>8, <1>9

\* A call with one operation that needs nothing.
Plain(t, ops) ==
    /\ CallOK(ops)
    /\ \A o \in Elems(ops) :
         /\ o.op \notin {"return", "assign"} /\ o.to \notin Heap
         /\ o.op = "try" => mem[o.on] # NULL /\ mem[o.on].kind = "block"
         /\ o.op = "incr" => held'[t][o.on] > 0

\* What stands when a thread begins or ends something of its own.
LEMMA ClientStands ==
  ASSUME BlocksIInv, NEW t \in Thread, call[t] = <<>>, NEW ops, Plain(t, ops),
         call' = [call EXCEPT ![t] = ops], mem' = mem, held' \in HeldType,
         \A u \in Thread \ {t} : forwarding'[u] = forwarding[u],
         \A q \in Holder \ {t} : held'[q] = held[q],
         \A h \in Heap : held'[t][h] > 0 => held[t][h] > 0
  PROVE  /\ CallsOK' /\ BuildsOK' /\ KindsOK' /\ ScopeOK' /\ SharedOK'
         /\ Tally(t, t, Nothing, ops)
<1>1. Counting /\ AddressesOK /\ CallsOK
  BY CountingOK DEF BlocksIInv
<1>2. /\ CallsOK' /\ call' \in CallType /\ \A u \in Thread \ {t} : call'[u] = call[u]
      /\ Ops(t)' = Elems(ops)
  BY <1>1, Begins1 DEF Plain
<1>3. Counting'
  BY <1>1, <1>2 DEF Counting
<1>4. PICK K \in [Thread -> SUBSET Heap] : Building(K)
  BY DEF BlocksIInv, BuildsOK
<1>5. StaysAlive
  BY DEF StaysAlive
<1>6. \A k \in Heap : Holds(k)' = Holds(k)
  BY DEF Holds
<1>7. Apart(t, {}, K)
  <2>1. \A u \in Thread \ {t} : u \in Holder \ {t} /\ K[u] \subseteq Heap
    BY BlocksAssumption
  <2>2. \A p \in Holder : \A h \in Heap : held'[p][h] > 0 => held[p][h] > 0
    OBVIOUS
  <2> QED BY <1>2, <1>6, <2>1, <2>2 DEF Apart
<1>8. OnBlocks(t)' /\ InScope(t)' /\ Shares(t)' /\ Builds(t, {})'
  <2>1. \A o \in Ops(t)' :
          /\ o.op \notin {"return", "assign"} /\ o.to \notin Heap
          /\ o.op = "try" => mem'[o.on] # NULL /\ mem'[o.on].kind = "block"
          /\ o.op = "incr" => held'[t][o.on] > 0
    BY <1>2 DEF Plain
  <2>2. OnBlocks(t)' /\ InScope(t)'
    BY <2>1 DEF OnBlocks, InScope, IsBlock
  <2>3. Shares(t)' /\ Builds(t, {})'
    BY <2>1 DEF Shares, Builds
  <2> QED BY <2>2, <2>3
<1>9. BuildsOK' /\ KindsOK' /\ ScopeOK' /\ SharedOK'
  BY <1>3, <1>4, <1>5, <1>7, <1>8, Stands
<1>10. Turns(t, Nothing, ops)
  BY <1>1, BeginTurns DEF Plain
<1>11. Tally(t, t, Nothing, ops)
  BY <1>1, <1>3, <1>6, <1>10, Tallies
<1> QED BY <1>2, <1>9, <1>11

\* Nothing to do, and one thing to do.
LEMMA PlainNone == \A t : Plain(t, <<>>)
BY NoneFollow DEF Plain

\* A call with nothing in it.
LEMMA BeginNone ==
  ASSUME CallsOK, NEW t \in Thread, call[t] = <<>>, call' = call
  PROVE  call' = [call EXCEPT ![t] = <<>>]
BY DEF CallsOK

\* A release owns the reference that it gives up.
LEMMA DecrOp ==
  ASSUME NEW h \in Heap
  PROVE  /\ Op("decr", h, NULL) \in FirstOp /\ Op("decr", h, NULL).op = "decr"
         /\ Op("decr", h, NULL).on = h /\ Op("decr", h, NULL).to = NULL
         /\ \A x \in Counted : /\ CountOf(Named(<<Op("decr", h, NULL)>>, OwnOrGive), x) = One(h = x)
                               /\ CountOf(Named(<<Op("decr", h, NULL)>>, ToFree), x) = 0
         /\ \A t : Plain(t, <<Op("decr", h, NULL)>>)
<1>1. PICK o : o = Op("decr", h, NULL)
  OBVIOUS
<1>2. o \in FirstOp /\ o.op = "decr" /\ o.on = h /\ o.to = NULL
  BY <1>1 DEF Op, FirstOp, LaterOp
<1>3. ASSUME NEW x \in Counted
      PROVE  /\ CountOf(Named(<<o>>, OwnOrGive), x) = One(h = x)
             /\ CountOf(Named(<<o>>, ToFree), x) = 0
  <2>1. /\ CountOf(Named(<<o>>, OwnOrGive), x) = One(o.op \in OwnOrGive /\ o.on = x)
        /\ CountOf(Named(<<o>>, ToFree), x) = One(o.op \in ToFree /\ o.on = x)
    BY <1>2, OneNamed
  <2>2. One(o.op \in OwnOrGive /\ o.on = x) = One(h = x) /\ One(o.op \in ToFree /\ o.on = x) = 0
    BY <1>2 DEF One, OwnOrGive, ToFree
  <2> QED BY <2>1, <2>2
<1>4. \A t : Plain(t, <<o>>)
  <2>1. CallOK(<<o>>) /\ Elems(<<o>>) = {o}
    BY <1>2, OneFollows
  <2> QED BY <1>2, <2>1, HeapApart DEF Plain
<1> QED BY <1>1, <1>2, <1>3, <1>4

\* An operation that neither owns nor frees.
LEMMA IdleOp ==
  ASSUME NEW o \in FirstOp, o.op \in {"incr", "try"}, NEW x \in Counted
  PROVE  CountOf(Named(<<o>>, OwnOrGive), x) = 0 /\ CountOf(Named(<<o>>, ToFree), x) = 0
<1>1. /\ CountOf(Named(<<o>>, OwnOrGive), x) = One(o.op \in OwnOrGive /\ o.on = x)
      /\ CountOf(Named(<<o>>, ToFree), x) = One(o.op \in ToFree /\ o.on = x)
  BY OneNamed
<1>2. One(o.op \in OwnOrGive /\ o.on = x) = 0 /\ One(o.op \in ToFree /\ o.on = x) = 0
  BY DEF One, OwnOrGive, ToFree
<1> QED BY <1>1, <1>2

\* The type of a frame's __block variable.
FramesType == [Thread -> {"out", "stack"} \cup Heap]

\* Frames stay in their type.
LEMMA ClientType ==
  ASSUME BlocksIInv, mem' = mem, object' = object, held' \in HeldType,
         forwarding' \in FramesType, left' \in 0 .. Calls
  PROVE  BlocksTypeOK'
BY DEF BlocksIInv, BlocksTypeOK, HeldType, FramesType

\* A call that begins is one of those left.
LEMMA LeftIs ==
  ASSUME BlocksIInv, NEW t \in Thread, Begin(t)
  PROVE  left' \in 0 .. Calls
<1>1. left \in 0 .. Calls /\ Calls \in Nat /\ left > 0 /\ left' = left - 1
  BY BlocksAssumption DEF BlocksIInv, BlocksTypeOK, Begin
<1> QED BY <1>1

\* The frame of a thread and what it is on.
LEMMA FrameMoves ==
  ASSUME BlocksIInv, NEW t \in Thread, NEW v \in {"out", "stack"},
         forwarding' = [forwarding EXCEPT ![t] = v]
  PROVE  /\ forwarding' \in FramesType /\ forwarding'[t] = v
         /\ \A u \in Thread \ {t} : forwarding'[u] = forwarding[u]
         /\ \A x \in Counted : One(forwarding'[t] = x) = 0
<1>1. forwarding \in FramesType
  BY DEF BlocksIInv, BlocksTypeOK, FramesType
<1>2. /\ forwarding' \in FramesType /\ forwarding'[t] = v
      /\ \A u \in Thread \ {t} : forwarding'[u] = forwarding[u]
  BY <1>1 DEF FramesType
<1>3. \A x \in Counted : One(forwarding'[t] = x) = 0
  BY <1>2, HeapApart DEF One
<1> QED BY <1>2, <1>3

\* What a thread holds, when only its frame has changed.
LEMMA SameHolding ==
  ASSUME BlocksIInv, NEW t \in Thread, mem' = mem, held' = held, NEW x \in Counted
  PROVE  /\ Holding(t, x) \in Nat /\ Holding(t, x)' = Holding(t, x)
         /\ Capturing(t, x) = 0 /\ Capturing(t, x)' = 0
<1>1. t \notin Heap /\ t \in Holder
  BY BlocksAssumption, HeapApart
<1>2. Holding(t, x) \in Nat /\ Holding(t, x)' = Holding(t, x)
  BY DEF Holding, BlocksIInv, BlocksTypeOK
<1>3. Capturing(t, x) = 0 /\ Capturing(t, x)' = 0
  BY <1>1 DEF Capturing
<1> QED BY <1>2, <1>3

\* The entry of a frame keeps the invariant.
LEMMA EnterFrameSafe ==
  ASSUME BlocksIInv, NEW t \in Thread, EnterFrame(t)
  PROVE  BlocksIInv'
<1>1. /\ Begin(t) /\ call[t] = <<>> /\ forwarding[t] = "out"
      /\ forwarding' = [forwarding EXCEPT ![t] = "stack"]
      /\ mem' = mem /\ object' = object /\ held' = held /\ call' = call
  BY DEF EnterFrame, Begin
<1>2. CallsOK /\ held \in HeldType
  BY DEF BlocksIInv, BlocksTypeOK, HeldType
<1>3. call' = [call EXCEPT ![t] = <<>>]
  BY <1>1, <1>2, BeginNone
<1>4. /\ forwarding' \in FramesType
      /\ \A u \in Thread \ {t} : forwarding'[u] = forwarding[u]
      /\ \A x \in Counted : One(forwarding'[t] = x) = 0
  BY <1>1, FrameMoves
<1>5. /\ CallsOK' /\ BuildsOK' /\ KindsOK' /\ ScopeOK' /\ SharedOK'
      /\ Tally(t, t, Nothing, <<>>)
  BY <1>1, <1>2, <1>3, <1>4, PlainNone, ClientStands
<1>6. Conserved(t, t, <<>>)
  <2>1. ASSUME NEW x \in Counted
        PROVE  /\ Holding(t, x)' + Capturing(t, x)' + One(forwarding'[t] = x)
                    + CountOf(Named(<<>>, OwnOrGive), x)
                    = Holding(t, x) + Capturing(t, x) + One(forwarding[t] = x)
               /\ CountOf(Named(<<>>, ToFree), x) = 0
    <3>1. One(forwarding[t] = x) = 0
      BY <1>1, HeapApart DEF One
    <3>2. CountOf(Named(<<>>, OwnOrGive), x) = 0 /\ CountOf(Named(<<>>, ToFree), x) = 0
      BY NoneNamed
    <3>3. /\ Holding(t, x) \in Nat /\ Holding(t, x)' = Holding(t, x)
          /\ Capturing(t, x) = 0 /\ Capturing(t, x)' = 0
      BY <1>1, SameHolding
    <3> QED BY <1>4, <3>1, <3>2, <3>3
  <2> QED BY <2>1 DEF Conserved
<1>7. AddressesOK' /\ ObjectOK'
  BY <1>1, <1>5, <1>6, ConservedMoves, UnmovedCounts
<1>8. BlocksTypeOK'
  BY <1>1, <1>2, <1>4, LeftIs, ClientType
<1> QED BY <1>5, <1>7, <1>8 DEF BlocksIInv

\* The end of a frame, which gives up its copied variable, keeps the invariant.
LEMMA LeaveFrameSafe ==
  ASSUME BlocksIInv, NEW t \in Thread, LeaveFrame(t)
  PROVE  BlocksIInv'
<1>1. /\ call[t] = <<>> /\ forwarding[t] # "out"
      /\ forwarding' = [forwarding EXCEPT ![t] = "out"]
      /\ mem' = mem /\ object' = object /\ held' = held /\ left' = left
  BY DEF LeaveFrame
<1>2. CallsOK /\ held \in HeldType /\ left' \in 0 .. Calls
  BY <1>1 DEF BlocksIInv, BlocksTypeOK, HeldType
<1>3. /\ forwarding' \in FramesType
      /\ \A u \in Thread \ {t} : forwarding'[u] = forwarding[u]
      /\ \A x \in Counted : One(forwarding'[t] = x) = 0
  BY <1>1, FrameMoves
<1>4. PICK ops : /\ Plain(t, ops) /\ call' = [call EXCEPT ![t] = ops]
                 /\ \A x \in Counted :
                      /\ CountOf(Named(ops, OwnOrGive), x) = One(forwarding[t] = x)
                      /\ CountOf(Named(ops, ToFree), x) = 0
  <2>1. CASE forwarding[t] = "stack"
    <3>1. call' = [call EXCEPT ![t] = <<>>]
      BY <1>1, <1>2, <2>1, BeginNone DEF LeaveFrame
    <3>2. \A x \in Counted : One(forwarding[t] = x) = 0
      BY <2>1, HeapApart DEF One
    <3>3. \A x \in Counted : /\ CountOf(Named(<<>>, OwnOrGive), x) = 0
                             /\ CountOf(Named(<<>>, ToFree), x) = 0
      BY NoneNamed
    <3> QED BY <3>1, <3>2, <3>3, PlainNone
  <2>2. CASE forwarding[t] # "stack"
    <3>1. PICK h \in Heap : h = forwarding[t]
      BY <1>1, <2>2, FrameNames
    <3>2. call' = [call EXCEPT ![t] = <<Op("decr", h, NULL)>>]
      BY <2>2, <3>1 DEF LeaveFrame
    <3>3. PICK ops : ops = <<Op("decr", h, NULL)>>
      OBVIOUS
    <3>4. Plain(t, ops) /\ \A x \in Counted : /\ CountOf(Named(ops, OwnOrGive), x) = One(h = x)
                                             /\ CountOf(Named(ops, ToFree), x) = 0
      BY <3>3, DecrOp
    <3>5. call' = [call EXCEPT ![t] = ops]
      BY <3>2, <3>3
    <3> QED BY <3>1, <3>4, <3>5
  <2> QED BY <2>1, <2>2
<1>5. /\ CallsOK' /\ BuildsOK' /\ KindsOK' /\ ScopeOK' /\ SharedOK'
      /\ Tally(t, t, Nothing, ops)
  BY <1>1, <1>2, <1>3, <1>4, ClientStands
<1>6. Conserved(t, t, ops)
  <2>1. ASSUME NEW x \in Counted
        PROVE  /\ Holding(t, x)' + Capturing(t, x)' + One(forwarding'[t] = x)
                    + CountOf(Named(ops, OwnOrGive), x)
                    = Holding(t, x) + Capturing(t, x) + One(forwarding[t] = x)
               /\ CountOf(Named(ops, ToFree), x) = 0
    <3>1. /\ Holding(t, x) \in Nat /\ Holding(t, x)' = Holding(t, x)
          /\ Capturing(t, x) = 0 /\ Capturing(t, x)' = 0
      BY <1>1, SameHolding
    <3>2. One(forwarding[t] = x) \in {0, 1}
      BY DEF One
    <3>3. /\ CountOf(Named(ops, OwnOrGive), x) = One(forwarding[t] = x)
          /\ CountOf(Named(ops, ToFree), x) = 0
      BY <1>4
    <3> QED BY <1>3, <3>1, <3>2, <3>3
  <2> QED BY <2>1 DEF Conserved
<1>7. AddressesOK' /\ ObjectOK'
  BY <1>1, <1>5, <1>6, ConservedMoves, UnmovedCounts
<1>8. BlocksTypeOK'
  BY <1>1, <1>2, <1>3, ClientType
<1> QED BY <1>5, <1>7, <1>8 DEF BlocksIInv

\* A call that begins with one operation that neither owns nor frees.
LEMMA BeginOneSafe ==
  ASSUME BlocksIInv, NEW t \in Thread, Begin(t), NEW o \in FirstOp, o.op \in {"incr", "try"},
         Plain(t, <<o>>), call' = [call EXCEPT ![t] = <<o>>],
         mem' = mem, forwarding' = forwarding, object' = object, held' = held
  PROVE  BlocksIInv'
<1>1. call[t] = <<>> /\ held' \in HeldType /\ forwarding' \in FramesType
  BY DEF Begin, BlocksIInv, BlocksTypeOK, HeldType, FramesType
<1>2. /\ CallsOK' /\ BuildsOK' /\ KindsOK' /\ ScopeOK' /\ SharedOK'
      /\ Tally(t, t, Nothing, <<o>>)
  BY <1>1, ClientStands
<1>3. Conserved(t, t, <<o>>)
  <2>1. ASSUME NEW x \in Counted
        PROVE  /\ Holding(t, x)' + Capturing(t, x)' + One(forwarding'[t] = x)
                    + CountOf(Named(<<o>>, OwnOrGive), x)
                    = Holding(t, x) + Capturing(t, x) + One(forwarding[t] = x)
               /\ CountOf(Named(<<o>>, ToFree), x) = 0
    <3>1. /\ Holding(t, x) \in Nat /\ Holding(t, x)' = Holding(t, x)
          /\ Capturing(t, x) = 0 /\ Capturing(t, x)' = 0
      BY SameHolding
    <3>2. One(forwarding[t] = x) \in {0, 1} /\ One(forwarding'[t] = x) = One(forwarding[t] = x)
      BY DEF One
    <3>3. CountOf(Named(<<o>>, OwnOrGive), x) = 0 /\ CountOf(Named(<<o>>, ToFree), x) = 0
      BY IdleOp
    <3> QED BY <3>1, <3>2, <3>3
  <2> QED BY <2>1 DEF Conserved
<1>4. AddressesOK' /\ ObjectOK'
  BY <1>2, <1>3, ConservedMoves, UnmovedCounts
<1>5. BlocksTypeOK'
  BY <1>1, LeftIs, ClientType
<1> QED BY <1>2, <1>4, <1>5 DEF BlocksIInv

\* The copy of a block on the heap keeps the invariant when it begins.
LEMMA CopyBlockSafe ==
  ASSUME BlocksIInv, NEW t \in Thread, NEW p \in Holder, NEW h \in Heap, CopyBlock(t, p, h)
  PROVE  BlocksIInv'
<1>1. /\ Begin(t) /\ held[t][h] > 0 /\ call' = [call EXCEPT ![t] = <<Op("incr", h, p)>>]
      /\ mem' = mem /\ forwarding' = forwarding /\ object' = object /\ held' = held
  BY DEF CopyBlock
<1>2. PICK o \in FirstOp : /\ o = Op("incr", h, p) /\ o.op = "incr" /\ o.on = h /\ o.to = p
  BY IncrOp
<1>3. Plain(t, <<o>>)
  <2>1. CallOK(<<o>>) /\ Elems(<<o>>) = {o}
    BY OneFollows
  <2>2. p \notin Heap
    BY HeapApart
  <2> QED BY <1>1, <1>2, <2>1, <2>2 DEF Plain
<1> QED BY <1>1, <1>2, <1>3, BeginOneSafe

\* A call of _Block_tryRetain keeps the invariant when it begins.
LEMMA TryRetainSafe ==
  ASSUME BlocksIInv, NEW t \in Thread, NEW h \in Heap, Blk(h), _Block_tryRetain(t, h)
  PROVE  BlocksIInv'
<1>1. /\ Begin(t) /\ Blk(h) /\ call' = [call EXCEPT ![t] = <<Op("try", h, t)>>]
      /\ mem' = mem /\ forwarding' = forwarding /\ object' = object /\ held' = held
  BY DEF _Block_tryRetain
<1>2. t \in Holder /\ t \notin Heap
  BY BlocksAssumption, HeapApart
<1>3. PICK o \in FirstOp : /\ o = Op("try", h, t) /\ o.op = "try" /\ o.on = h /\ o.to = t
  <2>1. [op |-> "try", on |-> h, to |-> t, old |-> NULL]
          \in [op : {"try"}, on : Heap, to : Holder,
              old : {NULL} \cup {w \in Word : ~Latched(w) /\ NotDeallocating(w)}]
    BY <1>2
  <2>2. Op("try", h, t) \in FirstOp
    BY <2>1 DEF Op, FirstOp
  <2> QED BY <2>2 DEF Op
<1>4. Plain(t, <<o>>)
  <2>1. CallOK(<<o>>) /\ Elems(<<o>>) = {o}
    BY OneFollows
  <2>2. mem[h] # NULL /\ mem[h].kind = "block"
    BY <1>1 DEF Blk, Live
  <2> QED BY <1>2, <1>3, <2>1, <2>2 DEF Plain
<1> QED BY <1>1, <1>3, <1>4, BeginOneSafe

\* The release of a block, whose reference passes to the call, keeps the
\* invariant.
LEMMA ReleaseBlockSafe ==
  ASSUME BlocksIInv, NEW t \in Thread, NEW h \in Heap, ReleaseBlock(t, h)
  PROVE  BlocksIInv'
<1>1. /\ call[t] = <<>> /\ held[t][h] > 0 /\ held' = [held EXCEPT ![t][h] = @ - 1]
      /\ call' = [call EXCEPT ![t] = <<Op("decr", h, NULL)>>]
      /\ mem' = mem /\ forwarding' = forwarding /\ object' = object /\ left' = left
  BY DEF ReleaseBlock
<1>2. t \in Holder /\ t \notin Heap
  BY BlocksAssumption, HeapApart
<1>3. held \in HeldType /\ forwarding' \in FramesType /\ left' \in 0 .. Calls
  BY <1>1 DEF BlocksIInv, BlocksTypeOK, HeldType, FramesType
<1>4. /\ held' \in HeldType /\ \A q \in Holder \ {t} : held'[q] = held[q]
      /\ \A k \in Heap : held[t][k] \in Nat /\ held'[t][k] \in Nat
                         /\ held'[t][k] = IF k = h THEN held[t][k] - 1 ELSE held[t][k]
  BY <1>1, <1>2, <1>3 DEF HeldType
<1>5. \A k \in Heap : held'[t][k] > 0 => held[t][k] > 0
  BY <1>1, <1>4
<1>6. PICK ops : ops = <<Op("decr", h, NULL)>> /\ Plain(t, ops)
  BY DecrOp
<1>7. call' = [call EXCEPT ![t] = ops] /\ \A u \in Thread \ {t} : forwarding'[u] = forwarding[u]
  BY <1>1, <1>6
<1>8. /\ CallsOK' /\ BuildsOK' /\ KindsOK' /\ ScopeOK' /\ SharedOK'
      /\ Tally(t, t, Nothing, ops)
  BY <1>1, <1>4, <1>5, <1>6, <1>7, ClientStands
<1>9. Conserved(t, t, ops)
  <2>1. ASSUME NEW x \in Counted
        PROVE  /\ Holding(t, x)' + Capturing(t, x)' + One(forwarding'[t] = x)
                    + CountOf(Named(ops, OwnOrGive), x)
                    = Holding(t, x) + Capturing(t, x) + One(forwarding[t] = x)
               /\ CountOf(Named(ops, ToFree), x) = 0
    <3>1. Capturing(t, x) = 0 /\ Capturing(t, x)' = 0
      BY <1>2 DEF Capturing
    <3>2. CountOf(Named(ops, OwnOrGive), x) = One(h = x) /\ CountOf(Named(ops, ToFree), x) = 0
      BY <1>6, DecrOp
    <3>3. One(forwarding[t] = x) \in {0, 1} /\ One(forwarding'[t] = x) = One(forwarding[t] = x)
      BY <1>1 DEF One
    <3>4. /\ Holding(t, x)' \in Nat /\ Holding(t, x) \in Nat /\ One(h = x) \in {0, 1}
          /\ Holding(t, x)' + One(h = x) = Holding(t, x)
      <4>1. CASE x \in Heap
        <5>1. Holding(t, x)' = held'[t][x] /\ Holding(t, x) = held[t][x]
          BY <1>2, <4>1 DEF Holding
        <5>2. One(h = x) = IF x = h THEN 1 ELSE 0
          BY DEF One
        <5>3. /\ held[t][x] \in Nat /\ held'[t][x] \in Nat
              /\ held'[t][x] = IF x = h THEN held[t][x] - 1 ELSE held[t][x]
          BY <1>4, <4>1
        <5> QED BY <5>1, <5>2, <5>3
      <4>2. CASE x \notin Heap
        <5>1. Holding(t, x)' = 0 /\ Holding(t, x) = 0
          BY <4>2 DEF Holding
        <5>2. One(h = x) = 0
          BY <4>2 DEF One
        <5> QED BY <5>1, <5>2
      <4> QED BY <4>1, <4>2
    <3> QED BY <3>1, <3>2, <3>3, <3>4
  <2> QED BY <2>1 DEF Conserved
<1>10. AddressesOK' /\ ObjectOK'
  BY <1>1, <1>8, <1>9, ConservedMoves, UnmovedCounts
<1>11. BlocksTypeOK'
  BY <1>1, <1>3, <1>4, ClientType
<1> QED BY <1>8, <1>10, <1>11 DEF BlocksIInv

\* The copy of a literal, at an address that was free, keeps the invariant when
\* it begins.
LEMMA CopyLiteralSafe ==
  ASSUME BlocksIInv, NEW t \in Thread, NEW p \in Holder, NEW l \in Lit, CopyLiteral(t, p, l)
  PROVE  BlocksIInv'
<1>1. PICK h \in Allocated :
        /\ mem' = [mem EXCEPT ![h] = Object("block", NewBlock)]
        /\ call' = [call EXCEPT ![t] = Assigns(h, l) \o <<Op("return", h, p)>>]
  BY DEF CopyLiteral
<1>2. /\ Begin(t) /\ call[t] = <<>> /\ forwarding[t] # "out"
      /\ forwarding' = forwarding /\ object' = object /\ held' = held
  BY DEF CopyLiteral, Begin
<1>3. Counting /\ AddressesOK /\ CallsOK
  BY CountingOK DEF BlocksIInv
<1>4. /\ h \in Heap /\ mem[h] = NULL /\ mem' \in MemType /\ SameHolds(mem')
      /\ mem'[h] # NULL /\ mem'[h].kind = "block" /\ mem'[h].word = NewBlock
      /\ mem'[h].holds = <<>>
      /\ \A k \in Heap \ {h} : mem'[k] = mem[k]
      /\ References(h) = 0 /\ Due(ToFree, h) = 0
  <2>1. PICK m : m = mem'
    OBVIOUS
  <2>2. WithNew(m, h, "block", NewBlock)
    BY <1>1, <2>1 DEF WithNew
  <2>3. /\ h \in Heap /\ mem[h] = NULL /\ m \in MemType /\ SameHolds(m)
        /\ m[h] # NULL /\ m[h].kind = "block" /\ m[h].word = NewBlock /\ m[h].holds = <<>>
        /\ \A k \in Heap \ {h} : m[k] = mem[k]
        /\ References(h) = 0 /\ Due(ToFree, h) = 0
    BY <2>2, NewObject, NewWords
  <2> QED BY <2>1, <2>3
<1>5. \A k \in Heap : Holds(k)' = Holds(k)
  BY <1>4 DEF SameHolds, HoldsIn, Holds
<1>6. PICK ops : ops = Assigns(h, l) \o <<Op("return", h, p)>>
  OBVIOUS
<1>7. /\ CallOK(ops)
      /\ \A o \in Elems(ops) : /\ o.op \in {"assign", "return"}
                               /\ o.op = "assign" => o.to = h
                               /\ o.op = "return" => o = Op("return", h, p)
      /\ Op("return", h, p) \in Elems(ops)
      /\ \A x \in Counted : /\ CountOf(Named(ops, OwnOrGive), x) = One(x = h)
                            /\ CountOf(Named(ops, ToFree), x) = 0
  <2>1. h \in Heap /\ Copies(ops, h, l, p)
    BY <1>4, <1>6 DEF Copies
  <2> QED BY <2>1, CopyBegins
<1>8. call' = [call EXCEPT ![t] = ops]
  BY <1>1, <1>6
<1>9. /\ CallsOK' /\ call' \in CallType /\ Ops(t)' = Elems(ops)
      /\ \A u \in Thread \ {t} : call'[u] = call[u]
  BY <1>2, <1>3, <1>7, <1>8, Begins1
<1>10. Counting'
  BY <1>2, <1>3, <1>4, <1>9 DEF Counting
<1>11. PICK K \in [Thread -> SUBSET Heap] : Building(K)
  BY DEF BlocksIInv, BuildsOK
<1>12. StaysAlive
  BY <1>4 DEF StaysAlive
<1>13. Apart(t, {h}, K)
  <2>1. \A u \in Thread : h \notin K[u] /\ K[u] \subseteq Heap
    BY <1>11, NewApart
  <2>2. \A u \in Thread \ {t} :
          /\ forwarding'[u] = forwarding[u] /\ call'[u] = call[u]
          /\ \A k \in Heap : held[u][k] > 0 => held'[u][k] > 0
          /\ \A k \in K[u] : Holds(k)' = Holds(k)
          /\ {h} \cap K[u] = {}
    BY <1>2, <1>5, <1>9, <2>1
  <2>3. \A q \in Holder : \A k \in Heap : held'[q][k] > 0 => held[q][k] > 0
    BY <1>2
  <2> QED BY <2>2, <2>3 DEF Apart
<1>14. Op("return", h, p).on = h /\ Op("return", h, p).to \notin Heap
       /\ Op("return", h, p).op = "return"
  BY HeapApart DEF Op
<1>15. OnBlocks(t)' /\ InScope(t)' /\ Shares(t)' /\ Builds(t, {h})'
  <2>1. \A o \in Ops(t)' : /\ o.op \in {"assign", "return"}
                           /\ o.op = "assign" => o.to = h
                           /\ o.op = "return" => o.on = h /\ o.to \notin Heap
    BY <1>7, <1>9, <1>14
  <2>2. OnBlocks(t)'
    BY <1>4, <2>1 DEF OnBlocks, IsBlock
  <2>3. InScope(t)'
    BY <1>2, <2>1 DEF InScope
  <2>4. Shares(t)'
    <3>1. Holds(h)' = <<>>
      BY <1>4 DEF Holds
    <3>2. \A g : CountOf(Holds(h)', g) = 0
      BY <3>1, CountEmpty
    <3> QED BY <2>1, <3>2 DEF Shares
  <2>5. Builds(t, {h})'
    <3>1. \A o \in Ops(t)' : (o.to \in Heap => o.to \in {h}) /\ (o.op = "return" => o.on \in {h})
      BY <2>1
    <3>2. \E o \in Ops(t)' : o.op = "return" /\ o.on = h
      BY <1>7, <1>9, <1>14
    <3> QED BY <3>1, <3>2 DEF Builds
  <2> QED BY <2>2, <2>3, <2>4, <2>5
<1>16. BuildsOK' /\ KindsOK' /\ ScopeOK' /\ SharedOK'
  <2>1. {h} \in SUBSET Heap
    BY <1>4
  <2> QED BY <1>10, <1>11, <1>12, <1>13, <1>15, <2>1, Stands
<1>17. Balance(Nothing, ops)
  <2>1. Turns(t, Nothing, ops)
    BY <1>2, <1>3, <1>7, <1>8, BeginTurns
  <2>2. /\ \A q \in Holder \ {NULL} : held'[q] = held[q]
        /\ \A k \in Heap \ {NULL} : Holds(k)' = Holds(k)
        /\ \A u \in Thread \ {t} : forwarding'[u] = forwarding[u]
    BY <1>2, <1>5
  <2>3. Tally(t, NULL, Nothing, ops)
    BY <1>3, <1>10, <2>1, <2>2, Tallies
  <2> QED BY <1>2, <2>3, Balances
<1>18. ASSUME NEW x \in Counted
       PROVE  References(x)' = References(x) + One(x = h) /\ Due(ToFree, x)' = Due(ToFree, x)
  <2>1. /\ References(x) \in Nat /\ References(x)' \in Nat
        /\ Due(ToFree, x) \in Nat /\ Due(ToFree, x)' \in Nat
        /\ References(x)' + One(Nothing.op \in OwnOrGive /\ Nothing.on = x)
             = References(x) + CountOf(Named(ops, OwnOrGive), x)
        /\ Due(ToFree, x)' + One(Nothing.op \in ToFree /\ Nothing.on = x)
             = Due(ToFree, x) + CountOf(Named(ops, ToFree), x)
    BY <1>17 DEF Balance
  <2>2. /\ One(Nothing.op \in OwnOrGive /\ Nothing.on = x) = 0
        /\ One(Nothing.op \in ToFree /\ Nothing.on = x) = 0
    BY NotNothing
  <2>3. One(x = h) \in {0, 1}
    BY DEF One
  <2> QED BY <1>7, <2>1, <2>2, <2>3
<1>19. AddressesOK'
  <2>1. ASSUME NEW k \in Heap PROVE AddressOK(k)'
    <3>1. k \in Counted
      BY DEF Counted
    <3>2. CASE k = h
      <4>1. References(h)' = 1 /\ Due(ToFree, h)' = 0
        BY <1>4, <1>18, <3>1, <3>2 DEF One
      <4>2. /\ mem'[h] # NULL /\ mem'[h].word.count = 1 /\ ~ mem'[h].word.deallocating
        BY <1>4, NewWords
      <4>3. AddressOK(h)'
        BY <1>4, <4>1, <4>2, NewAddress
      <4> QED BY <3>2, <4>3
    <3>3. CASE k # h
      <4>1. References(k)' = References(k) /\ Due(ToFree, k)' = Due(ToFree, k)
        <5>1. One(k = h) = 0
          BY <3>3 DEF One
        <5>2. References(k) \in Nat
          BY <1>3, <3>1, Sources DEF Sourced
        <5> QED BY <1>18, <3>1, <5>1, <5>2
      <4>2. AddressOK(k) /\ mem'[k] = mem[k]
        BY <1>3, <1>4, <3>3 DEF AddressesOK
      <4> QED BY <4>1, <4>2, AddressStays
    <3> QED BY <3>2, <3>3
  <2> QED BY <2>1 DEF AddressesOK
<1>20. ObjectOK'
  <2>1. OBJECT \in Counted /\ OBJECT # h
    BY <1>4, HeapApart DEF Counted
  <2>2. One(OBJECT = h) = 0
    BY <2>1 DEF One
  <2>3. References(OBJECT) \in Nat
    BY <1>3, <2>1, Sources DEF Sourced
  <2>4. References(OBJECT)' = References(OBJECT)
    BY <1>18, <2>1, <2>2, <2>3
  <2> QED BY <1>2, <2>4 DEF BlocksIInv, ObjectOK
<1>21. BlocksTypeOK'
  <2>1. left' \in 0 .. Calls
    BY <1>2, LeftIs
  <2> QED BY <1>2, <1>4, <2>1 DEF BlocksIInv, BlocksTypeOK, MemType
<1> QED BY <1>9, <1>16, <1>19, <1>20, <1>21 DEF BlocksIInv

\* A reference to h that one holder gives to another.
Moves(t, u, h) == held' = [held EXCEPT ![t][h] = @ - 1, ![u][h] = @ + 1]

\* What two holders have, when one gives a reference to the other.
LEMMA MovesOne ==
  ASSUME NEW t \in Holder, NEW u \in Holder, t # u, NEW h \in Heap, held \in HeldType,
         held[t][h] > 0, Moves(t, u, h)
  PROVE  /\ held' \in HeldType /\ \A q \in Holder \ {t, u} : held'[q] = held[q]
         /\ \A k \in Heap : /\ held[t][k] \in Nat /\ held[u][k] \in Nat
                            /\ held'[t][k] \in Nat /\ held'[u][k] \in Nat
                            /\ k # h => held'[t][k] = held[t][k] /\ held'[u][k] = held[u][k]
         /\ held[t][h] = held'[t][h] + 1 /\ held'[u][h] = held[u][h] + 1
<1>1. PICK a, b : /\ a = [held[t] EXCEPT ![h] = held[t][h] - 1]
                  /\ b = [held[u] EXCEPT ![h] = held[u][h] + 1]
  OBVIOUS
<1>2. held[t] \in [Heap -> Nat] /\ held[u] \in [Heap -> Nat]
  BY DEF HeldType
<1>3. PICK n \in Nat : held[t][h] = n + 1
  <2>1. held[t][h] - 1 \in Nat /\ held[t][h] = held[t][h] - 1 + 1
    BY <1>2
  <2> QED BY <2>1
<1>4. a \in [Heap -> Nat] /\ a[h] = n /\ \A k \in Heap \ {h} : a[k] = held[t][k]
  <2>1. held[t][h] - 1 = n
    BY <1>3
  <2> QED BY <1>1, <1>2, <2>1
<1>5. PICK m \in Nat : m = held[u][h]
  BY <1>2
<1>6. b \in [Heap -> Nat] /\ b[h] = m + 1 /\ \A k \in Heap \ {h} : b[k] = held[u][k]
  <2>1. held[u][h] + 1 = m + 1 /\ m + 1 \in Nat
    BY <1>5
  <2> QED BY <1>1, <1>2, <2>1
<1>7. held' = [held EXCEPT ![t] = a, ![u] = b]
  BY <1>1 DEF Moves, HeldType
<1>8. /\ held' \in [Holder -> [Heap -> Nat]] /\ held'[t] = a /\ held'[u] = b
      /\ \A q \in Holder \ {t, u} : held'[q] = held[q]
  <2>1. held \in [Holder -> [Heap -> Nat]]
    BY DEF HeldType
  <2>2. a \in [Heap -> Nat] /\ b \in [Heap -> Nat]
    BY <1>4, <1>6
  <2> QED BY <1>7, <2>1, <2>2
<1>9. ASSUME NEW k \in Heap
      PROVE  /\ held[t][k] \in Nat /\ held[u][k] \in Nat
             /\ held'[t][k] \in Nat /\ held'[u][k] \in Nat
             /\ k # h => held'[t][k] = held[t][k] /\ held'[u][k] = held[u][k]
  BY <1>2, <1>4, <1>6, <1>8
<1>10. held[t][h] = held'[t][h] + 1 /\ held'[u][h] = held[u][h] + 1
  BY <1>3, <1>4, <1>5, <1>6, <1>8
<1>11. held' \in HeldType /\ \A q \in Holder \ {t, u} : held'[q] = held[q]
  BY <1>8 DEF HeldType
<1> QED BY <1>9, <1>10, <1>11

\* What one holder gives to another is still held once.
LEMMA HeldGiven ==
  ASSUME NEW t \in Holder, NEW u \in Holder, t # u, NEW h \in Heap, held \in HeldType,
         held[t][h] > 0, Moves(t, u, h), NEW x
  PROVE  Held(x)' = Held(x)
<1>1. PICK f, g, e : /\ f = [q \in Holder |-> IF x \in Heap THEN held[q][x] ELSE 0]
                     /\ g = [q \in Holder |-> IF x \in Heap THEN held'[q][x] ELSE 0]
                     /\ e = [f EXCEPT ![t] = g[t]]
  OBVIOUS
<1>2. Held(x) = SumFunction(f) /\ Held(x)' = SumFunction(g)
  BY <1>1 DEF Held
<1>3. /\ held' \in HeldType /\ \A q \in Holder \ {t, u} : held'[q] = held[q]
      /\ \A k \in Heap : /\ held[t][k] \in Nat /\ held[u][k] \in Nat
                         /\ held'[t][k] \in Nat /\ held'[u][k] \in Nat
                         /\ k # h => held'[t][k] = held[t][k] /\ held'[u][k] = held[u][k]
      /\ held[t][h] = held'[t][h] + 1 /\ held'[u][h] = held[u][h] + 1
  BY MovesOne
<1>4. f \in [Holder -> Nat] /\ g \in [Holder -> Nat]
  <2>1. ASSUME NEW q \in Holder PROVE f[q] \in Nat /\ g[q] \in Nat
    <3>1. held[q] \in [Heap -> Nat] /\ held'[q] \in [Heap -> Nat]
      BY <1>3 DEF HeldType
    <3>2. x \in Heap => held[q][x] \in Nat /\ held'[q][x] \in Nat
      BY <3>1
    <3> QED BY <1>1, <3>2
  <2>2. f = [q \in Holder |-> f[q]] /\ g = [q \in Holder |-> g[q]]
    BY <1>1
  <2> QED BY <2>1, <2>2
<1>5. e \in [Holder -> Nat] /\ e[t] = g[t] /\ \A q \in Holder \ {t} : e[q] = f[q]
  <2>1. e = [f EXCEPT ![t] = g[t]] /\ g[t] \in Nat
    BY <1>1, <1>4
  <2> QED BY <1>4, <2>1
<1>6. \A q \in Holder \ {u} : e[q] = g[q]
  BY <1>1, <1>3, <1>5
<1>7. PICK r \in Nat : SumFunction(f) = f[t] + r /\ SumFunction(e) = e[t] + r
  BY <1>4, <1>5, Finite, SumSplits
<1>8. PICK s \in Nat : SumFunction(e) = e[u] + s /\ SumFunction(g) = g[u] + s
  BY <1>4, <1>5, <1>6, Finite, SumSplits
<1>9. f[t] \in Nat /\ g[t] \in Nat /\ f[u] \in Nat /\ g[u] \in Nat
  BY <1>4
<1>10. f[t] + f[u] = g[t] + g[u]
  <2>1. CASE x \in Heap
    <3>1. f[t] = held[t][x] /\ f[u] = held[u][x] /\ g[t] = held'[t][x] /\ g[u] = held'[u][x]
      BY <1>1, <2>1
    <3>2. CASE x = h
      BY <1>3, <2>1, <3>1, <3>2
    <3>3. CASE x # h
      BY <1>3, <2>1, <3>1, <3>3
    <3> QED BY <3>2, <3>3
  <2>2. CASE x \notin Heap
    BY <1>1, <2>2
  <2> QED BY <2>1, <2>2
<1>11. e[t] = g[t] /\ e[u] = f[u]
  BY <1>5
<1>12. PICK a \in Nat, b \in Nat, c \in Nat, d \in Nat :
         a = f[t] /\ b = f[u] /\ c = g[t] /\ d = g[u]
  BY <1>9
<1>13. a + b = c + d /\ c + r = b + s
  BY <1>7, <1>8, <1>10, <1>11, <1>12
<1>14. a + r = d + s
  BY <1>13
<1> QED BY <1>2, <1>7, <1>8, <1>12, <1>14

\* A reference handed to another thread keeps the invariant.
LEMMA GiveSafe ==
  ASSUME BlocksIInv, NEW t \in Thread, NEW u \in Thread, NEW h \in Heap, Give(t, u, h)
  PROVE  BlocksIInv'
<1>1. /\ call[t] = <<>> /\ t # u /\ held[t][h] > 0 /\ Moves(t, u, h)
      /\ mem' = mem /\ forwarding' = forwarding /\ object' = object
      /\ call' = call /\ left' = left
  BY DEF Give, Moves
<1>2. Counting /\ CallsOK /\ held \in HeldType
  BY CountingOK DEF BlocksIInv, Counting
<1>3. t \in Holder /\ u \in Holder
  BY BlocksAssumption
<1>4. /\ held' \in HeldType /\ \A q \in Holder \ {t, u} : held'[q] = held[q]
      /\ \A k \in Heap : /\ held[t][k] \in Nat /\ held[u][k] \in Nat
                         /\ held'[t][k] \in Nat /\ held'[u][k] \in Nat
                         /\ k # h => held'[t][k] = held[t][k] /\ held'[u][k] = held[u][k]
      /\ held[t][h] = held'[t][h] + 1 /\ held'[u][h] = held[u][h] + 1
  BY <1>1, <1>2, <1>3, MovesOne
<1>5. Unmoved
  <2>1. ASSUME NEW x \in Counted
        PROVE  References(x)' = References(x) /\ Due(ToFree, x)' = Due(ToFree, x)
    <3>1. Held(x)' = Held(x)
      BY <1>1, <1>2, <1>3, HeldGiven
    <3>2. Captured(x)' = Captured(x)
      BY <1>1 DEF Captured, Holds
    <3>3. Frames(x)' = Frames(x)
      BY <1>1 DEF Frames
    <3>4. \A kinds : Due(kinds, x)' = Due(kinds, x)
      BY <1>1 DEF Due
    <3> QED BY <3>1, <3>2, <3>3, <3>4 DEF References
  <2> QED BY <2>1 DEF Unmoved
<1>6. AddressesOK' /\ ObjectOK'
  BY <1>1, <1>5, UnmovedCounts
<1>7. CallsOK'
  BY <1>1, <1>2 DEF CallsOK
<1>8. Counting'
  BY <1>1, <1>2, <1>4 DEF Counting
<1>9. PICK K \in [Thread -> SUBSET Heap] : Building(K)
  BY DEF BlocksIInv, BuildsOK
<1>10. \A k \in Heap : Holds(k)' = Holds(k)
  BY <1>1 DEF Holds
<1>11. StaysAlive
  BY <1>1 DEF StaysAlive
<1>12. Apart(t, {}, K)
  <2>1. ASSUME NEW v \in Thread \ {t}, NEW k \in Heap, held[v][k] > 0 PROVE held'[v][k] > 0
    <3>1. v \in Holder
      BY BlocksAssumption
    <3>2. CASE v # u
      BY <1>4, <2>1, <3>1, <3>2
    <3>3. CASE v = u
      BY <1>4, <2>1, <3>3
    <3> QED BY <3>2, <3>3
  <2>2. ASSUME NEW q \in Holder, NEW k \in Heap, held'[q][k] > 0
        PROVE  held[q][k] > 0 \/ (mem'[k] # NULL /\ mem'[k].kind = "block")
    <3>1. CASE k = h
      BY <1>1, <1>3, <3>1 DEF BlocksIInv, KindsOK, IsBlock
    <3>2. CASE k # h
      BY <1>4, <2>2, <3>2
    <3> QED BY <3>1, <3>2
  <2>3. \A v \in Thread : K[v] \subseteq Heap
    BY <1>9
  <2> QED BY <1>1, <1>10, <2>1, <2>2, <2>3 DEF Apart
<1>13. Ops(t)' = {}
  <2>1. Ops(t)' = Elems(<<>>)
    BY <1>1 DEF Ops, Elems
  <2> QED BY <2>1, NoneFollow
<1>14. OnBlocks(t)' /\ InScope(t)' /\ Shares(t)' /\ Builds(t, {})'
  BY <1>13 DEF OnBlocks, InScope, Shares, Builds
<1>15. BuildsOK' /\ KindsOK' /\ ScopeOK' /\ SharedOK'
  BY <1>8, <1>9, <1>11, <1>12, <1>14, Stands
<1>16. BlocksTypeOK'
  BY <1>1, <1>4 DEF BlocksIInv, BlocksTypeOK, HeldType
<1> QED BY <1>6, <1>7, <1>15, <1>16 DEF BlocksIInv

\* The invariant is about what blocks, frames, holders and calls have.
LEMMA Untouched ==
  ASSUME BlocksIInv, left' \in 0 .. Calls,
         UNCHANGED <<mem, forwarding, object, held, call>>
  PROVE  BlocksIInv'
<1>1. BlocksTypeOK'
  BY DEF BlocksIInv, BlocksTypeOK
<1>2. CallsOK'
  BY DEF BlocksIInv, CallsOK
<1>3. Unmoved
  BY DEF Unmoved, References, Held, Captured, Holds, Frames, Due
<1>4. AddressesOK' /\ ObjectOK'
  BY <1>3, UnmovedCounts
<1>5. BuildsOK'
  BY DEF BlocksIInv, BuildsOK, Building, Builds, Ops, Holds
<1>6. KindsOK'
  BY DEF BlocksIInv, KindsOK, OnBlocks, IsBlock, Ops
<1>7. ScopeOK' /\ SharedOK'
  BY DEF BlocksIInv, ScopeOK, InScope, SharedOK, Shares, IsByref, Ops, Holds
<1> QED BY <1>1, <1>2, <1>4, <1>5, <1>6, <1>7 DEF BlocksIInv

-----------------------------------------------------------------------------
(* The end of an object.                                                       *)

\* What an object with some captures goes on with when its last reference is gone.
Ends(ops, h, d) == /\ ops = d \o <<Op("free", h, NULL)>>
                   /\ d = [i \in 1 .. Len(mem[h].holds) |-> Op("decr", mem[h].holds[i], NULL)]

\* The memory is freed by an operation that owns nothing.
LEMMA FreeOp ==
  ASSUME NEW h \in Heap
  PROVE  /\ Op("free", h, NULL) \in FirstOp /\ Op("free", h, NULL) \in LaterOp
         /\ Op("free", h, NULL).op = "free" /\ Op("free", h, NULL).on = h
         /\ Op("free", h, NULL).to = NULL
BY DEF Op, LaterOp, FirstOp

\* What a block captured is given up, each reference once, and the block is
\* freed once.
LEMMA DisposesNamed ==
  ASSUME NEW h \in Heap, mem[h] \in HeapObject, NEW ops, NEW d, Ends(ops, h, d)
  PROVE  /\ d \in Seq(FirstOp) /\ Len(d) = Len(mem[h].holds)
         /\ \A i \in 1 .. Len(d) : d[i] \in LaterOp /\ d[i].op = "decr" /\ d[i].to = NULL
         /\ \A x \in Counted : /\ CountOf(Named(d, OwnOrGive), x) = CountOf(mem[h].holds, x)
                               /\ CountOf(Named(d, ToFree), x) = 0
<1>1. PICK s \in Seq(Counted), n \in Nat : s = mem[h].holds /\ n = Len(s)
  <2>1. mem[h].holds \in Seq(Counted)
    BY DEF HeapObject, Counted
  <2> QED BY <2>1, LenProperties
<1>2. d = [i \in 1 .. n |-> Op("decr", s[i], NULL)]
  BY <1>1 DEF Ends
<1>3. \A i \in 1 .. n : s[i] \in Counted
  BY <1>1, ElementOfSeq
<1>4. ASSUME NEW i \in 1 .. n
      PROVE  d[i] \in LaterOp /\ d[i].op = "decr" /\ d[i].to = NULL /\ d[i].on = s[i]
  <2>1. d[i] = [op |-> "decr", on |-> s[i], to |-> NULL, old |-> NULL]
    BY <1>2 DEF Op
  <2>2. s[i] \in Heap \cup {OBJECT}
    BY <1>3 DEF Counted
  <2> QED BY <2>1, <2>2 DEF LaterOp
<1>5. d \in Seq(LaterOp) /\ Len(d) = n
  <2>1. d \in [1 .. n -> LaterOp]
    BY <1>2, <1>4
  <2> QED BY <2>1
<1>6. d \in Seq(FirstOp)
  BY <1>5, SeqMonotonic DEF FirstOp
<1>7. ASSUME NEW x \in Counted
      PROVE  /\ CountOf(Named(d, OwnOrGive), x) = CountOf(s, x)
             /\ CountOf(Named(d, ToFree), x) = 0
  <2>1. CountOf(Named(d, ToFree), x) = 0
    <3>1. \A i \in 1 .. Len(d) : d[i].op \notin ToFree
      BY <1>4, <1>5 DEF ToFree
    <3> QED BY <1>6, <3>1, NotNamed
  <2>2. Named(d, OwnOrGive) = s
    <3>1. PICK f : f = Named(d, OwnOrGive)
      OBVIOUS
    <3>2. /\ f \in Seq(Name) /\ Len(f) = Len(d)
          /\ \A i \in 1 .. Len(d) : f[i] = IF d[i].op \in OwnOrGive THEN d[i].on ELSE NULL
      BY <1>6, <3>1, NamedIs
    <3>3. \A i \in 1 .. n : f[i] = s[i]
      BY <1>4, <1>5, <3>2 DEF OwnOrGive
    <3>4. s \in Seq(Name)
      <4>1. Counted \subseteq Name
        BY DEF Counted, Name, Capture
      <4>2. s \in Seq(Counted)
        BY <1>1
      <4> QED BY <4>1, <4>2, SeqMonotonic
    <3>5. Len(f) = n /\ Len(s) = n
      BY <1>1, <1>5, <3>2
    <3>6. f = s
      BY <3>2, <3>3, <3>4, <3>5, SeqEqual
    <3> QED BY <3>1, <3>6
  <2> QED BY <2>1, <2>2
<1>8. \A i \in 1 .. Len(d) : d[i] \in LaterOp /\ d[i].op = "decr" /\ d[i].to = NULL
  BY <1>4, <1>5
<1> QED BY <1>1, <1>5, <1>6, <1>7, <1>8

\* The operations that end an object can follow in a call.
LEMMA DisposesFollow ==
  ASSUME NEW h \in Heap, mem[h] \in HeapObject, NEW ops, NEW d, Ends(ops, h, d)
  PROVE  /\ Follows(ops)
         /\ \A o \in Elems(ops) : o.op \in {"decr", "free"} /\ o.to \notin Heap
         /\ \A x \in Counted : /\ CountOf(Named(ops, OwnOrGive), x) = CountOf(mem[h].holds, x)
                               /\ CountOf(Named(ops, ToFree), x) = One(x = h)
<1>1. /\ d \in Seq(FirstOp) /\ Len(d) = Len(mem[h].holds)
      /\ \A i \in 1 .. Len(d) : d[i] \in LaterOp /\ d[i].op = "decr" /\ d[i].to = NULL
      /\ \A x \in Counted : /\ CountOf(Named(d, OwnOrGive), x) = CountOf(mem[h].holds, x)
                            /\ CountOf(Named(d, ToFree), x) = 0
  BY DisposesNamed
<1>2. PICK n, r : n \in Nat /\ n = Len(d) /\ r = Op("free", h, NULL)
  BY <1>1, LenProperties
<1>3. r \in FirstOp /\ r \in LaterOp /\ r.op = "free" /\ r.on = h /\ r.to = NULL
  BY <1>2, FreeOp
<1>4. PICK e : e = <<r>> /\ e \in Seq(FirstOp) /\ Len(e) = 1 /\ e[1] = r
  <2>1. <<r>> \in Seq(FirstOp) /\ Len(<<r>>) = 1 /\ <<r>>[1] = r
    BY <1>3
  <2> QED BY <2>1
<1>5. ops = d \o e
  BY <1>2, <1>4 DEF Ends
<1>6. /\ ops \in Seq(FirstOp) /\ Len(ops) = n + 1
      /\ \A i \in 1 .. n + 1 : ops[i] = IF i <= n THEN d[i] ELSE e[i - n]
  <2>1. /\ d \o e \in Seq(FirstOp) /\ Len(d \o e) = Len(d) + Len(e)
        /\ \A i \in 1 .. Len(d) + Len(e) :
             (d \o e)[i] = IF i <= Len(d) THEN d[i] ELSE e[i - Len(d)]
    <3>1. d \in Seq(FirstOp) /\ e \in Seq(FirstOp)
      BY <1>1, <1>4
    <3> QED BY <3>1, ConcatProperties
  <2> QED BY <1>2, <1>4, <1>5, <2>1
<1>7. ASSUME NEW i \in 1 .. n + 1
      PROVE  ops[i] \in LaterOp /\ ops[i].op \in {"decr", "free"} /\ ops[i].to = NULL
  <2>1. CASE i <= n
    <3>1. i \in 1 .. n /\ ops[i] = d[i]
      BY <1>6, <2>1
    <3> QED BY <1>1, <1>2, <3>1
  <2>2. CASE ~ (i <= n)
    <3>1. i = n + 1 /\ i - n = 1
      BY <1>2, <2>2
    <3>2. ops[i] = e[1]
      BY <1>6, <2>2, <3>1
    <3> QED BY <1>3, <1>4, <3>2
  <2> QED BY <2>1, <2>2
<1>8. Follows(ops)
  <2>1. \A i \in 2 .. n + 1 : i \in 1 .. n + 1
    OBVIOUS
  <2> QED BY <1>6, <1>7, <2>1 DEF Follows
<1>9. \A o \in Elems(ops) : o.op \in {"decr", "free"} /\ o.to \notin Heap
  BY <1>6, <1>7, HeapApart DEF Elems
<1>10. ASSUME NEW x \in Counted
      PROVE  /\ CountOf(Named(ops, OwnOrGive), x) = CountOf(mem[h].holds, x)
             /\ CountOf(Named(ops, ToFree), x) = One(x = h)
  <2>1. ASSUME NEW kinds
        PROVE  CountOf(Named(ops, kinds), x) = CountOf(Named(d, kinds), x) + CountOf(Named(e, kinds), x)
    <3>1. PICK p, q : p = Named(d, kinds) /\ q = Named(e, kinds)
      OBVIOUS
    <3>2. p \in Seq(Name) /\ q \in Seq(Name)
      BY <1>1, <1>4, <3>1, NamedIs
    <3>3. Named(d \o e, kinds) = p \o q
      BY <1>1, <1>4, <3>1, NamedConcat
    <3>4. CountOf(p \o q, x) = CountOf(p, x) + CountOf(q, x)
      BY <3>2, CountConcat
    <3> QED BY <1>5, <3>1, <3>3, <3>4
  <2>2. /\ CountOf(Named(e, OwnOrGive), x) = One(r.op \in OwnOrGive /\ r.on = x)
        /\ CountOf(Named(e, ToFree), x) = One(r.op \in ToFree /\ r.on = x)
    BY <1>3, <1>4, OneNamed
  <2>3. /\ One(r.op \in OwnOrGive /\ r.on = x) = 0
        /\ One(r.op \in ToFree /\ r.on = x) = One(x = h)
    BY <1>3 DEF OwnOrGive, ToFree, One
  <2>4. CountOf(mem[h].holds, x) \in Nat /\ One(x = h) \in {0, 1}
    <3>1. mem[h].holds \in Seq(Counted)
      BY DEF HeapObject, Counted
    <3>2. CountOf(mem[h].holds, x) \in Nat
      BY <3>1, CountPositive
    <3> QED BY <3>2 DEF One
  <2>5. /\ CountOf(Named(d, OwnOrGive), x) = CountOf(mem[h].holds, x)
        /\ CountOf(Named(d, ToFree), x) = 0
    BY <1>1
  <2> QED BY <2>1, <2>2, <2>3, <2>4, <2>5
<1> QED BY <1>8, <1>9, <1>10

\* The reference that is being given up is the last: nothing else has the object.
LEMMA LastOne ==
  ASSUME BlocksIInv, NEW t \in Thread, NEW o \in Ops(t), o.op = "decr", NEW h \in Heap,
         o.on = h, References(h) = 1
  PROVE  /\ \A g \in Heap : CountOf(Holds(g), h) = 0
         /\ \A u \in Thread : forwarding[u] # h
         /\ \A p \in Holder : held[p][h] = 0
<1>1. Counting /\ CallsOK
  BY CountingOK DEF BlocksIInv
<1>2. h \in Counted
  BY DEF Counted
<1>3. Due(OwnOrGive, h) \in Nat /\ Due(OwnOrGive, h) >= 1
  <2>1. call \in CallType /\ o \in Elems(call[t]) /\ o.op \in OwnOrGive
    BY <1>1 DEF Counting, Ops, Elems, OwnOrGive
  <2>2. SumFunction([u \in Thread |-> Times(Named(call[u], OwnOrGive), h)]) >= 1
    BY <1>2, <2>1, DueAtLeast
  <2>3. SumFunction([u \in Thread |-> Times(Named(call[u], OwnOrGive), h)]) \in Nat
    BY <2>1, DueType
  <2> QED BY <2>2, <2>3 DEF Due
<1>4. Held(h) \in Nat /\ \A p \in Holder : Held(h) >= held[p][h]
  BY <1>1, HeldAtLeast DEF Counting
<1>5. Captured(h) \in Nat /\ \A g \in Heap : Captured(h) >= CountOf(Holds(g), h)
  BY <1>1, CapturedAtLeast DEF Counting
<1>6. Frames(h) \in Nat /\ \A u \in Thread : forwarding[u] = h => Frames(h) >= 1
  BY FramesAtLeast
<1>7. References(h) = Held(h) + Captured(h) + Frames(h) + Due(OwnOrGive, h)
  BY DEF References, OwnOrGive
<1>8. Held(h) = 0 /\ Captured(h) = 0 /\ Frames(h) = 0
  BY <1>3, <1>4, <1>5, <1>6, <1>7
<1>9. \A g \in Heap : CountOf(Holds(g), h) = 0
  <2>1. ASSUME NEW g \in Heap PROVE CountOf(Holds(g), h) \in Nat
    <3>1. Holds(g) \in Seq(Counted)
      BY <1>1, HoldsType DEF Holds, Counting
    <3> QED BY <3>1, CountPositive
  <2> QED BY <1>5, <1>8, <2>1
<1>10. \A p \in Holder : held[p][h] = 0
  <2>1. \A p \in Holder : held[p][h] \in Nat
    BY <1>1 DEF Counting, HeldType
  <2> QED BY <1>4, <1>8, <2>1
<1> QED BY <1>6, <1>8, <1>9, <1>10

\* A swap that takes a reference off the word of an object, which is gone if
\* that was the last.
Lowers(t, w, s, ops) ==
    /\ Loop(t) /\ This(t).op = "decr" /\ Follows(ops) /\ Continue(t, ops)
    /\ mem' \in MemType /\ mem'[This(t).on] # NULL
    /\ mem'[This(t).on].word = w /\ mem'[This(t).on].holds = s
    /\ mem'[This(t).on].kind = mem[This(t).on].kind
    /\ \A k \in Heap \ {This(t).on} : mem'[k] = mem[k]
    /\ held' = held /\ forwarding' = forwarding /\ object' = object /\ left' = left
    /\ ~ Latched(mem[This(t).on].word)
    /\ w.count \in Nat /\ mem[This(t).on].word.count = w.count + 1
    /\ w.deallocating \in BOOLEAN /\ (w.deallocating <=> w.count = 0)
    /\ IF w.deallocating THEN s = <<>> ELSE s = mem[This(t).on].holds
    /\ \A o \in Elems(ops) : o.op \in {"decr", "free"} /\ o.to \notin Heap
    /\ \A x \in Counted :
         /\ CountOf(Named(ops, OwnOrGive), x) + CountOf(s, x) = CountOf(mem[This(t).on].holds, x)
         /\ CountOf(Named(ops, ToFree), x) = One(w.deallocating /\ x = This(t).on)

\* What loses its last reference was nobody's copy under way.
LEMMA LowersApart ==
  ASSUME BlocksIInv, NEW t \in Thread, NEW w, NEW s, NEW ops, Lowers(t, w, s, ops),
         NEW K \in [Thread -> SUBSET Heap], Building(K), Counting',
         NEW h \in Heap, h = This(t).on, References(h)' = w.count, NEW rest, Goes(t, ops, rest),
         NEW u \in Thread, NEW k \in K[u]
  PROVE  Holds(k)' = Holds(k)
<1>1. h = This(t).on
  OBVIOUS
<1>2. /\ mem[h] \in HeapObject /\ mem[h] # NULL
      /\ ~ Latched(mem[h].word) => mem[h].word.count = References(h)
  BY <1>1, LoopOn, CountIs DEF Lowers
<1>3. k \in Heap
  OBVIOUS
<1>4. CASE k # h
  BY <1>1, <1>3, <1>4 DEF Lowers, Holds
<1>5. CASE k = h /\ ~ w.deallocating
  BY <1>1, <1>2, <1>5 DEF Lowers, Holds
<1>6. CASE k = h /\ w.deallocating
  <2>1. w.count = 0 /\ References(h) = 1 /\ References(h)' = 0
    <3>1. w.count = 0 /\ mem[h].word.count = 0 + 1 /\ mem[h].word.count = References(h)
      BY <1>1, <1>2, <1>6 DEF Lowers
    <3> QED BY <1>1, <3>1
  <2>2. This(t) \in Ops(t) /\ This(t).op = "decr"
    BY LoopOn DEF Lowers
  <2>3. \A g \in Heap : CountOf(Holds(g), h) = 0
    BY <1>1, <2>1, <2>2, LastOne
  <2>4. \A v \in Thread : \A o \in Ops(v)' : ~ (o.op \in OwnOrGive /\ o.on = h)
    <3>1. Sourced(h)'
      BY SourcedNext DEF Counted
    <3>2. \A v \in Thread : \A o \in Ops(v)' : o.op \in OwnOrGive /\ o.on = h => References(h)' > 0
      BY <3>1 DEF Sourced
    <3> QED BY <2>1, <3>2
  <2>5. ASSUME NEW o \in Ops(u), o.op = "return", o.on = h PROVE FALSE
    <3>1. CASE u = t
      <4>1. o \in Ops(t) /\ o # This(t)
        BY <2>2, <2>5, <3>1
      <4>2. o \in Ops(t)'
        BY <4>1 DEF Goes
      <4> QED BY <2>4, <2>5, <4>2 DEF OwnOrGive
    <3>2. CASE u # t
      <4>1. Ops(u)' = Ops(u)
        BY <3>2 DEF Goes
      <4> QED BY <2>4, <2>5, <4>1 DEF OwnOrGive
    <3> QED BY <3>1, <3>2
  <2>6. \/ \E o \in Ops(u) : o.op = "return" /\ o.on = h
        \/ \E g \in K[u] : CountOf(Holds(g), h) > 0
    BY <1>6 DEF Building, Builds
  <2>7. \A g \in K[u] : g \in Heap
    OBVIOUS
  <2> QED BY <2>3, <2>5, <2>6, <2>7
<1> QED BY <1>4, <1>5, <1>6 DEF Lowers

\* What it does to the references.
LEMMA LowersTally ==
  ASSUME BlocksIInv, NEW t \in Thread, NEW w, NEW s, NEW ops, Lowers(t, w, s, ops),
         NEW h \in Heap, h = This(t).on, Counting', NEW x \in Counted
  PROVE  /\ References(x) \in Nat /\ References(x)' \in Nat
         /\ References(x) = References(x)' + One(h = x)
         /\ Due(ToFree, x) \in Nat
         /\ Due(ToFree, x)' = Due(ToFree, x) + One(w.deallocating /\ x = h)
<1>1. Counting /\ CallsOK
  BY CountingOK DEF BlocksIInv
<1>2. /\ call[t] # <<>> /\ Follows(ops) /\ Continue(t, ops) /\ This(t).op = "decr"
      /\ mem[h] # NULL
  BY LoopOn DEF Lowers
<1>3. Turns(t, This(t), ops)
  BY <1>1, <1>2, ContinueTurns
<1>4. /\ \A q \in Holder \ {h} : held'[q] = held[q]
      /\ \A k \in Heap \ {h} : Holds(k)' = Holds(k)
      /\ \A u \in Thread \ {t} : forwarding'[u] = forwarding[u]
  BY DEF Lowers, Holds
<1>5. Tally(t, h, This(t), ops)
  BY <1>1, <1>3, <1>4, Tallies
<1>6. Holding(h, x) = 0 /\ Holding(h, x)' = 0
  BY HeapApart DEF Holding
<1>7. PICK a \in Nat, b \in Nat : /\ a = CountOf(mem[h].holds, x) /\ b = CountOf(s, x)
                                  /\ Capturing(h, x) = a /\ Capturing(h, x)' = b
  <2>1. Holds(h) = mem[h].holds /\ Holds(h)' = s
    BY <1>2 DEF Holds, Lowers
  <2>2. Capturing(h, x) = CountOf(mem[h].holds, x) /\ Capturing(h, x)' = CountOf(s, x)
    BY <2>1 DEF Capturing
  <2>3. Capturing(h, x) \in Nat /\ Capturing(h, x)' \in Nat
    BY <1>5 DEF Tally
  <2> QED BY <2>2, <2>3
<1>8. PICK c \in Nat : c = CountOf(Named(ops, OwnOrGive), x) /\ c + b = a
  <2>1. CountOf(Named(ops, OwnOrGive), x) \in Nat
    BY <1>5 DEF Tally
  <2>2. CountOf(Named(ops, OwnOrGive), x) + CountOf(s, x) = CountOf(mem[h].holds, x)
    BY DEF Lowers
  <2> QED BY <1>7, <2>1, <2>2
<1>9. CountOf(Named(ops, ToFree), x) = One(w.deallocating /\ x = h)
  BY DEF Lowers
<1>10. /\ One(This(t).op \in OwnOrGive /\ This(t).on = x) = One(h = x)
       /\ One(This(t).op \in ToFree /\ This(t).on = x) = 0
  BY <1>2 DEF OwnOrGive, ToFree, One
<1>11. One(h = x) \in {0, 1} /\ One(w.deallocating /\ x = h) \in {0, 1}
       /\ One(forwarding[t] = x) \in {0, 1}
  BY DEF One
<1>12. One(forwarding'[t] = x) = One(forwarding[t] = x)
  BY DEF Lowers
<1>13. /\ References(x) \in Nat /\ References(x)' \in Nat
       /\ Due(ToFree, x) \in Nat /\ Due(ToFree, x)' \in Nat
       /\ References(x)' + Holding(h, x) + Capturing(h, x) + One(forwarding[t] = x)
            + One(This(t).op \in OwnOrGive /\ This(t).on = x)
            = References(x) + Holding(h, x)' + Capturing(h, x)' + One(forwarding'[t] = x)
                + CountOf(Named(ops, OwnOrGive), x)
       /\ Due(ToFree, x)' + One(This(t).op \in ToFree /\ This(t).on = x)
            = Due(ToFree, x) + CountOf(Named(ops, ToFree), x)
  BY <1>5 DEF Tally
<1>14. PICK r \in Nat, r2 \in Nat, d \in Nat, d2 \in Nat, i \in {0, 1}, j \in {0, 1}, f \in {0, 1} :
         /\ r = References(x) /\ r2 = References(x)' /\ d = Due(ToFree, x) /\ d2 = Due(ToFree, x)'
         /\ i = One(h = x) /\ j = One(w.deallocating /\ x = h) /\ f = One(forwarding[t] = x)
  BY <1>11, <1>13
<1>15. r2 + 0 + a + f + i = r + 0 + b + f + c /\ d2 + 0 = d + j
  BY <1>6, <1>7, <1>8, <1>9, <1>10, <1>12, <1>13, <1>14
<1>16. r = r2 + i /\ d2 = d + j
  BY <1>8, <1>15
<1> QED BY <1>14, <1>16

\* A reference taken off a count keeps the invariant, and so does the end of
\* the object.
LEMMA LowerSafe ==
  ASSUME BlocksIInv, NEW t \in Thread, NEW w, NEW s, NEW ops, Lowers(t, w, s, ops)
  PROVE  BlocksIInv'
<1>1. Counting /\ CallsOK /\ AddressesOK
  BY CountingOK DEF BlocksIInv
<1>2. PICK h \in Heap : h = This(t).on
  BY LoopOn DEF Lowers
<1>3. /\ call[t] # <<>> /\ Follows(ops) /\ Continue(t, ops) /\ This(t).op = "decr"
      /\ mem[h] # NULL /\ ~ mem[h].word.deallocating
  BY <1>2, LoopOn DEF Lowers
<1>4. CallsOK' /\ This(t) \in Ops(t) /\ \E rest : Goes(t, ops, rest)
  BY <1>1, <1>3, Continues
<1>5. PICK rest : Goes(t, ops, rest)
  BY <1>4
<1>6. Counting'
  BY <1>1, <1>5 DEF Counting, Goes, Lowers
<1>7. \A x \in Counted :
        /\ References(x) \in Nat /\ References(x)' \in Nat
        /\ References(x) = References(x)' + One(h = x)
        /\ Due(ToFree, x) \in Nat
        /\ Due(ToFree, x)' = Due(ToFree, x) + One(w.deallocating /\ x = h)
  BY <1>2, <1>6, LowersTally
<1>8. References(h)' = w.count
  <2>1. h \in Counted
    BY DEF Counted
  <2>2. mem[h].word.count = References(h)
    BY <1>2, <1>3, CountIs DEF Lowers
  <2>3. mem[h].word.count = w.count + 1 /\ w.count \in Nat
    BY <1>2 DEF Lowers
  <2>4. One(h = h) = 1
    BY DEF One
  <2>5. References(h)' \in Nat /\ References(h) = References(h)' + One(h = h)
    BY <1>7, <2>1
  <2>6. PICK a \in Nat, b \in Nat : a = References(h)' /\ b = w.count
    BY <2>3, <2>5
  <2>7. References(h) = a + 1 /\ References(h) = b + 1
    BY <2>2, <2>3, <2>4, <2>5, <2>6
  <2>8. a = b
    BY <2>6, <2>7
  <2> QED BY <2>6, <2>8
<1>9. PICK K \in [Thread -> SUBSET Heap] : Building(K)
  BY DEF BlocksIInv, BuildsOK
<1>10. \A u \in Thread : \A k \in K[u] : Holds(k)' = Holds(k)
  BY <1>2, <1>5, <1>6, <1>8, <1>9, LowersApart
<1>11. StaysAlive
  BY <1>2 DEF StaysAlive, Lowers
<1>12. K[t] \in SUBSET Heap /\ \A u \in Thread \ {t} : K[u] \in SUBSET Heap /\ K[t] \cap K[u] = {}
  BY <1>9 DEF Building
<1>13. held' = held /\ forwarding' = forwarding
  BY DEF Lowers
<1>14. Apart(t, K[t], K)
  BY <1>5, <1>10, <1>12, <1>13 DEF Apart, Goes
<1>15. Ahead(t, ops, K[t])
  BY <1>13 DEF Ahead, Lowers
<1>16. Grows(t, K[t], K)
  BY <1>10, <1>12 DEF Grows
<1>17. Adds(t, NULL)
  <2>1. \A o \in Ops(t) : o.op = "return" => o.on \in K[t]
    BY <1>9 DEF Building, Builds
  <2> QED BY <1>10, <1>13, <2>1, HeapApart DEF Adds
<1>18. OnBlocks(t)' /\ InScope(t)' /\ Shares(t)' /\ Builds(t, K[t])'
  BY <1>3, <1>5, <1>9, <1>11, <1>12, <1>15, <1>16, <1>17, Carries
<1>19. BuildsOK' /\ KindsOK' /\ ScopeOK' /\ SharedOK'
  BY <1>6, <1>9, <1>11, <1>12, <1>14, <1>18, Stands
<1>20. ASSUME NEW x \in Heap PROVE AddressOK(x)'
  <2>1. x \in Counted
    BY DEF Counted
  <2>2. CASE x = h
    <3>1. Due(ToFree, h)' = One(w.deallocating)
      <4>1. Due(ToFree, h) = 0
        <5>1. Fits(mem[h].word, mem[h].holds, References(h), Due(ToFree, h))
          BY <1>3, CountIs
        <5>2. Due(ToFree, h) = One(mem[h].word.deallocating)
          BY <5>1 DEF Fits
        <5> QED BY <1>3, <5>2 DEF One
      <4>2. One(w.deallocating /\ h = h) = One(w.deallocating)
        BY DEF One
      <4>3. One(w.deallocating) \in {0, 1}
        BY DEF One
      <4> QED BY <1>7, <2>1, <2>2, <4>1, <4>2, <4>3
    <3>2. /\ mem'[h] # NULL /\ mem'[h].word = w /\ mem'[h].holds = s
          /\ w.deallocating <=> w.count = 0
          /\ w.deallocating => s = <<>>
      BY <1>2 DEF Lowers
    <3>3. Fits(w, s, References(h)', Due(ToFree, h)')
      BY <1>8, <3>1, <3>2 DEF Fits
    <3>4. AddressOK(h)'
      BY <3>2, <3>3 DEF AddressOK
    <3> QED BY <2>2, <3>4
  <2>3. CASE x # h
    <3>1. One(h = x) = 0 /\ One(w.deallocating /\ x = h) = 0
      BY <2>3 DEF One
    <3>2. References(x)' = References(x) /\ Due(ToFree, x)' = Due(ToFree, x)
      BY <1>7, <2>1, <3>1
    <3>3. AddressOK(x) /\ mem'[x] = mem[x]
      BY <1>1, <1>2, <2>3 DEF AddressesOK, Lowers
    <3> QED BY <3>2, <3>3, AddressStays
  <2> QED BY <2>2, <2>3
<1>21. ObjectOK'
  <2>1. OBJECT \in Counted /\ OBJECT # h
    BY HeapApart DEF Counted
  <2>2. One(h = OBJECT) = 0
    BY <2>1 DEF One
  <2>3. References(OBJECT)' = References(OBJECT)
    BY <1>7, <2>1, <2>2
  <2> QED BY <2>3 DEF BlocksIInv, ObjectOK, Lowers
<1>22. BlocksTypeOK'
  <2>1. object \in Nat /\ held \in HeldType
    BY DEF BlocksIInv, BlocksTypeOK, HeldType
  <2> QED BY <1>13, <2>1, TypeStays DEF Lowers
<1> QED BY <1>4, <1>19, <1>20, <1>21, <1>22 DEF BlocksIInv, AddressesOK

\* The word that a decrement stores.
LEMMA DecrementedWord ==
  ASSUME NEW w \in Word, ~ Stuck(w), ~ w.deallocating
  PROVE  /\ Decremented(w) \in Word
         /\ Decremented(w).count \in Nat /\ w.count = Decremented(w).count + 1
         /\ Decremented(w).deallocating \in BOOLEAN
         /\ Decremented(w).deallocating <=> Decremented(w).count = 0
         /\ LastReference(w) <=> Decremented(w).deallocating
<1>1. w.count \in 0 .. BLOCK_REFCOUNT_MASK /\ w.count # 0 /\ w.deallocating = FALSE
  BY DEF Word, Stuck
<1>2. PICK n \in Nat : w.count = n + 1 /\ n \in 0 .. BLOCK_REFCOUNT_MASK
  <2>1. BLOCK_REFCOUNT_MASK \in Nat
    BY BlocksAssumption
  <2>2. w.count - 1 \in Nat /\ w.count = w.count - 1 + 1 /\ w.count - 1 \in 0 .. BLOCK_REFCOUNT_MASK
    BY <1>1, <2>1
  <2> QED BY <2>2
<1>3. CASE w.count = 1
  <2>1. Decremented(w) = [count |-> 0, deallocating |-> TRUE] /\ LastReference(w)
    BY <1>1, <1>3 DEF Decremented, LastReference
  <2>2. n = 0 /\ 0 \in 0 .. BLOCK_REFCOUNT_MASK
    BY <1>2, <1>3
  <2> QED BY <1>2, <2>1, <2>2 DEF Word
<1>4. CASE w.count # 1
  <2>1. Decremented(w) = [w EXCEPT !.count = w.count - 1] /\ ~ LastReference(w)
    BY <1>4 DEF Decremented, LastReference
  <2>2. w.count - 1 = n /\ n # 0
    BY <1>2, <1>4
  <2>3. Decremented(w) = [w EXCEPT !.count = n]
    BY <2>1, <2>2
  <2>4. /\ Decremented(w) \in Word /\ Decremented(w).count = n
        /\ Decremented(w).deallocating = FALSE
    BY <1>1, <1>2, <2>3 DEF Word
  <2> QED BY <1>2, <2>1, <2>2, <2>4
<1> QED BY <1>3, <1>4

\* A swap that counts one less keeps the invariant, the last one with all that
\* it disposes of.
LEMMA SwapDecrementSafe ==
  ASSUME BlocksIInv, NEW t \in Thread, SwapDecrement(t)
  PROVE  BlocksIInv'
<1>1. PICK h \in Heap, o \in FirstOp : h = This(t).on /\ o = This(t)
  <2>1. This(t) \in FirstOp /\ This(t).on \in Heap
    BY LoopOn DEF SwapDecrement, Loop
  <2> QED BY <2>1
<1>2. /\ Loop(t) /\ This(t).op = "decr" /\ o.old # NULL /\ mem[h].word = o.old
      /\ held' = held /\ forwarding' = forwarding /\ object' = object /\ left' = left
  BY <1>1 DEF SwapDecrement, Swaps, Loop, At, This
<1>3. /\ call[t] # <<>> /\ mem[h] \in HeapObject /\ mem[h] # NULL
      /\ mem[h].word \in Word /\ ~ mem[h].word.deallocating
  BY <1>1, <1>2, LoopOn
<1>4. ~ Stuck(mem[h].word)
  <2>1. Readable(o, o.old)
    BY <1>1, <1>2, OldFacts
  <2> QED BY <1>1, <1>2, <2>1 DEF Readable
<1>5. PICK w : w = Decremented(mem[h].word)
  OBVIOUS
<1>6. /\ w \in Word /\ w.count \in Nat /\ mem[h].word.count = w.count + 1
      /\ w.deallocating \in BOOLEAN /\ (w.deallocating <=> w.count = 0)
      /\ LastReference(mem[h].word) <=> w.deallocating
  BY <1>3, <1>4, <1>5, DecrementedWord
<1>7. ~ Latched(mem[h].word)
  BY <1>4 DEF Stuck
<1>8. mem \in MemType
  BY CountingOK DEF BlocksIInv, Counting
<1>9. CASE LastReference(mem[h].word)
  <2>1. PICK d, ops : d = Disposes(h) /\ ops = d \o <<Op("free", h, NULL)>>
    OBVIOUS
  <2>2. /\ mem' = [mem EXCEPT ![h].word = w, ![h].holds = <<>>]
        /\ Continue(t, ops)
    BY <1>1, <1>2, <1>5, <1>9, <2>1 DEF SwapDecrement
  <2>3. Ends(ops, h, d)
    BY <2>1 DEF Ends, Disposes
  <2>4. /\ Follows(ops)
        /\ \A q \in Elems(ops) : q.op \in {"decr", "free"} /\ q.to \notin Heap
        /\ \A x \in Counted : /\ CountOf(Named(ops, OwnOrGive), x) = CountOf(mem[h].holds, x)
                              /\ CountOf(Named(ops, ToFree), x) = One(x = h)
    BY <1>3, <2>3, DisposesFollow
  <2>5. PICK e : e = [mem[h] EXCEPT !.word = w, !.holds = <<>>]
    OBVIOUS
  <2>6. /\ e \in HeapObject /\ e.word = w /\ e.holds = <<>> /\ e.kind = mem[h].kind
    <3>1. <<>> \in Seq(Heap \cup {OBJECT})
      BY EmptySeq
    <3> QED BY <1>3, <1>6, <2>5, <3>1 DEF HeapObject
  <2>7. mem' = [mem EXCEPT ![h] = e]
    BY <1>8, <2>2, <2>5 DEF MemType
  <2>8. mem' \in MemType /\ mem'[h] = e /\ \A k \in Heap \ {h} : mem'[k] = mem[k]
    BY <1>8, <2>6, <2>7 DEF MemType
  <2>9. e # NULL
    BY <2>6, ObjectNotNull
  <2>10. ASSUME NEW x \in Counted
         PROVE  /\ CountOf(Named(ops, OwnOrGive), x) + CountOf(<<>>, x) = CountOf(mem[h].holds, x)
                /\ CountOf(Named(ops, ToFree), x) = One(w.deallocating /\ x = h)
    <3>1. CountOf(<<>>, x) = 0
      BY CountEmpty
    <3>2. CountOf(mem[h].holds, x) \in Nat
      <4>1. mem[h].holds \in Seq(Counted)
        BY <1>3 DEF HeapObject, Counted
      <4> QED BY <4>1, CountPositive
    <3>3. One(w.deallocating /\ x = h) = One(x = h)
      BY <1>6, <1>9
    <3> QED BY <2>4, <3>1, <3>2, <3>3
  <2>11. Lowers(t, w, <<>>, ops)
    BY <1>1, <1>2, <1>6, <1>7, <1>9, <2>2, <2>4, <2>6, <2>8, <2>9, <2>10 DEF Lowers
  <2> QED BY <2>11, LowerSafe
<1>10. CASE ~ LastReference(mem[h].word)
  <2>1. /\ mem' = [mem EXCEPT ![h].word = w]
        /\ Continue(t, <<>>)
    BY <1>1, <1>2, <1>5, <1>10 DEF SwapDecrement
  <2>2. PICK e, s : e = [mem[h] EXCEPT !.word = w] /\ s = mem[h].holds
    OBVIOUS
  <2>3. /\ e \in HeapObject /\ e.word = w /\ e.holds = s /\ e.kind = mem[h].kind
    BY <1>3, <1>6, <2>2 DEF HeapObject
  <2>4. mem' = [mem EXCEPT ![h] = e]
    BY <1>8, <2>1, <2>2 DEF MemType
  <2>5. mem' \in MemType /\ mem'[h] = e /\ \A k \in Heap \ {h} : mem'[k] = mem[k]
    BY <1>8, <2>3, <2>4 DEF MemType
  <2>6. e # NULL
    BY <2>3, ObjectNotNull
  <2>7. Follows(<<>>) /\ \A q \in Elems(<<>>) : q.op \in {"decr", "free"} /\ q.to \notin Heap
    BY NoneFollow
  <2>8. ASSUME NEW x \in Counted
        PROVE  /\ CountOf(Named(<<>>, OwnOrGive), x) + CountOf(s, x) = CountOf(mem[h].holds, x)
               /\ CountOf(Named(<<>>, ToFree), x) = One(w.deallocating /\ x = h)
    <3>1. CountOf(Named(<<>>, OwnOrGive), x) = 0 /\ CountOf(Named(<<>>, ToFree), x) = 0
      BY NoneNamed
    <3>2. CountOf(mem[h].holds, x) \in Nat
      <4>1. mem[h].holds \in Seq(Counted)
        BY <1>3 DEF HeapObject, Counted
      <4> QED BY <4>1, CountPositive
    <3>3. One(w.deallocating /\ x = h) = 0
      BY <1>6, <1>10 DEF One
    <3> QED BY <2>2, <3>1, <3>2, <3>3
  <2>9. Lowers(t, w, s, <<>>)
    BY <1>1, <1>2, <1>6, <1>7, <1>10, <2>1, <2>2, <2>3, <2>5, <2>6, <2>7, <2>8 DEF Lowers
  <2> QED BY <2>9, LowerSafe
<1> QED BY <1>9, <1>10

\* A weak load is the first operation of its call.
LEMMA TryIsFirst ==
  ASSUME CallsOK, NEW u \in Thread, NEW o \in Ops(u), o.op = "try"
  PROVE  At(u, "try") /\ This(u) = o
<1>1. PICK s : s = call[u]
  OBVIOUS
<1>2. s \in Seq(FirstOp) /\ \A i \in 2 .. Len(s) : s[i] \in LaterOp
  BY <1>1 DEF CallsOK, CallOK
<1>3. PICK i \in 1 .. Len(s) : o = s[i]
  BY <1>1 DEF Ops
<1>4. o \in FirstOp /\ o \notin LaterOp
  <2>1. o \in FirstOp
    BY OpsTyped
  <2> QED BY <2>1, OpFacts
<1>5. Len(s) \in Nat
  BY <1>2, LenProperties
<1>6. i = 1
  <2>1. i \notin 2 .. Len(s)
    BY <1>2, <1>3, <1>4
  <2> QED BY <1>5, <2>1
<1>7. s # <<>> /\ Head(s) = s[1]
  BY <1>2, <1>5, <1>6, EmptySeq
<1> QED BY <1>1, <1>3, <1>6, <1>7 DEF At, This

\* A free keeps the invariant: nothing refers to the block, and no weak load
\* has it in hand.
LEMMA FreeSafe ==
  ASSUME BlocksIInv, NEW t \in Thread, FreeObject(t)
  PROVE  BlocksIInv'
<1>1. Counting /\ CallsOK /\ AddressesOK
  BY CountingOK DEF BlocksIInv
<1>2. /\ call[t] # <<>> /\ This(t).op = "free" /\ Continue(t, <<>>)
      /\ forwarding' = forwarding /\ object' = object /\ held' = held /\ left' = left
  BY DEF FreeObject, At, This
<1>3. This(t) \in FirstOp /\ This(t) \in Ops(t)
  BY <1>1, <1>2, FirstIs
<1>4. PICK h \in Heap : h = This(t).on
  BY <1>2, <1>3, OpFacts
<1>5. h \in Counted
  BY DEF Counted
<1>6. Due(ToFree, h) > 0
  <2>1. Sourced(h)
    BY <1>1, <1>5, Sources
  <2>2. \A o \in Ops(t) : o.op \in ToFree /\ o.on = h => Due(ToFree, h) > 0
    BY <2>1 DEF Sourced
  <2> QED BY <1>2, <1>3, <1>4, <2>2 DEF ToFree
<1>7. mem[h] # NULL
  <2>1. AddressOK(h)
    BY <1>1 DEF AddressesOK
  <2> QED BY <1>6, <2>1 DEF AddressOK
<1>8. /\ mem[h].word.deallocating /\ mem[h].holds = <<>>
      /\ Due(ToFree, h) = 1 /\ References(h) = 0
  <2>1. /\ Fits(mem[h].word, mem[h].holds, References(h), Due(ToFree, h))
        /\ References(h) \in Nat
    BY <1>7, CountIs
  <2>2. Due(ToFree, h) = One(mem[h].word.deallocating)
    BY <2>1 DEF Fits
  <2>3. mem[h].word.deallocating /\ Due(ToFree, h) = 1
    BY <1>6, <2>2 DEF One
  <2>4. mem[h].word.count = 0 /\ mem[h].holds = <<>>
        /\ mem[h].word.count \in {References(h), BLOCK_REFCOUNT_MASK}
    BY <2>1, <2>3 DEF Fits
  <2>5. BLOCK_REFCOUNT_MASK \in Nat /\ BLOCK_REFCOUNT_MASK > 1
    BY BlocksAssumption
  <2> QED BY <2>3, <2>4, <2>5
<1>9. mem' = [mem EXCEPT ![h] = NULL]
  BY <1>4 DEF FreeObject
<1>10. mem' \in MemType /\ mem'[h] = NULL /\ \A k \in Heap \ {h} : mem'[k] = mem[k]
  BY <1>1, <1>9 DEF Counting, MemType
<1>11. \A k \in Heap : Holds(k)' = Holds(k)
  BY <1>7, <1>8, <1>10 DEF Holds
<1>12. CallsOK' /\ \E rest : Goes(t, <<>>, rest)
  BY <1>1, <1>2, NoneFollow, Continues
<1>13. PICK rest : Goes(t, <<>>, rest)
  BY <1>12
<1>14. Counting'
  BY <1>1, <1>2, <1>10, <1>13 DEF Counting, Goes
<1>15. PICK K \in [Thread -> SUBSET Heap] : Building(K)
  BY DEF BlocksIInv, BuildsOK
<1>16. ~ Wanted(h)
  <2>1. ASSUME NEW u \in Thread, NEW o \in Ops(u), o.op = "try", o.on = h PROVE FALSE
    <3>1. At(u, "try") /\ This(u) = o
      BY <1>1, <2>1, TryIsFirst
    <3>2. ~ (At(u, "try") /\ This(u).on = This(t).on)
      BY DEF FreeObject
    <3> QED BY <1>4, <2>1, <3>1, <3>2
  <2> QED BY <1>8, <2>1 DEF Wanted
<1>17. StaysAlive
  BY <1>10, <1>16 DEF StaysAlive
<1>18. K[t] \in SUBSET Heap /\ \A u \in Thread \ {t} : K[u] \in SUBSET Heap /\ K[t] \cap K[u] = {}
  BY <1>15 DEF Building
<1>19. Apart(t, K[t], K)
  BY <1>2, <1>11, <1>13, <1>18 DEF Apart, Goes
<1>20. Ahead(t, <<>>, K[t])
  BY <1>2, NoneFollow DEF Ahead
<1>21. Grows(t, K[t], K)
  BY <1>11, <1>18 DEF Grows
<1>22. Adds(t, NULL)
  <2>1. \A o \in Ops(t) : o.op = "return" => o.on \in Heap
    BY <1>1, OpsTyped, OpFacts
  <2> QED BY <1>2, <1>11, <2>1, HeapApart DEF Adds
<1>23. OnBlocks(t)' /\ InScope(t)' /\ Shares(t)' /\ Builds(t, K[t])'
  BY <1>2, <1>13, <1>15, <1>17, <1>18, <1>20, <1>21, <1>22, Carries
<1>24. BuildsOK' /\ KindsOK' /\ ScopeOK' /\ SharedOK'
  BY <1>14, <1>15, <1>17, <1>18, <1>19, <1>23, Stands
<1>25. Balance(This(t), <<>>)
  <2>1. Turns(t, This(t), <<>>)
    BY <1>1, <1>2, NoneFollow, ContinueTurns
  <2>2. /\ \A q \in Holder \ {NULL} : held'[q] = held[q]
        /\ \A k \in Heap \ {NULL} : Holds(k)' = Holds(k)
        /\ \A u \in Thread \ {t} : forwarding'[u] = forwarding[u]
    BY <1>2, <1>11
  <2>3. Tally(t, NULL, This(t), <<>>)
    BY <1>1, <1>14, <2>1, <2>2, Tallies
  <2> QED BY <1>2, <2>3, Balances
<1>26. ASSUME NEW x \in Counted
       PROVE  References(x)' = References(x) /\ Due(ToFree, x)' + One(h = x) = Due(ToFree, x)
              /\ Due(ToFree, x)' \in Nat
  <2>1. /\ References(x) \in Nat /\ References(x)' \in Nat
        /\ Due(ToFree, x) \in Nat /\ Due(ToFree, x)' \in Nat
        /\ References(x)' + One(This(t).op \in OwnOrGive /\ This(t).on = x)
             = References(x) + CountOf(Named(<<>>, OwnOrGive), x)
        /\ Due(ToFree, x)' + One(This(t).op \in ToFree /\ This(t).on = x)
             = Due(ToFree, x) + CountOf(Named(<<>>, ToFree), x)
    BY <1>25 DEF Balance
  <2>2. /\ One(This(t).op \in OwnOrGive /\ This(t).on = x) = 0
        /\ One(This(t).op \in ToFree /\ This(t).on = x) = One(h = x)
    BY <1>2, <1>4 DEF OwnOrGive, ToFree, One
  <2>3. CountOf(Named(<<>>, OwnOrGive), x) = 0 /\ CountOf(Named(<<>>, ToFree), x) = 0
    BY NoneNamed
  <2> QED BY <2>1, <2>2, <2>3
<1>27. ASSUME NEW x \in Heap PROVE AddressOK(x)'
  <2>1. x \in Counted
    BY DEF Counted
  <2>2. CASE x = h
    <3>1. Due(ToFree, h)' \in Nat /\ Due(ToFree, h)' + One(h = h) = 1 /\ References(h)' = 0
      BY <1>5, <1>8, <1>26
    <3>2. One(h = h) = 1
      BY DEF One
    <3>3. Due(ToFree, h)' = 0
      BY <3>1, <3>2
    <3>4. AddressOK(h)'
      BY <1>10, <3>1, <3>3 DEF AddressOK
    <3> QED BY <2>2, <3>4
  <2>3. CASE x # h
    <3>1. One(h = x) = 0
      BY <2>3 DEF One
    <3>2. References(x)' = References(x) /\ Due(ToFree, x)' = Due(ToFree, x)
      BY <1>26, <2>1, <3>1
    <3>3. AddressOK(x) /\ mem'[x] = mem[x]
      BY <1>1, <1>10, <2>3 DEF AddressesOK
    <3> QED BY <3>2, <3>3, AddressStays
  <2> QED BY <2>2, <2>3
<1>28. ObjectOK'
  <2>1. References(OBJECT)' = References(OBJECT)
    BY <1>26 DEF Counted
  <2> QED BY <1>2, <2>1 DEF BlocksIInv, ObjectOK
<1>29. BlocksTypeOK'
  <2>1. object \in Nat /\ held \in HeldType
    BY DEF BlocksIInv, BlocksTypeOK, HeldType
  <2> QED BY <1>2, <1>10, <2>1, TypeStays
<1> QED BY <1>12, <1>24, <1>27, <1>28, <1>29 DEF BlocksIInv, AddressesOK

-----------------------------------------------------------------------------
(* The invariant, and what follows from it.                                    *)

\* At first there are no references at all.
LEMMA InitNone ==
  ASSUME BlocksInit, NEW x \in Counted
  PROVE  /\ Held(x) = 0 /\ Captured(x) = 0 /\ Frames(x) = 0
         /\ \A kinds : Due(kinds, x) = 0
<1>1. Held(x) = 0
  <2>1. PICK f : f = [p \in Holder |-> IF x \in Heap THEN held[p][x] ELSE 0]
    OBVIOUS
  <2>2. f \in [Holder -> Nat] /\ \A p \in Holder : f[p] = 0
    <3>1. \A p \in Holder : f[p] = 0
      BY <2>1 DEF BlocksInit
    <3>2. f = [p \in Holder |-> f[p]]
      BY <2>1
    <3> QED BY <3>1, <3>2
  <2>3. SumFunction(f) = 0
    BY <2>2, Finite, SumZero
  <2> QED BY <2>1, <2>3 DEF Held
<1>2. Captured(x) = 0
  <2>1. PICK f : f = [h \in Heap |-> Times(Holds(h), x)]
    OBVIOUS
  <2>2. f \in [Heap -> Nat] /\ \A h \in Heap : f[h] = 0
    <3>1. \A h \in Heap : Holds(h) = <<>>
      BY DEF BlocksInit, Holds
    <3>2. \A h \in Heap : f[h] = 0
      BY <2>1, <3>1, TimesIs, CountEmpty
    <3>3. f = [h \in Heap |-> f[h]]
      BY <2>1
    <3> QED BY <3>2, <3>3
  <2>3. SumFunction(f) = 0
    BY <2>2, Finite, SumZero
  <2> QED BY <2>1, <2>3 DEF Captured
<1>3. Frames(x) = 0
  <2>1. {t \in Thread : forwarding[t] = x} = {}
    BY HeapApart DEF BlocksInit
  <2> QED BY <2>1, FS_EmptySet DEF Frames
<1>4. ASSUME NEW kinds PROVE Due(kinds, x) = 0
  <2>1. PICK f : f = [t \in Thread |-> Times(Named(call[t], kinds), x)]
    OBVIOUS
  <2>2. f \in [Thread -> Nat] /\ \A t \in Thread : f[t] = 0
    <3>1. \A t \in Thread : call[t] = <<>>
      BY DEF BlocksInit
    <3>2. Times(Named(<<>>, kinds), x) = 0
      BY TimesIs, NoneNamed
    <3>3. \A t \in Thread : f[t] = 0
      BY <2>1, <3>1, <3>2
    <3>4. f = [t \in Thread |-> f[t]]
      BY <2>1
    <3> QED BY <3>3, <3>4
  <2>3. SumFunction(f) = 0
    BY <2>2, Finite, SumZero
  <2> QED BY <2>1, <2>3 DEF Due
<1> QED BY <1>1, <1>2, <1>3, <1>4

\* The runtime starts in the invariant.
LEMMA InitSafe == BlocksInit => BlocksIInv
<1> SUFFICES ASSUME BlocksInit PROVE BlocksIInv
  OBVIOUS
<1>1. ASSUME NEW x \in Counted PROVE References(x) = 0 /\ Due(ToFree, x) = 0
  <2>1. Due(OwnOrGive, x) = 0 /\ Due(ToFree, x) = 0
    BY InitNone
  <2>2. Held(x) = 0 /\ Captured(x) = 0 /\ Frames(x) = 0
    BY InitNone
  <2> QED BY <2>1, <2>2 DEF References, OwnOrGive
<1>2. \A t \in Thread : call[t] = <<>> /\ Ops(t) = {}
  <2>1. \A t \in Thread : call[t] = <<>> /\ Ops(t) = Elems(call[t])
    BY DEF BlocksInit, Ops, Elems
  <2> QED BY <2>1, NoneFollow
<1>3. BlocksTypeOK
  BY BlocksAssumption DEF BlocksInit, BlocksTypeOK
<1>4. CallsOK
  <2>1. CallOK(<<>>) /\ <<>> \in Seq(FirstOp)
    BY NoneFollow DEF CallOK
  <2> QED BY <1>2, <2>1 DEF CallsOK, BlocksInit
<1>5. AddressesOK
  BY <1>1 DEF AddressesOK, AddressOK, BlocksInit, Counted
<1>6. ObjectOK
  BY <1>1 DEF ObjectOK, BlocksInit, Counted
<1>7. BuildsOK
  <2>1. PICK K : K = [t \in Thread |-> {}]
    OBVIOUS
  <2>2. K \in [Thread -> SUBSET Heap] /\ \A t \in Thread : K[t] = {}
    BY <2>1
  <2>3. Building(K)
    BY <1>2, <2>2 DEF Building, Builds
  <2> QED BY <2>2, <2>3 DEF BuildsOK
<1>8. KindsOK
  BY <1>2 DEF KindsOK, OnBlocks, BlocksInit
<1>9. ScopeOK /\ SharedOK
  BY <1>2 DEF ScopeOK, InScope, SharedOK, Shares
<1> QED BY <1>3, <1>4, <1>5, <1>6, <1>7, <1>8, <1>9 DEF BlocksIInv

\* Every step of a call keeps it.
LEMMA StepSafe ==
  ASSUME BlocksIInv, NEW t \in Thread, Step(t)
  PROVE  BlocksIInv'
<1>1. CASE AssignObject(t)
  BY <1>1, AssignObjectSafe
<1>2. CASE AssignLiteral(t)
  BY <1>2, AssignLiteralSafe
<1>3. CASE AssignBlock(t)
  BY <1>3, AssignBlockSafe
<1>4. CASE AssignByref(t)
  BY <1>4, AssignByrefSafe
<1>5. CASE Return(t)
  BY <1>5, ReturnSafe
<1>6. CASE Read(t)
  BY <1>6, ReadAllSafe
<1>7. CASE Retry(t)
  BY <1>7, RetrySafe
<1>8. CASE SwapIncrement(t)
  BY <1>8, SwapIncrementSafe
<1>9. CASE SwapDecrement(t)
  BY <1>9, SwapDecrementSafe
<1>10. CASE DisposeObject(t)
  BY <1>10, DisposeObjectSafe
<1>11. CASE FreeObject(t)
  BY <1>11, FreeSafe
<1> QED BY <1>1, <1>2, <1>3, <1>4, <1>5, <1>6, <1>7, <1>8, <1>9, <1>10, <1>11 DEF Step

\* The client loads no block from a weak variable.
NoWeakLoad == \A t \in Thread : \A h \in Heap : ~ LoadWeak(t, h)

\* Every call of a client keeps it, other than a weak load.
LEMMA ClientSafe ==
  ASSUME NoWeakLoad, BlocksIInv, NEW t \in Thread, Client(t)
  PROVE  BlocksIInv'
<1>1. t \in Holder
  BY BlocksAssumption
<1>2. CASE EnterFrame(t)
  BY <1>2, EnterFrameSafe
<1>3. CASE LeaveFrame(t)
  BY <1>3, LeaveFrameSafe
<1>4. ASSUME NEW l \in Lit, CopyLiteral(t, t, l) PROVE BlocksIInv'
  BY <1>1, <1>4, CopyLiteralSafe
<1>5. ASSUME NEW h \in Heap, CopyBlock(t, t, h) PROVE BlocksIInv'
  BY <1>1, <1>5, CopyBlockSafe
<1>6. ASSUME NEW h \in Heap, ReleaseBlock(t, h) PROVE BlocksIInv'
  BY <1>6, ReleaseBlockSafe
<1>7. ASSUME NEW h \in Heap, TakeReference(t, h) PROVE BlocksIInv'
  BY <1>7, TryRetainSafe DEF TakeReference, NoWeakLoad
<1>8. ASSUME NEW h \in Heap, NEW u \in Thread, Give(t, u, h) PROVE BlocksIInv'
  BY <1>8, GiveSafe
<1> QED BY <1>2, <1>3, <1>4, <1>5, <1>6, <1>7, <1>8 DEF Client

\* The slots of trampolines take part as holders.
LEMMA NextSafe ==
  ASSUME BlocksIInv, [TNext]_<<blockVars, trampolines>>, [NoWeakLoad]_blockVars
  PROVE  BlocksIInv'
<1>1. CASE UNCHANGED blockVars
  <2>1. left' \in 0 .. Calls
    BY <1>1 DEF blockVars, BlocksIInv, BlocksTypeOK
  <2> QED BY <1>1, <2>1, Untouched DEF blockVars
<1>2. CASE BlocksNext /\ NoWeakLoad
  BY <1>2, StepSafe, ClientSafe DEF BlocksNext
<1>3. ASSUME NEW t \in Thread, imp_implementationWithBlock(t) PROVE BlocksIInv'
  <2>1. PICK s \in Trampoline : \/ \E l \in Lit : CopyLiteral(t, s, l)
                                \/ \E h \in Heap : CopyBlock(t, s, h)
    BY <1>3 DEF imp_implementationWithBlock
  <2>2. s \in Holder
    BY TrampolinesAssumption
  <2>3. ASSUME NEW l \in Lit, CopyLiteral(t, s, l) PROVE BlocksIInv'
    BY <2>2, <2>3, CopyLiteralSafe
  <2>4. ASSUME NEW h \in Heap, CopyBlock(t, s, h) PROVE BlocksIInv'
    BY <2>2, <2>4, CopyBlockSafe
  <2> QED BY <2>1, <2>3, <2>4
<1>4. ASSUME NEW t \in Thread, massive_failure_imp(t) PROVE BlocksIInv'
  <2>1. Begin(t) /\ UNCHANGED <<mem, forwarding, object, held, call>>
    BY <1>4 DEF massive_failure_imp
  <2>2. left' \in 0 .. Calls
    BY <2>1, LeftIs
  <2> QED BY <2>1, <2>2, Untouched
<1>5. ASSUME NEW t \in Thread, NEW s \in Trampoline, imp_removeBlock(t, s) PROVE UNCHANGED blockVars
  BY <1>5 DEF imp_removeBlock
<1> QED BY <1>1, <1>2, <1>3, <1>4, <1>5 DEF TNext

\* The counts, the frees and the shared variables are as the invariant says.
LEMMA ConsistentIn == BlocksIInv => BlocksConsistent
<1> SUFFICES ASSUME BlocksIInv PROVE BlocksConsistent
  OBVIOUS
<1>1. Counting /\ CallsOK
  BY CountingOK DEF BlocksIInv
<1>2. ASSUME NEW h \in Live
      PROVE  /\ mem[h].word.count \in {References(h), BLOCK_REFCOUNT_MASK}
             /\ mem[h].word.deallocating <=> mem[h].word.count = 0
             /\ Due({"free"}, h) = IF mem[h].word.deallocating THEN 1 ELSE 0
  <2>1. h \in Heap /\ mem[h] # NULL
    BY DEF Live
  <2>2. Fits(mem[h].word, mem[h].holds, References(h), Due(ToFree, h))
    BY <2>1, CountIs
  <2> QED BY <2>2 DEF Fits, One, ToFree
<1>3. CountExact
  BY <1>2 DEF CountExact, FreedOnce, BlocksIInv, ObjectOK
<1>4. OneVariable
  <2>1. ASSUME NEW t \in Thread, NEW o \in Ops(t), o.op = "return", NEW g \in Live,
               mem[g].kind = "byref", NEW i \in 1 .. Len(mem[o.on].holds), mem[o.on].holds[i] = g
        PROVE  forwarding[t] = g
    <3>1. o.on \in Heap /\ mem[o.on] # NULL
      <4>1. o \in FirstOp
        BY <1>1, OpsTyped
      <4> QED BY <2>1, <4>1, OpFacts DEF BlocksIInv, KindsOK, OnBlocks, IsBlock
    <3>2. Holds(o.on) = mem[o.on].holds /\ Holds(o.on) \in Seq(Counted)
      BY <1>1, <3>1, HoldsType DEF Holds, Counting
    <3>3. CountOf(Holds(o.on), g) > 0
      <4>1. \E j \in 1 .. Len(Holds(o.on)) : Holds(o.on)[j] = g
        BY <2>1, <3>2
      <4>2. PICK s : s = Holds(o.on)
        OBVIOUS
      <4>3. CountOf(s, g) > 0
        BY <3>2, <4>1, <4>2, CountPositive
      <4> QED BY <4>2, <4>3
    <3>4. g \in Heap /\ IsByref(g)
      BY <2>1 DEF Live, IsByref
    <3> QED BY <2>1, <3>3, <3>4 DEF BlocksIInv, SharedOK, Shares
  <2> QED BY <2>1 DEF OneVariable
<1> QED BY <1>3, <1>4 DEF BlocksConsistent, BlocksIInv

\* What is referred to is alive, as the invariant says.
LEMMA LiveIn == BlocksIInv => ReferencesLive
<1> SUFFICES ASSUME BlocksIInv PROVE ReferencesLive
  OBVIOUS
<1>1. Counting /\ CallsOK /\ AddressesOK
  BY CountingOK DEF BlocksIInv
<1>2. \A h \in Heap : References(h) > 0 => mem[h] # NULL /\ ~ mem[h].word.deallocating
  BY <1>1, ReferredLive
<1>3. PICK K \in [Thread -> SUBSET Heap] : Building(K)
  BY DEF BlocksIInv, BuildsOK
<1>4. ASSUME NEW t \in Thread, NEW o \in Ops(t), o.to \in Heap PROVE mem[o.to] # NULL
  <2>1. o.to \in K[t]
    BY <1>3, <1>4 DEF Building, Builds
  <2> QED BY <1>1, <1>3, <2>1, BuiltLive
<1>5. ASSUME NEW t \in Thread, NEW o \in Ops(t), o.on \in Heap PROVE mem[o.on] # NULL
  <2>1. o \in FirstOp
    BY <1>1, OpsTyped
  <2>2. Sourced(o.on)
    BY <1>1, <1>5, Sources DEF Counted
  <2>3. o.op \in {"return", "decr", "free", "incr", "try"}
    <3>1. Heap \cap Capture = {}
      BY BlocksAssumption
    <3> QED BY <1>5, <2>1, <3>1, OpFacts
  <2>4. CASE o.op \in {"return", "decr"}
    <3>1. References(o.on) > 0
      BY <1>5, <2>2, <2>4 DEF Sourced, OwnOrGive
    <3> QED BY <1>2, <1>5, <3>1
  <2>5. CASE o.op = "free"
    <3>1. Due(ToFree, o.on) > 0
      BY <1>5, <2>2, <2>5 DEF Sourced, ToFree
    <3>2. AddressOK(o.on)
      BY <1>1, <1>5 DEF AddressesOK
    <3> QED BY <3>1, <3>2 DEF AddressOK
  <2>6. CASE o.op = "incr"
    <3>1. held[t][o.on] > 0 \/ forwarding[t] = o.on
      BY <2>6 DEF BlocksIInv, ScopeOK, InScope
    <3>2. t \in Holder
      BY BlocksAssumption
    <3>3. References(o.on) > 0
      BY <1>5, <2>2, <3>1, <3>2 DEF Sourced
    <3> QED BY <1>2, <1>5, <3>3
  <2>7. CASE o.op = "try"
    BY <2>7 DEF BlocksIInv, KindsOK, OnBlocks, IsBlock
  <2> QED BY <2>3, <2>4, <2>5, <2>6, <2>7
<1> QED BY <1>2, <1>4, <1>5 DEF ReferencesLive, Live

\* What stays of a word for good.
Latch(h) == Latched(mem[h].word) => mem'[h] # NULL /\ mem'[h].word = mem[h].word

\* A reference given to a block changes no word.
LEMMA GivenWord ==
  ASSUME NEW m \in MemType, NEW o, o.on \in Counted, mem' = Given(m, o),
         NEW h \in Heap, m[h] # NULL
  PROVE  mem'[h] # NULL /\ mem'[h].word = m[h].word
<1>1. CASE o.to = h
  <2>1. m[h] \in HeapObject
    BY DEF MemType
  <2>2. PICK e, s : s = Append(m[h].holds, o.on) /\ e = [m[h] EXCEPT !.holds = s]
    OBVIOUS
  <2>3. s \in Seq(Heap \cup {OBJECT})
    BY <2>1, <2>2 DEF HeapObject, Counted
  <2>4. e \in HeapObject /\ e.word = m[h].word
    BY <2>1, <2>2, <2>3 DEF HeapObject
  <2>5. mem' = [m EXCEPT ![h] = e]
    BY <1>1, <2>2 DEF Given, MemType
  <2>6. mem'[h] = e
    BY <2>5 DEF MemType
  <2> QED BY <2>4, <2>6, ObjectNotNull
<1>2. CASE o.to # h
  BY <1>2 DEF Given, MemType
<1> QED BY <1>1, <1>2

\* Nor does it end a latch.
LEMMA LatchGiven ==
  ASSUME NEW m \in MemType, NEW o, o.on \in Counted, mem' = Given(m, o),
         \A h \in Live : Latched(mem[h].word) => m[h] = mem[h]
  PROVE  \A h \in Live : Latch(h)
<1>1. ASSUME NEW h \in Live, Latched(mem[h].word)
      PROVE  mem'[h] # NULL /\ mem'[h].word = mem[h].word
  <2>1. h \in Heap /\ mem[h] # NULL /\ m[h] = mem[h]
    BY <1>1 DEF Live
  <2> QED BY <2>1, GivenWord
<1> QED BY <1>1 DEF Latch

\* A step that leaves memory alone leaves every latch.
LEMMA LatchSame ==
  ASSUME mem' = mem
  PROVE  \A h \in Live : Latch(h)
BY DEF Latch, Live

\* An allocation leaves every latch.
LEMMA LatchNew ==
  ASSUME BlocksIInv, NEW h \in Allocated, NEW kind \in {"block", "byref"}, NEW w \in Word,
         NEW m, WithNew(m, h, kind, w)
  PROVE  m \in MemType /\ \A k \in Live : m[k] = mem[k]
<1>1. mem[h] = NULL /\ m \in MemType /\ \A k \in Heap \ {h} : m[k] = mem[k]
  BY NewObject
<1> QED BY <1>1 DEF Live

\* No step of a call ends a latch: a loop that finds one does not store.
LEMMA LatchStep ==
  ASSUME BlocksIInv, NEW t \in Thread, Step(t)
  PROVE  \A h \in Live : Latch(h)
<1>1. Counting /\ CallsOK /\ mem \in MemType
  BY CountingOK DEF BlocksIInv, Counting
<1>2. CASE AssignObject(t)
  <2>1. mem' = Given(mem, This(t)) /\ This(t).on \in Counted
    BY <1>2 DEF AssignObject, Counted
  <2> QED BY <1>1, <2>1, LatchGiven
<1>3. CASE AssignLiteral(t)
  <2>1. PICK h \in Allocated :
          mem' = Given([mem EXCEPT ![h] = Object("block", NewBlock)], CaptureOf(This(t), h))
    BY <1>3 DEF AssignLiteral, CaptureOf
  <2>2. PICK m : m = [mem EXCEPT ![h] = Object("block", NewBlock)]
    OBVIOUS
  <2>3. m \in MemType /\ \A k \in Live : m[k] = mem[k]
    <3>1. WithNew(m, h, "block", NewBlock)
      BY <2>2 DEF WithNew
    <3> QED BY <3>1, NewWords, LatchNew
  <2>4. CaptureOf(This(t), h).on = h /\ h \in Counted
    <3>1. This(t) \in FirstOp
      BY <1>1, <1>3, FirstIs DEF AssignLiteral, At
    <3> QED BY <3>1, CaptureIs DEF Allocated, Counted
  <2> QED BY <2>1, <2>2, <2>3, <2>4, LatchGiven
<1>4. CASE AssignByref(t)
  <2>1. CASE forwarding[t] = "stack"
    <3>1. PICK h \in Allocated :
            mem' = Given([mem EXCEPT ![h] = Object("byref", NewByref)], CaptureOf(This(t), h))
      BY <1>4, <2>1 DEF AssignByref, CaptureOf
    <3>2. PICK m : m = [mem EXCEPT ![h] = Object("byref", NewByref)]
      OBVIOUS
    <3>3. m \in MemType /\ \A k \in Live : m[k] = mem[k]
      <4>1. WithNew(m, h, "byref", NewByref)
        BY <3>2 DEF WithNew
      <4> QED BY <4>1, NewWords, LatchNew
    <3>4. CaptureOf(This(t), h).on = h /\ h \in Counted
      <4>1. This(t) \in FirstOp
        BY <1>1, <1>4, FirstIs DEF AssignByref, At
      <4> QED BY <4>1, CaptureIs DEF Allocated, Counted
    <3> QED BY <3>1, <3>2, <3>3, <3>4, LatchGiven
  <2>2. CASE forwarding[t] # "stack"
    BY <1>4, <2>2, LatchSame DEF AssignByref
  <2> QED BY <2>1, <2>2
<1>5. CASE AssignBlock(t) \/ Return(t) \/ Retry(t) \/ DisposeObject(t)
  BY <1>5, LatchSame DEF AssignBlock, Return, Retry, DisposeObject
<1>6. CASE Read(t)
  <2>1. mem' = mem \/ mem' = Given(mem, This(t))
    BY <1>6 DEF Read
  <2>2. This(t).on \in Counted
    BY <1>6, LoopOn DEF Read, Counted
  <2> QED BY <1>1, <2>1, <2>2, LatchSame, LatchGiven
<1>7. CASE SwapIncrement(t)
  <2>1. PICK h \in Heap, o \in FirstOp : h = This(t).on /\ o = This(t) /\ o.op \in {"incr", "try"}
    BY <1>1, <1>7, FirstIs, OpFacts DEF SwapIncrement, At, This
  <2>2. o.old # NULL /\ mem[h].word = o.old
        /\ mem' = Given([mem EXCEPT ![h].word = Incremented(o.old)], o)
    BY <1>7, <2>1 DEF SwapIncrement, Swaps
  <2>3. o.old \in Word /\ ~ Latched(o.old)
    BY <2>1, <2>2, OldFacts DEF Readable
  <2>4. Incremented(o.old) \in Word
    BY <2>3, IncrementedWord DEF Latched
  <2>5. mem[h] \in HeapObject
    <3>1. Loop(t)
      <4>1. This(t).on # OBJECT
        BY <2>1, HeapApart
      <4> QED BY <1>7, <2>1, <4>1 DEF Loop, SwapIncrement
    <3> QED BY <2>1, <3>1, LoopOn
  <2>6. PICK m, e : e = [mem[h] EXCEPT !.word = Incremented(o.old)] /\ m = [mem EXCEPT ![h] = e]
    OBVIOUS
  <2>7. e \in HeapObject
    BY <2>4, <2>5, <2>6 DEF HeapObject
  <2>8. m \in MemType /\ \A k \in Heap \ {h} : m[k] = mem[k]
    BY <1>1, <2>6, <2>7 DEF MemType
  <2>9. mem' = Given(m, o)
    BY <1>1, <2>2, <2>6 DEF MemType
  <2>10. \A k \in Live : Latched(mem[k].word) => m[k] = mem[k]
    BY <2>2, <2>3, <2>8 DEF Live
  <2> QED BY <2>1, <2>8, <2>9, <2>10, LatchGiven DEF Counted
<1>8. CASE SwapDecrement(t)
  <2>1. PICK h \in Heap, o \in FirstOp : h = This(t).on /\ o = This(t)
    BY <1>8, LoopOn DEF SwapDecrement, Loop
  <2>2. /\ Loop(t) /\ This(t).op = "decr" /\ o.old # NULL /\ mem[h].word = o.old
        /\ \/ mem' = [mem EXCEPT ![h].word = Decremented(o.old), ![h].holds = <<>>]
           \/ mem' = [mem EXCEPT ![h].word = Decremented(o.old)]
    BY <1>8, <2>1 DEF SwapDecrement, Swaps, Loop, At, This
  <2>3. ~ Latched(mem[h].word)
    <3>1. Readable(o, o.old)
      BY <2>1, <2>2, OldFacts
    <3> QED BY <2>1, <2>2, <3>1 DEF Readable, Stuck
  <2>4. \A k \in Heap \ {h} : mem'[k] = mem[k]
    BY <1>1, <2>2 DEF MemType
  <2> QED BY <2>3, <2>4 DEF Latch, Live
<1>9. CASE FreeObject(t)
  <2>1. call[t] # <<>> /\ This(t).op = "free"
    BY <1>9 DEF FreeObject, At, This
  <2>2. PICK h \in Heap : h = This(t).on /\ This(t) \in Ops(t)
    BY <1>1, <2>1, FirstIs, OpFacts
  <2>3. h \in Live => mem[h].word.count = 0
    <3>1. ASSUME h \in Live PROVE mem[h].word.count = 0
      <4>1. Sourced(h) /\ mem[h] # NULL
        BY <1>1, <3>1, Sources DEF Counted, Live
      <4>2. Due(ToFree, h) > 0
        BY <2>1, <2>2, <4>1 DEF Sourced, ToFree
      <4>3. Fits(mem[h].word, mem[h].holds, References(h), Due(ToFree, h))
        BY <4>1, CountIs
      <4>4. Due(ToFree, h) = One(mem[h].word.deallocating)
        BY <4>3 DEF Fits
      <4>5. mem[h].word.deallocating
        BY <4>2, <4>4 DEF One
      <4> QED BY <4>3, <4>5 DEF Fits
    <3> QED BY <3>1
  <2>4. h \in Live => ~ Latched(mem[h].word)
    BY <2>3, BlocksAssumption DEF Latched
  <2>5. \A k \in Heap \ {h} : mem'[k] = mem[k]
    <3>1. mem' = [mem EXCEPT ![h] = NULL]
      BY <1>9, <2>2 DEF FreeObject
    <3> QED BY <1>1, <3>1 DEF MemType
  <2> QED BY <2>4, <2>5 DEF Latch, Live
<1> QED BY <1>2, <1>3, <1>4, <1>5, <1>6, <1>7, <1>8, <1>9 DEF Step

\* Nor does a copy that begins.
LEMMA LatchClient ==
  ASSUME BlocksIInv, NEW t \in Thread, NEW p, NEW l, CopyLiteral(t, p, l)
  PROVE  \A h \in Live : Latch(h)
<1>1. PICK h \in Allocated : mem' = [mem EXCEPT ![h] = Object("block", NewBlock)]
  BY DEF CopyLiteral
<1>2. PICK m : m = mem'
  OBVIOUS
<1>3. WithNew(m, h, "block", NewBlock)
  BY <1>1, <1>2 DEF WithNew
<1>4. \A k \in Live : m[k] = mem[k]
  BY <1>3, NewWords, LatchNew
<1> QED BY <1>2, <1>4 DEF Latch, Live

\* No step of the system ends a latch.
LEMMA LatchNext ==
  ASSUME BlocksIInv, [TNext]_<<blockVars, trampolines>>
  PROVE  \A h \in Live : Latch(h)
<1>1. CASE UNCHANGED <<blockVars, trampolines>>
  BY <1>1, LatchSame DEF blockVars
<1>2. ASSUME NEW t \in Thread, Client(t) PROVE \A h \in Live : Latch(h)
  <2>1. mem' = mem \/ \E l \in Lit : CopyLiteral(t, t, l)
    BY <1>2 DEF Client, EnterFrame, LeaveFrame, CopyBlock, ReleaseBlock,
           TakeReference, LoadWeak, _Block_tryRetain, Give
  <2> QED BY <2>1, LatchSame, LatchClient
<1>3. CASE BlocksNext
  BY <1>2, <1>3, LatchStep DEF BlocksNext
<1>4. ASSUME NEW t \in Thread, imp_implementationWithBlock(t) PROVE \A h \in Live : Latch(h)
  <2>1. mem' = mem \/ \E s \in Trampoline : \E l \in Lit : CopyLiteral(t, s, l)
    BY <1>4 DEF imp_implementationWithBlock, CopyBlock
  <2> QED BY <2>1, LatchSame, LatchClient
<1>5. ASSUME NEW t \in Thread,
             massive_failure_imp(t) \/ \E s \in Trampoline : imp_removeBlock(t, s)
      PROVE  \A h \in Live : Latch(h)
  BY <1>5, LatchSame DEF massive_failure_imp, imp_removeBlock, blockVars
<1> QED BY <1>1, <1>3, <1>4, <1>5 DEF TNext

\* The invariant holds throughout.
LEMMA BlocksInvariant == TSpec /\ [][NoWeakLoad]_blockVars => []BlocksIInv
<1>1. TInit => BlocksIInv
  BY InitSafe DEF TInit
<1>2. BlocksIInv /\ [TNext]_<<blockVars, trampolines>> /\ [NoWeakLoad]_blockVars => BlocksIInv'
  BY NextSafe
<1> QED BY <1>1, <1>2, PTL DEF TSpec

\* For any threads, heap, literals and captures, and however the loops of reads
\* and swaps interleave: the count of every block and __block variable is the number
\* of references to it unless it has latched, what has none left is freed exactly
\* once, and a block returned by _Block_copy shares the variable its frame uses.
\* That and what follows is for clients that load no block from a weak variable.
THEOREM BlocksStayConsistent == TSpec /\ [][NoWeakLoad]_blockVars => []BlocksConsistent
BY BlocksInvariant, ConsistentIn, PTL

\* While no block is loaded from a weak variable, nothing that a holder, a block, a
\* frame or a call under way refers to has been freed or is being freed: _Block_release never frees what _Block_copy or
\* _Block_tryRetain has given out.
THEOREM ReferencesStayLive == TSpec /\ [][NoWeakLoad]_blockVars => []ReferencesLive
BY BlocksInvariant, LiveIn, PTL

\* A count that has reached BLOCK_REFCOUNT_MASK never changes again, so that its
\* block is leaked rather than freed early (for clients without weak loads).
THEOREM LatchesStay == TSpec /\ [][NoWeakLoad]_blockVars => LatchedForGood
<1> DEFINE Stays == \A h \in Live : Latched(mem[h].word) => mem'[h] # NULL /\ mem'[h].word = mem[h].word
<1>1. BlocksIInv /\ [TNext]_<<blockVars, trampolines>> => [Stays]_blockVars
  BY LatchNext DEF Latch
<1>2. TSpec /\ [][NoWeakLoad]_blockVars => [][Stays]_blockVars
  BY <1>1, BlocksInvariant, PTL DEF TSpec
<1> QED BY <1>2 DEF LatchedForGood

-----------------------------------------------------------------------------
(* The slots of trampolines.                                                   *)

\* For whom the operations of a call are: for one slot at most.
For(t, s) == \E o \in Ops(t) : o.to = s
Single(t) == \A o, q \in Ops(t) : o.to \in Trampoline /\ q.to \in Trampoline => o = q

\* A slot is given out before something is made for it, for one call or one block.
SlotOK(s) ==
    /\ InSlot(s) # {} => s \in Used
    /\ \A t \in Thread : For(t, s) => s \in Used /\ InSlot(s) = {}
    /\ \A t, u \in Thread : For(t, s) /\ For(u, s) => t = u
    /\ \A h, g \in InSlot(s) : h = g /\ held[s][h] = 1

SlotsOK ==
    /\ buffers \in Nat /\ offset \in Nat
    /\ \A t \in Thread : Single(t)
    /\ \A s \in Trampoline : SlotOK(s)

\* A slot is a holder, but neither a thread nor an address.
LEMMA SlotApart ==
  /\ \A s \in Trampoline : s \in Holder /\ s \notin Heap /\ s \notin Thread
  /\ NULL \notin Trampoline /\ \A h \in Heap : h \notin Trampoline /\ \A t \in Thread : t \notin Trampoline
  /\ \A p \in Holder : p \in Trampoline \/ p \in Thread
<1>1. Holder = Thread \cup Trampoline /\ Thread \cap Trampoline = {}
  BY TrampolinesAssumption
<1>2. NULL \notin Heap /\ NULL \notin Holder /\ Heap \cap Holder = {}
  BY HeapApart
<1> QED BY <1>1, <1>2

\* The other threads go on as they were, and nothing is for another slot than s.
Onward(t, S) ==
    /\ \A u \in Thread \ {t} : Ops(u)' = Ops(u)
    /\ \A o \in Ops(t)' : o.to \in Trampoline => o.to \in S
    /\ Single(t)'

\* Every call is for one slot at most, after such a step.
LEMMA SingleAll ==
  ASSUME SlotsOK, NEW t \in Thread, NEW S, Onward(t, S)
  PROVE  \A u \in Thread : Single(u)'
<1>1. ASSUME NEW u \in Thread \ {t} PROVE Single(u)'
  <2>1. Ops(u)' = Ops(u) /\ Single(u)
    BY DEF Onward, SlotsOK
  <2> QED BY <2>1 DEF Single
<1> QED BY <1>1 DEF Onward

\* No slot gets anything.
LEMMA QuietSlots ==
  ASSUME SlotsOK, NEW t \in Thread, Onward(t, {o.to : o \in Ops(t)}),
         \A s \in Trampoline : held'[s] = held[s], buffers' = buffers, offset' = offset
  PROVE  SlotsOK'
<1>1. \A u \in Thread : Single(u)'
  BY SingleAll
<1>2. Used' = Used
  BY DEF Used
<1>3. ASSUME NEW s \in Trampoline PROVE SlotOK(s)'
  <2>1. SlotOK(s)
    BY DEF SlotsOK
  <2>2. InSlot(s)' = InSlot(s) /\ held'[s] = held[s]
    BY DEF InSlot
  <2>3. ASSUME NEW u \in Thread, For(u, s)' PROVE For(u, s)
    <3>1. PICK o \in Ops(u)' : o.to = s
      BY <2>3 DEF For
    <3>2. CASE u = t
      <4>1. For(t, s)
        BY <3>1, <3>2 DEF For, Onward
      <4> QED BY <3>2, <4>1
    <3>3. CASE u # t
      <4>1. Ops(u)' = Ops(u)
        BY <3>3 DEF Onward
      <4> QED BY <3>1, <4>1 DEF For
    <3> QED BY <3>2, <3>3
  <2>4. InSlot(s)' # {} => s \in Used'
    BY <1>2, <2>1, <2>2 DEF SlotOK
  <2>5. \A u \in Thread : For(u, s)' => s \in Used' /\ InSlot(s)' = {}
    BY <1>2, <2>1, <2>2, <2>3 DEF SlotOK
  <2>6. \A v, u \in Thread : For(v, s)' /\ For(u, s)' => v = u
    BY <2>1, <2>3 DEF SlotOK
  <2>7. \A h, g \in InSlot(s)' : h = g /\ held'[s][h] = 1
    BY <2>1, <2>2 DEF SlotOK
  <2> QED BY <2>4, <2>5, <2>6, <2>7 DEF SlotOK
<1> QED BY <1>1, <1>3 DEF SlotsOK

\* The slot for which a call was gets its block.
LEMMA GiftSlots ==
  ASSUME SlotsOK, held \in HeldType, NEW t \in Thread, Onward(t, {}), NEW s \in Trampoline, For(t, s),
         NEW h \in Heap, held' = [held EXCEPT ![s][h] = @ + 1],
         buffers' = buffers, offset' = offset
  PROVE  SlotsOK'
<1>1. \A u \in Thread : Single(u)'
  BY SingleAll
<1>2. Used' = Used
  BY DEF Used
<1>3. s \in Used /\ InSlot(s) = {} /\ \A u \in Thread : For(u, s) => u = t
  BY DEF SlotsOK, SlotOK
<1>4. s \in Holder /\ \A r \in Trampoline : r \in Holder
  BY SlotApart
<1>5. \A k \in Heap : held[s][k] = 0
  <2>1. \A k \in Heap : held[s][k] \in Nat
    BY <1>4 DEF HeldType
  <2> QED BY <1>3, <2>1 DEF InSlot
<1>6. /\ \A r \in Trampoline \ {s} : held'[r] = held[r]
      /\ held'[s][h] = 1 /\ \A k \in Heap \ {h} : held'[s][k] = 0
  <2>1. PICK a : a = [held[s] EXCEPT ![h] = held[s][h] + 1]
    OBVIOUS
  <2>2. a[h] = 1 /\ \A k \in Heap \ {h} : a[k] = held[s][k]
    BY <1>4, <1>5, <2>1 DEF HeldType
  <2>3. held' = [held EXCEPT ![s] = a]
    BY <2>1 DEF HeldType
  <2>4. held'[s] = a /\ \A r \in Holder \ {s} : held'[r] = held[r]
    BY <1>4, <2>3 DEF HeldType
  <2> QED BY <1>4, <1>5, <2>2, <2>4
<1>7. ASSUME NEW r \in Trampoline, NEW u \in Thread, For(u, r)' PROVE u # t /\ For(u, r)
  <2>1. PICK o \in Ops(u)' : o.to = r
    BY <1>7 DEF For
  <2>2. u # t
    <3>1. ASSUME u = t PROVE FALSE
      <4>1. o \in Ops(t)' /\ o.to \in Trampoline
        BY <2>1, <3>1
      <4> QED BY <4>1 DEF Onward
    <3> QED BY <3>1
  <2>3. Ops(u)' = Ops(u)
    BY <2>2 DEF Onward
  <2> QED BY <2>1, <2>2, <2>3 DEF For
<1>8. ASSUME NEW r \in Trampoline PROVE SlotOK(r)'
  <2>1. SlotOK(r)
    BY DEF SlotsOK
  <2>2. \A u \in Thread : For(u, r)' => u # t /\ For(u, r)
    BY <1>7
  <2>3. \A v, u \in Thread : For(v, r)' /\ For(u, r)' => v = u
    BY <2>1, <2>2 DEF SlotOK
  <2>4. CASE r = s
    <3>1. \A u \in Thread : ~ For(u, r)'
      BY <1>3, <2>2, <2>4
    <3>2. InSlot(r)' = {h}
      BY <1>6, <2>4 DEF InSlot
    <3> QED BY <1>2, <1>3, <1>6, <2>3, <2>4, <3>1, <3>2 DEF SlotOK
  <2>5. CASE r # s
    <3>1. held'[r] = held[r] /\ InSlot(r)' = InSlot(r)
      BY <1>6, <2>5 DEF InSlot
    <3> QED BY <1>2, <2>1, <2>2, <2>3, <3>1 DEF SlotOK
  <2> QED BY <2>4, <2>5
<1> QED BY <1>1, <1>8 DEF SlotsOK

\* A slot that was free is given out, to a call that begins.
LEMMA FreshSlots ==
  ASSUME SlotsOK, NEW t \in Thread, Ops(t) = {}, NEW s \in Trampoline, Onward(t, {s}),
         s \notin Used, s \in Used', Used \subseteq Used', held' = held,
         buffers' \in Nat, offset' \in Nat
  PROVE  SlotsOK'
<1>1. \A u \in Thread : Single(u)'
  BY SingleAll
<1>2. InSlot(s) = {} /\ \A u \in Thread : ~ For(u, s)
  BY DEF SlotsOK, SlotOK
<1>3. ASSUME NEW r \in Trampoline, NEW u \in Thread, For(u, r)' PROVE (u = t /\ r = s) \/ For(u, r)
  <2>1. PICK o \in Ops(u)' : o.to = r
    BY <1>3 DEF For
  <2>2. CASE u = t
    <3>1. o \in Ops(t)' /\ o.to \in Trampoline
      BY <2>1, <2>2
    <3> QED BY <2>1, <2>2, <3>1 DEF Onward
  <2>3. CASE u # t
    <3>1. Ops(u)' = Ops(u)
      BY <2>3 DEF Onward
    <3> QED BY <2>1, <3>1 DEF For
  <2> QED BY <2>2, <2>3
<1>4. ASSUME NEW r \in Trampoline PROVE SlotOK(r)'
  <2>1. SlotOK(r) /\ InSlot(r)' = InSlot(r)
    BY DEF SlotsOK, InSlot
  <2>2. \A u \in Thread : For(u, r)' => (u = t /\ r = s) \/ For(u, r)
    BY <1>3
  <2>3. CASE r = s
    <3>1. \A u \in Thread : For(u, r)' => u = t
      BY <1>2, <2>2, <2>3
    <3>2. InSlot(r)' = {} /\ r \in Used'
      BY <1>2, <2>1, <2>3
    <3> QED BY <3>1, <3>2 DEF SlotOK
  <2>4. CASE r # s
    <3>1. \A u \in Thread : For(u, r)' => For(u, r)
      BY <2>2, <2>4
    <3> QED BY <2>1, <3>1 DEF SlotOK
  <2> QED BY <2>3, <2>4
<1> QED BY <1>1, <1>4 DEF SlotsOK

Paged == buffers' = buffers /\ offset' = offset

\* A call that goes on with nothing for a slot.
LEMMA GoesOnward ==
  ASSUME SlotsOK, NEW t \in Thread, NEW ops, NEW rest, Goes(t, ops, rest),
         \A o \in Elems(ops) : o.to \notin Trampoline
  PROVE  Onward(t, {o.to : o \in Ops(t)})
<1>1. Ops(t) = {This(t)} \cup rest /\ Ops(t)' = Elems(ops) \cup rest
      /\ \A u \in Thread \ {t} : Ops(u)' = Ops(u)
  BY DEF Goes
<1>2. \A o \in Ops(t)' : o.to \in Trampoline => o \in Ops(t)
  BY <1>1
<1>3. Single(t)'
  BY <1>2 DEF SlotsOK, Single
<1> QED BY <1>1, <1>2, <1>3 DEF Onward

\* A loop that notes what it read is for whom it was.
LEMMA MarkOnward ==
  ASSUME SlotsOK, NEW t \in Thread, NEW ops, NEW rest, Goes(t, ops, rest),
         NEW m, Elems(ops) = {m}, m.to = This(t).to,
         This(t) \in FirstOp, This(t).op \in {"incr", "try", "decr"}
  PROVE  Onward(t, {o.to : o \in Ops(t)})
<1>1. Ops(t) = {This(t)} \cup rest /\ Ops(t)' = {m} \cup rest /\ rest \subseteq LaterOp
      /\ \A u \in Thread \ {t} : Ops(u)' = Ops(u)
  BY DEF Goes
<1>2. m.to \in Trampoline => This(t) \notin LaterOp
  BY OpFacts, SlotApart
<1>3. ASSUME NEW o \in rest, o.to \in Trampoline, m.to \in Trampoline PROVE FALSE
  <2>1. o \in Ops(t) /\ This(t) \in Ops(t) /\ This(t).to \in Trampoline
    BY <1>1, <1>3
  <2>2. o = This(t)
    BY <1>3, <2>1 DEF SlotsOK, Single
  <2> QED BY <1>1, <1>2, <1>3, <2>2
<1>4. Single(t)'
  <2>1. ASSUME NEW o \in Ops(t)', NEW q \in Ops(t)', o.to \in Trampoline, q.to \in Trampoline PROVE o = q
    <3>1. CASE o \in rest /\ q \in rest
      BY <1>1, <2>1, <3>1 DEF SlotsOK, Single
    <3>2. CASE o \notin rest \/ q \notin rest
      BY <1>1, <1>3, <2>1, <3>2
    <3> QED BY <3>1, <3>2
  <2> QED BY <2>1 DEF Single
<1>5. \A o \in Ops(t)' : o.to \in {q.to : q \in Ops(t)}
  BY <1>1
<1> QED BY <1>1, <1>4, <1>5 DEF Onward

\* A call that has handed a slot its block has nothing more for it.
LEMMA HandsOnward ==
  ASSUME SlotsOK, CallsOK, NEW t \in Thread, call[t] # <<>>, Continue(t, <<>>),
         This(t).op \in {"incr", "try", "return"}, This(t).to \in Trampoline
  PROVE  Onward(t, {})
<1>1. This(t) \in FirstOp /\ \E rest : Goes(t, <<>>, rest)
  BY Continues, NoneFollow
<1>2. PICK rest : Goes(t, <<>>, rest)
  BY <1>1
<1>3. Ops(t) = {This(t)} \cup rest /\ Ops(t)' = rest /\ rest \subseteq LaterOp
      /\ \A u \in Thread \ {t} : Ops(u)' = Ops(u)
  BY <1>2, NoneFollow DEF Goes
<1>4. \A o \in Ops(t)' : o.to \notin Trampoline
  <2>1. CASE This(t).op = "return"
    <3>1. Ops(t)' = {}
      BY <2>1, ReturnEmpties
    <3> QED BY <3>1
  <2>2. CASE This(t).op \in {"incr", "try"}
    <3>1. This(t) \notin LaterOp
      BY <1>1, <2>2, OpFacts
    <3>2. \A o \in rest : o.to \in Trampoline => o = This(t)
      BY <1>3 DEF SlotsOK, Single
    <3> QED BY <1>3, <3>1, <3>2
  <2> QED BY <2>1, <2>2
<1>5. Single(t)'
  BY <1>4 DEF Single
<1> QED BY <1>3, <1>4, <1>5 DEF Onward

\* A call goes on, without anything for a slot.
LEMMA GoesSlots ==
  ASSUME SlotsOK, CallsOK, NEW t \in Thread, call[t] # <<>>, NEW ops, Follows(ops),
         Continue(t, ops), \A o \in Elems(ops) : o.to \notin Trampoline,
         \A s \in Trampoline : held'[s] = held[s], Paged
  PROVE  SlotsOK'
<1>1. PICK rest : Goes(t, ops, rest)
  BY Continues
<1>2. Onward(t, {o.to : o \in Ops(t)})
  BY <1>1, GoesOnward
<1> QED BY <1>2, QuietSlots DEF Paged

\* A reference reaches whoever asked for it.
LEMMA HandsSlots ==
  ASSUME SlotsOK, CallsOK, held \in HeldType, NEW t \in Thread, call[t] # <<>>, Continue(t, <<>>),
         This(t).op \in {"incr", "try", "return"}, held' = HeldBy(This(t)), Paged
  PROVE  SlotsOK'
<1>1. This(t) \in FirstOp /\ This(t) \in Ops(t)
  BY FirstIs
<1>2. PICK h \in Heap, to \in Heap \cup Holder : h = This(t).on /\ to = This(t).to
  BY <1>1, OpFacts
<1>3. CASE to \in Trampoline
  <2>1. Onward(t, {}) /\ For(t, to)
    BY <1>1, <1>2, <1>3, HandsOnward DEF For
  <2>2. held' = [held EXCEPT ![to][h] = @ + 1]
    BY <1>2, <1>3, SlotApart DEF HeldBy
  <2> QED BY <1>3, <2>1, <2>2, GiftSlots DEF Paged
<1>4. CASE to \notin Trampoline
  <2>1. \A s \in Trampoline : held'[s] = held[s]
    <3>1. CASE to \in Holder
      <4>1. held' = [held EXCEPT ![to][h] = @ + 1]
        BY <1>2, <3>1 DEF HeldBy
      <4> QED BY <1>4, <4>1, SlotApart DEF HeldType
    <3>2. CASE to \notin Holder
      BY <1>2, <3>2 DEF HeldBy
    <3> QED BY <3>1, <3>2
  <2>2. Follows(<<>>) /\ \A o \in Elems(<<>>) : o.to \notin Trampoline
    BY NoneFollow
  <2> QED BY <2>1, <2>2, GoesSlots
<1> QED BY <1>3, <1>4

\* A call of a thread that has none begins, without anything for a slot.
LEMMA BeginsSlots ==
  ASSUME SlotsOK, CallsOK, NEW t \in Thread, call[t] = <<>>, NEW ops, CallOK(ops),
         call' = [call EXCEPT ![t] = ops], \A o \in Elems(ops) : o.to \notin Trampoline,
         \A s \in Trampoline : held'[s] = held[s], Paged
  PROVE  SlotsOK'
<1>1. /\ \A u \in Thread \ {t} : Ops(u)' = Ops(u)
      /\ Ops(t)' = Elems(ops)
  BY Begins1
<1>2. Single(t)' /\ \A o \in Ops(t)' : o.to \notin Trampoline
  BY <1>1 DEF Single
<1>3. Onward(t, {o.to : o \in Ops(t)})
  BY <1>1, <1>2 DEF Onward
<1> QED BY <1>3, QuietSlots DEF Paged

\* The assignments of a copy are for the block that is copied.
LEMMA AssignsSlots ==
  ASSUME NEW l \in Lit, NEW h \in Heap
  PROVE  Follows(Assigns(h, l)) /\ \A o \in Elems(Assigns(h, l)) : o.to \notin Trampoline
<1>1. h \notin Trampoline
  BY SlotApart
<1> QED BY <1>1, AssignsFollow

\* A reference for anyone but a slot.
LEMMA IncrSlots ==
  ASSUME NEW h \in Heap, NEW to \in Heap \cup Holder, to \notin Trampoline
  PROVE  /\ Follows(<<Op("incr", h, to)>>) /\ CallOK(<<Op("incr", h, to)>>)
         /\ \A o \in Elems(<<Op("incr", h, to)>>) : o.to \notin Trampoline
<1>1. /\ Op("incr", h, to) \in FirstOp /\ Op("incr", h, to).op = "incr"
      /\ Op("incr", h, to).to = to
  BY IncrOp
<1> QED BY <1>1, OneFollows

\* Every step of a call keeps slots apart.
LEMMA StepSlots ==
  ASSUME BlocksIInv, SlotsOK, NEW t \in Thread, Step(t), Paged
  PROVE  SlotsOK'
<1>1. CallsOK /\ held \in HeldType
  BY CountingOK DEF BlocksIInv, Counting
<1>2. Follows(<<>>) /\ \A o \in Elems(<<>>) : o.to \notin Trampoline
  BY NoneFollow
<1>3. CASE AssignObject(t) \/ DisposeObject(t) \/ FreeObject(t)
  <2>1. call[t] # <<>> /\ Continue(t, <<>>) /\ held' = held
    BY <1>3 DEF AssignObject, DisposeObject, FreeObject, At
  <2> QED BY <1>1, <1>2, <2>1, GoesSlots
<1>4. CASE AssignLiteral(t)
  <2>1. /\ call[t] # <<>> /\ This(t).on \in Lit /\ held' = held
        /\ \E h \in Allocated : Continue(t, Assigns(h, This(t).on))
    BY <1>4 DEF AssignLiteral, At
  <2>2. PICK h, ops : h \in Heap /\ ops = Assigns(h, This(t).on) /\ Continue(t, ops)
    BY <2>1 DEF Allocated
  <2>3. Follows(ops) /\ \A o \in Elems(ops) : o.to \notin Trampoline
    BY <2>1, <2>2, AssignsSlots
  <2> QED BY <1>1, <2>1, <2>2, <2>3, GoesSlots
<1>5. CASE AssignBlock(t) \/ AssignByref(t)
  <2>1. /\ call[t] # <<>> /\ This(t).op = "assign" /\ held' = held
        /\ \/ Continue(t, <<>>)
           \/ \E h \in Heap : held[t][h] > 0 /\ Continue(t, <<Op("incr", h, This(t).to)>>)
           \/ forwarding[t] # "stack" /\ Continue(t, <<Op("incr", forwarding[t], This(t).to)>>)
    BY <1>5 DEF AssignBlock, AssignByref, At, This
  <2>2. This(t) \in FirstOp /\ This(t) \in Ops(t)
    BY <1>1, <2>1, FirstIs
  <2>3. PICK to \in Heap : to = This(t).to /\ to \notin Trampoline
    BY <2>1, <2>2, OpFacts, SlotApart
  <2>4. ASSUME NEW h \in Heap, Continue(t, <<Op("incr", h, to)>>) PROVE SlotsOK'
    <3>1. /\ Follows(<<Op("incr", h, to)>>)
          /\ \A o \in Elems(<<Op("incr", h, to)>>) : o.to \notin Trampoline
      BY <2>3, IncrSlots
    <3> QED BY <1>1, <2>1, <2>4, <3>1, GoesSlots
  <2>5. CASE Continue(t, <<>>)
    BY <1>1, <1>2, <2>1, <2>5, GoesSlots
  <2>6. CASE forwarding[t] # "stack" /\ Continue(t, <<Op("incr", forwarding[t], to)>>)
    <3>1. forwarding[t] \in {"out", "stack"} \cup Heap
      BY FrameNames
    <3>2. forwarding[t] # "out"
      BY <2>1, <2>2 DEF BlocksIInv, ScopeOK, InScope
    <3> QED BY <2>4, <2>6, <3>1, <3>2
  <2> QED BY <2>1, <2>3, <2>4, <2>5, <2>6
<1>6. CASE Return(t)
  <2>1. call[t] # <<>> /\ This(t).op = "return" /\ Continue(t, <<>>) /\ held' = HeldBy(This(t))
    BY <1>6 DEF Return, At, This
  <2> QED BY <1>1, <2>1, HandsSlots
<1>7. ASSUME NEW v, call' = [call EXCEPT ![t][1].old = v], Readable(This(t), v), Loop(t), held' = held
      PROVE  SlotsOK'
  <2>1. PICK o \in FirstOp : /\ o = This(t) /\ o.op \in {"incr", "try", "decr"} /\ o.on \in Heap
                             /\ call[t] # <<>>
    BY <1>7, LoopOn
  <2>2. PICK m : m = [o EXCEPT !.old = v]
    OBVIOUS
  <2>3. m \in FirstOp /\ m.op = o.op /\ m.to = o.to
    BY <1>7, <2>1, <2>2, MarkedOp
  <2>4. Continue(t, <<m>>)
    BY <1>1, <1>7, <2>1, <2>2, Marked
  <2>5. Follows(<<m>>) /\ Elems(<<m>>) = {m}
    BY <2>1, <2>3, OneFollows
  <2>6. PICK rest : Goes(t, <<m>>, rest)
    BY <1>1, <2>1, <2>4, <2>5, Continues
  <2>7. Onward(t, {q.to : q \in Ops(t)})
    BY <2>1, <2>3, <2>5, <2>6, MarkOnward
  <2> QED BY <1>7, <2>7, QuietSlots DEF Paged
<1>8. CASE Retry(t)
  BY <1>7, <1>8 DEF Retry, Readable
<1>9. CASE Read(t)
  <2>1. Loop(t) /\ call[t] # <<>> /\ This(t).op \in {"incr", "try", "decr"}
    BY <1>9, LoopOn DEF Read
  <2>2. CASE FailsAt(t)
    <3>1. Continue(t, <<>>) /\ held' = held
      BY <1>9, <2>2 DEF Read, FailsAt
    <3> QED BY <1>1, <1>2, <2>1, <3>1, GoesSlots
  <2>3. CASE ~ FailsAt(t) /\ Latches(t)
    <3>1. Continue(t, <<>>) /\ held' = HeldBy(This(t)) /\ This(t).op \in {"incr", "try"}
      BY <1>9, <2>3 DEF Read, FailsAt, Latches
    <3> QED BY <1>1, <2>1, <3>1, HandsSlots
  <2>4. CASE ~ FailsAt(t) /\ ~ Latches(t)
    <3>1. call' = [call EXCEPT ![t][1].old = mem[This(t).on].word] /\ held' = held
      BY <1>9, <2>4 DEF Read, FailsAt, Latches
    <3>2. mem[This(t).on].word \in Word
      BY <2>1, LoopOn
    <3>3. Readable(This(t), mem[This(t).on].word)
      BY <2>1, <2>4, <3>2 DEF FailsAt, Latches, Readable
    <3> QED BY <1>7, <2>1, <3>1, <3>3
  <2> QED BY <2>2, <2>3, <2>4
<1>10. CASE SwapIncrement(t)
  <2>1. /\ call[t] # <<>> /\ This(t).op \in {"incr", "try"}
        /\ Continue(t, <<>>) /\ held' = HeldBy(This(t))
    BY <1>10 DEF SwapIncrement, At, This
  <2> QED BY <1>1, <2>1, HandsSlots
<1>11. CASE SwapDecrement(t)
  <2>1. Loop(t) /\ held' = held /\ call[t] # <<>>
    BY <1>11 DEF SwapDecrement, Loop, At
  <2>2. PICK h \in Heap : h = This(t).on /\ mem[h] \in HeapObject
    BY <2>1, LoopOn
  <2>3. \/ Continue(t, <<>>)
        \/ Continue(t, Disposes(h) \o <<Op("free", h, NULL)>>)
    BY <1>11, <2>2 DEF SwapDecrement
  <2>4. PICK d, ops : d = Disposes(h) /\ ops = d \o <<Op("free", h, NULL)>>
    OBVIOUS
  <2>5. Ends(ops, h, d)
    BY <2>4 DEF Ends, Disposes
  <2>6. Follows(ops) /\ \A o \in Elems(ops) : o.op \in {"decr", "free"} /\ o \in FirstOp
    <3>1. Follows(ops) /\ \A o \in Elems(ops) : o.op \in {"decr", "free"}
      BY <2>2, <2>5, DisposesFollow
    <3>2. \A o \in Elems(ops) : o \in FirstOp
      <4>1. ops \in Seq(FirstOp)
        BY <3>1 DEF Follows
      <4> QED BY <4>1, ElementOfSeq DEF Elems
    <3> QED BY <3>1, <3>2
  <2>7. \A o \in Elems(ops) : o.to \notin Trampoline
    BY <2>6, OpFacts, SlotApart
  <2>8. CASE Continue(t, <<>>)
    BY <1>1, <1>2, <2>1, <2>8, GoesSlots
  <2>9. CASE Continue(t, ops)
    BY <1>1, <2>1, <2>6, <2>7, <2>9, GoesSlots
  <2> QED BY <2>3, <2>4, <2>8, <2>9
<1> QED BY <1>3, <1>4, <1>5, <1>6, <1>8, <1>9, <1>10, <1>11 DEF Step

\* The calls of a client are for no slot.
LEMMA ClientSlots ==
  ASSUME NoWeakLoad, BlocksIInv, SlotsOK, NEW t \in Thread, Client(t), Paged
  PROVE  SlotsOK'
<1>1. CallsOK /\ held \in HeldType /\ t \in Holder /\ t \notin Trampoline
  BY CountingOK, SlotApart, BlocksAssumption DEF BlocksIInv, Counting
<1>2. ASSUME call' = call, \A s \in Trampoline : held'[s] = held[s] PROVE SlotsOK'
  <2>1. \A u \in Thread : Ops(u)' = Ops(u)
    BY <1>2 DEF Ops
  <2>2. Onward(t, {o.to : o \in Ops(t)})
    BY <2>1 DEF Onward, Single, SlotsOK
  <2> QED BY <1>2, <2>2, QuietSlots DEF Paged
<1>3. ASSUME NEW op \in {"incr", "try", "decr"}, NEW h \in Heap, NEW to \in {t, NULL},
             op = "decr" => to = NULL, op # "decr" => to = t,
             call[t] = <<>>, call' = [call EXCEPT ![t] = <<Op(op, h, to)>>],
             \A s \in Trampoline : held'[s] = held[s]
      PROVE  SlotsOK'
  <2>1. PICK o : o = Op(op, h, to)
    OBVIOUS
  <2>2. o \in FirstOp /\ o.to = to /\ o.op = op
    BY <1>1, <1>3, <2>1 DEF Op, FirstOp, LaterOp
  <2>3. CallOK(<<o>>) /\ Elems(<<o>>) = {o}
    BY <2>2, OneFollows
  <2>4. \A q \in Elems(<<o>>) : q.to \notin Trampoline
    BY <1>1, <2>2, <2>3, SlotApart
  <2>5. call' = [call EXCEPT ![t] = <<o>>]
    BY <1>3, <2>1
  <2> QED BY <1>1, <1>3, <2>3, <2>4, <2>5, BeginsSlots
<1>4. CASE EnterFrame(t)
  BY <1>2, <1>4 DEF EnterFrame
<1>5. CASE LeaveFrame(t)
  <2>1. /\ call[t] = <<>> /\ held' = held /\ forwarding[t] # "out"
        /\ call' = call \/ (forwarding[t] # "stack"
                            /\ call' = [call EXCEPT ![t] = <<Op("decr", forwarding[t], NULL)>>])
    BY <1>5 DEF LeaveFrame
  <2>2. CASE call' = call
    BY <1>2, <2>1, <2>2
  <2>3. CASE forwarding[t] # "stack" /\ call' = [call EXCEPT ![t] = <<Op("decr", forwarding[t], NULL)>>]
    <3>1. forwarding[t] \in Heap
      BY <2>1, <2>3, FrameNames
    <3> QED BY <1>3, <2>1, <2>3, <3>1
  <2> QED BY <2>1, <2>2, <2>3
<1>6. ASSUME NEW l \in Lit, CopyLiteral(t, t, l) PROVE SlotsOK'
  <2>1. call[t] = <<>> /\ held' = held
    BY <1>6 DEF CopyLiteral, Begin
  <2>2. PICK h, ops : h \in Heap /\ Copies(ops, h, l, t) /\ call' = [call EXCEPT ![t] = ops]
    BY <1>6 DEF CopyLiteral, Copies, Allocated
  <2>3. CallOK(ops) /\ \A o \in Elems(ops) : /\ o.op \in {"assign", "return"}
                                             /\ o.op = "assign" => o.to = h
                                             /\ o.op = "return" => o = Op("return", h, t)
    BY <1>1, <2>2, CopyBegins
  <2>4. Op("return", h, t).to = t
    BY DEF Op
  <2>5. \A o \in Elems(ops) : o.to \notin Trampoline
    BY <1>1, <2>2, <2>3, <2>4, SlotApart
  <2> QED BY <1>1, <2>1, <2>2, <2>3, <2>5, BeginsSlots
<1>7. ASSUME NEW h \in Heap, CopyBlock(t, t, h) PROVE SlotsOK'
  <2>1. call[t] = <<>> /\ held' = held /\ call' = [call EXCEPT ![t] = <<Op("incr", h, t)>>]
    BY <1>7 DEF CopyBlock, Begin
  <2> QED BY <1>3, <2>1
<1>8. ASSUME NEW h \in Heap, TakeReference(t, h) PROVE SlotsOK'
  <2>1. call[t] = <<>> /\ held' = held /\ call' = [call EXCEPT ![t] = <<Op("try", h, t)>>]
    BY <1>8 DEF TakeReference, NoWeakLoad, _Block_tryRetain, Begin
  <2> QED BY <1>3, <2>1
<1>9. ASSUME NEW h \in Heap, ReleaseBlock(t, h) PROVE SlotsOK'
  <2>1. /\ call[t] = <<>> /\ call' = [call EXCEPT ![t] = <<Op("decr", h, NULL)>>]
        /\ held' = [held EXCEPT ![t][h] = @ - 1]
    BY <1>9 DEF ReleaseBlock
  <2>2. \A s \in Trampoline : held'[s] = held[s]
    BY <1>1, <2>1, SlotApart DEF HeldType
  <2> QED BY <1>3, <2>1, <2>2
<1>10. ASSUME NEW h \in Heap, NEW u \in Thread, Give(t, u, h) PROVE SlotsOK'
  <2>1. call' = call /\ t # u /\ held[t][h] > 0 /\ Moves(t, u, h) /\ u \in Holder
    BY <1>10, BlocksAssumption DEF Give, Moves
  <2>2. \A q \in Holder \ {t, u} : held'[q] = held[q]
    BY <1>1, <2>1, MovesOne
  <2>3. \A s \in Trampoline : held'[s] = held[s]
    BY <2>2, SlotApart
  <2> QED BY <1>2, <2>1, <2>3
<1> QED BY <1>4, <1>5, <1>6, <1>7, <1>8, <1>9, <1>10 DEF Client

\* The slot that is given out was free.
LEMMA NextSlot ==
  ASSUME buffers \in Nat, offset \in Nat, NEW s \in Trampoline, alloc_buffer(s)
  PROVE  /\ s \notin Used /\ s \in Used' /\ Used \subseteq Used'
         /\ buffers' \in Nat /\ offset' \in Nat
<1>1. PICK b \in 1 .. Pages, n \in 0 .. PAGE_SIZE - 1 : s = <<b, n>> /\ s[1] = b /\ s[2] = n
  BY DEF Trampoline
<1>2. PAGE_SIZE \in Nat \ {0} /\ Pages \in Nat
  BY TrampolinesAssumption
<1>3. /\ buffers' = b /\ offset' = n + 1
      /\ IF NeedsPage THEN b = buffers + 1 /\ n = 0 ELSE b = buffers /\ n = offset
  BY <1>1 DEF alloc_buffer, Advanced
<1>4. ASSUME NEW r \in Trampoline PROVE r[1] \in Nat /\ r[2] \in Nat
  BY <1>2 DEF Trampoline
<1>5. b \in Nat /\ n \in Nat
  BY <1>1, <1>2
<1>6. s \notin Used
  BY <1>1, <1>3, <1>5 DEF Used
<1>7. s \in Used'
  BY <1>1, <1>3, <1>5 DEF Used
<1>8. Used \subseteq Used'
  BY <1>3, <1>4, <1>5 DEF Used
<1> QED BY <1>3, <1>5, <1>6, <1>7, <1>8

\* imp_implementationWithBlock gives a slot out and makes one block for it.
LEMMA ImplementationSlots ==
  ASSUME BlocksIInv, SlotsOK, NEW t \in Thread, imp_implementationWithBlock(t)
  PROVE  SlotsOK'
<1>1. CallsOK
  BY CountingOK DEF BlocksIInv, Counting
<1>2. PICK s \in Trampoline : /\ alloc_buffer(s)
                              /\ \/ \E l \in Lit : CopyLiteral(t, s, l)
                                 \/ \E h \in Heap : CopyBlock(t, s, h)
  BY DEF imp_implementationWithBlock
<1>3. call[t] = <<>> /\ held' = held /\ s \in Holder /\ \A h \in Heap : h \notin Trampoline
  BY <1>2, SlotApart DEF CopyLiteral, CopyBlock, Begin
<1>4. /\ s \notin Used /\ s \in Used' /\ Used \subseteq Used'
      /\ buffers' \in Nat /\ offset' \in Nat
  BY <1>2, NextSlot DEF SlotsOK
<1>5. ASSUME NEW ops, CallOK(ops), call' = [call EXCEPT ![t] = ops], NEW m, m.to = s,
             \A o \in Elems(ops) : o = m \/ o.to \in Heap
      PROVE  SlotsOK'
  <2>1. /\ \A u \in Thread \ {t} : Ops(u)' = Ops(u)
        /\ Ops(t) = {} /\ Ops(t)' = Elems(ops)
    BY <1>1, <1>3, <1>5, Begins1
  <2>2. \A o \in Ops(t)' : o.to \in Trampoline => o = m
    BY <1>3, <1>5, <2>1
  <2>3. Single(t)'
    BY <2>2 DEF Single
  <2>4. Onward(t, {s})
    BY <1>5, <2>1, <2>2, <2>3 DEF Onward
  <2> QED BY <1>3, <1>4, <2>1, <2>4, FreshSlots
<1>6. ASSUME NEW l \in Lit, CopyLiteral(t, s, l) PROVE SlotsOK'
  <2>1. PICK h, ops : h \in Heap /\ Copies(ops, h, l, s) /\ call' = [call EXCEPT ![t] = ops]
    BY <1>6 DEF CopyLiteral, Copies, Allocated
  <2>2. CallOK(ops) /\ \A o \in Elems(ops) : /\ o.op \in {"assign", "return"}
                                             /\ o.op = "assign" => o.to = h
                                             /\ o.op = "return" => o = Op("return", h, s)
    BY <1>3, <2>1, CopyBegins
  <2>3. Op("return", h, s).to = s
    BY DEF Op
  <2>4. PICK m : m = Op("return", h, s) /\ m.to = s
    BY <2>3
  <2>5. \A o \in Elems(ops) : o = m \/ o.to \in Heap
    BY <2>1, <2>2, <2>4
  <2> QED BY <1>5, <2>1, <2>2, <2>4, <2>5
<1>7. ASSUME NEW h \in Heap, CopyBlock(t, s, h) PROVE SlotsOK'
  <2>1. call' = [call EXCEPT ![t] = <<Op("incr", h, s)>>]
    BY <1>7 DEF CopyBlock
  <2>2. PICK m : m = Op("incr", h, s)
    OBVIOUS
  <2>3. m \in FirstOp /\ m.to = s /\ m.op = "incr"
    BY <1>3, <2>2, IncrOp
  <2>4. CallOK(<<m>>) /\ Elems(<<m>>) = {m}
    BY <2>3, OneFollows
  <2>5. call' = [call EXCEPT ![t] = <<m>>]
    BY <2>1, <2>2
  <2> QED BY <1>5, <2>3, <2>4, <2>5
<1> QED BY <1>2, <1>6, <1>7

\* At first no slot is given out.
LEMMA SlotsInit == TInit => SlotsOK
<1> SUFFICES ASSUME TInit PROVE SlotsOK
  OBVIOUS
<1>1. \A t \in Thread : Ops(t) = {}
  <2>1. \A t \in Thread : call[t] = <<>> /\ Ops(t) = Elems(call[t])
    BY DEF TInit, BlocksInit, Ops, Elems
  <2> QED BY <2>1, NoneFollow
<1>2. \A s \in Trampoline : InSlot(s) = {}
  <2>1. \A s \in Trampoline : \A h \in Heap : held[s][h] = 0
    BY SlotApart DEF TInit, BlocksInit
  <2> QED BY <2>1 DEF InSlot
<1> QED BY <1>1, <1>2 DEF SlotsOK, SlotOK, Single, For, TInit

\* Every step keeps slots apart.
LEMMA SlotsNext ==
  ASSUME BlocksIInv, SlotsOK, [TNext]_<<blockVars, trampolines>>, [NoWeakLoad]_blockVars
  PROVE  SlotsOK'
<1>1. ASSUME UNCHANGED <<call, held>>, Paged PROVE SlotsOK'
  <2>1. \A t \in Thread : Ops(t)' = Ops(t)
    BY <1>1 DEF Ops
  <2>2. Used' = Used /\ \A s \in Trampoline : InSlot(s)' = InSlot(s)
    BY <1>1 DEF Used, InSlot, Paged
  <2>3. \A t \in Thread : Single(t)' /\ \A s \in Trampoline : For(t, s)' <=> For(t, s)
    BY <2>1 DEF SlotsOK, Single, For
  <2>4. ASSUME NEW s \in Trampoline PROVE SlotOK(s)'
    <3>1. SlotOK(s) /\ InSlot(s)' = InSlot(s)
      BY <2>2 DEF SlotsOK
    <3> QED BY <1>1, <2>2, <2>3, <3>1 DEF SlotOK
  <2> QED BY <1>1, <2>3, <2>4 DEF SlotsOK, Paged
<1>2. CASE UNCHANGED <<blockVars, trampolines>>
  BY <1>1, <1>2 DEF blockVars, trampolines, Paged
<1>3. CASE BlocksNext /\ NoWeakLoad /\ UNCHANGED trampolines
  <2>1. Paged
    BY <1>3 DEF trampolines, Paged
  <2> QED BY <1>3, <2>1, StepSlots, ClientSlots DEF BlocksNext
<1>4. ASSUME NEW t \in Thread, imp_implementationWithBlock(t) PROVE SlotsOK'
  BY <1>4, ImplementationSlots
<1>5. ASSUME NEW t \in Thread, massive_failure_imp(t) PROVE SlotsOK'
  BY <1>1, <1>5 DEF massive_failure_imp, trampolines, Paged
<1>6. ASSUME NEW t \in Thread, NEW s \in Trampoline, imp_removeBlock(t, s) PROVE SlotsOK'
  BY <1>1, <1>6 DEF imp_removeBlock, blockVars, Paged
<1>7. CASE UNCHANGED blockVars /\ UNCHANGED trampolines
  BY <1>2, <1>7
<1> QED BY <1>2, <1>3, <1>4, <1>5, <1>6, <1>7 DEF TNext

\* A slot has its own block, which is alive while the slot holds it.
LEMMA OneBlockIn == BlocksIInv /\ SlotsOK => OneBlockEach
<1> SUFFICES ASSUME BlocksIInv, SlotsOK PROVE OneBlockEach
  OBVIOUS
<1>1. ASSUME NEW s \in Trampoline, NEW h \in InSlot(s) PROVE h \in Live
  <2>1. s \in Holder /\ h \in Heap /\ held[s][h] > 0
    BY SlotApart DEF InSlot
  <2> QED BY <2>1 DEF BlocksIInv, KindsOK, IsBlock, Live
<1> QED BY <1>1 DEF SlotsOK, SlotOK, OneBlockEach

\* imp_implementationWithBlock gives a slot out once, for one block, which its
\* trampoline finds alive: for any page size, any number of pages and any threads
\* that load no block from a weak variable.
THEOREM OneBlockStays == TSpec /\ [][NoWeakLoad]_blockVars => []OneBlockEach
<1>1. TInit => SlotsOK
  BY SlotsInit
<1>2. BlocksIInv /\ SlotsOK /\ [TNext]_<<blockVars, trampolines>> /\ [NoWeakLoad]_blockVars
        => SlotsOK'
  BY SlotsNext
<1>3. TSpec /\ [][NoWeakLoad]_blockVars => []SlotsOK
  BY <1>1, <1>2, BlocksInvariant, PTL DEF TSpec
<1> QED BY <1>3, BlocksInvariant, OneBlockIn, PTL

=============================================================================
