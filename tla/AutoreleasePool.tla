--------------------------- MODULE AutoreleasePool ---------------------------
(***************************************************************************)
(* The autorelease pool of one thread: class AutoreleasePoolPage of        *)
(* NSObject.mm.  The pool is a stack of objects and pool boundaries kept   *)
(* in a list of fixed-size pages; thread-local storage points to the hot   *)
(* page.  Popping releases objects one by one, and each release may run    *)
(* -dealloc code that autoreleases more objects, pushes and pops pools of  *)
(* its own, or returns with pools it never popped.                         *)
(*                                                                         *)
(* A pool token is the address of its boundary: here the page's number and *)
(* the position in the page.                                               *)
(***************************************************************************)
EXTENDS Integers, Sequences, SequencesExt

CONSTANTS
    Obj,            \* the objects that are autoreleased
    POOL_SENTINEL,  \* a pool boundary
    None,           \* no object
    PageSize,       \* entries per page: end() - begin()
    MaxDepth,       \* bound: pops in progress inside one another
    MaxCalls        \* bound: autoreleases and pushes

ASSUME PoolAssumption ==
    /\ POOL_SENTINEL \notin Obj /\ None \notin Obj
    /\ PageSize \in Nat \ {0}
    /\ MaxDepth \in Nat /\ MaxCalls \in Nat

VARIABLES
    pages,      \* the contents of each page, the coldest first
    hot,        \* the number of the hot page; 0: the thread has no pool
    pops,       \* the calls of pop() in progress, the outermost first
    tokens,     \* the tokens held by the code at each level of pops
    leaked,     \* objects autoreleased with no pool in place
    calls,      \* autoreleases and pushes so far
    exited      \* the thread's exit has begun

vars == <<pages, hot, pops, tokens, leaked, calls, exited>>

Entry == Obj \cup {POOL_SENTINEL}

Init ==
    /\ pages = <<>>
    /\ hot = 0
    /\ pops = <<>>
    /\ tokens = << <<>> >>
    /\ leaked = {}
    /\ calls = 0
    /\ exited = FALSE

\* The thread runs code outside the pool: its own, or that of an object which
\* the innermost pop is releasing.
Running == IF pops = <<>> THEN ~ exited ELSE Last(pops).releasing # None

full(p) == Len(p) = PageSize
empty(p) == p = <<>>

lessThanHalfFull(p) == Len(p) < PageSize \div 2

\* Mutant: a full page always gets a new page, past a child it may already have.
AlwaysNewPage == IF ~ full(pages[hot]) THEN hot ELSE Len(pages) + 1

\* The page an entry goes to: the hot one, or when it is full the next one that
\* is not, allocated if there is none.
PageFor ==
    IF ~ full(pages[hot]) THEN hot
    ELSE CHOOSE i \in hot + 1 .. Len(pages) + 1 :
            /\ i = Len(pages) + 1 \/ ~ full(pages[i])
            /\ \A j \in hot + 1 .. i - 1 : full(pages[j])

\* autoreleaseFast and autoreleaseSlow: add x and make its page the hot one.
Add(x) ==
    /\ hot' = PageFor
    /\ pages' = IF PageFor > Len(pages) THEN Append(pages, <<x>>)
                ELSE [pages EXCEPT ![PageFor] = Append(@, x)]

autorelease(o) ==
    /\ Running /\ calls < MaxCalls
    /\ calls' = calls + 1
    /\ IF hot = 0 THEN leaked' = leaked \cup {o} /\ UNCHANGED <<pages, hot>>
       ELSE Add(o) /\ UNCHANGED leaked
    /\ UNCHANGED <<pops, tokens, exited>>

\* Mutant: add() returns next, not next - 1.
TokenPastEnd == <<hot', Len(pages'[hot']) + 1>>

\* The address of the entry just added.
NewToken == <<hot', Len(pages'[hot'])>>

\* The caller keeps the address of the new boundary.
push ==
    /\ Running /\ calls < MaxCalls
    /\ calls' = calls + 1
    /\ IF hot = 0 THEN pages' = << <<POOL_SENTINEL>> >> /\ hot' = 1
       ELSE Add(POOL_SENTINEL)
    /\ tokens' = [tokens EXCEPT ![Len(tokens)] = Append(@, NewToken)]
    /\ UNCHANGED <<pops, leaked, exited>>

\* pop(token) is called with a token of the running code, not necessarily the
\* last one; the pools inside it go with it.
pop(k) ==
    LET mine == Last(tokens) IN
    /\ Running /\ Len(pops) < MaxDepth
    /\ k \in DOMAIN mine
    /\ pops' = Append(pops, [page |-> mine[k][1], stop |-> mine[k][2],
                             top |-> FALSE, releasing |-> None])
    /\ tokens' = Append([tokens EXCEPT ![Len(tokens)] = SubSeq(mine, 1, k - 1)], <<>>)
    /\ UNCHANGED <<pages, hot, leaked, calls, exited>>

\* tls_dealloc: the thread's exit pops everything, token 0, from the cold page.
tls_dealloc ==
    /\ pops = <<>> /\ ~ exited
    /\ exited' = TRUE
    /\ IF hot = 0 THEN UNCHANGED <<pops, tokens>>
       ELSE /\ pops' = << [page |-> 1, stop |-> 1, top |-> TRUE, releasing |-> None] >>
            /\ tokens' = << <<>>, <<>> >>
    /\ UNCHANGED <<pages, hot, leaked, calls>>

Popping == pops # <<>> /\ Last(pops).releasing = None

\* Mutant: the loop stops at the boundary and leaves it on the stack.
ReachedBoundary(p) == Len(pages[p.page]) = p.stop

\* next == stop: the boundary itself has been taken off.
Reached(p) == Len(pages[p.page]) = p.stop - 1

\* The hottest page that is not empty: releaseUntil walks to the parent while
\* the hot page is empty.
HotNonEmpty == CHOOSE i \in 1 .. hot : ~ empty(pages[i])
                                       /\ \A j \in i + 1 .. hot : empty(pages[j])

\* One turn of releaseUntil: the last entry is taken off, and released unless it
\* is a boundary.  The turn starts from the hot page, wherever the previous
\* release left it.
releaseOne ==
    LET x == Last(pages[HotNonEmpty]) IN
    /\ Popping /\ ~ Reached(Last(pops))
    /\ hot' = HotNonEmpty
    /\ pages' = [pages EXCEPT ![HotNonEmpty] = Front(@)]
    /\ pops' = IF x = POOL_SENTINEL THEN pops
               ELSE [pops EXCEPT ![Len(pops)].releasing = x]
    /\ UNCHANGED <<tokens, leaked, calls, exited>>

\* -release returns; whatever tokens its code still had are gone with it.
released ==
    /\ pops # <<>> /\ Last(pops).releasing # None
    /\ pops' = [pops EXCEPT ![Len(pops)].releasing = None]
    /\ tokens' = [tokens EXCEPT ![Len(tokens)] = <<>>]
    /\ UNCHANGED <<pages, hot, leaked, calls, exited>>

\* Mutant: no page is ever deleted.
KeepAll(n) == Len(pages)

\* The pages that survive a pop whose boundary was on page n: all that are not
\* hotter, and one empty child if page n is at least half full.
Kept(n) == IF lessThanHalfFull(pages[n]) \/ n = Len(pages) THEN n ELSE n + 1

\* The end of pop(): the boundary's page becomes hot and surplus children are
\* deleted; token 0 deletes every page.
popDone ==
    LET p == Last(pops) IN
    /\ Popping /\ Reached(p)
    /\ IF p.top THEN pages' = <<>> /\ hot' = 0
       ELSE pages' = SubSeq(pages, 1, Kept(p.page)) /\ hot' = p.page
    /\ pops' = Front(pops)
    /\ tokens' = Front(tokens)
    /\ UNCHANGED <<leaked, calls, exited>>

\* The thread is gone, or its calls are used up with no pop in progress.
Done == pops = <<>> /\ (exited \/ calls = MaxCalls) /\ UNCHANGED vars

Next ==
    \/ \E o \in Obj : autorelease(o)
    \/ push
    \/ \E k \in 1 .. MaxCalls : pop(k)
    \/ tls_dealloc
    \/ releaseOne
    \/ released
    \/ popDone
    \/ Done

Spec == Init /\ [][Next]_vars

-----------------------------------------------------------------------------
Pop == [page : Nat \ {0}, stop : Nat \ {0}, top : BOOLEAN, releasing : Obj \cup {None}]

TypeOK ==
    /\ pages \in Seq(Seq(Entry))
    /\ hot \in 0 .. Len(pages)
    /\ pops \in Seq(Pop)
    /\ tokens \in Seq(Seq((Nat \ {0}) \X (Nat \ {0})))
    /\ leaked \subseteq Obj
    /\ calls \in Nat
    /\ exited \in BOOLEAN

\* The pages colder than the hot one are full and the hotter ones empty,
\* whatever the released objects did to the pool in between.
HotPageSplits ==
    /\ (hot = 0) <=> (pages = <<>>)
    /\ \A i \in DOMAIN pages : /\ i < hot => full(pages[i])
                               /\ i > hot => empty(pages[i])

\* "fixme I think this `while` can be `if`, but I can't prove it": an empty hot
\* page's parent is never empty, so releaseUntil walks up one page at most and
\* never off the cold end.
WhileCanBeIf ==
    Popping /\ ~ Reached(Last(pops)) =>
        ~ empty(pages[hot]) \/ (hot > 1 /\ ~ empty(pages[hot - 1]))

\* The address of a boundary, on a page in use.
IsBoundary(n, k) ==
    n \in 1 .. hot /\ k \in 1 .. Len(pages[n]) /\ pages[n][k] = POOL_SENTINEL

\* Every token the running code or its callers hold is the address of a boundary,
\* and so is what every pop in progress was called with, until it reaches it,
\* whatever the code it runs pushes and pops; a pop of everything, token 0, is
\* given none.
TokensValid ==
    /\ \A i \in DOMAIN tokens : \A k \in DOMAIN tokens[i] :
         IsBoundary(tokens[i][k][1], tokens[i][k][2])
    /\ \A i \in DOMAIN pops :
         pops[i].top \/ Reached(pops[i]) \/ IsBoundary(pops[i].page, pops[i].stop)

\* When no pop is in progress at most one page is kept empty beyond the hot one,
\* however high the pool once was.
OneSparePage == pops = <<>> => Len(pages) <= hot + 1

-----------------------------------------------------------------------------
(* The stack this implements.                                                *)

\* How many entries are colder than position i of page n.
Height(n, i) == Len(FlattenSeq(SubSeq(pages, 1, n - 1))) + i

Stack == INSTANCE PoolStack WITH
    stack <- FlattenSeq(pages),
    stops <- [i \in DOMAIN pops |-> Height(pops[i].page, pops[i].stop)]

\* The list of pages is one stack, and a pop takes off its top exactly down to
\* the boundary it was called with.
ImplementsStack == Stack!Spec

\* The page list is well formed, full pages, then the hot one, then empty pages,
\* and no call leaves more than a page to spare.
PagesConsistent == TypeOK /\ HotPageSplits /\ OneSparePage
=============================================================================
