--------------------------- MODULE MethodCacheProofs ---------------------------
(***************************************************************************)
(* What is proved of method lookup and the method caches, for any number   *)
(* of threads, classes, selectors and changes.                             *)
(*                                                                         *)
(* The inductive invariant has three parts, each proved from those before  *)
(* it.  Control says what a thread's locals are, and which locks it has,   *)
(* at each place it can be.  MemoryOK says where each block of memory is,  *)
(* and what a reader may hold: a cache that is in use or that waits among  *)
(* the garbage, as long as no collector has passed the reader by.          *)
(* MethodsOK says which method lists each cache entry and each answer      *)
(* under way agree with: while a change is flushed, the old or the new.    *)
(*                                                                         *)
(* XIs says what action X does, XMemory that it keeps MemoryOK and         *)
(* XMethods that it keeps MethodsOK.                                       *)
(***************************************************************************)
EXTENDS MethodCache, FoldLemmas

Labels == {"idle", "bucket", "entry", "read", "unlock", "lists", "resolve", "forward",
           "fill", "insert", "scan", "write", "flush", "empty", "collect"}
Reading == {"bucket", "entry"}
Callers == {"objc_msgSend", "_cache_getImp", "_cache_getMethod"}

Method == {MethodOf(c, s, v) : c \in CachedClass, s \in Sel, v \in Nat}
Forward == {ForwardIn(b) : b \in Block}
Entry == {Empty} \cup Method \cup Forward

Local == [pc : Labels, cls : CachedClass \cup {NULL}, sel : Sel \cup {NULL},
          in : Callers \cup {"addMethod", "remethodizeClass", "flush_caches"},
          cur : CachedClass \cup {NULL}, cache : Block \cup {_objc_empty_cache}, index : Nat,
          entry : Entry, tried : BOOLEAN, flush : SUBSET CachedClass,
          seen : SUBSET (Thread \cup Sel), alot : BOOLEAN,
          back : {"idle", "read", "collect"},
          valid : SUBSET Entry, answer : Entry]

CacheRecord == [kind : {"cache"}, occupied : Nat,
                buckets : UNION {[0 .. n - 1 -> Entry] : n \in Nat \ {0}}]
HeapValue == {Free} \cup {ForwardEntry(s) : s \in Sel} \cup CacheRecord

MemoryShape ==
    /\ cache \in [CachedClass -> Block \cup {_objc_empty_cache}]
    /\ heap \in [Block \cup {_objc_empty_cache} -> HeapValue]
    /\ heap[_objc_empty_cache] = CacheBlock(1)
    /\ garbage_refs \in Seq(Block) /\ garbage_byte_size \in Nat

ListShape ==
    /\ methods \in [CachedClass -> [Sel -> Nat]] /\ was \in [CachedClass -> [Sel -> Nat]]
    /\ initialized \subseteq CachedClass
    /\ calls \in 0 .. Calls /\ changes \in 0 .. Changes

LockShape ==
    /\ writer \in Thread \cup {NULL} /\ readers \subseteq Thread
    /\ cacheUpdateLock \in Thread \cup {NULL}
    /\ writer # NULL => readers = {}

\* What a thread's variables are, me, follows from where it is.
Expanding(me) == me.pc = "insert" \/ (me.pc = "scan" /\ ~ me.alot)
Filling(me) == me.pc = "fill" \/ Expanding(me)

Placed(me) ==
    /\ me.cls # NULL => me.sel \in Sel
    /\ me.pc \in {"bucket", "entry", "read", "lists", "resolve", "forward", "write"}
         \/ Filling(me) => me.cls \in CachedClass
    /\ me.pc \in {"bucket", "entry", "lists"} => me.cur \in CachedClass
    /\ me.pc \in {"write", "flush", "empty"} /\ me.back = "read" => me.cls \in CachedClass
    /\ me.pc \in Reading => me.in \in Callers /\ (me.in # "_cache_getMethod" => me.cur = me.cls)
    /\ me.pc = "entry" \/ Filling(me) => me.entry # Empty
    /\ me.pc \in {"resolve", "write", "flush", "empty", "collect"} \/ me.alot => me.entry = Empty
    /\ me.alot => me.pc = "scan"
    /\ me.pc = "scan" => me.seen \subseteq Thread

\* Which locks it has follows from it as well.
LooksUp(me) ==
    \/ me.pc \in {"unlock", "lists", "resolve", "forward"} \/ Filling(me)
    \/ me.pc \in Reading /\ me.in # "objc_msgSend"

LocksAt(t) ==
    /\ t \in readers <=> LooksUp(th[t])
    /\ writer = t <=> th[t].pc \in {"flush", "empty"}
    /\ cacheUpdateLock = t <=> th[t].pc \in {"scan", "insert", "empty"}

Shape == MemoryShape /\ ListShape /\ LockShape /\ th \in [Thread -> Local]
Control == Shape /\ \A t \in Thread : Placed(th[t]) /\ LocksAt(t)

-----------------------------------------------------------------------------
(* Memory.                                                                     *)

Size(b) == Mask(heap, b) + 1
Used(b) == {i \in DOMAIN heap[b].buckets : heap[b].buckets[i] # Empty}

\* A block is free, a cache in use or outgrown, or a forward entry: in a cache, about
\* to be added, or dropped.
IsFree(b) == heap[b] = Free /\ Caching(b) = {} /\ Holding(b) = {} /\ Adding(b) = {} /\ Garbage(b) = {}
IsCache(b) == heap[b].kind = "cache" /\ Holding(b) = {} /\ Adding(b) = {}
InUse(b) == IsCache(b) /\ (\E c \in CachedClass : Caching(b) = {c}) /\ Garbage(b) = {}
Outgrown(b) == IsCache(b) /\ Caching(b) = {} /\ \E j \in DOMAIN garbage_refs : Garbage(b) = {j}
IsForwarder(b) == heap[b].kind = "forward" /\ Caching(b) = {}
Held(b) == IsForwarder(b) /\ (\E x \in CachedClass \X Nat : Holding(b) = {x}) /\ Adding(b) = {} /\ Garbage(b) = {}
Added(b) == IsForwarder(b) /\ Holding(b) = {} /\ (\E t \in Thread : Adding(b) = {t}) /\ Garbage(b) = {}
Dropped(b) == IsForwarder(b) /\ Holding(b) = {} /\ Adding(b) = {}
              /\ \E j \in DOMAIN garbage_refs : Garbage(b) = {j}

PlaceOf(b) == IsFree(b) \/ InUse(b) \/ Outgrown(b) \/ Held(b) \/ Added(b) \/ Dropped(b)

\* The forward entries of an outgrown cache have gone with it.
OutgrownOK(b) ==
    Outgrown(b) => \A i \in DOMAIN heap[b].buckets :
        IsForward(heap[b].buckets[i]) => Dropped(heap[b].buckets[i][2])

Emptying(b) == \E t \in Thread : th[t].pc = "empty" /\ th[t].cache = b

\* A cache has room left, and its count is right unless it is being emptied.
CountOK(b) ==
    heap[b].kind = "cache" =>
        /\ Used(b) # DOMAIN heap[b].buckets
        /\ Emptying(b) \/ heap[b].occupied = Cardinality(Used(b))

\* A reader's cache and entry are there; they are garbage, or in use.
ReaderIs(me) ==
    /\ me.pc \in Reading =>
         /\ heap[me.cache].kind = "cache"
         /\ me.cache \in Block => me.cache = cache[me.cur] \/ Outgrown(me.cache)
    /\ me.pc = "entry" /\ IsForward(me.entry) => Held(me.entry[2]) \/ Dropped(me.entry[2])

\* A reader that the collector has looked at uses no garbage.
NoGarbage(me) ==
    /\ me.pc \in Reading => me.cache \notin ToSet(garbage_refs)
    /\ me.pc = "entry" /\ IsForward(me.entry) => me.entry[2] \notin ToSet(garbage_refs)

SeenOK(t) == th[t].pc = "scan" => \A u \in th[t].seen : NoGarbage(th[u])

\* A flush has emptied the buckets before its index.
EmptyingIs(me) ==
    me.pc = "empty" =>
        /\ me.cache \in Block /\ Caching(me.cache) # {}
        /\ me.index <= Mask(heap, me.cache)
        /\ \A i \in 0 .. me.index - 1 : heap[me.cache].buckets[i] = Empty

\* An expanded cache is empty.
ExpandedIs(me) ==
    Expanding(me) =>
        /\ cache[me.cls] \in Block /\ heap[cache[me.cls]].occupied = 0
        /\ Used(cache[me.cls]) = {} /\ Size(cache[me.cls]) > 1

ThreadOK(t) == ReaderIs(th[t]) /\ SeenOK(t) /\ EmptyingIs(th[t]) /\ ExpandedIs(th[t])

MemoryOK ==
    /\ \A b \in Block : PlaceOf(b) /\ OutgrownOK(b) /\ CountOK(b)
    /\ \A t \in Thread : ThreadOK(t)

-----------------------------------------------------------------------------
(* Methods.                                                                    *)

\* The entries of the cache in block b, and the selector an entry is for, with memory h
EntriesOf(h, b) == {h[b].buckets[i] : i \in DOMAIN h[b].buckets} \ {Empty}
NameIn(h, e) == IF IsForward(e) THEN h[e[2]].sel ELSE e[3]

\* The class's cache is yet to be flushed.
Pending(c) ==
    \E t \in Thread :
        \/ th[t].pc \in {"flush", "empty"} /\ c \in th[t].flush
        \/ th[t].pc = "empty" /\ th[t].cache = cache[c]

\* The entry is what the lists m give class c.
Agrees(h, m, c, e) == Imp(e) = Resolve(m, c, NameIn(h, e))

CacheAgrees(c) ==
    \A e \in EntriesOf(heap, cache[c]) :
        /\ Agrees(heap, methods, c, e) \/ Agrees(heap, was, c, e)
        /\ Pending(c) \/ Agrees(heap, methods, c, e)

\* What may answer a message now, for a thread with local variables me
MayAnswer(me, m) == IF me.in = "objc_msgSend" THEN me.valid ELSE {Resolve(m, me.cls, me.sel)}

AnswersWith(me, h, m, e) == NameIn(h, e) = me.sel => Imp(e) \in MayAnswer(me, m)

ValidOK(me, m, w) ==
    me.cls # NULL => Resolve(m, me.cls, me.sel) \in me.valid /\ Resolve(w, me.cls, me.sel) \in me.valid

\* What a thread reads, has found and adds is a right answer.
AnswerOK(me, h, m) ==
    /\ me.pc \in Reading => \A e \in EntriesOf(h, me.cache) : AnswersWith(me, h, m, e)
    /\ me.pc = "entry" => AnswersWith(me, h, m, me.entry)
    /\ me.pc = "lists" \/ (me.pc \in Reading /\ me.in # "objc_msgSend") =>
         Resolve(m, me.cur, me.sel) = Resolve(m, me.cls, me.sel)
    /\ me.pc \in {"resolve", "forward"} => Resolve(m, me.cls, me.sel) = Empty
    /\ Filling(me) => NameIn(h, me.entry) = me.sel /\ Imp(me.entry) = Resolve(m, me.cls, me.sel)
    /\ me.pc = "unlock" => me.answer \in me.valid

MethodsOK ==
    /\ writer = NULL => was = methods
    /\ \A c \in CachedClass : CacheAgrees(c)
    /\ \A t \in Thread : ValidOK(th[t], methods, was) /\ AnswerOK(th[t], heap, methods)

-----------------------------------------------------------------------------
(* Classes.                                                                    *)

\* A set that holds the superclass of each of its classes.
Closed(T) == \A d \in T : Super[d] \in T \cup {NULL}

LEMMA LineIs ==
  \A c \in CachedClass : Line[c] = {c} \cup (IF Super[c] = NULL THEN {} ELSE Line[Super[c]])
<1> DEFINE G(f) == [c \in CachedClass |-> {c} \cup (IF Super[c] = NULL THEN {} ELSE f[Super[c]])]
           Least(c) == {d \in CachedClass : \A T \in SUBSET CachedClass : c \in T /\ Closed(T) => d \in T}
           g == [c \in CachedClass |-> Least(c)]
<1>1. \A c \in CachedClass : Super[c] # NULL => Super[c] \in CachedClass
  BY MethodCacheAssumption
<1>2. g = G(g)
  <2> SUFFICES ASSUME NEW c \in CachedClass PROVE g[c] = G(g)[c]
    OBVIOUS
  <2>1. CASE Super[c] = NULL
    <3>1. {c} \in SUBSET CachedClass /\ Closed({c})
      BY <2>1 DEF Closed
    <3>2. Least(c) = {c}
      BY <3>1
    <3> QED BY <2>1, <3>2
  <2>2. CASE Super[c] # NULL
    <3>1. Least(Super[c]) \subseteq Least(c)
      BY <1>1, <2>2, MethodCacheAssumption DEF Closed
    <3>2. c \in Least(c)
      OBVIOUS
    <3> DEFINE T == {c} \cup Least(Super[c])
    <3>3. T \in SUBSET CachedClass /\ c \in T
      OBVIOUS
    <3>4. Closed(T)
      <4>1. Super[c] \in Least(Super[c])
        BY <1>1, <2>2
      <4>2. ASSUME NEW d \in Least(Super[c]), Super[d] # NULL PROVE Super[d] \in Least(Super[c])
        BY <1>1, <4>2, MethodCacheAssumption DEF Closed
      <4> QED BY <4>1, <4>2 DEF Closed
    <3>5. Least(c) \subseteq T
      <4> HIDE DEF T
      <4> QED BY <3>3, <3>4
    <3>6. Least(c) = {c} \cup Least(Super[c])
      <4> HIDE DEF Least
      <4> QED BY <3>1, <3>2, <3>5
    <3> HIDE DEF Least
    <3> QED BY <1>1, <2>2, <3>6
  <2> QED BY <2>1, <2>2
<1>3. Line = CHOOSE f : f = G(f)
  BY DEF Line
<1> HIDE DEF g
<1>4. Line = G(Line)
  BY <1>2, <1>3
<1> QED BY <1>4

LEMMA LineTypes == \A c \in CachedClass : Line[c] \subseteq CachedClass /\ c \in Line[c]
<1> DEFINE S == {c \in CachedClass : ~ (Line[c] \subseteq CachedClass)}
<1>1. S = {}
  <2> SUFFICES ASSUME S # {} PROVE FALSE
    OBVIOUS
  <2>1. PICK c \in S : Super[c] \notin S
    BY MethodCacheAssumption
  <2> QED BY <2>1, LineIs, MethodCacheAssumption
<1> QED BY <1>1, LineIs

LEMMA LineGoesOn == \A c \in CachedClass : \A d \in Line[c] : Line[d] \subseteq Line[c]
<1> DEFINE S == {c \in CachedClass : ~ (\A d \in Line[c] : Line[d] \subseteq Line[c])}
<1>1. S = {}
  <2> SUFFICES ASSUME S # {} PROVE FALSE
    OBVIOUS
  <2>1. PICK c \in S : Super[c] \notin S
    BY MethodCacheAssumption
  <2>2. Super[c] = NULL => Line[c] = {c}
    BY LineIs
  <2>3. Super[c] # NULL => Super[c] \in CachedClass /\ Line[c] = {c} \cup Line[Super[c]]
    BY LineIs, MethodCacheAssumption
  <2> QED BY <2>1, <2>2, <2>3
<1> QED BY <1>1

\* A class is above another or below it, not both.
LEMMA LineOneWay == \A c, d \in CachedClass : d \in Line[c] /\ c \in Line[d] => c = d
<1> DEFINE S == {c \in CachedClass : \E d \in CachedClass : d # c /\ d \in Line[c] /\ c \in Line[d]}
<1>1. S = {}
  <2> SUFFICES ASSUME S # {} PROVE FALSE
    OBVIOUS
  <2>1. PICK c \in S : Super[c] \notin S
    BY MethodCacheAssumption
  <2>2. PICK d \in CachedClass : d # c /\ d \in Line[c] /\ c \in Line[d]
    BY <2>1
  <2>3. Super[c] \in CachedClass /\ Line[c] = {c} \cup Line[Super[c]]
    BY <2>2, LineIs, MethodCacheAssumption
  <2>4. Super[c] # c
    <3>1. PICK e \in {c} : Super[e] \notin {c}
      BY MethodCacheAssumption
    <3> QED BY <3>1
  <2>5. c \in Line[Super[c]] /\ Super[c] \in Line[c]
    BY <2>2, <2>3, LineGoesOn, LineTypes
  <2> QED BY <2>1, <2>3, <2>4, <2>5
<1> QED BY <1>1

Having(m, c, s) == {d \in Line[c] : m[d][s] # 0}

LEMMA NearestIs ==
  ASSUME NEW m, NEW c \in CachedClass, NEW s, Having(m, c, s) # {}
  PROVE  \E d \in Having(m, c, s) : Having(m, c, s) \subseteq Line[d]
<1> DEFINE S == {b \in CachedClass : /\ Having(m, b, s) # {}
                                     /\ ~ \E d \in Having(m, b, s) : Having(m, b, s) \subseteq Line[d]}
<1>1. S = {}
  <2> SUFFICES ASSUME S # {} PROVE FALSE
    OBVIOUS
  <2>1. PICK b \in S : Super[b] \notin S
    BY MethodCacheAssumption
  <2>2. CASE b \in Having(m, b, s)
    BY <2>1, <2>2 DEF Having
  <2>3. CASE b \notin Having(m, b, s)
    <3>1. Having(m, b, s) = IF Super[b] = NULL THEN {} ELSE Having(m, Super[b], s)
      BY <2>1, <2>3, LineIs DEF Having
    <3> QED BY <2>1, <3>1, MethodCacheAssumption
  <2> QED BY <2>2, <2>3
<1> QED BY <1>1

\* What a class has itself comes first; otherwise it has what its superclass has.
LEMMA ResolveOwn ==
  ASSUME NEW m, NEW c \in CachedClass, NEW s, m[c][s] # 0
  PROVE  Resolve(m, c, s) = MethodOf(c, s, m[c][s])
<1>1. c \in Having(m, c, s) /\ Having(m, c, s) \subseteq Line[c]
  BY LineTypes DEF Having
<1>2. \A d \in Having(m, c, s) : Having(m, c, s) \subseteq Line[d] => d = c
  BY <1>1, LineTypes, LineOneWay
<1>3. (CHOOSE d \in Having(m, c, s) : Having(m, c, s) \subseteq Line[d]) = c
  BY <1>1, <1>2
<1> QED BY <1>1, <1>3 DEF Resolve, Having

LEMMA ResolveNone ==
  ASSUME NEW m, NEW c \in CachedClass, NEW s, m[c][s] = 0, Super[c] = NULL
  PROVE  Resolve(m, c, s) = Empty
<1>1. Having(m, c, s) = {}
  BY LineIs DEF Having
<1> QED BY <1>1 DEF Resolve, Having

LEMMA ResolveUp ==
  ASSUME NEW m, NEW c \in CachedClass, NEW s, m[c][s] = 0, Super[c] # NULL
  PROVE  Resolve(m, c, s) = Resolve(m, Super[c], s)
<1>1. PICK H : H = Having(m, c, s)
  OBVIOUS
<1>2. H = Having(m, Super[c], s)
  BY <1>1, LineIs DEF Having
<1> DEFINE R == IF H = {} THEN Empty
                ELSE MethodOf(CHOOSE d \in H : H \subseteq Line[d], s,
                              m[CHOOSE d \in H : H \subseteq Line[d]][s])
<1>3. Resolve(m, c, s) = R
  BY <1>1 DEF Resolve, Having
<1>4. Resolve(m, Super[c], s) = R
  BY <1>2 DEF Resolve, Having
<1> QED BY <1>3, <1>4

\* It depends on the lists of the class and of those above it only.
LEMMA ResolveSame ==
  ASSUME NEW m, NEW n, NEW c \in CachedClass, NEW s, \A d \in Line[c] : n[d] = m[d]
  PROVE  Resolve(n, c, s) = Resolve(m, c, s)
<1> DEFINE H == Having(m, c, s)
           d == CHOOSE b \in H : H \subseteq Line[b]
<1>1. Having(n, c, s) = H
  BY DEF Having
<1>2. CASE H = {}
  BY <1>1, <1>2 DEF Resolve, Having
<1>3. CASE H # {}
  <2>1. d \in H
    BY <1>3, NearestIs
  <2>2. n[d] = m[d]
    BY <2>1 DEF Having
  <2>3. Resolve(n, c, s) = MethodOf(d, s, n[d][s]) /\ Resolve(m, c, s) = MethodOf(d, s, m[d][s])
    BY <1>1, <1>3 DEF Resolve, Having
  <2> QED BY <2>2, <2>3
<1> QED BY <1>2, <1>3

LEMMA ResolveIs ==
  ASSUME NEW m \in [CachedClass -> [Sel -> Nat]], NEW c \in CachedClass, NEW s \in Sel
  PROVE  Resolve(m, c, s) \in {Empty} \cup Method
<1> DEFINE H == Having(m, c, s)
           d == CHOOSE b \in H : H \subseteq Line[b]
<1>1. CASE H = {}
  BY <1>1 DEF Resolve, Having
<1>2. CASE H # {}
  <2>1. d \in CachedClass
    BY <1>2, NearestIs, LineTypes DEF Having
  <2>2. Resolve(m, c, s) = MethodOf(d, s, m[d][s])
    BY <1>2 DEF Resolve, Having
  <2> HIDE DEF d
  <2> QED BY <2>1, <2>2 DEF MethodOf, Method
<1> QED BY <1>1, <1>2

-----------------------------------------------------------------------------
(* Entries and blocks.                                                         *)

LEMMA EntriesAre ==
  /\ \A e \in Entry : IsForward(e) <=> e \in Forward
  /\ \A e \in Entry : IsForward(e) => e[2] \in Block /\ e = ForwardIn(e[2]) /\ e # Empty
  /\ \A e \in Entry : e # Empty /\ ~ IsForward(e) => e \in Method /\ e[3] \in Sel
  /\ \A b \in Block : ForwardIn(b) \in Entry /\ IsForward(ForwardIn(b)) /\ ForwardIn(b)[2] = b
  /\ ~ IsForward(Empty) /\ Empty \in Entry
<1>1. \A e \in Method : Len(e) = 4 /\ e # <<>> /\ e[3] \in Sel
  <2>1. ASSUME NEW c \in CachedClass, NEW s \in Sel, NEW v \in Nat, NEW e, e = <<"method", c, s, v>>
        PROVE  Len(e) = 4 /\ e # <<>> /\ e[3] \in Sel
    BY <2>1
  <2> QED BY <2>1 DEF Method, MethodOf
<1>2. \A e \in Forward : Len(e) = 2 /\ e # <<>> /\ e[2] \in Block /\ e = <<"forward", e[2]>>
  <2>1. ASSUME NEW b \in Block, NEW e, e = <<"forward", b>>
        PROVE  Len(e) = 2 /\ e # <<>> /\ e[2] \in Block /\ e = <<"forward", e[2]>>
    BY <2>1
  <2> QED BY <2>1 DEF Forward, ForwardIn
<1>3. Len(<<>>) = 0
  OBVIOUS
<1>4. \A b \in Block : <<"forward", b>> \in Forward
  BY DEF Forward, ForwardIn
<1>5. \A e \in Entry : e = <<>> \/ e \in Method \/ e \in Forward
  BY DEF Entry, Empty
<1>6. \A b \in Block : Len(<<"forward", b>>) = 2 /\ <<"forward", b>>[2] = b
  OBVIOUS
<1>7. Forward \subseteq Entry /\ <<>> \in Entry
  BY DEF Entry, Empty
<1>8. \A e \in Entry : IsForward(e) <=> e \in Forward
  BY <1>1, <1>2, <1>3, <1>5 DEF IsForward
<1>9. \A e \in Entry : e # Empty /\ ~ IsForward(e) => e \in Method /\ e[3] \in Sel
  BY <1>1, <1>5, <1>8 DEF Empty
<1>10. \A e \in Entry : IsForward(e) => e[2] \in Block /\ e = ForwardIn(e[2]) /\ e # Empty
  BY <1>2, <1>8 DEF Empty, ForwardIn
<1>11. \A b \in Block : ForwardIn(b) \in Entry /\ IsForward(ForwardIn(b)) /\ ForwardIn(b)[2] = b
  BY <1>4, <1>6, <1>7, Zenon DEF ForwardIn, IsForward
<1>12. ~ IsForward(Empty) /\ Empty \in Entry
  BY <1>3, <1>7 DEF IsForward, Empty
<1> QED BY <1>8, <1>9, <1>10, <1>11, <1>12

LEMMA ImpIs == \A e \in Entry : Imp(e) \in Entry /\ (IsForward(e) => Imp(e) = Empty)
BY EntriesAre DEF Imp

\* A block is of one of three kinds.
LEMMA KindsAre ==
  ASSUME MemoryShape, NEW b \in Block \cup {_objc_empty_cache}
  PROVE  /\ heap[b].kind \in {"free", "cache", "forward"}
         /\ heap[b] = Free <=> heap[b].kind = "free"
         /\ heap[b].kind = "forward" => heap[b].sel \in Sel /\ heap[b] = ForwardEntry(heap[b].sel)
         /\ heap[b].kind = "cache" => heap[b] \in CacheRecord
<1>1. heap[b] \in HeapValue
  BY DEF MemoryShape
<1> QED BY <1>1 DEF HeapValue, Free, ForwardEntry, CacheRecord

LEMMA CacheIs ==
  ASSUME MemoryShape, NEW b \in Block \cup {_objc_empty_cache}, heap[b].kind = "cache"
  PROVE  /\ Size(b) \in Nat \ {0} /\ Mask(heap, b) = Size(b) - 1
         /\ heap[b].buckets \in [0 .. Size(b) - 1 -> Entry]
         /\ DOMAIN heap[b].buckets = 0 .. Size(b) - 1
         /\ heap[b].occupied \in Nat
         /\ IsFiniteSet(DOMAIN heap[b].buckets) /\ Cardinality(DOMAIN heap[b].buckets) = Size(b)
<1>1. heap[b] \in CacheRecord
  BY KindsAre
<1>2. PICK n \in Nat \ {0} : heap[b].buckets \in [0 .. n - 1 -> Entry]
  BY <1>1 DEF CacheRecord
<1>3. IsFiniteSet(0 .. n - 1) /\ Cardinality(0 .. n - 1) = n
  BY FS_Interval
<1>4. DOMAIN heap[b].buckets = 0 .. n - 1
  BY <1>2
<1>5. Size(b) = n /\ Mask(heap, b) = n - 1
  BY <1>3, <1>4 DEF Size, Mask
<1> QED BY <1>1, <1>2, <1>3, <1>4, <1>5 DEF CacheRecord

LEMMA EmptyCacheIs ==
  ASSUME MemoryShape
  PROVE  /\ heap[_objc_empty_cache].kind = "cache" /\ Size(_objc_empty_cache) = 1
         /\ \A i \in DOMAIN heap[_objc_empty_cache].buckets :
              heap[_objc_empty_cache].buckets[i] = Empty
         /\ heap[_objc_empty_cache].occupied = 0
         /\ _objc_empty_cache \notin Block /\ Block \subseteq Nat
<1>1. heap[0] = [kind |-> "cache", occupied |-> 0, buckets |-> [i \in 0 .. 1 - 1 |-> <<>>]]
  BY DEF MemoryShape, CacheBlock, _objc_empty_cache
<1>2. DOMAIN heap[0].buckets = 0 .. 0 /\ \A i \in 0 .. 0 : heap[0].buckets[i] = <<>>
  BY <1>1
<1>3. Cardinality(0 .. 0) = 1
  <2>1. 0 .. 0 = {0}
    OBVIOUS
  <2> QED BY <2>1, FS_Singleton
<1>4. Size(0) = 1
  BY <1>2, <1>3 DEF Size, Mask
<1>5. Block \subseteq Nat /\ 0 \notin Block
  BY MethodCacheAssumption DEF Block
<1>6. heap[0].kind = "cache" /\ heap[0].occupied = 0
  BY <1>1
<1>7. \A i \in DOMAIN heap[0].buckets : heap[0].buckets[i] = <<>>
  BY <1>2
<1> HIDE DEF Size, Block
<1> QED BY <1>4, <1>5, <1>6, <1>7 DEF Empty, _objc_empty_cache

LEMMA FreshIs ==
  ASSUME Unused # {}
  PROVE  Fresh \in Block /\ heap[Fresh] = Free
<1>1. Unused \in SUBSET Nat
  BY MethodCacheAssumption DEF Unused, Block
<1>2. \E b \in Unused : \A d \in Unused : b <= d
  BY <1>1, LeastNatural
<1> QED BY <1>2 DEF Fresh, Unused

-----------------------------------------------------------------------------
(* Where threads are, and the locks.                                           *)

LocksKept(t) ==
    \A u \in Thread \ {t} :
        /\ u \in readers' <=> u \in readers
        /\ writer' = u <=> writer = u
        /\ cacheUpdateLock' = u <=> cacheUpdateLock = u

\* Thread t goes on with local variables r.
Moves(t, r) ==
    /\ r \in Local /\ Placed(r) /\ Set(t, r)
    /\ t \in readers' <=> LooksUp(r)
    /\ writer' = t <=> r.pc \in {"flush", "empty"}
    /\ cacheUpdateLock' = t <=> r.pc \in {"scan", "insert", "empty"}
    /\ LocksKept(t)

LEMMA OneMoves ==
  ASSUME Control, NEW t \in Thread, NEW r, Moves(t, r), MemoryShape', ListShape', LockShape'
  PROVE  Control' /\ th'[t] = r /\ \A u \in Thread \ {t} : th'[u] = th[u]
<1>1. th' \in [Thread -> Local] /\ th'[t] = r /\ \A u \in Thread \ {t} : th'[u] = th[u]
  BY DEF Control, Shape, Moves, Set
<1>2. Shape'
  BY <1>1 DEF Shape
<1>3. ASSUME NEW u \in Thread PROVE Placed(th'[u]) /\ LocksAt(u)'
  <2>1. CASE u = t
    BY <1>1, <2>1 DEF Moves, LocksAt
  <2>2. CASE u # t
    <3>1. Placed(th[u]) /\ LocksAt(u) /\ th'[u] = th[u]
      BY <1>1, <2>2 DEF Control
    <3> QED BY <2>2, <3>1 DEF Moves, LocksKept, LocksAt
  <2> QED BY <2>1, <2>2
<1> QED BY <1>1, <1>2, <1>3 DEF Control

\* What is known of thread t.
LEMMA LocalsAre ==
  ASSUME Control, NEW t \in Thread
  PROVE  /\ th[t] \in Local /\ Placed(th[t]) /\ LocksAt(t)
         /\ DOMAIN th = Thread
BY DEF Control, Shape

LEMMA IdleIs == Idle \in Local /\ Placed(Idle) /\ ~ LooksUp(Idle) /\ Idle.pc = "idle"
               /\ Idle.cls = NULL /\ Idle.entry = Empty /\ ~ Idle.alot /\ Idle.back = "idle"
<1>1. Empty \in Entry /\ {} \in SUBSET Entry
  BY EntriesAre
<1>2. _objc_empty_cache \in Nat /\ 0 \in Nat
  BY DEF _objc_empty_cache
<1>3. NULL \notin CachedClass
  BY MethodCacheAssumption
<1>4. Idle \in Local
  BY <1>1 DEF Idle, Local, Labels, Callers, _objc_empty_cache
<1>5. Placed(Idle)
  BY <1>3 DEF Idle, Placed, Filling, Expanding, Reading
<1> QED BY <1>4, <1>5 DEF Idle, LooksUp, Filling, Expanding, Reading

\* Locks.
LEMMA LocksStay ==
  ASSUME Control, NEW t \in Thread, UNCHANGED locks
  PROVE  LocksKept(t) /\ LockShape' /\ (readers' = readers /\ writer' = writer /\ cacheUpdateLock' = cacheUpdateLock)
BY DEF Control, Shape, LockShape, LocksKept, locks

LEMMA ShapeStays ==
  ASSUME Control
  PROVE  /\ UNCHANGED memory => MemoryShape'
         /\ UNCHANGED rest => ListShape'
<1>1. MemoryShape /\ ListShape
  BY DEF Control, Shape
<1>2. UNCHANGED memory => MemoryShape'
  BY <1>1 DEF memory, MemoryShape
<1>3. UNCHANGED rest => ListShape'
  BY <1>1 DEF rest, ListShape
<1> QED BY <1>2, <1>3

LEMMA SearchingIs ==
  ASSUME Control, NEW me \in Local, NEW in \in Callers, NEW c \in CachedClass,
         me.cls \in CachedClass, me.sel \in Sel, ~ me.alot,
         in # "_cache_getMethod" => c = me.cls
  PROVE  /\ Searching(me, in, c) \in Local /\ Placed(Searching(me, in, c))
         /\ Searching(me, in, c).pc = "bucket" /\ Searching(me, in, c).in = in
         /\ LooksUp(Searching(me, in, c)) <=> in # "objc_msgSend"
         /\ Searching(me, in, c).cur = c /\ Searching(me, in, c).cls = me.cls
         /\ Searching(me, in, c).sel = me.sel /\ Searching(me, in, c).cache = cache[c]
         /\ Searching(me, in, c).valid = me.valid /\ Searching(me, in, c).entry = me.entry
<1>1. cache[c] \in Block \cup {_objc_empty_cache} /\ Hash[me.sel] \in Nat
  BY MethodCacheAssumption DEF Control, Shape, MemoryShape
<1> DEFINE r == [me EXCEPT !.pc = "bucket", !.in = in, !.cur = c,
                           !.cache = cache[c], !.index = Hash[me.sel]]
<1>2. r \in Local
  BY <1>1 DEF Local, Labels
<1>3. /\ r.pc = "bucket" /\ r.in = in /\ r.cur = c /\ r.cls = me.cls /\ r.sel = me.sel
      /\ r.cache = cache[c] /\ r.valid = me.valid /\ r.entry = me.entry /\ r.alot = me.alot
      /\ r.back = me.back
  BY DEF Local
<1>4. Searching(me, in, c) = r
  BY DEF Searching
<1> HIDE DEF r
<1>5. Placed(r)
  BY <1>3 DEF Placed, Filling, Expanding, Reading
<1>6. LooksUp(r) <=> in # "objc_msgSend"
  BY <1>3 DEF LooksUp, Filling, Expanding, Reading
<1> QED BY <1>2, <1>3, <1>4, <1>5, <1>6

Others(t) == \A u \in Thread \ {t} : th'[u] = th[u]

LEMMA SendIs ==
  ASSUME Control, NEW t \in Thread, NEW c \in CachedClass, NEW s \in Sel, objc_msgSend(t, c, s)
  PROVE  /\ Control' /\ Others(t) /\ UNCHANGED <<memory, locks, methods, was>>
         /\ th[t].pc = "idle" /\ th'[t].pc = "bucket" /\ th'[t].in = "objc_msgSend"
         /\ th'[t].cls = c /\ th'[t].cur = c /\ th'[t].sel = s
         /\ th'[t].cache = cache[c] /\ th'[t].entry = Empty
         /\ th'[t].valid = {Resolve(methods, c, s), Resolve(was, c, s)}
<1> DEFINE V == {Resolve(methods, c, s), Resolve(was, c, s)}
           me == [Idle EXCEPT !.cls = c, !.sel = s, !.valid = V]
           r == Searching(me, "objc_msgSend", c)
<1>1. V \in SUBSET Entry
  <2>1. methods \in [CachedClass -> [Sel -> Nat]] /\ was \in [CachedClass -> [Sel -> Nat]]
    BY DEF Control, Shape, ListShape
  <2> QED BY <2>1, ResolveIs DEF Entry
<1>2. th[t].pc = "idle" /\ Set(t, r) /\ UNCHANGED <<methods, was, initialized, changes, memory, locks>>
      /\ calls > 0 /\ calls' = calls - 1
  BY DEF objc_msgSend
<1> HIDE DEF V
<1>3. /\ me \in Local /\ me.cls = c /\ me.sel = s /\ me.valid = V /\ me.entry = Empty
      /\ ~ me.alot
  BY <1>1, IdleIs, Zenon DEF Local
<1> HIDE DEF me
<1>4. /\ r \in Local /\ Placed(r) /\ r.pc = "bucket" /\ r.in = "objc_msgSend" /\ ~ LooksUp(r)
      /\ r.cur = c /\ r.cls = c /\ r.sel = s /\ r.cache = cache[c] /\ r.valid = V
      /\ r.entry = Empty
  <2>1. "objc_msgSend" \in Callers /\ me.cls \in CachedClass /\ me.sel \in Sel
    BY <1>3 DEF Callers
  <2>2. r.cls = me.cls /\ r.sel = me.sel /\ r.valid = me.valid /\ r.entry = me.entry
        /\ r \in Local /\ Placed(r) /\ r.pc = "bucket" /\ r.in = "objc_msgSend" /\ r.cur = c
        /\ r.cache = cache[c] /\ (LooksUp(r) <=> "objc_msgSend" # "objc_msgSend")
    <3> HIDE DEF r
    <3>1. r = Searching(me, "objc_msgSend", c)
      BY DEF r
    <3>2. \A in \in Callers : (in # "_cache_getMethod" => c = me.cls) /\ in = "objc_msgSend" =>
            LET q == Searching(me, in, c) IN
            /\ q \in Local /\ Placed(q) /\ q.pc = "bucket" /\ q.in = in
            /\ q.cur = c /\ q.cls = me.cls /\ q.sel = me.sel /\ q.cache = cache[c]
            /\ q.valid = me.valid /\ q.entry = me.entry /\ (LooksUp(q) <=> in # "objc_msgSend")
      BY <1>3, <2>1, SearchingIs
    <3> QED BY <1>3, <2>1, <3>1, <3>2
  <2> QED BY <1>3, <2>2
<1> HIDE DEF r
<1>5. ListShape'
  BY <1>2, MethodCacheAssumption DEF Control, Shape, ListShape
<1>6. ~ LooksUp(th[t]) /\ th[t].pc = "idle" /\ LocksAt(t)
  BY <1>2, LocalsAre DEF LooksUp, Filling, Expanding, Reading
<1>7. Moves(t, r)
  BY <1>2, <1>4, <1>6, LocksStay DEF Moves, LocksAt
<1>8. MemoryShape' /\ LockShape'
  BY <1>2, LocksStay, ShapeStays
<1>9. Control' /\ th'[t] = r /\ Others(t)
  BY <1>5, <1>7, <1>8, OneMoves DEF Others
<1> QED BY <1>2, <1>4, <1>9 DEF V

\* What is in a bucket.
LEMMA BucketIs ==
  ASSUME Control, NEW b \in Block \cup {_objc_empty_cache}, heap[b].kind = "cache", NEW n \in Nat
  PROVE  /\ n % (Mask(heap, b) + 1) \in DOMAIN heap[b].buckets
         /\ (n % (Mask(heap, b) + 1)) + 1 \in Nat
         /\ heap[b].buckets[n % (Mask(heap, b) + 1)] \in Entry
<1>1. PICK k \in Nat \ {0} : k = Size(b)
  BY CacheIs DEF Control, Shape
<1>2. heap[b].buckets \in [0 .. k - 1 -> Entry] /\ Mask(heap, b) + 1 = k
  BY <1>1, CacheIs DEF Control, Shape
<1>3. n % k \in 0 .. k - 1
  BY <1>1
<1> QED BY <1>2, <1>3

LEMMA MissIs ==
  ASSUME Control, NEW t \in Thread, th[t].pc = "bucket"
  PROVE  /\ Miss(t) \in Local /\ Placed(Miss(t)) /\ (LooksUp(Miss(t)) <=> LooksUp(th[t]))
         /\ Miss(t).pc = (IF th[t].in = "objc_msgSend" THEN "read" ELSE "lists")
         /\ Miss(t).cls = th[t].cls /\ Miss(t).sel = th[t].sel /\ Miss(t).cur = th[t].cur
         /\ Miss(t).valid = th[t].valid
<1>1. th[t] \in Local /\ Placed(th[t])
  BY LocalsAre
<1> DEFINE p == IF th[t].in = "objc_msgSend" THEN "read" ELSE "lists"
           r == [th[t] EXCEPT !.pc = p, !.cache = 0, !.index = 0]
<1>2. p \in Labels /\ p \in {"read", "lists"}
  BY DEF Labels
<1>3. Miss(t) = r
  BY DEF Miss
<1>4. r \in Local /\ r.pc = p /\ r.cls = th[t].cls /\ r.sel = th[t].sel /\ r.cur = th[t].cur
      /\ r.valid = th[t].valid /\ r.alot = th[t].alot /\ r.entry = th[t].entry /\ r.in = th[t].in
  <2> HIDE DEF p
  <2>1. r.pc = p /\ r.cls = th[t].cls /\ r.sel = th[t].sel /\ r.cur = th[t].cur
        /\ r.valid = th[t].valid /\ r.alot = th[t].alot /\ r.entry = th[t].entry /\ r.in = th[t].in
    BY <1>1 DEF Local
  <2>2. r \in Local
    BY <1>1, <1>2, Zenon DEF Local, _objc_empty_cache
  <2> QED BY <2>1, <2>2
<1> HIDE DEF r
<1>5. Placed(r)
  BY <1>1, <1>2, <1>4 DEF Placed, Filling, Expanding, Reading
<1>6. LooksUp(r) <=> LooksUp(th[t])
  BY <1>2, <1>4 DEF LooksUp, Filling, Expanding, Reading
<1> QED BY <1>3, <1>4, <1>5, <1>6

LEMMA LoadBucketIs ==
  ASSUME Control, MemoryOK, NEW t \in Thread, LoadBucket(t)
  PROVE  /\ Control' /\ Others(t) /\ UNCHANGED <<memory, locks, rest>>
         /\ th[t].pc = "bucket"
         /\ th'[t].cls = th[t].cls /\ th'[t].sel = th[t].sel /\ th'[t].cur = th[t].cur
         /\ th'[t].valid = th[t].valid
         /\ \/ th'[t].pc = IF th[t].in = "objc_msgSend" THEN "read" ELSE "lists"
            \/ /\ th'[t].pc = "entry" /\ th'[t].cache = th[t].cache /\ th'[t].in = th[t].in
               /\ \E i \in DOMAIN heap[th[t].cache].buckets :
                    th'[t].entry = heap[th[t].cache].buckets[i]
               /\ th'[t].entry # Empty
<1> DEFINE b == th[t].cache
           i == th[t].index % (Mask(heap, b) + 1)
           e == heap[b].buckets[i]
           r == [th[t] EXCEPT !.pc = "entry", !.entry = e, !.index = i + 1]
<1>1. th[t] \in Local /\ Placed(th[t]) /\ LocksAt(t)
  BY LocalsAre
<1>2. th[t].pc = "bucket" /\ UNCHANGED <<memory, locks, rest>>
      /\ Set(t, IF e = Empty THEN Miss(t) ELSE r)
  BY Zenon DEF LoadBucket
<1>3. b \in Block \cup {_objc_empty_cache} /\ heap[b].kind = "cache" /\ th[t].index \in Nat
  BY <1>1, <1>2 DEF MemoryOK, ThreadOK, ReaderIs, Reading, Local
<1>4. i \in DOMAIN heap[b].buckets /\ i + 1 \in Nat /\ e \in Entry
  BY <1>3, BucketIs
<1>5. MemoryShape' /\ ListShape' /\ LockShape' /\ LocksKept(t)
      /\ readers' = readers /\ writer' = writer /\ cacheUpdateLock' = cacheUpdateLock
  BY <1>2, LocksStay, ShapeStays
<1> HIDE DEF i
<1>6. CASE e = Empty
  <2>1. Set(t, Miss(t))
    BY <1>2, <1>6
  <2>2. Moves(t, Miss(t))
    <3>1. Miss(t).pc \notin {"flush", "empty", "scan", "insert"}
      BY <1>2, MissIs
    <3> QED BY <1>1, <1>2, <1>5, <2>1, <3>1, MissIs DEF Moves, LocksAt
  <2>3. Control' /\ th'[t] = Miss(t) /\ Others(t)
    BY <1>5, <2>2, OneMoves DEF Others
  <2> QED BY <1>2, <2>3, MissIs
<1>7. CASE e # Empty
  <2>1. Set(t, r)
    BY <1>2, <1>7
  <2>2. /\ r \in Local /\ r.pc = "entry" /\ r.cls = th[t].cls /\ r.sel = th[t].sel
        /\ r.cur = th[t].cur /\ r.valid = th[t].valid /\ r.alot = th[t].alot /\ r.entry = e
        /\ r.in = th[t].in /\ r.cache = th[t].cache
    BY <1>1, <1>4, Zenon DEF Local, Labels
  <2> HIDE DEF r
  <2>3. Placed(r)
    BY <1>1, <1>2, <1>7, <2>2 DEF Placed, Filling, Expanding, Reading
  <2>4. LooksUp(r) <=> LooksUp(th[t])
    BY <1>2, <2>2 DEF LooksUp, Filling, Expanding, Reading
  <2>5. Moves(t, r)
    BY <1>1, <1>2, <1>5, <2>1, <2>2, <2>3, <2>4 DEF Moves, LocksAt
  <2>6. Control' /\ th'[t] = r /\ Others(t)
    BY <1>5, <2>5, OneMoves DEF Others
  <2> QED BY <1>2, <1>4, <1>7, <2>2, <2>6
<1> QED BY <1>6, <1>7

LEMMA AnsweredIs ==
  ASSUME Control, NEW t \in Thread, NEW answer \in Entry
  PROVE  /\ Answered(t, answer) \in Local /\ Placed(Answered(t, answer))
         /\ LooksUp(Answered(t, answer)) /\ Answered(t, answer).pc = "unlock"
         /\ Answered(t, answer).cls = NULL /\ Answered(t, answer).entry = Empty
         /\ Answered(t, answer).answer = answer /\ Answered(t, answer).valid = th[t].valid
<1>1. th[t].valid \in SUBSET Entry
  BY LocalsAre DEF Local
<1> DEFINE r == [Idle EXCEPT !.pc = "unlock", !.answer = answer, !.valid = th[t].valid]
<1>2. Answered(t, answer) = r
  BY DEF Answered
<1>3. r \in Local /\ r.pc = "unlock" /\ r.cls = NULL /\ r.entry = Empty /\ ~ r.alot
      /\ r.answer = answer /\ r.valid = th[t].valid
  <2>1. "unlock" \in Labels
    BY DEF Labels
  <2>2. r \in Local
    BY <1>1, <2>1, IdleIs, Zenon DEF Local
  <2>3. r.pc = "unlock" /\ r.cls = NULL /\ r.entry = Empty /\ ~ r.alot
        /\ r.answer = answer /\ r.valid = th[t].valid
    BY IdleIs, Zenon DEF Local
  <2> QED BY <2>2, <2>3
<1> HIDE DEF r
<1>4. Placed(r) /\ LooksUp(r)
  BY <1>3 DEF Placed, LooksUp, Filling, Expanding, Reading
<1> QED BY <1>2, <1>3, <1>4

LEMMA NotFoundIs ==
  ASSUME Control, NEW t \in Thread, th[t].pc \in {"entry", "lists"}
  PROVE  /\ NotFound(t) \in Local /\ Placed(NotFound(t))
         /\ LooksUp(NotFound(t)) /\ NotFound(t).pc \in {"resolve", "forward"}
         /\ NotFound(t).cls = th[t].cls /\ NotFound(t).entry = Empty
         /\ NotFound(t).sel = th[t].sel /\ NotFound(t).valid = th[t].valid
<1>1. th[t] \in Local /\ Placed(th[t])
  BY LocalsAre
<1> DEFINE p == IF th[t].tried THEN "forward" ELSE "resolve"
           r == [th[t] EXCEPT !.pc = p, !.entry = Empty, !.cache = 0, !.index = 0]
<1>2. p \in Labels /\ p \in {"resolve", "forward"} /\ Empty \in Entry
  BY EntriesAre DEF Labels
<1>3. NotFound(t) = r
  BY DEF NotFound
<1> HIDE DEF p
<1>4. r \in Local /\ r.pc = p /\ r.cls = th[t].cls /\ r.entry = Empty /\ r.alot = th[t].alot
      /\ r.sel = th[t].sel /\ r.valid = th[t].valid
  BY <1>1, <1>2, Zenon DEF Local, _objc_empty_cache
<1> HIDE DEF r
<1>5. Placed(r)
  BY <1>1, <1>2, <1>4 DEF Placed, Filling, Expanding, Reading
<1>6. LooksUp(r)
  BY <1>2, <1>4 DEF LooksUp
<1> QED BY <1>2, <1>3, <1>4, <1>5, <1>6

CompareEntryTo(t) ==
    LET e == th[t].entry IN
    \/ /\ Name(e) # th[t].sel /\ th'[t].pc = "bucket"
       /\ th'[t].in = th[t].in /\ th'[t].cur = th[t].cur /\ th'[t].cls = th[t].cls
       /\ th'[t].sel = th[t].sel /\ th'[t].cache = th[t].cache /\ th'[t].valid = th[t].valid
    \/ th'[t] = Idle
    \/ /\ Name(e) = th[t].sel /\ th[t].in # "objc_msgSend" /\ th'[t].pc = "unlock"
       /\ th'[t].cls = NULL /\ th'[t].answer = Imp(e) /\ th'[t].valid = th[t].valid
    \/ /\ Name(e) = th[t].sel /\ IsForward(e) /\ th[t].in # "objc_msgSend"
       /\ th'[t].pc \in {"resolve", "forward"} /\ th'[t].cls = th[t].cls
       /\ th'[t].sel = th[t].sel /\ th'[t].valid = th[t].valid
    \/ /\ Name(e) = th[t].sel /\ ~ IsForward(e) /\ th[t].in # "objc_msgSend"
       /\ th'[t].pc = "fill" /\ th'[t].cls = th[t].cls
       /\ th'[t].sel = th[t].sel /\ th'[t].valid = th[t].valid /\ th'[t].entry = e

LEMMA CompareEntryIs ==
  ASSUME Control, NEW t \in Thread, CompareEntry(t)
  PROVE  /\ Control' /\ Others(t) /\ UNCHANGED <<memory, locks, rest>>
         /\ th[t].pc = "entry" /\ CompareEntryTo(t)
<1> DEFINE e == th[t].entry
           r1 == [th[t] EXCEPT !.pc = "bucket", !.entry = Empty]
           r5 == [th[t] EXCEPT !.pc = "fill", !.cache = 0, !.index = 0]
<1>1. th[t] \in Local /\ Placed(th[t]) /\ LocksAt(t) /\ e \in Entry
  BY LocalsAre DEF Local
<1>2. th[t].pc = "entry" /\ UNCHANGED <<memory, locks, rest>>
      /\ Set(t, IF Name(e) # th[t].sel THEN r1
                ELSE IF th[t].in = "objc_msgSend" THEN Idle
                ELSE IF th[t].in = "_cache_getImp" THEN Answered(t, Imp(e))
                ELSE IF IsForward(e) THEN NotFound(t) ELSE r5)
  BY DEF CompareEntry
<1>3. MemoryShape' /\ ListShape' /\ LockShape' /\ LocksKept(t)
      /\ readers' = readers /\ writer' = writer /\ cacheUpdateLock' = cacheUpdateLock
  BY <1>2, LocksStay, ShapeStays
<1>4. ASSUME NEW r, Set(t, r), r \in Local, Placed(r), LooksUp(r) <=> LooksUp(th[t]),
             r.pc \notin {"flush", "empty", "scan", "insert"}
      PROVE  Control' /\ Others(t) /\ th'[t] = r
  <2>1. Moves(t, r)
    BY <1>1, <1>2, <1>3, <1>4 DEF Moves, LocksAt
  <2> QED BY <1>3, <2>1, OneMoves DEF Others
<1>5. CASE Name(e) # th[t].sel
  <2>1. r1 \in Local /\ r1.pc = "bucket" /\ r1.in = th[t].in /\ r1.cur = th[t].cur
        /\ r1.cls = th[t].cls /\ r1.sel = th[t].sel /\ r1.cache = th[t].cache
        /\ r1.valid = th[t].valid /\ r1.alot = th[t].alot
    BY <1>1, EntriesAre, Zenon DEF Local, Labels
  <2>2. Set(t, r1)
    BY <1>2, <1>5
  <2> HIDE DEF r1
  <2>3. Placed(r1)
    BY <1>1, <1>2, <2>1 DEF Placed, Filling, Expanding, Reading
  <2>4. LooksUp(r1) <=> LooksUp(th[t])
    BY <1>2, <2>1 DEF LooksUp, Filling, Expanding, Reading
  <2>5. Control' /\ Others(t) /\ th'[t] = r1
    BY <1>4, <2>1, <2>2, <2>3, <2>4
  <2> QED BY <1>2, <1>5, <2>1, <2>5 DEF CompareEntryTo
<1>6. CASE Name(e) = th[t].sel /\ th[t].in = "objc_msgSend"
  <2>1. Set(t, Idle)
    BY <1>2, <1>6
  <2>2. ~ LooksUp(th[t])
    BY <1>2, <1>6 DEF LooksUp, Filling, Expanding
  <2>3. Control' /\ Others(t) /\ th'[t] = Idle
    BY <1>4, <2>1, <2>2, IdleIs
  <2> QED BY <1>2, <2>3 DEF CompareEntryTo
<1>7. CASE Name(e) = th[t].sel /\ th[t].in # "objc_msgSend"
  <2>1. LooksUp(th[t]) /\ th[t].cls \in CachedClass /\ e # Empty
    BY <1>1, <1>2, <1>7 DEF LooksUp, Reading, Placed
  <2>2. CASE th[t].in = "_cache_getImp"
    <3>1. Set(t, Answered(t, Imp(e))) /\ Imp(e) \in Entry
      BY <1>1, <1>2, <1>7, <2>2, ImpIs
    <3>2. Control' /\ Others(t) /\ th'[t] = Answered(t, Imp(e))
      BY <1>4, <2>1, <3>1, AnsweredIs
    <3> QED BY <1>2, <1>7, <3>1, <3>2, AnsweredIs DEF CompareEntryTo
  <2>3. CASE th[t].in # "_cache_getImp" /\ IsForward(e)
    <3>1. Set(t, NotFound(t))
      BY <1>2, <1>7, <2>3
    <3>2. NotFound(t).pc \notin {"flush", "empty", "scan", "insert"}
      BY <1>2, NotFoundIs
    <3>3. Control' /\ Others(t) /\ th'[t] = NotFound(t)
      BY <1>2, <1>4, <2>1, <3>1, <3>2, NotFoundIs
    <3> QED BY <1>2, <1>7, <2>3, <3>3, NotFoundIs DEF CompareEntryTo
  <2>4. CASE th[t].in # "_cache_getImp" /\ ~ IsForward(e)
    <3>1. Set(t, r5)
      BY <1>2, <1>7, <2>4
    <3>2. r5 \in Local /\ r5.pc = "fill" /\ r5.cls = th[t].cls /\ r5.sel = th[t].sel
          /\ r5.valid = th[t].valid /\ r5.alot = th[t].alot /\ r5.entry = e
      BY <1>1, Zenon DEF Local, Labels, _objc_empty_cache
    <3> HIDE DEF r5
    <3>3. Placed(r5) /\ LooksUp(r5)
      BY <1>1, <1>2, <2>1, <3>2 DEF Placed, LooksUp, Filling, Expanding, Reading
    <3>4. Control' /\ Others(t) /\ th'[t] = r5
      BY <1>4, <2>1, <3>1, <3>2, <3>3
    <3> QED BY <1>2, <1>7, <2>4, <3>2, <3>4 DEF CompareEntryTo
  <2> QED BY <2>2, <2>3, <2>4
<1> QED BY <1>5, <1>6, <1>7

LEMMA LockIs ==
  ASSUME Control, NEW t \in Thread, lockForMethodLookup(t)
  PROVE  /\ Control' /\ Others(t) /\ UNCHANGED <<memory, rest, writer, cacheUpdateLock>>
         /\ th[t].pc = "read" /\ writer = NULL
         /\ th'[t].pc = "bucket" /\ th'[t].in = "_cache_getImp"
         /\ th'[t].cls = th[t].cls /\ th'[t].cur = th[t].cls /\ th'[t].sel = th[t].sel
         /\ th'[t].cache = cache[th[t].cls] /\ th'[t].valid = th[t].valid
<1> DEFINE r == Searching(th[t], "_cache_getImp", th[t].cls)
<1>1. th[t] \in Local /\ Placed(th[t]) /\ LocksAt(t)
  BY LocalsAre
<1>2. th[t].pc = "read" /\ writer = NULL /\ readers' = readers \cup {t} /\ Set(t, r)
      /\ UNCHANGED <<memory, rest, writer, cacheUpdateLock>>
  BY DEF lockForMethodLookup
<1>3. "_cache_getImp" \in Callers /\ th[t].cls \in CachedClass /\ th[t].sel \in Sel /\ ~ th[t].alot
  BY <1>1, <1>2, MethodCacheAssumption DEF Callers, Placed
<1>4. /\ r \in Local /\ Placed(r) /\ r.pc = "bucket" /\ r.in = "_cache_getImp" /\ LooksUp(r)
      /\ r.cls = th[t].cls /\ r.cur = th[t].cls /\ r.sel = th[t].sel
      /\ r.cache = cache[th[t].cls] /\ r.valid = th[t].valid
  BY <1>1, <1>3, SearchingIs
<1> HIDE DEF r
<1>5. MemoryShape' /\ ListShape'
  BY <1>2, ShapeStays
<1>6. LockShape' /\ LocksKept(t)
  BY <1>2 DEF Control, Shape, LockShape, LocksKept
<1>7. Moves(t, r)
  BY <1>1, <1>2, <1>4, <1>6 DEF Moves, LocksAt
<1>8. Control' /\ Others(t) /\ th'[t] = r
  BY <1>5, <1>6, <1>7, OneMoves DEF Others
<1> QED BY <1>2, <1>4, <1>8

LEMMA UnlockIs ==
  ASSUME Control, NEW t \in Thread, unlockForMethodLookup(t)
  PROVE  /\ Control' /\ Others(t) /\ UNCHANGED <<memory, rest, writer, cacheUpdateLock>>
         /\ th[t].pc = "unlock" /\ th'[t] = Idle
<1>1. th[t] \in Local /\ Placed(th[t]) /\ LocksAt(t)
  BY LocalsAre
<1>2. th[t].pc = "unlock" /\ readers' = readers \ {t} /\ Set(t, Idle)
      /\ UNCHANGED <<memory, rest, writer, cacheUpdateLock>>
  BY DEF unlockForMethodLookup
<1>3. MemoryShape' /\ ListShape'
  BY <1>2, ShapeStays
<1>4. LockShape' /\ LocksKept(t)
  BY <1>2 DEF Control, Shape, LockShape, LocksKept
<1>5. Moves(t, Idle)
  BY <1>1, <1>2, <1>4, IdleIs DEF Moves, LocksAt
<1>6. Control' /\ Others(t) /\ th'[t] = Idle
  BY <1>3, <1>4, <1>5, OneMoves DEF Others
<1> QED BY <1>2, <1>6

SearchListsTo(t) ==
    LET c == th[t].cur
        v == methods[c][th[t].sel]
    IN /\ th'[t].cls = th[t].cls /\ th'[t].sel = th[t].sel /\ th'[t].valid = th[t].valid
       /\ \/ v # 0 /\ th'[t].pc = "fill" /\ th'[t].entry = MethodOf(c, th[t].sel, v)
          \/ v = 0 /\ Super[c] = NULL /\ th'[t].pc \in {"resolve", "forward"}
          \/ /\ v = 0 /\ Super[c] # NULL /\ th'[t].pc = "bucket" /\ th'[t].in = "_cache_getMethod"
             /\ th'[t].cur = Super[c] /\ th'[t].cache = cache[Super[c]]

LEMMA SearchListsIs ==
  ASSUME Control, NEW t \in Thread, SearchLists(t)
  PROVE  /\ Control' /\ Others(t) /\ UNCHANGED <<memory, locks, rest>>
         /\ th[t].pc = "lists" /\ SearchListsTo(t)
<1> DEFINE c == th[t].cur
           v == methods[c][th[t].sel]
           m == MethodOf(c, th[t].sel, v)
           r1 == [th[t] EXCEPT !.pc = "fill", !.entry = m]
           r3 == Searching(th[t], "_cache_getMethod", Super[c])
<1>1. th[t] \in Local /\ Placed(th[t]) /\ LocksAt(t)
  BY LocalsAre
<1>2. th[t].pc = "lists" /\ UNCHANGED <<memory, locks, rest>>
      /\ Set(t, IF v # 0 THEN r1 ELSE IF Super[c] = NULL THEN NotFound(t) ELSE r3)
  BY DEF SearchLists
<1>3. MemoryShape' /\ ListShape' /\ LockShape' /\ LocksKept(t)
      /\ readers' = readers /\ writer' = writer /\ cacheUpdateLock' = cacheUpdateLock
  BY <1>2, LocksStay, ShapeStays
<1>4. c \in CachedClass /\ th[t].cls \in CachedClass /\ th[t].sel \in Sel /\ LooksUp(th[t]) /\ ~ th[t].alot
  BY <1>1, <1>2, MethodCacheAssumption DEF Placed, LooksUp
<1>5. v \in Nat
  BY <1>4 DEF Control, Shape, ListShape
<1>6. ASSUME NEW r, Set(t, r), r \in Local, Placed(r), LooksUp(r),
             r.pc \notin {"flush", "empty", "scan", "insert"}
      PROVE  Control' /\ Others(t) /\ th'[t] = r
  <2>1. Moves(t, r)
    BY <1>1, <1>2, <1>3, <1>4, <1>6 DEF Moves, LocksAt
  <2> QED BY <1>3, <2>1, OneMoves DEF Others
<1>7. CASE v # 0
  <2>1. m \in Method /\ m # Empty
    BY <1>4, <1>5 DEF Method, MethodOf, Empty
  <2>2. m \in Entry
    BY <2>1 DEF Entry
  <2> HIDE DEF m
  <2>3. r1 \in Local /\ r1.pc = "fill" /\ r1.cls = th[t].cls /\ r1.sel = th[t].sel
        /\ r1.valid = th[t].valid /\ r1.alot = th[t].alot /\ r1.entry = m
    BY <1>1, <2>2, Zenon DEF Local, Labels
  <2>4. Set(t, r1)
    BY <1>2, <1>7 DEF m
  <2> HIDE DEF r1
  <2>5. Placed(r1) /\ LooksUp(r1)
    BY <1>1, <1>2, <1>4, <2>1, <2>3 DEF Placed, LooksUp, Filling, Expanding, Reading
  <2>6. Control' /\ Others(t) /\ th'[t] = r1
    BY <1>6, <2>3, <2>4, <2>5
  <2> QED BY <1>2, <1>7, <2>3, <2>6 DEF SearchListsTo, m
<1>8. CASE v = 0 /\ Super[c] = NULL
  <2>1. Set(t, NotFound(t))
    BY <1>2, <1>8
  <2>2. NotFound(t).pc \notin {"flush", "empty", "scan", "insert"}
    BY <1>2, NotFoundIs
  <2>3. Control' /\ Others(t) /\ th'[t] = NotFound(t)
    BY <1>2, <1>6, <2>1, <2>2, NotFoundIs
  <2> QED BY <1>2, <1>8, <2>3, NotFoundIs DEF SearchListsTo
<1>9. CASE v = 0 /\ Super[c] # NULL
  <2>1. Set(t, r3)
    BY <1>2, <1>9
  <2>2. Super[c] \in CachedClass /\ "_cache_getMethod" \in Callers
    BY <1>4, <1>9, MethodCacheAssumption DEF Callers
  <2>3. /\ r3 \in Local /\ Placed(r3) /\ r3.pc = "bucket" /\ r3.in = "_cache_getMethod" /\ LooksUp(r3)
        /\ r3.cls = th[t].cls /\ r3.cur = Super[c] /\ r3.sel = th[t].sel
        /\ r3.cache = cache[Super[c]] /\ r3.valid = th[t].valid
    BY <1>1, <1>4, <2>2, SearchingIs
  <2> HIDE DEF r3
  <2>4. Control' /\ Others(t) /\ th'[t] = r3
    BY <1>6, <2>1, <2>3
  <2> QED BY <1>2, <1>9, <2>3, <2>4 DEF SearchListsTo
<1> QED BY <1>7, <1>8, <1>9

LEMMA ResolveMethodIs ==
  ASSUME Control, NEW t \in Thread, _class_resolveMethod(t)
  PROVE  /\ Control' /\ Others(t)
         /\ UNCHANGED <<memory, methods, was, initialized, calls, writer, cacheUpdateLock>>
         /\ th[t].pc = "resolve" /\ th'[t].pc \in {"read", "write"}
         /\ th'[t].cls = th[t].cls /\ th'[t].sel = th[t].sel /\ th'[t].valid = th[t].valid
<1> DEFINE r1 == [th[t] EXCEPT !.pc = "read", !.tried = TRUE]
           r2 == [th[t] EXCEPT !.pc = "write", !.tried = TRUE, !.in = "addMethod",
                               !.cur = th[t].cls, !.seen = {th[t].sel}, !.back = "read"]
<1>1. th[t] \in Local /\ Placed(th[t]) /\ LocksAt(t)
  BY LocalsAre
<1>2. th[t].pc = "resolve" /\ readers' = readers \ {t}
      /\ UNCHANGED <<memory, methods, was, initialized, calls, writer, cacheUpdateLock>>
      /\ (changes' = changes \/ (changes > 0 /\ changes' = changes - 1))
  BY DEF _class_resolveMethod
<1>0. Set(t, r1) \/ Set(t, r2)
  BY DEF _class_resolveMethod
<1>3. th[t].cls \in CachedClass /\ th[t].sel \in Sel /\ th[t].entry = Empty /\ ~ th[t].alot
  BY <1>1, <1>2, MethodCacheAssumption DEF Placed
<1>4. MemoryShape' /\ ListShape'
  <2>1. changes' \in 0 .. Changes
    BY <1>2, MethodCacheAssumption DEF Control, Shape, ListShape
  <2> QED BY <1>2, <2>1, ShapeStays DEF Control, Shape, ListShape
<1>5. LockShape' /\ LocksKept(t)
  BY <1>2 DEF Control, Shape, LockShape, LocksKept
<1>6. ASSUME NEW r, Set(t, r), r \in Local, Placed(r), ~ LooksUp(r),
             r.pc \in {"read", "write"}
      PROVE  Control' /\ Others(t) /\ th'[t] = r
  <2>1. Moves(t, r)
    BY <1>1, <1>2, <1>5, <1>6 DEF Moves, LocksAt
  <2> QED BY <1>4, <1>5, <2>1, OneMoves DEF Others
<1>7. CASE Set(t, r1)
  <2>1. r1 \in Local /\ r1.pc = "read" /\ r1.cls = th[t].cls /\ r1.sel = th[t].sel
        /\ r1.valid = th[t].valid /\ r1.alot = th[t].alot
    BY <1>1, Zenon DEF Local, Labels
  <2> HIDE DEF r1
  <2>2. Placed(r1) /\ ~ LooksUp(r1)
    BY <1>3, <2>1 DEF Placed, LooksUp, Filling, Expanding, Reading
  <2>3. Control' /\ Others(t) /\ th'[t] = r1
    BY <1>6, <1>7, <2>1, <2>2
  <2> QED BY <1>2, <2>1, <2>3
<1>8. CASE Set(t, r2)
  <2>1. r2 \in Local /\ r2.pc = "write" /\ r2.cls = th[t].cls /\ r2.sel = th[t].sel
        /\ r2.valid = th[t].valid /\ r2.alot = th[t].alot /\ r2.entry = th[t].entry
    BY <1>1, <1>3, Zenon DEF Local, Labels
  <2> HIDE DEF r2
  <2>2. Placed(r2) /\ ~ LooksUp(r2)
    BY <1>3, <2>1 DEF Placed, LooksUp, Filling, Expanding, Reading
  <2>3. Control' /\ Others(t) /\ th'[t] = r2
    BY <1>6, <1>8, <2>1, <2>2
  <2> QED BY <1>2, <2>1, <2>3
<1> QED BY <1>0, <1>7, <1>8

LEMMA InCriticalIs ==
  ASSUME Control, NEW t \in Thread, _collecting_in_critical(t)
  PROVE  /\ Control' /\ Others(t) /\ UNCHANGED <<memory, locks, rest>>
         /\ th[t].pc = "scan" /\ th'[t].pc \in {"scan", "insert"}
         /\ th'[t].pc = "insert" => ~ th[t].alot
         /\ th'[t].alot = th[t].alot /\ th'[t].entry = th[t].entry
         /\ th'[t].cls = th[t].cls /\ th'[t].sel = th[t].sel /\ th'[t].valid = th[t].valid
         /\ \A u \in th'[t].seen : u \in th[t].seen \/ (u \in Thread \ {t} /\ th[u].pc \notin Reading)
<1>1. th[t] \in Local /\ Placed(th[t]) /\ LocksAt(t)
  BY LocalsAre
<1>2. th[t].pc = "scan" /\ UNCHANGED <<memory, locks, rest>>
  BY DEF _collecting_in_critical
<1>3. \/ \E u \in Thread \ {t} :
             ~ InMessenger(u) /\ Set(t, [th[t] EXCEPT !.seen = @ \cup {u}])
      \/ th[t].alot /\ Set(t, [th[t] EXCEPT !.seen = {}])
      \/ ~ th[t].alot /\ Goto(t, "insert")
  BY Zenon DEF _collecting_in_critical
<1>4. MemoryShape' /\ ListShape' /\ LockShape' /\ LocksKept(t)
      /\ readers' = readers /\ writer' = writer /\ cacheUpdateLock' = cacheUpdateLock
  BY <1>2, LocksStay, ShapeStays
<1>5. th[t].seen \subseteq Thread
  BY <1>1, <1>2 DEF Placed
<1> DEFINE r2 == [th[t] EXCEPT !.seen = {}]
           r3 == [th[t] EXCEPT !.pc = "insert"]
<1>6. ASSUME NEW r, Set(t, r), r \in Local, Placed(r), r.pc \in {"scan", "insert"},
             LooksUp(r) <=> LooksUp(th[t])
      PROVE  Control' /\ Others(t) /\ th'[t] = r
  <2>1. Moves(t, r)
    BY <1>1, <1>2, <1>4, <1>6 DEF Moves, LocksAt
  <2> QED BY <1>4, <2>1, OneMoves DEF Others
<1>7. ASSUME NEW u \in Thread \ {t}, ~ InMessenger(u),
             Set(t, [th[t] EXCEPT !.seen = @ \cup {u}])
      PROVE  /\ Control' /\ Others(t)
             /\ th'[t].pc = "scan" /\ th'[t].alot = th[t].alot /\ th'[t].entry = th[t].entry
             /\ th'[t].cls = th[t].cls /\ th'[t].sel = th[t].sel /\ th'[t].valid = th[t].valid
             /\ \A w \in th'[t].seen :
                    w \in th[t].seen \/ (w \in Thread \ {t} /\ th[w].pc \notin Reading)
  <2> DEFINE r1 == [th[t] EXCEPT !.seen = @ \cup {u}]
  <2>1. /\ r1 \in Local /\ r1.pc = "scan" /\ r1.cls = th[t].cls /\ r1.sel = th[t].sel
        /\ r1.valid = th[t].valid /\ r1.alot = th[t].alot /\ r1.entry = th[t].entry
        /\ r1.back = th[t].back /\ r1.seen = th[t].seen \cup {u}
    BY <1>1, <1>2, <1>5 DEF Local
  <2>2. Set(t, r1) /\ th[u].pc \notin Reading
    BY <1>7 DEF InMessenger, Reading
  <2> HIDE DEF r1
  <2>3. Placed(r1)
    BY <1>1, <1>2, <1>5, <2>1 DEF Placed, Filling, Expanding, Reading
  <2>4. LooksUp(r1) <=> LooksUp(th[t])
    BY <1>2, <2>1 DEF LooksUp, Filling, Expanding, Reading
  <2>5. Control' /\ Others(t) /\ th'[t] = r1
    BY <1>6, <2>1, <2>2, <2>3, <2>4
  <2> QED BY <1>2, <2>1, <2>2, <2>5
<1>8. CASE th[t].alot /\ Set(t, [th[t] EXCEPT !.seen = {}])
  <2>1. /\ r2 \in Local /\ r2.pc = "scan" /\ r2.cls = th[t].cls /\ r2.sel = th[t].sel
        /\ r2.valid = th[t].valid /\ r2.alot = th[t].alot /\ r2.entry = th[t].entry
        /\ r2.back = th[t].back /\ r2.seen = {}
    BY <1>1, <1>2, <1>5 DEF Local
  <2>2. Set(t, r2)
    BY <1>8
  <2> HIDE DEF r2
  <2>3. Placed(r2)
    BY <1>1, <1>2, <2>1 DEF Placed, Filling, Expanding, Reading
  <2>4. LooksUp(r2) <=> LooksUp(th[t])
    BY <1>2, <2>1 DEF LooksUp, Filling, Expanding, Reading
  <2>5. Control' /\ Others(t) /\ th'[t] = r2
    BY <1>6, <2>1, <2>2, <2>3, <2>4
  <2> QED BY <1>2, <2>1, <2>5
<1>9. CASE ~ th[t].alot /\ Goto(t, "insert")
  <2>1. /\ r3 \in Local /\ r3.pc = "insert" /\ r3.cls = th[t].cls /\ r3.sel = th[t].sel
        /\ r3.valid = th[t].valid /\ r3.alot = th[t].alot /\ r3.entry = th[t].entry
        /\ r3.back = th[t].back /\ r3.seen = th[t].seen
    BY <1>1, <1>2 DEF Local, Labels
  <2>2. Set(t, r3)
    BY <1>9 DEF Goto
  <2> HIDE DEF r3
  <2>3. Placed(r3)
    BY <1>1, <1>2, <1>9, <2>1 DEF Placed, Filling, Expanding, Reading
  <2>4. LooksUp(r3) <=> LooksUp(th[t])
    BY <1>2, <1>9, <2>1 DEF LooksUp, Filling, Expanding, Reading
  <2>5. Control' /\ Others(t) /\ th'[t] = r3
    BY <1>6, <2>1, <2>2, <2>3, <2>4
  <2> QED BY <1>2, <1>9, <2>1, <2>5
<1> QED BY <1>2, <1>3, <1>7, <1>8, <1>9

LEMMA CollectALotIs ==
  ASSUME Control, NEW t \in Thread, CollectALot(t)
  PROVE  /\ Control' /\ Others(t) /\ UNCHANGED <<memory, rest, writer, readers>>
         /\ th[t].pc = "collect" /\ th'[t].pc = "scan" /\ th'[t].alot /\ th'[t].seen = {}
         /\ th'[t].entry = Empty /\ th[t].entry = Empty
         /\ th'[t].cls = th[t].cls /\ th'[t].sel = th[t].sel /\ th'[t].valid = th[t].valid
<1> DEFINE r == [th[t] EXCEPT !.pc = "scan", !.seen = {}, !.alot = TRUE]
<1>1. th[t] \in Local /\ Placed(th[t]) /\ LocksAt(t)
  BY LocalsAre
<1>2. th[t].pc = "collect" /\ cacheUpdateLock = NULL /\ cacheUpdateLock' = t /\ Set(t, r)
      /\ UNCHANGED <<memory, rest, writer, readers>>
  BY DEF CollectALot
<1>3. /\ r \in Local /\ r.pc = "scan" /\ r.cls = th[t].cls /\ r.sel = th[t].sel
      /\ r.valid = th[t].valid /\ r.alot /\ r.entry = th[t].entry /\ r.seen = {}
  BY <1>1, Zenon DEF Local, Labels
<1>4. th[t].entry = Empty
  BY <1>1, <1>2 DEF Placed
<1> HIDE DEF r
<1>5. Placed(r) /\ ~ LooksUp(r) /\ ~ LooksUp(th[t])
  BY <1>1, <1>2, <1>3, <1>4 DEF Placed, LooksUp, Filling, Expanding, Reading
<1>6. MemoryShape' /\ ListShape'
  BY <1>2, ShapeStays
<1>7. LockShape' /\ LocksKept(t)
  BY <1>2, MethodCacheAssumption DEF Control, Shape, LockShape, LocksKept
<1>8. Moves(t, r)
  BY <1>1, <1>2, <1>3, <1>5, <1>7 DEF Moves, LocksAt
<1>9. Control' /\ Others(t) /\ th'[t] = r
  BY <1>6, <1>7, <1>8, OneMoves DEF Others
<1> QED BY <1>2, <1>3, <1>4, <1>9

FlushCacheTo(t, c) ==
    /\ th'[t].flush = th[t].flush \ {c}
    /\ \/ cache[c] = _objc_empty_cache /\ th'[t].pc = "flush"
       \/ /\ cache[c] # _objc_empty_cache /\ th'[t].pc = "empty"
          /\ th'[t].cache = cache[c] /\ th'[t].index = 0

LEMMA FlushCacheIs ==
  ASSUME Control, NEW t \in Thread, flush_cache(t)
  PROVE  /\ Control' /\ Others(t) /\ UNCHANGED <<memory, rest, writer, readers>>
         /\ th[t].pc = "flush" /\ cacheUpdateLock = NULL
         /\ th'[t].entry = Empty /\ th[t].entry = Empty
         /\ th'[t].cls = th[t].cls /\ th'[t].sel = th[t].sel /\ th'[t].valid = th[t].valid
         /\ \E c \in CachedClass : FlushCacheTo(t, c)
<1>1. th[t] \in Local /\ Placed(th[t]) /\ LocksAt(t)
  BY LocalsAre
<1>2. th[t].pc = "flush" /\ cacheUpdateLock = NULL /\ UNCHANGED <<memory, rest, writer, readers>>
  BY DEF flush_cache
<1>3. PICK c \in th[t].flush :
        IF cache[c] = _objc_empty_cache
        THEN Set(t, [th[t] EXCEPT !.flush = @ \ {c}]) /\ cacheUpdateLock' = NULL
        ELSE /\ Set(t, [th[t] EXCEPT !.pc = "empty", !.cache = cache[c], !.index = 0,
                                     !.flush = @ \ {c}])
             /\ cacheUpdateLock' = t
  BY Zenon DEF flush_cache
<1> DEFINE r1 == [th[t] EXCEPT !.flush = @ \ {c}]
           r2 == [th[t] EXCEPT !.pc = "empty", !.cache = cache[c], !.index = 0,
                               !.flush = @ \ {c}]
<1>4. MemoryShape' /\ ListShape' /\ c \in CachedClass
  BY <1>1, <1>2, ShapeStays DEF Local
<1>5. th[t].entry = Empty /\ ~ LooksUp(th[t]) /\ ~ th[t].alot
  BY <1>1, <1>2 DEF Placed, LooksUp, Filling, Expanding, Reading
<1>6. CASE cache[c] = _objc_empty_cache
  <2>1. Set(t, r1) /\ cacheUpdateLock' = NULL
    BY <1>3, <1>6
  <2>2. /\ r1 \in Local /\ r1.pc = "flush" /\ r1.cls = th[t].cls /\ r1.sel = th[t].sel
        /\ r1.valid = th[t].valid /\ r1.alot = th[t].alot /\ r1.entry = th[t].entry
        /\ r1.flush = th[t].flush \ {c} /\ r1.back = th[t].back
    BY <1>1, <1>2 DEF Local
  <2> HIDE DEF r1
  <2>3. Placed(r1) /\ ~ LooksUp(r1)
    BY <1>1, <1>2, <1>5, <2>2 DEF Placed, LooksUp, Filling, Expanding, Reading
  <2>4. LockShape' /\ LocksKept(t)
    BY <1>2, <2>1, MethodCacheAssumption DEF Control, Shape, LockShape, LocksKept
  <2>5. Moves(t, r1)
    BY <1>1, <1>2, <1>5, <2>1, <2>2, <2>3, <2>4, MethodCacheAssumption DEF Moves, LocksAt
  <2>6. Control' /\ Others(t) /\ th'[t] = r1
    BY <1>4, <2>4, <2>5, OneMoves DEF Others
  <2>7. FlushCacheTo(t, c)
    BY <1>6, <2>2, <2>6 DEF FlushCacheTo
  <2> QED BY <1>2, <1>4, <1>5, <2>2, <2>6, <2>7
<1>7. CASE cache[c] # _objc_empty_cache
  <2>1. Set(t, r2) /\ cacheUpdateLock' = t
    BY <1>3, <1>7
  <2>2. cache[c] \in Block \cup {_objc_empty_cache}
    BY <1>4 DEF Control, Shape, MemoryShape
  <2>3. /\ r2 \in Local /\ r2.pc = "empty" /\ r2.cls = th[t].cls /\ r2.sel = th[t].sel
        /\ r2.valid = th[t].valid /\ r2.alot = th[t].alot /\ r2.entry = th[t].entry
        /\ r2.flush = th[t].flush \ {c} /\ r2.back = th[t].back /\ r2.cache = cache[c]
        /\ r2.index = 0
    BY <1>1, <2>2, Zenon DEF Local, Labels
  <2> HIDE DEF r2
  <2>4. Placed(r2) /\ ~ LooksUp(r2)
    BY <1>1, <1>2, <1>5, <2>3 DEF Placed, LooksUp, Filling, Expanding, Reading
  <2>5. LockShape' /\ LocksKept(t)
    BY <1>2, <2>1, MethodCacheAssumption DEF Control, Shape, LockShape, LocksKept
  <2>6. Moves(t, r2)
    BY <1>1, <1>2, <1>5, <2>1, <2>3, <2>4, <2>5 DEF Moves, LocksAt
  <2>7. Control' /\ Others(t) /\ th'[t] = r2
    BY <1>4, <2>5, <2>6, OneMoves DEF Others
  <2>8. FlushCacheTo(t, c)
    BY <1>7, <2>3, <2>7 DEF FlushCacheTo
  <2> QED BY <1>2, <1>4, <1>5, <2>3, <2>7, <2>8
<1> QED BY <1>6, <1>7

LEMMA ChangedIs ==
  ASSUME Control, NEW t \in Thread, Changed(t)
  PROVE  /\ Control' /\ Others(t) /\ UNCHANGED <<memory, methods, initialized, readers, cacheUpdateLock>>
         /\ th[t].pc = "flush" /\ th[t].flush = {} /\ writer' = NULL /\ was' = methods
         /\ th'[t].pc \in {"idle", "read", "collect"}
         /\ th'[t].entry = Empty /\ th[t].entry = Empty
         /\ th'[t].cls = NULL
              \/ (th'[t].cls = th[t].cls /\ th'[t].sel = th[t].sel /\ th'[t].valid = th[t].valid)
<1> DEFINE r == [th[t] EXCEPT !.pc = th[t].back, !.back = "idle"]
<1>1. th[t] \in Local /\ Placed(th[t]) /\ LocksAt(t)
  BY LocalsAre
<1>2. th[t].pc = "flush" /\ th[t].flush = {} /\ writer' = NULL /\ was' = methods
      /\ Set(t, IF th[t].back = "idle" THEN Idle ELSE r)
      /\ UNCHANGED <<methods, initialized, calls, changes, memory, readers, cacheUpdateLock>>
  BY DEF Changed
<1>3. th[t].entry = Empty /\ ~ LooksUp(th[t]) /\ ~ th[t].alot
      /\ (th[t].back = "read" => th[t].cls \in CachedClass)
      /\ (th[t].back \in {"idle", "read", "collect"})
  BY <1>1, <1>2 DEF Placed, LooksUp, Filling, Expanding, Reading, Local
<1>4. MemoryShape' /\ ListShape'
  BY <1>2, ShapeStays DEF Control, Shape, ListShape
<1>5. LockShape' /\ LocksKept(t)
  <2>1. writer = t
    BY <1>1, <1>2 DEF LocksAt
  <2> QED BY <1>2, <2>1, MethodCacheAssumption DEF Control, Shape, LockShape, LocksKept
<1>6. CASE th[t].back = "idle"
  <2>1. Moves(t, Idle)
    BY <1>1, <1>2, <1>3, <1>5, <1>6, IdleIs, MethodCacheAssumption DEF Moves, LocksAt
  <2>2. Control' /\ Others(t) /\ th'[t] = Idle
    BY <1>4, <1>5, <2>1, OneMoves DEF Others
  <2> QED BY <1>2, <1>3, <2>2, IdleIs
<1>7. CASE th[t].back # "idle"
  <2>1. Set(t, r)
    BY <1>2, <1>7
  <2>2. /\ r \in Local /\ r.pc = th[t].back /\ r.cls = th[t].cls /\ r.sel = th[t].sel
        /\ r.valid = th[t].valid /\ r.alot = th[t].alot /\ r.entry = th[t].entry
        /\ r.back = "idle"
    <3>1. PICK p \in Labels : p = th[t].back
      BY <1>3 DEF Labels
    <3>2. r = [th[t] EXCEPT !.pc = p, !.back = "idle"]
      BY <3>1
    <3> QED BY <1>1, <3>1, <3>2 DEF Local
  <2> HIDE DEF r
  <2>3. Placed(r) /\ ~ LooksUp(r)
    BY <1>1, <1>3, <1>7, <2>2 DEF Placed, LooksUp, Filling, Expanding, Reading
  <2>4. Moves(t, r)
    BY <1>1, <1>2, <1>3, <1>5, <1>7, <2>1, <2>2, <2>3, MethodCacheAssumption DEF Moves, LocksAt
  <2>5. Control' /\ Others(t) /\ th'[t] = r
    BY <1>4, <1>5, <2>4, OneMoves DEF Others
  <2> QED BY <1>2, <1>3, <1>7, <2>2, <2>5
<1> QED BY <1>6, <1>7

LEMMA InitializeIs ==
  ASSUME Control, NEW c \in CachedClass, _class_initialize(c)
  PROVE  /\ Control' /\ UNCHANGED <<memory, locks, methods, was, th>>
<1>1. UNCHANGED <<memory, locks, methods, was, th, calls, changes>>
      /\ initialized' = initialized \cup {c}
  BY DEF _class_initialize
<1>2. MemoryShape' /\ ListShape'
  BY <1>1, ShapeStays DEF Control, Shape, ListShape
<1>3. LockShape' /\ th' \in [Thread -> Local]
  BY <1>1 DEF Control, Shape, LockShape, locks
<1>4. ASSUME NEW u \in Thread PROVE Placed(th'[u]) /\ LocksAt(u)'
  <2>1. Placed(th[u]) /\ LocksAt(u) /\ th' = th
    BY <1>1 DEF Control
  <2> QED BY <1>1, <2>1 DEF LocksAt, locks
<1> QED BY <1>1, <1>2, <1>3, <1>4 DEF Control, Shape

\* Thread u stays where it is, but for what its message may be answered.
Alike(u) ==
    /\ th'[u].pc = th[u].pc /\ th'[u].cls = th[u].cls /\ th'[u].sel = th[u].sel
    /\ th'[u].in = th[u].in /\ th'[u].cur = th[u].cur /\ th'[u].cache = th[u].cache
    /\ th'[u].index = th[u].index /\ th'[u].entry = th[u].entry
    /\ th'[u].flush = th[u].flush /\ th'[u].seen = th[u].seen /\ th'[u].alot = th[u].alot
    /\ th'[u].back = th[u].back /\ th'[u].answer = th[u].answer

Grown(u) ==
    th'[u].valid = IF th'[u].cls = NULL THEN th[u].valid
                   ELSE th[u].valid \cup {Resolve(methods', th'[u].cls, th'[u].sel)}

LEMMA ChangeListsIs ==
  ASSUME Control, NEW t \in Thread, NEW me, me = th[t] \/ (me \in Local /\ me.cls = NULL),
         th[t].pc \in {"idle", "write"}, me.entry = Empty, ~ me.alot,
         me.back = "read" => me.cls \in CachedClass,
         changes' \in 0 .. Changes,
         ChangeLists(t, me)
  PROVE  /\ Control' /\ UNCHANGED <<memory, initialized, readers, cacheUpdateLock>>
         /\ writer = NULL /\ readers = {} /\ was' = methods /\ methods' = NewMethods(me)
         /\ \A u \in Thread \ {t} : Alike(u) /\ Grown(u)
         /\ th'[t].pc = "flush" /\ th'[t].flush = ToFlush(me) /\ th'[t].entry = Empty
         /\ th'[t].cls = NULL \/ (th'[t].cls = th[t].cls /\ th'[t].sel = th[t].sel /\ Grown(t))
<1> DEFINE Right(l) == IF l.cls = NULL THEN l.valid
                       ELSE l.valid \cup {Resolve(NewMethods(me), l.cls, l.sel)}
           r == [me EXCEPT !.pc = "flush", !.flush = ToFlush(me), !.seen = {},
                           !.valid = Right(me)]
<1>1. me \in Local /\ th[t] \in Local /\ LocksAt(t) /\ (me.cls # NULL => me.sel \in Sel)
      /\ (me = th[t] => Placed(me))
  BY LocalsAre DEF Placed
<1>2. writer = NULL /\ readers = {} /\ writer' = t /\ methods' = NewMethods(me) /\ was' = methods
      /\ UNCHANGED <<initialized, calls, memory, readers, cacheUpdateLock>>
  BY DEF ChangeLists
<1>3. th' = [u \in Thread |-> IF u # t THEN [th[u] EXCEPT !.valid = Right(th[u])] ELSE r]
  BY DEF ChangeLists
<1>4. NewMethods(me) \in [CachedClass -> [Sel -> Nat]]
  <2>1. methods \in [CachedClass -> [Sel -> Nat]]
    BY DEF Control, Shape, ListShape
  <2> QED BY <2>1 DEF NewMethods
<1>5. ToFlush(me) \in SUBSET CachedClass
  BY DEF ToFlush, WithSubclasses
<1>6. ASSUME NEW l \in Local, l.cls # NULL => l.sel \in Sel
      PROVE  Right(l) \in SUBSET Entry
  <2>1. l.valid \in SUBSET Entry /\ (l.cls # NULL => l.cls \in CachedClass)
    BY DEF Local
  <2>2. l.cls # NULL => Resolve(NewMethods(me), l.cls, l.sel) \in Entry
    BY <1>4, <1>6, <2>1, ResolveIs DEF Entry
  <2> HIDE DEF NewMethods
  <2> QED BY <2>1, <2>2
<1>7. ASSUME NEW u \in Thread \ {t}
      PROVE  th'[u] \in Local /\ Alike(u) /\ th'[u].valid = Right(th[u])
  <2>1. th[u] \in Local /\ (th[u].cls # NULL => th[u].sel \in Sel)
    BY LocalsAre DEF Placed
  <2>2. Right(th[u]) \in SUBSET Entry
    BY <1>6, <2>1
  <2>3. th'[u] = [th[u] EXCEPT !.valid = Right(th[u])]
    BY <1>3
  <2> HIDE DEF Right
  <2> QED BY <2>1, <2>2, <2>3 DEF Local, Alike
<1>8. r \in Local /\ r.pc = "flush" /\ r.flush = ToFlush(me) /\ r.entry = Empty
      /\ r.cls = me.cls /\ r.sel = me.sel /\ r.valid = Right(me) /\ r.alot = me.alot
      /\ r.back = me.back
  <2>1. Right(me) \in SUBSET Entry
    BY <1>1, <1>6
  <2>2. PICK F \in SUBSET CachedClass : F = ToFlush(me)
    BY <1>5
  <2>3. PICK V \in SUBSET Entry : V = Right(me)
    BY <2>1
  <2>4. r = [me EXCEPT !.pc = "flush", !.flush = F, !.seen = {}, !.valid = V]
    BY <2>2, <2>3
  <2> HIDE DEF r, Right
  <2>5. r \in Local /\ r.pc = "flush" /\ r.flush = F /\ r.entry = me.entry
        /\ r.cls = me.cls /\ r.sel = me.sel /\ r.valid = V /\ r.alot = me.alot
        /\ r.back = me.back
    BY <1>1, <2>4, Zenon DEF Local, Labels
  <2> QED BY <2>2, <2>3, <2>5
<1>9. th'[t] = r
  BY <1>3
<1> HIDE DEF r
<1>10. Placed(r) /\ ~ LooksUp(r) /\ ~ LooksUp(th[t])
  BY <1>1, <1>8 DEF Placed, LooksUp, Filling, Expanding, Reading
<1>11. MemoryShape' /\ ListShape'
  BY <1>2, <1>4, ShapeStays DEF Control, Shape, ListShape
<1>12. LockShape' /\ th' \in [Thread -> Local]
  <2>1. \A u \in Thread : th'[u] \in Local
    BY <1>7, <1>8, <1>9
  <2>2. DOMAIN th' = Thread /\ th' = [u \in DOMAIN th' |-> th'[u]]
    BY <1>3
  <2>3. th' \in [Thread -> Local]
    BY <2>1, <2>2
  <2> QED BY <1>2, <2>3 DEF Control, Shape, LockShape
<1>13. ASSUME NEW u \in Thread PROVE Placed(th'[u]) /\ LocksAt(u)'
  <2>1. CASE u = t
    BY <1>1, <1>2, <1>8, <1>9, <1>10, <2>1 DEF LocksAt
  <2>2. CASE u # t
    <3>1. Placed(th[u]) /\ LocksAt(u) /\ Alike(u)
      BY <1>7, <2>2 DEF Control
    <3>2. Placed(th'[u]) /\ (LooksUp(th'[u]) <=> LooksUp(th[u]))
      BY <3>1 DEF Alike, Placed, LooksUp, Filling, Expanding
    <3>3. writer' # u /\ writer # u
      BY <1>2, <2>2, MethodCacheAssumption
    <3> QED BY <1>2, <3>1, <3>2, <3>3 DEF LocksAt, Alike
  <2> QED BY <2>1, <2>2
<1>14. Control'
  BY <1>11, <1>12, <1>13 DEF Control, Shape
<1>15. \A u \in Thread \ {t} : Alike(u) /\ Grown(u)
  <2> SUFFICES ASSUME NEW u \in Thread \ {t} PROVE Alike(u) /\ Grown(u)
    OBVIOUS
  <2>1. Alike(u) /\ th'[u].valid = Right(th[u])
    BY <1>7
  <2>2. th'[u].cls = th[u].cls /\ th'[u].sel = th[u].sel
    BY <2>1 DEF Alike
  <2> QED BY <1>2, <2>1, <2>2 DEF Grown
<1>16. th'[t].cls = NULL \/ (th'[t].cls = th[t].cls /\ th'[t].sel = th[t].sel /\ Grown(t))
  <2>1. CASE me = th[t]
    BY <1>2, <1>8, <1>9, <2>1 DEF Grown
  <2>2. CASE me.cls = NULL
    BY <1>8, <1>9, <2>2
  <2> QED BY <2>1, <2>2
<1> QED BY <1>2, <1>8, <1>9, <1>14, <1>15, <1>16

-----------------------------------------------------------------------------
(* Remainders, by which buckets are found.                                     *)

LEMMA ModOf ==
  ASSUME NEW n \in Nat \ {0}, NEW a \in Nat
  PROVE  a % n \in 0 .. n - 1 /\ a \div n \in Nat /\ a = n * (a \div n) + (a % n)
OBVIOUS
LEMMA ModIs ==
  ASSUME NEW n \in Nat \ {0}, NEW d \in Nat, NEW j \in 0 .. n - 1
  PROVE  (n * d + j) % n = j
<1>1. PICK a \in Nat : a = n * d + j
  OBVIOUS
<1>2. PICK q \in Nat, r \in 0 .. n - 1 : r = a % n /\ a = n * q + r
  BY ModOf
<1>3. n * (d - q) = r - j
  BY <1>1, <1>2
<1>4. d - q \in Int /\ r - j < n /\ r - j > - n
  BY <1>2
<1>5. ASSUME NEW x \in Int, n * x < n, n * x > - n PROVE x = 0
  <2>1. x >= 1 => n * x >= n
    OBVIOUS
  <2>2. x <= -1 => n * x <= - n
    OBVIOUS
  <2> QED BY <1>5, <2>1, <2>2
<1>6. d - q = 0
  BY <1>3, <1>4, <1>5
<1> QED BY <1>1, <1>2, <1>3, <1>6

\* Counting up from any h, one comes to every remainder.
LEMMA ModReaches ==
  ASSUME NEW n \in Nat \ {0}, NEW h \in Nat, NEW j \in 0 .. n - 1
  PROVE  \E k \in 0 .. n - 1 : (h + k) % n = j
<1>1. PICK d \in Nat, q \in 0 .. n - 1 : h = n * d + q
  BY ModOf
<1>2. CASE q <= j
  <2>1. h + (j - q) = n * d + j
    BY <1>1
  <2>2. j - q \in 0 .. n - 1
    BY <1>2
  <2> QED BY <2>1, <2>2, ModIs
<1>3. CASE j < q
  <2>1. h + (j - q + n) = n * (d + 1) + j /\ d + 1 \in Nat
    BY <1>1
  <2>2. j - q + n \in 0 .. n - 1
    BY <1>3
  <2> QED BY <2>1, <2>2, ModIs
<1> QED BY <1>2, <1>3

-----------------------------------------------------------------------------
(* How memory changes.                                                         *)

LEMMA RecordIs ==
  ASSUME NEW r \in CacheRecord
  PROVE  /\ Cardinality(DOMAIN r.buckets) \in Nat \ {0} /\ IsFiniteSet(DOMAIN r.buckets)
         /\ DOMAIN r.buckets = 0 .. Cardinality(DOMAIN r.buckets) - 1
         /\ r.buckets \in [DOMAIN r.buckets -> Entry]
         /\ r.occupied \in Nat /\ r.kind = "cache" /\ r \in HeapValue
<1>1. PICK n \in Nat \ {0} : r.buckets \in [0 .. n - 1 -> Entry]
  BY DEF CacheRecord
<1>2. IsFiniteSet(0 .. n - 1) /\ Cardinality(0 .. n - 1) = n
  BY FS_Interval
<1>3. DOMAIN r.buckets = 0 .. n - 1
  BY <1>1
<1>4. r.occupied \in Nat /\ r.kind = "cache" /\ r \in HeapValue
  BY DEF CacheRecord, HeapValue
<1> QED BY <1>1, <1>2, <1>3, <1>4

LEMMA CacheBlockIs ==
  ASSUME NEW n \in Nat \ {0}
  PROVE  /\ CacheBlock(n) \in CacheRecord /\ CacheBlock(n).occupied = 0
         /\ DOMAIN CacheBlock(n).buckets = 0 .. n - 1
         /\ Cardinality(DOMAIN CacheBlock(n).buckets) = n
         /\ \A i \in 0 .. n - 1 : CacheBlock(n).buckets[i] = Empty
<1> DEFINE f == [i \in 0 .. n - 1 |-> <<>>]
<1>1. f \in [0 .. n - 1 -> Entry]
  BY EntriesAre DEF Empty
<1>2. DOMAIN f = 0 .. n - 1 /\ \A i \in 0 .. n - 1 : f[i] = <<>>
  OBVIOUS
<1>3. CacheBlock(n) = [kind |-> "cache", occupied |-> 0, buckets |-> f]
  BY DEF CacheBlock
<1> HIDE DEF f
<1>4. CacheBlock(n) \in CacheRecord
  BY <1>1, <1>3 DEF CacheRecord
<1>5. CacheBlock(n).buckets = f /\ CacheBlock(n).occupied = 0
  BY <1>3
<1>6. Cardinality(0 .. n - 1) = n
  BY FS_Interval
<1> QED BY <1>2, <1>4, <1>5, <1>6 DEF Empty

LEMMA HeapSet ==
  ASSUME MemoryShape, NEW b \in Block, NEW v \in HeapValue, heap' = [heap EXCEPT ![b] = v]
  PROVE  /\ heap' \in [Block \cup {_objc_empty_cache} -> HeapValue]
         /\ heap'[_objc_empty_cache] = CacheBlock(1)
         /\ heap'[b] = v
         /\ \A d \in (Block \cup {_objc_empty_cache}) \ {b} : heap'[d] = heap[d]
<1>1. heap \in [Block \cup {_objc_empty_cache} -> HeapValue] /\ heap[_objc_empty_cache] = CacheBlock(1)
  BY DEF MemoryShape
<1>2. _objc_empty_cache # b
  BY EmptyCacheIs
<1> QED BY <1>1, <1>2

\* The entry goes to an empty bucket.
LEMMA FirstSlotIs ==
  ASSUME MemoryShape, NEW b \in Block, heap[b].kind = "cache",
         Used(b) # DOMAIN heap[b].buckets, NEW e \in Entry, NEW s \in Sel
  PROVE  \E i \in DOMAIN heap[b].buckets :
            /\ heap[b].buckets[i] = Empty
            /\ Inserted(b, e, s) \in CacheRecord
            /\ Inserted(b, e, s).occupied = heap[b].occupied + 1
            /\ Inserted(b, e, s).buckets = [heap[b].buckets EXCEPT ![i] = e]
<1> DEFINE size == Mask(heap, b) + 1
           Slot(k) == (Hash[s] + k) % size
           P(k) == /\ heap[b].buckets[Slot(k)] = Empty
                   /\ \A j \in 0 .. k - 1 : heap[b].buckets[Slot(j)] # Empty
           first == CHOOSE k \in 0 .. size - 1 : P(k)
           K == {k \in 0 .. size - 1 : heap[b].buckets[Slot(k)] = Empty}
<1>1. size \in Nat \ {0} /\ DOMAIN heap[b].buckets = 0 .. size - 1
  BY CacheIs DEF Size
<1>2. Inserted(b, e, s) = [heap[b] EXCEPT !.occupied = @ + 1, !.buckets[Slot(first)] = e]
  BY DEF Inserted
<1>3. Hash[s] \in Nat
  BY MethodCacheAssumption
<1> HIDE DEF size
<1>4. \A k \in 0 .. size - 1 : Slot(k) \in 0 .. size - 1
  BY <1>1, <1>3
<1>5. K # {} /\ K \in SUBSET Nat
  <2>1. PICK j \in 0 .. size - 1 : heap[b].buckets[j] = Empty
    BY <1>1 DEF Used
  <2>2. PICK k \in 0 .. size - 1 : Slot(k) = j
    BY <1>1, <1>3, ModReaches
  <2> QED BY <1>1, <2>1, <2>2
<1>6. PICK k \in K : \A m \in K : k <= m
  BY <1>5, LeastNatural
<1>7. P(k) /\ k \in 0 .. size - 1
  BY <1>1, <1>6
<1>8. first \in 0 .. size - 1 /\ P(first)
  <2> HIDE DEF P
  <2> QED BY <1>7
<1>9. heap[b].buckets[Slot(first)] = Empty /\ Slot(first) \in DOMAIN heap[b].buckets
  BY <1>1, <1>4, <1>8, Zenon
<1>10. PICK i \in DOMAIN heap[b].buckets : i = Slot(first)
  BY <1>9
<1>11. PICK n \in Nat : n = heap[b].occupied + 1
  BY CacheIs
<1> HIDE DEF first, Slot
<1>12. PICK v : v = Inserted(b, e, s)
  OBVIOUS
<1>13. v = [heap[b] EXCEPT !.occupied = heap[b].occupied + 1, !.buckets[Slot(first)] = e]
  BY <1>2, <1>12, Zenon
<1>14. v = [heap[b] EXCEPT !.occupied = n, !.buckets[i] = e]
  BY <1>10, <1>11, <1>13, Zenon
<1>15. v \in CacheRecord /\ v.occupied = n /\ v.buckets = [heap[b].buckets EXCEPT ![i] = e]
  <2>1. heap[b] \in CacheRecord
    BY KindsAre
  <2>2. PICK w \in Nat \ {0} : heap[b].buckets \in [0 .. w - 1 -> Entry]
    BY <2>1 DEF CacheRecord
  <2>3. PICK f : f = [heap[b].buckets EXCEPT ![i] = e]
    OBVIOUS
  <2>4. f \in [0 .. w - 1 -> Entry]
    BY <2>2, <2>3
  <2>5. v = [kind |-> "cache", occupied |-> n, buckets |-> f]
    BY <1>14, <2>1, <2>3 DEF CacheRecord
  <2> QED BY <2>3, <2>4, <2>5 DEF CacheRecord
<1> QED BY <1>9, <1>10, <1>11, <1>12, <1>15

-----------------------------------------------------------------------------
(* Filling and emptying caches.                                                *)

LEMMA AnsweredMoves ==
  ASSUME Control, NEW t \in Thread, Filling(th[t]), NEW a \in Entry, Set(t, Answered(t, a)),
         UNCHANGED <<writer, readers, rest>>, MemoryShape',
         cacheUpdateLock' = IF cacheUpdateLock = t THEN NULL ELSE cacheUpdateLock
  PROVE  /\ Control' /\ Others(t)
         /\ th'[t].pc = "unlock" /\ th'[t].cls = NULL /\ th'[t].entry = Empty
         /\ th'[t].answer = a /\ th'[t].valid = th[t].valid
<1> DEFINE r == Answered(t, a)
<1>1. th[t] \in Local /\ Placed(th[t]) /\ LocksAt(t) /\ LooksUp(th[t])
  BY LocalsAre DEF LooksUp
<1>2. ListShape'
  BY ShapeStays
<1>3. LockShape' /\ LocksKept(t)
  BY MethodCacheAssumption DEF Control, Shape, LockShape, LocksKept
<1>4. th[t].pc \notin {"flush", "empty"}
  BY DEF Filling, Expanding
<1>5. Moves(t, r)
  BY <1>1, <1>3, <1>4, AnsweredIs, MethodCacheAssumption DEF Moves, LocksAt
<1>6. Control' /\ Others(t) /\ th'[t] = r
  BY <1>2, <1>3, <1>5, OneMoves DEF Others
<1> QED BY <1>6, AnsweredIs

LEMMA ExpandMoves ==
  ASSUME Control, NEW t \in Thread, th[t].pc = "fill", cacheUpdateLock = NULL, cacheUpdateLock' = t,
         UNCHANGED <<writer, readers, rest>>, MemoryShape',
         Goto(t, "insert") \/ Set(t, [th[t] EXCEPT !.pc = "scan", !.seen = {}])
  PROVE  /\ Control' /\ Others(t)
         /\ th'[t].pc \in {"insert", "scan"} /\ ~ th'[t].alot
         /\ th'[t].pc = "scan" => th'[t].seen = {}
         /\ th'[t].entry = th[t].entry /\ th'[t].cls = th[t].cls /\ th'[t].sel = th[t].sel
         /\ th'[t].valid = th[t].valid
<1> DEFINE r1 == [th[t] EXCEPT !.pc = "insert"]
           r2 == [th[t] EXCEPT !.pc = "scan", !.seen = {}]
<1>1. th[t] \in Local /\ Placed(th[t]) /\ LocksAt(t) /\ LooksUp(th[t])
  BY LocalsAre DEF LooksUp, Filling
<1>2. ListShape'
  BY ShapeStays
<1>3. LockShape' /\ LocksKept(t)
  BY MethodCacheAssumption DEF Control, Shape, LockShape, LocksKept
<1>4. ASSUME NEW r, Set(t, r), r \in Local, Placed(r), LooksUp(r), r.pc \in {"insert", "scan"}
      PROVE  Control' /\ Others(t) /\ th'[t] = r
  <2>1. Moves(t, r)
    BY <1>1, <1>3, <1>4 DEF Moves, LocksAt
  <2> QED BY <1>2, <1>3, <2>1, OneMoves DEF Others
<1>5. th[t].cls \in CachedClass /\ ~ th[t].alot /\ th[t].entry # Empty
  BY <1>1 DEF Placed, Filling
<1>6. CASE Goto(t, "insert")
  <2>1. r1 \in Local /\ r1.pc = "insert" /\ r1.cls = th[t].cls /\ r1.sel = th[t].sel
        /\ r1.valid = th[t].valid /\ r1.alot = th[t].alot /\ r1.entry = th[t].entry
    BY <1>1 DEF Local, Labels
  <2>2. Set(t, r1)
    BY <1>6 DEF Goto
  <2> HIDE DEF r1
  <2>3. Placed(r1) /\ LooksUp(r1)
    BY <1>1, <1>5, <2>1 DEF Placed, LooksUp, Filling, Expanding, Reading
  <2>4. Control' /\ Others(t) /\ th'[t] = r1
    BY <1>4, <2>1, <2>2, <2>3
  <2> QED BY <1>5, <2>1, <2>4
<1>7. CASE Set(t, r2)
  <2>1. r2 \in Local /\ r2.pc = "scan" /\ r2.cls = th[t].cls /\ r2.sel = th[t].sel
        /\ r2.valid = th[t].valid /\ r2.alot = th[t].alot /\ r2.entry = th[t].entry /\ r2.seen = {}
    BY <1>1, Zenon DEF Local, Labels
  <2> HIDE DEF r2
  <2>2. Placed(r2) /\ LooksUp(r2)
    BY <1>1, <1>5, <2>1 DEF Placed, LooksUp, Filling, Expanding, Reading
  <2>3. Control' /\ Others(t) /\ th'[t] = r2
    BY <1>4, <1>7, <2>1, <2>2
  <2> QED BY <1>5, <2>1, <2>3
<1> QED BY <1>6, <1>7

LEMMA AddForwardIs ==
  ASSUME Control, NEW t \in Thread, _cache_addForwardEntry(t)
  PROVE  /\ Control' /\ Others(t) /\ UNCHANGED <<cache, garbage_refs, garbage_byte_size, locks, rest>>
         /\ th[t].pc = "forward" /\ th'[t].pc = "fill"
         /\ th'[t].cls = th[t].cls /\ th'[t].sel = th[t].sel /\ th'[t].valid = th[t].valid
         /\ \E f \in Block : /\ heap[f] = Free /\ heap' = [heap EXCEPT ![f] = ForwardEntry(th[t].sel)]
                             /\ th'[t].entry = ForwardIn(f)
<1>1. th[t] \in Local /\ Placed(th[t]) /\ LocksAt(t) /\ MemoryShape
  BY LocalsAre DEF Control, Shape
<1>2. th[t].pc = "forward" /\ UNCHANGED <<cache, garbage_refs, garbage_byte_size, locks, rest>>
      /\ Unused # {} /\ heap' = [heap EXCEPT ![Fresh] = ForwardEntry(th[t].sel)]
      /\ Set(t, [th[t] EXCEPT !.pc = "fill", !.entry = ForwardIn(Fresh)])
  BY DEF _cache_addForwardEntry
<1>3. PICK f \in Block : f = Fresh /\ heap[f] = Free
  BY <1>2, FreshIs
<1> DEFINE r == [th[t] EXCEPT !.pc = "fill", !.entry = ForwardIn(f)]
<1>4. th[t].cls \in CachedClass /\ th[t].sel \in Sel
  BY <1>1, <1>2, MethodCacheAssumption DEF Placed
<1>5. ForwardEntry(th[t].sel) \in HeapValue /\ ForwardIn(f) \in Entry /\ ForwardIn(f) # Empty
  BY <1>4, EntriesAre DEF HeapValue
<1>6. r \in Local /\ r.pc = "fill" /\ r.cls = th[t].cls /\ r.sel = th[t].sel
      /\ r.valid = th[t].valid /\ r.alot = th[t].alot /\ r.entry = ForwardIn(f)
  BY <1>1, <1>5, Zenon DEF Local, Labels
<1>7. Set(t, r)
  BY <1>2, <1>3
<1> HIDE DEF r
<1>8. Placed(r) /\ LooksUp(r) /\ LooksUp(th[t])
  BY <1>1, <1>2, <1>5, <1>6 DEF Placed, LooksUp, Filling, Expanding, Reading
<1>9. MemoryShape' /\ ListShape' /\ LockShape' /\ LocksKept(t)
      /\ readers' = readers /\ writer' = writer /\ cacheUpdateLock' = cacheUpdateLock
  <2>1. heap' \in [Block \cup {_objc_empty_cache} -> HeapValue] /\ heap'[_objc_empty_cache] = CacheBlock(1)
    BY <1>1, <1>2, <1>3, <1>5, HeapSet
  <2>2. MemoryShape'
    BY <1>1, <1>2, <2>1 DEF MemoryShape
  <2> QED BY <1>2, <2>2, LocksStay, ShapeStays
<1>10. Moves(t, r)
  BY <1>1, <1>2, <1>6, <1>7, <1>8, <1>9 DEF Moves, LocksAt
<1>11. Control' /\ Others(t) /\ th'[t] = r
  BY <1>9, <1>10, OneMoves DEF Others
<1> QED BY <1>2, <1>3, <1>6, <1>11

LEMMA NotAddedIs ==
  ASSUME Control, NEW t \in Thread, Filling(th[t]), NotAdded(t),
         UNCHANGED <<writer, readers, cacheUpdateLock, rest>>, cacheUpdateLock # t
  PROVE  /\ Control' /\ Others(t) /\ UNCHANGED <<cache, garbage_refs, garbage_byte_size>>
         /\ th'[t].pc = "unlock" /\ th'[t].cls = NULL /\ th'[t].entry = Empty
         /\ th'[t].answer = Imp(th[t].entry) /\ th'[t].valid = th[t].valid
         /\ \/ ~ IsForward(th[t].entry) /\ heap' = heap
            \/ \E b \in Block : th[t].entry = ForwardIn(b) /\ heap' = [heap EXCEPT ![b] = Free]
<1>1. th[t].entry \in Entry /\ MemoryShape
  BY LocalsAre DEF Control, Shape, Local
<1>2. /\ heap' = IF IsForward(th[t].entry) THEN [heap EXCEPT ![th[t].entry[2]] = Free] ELSE heap
      /\ Set(t, Answered(t, Imp(th[t].entry)))
      /\ UNCHANGED <<cache, garbage_refs, garbage_byte_size>>
  BY DEF NotAdded
<1>3. \/ ~ IsForward(th[t].entry) /\ heap' = heap
      \/ \E b \in Block : th[t].entry = ForwardIn(b) /\ heap' = [heap EXCEPT ![b] = Free]
  BY <1>1, <1>2, EntriesAre
<1>4. MemoryShape'
  <2>1. CASE heap' = heap
    BY <1>1, <1>2, <2>1 DEF MemoryShape
  <2>2. ASSUME NEW b \in Block, heap' = [heap EXCEPT ![b] = Free]
        PROVE  MemoryShape'
    <3>1. Free \in HeapValue
      BY DEF HeapValue
    <3>2. heap' \in [Block \cup {_objc_empty_cache} -> HeapValue] /\ heap'[_objc_empty_cache] = CacheBlock(1)
      BY <1>1, <2>2, <3>1, HeapSet
    <3> QED BY <1>1, <1>2, <3>2 DEF MemoryShape
  <2> QED BY <1>3, <2>1, <2>2
<1>5. Imp(th[t].entry) \in Entry
  BY <1>1, ImpIs
<1>6. cacheUpdateLock' = IF cacheUpdateLock = t THEN NULL ELSE cacheUpdateLock
  OBVIOUS
<1> QED BY <1>2, <1>3, <1>4, <1>5, <1>6, AnsweredMoves

InsertTo(t) ==
    LET b == cache[th[t].cls] IN
    \E i \in DOMAIN heap[b].buckets :
        /\ heap[b].buckets[i] = Empty
        /\ heap'[b].kind = "cache" /\ heap'[b].occupied = heap[b].occupied + 1
        /\ heap'[b].buckets = [heap[b].buckets EXCEPT ![i] = th[t].entry]

LEMMA InsertIs ==
  ASSUME Control, NEW t \in Thread, Filling(th[t]), Insert(t),
         UNCHANGED <<writer, readers, rest>>, cacheUpdateLock \in {NULL, t},
         cache[th[t].cls] \in Block, heap[cache[th[t].cls]].kind = "cache",
         Used(cache[th[t].cls]) # DOMAIN heap[cache[th[t].cls]].buckets
  PROVE  /\ Control' /\ Others(t) /\ UNCHANGED <<cache, garbage_refs, garbage_byte_size>>
         /\ th'[t].pc = "unlock" /\ th'[t].cls = NULL /\ th'[t].entry = Empty
         /\ th'[t].answer = Imp(th[t].entry) /\ th'[t].valid = th[t].valid
         /\ \A d \in (Block \cup {_objc_empty_cache}) \ {cache[th[t].cls]} : heap'[d] = heap[d]
         /\ InsertTo(t)
<1>1. th[t] \in Local /\ th[t].entry \in Entry /\ MemoryShape /\ th[t].cls \in CachedClass /\ th[t].sel \in Sel
  <2>1. th[t] \in Local /\ Placed(th[t]) /\ MemoryShape
    BY LocalsAre DEF Control, Shape
  <2>2. th[t].cls \in CachedClass /\ th[t].sel \in Sel
    BY <2>1, MethodCacheAssumption DEF Placed
  <2> QED BY <2>1, <2>2 DEF Local
<1>2. PICK b \in Block : b = cache[th[t].cls]
  OBVIOUS
<1>0. heap[b].kind = "cache" /\ Used(b) # DOMAIN heap[b].buckets
  BY <1>2
<1>3. PICK e \in Entry : e = th[t].entry
  BY <1>1
<1>4. PICK v : v = Inserted(b, e, th[t].sel)
  OBVIOUS
<1>5. heap' = [heap EXCEPT ![b] = v] /\ Set(t, Answered(t, Imp(e))) /\ cacheUpdateLock' = NULL
      /\ UNCHANGED <<cache, garbage_refs, garbage_byte_size>>
  BY <1>2, <1>3, <1>4 DEF Insert
<1>6. PICK i \in DOMAIN heap[b].buckets :
            /\ heap[b].buckets[i] = Empty
            /\ v \in CacheRecord /\ v.occupied = heap[b].occupied + 1
            /\ v.buckets = [heap[b].buckets EXCEPT ![i] = e]
  BY <1>0, <1>1, <1>4, FirstSlotIs
<1>10. /\ heap' \in [Block \cup {_objc_empty_cache} -> HeapValue]
       /\ heap'[_objc_empty_cache] = CacheBlock(1) /\ heap'[b] = v
       /\ \A d \in (Block \cup {_objc_empty_cache}) \ {b} : heap'[d] = heap[d]
  BY <1>1, <1>5, <1>6, RecordIs, HeapSet
<1>11. MemoryShape'
  BY <1>1, <1>5, <1>10 DEF MemoryShape
<1>12. Imp(e) \in Entry
  BY ImpIs
<1>13. cacheUpdateLock' = IF cacheUpdateLock = t THEN NULL ELSE cacheUpdateLock
  BY <1>5
<1>14. InsertTo(t)
  BY <1>2, <1>3, <1>6, <1>10, RecordIs, Zenon DEF InsertTo
<1>15. /\ Control' /\ Others(t) /\ th'[t].pc = "unlock" /\ th'[t].cls = NULL /\ th'[t].entry = Empty
       /\ th'[t].answer = Imp(e) /\ th'[t].valid = th[t].valid
  BY <1>5, <1>11, <1>12, <1>13, AnsweredMoves
<1> QED BY <1>2, <1>3, <1>5, <1>10, <1>14, <1>15

\* The class has an empty cache of its own now.
NewCache(t, f, n) ==
    /\ heap[f] = Free /\ heap' = [heap EXCEPT ![f] = CacheBlock(n)]
    /\ cache' = [cache EXCEPT ![th[t].cls] = f]

Expanded(t) ==
    /\ Others(t)
    /\ th'[t].pc \in {"insert", "scan"} /\ ~ th'[t].alot
    /\ th'[t].pc = "scan" => th'[t].seen = {}
    /\ th'[t].entry = th[t].entry /\ th'[t].cls = th[t].cls /\ th'[t].sel = th[t].sel
    /\ th'[t].valid = th[t].valid

LEMMA NewCacheIs ==
  ASSUME Control, NEW t \in Thread, th[t].cls \in CachedClass, NEW f \in Block, NEW n \in Nat \ {0},
         NewCache(t, f, n)
  PROVE  /\ cache' \in [CachedClass -> Block \cup {_objc_empty_cache}]
         /\ heap' \in [Block \cup {_objc_empty_cache} -> HeapValue]
         /\ heap'[_objc_empty_cache] = CacheBlock(1) /\ heap'[f] = CacheBlock(n)
         /\ \A d \in (Block \cup {_objc_empty_cache}) \ {f} : heap'[d] = heap[d]
         /\ cache'[th[t].cls] = f /\ \A c \in CachedClass \ {th[t].cls} : cache'[c] = cache[c]
<1>1. MemoryShape
  BY DEF Control, Shape
<1>2. CacheBlock(n) \in HeapValue
  BY CacheBlockIs, RecordIs
<1>3. heap' = [heap EXCEPT ![f] = CacheBlock(n)] /\ cache' = [cache EXCEPT ![th[t].cls] = f]
  BY DEF NewCache
<1>4. /\ heap' \in [Block \cup {_objc_empty_cache} -> HeapValue]
      /\ heap'[_objc_empty_cache] = CacheBlock(1) /\ heap'[f] = CacheBlock(n)
      /\ \A d \in (Block \cup {_objc_empty_cache}) \ {f} : heap'[d] = heap[d]
  BY <1>1, <1>2, <1>3, HeapSet
<1>5. cache \in [CachedClass -> Block \cup {_objc_empty_cache}]
  BY <1>1 DEF MemoryShape
<1> QED BY <1>3, <1>4, <1>5

LEMMA CreateIs ==
  ASSUME Control, NEW t \in Thread, th[t].pc = "fill", cacheUpdateLock = NULL, cacheUpdateLock' = t,
         UNCHANGED <<writer, readers, rest>>, Unused # {}, _cache_create(t)
  PROVE  /\ Control' /\ Expanded(t) /\ UNCHANGED <<garbage_refs, garbage_byte_size>>
         /\ \E f \in Block : NewCache(t, f, INIT_CACHE_SIZE)
<1>1. th[t].cls \in CachedClass /\ MemoryShape
  BY LocalsAre DEF Placed, Filling, Control, Shape
<1>2. PICK f \in Block : f = Fresh /\ heap[f] = Free
  BY FreshIs
<1>3. NewCache(t, f, INIT_CACHE_SIZE) /\ UNCHANGED <<garbage_refs, garbage_byte_size>>
      /\ Goto(t, "insert")
  BY <1>2 DEF _cache_create, NewCache
<1>4. INIT_CACHE_SIZE \in Nat \ {0}
  BY MethodCacheAssumption
<1>5. MemoryShape'
  BY <1>1, <1>3, <1>4, NewCacheIs DEF MemoryShape
<1>6. Control' /\ Expanded(t)
  BY <1>3, <1>5, ExpandMoves, Zenon DEF Expanded
<1> QED BY <1>3, <1>6

\* The forward entries of a cache, each once.
LEMMA ForwardsAre ==
  ASSUME MemoryShape, NEW b \in Block, heap[b].kind = "cache"
  PROVE  /\ ForwardEntries(heap[b].buckets) \in Seq(Block)
         /\ \E at :
              /\ \A k \in 1 .. Len(ForwardEntries(heap[b].buckets)) :
                   /\ at[k] \in DOMAIN heap[b].buckets
                   /\ heap[b].buckets[at[k]] = ForwardIn(ForwardEntries(heap[b].buckets)[k])
              /\ \A k, l \in 1 .. Len(ForwardEntries(heap[b].buckets)) : at[k] = at[l] => k = l
              /\ \A i \in DOMAIN heap[b].buckets : IsForward(heap[b].buckets[i]) =>
                   \E k \in 1 .. Len(ForwardEntries(heap[b].buckets)) : at[k] = i
<1>1. PICK B : B = heap[b].buckets
  OBVIOUS
<1>2. IsFiniteSet(DOMAIN B) /\ B \in [DOMAIN B -> Entry]
  BY <1>1, CacheIs
<1> DEFINE S == {i \in DOMAIN B : IsForward(B[i])}
<1>3. IsFiniteSet(S)
  BY <1>2, FS_Subset
<1>4. PICK n \in Nat : n = Cardinality(S)
  BY <1>3, FS_CardinalityType
<1>5. PICK at : at = SetToSeq(S)
  OBVIOUS
<1>6. at \in Seq(S) /\ Len(at) = n /\ (\A i, j \in 1 .. n : at[i] = at[j] => i = j)
      /\ \A x \in S : \E i \in 1 .. n : at[i] = x
  BY <1>3, <1>4, <1>5, SetToSeqIs
<1>7. DOMAIN at = 1 .. n /\ \A k \in 1 .. n : at[k] \in S
  BY <1>6
<1>8. PICK F : F = ForwardEntries(B)
  OBVIOUS
<1>9. F = [k \in DOMAIN at |-> B[at[k]][2]]
  BY <1>5, <1>8 DEF ForwardEntries
<1>10. \A k \in 1 .. n : F[k] \in Block /\ B[at[k]] = ForwardIn(F[k]) /\ at[k] \in DOMAIN B
  <2> SUFFICES ASSUME NEW k \in 1 .. n
               PROVE  F[k] \in Block /\ B[at[k]] = ForwardIn(F[k]) /\ at[k] \in DOMAIN B
    OBVIOUS
  <2>1. at[k] \in DOMAIN B /\ IsForward(B[at[k]]) /\ B[at[k]] \in Entry
    BY <1>2, <1>7
  <2>2. F[k] = B[at[k]][2]
    BY <1>7, <1>9
  <2> QED BY <2>1, <2>2, EntriesAre
<1>11. F \in Seq(Block) /\ Len(F) = n
  <2>1. DOMAIN F = 1 .. n
    BY <1>7, <1>9
  <2>2. F \in [1 .. n -> Block]
    BY <1>9, <1>10, <2>1
  <2> QED BY <2>2
<1> QED BY <1>1, <1>6, <1>7, <1>8, <1>10, <1>11

ExpandTo(t, old) ==
    LET fs == ForwardEntries(heap[old].buckets) IN
    /\ garbage_refs' = garbage_refs \o fs \o <<old>>
    /\ \E f \in Block : \E n \in Nat \ {0, 1} : NewCache(t, f, n)

LEMMA ExpandIs ==
  ASSUME Control, NEW t \in Thread, th[t].pc = "fill", cacheUpdateLock = NULL, cacheUpdateLock' = t,
         UNCHANGED <<writer, readers, rest>>, Unused # {}, _cache_expand(t),
         cache[th[t].cls] \in Block, heap[cache[th[t].cls]].kind = "cache"
  PROVE  /\ Control' /\ Expanded(t) /\ ExpandTo(t, cache[th[t].cls])
<1>1. th[t].cls \in CachedClass /\ MemoryShape
  BY LocalsAre DEF Placed, Filling, Control, Shape
<1>2. PICK f \in Block : f = Fresh /\ heap[f] = Free
  BY FreshIs
<1>3. PICK old \in Block : old = cache[th[t].cls]
  OBVIOUS
<1>4. old # _objc_empty_cache
  BY <1>1, EmptyCacheIs
<1>5. PICK fs : fs = ForwardEntries(heap[old].buckets)
  OBVIOUS
<1>6. PICK k \in Nat \ {0} : k = Size(old) /\ Mask(heap, old) = k - 1
  BY <1>1, <1>3, CacheIs
<1>7. PICK n \in Nat \ {0, 1} : n = 2 * (Mask(heap, old) + 1)
  BY <1>6
<1>8. /\ heap' = [heap EXCEPT ![f] = CacheBlock(n)]
      /\ cache' = [cache EXCEPT ![th[t].cls] = f]
      /\ garbage_refs' = garbage_refs \o fs \o <<old>>
      /\ garbage_byte_size' = garbage_byte_size + EntrySize * Len(fs) + Mask(heap, old)
      /\ IF garbage_byte_size' < garbage_threshold THEN Goto(t, "insert")
         ELSE Set(t, [th[t] EXCEPT !.pc = "scan", !.seen = {}])
  BY <1>2, <1>3, <1>4, <1>5, <1>7, Zenon DEF _cache_expand
<1>9. NewCache(t, f, n)
  BY <1>2, <1>8 DEF NewCache
<1>10. fs \in Seq(Block)
  BY <1>1, <1>3, <1>5, ForwardsAre
<1>11. garbage_refs' \in Seq(Block) /\ garbage_byte_size' \in Nat
  <2>1. garbage_refs \in Seq(Block) /\ garbage_byte_size \in Nat
    BY <1>1 DEF MemoryShape
  <2>2. Len(fs) \in Nat
    BY <1>10
  <2>3. garbage_byte_size' \in Nat
    BY <1>6, <1>8, <2>1, <2>2 DEF EntrySize
  <2>4. <<old>> \in Seq(Block)
    OBVIOUS
  <2>5. garbage_refs' \in Seq(Block)
    BY <1>8, <1>10, <2>1, <2>4
  <2> QED BY <2>3, <2>5
<1>12. n \in Nat \ {0}
  OBVIOUS
<1>13. MemoryShape'
  BY <1>1, <1>9, <1>11, <1>12, NewCacheIs DEF MemoryShape
<1>14. Goto(t, "insert") \/ Set(t, [th[t] EXCEPT !.pc = "scan", !.seen = {}])
  BY <1>8
<1>15. Control' /\ Expanded(t)
  BY <1>13, <1>14, ExpandMoves, Zenon DEF Expanded
<1>16. ExpandTo(t, old)
  BY <1>5, <1>8, <1>9 DEF ExpandTo
<1> QED BY <1>3, <1>15, <1>16

LEMMA CollectIs ==
  ASSUME Control, NEW t \in Thread, _cache_collect(t)
  PROVE  /\ Control' /\ Others(t) /\ UNCHANGED <<cache, writer, readers, rest>>
         /\ garbage_refs' = <<>> /\ th[t].pc = "scan" /\ th[t].seen = Thread \ {t}
         /\ \A b \in Block \cup {_objc_empty_cache} :
              heap'[b] = IF b \in ToSet(garbage_refs) THEN Free ELSE heap[b]
         /\ \/ th[t].alot /\ th'[t] = Idle
            \/ /\ ~ th[t].alot /\ th'[t].pc = "insert" /\ th'[t].entry = th[t].entry
               /\ th'[t].cls = th[t].cls /\ th'[t].sel = th[t].sel /\ th'[t].valid = th[t].valid
               /\ ~ th'[t].alot
<1> DEFINE r == [th[t] EXCEPT !.pc = "insert"]
<1>1. th[t] \in Local /\ Placed(th[t]) /\ LocksAt(t) /\ MemoryShape
  BY LocalsAre DEF Control, Shape
<1>2. /\ th[t].pc = "scan" /\ th[t].seen = Thread \ {t}
      /\ garbage_refs' = <<>> /\ garbage_byte_size' = 0
      /\ UNCHANGED <<cache, writer, readers, rest>>
      /\ heap' = [b \in DOMAIN heap |-> IF b \in ToSet(garbage_refs) THEN Free ELSE heap[b]]
  BY DEF _cache_collect
<1>3. IF th[t].alot THEN cacheUpdateLock' = NULL /\ Set(t, Idle)
      ELSE cacheUpdateLock' = cacheUpdateLock /\ Goto(t, "insert")
  BY DEF _cache_collect
<1>4. \A b \in Block \cup {_objc_empty_cache} :
        heap'[b] = IF b \in ToSet(garbage_refs) THEN Free ELSE heap[b]
  BY <1>1, <1>2 DEF MemoryShape
<1>5. MemoryShape'
  <2>1. DOMAIN heap = Block \cup {_objc_empty_cache} /\ Free \in HeapValue
        /\ \A b \in Block \cup {_objc_empty_cache} : heap[b] \in HeapValue
    BY <1>1 DEF MemoryShape, HeapValue
  <2>2. heap' \in [Block \cup {_objc_empty_cache} -> HeapValue]
    BY <1>2, <2>1
  <2>3. _objc_empty_cache \notin ToSet(garbage_refs)
    <3>1. ToSet(garbage_refs) \subseteq Block
      BY <1>1 DEF MemoryShape, ToSet
    <3> QED BY <1>1, <3>1, EmptyCacheIs
  <2>4. heap'[_objc_empty_cache] = CacheBlock(1)
    BY <1>1, <1>4, <2>3 DEF MemoryShape
  <2>5. <<>> \in Seq(Block) /\ 0 \in Nat
    BY EmptySeq
  <2> QED BY <1>1, <1>2, <2>2, <2>4, <2>5 DEF MemoryShape
<1>6. ListShape'
  BY <1>2, ShapeStays
<1>7. cacheUpdateLock = t
  BY <1>1, <1>2 DEF LocksAt
<1>8. LockShape' /\ LocksKept(t)
  BY <1>2, <1>3, <1>7, MethodCacheAssumption DEF Control, Shape, LockShape, LocksKept
<1>9. CASE th[t].alot
  <2>1. ~ LooksUp(th[t])
    BY <1>2, <1>9 DEF LooksUp, Filling, Expanding, Reading
  <2>2. Moves(t, Idle)
    BY <1>1, <1>2, <1>3, <1>8, <1>9, <2>1, IdleIs, MethodCacheAssumption DEF Moves, LocksAt
  <2>3. Control' /\ Others(t) /\ th'[t] = Idle
    BY <1>5, <1>6, <1>8, <2>2, OneMoves DEF Others
  <2> QED BY <1>2, <1>4, <1>9, <2>3
<1>10. CASE ~ th[t].alot
  <2>1. r \in Local /\ r.pc = "insert" /\ r.cls = th[t].cls /\ r.sel = th[t].sel
        /\ r.valid = th[t].valid /\ r.alot = th[t].alot /\ r.entry = th[t].entry
        /\ r.back = th[t].back
    BY <1>1 DEF Local, Labels
  <2>2. Set(t, r) /\ cacheUpdateLock' = t
    BY <1>3, <1>7, <1>10 DEF Goto
  <2> HIDE DEF r
  <2>3. Placed(r) /\ LooksUp(r) /\ LooksUp(th[t])
    BY <1>1, <1>2, <1>10, <2>1 DEF Placed, LooksUp, Filling, Expanding, Reading
  <2>4. Moves(t, r)
    BY <1>1, <1>2, <1>8, <2>1, <2>2, <2>3 DEF Moves, LocksAt
  <2>5. Control' /\ Others(t) /\ th'[t] = r
    BY <1>5, <1>6, <1>8, <2>4, OneMoves DEF Others
  <2> QED BY <1>2, <1>4, <1>10, <2>1, <2>5
<1> QED BY <1>9, <1>10

\* A cache in use is a cache.
LEMMA InUseIs ==
  ASSUME MemoryOK, NEW c \in CachedClass, cache[c] \in Block
  PROVE  InUse(cache[c]) /\ Caching(cache[c]) = {c}
<1>1. PICK b \in Block : b = cache[c]
  OBVIOUS
<1>2. c \in Caching(b)
  BY <1>1 DEF Caching
<1>3. PlaceOf(b)
  BY DEF MemoryOK
<1>4. InUse(b)
  BY <1>2, <1>3 DEF PlaceOf, IsFree, Outgrown, Held, Added, Dropped, IsForwarder
<1>5. Caching(b) = {c}
  BY <1>2, <1>4 DEF InUse
<1> QED BY <1>1, <1>4, <1>5

FlushBucketTo(t, b, i) ==
    LET last == i = Mask(heap, b)
        e == heap[b].buckets[i]
    IN /\ heap'[b].kind = "cache" /\ heap'[b].occupied = (IF last THEN 0 ELSE heap[b].occupied)
       /\ heap'[b].buckets = [heap[b].buckets EXCEPT ![i] = Empty]
       /\ \A d \in (Block \cup {_objc_empty_cache}) \ {b} : heap'[d] = heap[d]
       /\ garbage_refs' = IF IsForward(e) THEN Append(garbage_refs, e[2]) ELSE garbage_refs
       /\ th'[t].pc = (IF last THEN "flush" ELSE "empty")
       /\ ~ last => th'[t].cache = b /\ th'[t].index = i + 1

LEMMA FlushBucketIs ==
  ASSUME Control, MemoryOK, NEW t \in Thread, _cache_flush(t)
  PROVE  /\ Control' /\ Others(t) /\ UNCHANGED <<cache, writer, readers, rest>>
         /\ th[t].pc = "empty" /\ th[t].entry = Empty /\ th'[t].entry = Empty
         /\ th'[t].cls = th[t].cls /\ th'[t].sel = th[t].sel /\ th'[t].valid = th[t].valid
         /\ th'[t].flush = th[t].flush
         /\ \E b \in Block : /\ th[t].cache = b /\ heap[b].kind = "cache"
                             /\ th[t].index \in DOMAIN heap[b].buckets
                             /\ FlushBucketTo(t, b, th[t].index)
<1>1. th[t] \in Local /\ Placed(th[t]) /\ LocksAt(t) /\ MemoryShape
  BY LocalsAre DEF Control, Shape
<1>2. th[t].pc = "empty" /\ UNCHANGED <<cache, writer, readers, rest>>
  BY DEF _cache_flush
<1>3. PICK b \in Block : b = th[t].cache /\ Caching(b) # {}
  BY <1>2 DEF MemoryOK, ThreadOK, EmptyingIs
<1>4. heap[b].kind = "cache"
  BY <1>3, InUseIs DEF Caching, InUse, IsCache
<1>5. PICK i \in DOMAIN heap[b].buckets : i = th[t].index /\ i \in Nat
  <2>1. th[t].index \in Nat /\ th[t].index <= Mask(heap, b)
    BY <1>1, <1>2, <1>3 DEF Local, MemoryOK, ThreadOK, EmptyingIs
  <2> QED BY <1>1, <1>4, <2>1, CacheIs
<1>6. PICK last \in BOOLEAN : last <=> i = Mask(heap, b)
  OBVIOUS
<1>7. PICK e \in Entry : e = heap[b].buckets[i]
  BY <1>1, <1>4, CacheIs
<1>8. /\ heap' = [heap EXCEPT ![b].buckets[i] = Empty, ![b].occupied = IF last THEN 0 ELSE @]
      /\ garbage_refs' = IF IsForward(e) THEN Append(garbage_refs, e[2]) ELSE garbage_refs
      /\ garbage_byte_size' = garbage_byte_size + (IF IsForward(e) THEN EntrySize ELSE 0)
      /\ cacheUpdateLock' = IF last THEN NULL ELSE t
      /\ Set(t, IF last THEN [th[t] EXCEPT !.pc = "flush", !.cache = 0, !.index = 0]
                ELSE [th[t] EXCEPT !.index = @ + 1])
  <2>1. LET B == th[t].cache
            E == heap[B].buckets[th[t].index]
            L == th[t].index = Mask(heap, B)
        IN /\ heap' = [heap EXCEPT ![B].buckets[th[t].index] = Empty,
                                   ![B].occupied = IF L THEN 0 ELSE @]
           /\ garbage_refs' = IF IsForward(E) THEN Append(garbage_refs, E[2]) ELSE garbage_refs
           /\ garbage_byte_size' = garbage_byte_size + (IF IsForward(E) THEN EntrySize ELSE 0)
           /\ cacheUpdateLock' = IF L THEN NULL ELSE t
           /\ Set(t, IF L THEN [th[t] EXCEPT !.pc = "flush", !.cache = 0, !.index = 0]
                     ELSE [th[t] EXCEPT !.index = @ + 1])
    BY DEF _cache_flush
  <2> QED BY <1>3, <1>5, <1>6, <1>7, <2>1, Zenon
<1>9. PICK n \in Nat : n = IF last THEN 0 ELSE heap[b].occupied
  BY <1>1, <1>4, CacheIs
<1>10. PICK k \in Nat \ {0} : heap[b].buckets \in [0 .. k - 1 -> Entry]
  BY <1>1, <1>4, KindsAre DEF CacheRecord
<1>11. PICK f : f = [heap[b].buckets EXCEPT ![i] = Empty]
  OBVIOUS
<1>12. f \in [0 .. k - 1 -> Entry]
  BY <1>10, <1>11, EntriesAre
<1>13. PICK v : v = [kind |-> "cache", occupied |-> n, buckets |-> f]
  OBVIOUS
<1>14. v \in CacheRecord /\ v.kind = "cache" /\ v.occupied = n /\ v.buckets = f
  BY <1>12, <1>13 DEF CacheRecord
<1>15. heap' = [heap EXCEPT ![b] = v]
  <2>1. heap[b] \in CacheRecord /\ DOMAIN heap = Block \cup {_objc_empty_cache}
    BY <1>1, <1>4, KindsAre DEF MemoryShape
  <2>2. PICK h : h = [heap EXCEPT ![b].buckets[i] = Empty]
    OBVIOUS
  <2>3. heap' = [h EXCEPT ![b].occupied = IF last THEN 0 ELSE @]
    BY <1>8, <2>2, Zenon
  <2>4. h = [heap EXCEPT ![b] = [heap[b] EXCEPT !.buckets = f]]
    BY <1>11, <2>1, <2>2
  <2>5. DOMAIN h = DOMAIN heap /\ h[b] = [heap[b] EXCEPT !.buckets = f]
        /\ \A d \in DOMAIN heap \ {b} : h[d] = heap[d]
    BY <1>1, <2>4 DEF MemoryShape
  <2>6. PICK r : r = [kind |-> "cache", occupied |-> heap[b].occupied, buckets |-> f]
    OBVIOUS
  <2>7. h[b] = r
    BY <2>1, <2>5, <2>6 DEF CacheRecord
  <2>8. heap' = [h EXCEPT ![b] = [r EXCEPT !.occupied = n]]
    BY <1>9, <2>1, <2>3, <2>5, <2>6, <2>7, Zenon
  <2>9. [r EXCEPT !.occupied = n] = v
    BY <1>13, <2>6
  <2> QED BY <1>1, <2>1, <2>5, <2>8, <2>9 DEF MemoryShape
<1>16. /\ heap' \in [Block \cup {_objc_empty_cache} -> HeapValue]
       /\ heap'[_objc_empty_cache] = CacheBlock(1) /\ heap'[b] = v
       /\ \A d \in (Block \cup {_objc_empty_cache}) \ {b} : heap'[d] = heap[d]
  BY <1>1, <1>14, <1>15, RecordIs, HeapSet
<1>17. MemoryShape'
  <2>1. garbage_refs \in Seq(Block) /\ garbage_byte_size \in Nat
    BY <1>1 DEF MemoryShape
  <2>2. garbage_byte_size' \in Nat
    BY <1>8, <2>1 DEF EntrySize
  <2>3. garbage_refs' \in Seq(Block)
    BY <1>7, <1>8, <2>1, EntriesAre
  <2> QED BY <1>1, <1>2, <1>16, <2>2, <2>3 DEF MemoryShape
<1>18. ListShape'
  BY <1>2, ShapeStays
<1>19. LockShape' /\ LocksKept(t)
  <2>1. cacheUpdateLock = t
    BY <1>1, <1>2 DEF LocksAt
  <2> QED BY <1>2, <1>8, <2>1, MethodCacheAssumption DEF Control, Shape, LockShape, LocksKept
<1>20. th[t].entry = Empty /\ ~ LooksUp(th[t]) /\ ~ th[t].alot
  BY <1>1, <1>2 DEF Placed, LooksUp, Filling, Expanding, Reading
<1> DEFINE r1 == [th[t] EXCEPT !.pc = "flush", !.cache = 0, !.index = 0]
           r2 == [th[t] EXCEPT !.index = i + 1]
<1>21. CASE last
  <2>1. /\ r1 \in Local /\ r1.pc = "flush" /\ r1.cls = th[t].cls /\ r1.sel = th[t].sel
        /\ r1.valid = th[t].valid /\ r1.alot = th[t].alot /\ r1.entry = th[t].entry
        /\ r1.flush = th[t].flush /\ r1.back = th[t].back
    BY <1>1, Zenon DEF Local, Labels, _objc_empty_cache
  <2>2. Set(t, r1) /\ cacheUpdateLock' = NULL
    BY <1>8, <1>21
  <2> HIDE DEF r1
  <2>3. Placed(r1) /\ ~ LooksUp(r1)
    BY <1>1, <1>2, <1>20, <2>1 DEF Placed, LooksUp, Filling, Expanding, Reading
  <2>4. Moves(t, r1)
    BY <1>1, <1>2, <1>19, <1>20, <2>1, <2>2, <2>3, MethodCacheAssumption DEF Moves, LocksAt
  <2>5. Control' /\ Others(t) /\ th'[t] = r1
    BY <1>17, <1>18, <1>19, <2>4, OneMoves DEF Others
  <2>6. FlushBucketTo(t, b, i)
    BY <1>6, <1>7, <1>8, <1>9, <1>11, <1>14, <1>16, <1>21, <2>1, <2>5 DEF FlushBucketTo
  <2> QED BY <1>2, <1>3, <1>4, <1>5, <1>20, <2>1, <2>5, <2>6
<1>22. CASE ~ last
  <2>1. /\ r2 \in Local /\ r2.pc = "empty" /\ r2.cls = th[t].cls /\ r2.sel = th[t].sel
        /\ r2.valid = th[t].valid /\ r2.alot = th[t].alot /\ r2.entry = th[t].entry
        /\ r2.flush = th[t].flush /\ r2.back = th[t].back /\ r2.cache = b /\ r2.index = i + 1
    BY <1>1, <1>2, <1>3, <1>5 DEF Local
  <2>2. Set(t, r2) /\ cacheUpdateLock' = t
    BY <1>5, <1>8, <1>22
  <2> HIDE DEF r2
  <2>3. Placed(r2) /\ ~ LooksUp(r2)
    BY <1>1, <1>2, <1>20, <2>1 DEF Placed, LooksUp, Filling, Expanding, Reading
  <2>4. Moves(t, r2)
    BY <1>1, <1>2, <1>19, <1>20, <2>1, <2>2, <2>3, MethodCacheAssumption DEF Moves, LocksAt
  <2>5. Control' /\ Others(t) /\ th'[t] = r2
    BY <1>17, <1>18, <1>19, <2>4, OneMoves DEF Others
  <2>6. FlushBucketTo(t, b, i)
    BY <1>6, <1>7, <1>8, <1>9, <1>11, <1>14, <1>16, <1>22, <2>1, <2>5 DEF FlushBucketTo
  <2> QED BY <1>2, <1>3, <1>4, <1>5, <1>20, <2>1, <2>5, <2>6
<1> QED BY <1>21, <1>22

-----------------------------------------------------------------------------
(* Steps that leave memory alone.                                              *)

\* The block's place is the same.
SamePlace(b) ==
    /\ heap'[b].kind = heap[b].kind /\ (heap'[b] = Free <=> heap[b] = Free)
    /\ Caching(b)' = Caching(b) /\ Holding(b)' = Holding(b)
    /\ Adding(b)' = Adding(b) /\ Garbage(b)' = Garbage(b)

LEMMA SamePlaceIs ==
  ASSUME NEW b, SamePlace(b)
  PROVE  /\ PlaceOf(b) => PlaceOf(b)'
         /\ Held(b) => Held(b)'
         /\ Dropped(b) => Dropped(b)'
         /\ InUse(b) => InUse(b)'
         /\ Outgrown(b) <=> Outgrown(b)'
<1>1. ASSUME NEW j PROVE j \in Garbage(b)' => j \in DOMAIN garbage_refs'
  BY DEF Garbage
<1>2. ASSUME NEW j PROVE j \in Garbage(b) => j \in DOMAIN garbage_refs
  BY DEF Garbage
<1>3. IsCache(b) <=> IsCache(b)'
  BY DEF SamePlace, IsCache
<1>4. IsForwarder(b) <=> IsForwarder(b)'
  BY DEF SamePlace, IsForwarder
<1>5. Outgrown(b) <=> Outgrown(b)'
  BY <1>1, <1>2, <1>3 DEF SamePlace, Outgrown
<1>6. InUse(b) <=> InUse(b)'
  BY <1>3 DEF SamePlace, InUse
<1>7. Held(b) <=> Held(b)'
  BY <1>4 DEF SamePlace, Held
<1>8. Added(b) <=> Added(b)'
  BY <1>4 DEF SamePlace, Added
<1>9. Dropped(b) <=> Dropped(b)'
  BY <1>1, <1>2, <1>4 DEF SamePlace, Dropped
<1>10. IsFree(b) <=> IsFree(b)'
  BY DEF SamePlace, IsFree
<1> QED BY <1>5, <1>6, <1>7, <1>8, <1>9, <1>10 DEF PlaceOf

\* Thread t goes on as it may; it adds no forward entry that it did not add before.
QuietStep(t) ==
    /\ \A b \in Block : t \in Adding(b)' <=> t \in Adding(b)
    /\ th[t].pc # "empty"
    /\ ReaderIs(th'[t]) /\ EmptyingIs(th'[t]) /\ ExpandedIs(th'[t])
    /\ NoGarbage(th[t]) => NoGarbage(th'[t])
    /\ th'[t].pc = "scan" => \A u \in th'[t].seen : u \in Thread /\ NoGarbage(th[u])

LEMMA QuietSteps ==
  ASSUME Control, Control', MemoryOK, NEW T \in SUBSET Thread, UNCHANGED memory,
         \A u \in Thread \ T : Alike(u), \A u \in T : QuietStep(u)
  PROVE  MemoryOK'
<1>1. cache' = cache /\ heap' = heap /\ garbage_refs' = garbage_refs
  BY DEF memory
<1>2. ASSUME NEW b \in Block PROVE SamePlace(b)
  <2>1. Caching(b)' = Caching(b) /\ Holding(b)' = Holding(b) /\ Garbage(b)' = Garbage(b)
    BY <1>1 DEF Caching, Holding, Garbage
  <2>2. Adding(b)' = Adding(b)
    <3>1. ASSUME NEW u \in Thread \ T PROVE u \in Adding(b)' <=> u \in Adding(b)
      BY DEF Alike, Adding
    <3>2. Adding(b) \subseteq Thread /\ Adding(b)' \subseteq Thread
      BY DEF Adding
    <3>3. \A u \in T : u \in Adding(b)' <=> u \in Adding(b)
      BY DEF QuietStep
    <3> QED BY <3>1, <3>2, <3>3
  <2> QED BY <1>1, <2>1, <2>2 DEF SamePlace
<1>3. ASSUME NEW b \in Block PROVE PlaceOf(b)' /\ OutgrownOK(b)' /\ CountOK(b)'
  <2>1. PlaceOf(b) /\ OutgrownOK(b) /\ CountOK(b)
    BY DEF MemoryOK
  <2>2. PlaceOf(b)'
    BY <1>2, <2>1, SamePlaceIs
  <2>3. OutgrownOK(b)'
    <3> SUFFICES ASSUME Outgrown(b)', NEW i \in DOMAIN heap[b].buckets, IsForward(heap[b].buckets[i])
                 PROVE  Dropped(heap[b].buckets[i][2])'
      BY <1>1 DEF OutgrownOK
    <3>1. Outgrown(b)
      BY <1>2, SamePlaceIs
    <3>2. Dropped(heap[b].buckets[i][2])
      BY <2>1, <3>1 DEF OutgrownOK
    <3>3. heap[b].kind = "cache" /\ MemoryShape
      BY <3>1 DEF Outgrown, IsCache, Control, Shape
    <3>4. PICK d \in Block : d = heap[b].buckets[i][2]
      BY <3>3, CacheIs, EntriesAre
    <3> QED BY <1>1, <1>2, <3>2, <3>4, SamePlaceIs
  <2>4. CountOK(b)'
    <3>1. Emptying(b) => Emptying(b)'
      BY DEF Emptying, Alike, QuietStep
    <3>2. Used(b)' = Used(b)
      BY <1>1 DEF Used
    <3> QED BY <1>1, <2>1, <3>1, <3>2 DEF CountOK
  <2> QED BY <2>2, <2>3, <2>4
<1>4. ASSUME NEW u \in Thread
      PROVE  ReaderIs(th'[u]) /\ EmptyingIs(th'[u]) /\ ExpandedIs(th'[u])
             /\ (NoGarbage(th[u]) => NoGarbage(th'[u]))
             /\ (th'[u].pc = "scan" => \A w \in th'[u].seen : w \in Thread /\ NoGarbage(th[w]))
  <2>1. CASE u \in T
    BY <2>1 DEF QuietStep
  <2>2. CASE u \notin T
    <3>1. Alike(u) /\ ThreadOK(u)
      BY <2>2 DEF MemoryOK
    <3>2. ReaderIs(th'[u])
      BY <3>1 DEF Alike, ThreadOK, ReaderIs
    <3>3. EmptyingIs(th'[u])
      BY <3>1 DEF Alike, ThreadOK, EmptyingIs
    <3>4. ExpandedIs(th'[u])
      BY <3>1 DEF Alike, ThreadOK, ExpandedIs, Expanding
    <3>5. NoGarbage(th[u]) => NoGarbage(th'[u])
      BY <3>1 DEF Alike, NoGarbage
    <3>6. th'[u].pc = "scan" => \A w \in th'[u].seen : w \in Thread /\ NoGarbage(th[w])
      <4>1. th[u].pc = "scan" => th[u].seen \subseteq Thread
        BY LocalsAre DEF Placed
      <4> QED BY <3>1, <4>1 DEF Alike, ThreadOK, SeenOK
    <3> QED BY <3>2, <3>3, <3>4, <3>5, <3>6
  <2> QED BY <2>1, <2>2
<1>5. ASSUME NEW u \in Thread PROVE ThreadOK(u)'
  <2>1. ReaderIs(th[u])'
    <3>2. ReaderIs(th'[u])
      BY <1>4
    <3>3. ASSUME NEW b \in Block PROVE (Outgrown(b) => Outgrown(b)') /\ (Held(b) => Held(b)')
                                       /\ (Dropped(b) => Dropped(b)')
      BY <1>2, SamePlaceIs
    <3>4. th'[u].entry \in Entry
      BY DEF Control, Shape, Local
    <3>5. IsForward(th'[u].entry) => th'[u].entry[2] \in Block
      BY <3>4, EntriesAre
    <3> QED BY <1>1, <3>2, <3>3, <3>5 DEF ReaderIs
  <2>2. SeenOK(u)'
    BY <1>1, <1>4 DEF SeenOK, NoGarbage
  <2>3. EmptyingIs(th[u])'
    BY <1>1, <1>4 DEF EmptyingIs, Caching
  <2>4. ExpandedIs(th[u])'
    BY <1>1, <1>4 DEF ExpandedIs, Used, Size
  <2> QED BY <2>1, <2>2, <2>3, <2>4 DEF ThreadOK
<1> QED BY <1>3, <1>5 DEF MemoryOK

LEMMA OthersAlike ==
  ASSUME NEW t \in Thread, Others(t)
  PROVE  \A u \in Thread \ {t} : Alike(u)
BY DEF Others, Alike

LEMMA QuietMove ==
  ASSUME Control, Control', MemoryOK, NEW t \in Thread, UNCHANGED memory, Others(t), QuietStep(t)
  PROVE  MemoryOK'
<1>1. \A u \in Thread \ {t} : Alike(u)
  BY OthersAlike
<1>2. {t} \in SUBSET Thread /\ \A u \in {t} : QuietStep(u)
  OBVIOUS
<1> QED BY <1>1, <1>2, QuietSteps

\* A cache in use is no garbage.
LEMMA CacheOfIs ==
  ASSUME Control, MemoryOK, NEW c \in CachedClass
  PROVE  /\ cache[c] \in Block \cup {_objc_empty_cache} /\ heap[cache[c]].kind = "cache"
         /\ cache[c] \notin ToSet(garbage_refs)
<1>1. MemoryShape
  BY DEF Control, Shape
<1>2. cache[c] \in Block \cup {_objc_empty_cache}
  BY <1>1 DEF MemoryShape
<1>3. CASE cache[c] \in Block
  <2>1. InUse(cache[c])
    BY <1>3, InUseIs
  <2>2. Garbage(cache[c]) = {} /\ heap[cache[c]].kind = "cache"
    BY <2>1 DEF InUse, IsCache
  <2> QED BY <1>2, <2>2 DEF Garbage, ToSet
<1>4. CASE cache[c] = _objc_empty_cache
  <2>1. ToSet(garbage_refs) \subseteq Block
    BY <1>1 DEF MemoryShape, ToSet
  <2> QED BY <1>1, <1>4, <2>1, EmptyCacheIs
<1> QED BY <1>2, <1>3, <1>4

\* Whoever is in none of these places uses no memory that could change.
LEMMA QuietAt ==
  ASSUME NEW me, me.pc \notin Reading \cup {"empty", "insert", "scan"}
  PROVE  ReaderIs(me) /\ EmptyingIs(me) /\ ExpandedIs(me) /\ NoGarbage(me) /\ me.pc # "scan"
BY DEF Reading, ReaderIs, EmptyingIs, ExpandedIs, Expanding, NoGarbage

LEMMA QuietStart ==
  ASSUME Control, MemoryOK, NEW me, NEW c \in CachedClass, me.pc = "bucket", me.cur = c, me.cache = cache[c]
  PROVE  ReaderIs(me) /\ EmptyingIs(me) /\ ExpandedIs(me) /\ NoGarbage(me)
BY CacheOfIs DEF Reading, ReaderIs, EmptyingIs, ExpandedIs, Expanding, NoGarbage

\* A thread in none of these places adds no forward entry, nor does one with another entry.
LEMMA NotAdding ==
  ASSUME NEW t \in Thread, ~ IsForward(th[t].entry) \/ th[t].pc \notin {"fill", "scan", "insert"}
  PROVE  \A b \in Block : t \notin Adding(b)
<1>1. \A b \in Block : IsForward(ForwardIn(b))
  BY EntriesAre
<1> QED BY <1>1 DEF Adding

LEMMA NotAddingThen ==
  ASSUME NEW t \in Thread, ~ IsForward(th'[t].entry) \/ th'[t].pc \notin {"fill", "scan", "insert"}
  PROVE  \A b \in Block : t \notin Adding(b)'
<1>1. \A b \in Block : IsForward(ForwardIn(b))
  BY EntriesAre
<1> QED BY <1>1 DEF Adding

LEMMA SendMemory ==
  ASSUME Control, MemoryOK, NEW t \in Thread, NEW c \in CachedClass, NEW s \in Sel, objc_msgSend(t, c, s)
  PROVE  MemoryOK'
<1>1. /\ Control' /\ Others(t) /\ UNCHANGED memory
      /\ th[t].pc = "idle" /\ th'[t].pc = "bucket" /\ th'[t].cur = c /\ th'[t].cache = cache[c]
  BY SendIs
<1>2. ReaderIs(th'[t]) /\ EmptyingIs(th'[t]) /\ ExpandedIs(th'[t]) /\ NoGarbage(th'[t])
  BY <1>1, QuietStart
<1>3. QuietStep(t)
  BY <1>1, <1>2, NotAdding, NotAddingThen DEF QuietStep
<1> QED BY <1>1, <1>3, QuietMove

\* The buckets that hold a forward entry, now and after a step.
LEMMA HoldingHas ==
  ASSUME NEW b, NEW c \in CachedClass, NEW i
  PROVE  /\ <<c, i>> \in Holding(b) <=> /\ i \in DOMAIN heap[cache[c]].buckets
                                        /\ heap[cache[c]].buckets[i] = ForwardIn(b)
         /\ <<c, i>> \in Holding(b)' <=> /\ i \in DOMAIN heap'[cache'[c]].buckets
                                         /\ heap'[cache'[c]].buckets[i] = ForwardIn(b)
<1> DEFINE B(d) == {j \in DOMAIN heap[cache[d]].buckets : heap[cache[d]].buckets[j] = ForwardIn(b)}
           C(d) == {j \in DOMAIN heap'[cache'[d]].buckets : heap'[cache'[d]].buckets[j] = ForwardIn(b)}
<1>1. Holding(b) = UNION {{d} \X B(d) : d \in CachedClass} /\ Holding(b)' = UNION {{d} \X C(d) : d \in CachedClass}
  BY DEF Holding
<1>2. i \in B(c) <=> i \in DOMAIN heap[cache[c]].buckets /\ heap[cache[c]].buckets[i] = ForwardIn(b)
  OBVIOUS
<1>3. i \in C(c) <=> i \in DOMAIN heap'[cache'[c]].buckets /\ heap'[cache'[c]].buckets[i] = ForwardIn(b)
  OBVIOUS
<1> HIDE DEF B, C
<1>4. \A d \in CachedClass : <<c, i>> \in {d} \X B(d) <=> d = c /\ i \in B(c)
  OBVIOUS
<1>5. \A d \in CachedClass : <<c, i>> \in {d} \X C(d) <=> d = c /\ i \in C(c)
  OBVIOUS
<1> QED BY <1>1, <1>2, <1>3, <1>4, <1>5

LEMMA HoldingPairs ==
  ASSUME NEW b, NEW x
  PROVE  /\ x \in Holding(b) => \E c \in CachedClass : \E i \in DOMAIN heap[cache[c]].buckets :
                                  x = <<c, i>> /\ heap[cache[c]].buckets[i] = ForwardIn(b)
         /\ x \in Holding(b)' => \E c \in CachedClass : \E i \in DOMAIN heap'[cache'[c]].buckets :
                                  x = <<c, i>> /\ heap'[cache'[c]].buckets[i] = ForwardIn(b)
BY DEF Holding

\* The forward entry in a bucket of a reader's cache is there.
LEMMA ReadEntryIs ==
  ASSUME Control, MemoryOK, NEW t \in Thread, th[t].pc \in Reading,
         NEW i \in DOMAIN heap[th[t].cache].buckets, IsForward(heap[th[t].cache].buckets[i])
  PROVE  /\ Held(heap[th[t].cache].buckets[i][2]) \/ Dropped(heap[th[t].cache].buckets[i][2])
         /\ th[t].cache \notin ToSet(garbage_refs) =>
              heap[th[t].cache].buckets[i][2] \notin ToSet(garbage_refs)
<1>1. PICK b : b = th[t].cache
  OBVIOUS
<1>2. PICK e : e = heap[b].buckets[i]
  OBVIOUS
<1>3. b \in Block \cup {_objc_empty_cache} /\ heap[b].kind = "cache" /\ MemoryShape
      /\ th[t].cur \in CachedClass
      /\ (b \in Block => b = cache[th[t].cur] \/ Outgrown(b))
  BY <1>1, LocalsAre DEF Control, Shape, Local, MemoryOK, ThreadOK, ReaderIs, Placed, Reading
<1>4. e \in Entry /\ IsForward(e)
  BY <1>1, <1>2, <1>3, CacheIs
<1>5. PICK d \in Block : d = e[2] /\ e = ForwardIn(d)
  BY <1>4, EntriesAre
<1>6. b \in Block
  <2>1. e # Empty
    BY <1>4, EntriesAre
  <2> QED BY <1>1, <1>2, <1>3, <2>1, EmptyCacheIs
<1>7. CASE b = cache[th[t].cur]
  <2>1. <<th[t].cur, i>> \in Holding(d)
    <3>1. PICK c \in CachedClass : c = th[t].cur
      BY <1>3
    <3>2. i \in DOMAIN heap[cache[c]].buckets /\ heap[cache[c]].buckets[i] = ForwardIn(d)
      BY <1>1, <1>2, <1>5, <1>7, <3>1, Zenon
    <3>3. <<c, i>> \in Holding(d)
      BY <3>2, HoldingHas
    <3> QED BY <3>1, <3>3
  <2>2. PlaceOf(d)
    BY DEF MemoryOK
  <2>3. Held(d)
    BY <2>1, <2>2 DEF PlaceOf, IsFree, InUse, Outgrown, IsCache, Added, Dropped
  <2>4. d \notin ToSet(garbage_refs)
    BY <2>3 DEF Held, Garbage, ToSet
  <2> QED BY <1>1, <1>2, <1>5, <2>3, <2>4, Zenon
<1>8. CASE Outgrown(b)
  <2>1. OutgrownOK(b)
    BY <1>6 DEF MemoryOK
  <2>2. Dropped(d)
    BY <1>1, <1>2, <1>4, <1>5, <1>8, <2>1, Zenon DEF OutgrownOK
  <2>3. b \in ToSet(garbage_refs)
    BY <1>8 DEF Outgrown, Garbage, ToSet
  <2> QED BY <1>1, <1>2, <1>5, <2>2, <2>3, Zenon
<1> QED BY <1>3, <1>6, <1>7, <1>8

LEMMA LoadBucketMemory ==
  ASSUME Control, MemoryOK, NEW t \in Thread, LoadBucket(t)
  PROVE  MemoryOK'
<1>1. /\ Control' /\ Others(t) /\ UNCHANGED memory /\ th[t].pc = "bucket"
      /\ th'[t].cur = th[t].cur
      /\ \/ th'[t].pc \in {"read", "lists"}
         \/ /\ th'[t].pc = "entry" /\ th'[t].cache = th[t].cache
            /\ \E i \in DOMAIN heap[th[t].cache].buckets :
                    th'[t].entry = heap[th[t].cache].buckets[i]
  BY LoadBucketIs
<1>2. CASE th'[t].pc \in {"read", "lists"}
  <2>1. ReaderIs(th'[t]) /\ EmptyingIs(th'[t]) /\ ExpandedIs(th'[t]) /\ NoGarbage(th'[t])
    BY <1>2, QuietAt DEF Reading
  <2>2. QuietStep(t)
    BY <1>1, <1>2, <2>1, NotAdding, NotAddingThen DEF QuietStep
  <2> QED BY <1>1, <2>2, QuietMove
<1>3. ASSUME th'[t].pc = "entry", th'[t].cache = th[t].cache,
             NEW i \in DOMAIN heap[th[t].cache].buckets,
             th'[t].entry = heap[th[t].cache].buckets[i]
      PROVE  MemoryOK'
  <2>1. ThreadOK(t) /\ th[t].pc \in Reading /\ th'[t].pc \in Reading
    BY <1>1, <1>3 DEF MemoryOK, Reading
  <2>2. IsForward(th'[t].entry) =>
          /\ Held(th'[t].entry[2]) \/ Dropped(th'[t].entry[2])
          /\ th[t].cache \notin ToSet(garbage_refs) => th'[t].entry[2] \notin ToSet(garbage_refs)
    BY <1>3, <2>1, ReadEntryIs
  <2>3. ReaderIs(th'[t])
    BY <1>1, <1>3, <2>1, <2>2 DEF ThreadOK, ReaderIs
  <2>4. NoGarbage(th[t]) => NoGarbage(th'[t])
    BY <1>3, <2>1, <2>2 DEF NoGarbage
  <2>5. EmptyingIs(th'[t]) /\ ExpandedIs(th'[t])
    BY <1>3 DEF EmptyingIs, ExpandedIs, Expanding
  <2>6. QuietStep(t)
    BY <1>1, <1>3, <2>3, <2>4, <2>5, NotAdding, NotAddingThen DEF QuietStep
  <2> QED BY <1>1, <2>6, QuietMove
<1> QED BY <1>1, <1>2, <1>3

LEMMA CompareEntryMemory ==
  ASSUME Control, MemoryOK, NEW t \in Thread, CompareEntry(t)
  PROVE  MemoryOK'
<1>1. /\ Control' /\ Others(t) /\ UNCHANGED memory /\ th[t].pc = "entry" /\ CompareEntryTo(t)
  BY CompareEntryIs
<1>2. CASE th'[t].pc = "bucket" /\ th'[t].cur = th[t].cur /\ th'[t].cache = th[t].cache
  <2>1. ThreadOK(t)
    BY DEF MemoryOK
  <2>2. ReaderIs(th'[t]) /\ (NoGarbage(th[t]) => NoGarbage(th'[t]))
    BY <1>1, <1>2, <2>1 DEF ThreadOK, ReaderIs, NoGarbage, Reading
  <2>3. EmptyingIs(th'[t]) /\ ExpandedIs(th'[t])
    BY <1>2 DEF EmptyingIs, ExpandedIs, Expanding
  <2>4. QuietStep(t)
    BY <1>1, <1>2, <2>2, <2>3, NotAdding, NotAddingThen DEF QuietStep
  <2> QED BY <1>1, <2>4, QuietMove
<1>3. CASE \/ th'[t].pc \in {"idle", "unlock", "resolve", "forward"}
           \/ th'[t].pc = "fill" /\ ~ IsForward(th'[t].entry)
  <2>1. ReaderIs(th'[t]) /\ EmptyingIs(th'[t]) /\ ExpandedIs(th'[t]) /\ NoGarbage(th'[t])
    BY <1>3, QuietAt DEF Reading
  <2>2. QuietStep(t)
    BY <1>1, <1>3, <2>1, NotAdding, NotAddingThen DEF QuietStep
  <2> QED BY <1>1, <2>2, QuietMove
<1>4. Idle.pc = "idle"
  BY IdleIs
<1> QED BY <1>1, <1>2, <1>3, <1>4 DEF CompareEntryTo

LEMMA LockMemory ==
  ASSUME Control, MemoryOK, NEW t \in Thread, lockForMethodLookup(t)
  PROVE  MemoryOK'
<1>1. /\ Control' /\ Others(t) /\ UNCHANGED memory /\ th[t].pc = "read" /\ th'[t].pc = "bucket"
      /\ th'[t].cur = th[t].cls /\ th'[t].cache = cache[th[t].cls]
  BY LockIs
<1>2. th[t].cls \in CachedClass
  BY <1>1, LocalsAre DEF Placed
<1>3. ReaderIs(th'[t]) /\ EmptyingIs(th'[t]) /\ ExpandedIs(th'[t]) /\ NoGarbage(th'[t])
  BY <1>1, <1>2, QuietStart
<1>4. QuietStep(t)
  BY <1>1, <1>3, NotAdding, NotAddingThen DEF QuietStep
<1> QED BY <1>1, <1>4, QuietMove

LEMMA UnlockMemory ==
  ASSUME Control, MemoryOK, NEW t \in Thread, unlockForMethodLookup(t)
  PROVE  MemoryOK'
<1>1. /\ Control' /\ Others(t) /\ UNCHANGED memory /\ th[t].pc = "unlock" /\ th'[t].pc = "idle"
  BY UnlockIs, IdleIs
<1>2. ReaderIs(th'[t]) /\ EmptyingIs(th'[t]) /\ ExpandedIs(th'[t]) /\ NoGarbage(th'[t])
  BY <1>1, QuietAt DEF Reading
<1>3. QuietStep(t)
  BY <1>1, <1>2, NotAdding, NotAddingThen DEF QuietStep
<1> QED BY <1>1, <1>3, QuietMove

LEMMA SearchListsMemory ==
  ASSUME Control, MemoryOK, NEW t \in Thread, SearchLists(t)
  PROVE  MemoryOK'
<1>1. /\ Control' /\ Others(t) /\ UNCHANGED memory /\ th[t].pc = "lists" /\ SearchListsTo(t)
  BY SearchListsIs
<1>2. CASE \/ th'[t].pc \in {"resolve", "forward"}
           \/ th'[t].pc = "fill" /\ ~ IsForward(th'[t].entry)
  <2>1. ReaderIs(th'[t]) /\ EmptyingIs(th'[t]) /\ ExpandedIs(th'[t]) /\ NoGarbage(th'[t])
    BY <1>2, QuietAt DEF Reading
  <2>2. QuietStep(t)
    BY <1>1, <1>2, <2>1, NotAdding, NotAddingThen DEF QuietStep
  <2> QED BY <1>1, <2>2, QuietMove
<1>3. th[t].cur \in CachedClass
  BY <1>1, LocalsAre DEF Placed
<1>4. CASE /\ Super[th[t].cur] # NULL /\ th'[t].pc = "bucket"
           /\ th'[t].cur = Super[th[t].cur] /\ th'[t].cache = cache[Super[th[t].cur]]
  <2>1. Super[th[t].cur] \in CachedClass
    BY <1>3, <1>4, MethodCacheAssumption
  <2>2. ReaderIs(th'[t]) /\ EmptyingIs(th'[t]) /\ ExpandedIs(th'[t]) /\ NoGarbage(th'[t])
    BY <1>4, <2>1, QuietStart
  <2>3. QuietStep(t)
    BY <1>1, <1>4, <2>2, NotAdding, NotAddingThen DEF QuietStep
  <2> QED BY <1>1, <2>3, QuietMove
<1>5. ~ IsForward(MethodOf(th[t].cur, th[t].sel, methods[th[t].cur][th[t].sel]))
  BY DEF IsForward, MethodOf
<1> QED BY <1>1, <1>2, <1>4, <1>5 DEF SearchListsTo

LEMMA ResolveMethodMemory ==
  ASSUME Control, MemoryOK, NEW t \in Thread, _class_resolveMethod(t)
  PROVE  MemoryOK'
<1>1. /\ Control' /\ Others(t) /\ UNCHANGED memory /\ th[t].pc = "resolve"
      /\ th'[t].pc \in {"read", "write"}
  BY ResolveMethodIs
<1>2. ReaderIs(th'[t]) /\ EmptyingIs(th'[t]) /\ ExpandedIs(th'[t]) /\ NoGarbage(th'[t])
  BY <1>1, QuietAt DEF Reading
<1>3. QuietStep(t)
  BY <1>1, <1>2, NotAdding, NotAddingThen DEF QuietStep
<1> QED BY <1>1, <1>3, QuietMove

LEMMA InCriticalMemory ==
  ASSUME Control, MemoryOK, NEW t \in Thread, _collecting_in_critical(t)
  PROVE  MemoryOK'
<1>1. /\ Control' /\ Others(t) /\ UNCHANGED memory
      /\ th[t].pc = "scan" /\ th'[t].pc \in {"scan", "insert"}
      /\ th'[t].pc = "insert" => ~ th[t].alot
      /\ th'[t].alot = th[t].alot /\ th'[t].entry = th[t].entry /\ th'[t].cls = th[t].cls
      /\ \A u \in th'[t].seen : u \in th[t].seen \/ (u \in Thread \ {t} /\ th[u].pc \notin Reading)
  BY InCriticalIs
<1>2. ThreadOK(t) /\ th[t].seen \subseteq Thread
  BY <1>1, LocalsAre DEF MemoryOK, Placed
<1>3. \A b \in Block : t \in Adding(b)' <=> t \in Adding(b)
  BY <1>1 DEF Adding
<1>4. ReaderIs(th'[t]) /\ EmptyingIs(th'[t]) /\ NoGarbage(th'[t])
  BY <1>1 DEF ReaderIs, EmptyingIs, NoGarbage, Reading
<1>5. ExpandedIs(th'[t])
  BY <1>1, <1>2 DEF ThreadOK, ExpandedIs, Expanding
<1>6. \A u \in th'[t].seen : u \in Thread /\ NoGarbage(th[u])
  BY <1>1, <1>2 DEF ThreadOK, SeenOK, NoGarbage, Reading
<1>7. QuietStep(t)
  BY <1>1, <1>3, <1>4, <1>5, <1>6 DEF QuietStep
<1> QED BY <1>1, <1>7, QuietMove

LEMMA CollectALotMemory ==
  ASSUME Control, MemoryOK, NEW t \in Thread, CollectALot(t)
  PROVE  MemoryOK'
<1>1. /\ Control' /\ Others(t) /\ UNCHANGED memory
      /\ th[t].pc = "collect" /\ th'[t].pc = "scan" /\ th'[t].alot /\ th'[t].seen = {}
      /\ th'[t].entry = Empty
  BY CollectALotIs
<1>2. ~ IsForward(th'[t].entry)
  BY <1>1, EntriesAre
<1>3. ReaderIs(th'[t]) /\ EmptyingIs(th'[t]) /\ NoGarbage(th'[t]) /\ ExpandedIs(th'[t])
  BY <1>1 DEF ReaderIs, EmptyingIs, NoGarbage, Reading, ExpandedIs, Expanding
<1>4. QuietStep(t)
  BY <1>1, <1>2, <1>3, NotAdding, NotAddingThen DEF QuietStep
<1> QED BY <1>1, <1>4, QuietMove

LEMMA FlushCacheMemory ==
  ASSUME Control, MemoryOK, NEW t \in Thread, flush_cache(t)
  PROVE  MemoryOK'
<1>1. /\ Control' /\ Others(t) /\ UNCHANGED memory /\ th[t].pc = "flush"
  BY FlushCacheIs
<1>2. PICK c \in CachedClass : FlushCacheTo(t, c)
  BY FlushCacheIs
<1>3. CASE th'[t].pc = "flush"
  <2>1. ReaderIs(th'[t]) /\ EmptyingIs(th'[t]) /\ ExpandedIs(th'[t]) /\ NoGarbage(th'[t])
    BY <1>3, QuietAt DEF Reading
  <2>2. QuietStep(t)
    BY <1>1, <1>3, <2>1, NotAdding, NotAddingThen DEF QuietStep
  <2> QED BY <1>1, <2>2, QuietMove
<1>4. CASE /\ cache[c] # _objc_empty_cache /\ th'[t].pc = "empty"
           /\ th'[t].cache = cache[c] /\ th'[t].index = 0
  <2>1. cache[c] \in Block /\ heap[cache[c]].kind = "cache" /\ MemoryShape
    BY <1>4, CacheOfIs DEF Control, Shape
  <2>2. Caching(cache[c]) # {}
    BY DEF Caching
  <2>3. 0 <= Mask(heap, cache[c])
    BY <2>1, CacheIs
  <2>4. EmptyingIs(th'[t])
    BY <1>4, <2>1, <2>2, <2>3 DEF EmptyingIs
  <2>5. ReaderIs(th'[t]) /\ ExpandedIs(th'[t]) /\ NoGarbage(th'[t])
    BY <1>4 DEF ReaderIs, ExpandedIs, Expanding, NoGarbage, Reading
  <2>6. QuietStep(t)
    BY <1>1, <1>4, <2>4, <2>5, NotAdding, NotAddingThen DEF QuietStep
  <2> QED BY <1>1, <2>6, QuietMove
<1> QED BY <1>2, <1>3, <1>4 DEF FlushCacheTo

LEMMA ChangedMemory ==
  ASSUME Control, MemoryOK, NEW t \in Thread, Changed(t)
  PROVE  MemoryOK'
<1>1. /\ Control' /\ Others(t) /\ UNCHANGED memory /\ th[t].pc = "flush"
      /\ th'[t].pc \in {"idle", "read", "collect"}
  BY ChangedIs
<1>2. ReaderIs(th'[t]) /\ EmptyingIs(th'[t]) /\ ExpandedIs(th'[t]) /\ NoGarbage(th'[t])
  BY <1>1, QuietAt DEF Reading
<1>3. QuietStep(t)
  BY <1>1, <1>2, NotAdding, NotAddingThen DEF QuietStep
<1> QED BY <1>1, <1>3, QuietMove

LEMMA InitializeMemory ==
  ASSUME Control, MemoryOK, NEW c \in CachedClass, _class_initialize(c)
  PROVE  MemoryOK'
<1>1. Control' /\ UNCHANGED <<memory, th>>
  BY InitializeIs
<1>2. \A u \in Thread \ {} : Alike(u)
  BY <1>1 DEF Alike
<1>3. {} \in SUBSET Thread /\ \A u \in {} : QuietStep(u)
  OBVIOUS
<1> QED BY <1>1, <1>2, <1>3, QuietSteps

\* How a thread starts to change the lists.
Changing(t) ==
    \/ \E c \in CachedClass, s \in Sel : class_addMethod(t, c, s)
    \/ \E c \in CachedClass, ss \in Additions : remethodizeClass(t, c, ss)
    \/ \E c \in CachedClass \cup {NULL} : _objc_flush_caches(t, c)
    \/ ResolverAdds(t)

ChangesWith(t, me) ==
    /\ me = th[t] \/ (me \in Local /\ me.cls = NULL)
    /\ th[t].pc \in {"idle", "write"} /\ me.entry = Empty /\ ~ me.alot
    /\ me.back = "read" => me.cls \in CachedClass
    /\ me.cur \in CachedClass \cup {NULL}
    /\ changes' \in 0 .. Changes
    /\ ChangeLists(t, me)

LEMMA ChangingIs ==
  ASSUME Control, NEW t \in Thread, Changing(t)
  PROVE  \E me : ChangesWith(t, me)
<1>1. th[t] \in Local /\ Placed(th[t]) /\ changes \in 0 .. Changes /\ Changes \in Nat
  BY LocalsAre, MethodCacheAssumption DEF Control, Shape, ListShape
<1>2. ASSUME NEW me \in Local, me.cls = NULL, me.entry = Empty, ~ me.alot, me.back # "read",
             me.cur \in CachedClass \cup {NULL}, th[t].pc = "idle", Change, ChangeLists(t, me)
      PROVE  ChangesWith(t, me)
  <2>1. changes' \in 0 .. Changes
    BY <1>1, <1>2 DEF Change
  <2> QED BY <1>2, <2>1 DEF ChangesWith
<1>3. ASSUME NEW c \in CachedClass, NEW s \in Sel, class_addMethod(t, c, s) PROVE \E me : ChangesWith(t, me)
  <2> DEFINE me == [Idle EXCEPT !.in = "addMethod", !.cur = c, !.seen = {s}]
  <2>1. th[t].pc = "idle" /\ Change /\ ChangeLists(t, me)
    BY <1>3 DEF class_addMethod
  <2>2. me \in Local /\ me.cls = NULL /\ me.entry = Empty /\ ~ me.alot /\ me.back = Idle.back /\ me.cur = c
    BY IdleIs, Zenon DEF Local
  <2> HIDE DEF me
  <2> QED BY <1>2, <2>1, <2>2, IdleIs
<1>4. ASSUME NEW c \in CachedClass, NEW ss \in Additions, remethodizeClass(t, c, ss) PROVE \E me : ChangesWith(t, me)
  <2> DEFINE me == [Idle EXCEPT !.in = "remethodizeClass", !.cur = c, !.seen = ss]
  <2>1. th[t].pc = "idle" /\ Change /\ ChangeLists(t, me)
    BY <1>4 DEF remethodizeClass
  <2>2. ss \in SUBSET Sel
    BY MethodCacheAssumption
  <2>3. me \in Local /\ me.cls = NULL /\ me.entry = Empty /\ ~ me.alot /\ me.back = Idle.back /\ me.cur = c
    BY <2>2, IdleIs, Zenon DEF Local
  <2> HIDE DEF me
  <2> QED BY <1>2, <2>1, <2>3, IdleIs
<1>5. ASSUME NEW c \in CachedClass \cup {NULL}, _objc_flush_caches(t, c) PROVE \E me : ChangesWith(t, me)
  <2>1. PICK back \in {"idle", "read", "collect"} :
             back # "read" /\ back = IF c = NULL THEN "collect" ELSE "idle"
    OBVIOUS
  <2> DEFINE me == [Idle EXCEPT !.in = "flush_caches", !.cur = c, !.back = back]
  <2>2. th[t].pc = "idle" /\ Change /\ ChangeLists(t, me)
    BY <1>5, <2>1, Zenon DEF _objc_flush_caches
  <2>3. back \in {"idle", "read", "collect"}
    BY <2>1
  <2>4. me \in Local
    <3> DEFINE a == [Idle EXCEPT !.in = "flush_caches"]
               b == [a EXCEPT !.cur = c]
    <3>1. a \in Local
      BY IdleIs DEF Local
    <3>2. b \in Local
      <4> HIDE DEF a
      <4> QED BY <3>1 DEF Local
    <3>3. me = [b EXCEPT !.back = back]
      OBVIOUS
    <3> HIDE DEF b, me
    <3> QED BY <2>3, <3>2, <3>3 DEF Local
  <2>5. me.cls = NULL /\ me.entry = Empty /\ ~ me.alot /\ me.back = back /\ me.cur = c
    BY IdleIs DEF Local
  <2> HIDE DEF me
  <2> QED BY <1>2, <2>1, <2>2, <2>4, <2>5
<1>6. ASSUME ResolverAdds(t) PROVE ChangesWith(t, th[t])
  <2>1. th[t].pc = "write" /\ UNCHANGED changes /\ ChangeLists(t, th[t])
    BY <1>6 DEF ResolverAdds
  <2>2. th[t].cur \in CachedClass \cup {NULL}
    BY <1>1 DEF Local
  <2> QED BY <1>1, <2>1, <2>2 DEF ChangesWith, Placed
<1> QED BY <1>3, <1>4, <1>5, <1>6 DEF Changing

LEMMA ChangesWithIs ==
  ASSUME Control, NEW t \in Thread, NEW me, ChangesWith(t, me)
  PROVE  /\ Control' /\ UNCHANGED <<memory, initialized, readers, cacheUpdateLock>>
         /\ writer = NULL /\ readers = {} /\ was' = methods /\ methods' = NewMethods(me)
         /\ \A u \in Thread \ {t} : Alike(u) /\ Grown(u)
         /\ th[t].pc \in {"idle", "write"}
         /\ th'[t].pc = "flush" /\ th'[t].flush = ToFlush(me) /\ th'[t].entry = Empty
         /\ th'[t].cls = NULL \/ (th'[t].cls = th[t].cls /\ th'[t].sel = th[t].sel /\ Grown(t))
         /\ me.cur \in CachedClass \cup {NULL}
BY ChangeListsIs DEF ChangesWith

LEMMA ChangingMemory ==
  ASSUME Control, MemoryOK, NEW t \in Thread, Changing(t)
  PROVE  MemoryOK'
<1>1. PICK me : ChangesWith(t, me)
  BY ChangingIs
<1>2. /\ Control' /\ UNCHANGED memory /\ \A u \in Thread \ {t} : Alike(u)
      /\ th[t].pc \in {"idle", "write"} /\ th'[t].pc = "flush"
  BY <1>1, ChangesWithIs
<1>3. ReaderIs(th'[t]) /\ EmptyingIs(th'[t]) /\ ExpandedIs(th'[t]) /\ NoGarbage(th'[t])
  BY <1>2, QuietAt DEF Reading
<1>4. QuietStep(t)
  BY <1>2, <1>3, NotAdding, NotAddingThen DEF QuietStep
<1>5. {t} \in SUBSET Thread /\ \A u \in {t} : QuietStep(u)
  BY <1>4
<1> QED BY <1>2, <1>5, QuietSteps

-----------------------------------------------------------------------------
(* Steps that change memory.                                                   *)

\* What a reader may hold stays.
Kept ==
    /\ \A b \in Block \cup {_objc_empty_cache} : heap[b].kind = "cache" => heap'[b].kind = "cache"
    /\ \A b \in Block : /\ Outgrown(b) => Outgrown(b)'
                        /\ Held(b) => Held(b)' \/ Dropped(b)'
                        /\ Dropped(b) => Dropped(b)'
    /\ \A c \in CachedClass, b \in Block : cache[c] = b => cache'[c] = b \/ Outgrown(b)'

LEMMA ReaderStays ==
  ASSUME Control, Kept, NEW u \in Thread, Alike(u), ReaderIs(th[u])
  PROVE  ReaderIs(th[u])'
<1>1. th[u] \in Local /\ Placed(th[u])
  BY LocalsAre
<1>2. /\ th'[u].pc = th[u].pc /\ th'[u].cache = th[u].cache /\ th'[u].cur = th[u].cur
      /\ th'[u].entry = th[u].entry
  BY DEF Alike
<1>3. PICK b \in Block \cup {_objc_empty_cache} : b = th[u].cache
  BY <1>1 DEF Local
<1>4. th[u].pc \in Reading => heap'[b].kind = "cache" /\ (b \in Block => b = cache'[th[u].cur] \/ Outgrown(b)')
  <2> SUFFICES ASSUME th[u].pc \in Reading
               PROVE  heap'[b].kind = "cache" /\ (b \in Block => b = cache'[th[u].cur] \/ Outgrown(b)')
    OBVIOUS
  <2>1. PICK c \in CachedClass : c = th[u].cur
    BY <1>1 DEF Placed, Reading
  <2>2. heap[b].kind = "cache" /\ (b \in Block => b = cache[c] \/ Outgrown(b))
    BY <1>3, <2>1 DEF ReaderIs
  <2>3. heap'[b].kind = "cache" /\ (b \in Block => b = cache'[c] \/ Outgrown(b)')
    BY <2>2 DEF Kept
  <2> QED BY <2>1, <2>3
<1>5. th[u].pc = "entry" /\ IsForward(th[u].entry) =>
        \E d \in Block : d = th[u].entry[2] /\ (Held(d)' \/ Dropped(d)')
  <2> SUFFICES ASSUME th[u].pc = "entry", IsForward(th[u].entry)
               PROVE  \E d \in Block : d = th[u].entry[2] /\ (Held(d)' \/ Dropped(d)')
    OBVIOUS
  <2>1. PICK d \in Block : d = th[u].entry[2]
    BY <1>1, EntriesAre DEF Local
  <2>2. Held(d) \/ Dropped(d)
    BY <2>1 DEF ReaderIs
  <2> QED BY <2>1, <2>2 DEF Kept
<1> QED BY <1>2, <1>3, <1>4, <1>5 DEF ReaderIs

\* Only one thread at a time is in these places.
LEMMA LockedOut ==
  ASSUME Control, NEW t \in Thread, cacheUpdateLock \in {NULL, t}, NEW u \in Thread \ {t}
  PROVE  th[u].pc \notin {"scan", "insert", "empty"}
BY LocalsAre, MethodCacheAssumption DEF LocksAt

\* A thread that is in none of them is right when it is right as a reader.
LEMMA ReaderIsAll ==
  ASSUME NEW u \in Thread, Alike(u) \/ th'[u].pc \notin Reading \cup {"scan", "insert", "empty"},
         th'[u].pc \notin {"scan", "insert", "empty"},
         Alike(u) => ReaderIs(th[u])'
  PROVE  ThreadOK(u)'
<1>1. SeenOK(u)' /\ EmptyingIs(th[u])' /\ ExpandedIs(th[u])'
  BY DEF SeenOK, EmptyingIs, ExpandedIs, Expanding
<1>2. ReaderIs(th[u])'
  BY DEF ReaderIs, Reading
<1> QED BY <1>1, <1>2 DEF ThreadOK

\* A block that is no cache becomes a forward entry or is freed.
LEMMA OneBlock ==
  ASSUME Control, Control', MemoryOK, NEW t \in Thread, NEW x \in Block,
         heap[x].kind # "cache", heap'[x].kind # "cache",
         \A d \in (Block \cup {_objc_empty_cache}) \ {x} : heap'[d] = heap[d],
         UNCHANGED <<cache, garbage_refs>>, Others(t),
         th[t].pc # "empty", th'[t].pc \in {"fill", "unlock"},
         \A b \in Block \ {x} : t \in Adding(b)' <=> t \in Adding(b),
         ~ Held(x), ~ Dropped(x), PlaceOf(x)'
  PROVE  MemoryOK'
<1>1. \A c \in CachedClass : cache[c] # x /\ cache[c] \in Block \cup {_objc_empty_cache}
  BY CacheOfIs
<1>2. \A u \in Thread \ {t} : th'[u] = th[u] /\ Alike(u)
  BY OthersAlike DEF Others
<1>3. \A b \in Block : Holding(b)' = Holding(b) /\ Caching(b)' = Caching(b) /\ Garbage(b)' = Garbage(b)
  <2>1. \A c \in CachedClass : heap'[cache'[c]] = heap[cache[c]]
    BY <1>1
  <2> QED BY <2>1 DEF Holding, Caching, Garbage
<1>4. ASSUME NEW b \in Block \ {x} PROVE SamePlace(b)
  <2>1. Adding(b)' = Adding(b)
    BY <1>2 DEF Adding
  <2> QED BY <1>3, <2>1 DEF SamePlace
<1>5. ~ Outgrown(x)' /\ ~ Outgrown(x)
  BY DEF Outgrown, IsCache
<1>6. ASSUME NEW b \in Block PROVE PlaceOf(b)' /\ OutgrownOK(b)' /\ CountOK(b)'
  <2>1. CASE b = x
    BY <1>5, <2>1 DEF OutgrownOK, CountOK
  <2>2. CASE b # x
    <3>1. PlaceOf(b) /\ OutgrownOK(b) /\ CountOK(b) /\ heap'[b] = heap[b]
      BY <2>2 DEF MemoryOK
    <3>2. PlaceOf(b)'
      BY <1>4, <2>2, <3>1, SamePlaceIs
    <3>3. OutgrownOK(b)'
      <4> SUFFICES ASSUME Outgrown(b)', NEW i \in DOMAIN heap[b].buckets, IsForward(heap[b].buckets[i])
                   PROVE  Dropped(heap[b].buckets[i][2])'
        BY <3>1 DEF OutgrownOK
      <4>1. Outgrown(b)
        BY <1>4, <2>2, SamePlaceIs
      <4>2. Dropped(heap[b].buckets[i][2])
        BY <3>1, <4>1 DEF OutgrownOK
      <4>3. heap[b].kind = "cache" /\ MemoryShape
        BY <4>1 DEF Outgrown, IsCache, Control, Shape
      <4>4. PICK d \in Block : d = heap[b].buckets[i][2]
        BY <4>3, CacheIs, EntriesAre
      <4>5. d # x
        BY <4>2, <4>4
      <4> QED BY <1>4, <3>1, <4>2, <4>4, <4>5, SamePlaceIs
    <3>4. CountOK(b)'
      <4>1. Emptying(b) => Emptying(b)'
        BY <1>2 DEF Emptying
      <4> QED BY <3>1, <4>1 DEF CountOK, Used
    <3> QED BY <3>2, <3>3, <3>4
  <2> QED BY <2>1, <2>2
<1>7. Kept
  <2>1. ASSUME NEW b \in Block PROVE /\ Outgrown(b) => Outgrown(b)'
                                     /\ Held(b) => Held(b)'
                                     /\ Dropped(b) => Dropped(b)'
    BY <1>4, <1>5, SamePlaceIs
  <2> QED BY <2>1 DEF Kept
<1>8. ASSUME NEW u \in Thread PROVE ThreadOK(u)'
  <2>1. CASE u = t
    <3>1. th'[u].pc \notin Reading \cup {"scan", "insert", "empty"} 
      BY <2>1 DEF Reading
    <3>2. SeenOK(u)' /\ EmptyingIs(th[u])' /\ ExpandedIs(th[u])' /\ ReaderIs(th[u])'
      BY <3>1 DEF SeenOK, EmptyingIs, ExpandedIs, Expanding, ReaderIs, Reading
    <3> QED BY <3>2 DEF ThreadOK
  <2>2. CASE u # t
    <3>1. ThreadOK(u) /\ th'[u] = th[u] /\ Alike(u)
      BY <1>2, <2>2 DEF MemoryOK
    <3>2. ReaderIs(th[u])'
      BY <1>7, <3>1, ReaderStays DEF ThreadOK
    <3>3. SeenOK(u)'
      <4> SUFFICES ASSUME th[u].pc = "scan", NEW w \in th[u].seen PROVE NoGarbage(th[w])'
        BY <3>1 DEF SeenOK
      <4>1. w \in Thread /\ NoGarbage(th[w])
        BY <3>1, LocalsAre DEF ThreadOK, SeenOK, Placed
      <4>2. CASE w = t
        BY <4>2 DEF NoGarbage, Reading
      <4>3. CASE w # t
        <5>1. th'[w] = th[w]
          BY <1>2, <4>1, <4>3
        <5> QED BY <4>1, <5>1 DEF NoGarbage
      <4> QED BY <4>2, <4>3
    <3>4. EmptyingIs(th[u])'
      <4> SUFFICES ASSUME th[u].pc = "empty" PROVE EmptyingIs(th[u])'
        BY <3>1 DEF EmptyingIs
      <4>1. PICK b \in Block : b = th[u].cache /\ Caching(b) # {}
        BY <3>1 DEF ThreadOK, EmptyingIs
      <4>2. heap'[b] = heap[b] /\ Caching(b)' = Caching(b)
        <5>1. b # x
          BY <1>1, <4>1 DEF Caching
        <5> QED BY <1>3, <5>1
      <4> QED BY <3>1, <4>1, <4>2 DEF ThreadOK, EmptyingIs, Mask
    <3>5. ExpandedIs(th[u])'
      <4> SUFFICES ASSUME Expanding(th[u]) PROVE ExpandedIs(th[u])'
        BY <3>1 DEF ExpandedIs
      <4>1. PICK b \in Block : b = cache[th[u].cls] /\ th[u].cls \in CachedClass
        BY <3>1, LocalsAre DEF ThreadOK, ExpandedIs, Placed, Filling
      <4>2. heap'[b] = heap[b]
        BY <1>1, <4>1
      <4> QED BY <3>1, <4>1, <4>2 DEF ThreadOK, ExpandedIs, Mask, Used, Size
    <3> QED BY <3>2, <3>3, <3>4, <3>5 DEF ThreadOK
  <2> QED BY <2>1, <2>2
<1> QED BY <1>6, <1>8 DEF MemoryOK

\* Where a block can be, by what is known of it.
LEMMA PlaceIs ==
  ASSUME MemoryOK, NEW b \in Block
  PROVE  /\ heap[b] = Free => IsFree(b)
         /\ \A t : t \in Adding(b) => Added(b) /\ Adding(b) = {t}
         /\ \A x : x \in Holding(b) => Held(b)
         /\ \A j : j \in Garbage(b) => Outgrown(b) \/ Dropped(b)
<1>1. PlaceOf(b)
  BY DEF MemoryOK
<1>2. Free.kind = "free"
  BY DEF Free
<1>3. IsFree(b) => Adding(b) = {} /\ Holding(b) = {} /\ Garbage(b) = {}
  BY DEF IsFree
<1>4. InUse(b) => heap[b] # Free /\ Adding(b) = {} /\ Holding(b) = {} /\ Garbage(b) = {}
  BY <1>2 DEF InUse, IsCache
<1>5. Outgrown(b) => heap[b] # Free /\ Adding(b) = {} /\ Holding(b) = {}
  BY <1>2 DEF Outgrown, IsCache
<1>6. Held(b) => heap[b] # Free /\ Adding(b) = {} /\ Garbage(b) = {}
  BY <1>2 DEF Held, IsForwarder
<1>7. Added(b) => heap[b] # Free /\ Holding(b) = {} /\ Garbage(b) = {} /\ \E t \in Thread : Adding(b) = {t}
  BY <1>2 DEF Added, IsForwarder
<1>8. Dropped(b) => heap[b] # Free /\ Holding(b) = {} /\ Adding(b) = {}
  BY <1>2 DEF Dropped, IsForwarder
<1> QED BY <1>1, <1>3, <1>4, <1>5, <1>6, <1>7, <1>8 DEF PlaceOf

LEMMA HoldingStays ==
  ASSUME NEW b, \A c \in CachedClass : heap'[cache'[c]] = heap[cache[c]]
  PROVE  Holding(b)' = Holding(b)
BY DEF Holding

LEMMA AddForwardMemory ==
  ASSUME Control, MemoryOK, NEW t \in Thread, _cache_addForwardEntry(t)
  PROVE  MemoryOK'
<1>1. /\ Control' /\ Others(t) /\ UNCHANGED <<cache, garbage_refs>>
      /\ th[t].pc = "forward" /\ th'[t].pc = "fill"
  BY AddForwardIs
<1>2. PICK f \in Block : /\ heap[f] = Free /\ heap' = [heap EXCEPT ![f] = ForwardEntry(th[t].sel)]
                         /\ th'[t].entry = ForwardIn(f)
  BY AddForwardIs
<1>3. PICK v \in HeapValue : v = ForwardEntry(th[t].sel)
  <2>1. th[t].sel \in Sel
    BY <1>1, LocalsAre, MethodCacheAssumption DEF Placed
  <2> QED BY <2>1 DEF HeapValue
<1>4. v.kind = "forward" /\ heap[f].kind = "free"
  BY <1>2, <1>3 DEF ForwardEntry, Free
<1>5. heap'[f] = v /\ \A d \in (Block \cup {_objc_empty_cache}) \ {f} : heap'[d] = heap[d]
  BY <1>2, <1>3, HeapSet DEF Control, Shape
<1>6. IsFree(f)
  BY <1>2, PlaceIs
<1>7. \A c \in CachedClass : heap'[cache'[c]] = heap[cache[c]]
  <2>1. \A c \in CachedClass : cache[c] # f /\ cache[c] \in Block \cup {_objc_empty_cache}
    BY <1>6, CacheOfIs DEF IsFree, Caching
  <2> QED BY <1>1, <1>5, <2>1
<1>8. Holding(f)' = {} /\ Caching(f)' = {} /\ Garbage(f)' = {}
  <2>1. Holding(f)' = Holding(f)
    BY <1>7, HoldingStays
  <2> QED BY <1>1, <1>6, <2>1 DEF IsFree, Caching, Garbage
<1>9. \A b \in Block : t \in Adding(b)' <=> b = f
  BY <1>1, <1>2 DEF Adding, ForwardIn
<1>10. \A b \in Block : t \notin Adding(b)
  BY <1>1, NotAdding
<1>11. Added(f)'
  <2>1. Adding(f)' = {t}
    BY <1>1, <1>6, <1>9 DEF Others, Adding, IsFree
  <2> QED BY <1>4, <1>5, <1>8, <2>1 DEF Added, IsForwarder
<1>12. ~ Held(f) /\ ~ Dropped(f)
  BY <1>4 DEF Held, Dropped, IsForwarder
<1> QED BY <1>1, <1>4, <1>5, <1>9, <1>10, <1>11, <1>12, OneBlock DEF PlaceOf

LEMMA NotAddedMemory ==
  ASSUME Control, MemoryOK, NEW t \in Thread, Filling(th[t]), NotAdded(t),
         UNCHANGED <<writer, readers, cacheUpdateLock, rest>>, cacheUpdateLock # t
  PROVE  MemoryOK'
<1>1. /\ Control' /\ Others(t) /\ UNCHANGED <<cache, garbage_refs, garbage_byte_size>>
      /\ th'[t].pc = "unlock"
      /\ \/ ~ IsForward(th[t].entry) /\ heap' = heap
         \/ \E b \in Block : th[t].entry = ForwardIn(b) /\ heap' = [heap EXCEPT ![b] = Free]
  BY NotAddedIs
<1>2. th[t].pc \in {"fill", "insert", "scan"}
  BY DEF Filling, Expanding
<1>3. \A b \in Block : t \notin Adding(b)'
  BY <1>1, NotAddingThen
<1>4. CASE ~ IsForward(th[t].entry) /\ heap' = heap
  <2>1. \A b \in Block : t \notin Adding(b)
    BY <1>4, NotAdding
  <2>2. /\ ReaderIs(th'[t]) /\ EmptyingIs(th'[t]) /\ ExpandedIs(th'[t])
        /\ NoGarbage(th'[t]) /\ th'[t].pc # "scan"
    BY <1>1, QuietAt DEF Reading
  <2>3. QuietStep(t)
    BY <1>2, <1>3, <2>1, <2>2 DEF QuietStep
  <2> QED BY <1>1, <1>4, <2>3, QuietMove DEF memory
<1>5. ASSUME NEW f \in Block, th[t].entry = ForwardIn(f), heap' = [heap EXCEPT ![f] = Free]
      PROVE  MemoryOK'
  <2>1. t \in Adding(f)
    BY <1>2, <1>5 DEF Adding
  <2>2. Added(f) /\ Adding(f) = {t}
    BY <2>1, PlaceIs
  <2>3. PICK v \in HeapValue : v = Free
    BY DEF HeapValue
  <2>4. heap'[f] = v /\ \A d \in (Block \cup {_objc_empty_cache}) \ {f} : heap'[d] = heap[d]
    BY <1>5, <2>3, HeapSet DEF Control, Shape
  <2>5. v.kind = "free" /\ heap[f].kind = "forward"
    BY <2>2, <2>3 DEF Free, Added, IsForwarder
  <2>6. \A c \in CachedClass : heap'[cache'[c]] = heap[cache[c]]
    <3>1. \A c \in CachedClass : cache[c] # f /\ cache[c] \in Block \cup {_objc_empty_cache}
      BY <2>2, CacheOfIs DEF Added, IsForwarder, Caching
    <3> QED BY <1>1, <2>4, <3>1
  <2>7. Holding(f)' = {} /\ Caching(f)' = {} /\ Garbage(f)' = {}
    <3>1. Holding(f)' = Holding(f)
      BY <2>6, HoldingStays
    <3> QED BY <1>1, <2>2, <3>1 DEF Added, IsForwarder, Caching, Garbage
  <2>8. Adding(f)' = {}
    BY <1>1, <1>3, <2>2 DEF Others, Adding
  <2>9. IsFree(f)'
    BY <2>3, <2>4, <2>7, <2>8 DEF IsFree
  <2>10. \A b \in Block \ {f} : t \notin Adding(b)
    BY <1>5 DEF Adding, ForwardIn
  <2>11. ~ Held(f) /\ ~ Dropped(f)
    BY <2>2 DEF Held, Dropped
  <2> QED BY <1>1, <1>2, <1>3, <2>4, <2>5, <2>9, <2>10, <2>11, OneBlock DEF PlaceOf
<1> QED BY <1>1, <1>4, <1>5

LEMMA InsertMemory ==
  ASSUME Control, MemoryOK, NEW t \in Thread, Filling(th[t]), Insert(t),
         UNCHANGED <<writer, readers, rest>>, cacheUpdateLock \in {NULL, t},
         cache[th[t].cls] \in Block, th[t].cls \in CachedClass,
         heap[cache[th[t].cls]].occupied + 1 < Size(cache[th[t].cls])
  PROVE  MemoryOK'
<1>1. PICK b \in Block : b = cache[th[t].cls]
  OBVIOUS
<1>2. InUse(b) /\ Caching(b) = {th[t].cls} /\ heap[b].kind = "cache" /\ CountOK(b)
  BY <1>1, InUseIs DEF InUse, IsCache, MemoryOK
<1>3. Used(b) # DOMAIN heap[b].buckets
  BY <1>2 DEF CountOK
<1>4. PICK e \in Entry : e = th[t].entry /\ e # Empty
  BY LocalsAre DEF Local, Placed
<1>5. /\ Control' /\ Others(t) /\ UNCHANGED <<cache, garbage_refs, garbage_byte_size>>
      /\ th'[t].pc = "unlock"
      /\ \A d \in (Block \cup {_objc_empty_cache}) \ {b} : heap'[d] = heap[d]
      /\ InsertTo(t)
  BY <1>1, <1>2, <1>3, InsertIs
<1>6. PICK i \in DOMAIN heap[b].buckets :
        /\ heap[b].buckets[i] = Empty
        /\ heap'[b].kind = "cache" /\ heap'[b].occupied = heap[b].occupied + 1
        /\ heap'[b].buckets = [heap[b].buckets EXCEPT ![i] = e]
  BY <1>1, <1>4, <1>5, Zenon DEF InsertTo
<1>7. MemoryShape /\ MemoryShape'
  BY <1>5 DEF Control, Shape
<1>8. th[t].pc \in {"fill", "insert", "scan"}
  BY DEF Filling, Expanding
<1>9. \A u \in Thread \ {t} : th'[u] = th[u] /\ Alike(u) /\ th[u].pc \notin {"scan", "insert", "empty"}
  BY <1>5, OthersAlike, LockedOut DEF Others
<1>10. \A c \in CachedClass : c # th[t].cls => cache[c] # b /\ heap'[cache'[c]] = heap[cache[c]]
  <2> SUFFICES ASSUME NEW c \in CachedClass, c # th[t].cls PROVE cache[c] # b /\ heap'[cache'[c]] = heap[cache[c]]
    OBVIOUS
  <2>1. cache[c] # b
    BY <1>2 DEF Caching
  <2>2. cache[c] \in Block \cup {_objc_empty_cache}
    BY CacheOfIs
  <2> QED BY <1>5, <2>1, <2>2
<1>11. DOMAIN heap'[b].buckets = DOMAIN heap[b].buckets
       /\ heap'[b].buckets[i] = e
       /\ \A j \in DOMAIN heap[b].buckets : j # i => heap'[b].buckets[j] = heap[b].buckets[j]
  BY <1>6
<1>12. \A d : e # ForwardIn(d) => Holding(d)' = Holding(d)
  <2> SUFFICES ASSUME NEW d, e # ForwardIn(d) PROVE Holding(d)' = Holding(d)
    OBVIOUS
  <2>1. ASSUME NEW c \in CachedClass, NEW j PROVE <<c, j>> \in Holding(d)' <=> <<c, j>> \in Holding(d)
    <3>1. CASE c = th[t].cls
      <4>1. cache[c] = b /\ cache'[c] = b
        BY <1>1, <1>5, <3>1
      <4>2. ForwardIn(d) # Empty
        BY DEF ForwardIn, Empty
      <4> QED BY <1>6, <1>11, <2>1, <4>1, <4>2, HoldingHas
    <3>2. CASE c # th[t].cls
      BY <1>10, <3>2, HoldingHas
    <3> QED BY <3>1, <3>2
  <2>2. \A x : x \in Holding(d)' => x \in Holding(d)
    BY <2>1, HoldingPairs
  <2>3. \A x : x \in Holding(d) => x \in Holding(d)'
    BY <2>1, HoldingPairs
  <2> QED BY <2>2, <2>3
<1>13. \A d \in Block : t \notin Adding(d)'
  BY <1>5, NotAddingThen
<1>14. ASSUME NEW d \in Block, e # ForwardIn(d) PROVE SamePlace(d)
  <2>1. Adding(d)' = Adding(d)
    <3>1. t \notin Adding(d)
      BY <1>4, <1>14 DEF Adding
    <3> QED BY <1>9, <1>13, <3>1 DEF Adding
  <2>2. heap'[d].kind = heap[d].kind
    BY <1>2, <1>5, <1>6
  <2>3. heap'[d] = Free <=> heap[d] = Free
    BY <1>2, <1>5, <1>6 DEF Free
  <2> QED BY <1>5, <1>12, <1>14, <2>1, <2>2, <2>3 DEF SamePlace, Caching, Garbage
<1>15. ASSUME NEW d \in Block, e = ForwardIn(d)
       PROVE  Added(d) /\ Held(d)' /\ d # b /\ heap'[d] = heap[d]
  <2>1. t \in Adding(d)
    BY <1>4, <1>8, <1>15 DEF Adding
  <2>2. Added(d) /\ Adding(d) = {t}
    BY <2>1, PlaceIs
  <2>3. d # b /\ heap'[d] = heap[d]
    BY <1>2, <1>5, <2>2 DEF Added, IsForwarder
  <2>4. Adding(d)' = {}
    BY <1>9, <1>13, <2>2 DEF Adding
  <2>5. Holding(d)' = {<<th[t].cls, i>>}
    <3>1. ASSUME NEW c \in CachedClass, NEW j
          PROVE  <<c, j>> \in Holding(d)' <=> (c = th[t].cls /\ j = i)
      <4>1. <<c, j>> \notin Holding(d)
        BY <2>2 DEF Added
      <4>2. CASE c = th[t].cls
        <5>1. cache[c] = b /\ cache'[c] = b
          BY <1>1, <1>5, <4>2
        <5> QED BY <1>6, <1>11, <1>15, <4>1, <4>2, <5>1, HoldingHas
      <4>3. CASE c # th[t].cls
        BY <1>10, <4>1, <4>3, HoldingHas
      <4> QED BY <4>2, <4>3
    <3>2. \A x : x \in Holding(d)' => x = <<th[t].cls, i>>
      BY <3>1, HoldingPairs
    <3> QED BY <3>1, <3>2
  <2>6. <<th[t].cls, i>> \in CachedClass \X Nat
    BY <1>2, <1>7, CacheIs
  <2>7. Caching(d)' = {} /\ Garbage(d)' = {} /\ heap'[d].kind = "forward"
    BY <1>5, <2>2, <2>3 DEF Added, IsForwarder, Caching, Garbage
  <2> QED BY <2>2, <2>3, <2>4, <2>5, <2>6, <2>7 DEF Held, IsForwarder
<1>16. \A d \in Block : /\ PlaceOf(d)'
                        /\ Outgrown(d)' <=> Outgrown(d)
                        /\ Held(d) => Held(d)'
                        /\ Dropped(d) => Dropped(d)'
  <2> SUFFICES ASSUME NEW d \in Block PROVE /\ PlaceOf(d)'
                                            /\ Outgrown(d)' <=> Outgrown(d)
                                            /\ Held(d) => Held(d)'
                                            /\ Dropped(d) => Dropped(d)'
    OBVIOUS
  <2>1. PlaceOf(d)
    BY DEF MemoryOK
  <2>2. CASE e = ForwardIn(d)
    <3>1. Added(d) /\ Held(d)' /\ heap'[d] = heap[d]
      BY <1>15, <2>2
    <3>2. ~ Dropped(d)
      BY <3>1 DEF Added, Dropped
    <3>3. heap[d].kind = "forward"
      BY <3>1 DEF Added, IsForwarder
    <3>4. ~ Outgrown(d) /\ ~ Outgrown(d)'
      BY <3>1, <3>3 DEF Outgrown, IsCache
    <3> QED BY <3>1, <3>2, <3>4 DEF PlaceOf
  <2>3. CASE e # ForwardIn(d)
    BY <1>14, <2>1, <2>3, SamePlaceIs
  <2> QED BY <2>2, <2>3
<1>17. ASSUME NEW d \in Block PROVE OutgrownOK(d)'
  <2> SUFFICES ASSUME Outgrown(d)' PROVE OutgrownOK(d)'
    BY DEF OutgrownOK
  <2>1. Outgrown(d) /\ OutgrownOK(d)
    BY <1>16 DEF MemoryOK
  <2>2. d # b /\ heap'[d] = heap[d] /\ heap[d].kind = "cache"
    BY <1>2, <1>5, <2>1 DEF Outgrown, IsCache
  <2>3. ASSUME NEW k \in DOMAIN heap[d].buckets, IsForward(heap[d].buckets[k])
        PROVE  Dropped(heap[d].buckets[k][2])'
    <3>1. PICK y \in Block : y = heap[d].buckets[k][2]
      BY <1>7, <2>2, <2>3, CacheIs, EntriesAre
    <3>2. Dropped(y)
      BY <2>1, <2>3, <3>1 DEF OutgrownOK
    <3> QED BY <1>5, <1>16, <2>2, <3>1, <3>2
  <2> QED BY <2>2, <2>3 DEF OutgrownOK
<1>18. ASSUME NEW d \in Block PROVE CountOK(d)'
  <2>1. \A u \in Thread : th[u].pc # "empty"
    BY <1>8, <1>9
  <2>2. ~ Emptying(d)
    BY <2>1 DEF Emptying
  <2>3. CountOK(d)
    BY DEF MemoryOK
  <2>4. CASE d # b
    <3>1. heap'[d] = heap[d]
      BY <1>5, <2>4
    <3> QED BY <2>2, <2>3, <3>1 DEF CountOK, Used
  <2>5. CASE d = b
    <3>1. heap[b].occupied = Cardinality(Used(b)) /\ heap[b].occupied \in Nat
      BY <1>2, <1>7, <2>2, <2>5, CacheIs DEF CountOK
    <3>2. Used(b)' = Used(b) \cup {i} /\ i \notin Used(b)
      BY <1>4, <1>6, <1>11 DEF Used
    <3>3. IsFiniteSet(Used(b))
      <4>1. Used(b) \subseteq DOMAIN heap[b].buckets /\ IsFiniteSet(DOMAIN heap[b].buckets)
        BY <1>2, <1>7, CacheIs DEF Used
      <4> QED BY <4>1, FS_Subset
    <3>4. Cardinality(Used(b)') = Cardinality(Used(b)) + 1
      BY <3>2, <3>3, FS_AddElement
    <3>5. Cardinality(DOMAIN heap[b].buckets) = Size(b) /\ Size(b) \in Nat
      BY <1>2, <1>7, CacheIs
    <3>6. heap[b].occupied + 1 < Size(b)
      BY <1>1
    <3>7. Used(b)' # DOMAIN heap[b].buckets
      BY <3>1, <3>4, <3>5, <3>6
    <3> QED BY <1>6, <1>11, <2>5, <3>1, <3>4, <3>7 DEF CountOK
  <2> QED BY <2>4, <2>5
<1>19. Kept
  <2>1. \A d \in Block \cup {_objc_empty_cache} : heap[d].kind = "cache" => heap'[d].kind = "cache"
    BY <1>5, <1>6
  <2> QED BY <1>5, <1>16, <2>1 DEF Kept
<1>20. ASSUME NEW u \in Thread PROVE ThreadOK(u)'
  <2>1. CASE u = t
    <3>1. ~ Alike(u)
      BY <1>5, <1>8, <2>1 DEF Alike
    <3> QED BY <1>5, <2>1, <3>1, ReaderIsAll DEF Reading
  <2>2. CASE u # t
    <3>1. Alike(u) /\ th'[u].pc \notin {"scan", "insert", "empty"} /\ ReaderIs(th[u])
      BY <1>9, <2>2 DEF MemoryOK, ThreadOK
    <3>2. ReaderIs(th[u])'
      BY <1>19, <3>1, ReaderStays
    <3> QED BY <3>1, <3>2, ReaderIsAll
  <2> QED BY <2>1, <2>2
<1> QED BY <1>16, <1>17, <1>18, <1>20 DEF MemoryOK

\* The blocks that go with the cache in old: itself and its forward entries.
Drops(old) ==
    {d \in Block : d = old \/ \E i \in DOMAIN heap[old].buckets : heap[old].buckets[i] = ForwardIn(d)}

\* They become garbage, each once.
DropsAll(old) ==
    /\ \A d \in Block \ Drops(old) : Garbage(d)' = Garbage(d)
    /\ \A d \in Drops(old) : \E j \in DOMAIN garbage_refs' : Garbage(d)' = {j}

LEMMA NewCacheMemory ==
  ASSUME Control, Control', MemoryOK, NEW t \in Thread, NEW c0 \in CachedClass, c0 = th[t].cls,
         NEW f \in Block, NEW n \in Nat \ {0, 1},
         NewCache(t, f, n), Expanded(t), th[t].pc = "fill", cacheUpdateLock = NULL,
         NEW old \in Block \cup {_objc_empty_cache}, cache[c0] = old, DropsAll(old)
  PROVE  MemoryOK'
<1>1. /\ heap'[f] = CacheBlock(n)
      /\ \A d \in (Block \cup {_objc_empty_cache}) \ {f} : heap'[d] = heap[d]
      /\ cache'[c0] = f /\ \A c \in CachedClass \ {c0} : cache'[c] = cache[c]
  BY NewCacheIs
<1>2. IsFree(f) /\ heap[f].kind = "free"
  BY PlaceIs DEF NewCache, Free
<1>3. /\ heap'[f].kind = "cache" /\ heap'[f].occupied = 0
      /\ DOMAIN heap'[f].buckets = 0 .. n - 1
      /\ Cardinality(DOMAIN heap'[f].buckets) = n
      /\ \A i \in 0 .. n - 1 : heap'[f].buckets[i] = Empty
  BY <1>1, CacheBlockIs DEF CacheRecord
<1>4. MemoryShape
  BY DEF Control, Shape
<1>5. \A c \in CachedClass : cache[c] # f /\ cache[c] \in Block \cup {_objc_empty_cache} /\ heap[cache[c]].kind = "cache"
  BY <1>2, CacheOfIs DEF IsFree, Caching
<1>6. \A c \in CachedClass \ {c0} : heap'[cache'[c]] = heap[cache[c]]
  BY <1>1, <1>5
<1>7. ASSUME NEW d, NEW c \in CachedClass, NEW j
      PROVE  <<c, j>> \in Holding(d)' <=> (c # c0 /\ <<c, j>> \in Holding(d))
  <2>1. ForwardIn(d) # Empty
    BY DEF ForwardIn, Empty
  <2>2. \A i \in DOMAIN heap'[f].buckets : heap'[f].buckets[i] = Empty
    BY <1>3
  <2>3. CASE c = c0
    BY <1>1, <2>1, <2>2, <2>3, HoldingHas
  <2>4. CASE c # c0
    BY <1>6, <2>4, HoldingHas
  <2> QED BY <2>3, <2>4
<1>8. ASSUME NEW d \in Block, d \notin Drops(old) PROVE Holding(d)' = Holding(d)
  <2>1. \A j : <<c0, j>> \notin Holding(d)
    BY <1>8, HoldingHas DEF Drops
  <2>2. \A x : x \in Holding(d)' => x \in Holding(d)
    BY <1>7, HoldingPairs
  <2>3. \A x : x \in Holding(d) => x \in Holding(d)'
    BY <1>7, <2>1, HoldingPairs
  <2> QED BY <2>2, <2>3
<1>9. \A u \in Thread \ {t} : th'[u] = th[u] /\ Alike(u) /\ th[u].pc \notin {"scan", "insert", "empty"}
  BY OthersAlike, LockedOut DEF Expanded, Others
<1>10. \A d \in Block : Adding(d)' = Adding(d)
  <2> SUFFICES ASSUME NEW d \in Block PROVE Adding(d)' = Adding(d)
    OBVIOUS
  <2>1. t \in Adding(d)' <=> t \in Adding(d)
    BY DEF Adding, Expanded
  <2> QED BY <1>9, <2>1 DEF Adding
<1>11. f \notin Drops(old) /\ f # old
  <2>1. f # old
    BY <1>5
  <2>2. ASSUME NEW i \in DOMAIN heap[old].buckets, heap[old].buckets[i] = ForwardIn(f) PROVE FALSE
    <3>1. <<c0, i>> \in Holding(f)
      BY <2>2, HoldingHas
    <3> QED BY <1>2, <3>1 DEF IsFree
  <2> QED BY <2>1, <2>2 DEF Drops
<1>12. ASSUME NEW d \in Block, d # f PROVE Caching(d)' = Caching(d) \ {c0}
  BY <1>1, <1>12 DEF Caching
<1>13. ASSUME NEW d \in Block, d # f, d \notin Drops(old) PROVE SamePlace(d)
  <2>1. Caching(d)' = Caching(d)
    BY <1>12, <1>13 DEF Caching, Drops
  <2> QED BY <1>1, <1>8, <1>10, <1>13, <2>1 DEF SamePlace, DropsAll
<1>14. InUse(f)'
  <2>1. Caching(f)' = {c0}
    BY <1>1, <1>5 DEF Caching
  <2>2. Holding(f)' = {} /\ Adding(f)' = {} /\ Garbage(f)' = {}
    BY <1>2, <1>8, <1>10, <1>11 DEF IsFree, DropsAll
  <2> QED BY <1>3, <2>1, <2>2 DEF InUse, IsCache
<1>15. ASSUME old \in Block PROVE InUse(old) /\ Outgrown(old)'
  <2>1. InUse(old) /\ Caching(old) = {c0}
    BY <1>15, InUseIs
  <2>2. heap'[old] = heap[old] /\ Adding(old)' = {} /\ Caching(old)' = {}
    BY <1>1, <1>10, <1>11, <1>12, <1>15, <2>1 DEF InUse, IsCache
  <2>3. Holding(old)' = {}
    <3>1. Holding(old) = {}
      BY <2>1 DEF InUse, IsCache
    <3>2. \A x : x \notin Holding(old)'
      BY <1>7, <3>1, HoldingPairs
    <3> QED BY <3>2
  <2>4. \E j \in DOMAIN garbage_refs' : Garbage(old)' = {j}
    BY <1>15 DEF DropsAll, Drops
  <2> QED BY <2>1, <2>2, <2>3, <2>4 DEF Outgrown, InUse, IsCache
<1>16. ASSUME NEW d \in Drops(old), d # old PROVE Held(d) /\ Dropped(d)'
  <2>1. PICK i \in DOMAIN heap[old].buckets : heap[old].buckets[i] = ForwardIn(d)
    BY <1>16 DEF Drops
  <2>2. d \in Block
    BY DEF Drops
  <2>3. <<c0, i>> \in Holding(d)
    BY <2>1, HoldingHas
  <2>4. Held(d)
    BY <2>2, <2>3, PlaceIs
  <2>5. Holding(d) = {<<c0, i>>}
    BY <2>3, <2>4 DEF Held
  <2>6. Holding(d)' = {}
    <3>1. \A x : x \notin Holding(d)'
      BY <1>7, <2>5, HoldingPairs
    <3> QED BY <3>1
  <2>7. d # f
    BY <1>11
  <2>8. heap'[d] = heap[d] /\ Adding(d)' = {} /\ Caching(d)' = {}
    BY <1>1, <1>10, <1>12, <2>2, <2>4, <2>7 DEF Held, IsForwarder
  <2>9. \E j \in DOMAIN garbage_refs' : Garbage(d)' = {j}
    BY DEF DropsAll
  <2> QED BY <2>4, <2>6, <2>8, <2>9 DEF Dropped, Held, IsForwarder
<1>17. \A d \in Block : /\ PlaceOf(d)'
                        /\ Outgrown(d) => Outgrown(d)'
                        /\ Held(d) => Held(d)' \/ Dropped(d)'
                        /\ Dropped(d) => Dropped(d)'
                        /\ Outgrown(d)' => Outgrown(d) \/ d = old
  <2> SUFFICES ASSUME NEW d \in Block
               PROVE  /\ PlaceOf(d)'
                      /\ Outgrown(d) => Outgrown(d)'
                      /\ Held(d) => Held(d)' \/ Dropped(d)'
                      /\ Dropped(d) => Dropped(d)'
                      /\ Outgrown(d)' => Outgrown(d) \/ d = old
    OBVIOUS
  <2>1. CASE d = f
    <3>1. ~ Outgrown(d) /\ ~ Held(d) /\ ~ Dropped(d)
      BY <1>2, <2>1 DEF Outgrown, IsCache, Held, Dropped, IsForwarder
    <3>2. ~ Outgrown(d)'
      BY <1>14, <2>1 DEF InUse, Outgrown
    <3> QED BY <1>14, <2>1, <3>1, <3>2 DEF PlaceOf
  <2>2. CASE d = old
    <3>1. ~ Held(d) /\ ~ Dropped(d)
      BY <1>15, <2>2 DEF InUse, IsCache, Held, Dropped, IsForwarder
    <3> QED BY <1>15, <2>2, <3>1 DEF PlaceOf
  <2>3. CASE d \in Drops(old) /\ d # old
    <3>1. Held(d) /\ Dropped(d)'
      BY <1>16, <2>3
    <3>2. ~ Outgrown(d) /\ ~ Outgrown(d)'
      BY <3>1 DEF Held, Dropped, IsForwarder, Outgrown, IsCache
    <3> QED BY <3>1, <3>2 DEF PlaceOf
  <2>4. CASE d \notin Drops(old) /\ d # f
    <3>1. PlaceOf(d)
      BY DEF MemoryOK
    <3> QED BY <1>13, <2>4, <3>1, SamePlaceIs
  <2> QED BY <2>1, <2>2, <2>3, <2>4
<1>18. ASSUME NEW d \in Block PROVE OutgrownOK(d)'
  <2> SUFFICES ASSUME Outgrown(d)' PROVE OutgrownOK(d)'
    BY DEF OutgrownOK
  <2>1. d # f
    BY <1>14 DEF InUse, Outgrown
  <2>2. heap'[d] = heap[d] /\ heap[d].kind = "cache"
    BY <1>1, <2>1 DEF Outgrown, IsCache
  <2>3. ASSUME NEW k \in DOMAIN heap[d].buckets, IsForward(heap[d].buckets[k])
        PROVE  Dropped(heap[d].buckets[k][2])'
    <3>1. PICK y \in Block : y = heap[d].buckets[k][2] /\ heap[d].buckets[k] = ForwardIn(y)
      BY <1>4, <2>2, <2>3, CacheIs, EntriesAre
    <3>2. CASE d = old
      <4>1. y \in Drops(old)
        BY <3>1, <3>2 DEF Drops
      <4>2. y # old
        <5>1. <<c0, k>> \in Holding(y)
          BY <3>1, <3>2, HoldingHas
        <5> QED BY <1>15, <3>2, <5>1 DEF InUse, IsCache
      <4> QED BY <1>16, <2>2, <3>1, <4>1, <4>2
    <3>3. CASE d # old
      <4>1. Outgrown(d) /\ OutgrownOK(d)
        BY <1>17, <3>3 DEF MemoryOK
      <4>2. Dropped(y)
        BY <2>3, <3>1, <4>1 DEF OutgrownOK
      <4> QED BY <1>17, <2>2, <3>1, <4>2
    <3> QED BY <3>2, <3>3
  <2> QED BY <2>2, <2>3 DEF OutgrownOK
<1>19. ASSUME NEW d \in Block PROVE CountOK(d)'
  <2>1. CASE d # f
    <3>1. heap'[d] = heap[d] /\ CountOK(d)
      BY <1>1, <2>1 DEF MemoryOK
    <3>2. \A u \in Thread : th[u].pc # "empty"
      BY <1>9
    <3>3. ~ Emptying(d)
      BY <3>2 DEF Emptying
    <3> QED BY <3>1, <3>3 DEF CountOK, Used
  <2>2. CASE d = f
    <3>1. Used(d)' = {} /\ DOMAIN heap'[d].buckets # {}
      BY <1>3, <2>2 DEF Used
    <3> QED BY <1>3, <2>2, <3>1, FS_EmptySet DEF CountOK
  <2> QED BY <2>1, <2>2
<1>20. Kept
  <2>1. \A d \in Block \cup {_objc_empty_cache} : heap[d].kind = "cache" => heap'[d].kind = "cache"
    BY <1>1, <1>3
  <2>2. \A c \in CachedClass, b \in Block : cache[c] = b => cache'[c] = b \/ Outgrown(b)'
    BY <1>1, <1>15
  <2> QED BY <1>17, <2>1, <2>2 DEF Kept
<1>21. ASSUME NEW u \in Thread PROVE ThreadOK(u)'
  <2>1. CASE u = t
    <3>1. th'[t].pc \in {"insert", "scan"} /\ th'[t].cls = c0 /\ (th'[t].pc = "scan" => th'[t].seen = {})
      BY DEF Expanded
    <3>2. ReaderIs(th[t])' /\ SeenOK(t)' /\ EmptyingIs(th[t])'
      BY <3>1 DEF ReaderIs, SeenOK, EmptyingIs, Reading
    <3>3. Used(f)' = {} /\ Size(f)' > 1
      BY <1>3 DEF Used, Size, Mask
    <3>4. ExpandedIs(th[t])'
      BY <1>1, <1>3, <3>1, <3>3 DEF ExpandedIs, Used, Size
    <3> QED BY <2>1, <3>2, <3>4 DEF ThreadOK
  <2>2. CASE u # t
    <3>1. Alike(u) /\ th'[u].pc \notin {"scan", "insert", "empty"} /\ ReaderIs(th[u])
      BY <1>9, <2>2 DEF MemoryOK, ThreadOK
    <3>2. ReaderIs(th[u])'
      BY <1>20, <3>1, ReaderStays
    <3> QED BY <3>1, <3>2, ReaderIsAll
  <2> QED BY <2>1, <2>2
<1> QED BY <1>17, <1>18, <1>19, <1>21 DEF MemoryOK

LEMMA CreateMemory ==
  ASSUME Control, MemoryOK, NEW t \in Thread, th[t].pc = "fill", cacheUpdateLock = NULL,
         cacheUpdateLock' = t, UNCHANGED <<writer, readers, rest>>, Unused # {},
         _cache_create(t), cache[th[t].cls] = _objc_empty_cache
  PROVE  MemoryOK'
<1>1. PICK c0 \in CachedClass : c0 = th[t].cls
  BY LocalsAre DEF Placed, Filling
<1>2. Control' /\ Expanded(t) /\ UNCHANGED garbage_refs
  BY CreateIs
<1>3. PICK f \in Block : NewCache(t, f, INIT_CACHE_SIZE)
  BY CreateIs
<1>4. INIT_CACHE_SIZE \in Nat \ {0, 1}
  BY MethodCacheAssumption
<1>5. MemoryShape
  BY DEF Control, Shape
<1>6. Drops(_objc_empty_cache) = {}
  <2>1. \A d : ForwardIn(d) # Empty
    BY DEF ForwardIn, Empty
  <2> QED BY <1>5, <2>1, EmptyCacheIs DEF Drops
<1>7. DropsAll(_objc_empty_cache)
  BY <1>2, <1>6 DEF DropsAll, Garbage
<1>8. _objc_empty_cache \in Block \cup {_objc_empty_cache} /\ cache[c0] = _objc_empty_cache
  BY <1>1
<1> QED BY <1>1, <1>2, <1>3, <1>4, <1>7, <1>8, NewCacheMemory

LEMMA MiddlePart ==
  ASSUME NEW L \in Nat, NEW M \in Nat, NEW j \in 1 .. L + M + 1, j \notin 1 .. L, j # L + M + 1
  PROVE  \E k \in 1 .. M : j = L + k
<1>1. j - L \in 1 .. M /\ j = L + (j - L)
  OBVIOUS
<1> QED BY <1>1

LEMMA LastPart ==
  ASSUME NEW S, NEW gf \in Seq(S), NEW x \in S, NEW N \in Nat, N = Len(gf)
  PROVE  /\ Append(gf, x)[N + 1] = x /\ \A j \in 1 .. N : Append(gf, x)[j] = gf[j]
         /\ DOMAIN Append(gf, x) = 1 .. N + 1
<1>1. Append(gf, x)[N + 1] = x /\ \A j \in 1 .. N : Append(gf, x)[j] = gf[j]
  BY AppendProperties
<1>2. Append(gf, x) \in Seq(S) /\ Len(Append(gf, x)) = N + 1
  BY AppendProperties
<1> QED BY <1>1, <1>2

LEMMA ThreeParts ==
  ASSUME NEW S, NEW g \in Seq(S), NEW fs \in Seq(S), NEW x \in S,
         NEW L \in Nat, L = Len(g), NEW M \in Nat, M = Len(fs)
  PROVE  LET h == g \o fs \o <<x>> IN
         /\ DOMAIN h = 1 .. L + M + 1
         /\ \A j \in 1 .. L : h[j] = g[j]
         /\ \A k \in 1 .. M : h[L + k] = fs[k]
         /\ h[L + M + 1] = x
<1>1. g \o fs \in Seq(S)
  BY ConcatProperties
<1>2. PICK gf \in Seq(S) : gf = g \o fs
  BY <1>1
<1>3. PICK N \in Nat : N = L + M
  OBVIOUS
<1>4. Len(gf) = N /\ (\A j \in 1 .. L : gf[j] = g[j]) /\ (\A k \in 1 .. M : gf[L + k] = fs[k])
  BY <1>2, <1>3, ConcatProperties
<1>5. PICK h : h = Append(gf, x)
  OBVIOUS
<1>6. h[N + 1] = x /\ (\A j \in 1 .. N : h[j] = gf[j]) /\ DOMAIN h = 1 .. N + 1
  BY <1>4, <1>5, LastPart
<1>7. h = g \o fs \o <<x>>
  BY <1>2, <1>5, AppendIsConcat
<1>8. \A k \in 1 .. M : L + k \in 1 .. N
  BY <1>3
<1>9. \A j \in 1 .. L : j \in 1 .. N
  BY <1>3
<1>10. \A k \in 1 .. M : h[L + k] = fs[k]
  BY <1>4, <1>6, <1>8
<1>11. \A j \in 1 .. L : h[j] = g[j]
  BY <1>4, <1>6, <1>9
<1> QED BY <1>3, <1>6, <1>7, <1>10, <1>11

LEMMA ExpandMemory ==
  ASSUME Control, MemoryOK, NEW t \in Thread, th[t].pc = "fill", cacheUpdateLock = NULL,
         cacheUpdateLock' = t, UNCHANGED <<writer, readers, rest>>, Unused # {},
         _cache_expand(t), cache[th[t].cls] \in Block
  PROVE  MemoryOK'
<1>1. PICK c0 \in CachedClass : c0 = th[t].cls
  BY LocalsAre DEF Placed, Filling
<1>2. PICK old \in Block : old = cache[c0]
  BY <1>1
<1>3. InUse(old) /\ Caching(old) = {c0} /\ heap[old].kind = "cache" /\ MemoryShape
  BY <1>2, InUseIs DEF InUse, IsCache, Control, Shape
<1>4. Control' /\ Expanded(t) /\ ExpandTo(t, old)
  BY <1>1, <1>2, <1>3, ExpandIs
<1>5. PICK f \in Block, n \in Nat \ {0, 1} : NewCache(t, f, n)
  BY <1>4 DEF ExpandTo
<1>6. PICK fs \in Seq(Block) : fs = ForwardEntries(heap[old].buckets)
  BY <1>3, ForwardsAre
<1>7. PICK at :
        /\ \A k \in 1 .. Len(fs) : at[k] \in DOMAIN heap[old].buckets
                                   /\ heap[old].buckets[at[k]] = ForwardIn(fs[k])
        /\ \A k, l \in 1 .. Len(fs) : at[k] = at[l] => k = l
        /\ \A i \in DOMAIN heap[old].buckets : IsForward(heap[old].buckets[i]) =>
             \E k \in 1 .. Len(fs) : at[k] = i
  BY <1>3, <1>6, ForwardsAre
<1>8. PICK g \in Seq(Block) : g = garbage_refs
  BY <1>3 DEF MemoryShape
<1>9. PICK h : h = garbage_refs' /\ h = g \o fs \o <<old>>
  BY <1>4, <1>6, <1>8 DEF ExpandTo
<1>10. PICK L \in Nat, M \in Nat : L = Len(g) /\ M = Len(fs)
  BY <1>6, <1>8
<1>11. /\ DOMAIN h = 1 .. L + M + 1 /\ DOMAIN g = 1 .. L
       /\ \A j \in 1 .. L : h[j] = g[j]
       /\ \A k \in 1 .. M : h[L + k] = fs[k]
       /\ h[L + M + 1] = old
  <2>1. DOMAIN g = 1 .. Len(g)
    OBVIOUS
  <2> QED BY <1>9, <1>10, <2>1, ThreeParts
<1>12. \A k \in 1 .. M : fs[k] \in Block /\ fs[k] \in Drops(old)
                         /\ <<c0, at[k]>> \in Holding(fs[k]) /\ Held(fs[k])
  <2> SUFFICES ASSUME NEW k \in 1 .. M
               PROVE  fs[k] \in Block /\ fs[k] \in Drops(old)
                      /\ <<c0, at[k]>> \in Holding(fs[k]) /\ Held(fs[k])
    OBVIOUS
  <2>1. fs[k] \in Block
    BY <1>10
  <2>2. at[k] \in DOMAIN heap[old].buckets /\ heap[old].buckets[at[k]] = ForwardIn(fs[k])
    BY <1>7, <1>10
  <2>3. <<c0, at[k]>> \in Holding(fs[k])
    BY <1>2, <2>2, HoldingHas
  <2> QED BY <2>1, <2>2, <2>3, PlaceIs DEF Drops
<1>13. \A d, j : /\ j \in Garbage(d) <=> j \in DOMAIN g /\ g[j] = d
                 /\ j \in Garbage(d)' <=> j \in DOMAIN h /\ h[j] = d
  BY <1>8, <1>9 DEF Garbage
<1> DEFINE Middle(j) == \E k \in 1 .. M : j = L + k /\ h[j] = fs[k]
<1>14. ASSUME NEW j \in DOMAIN h, j \notin 1 .. L, j # L + M + 1 PROVE Middle(j)
  <2>1. j \in 1 .. L + M + 1
    BY <1>11
  <2>2. PICK k \in 1 .. M : j = L + k
    BY <1>14, <2>1, MiddlePart
  <2> QED BY <1>11, <2>2
<1>15. ASSUME NEW d \in Block \ Drops(old) PROVE Garbage(d)' = Garbage(d)
  <2>1. d # old
    BY DEF Drops
  <2>2. ASSUME NEW j, j \in Garbage(d)' PROVE j \in Garbage(d)
    <3>1. j \in DOMAIN h /\ h[j] = d
      BY <1>13, <2>2
    <3>2. j # L + M + 1
      BY <1>11, <2>1, <3>1
    <3>3. ~ Middle(j)
      BY <1>12, <3>1
    <3>4. j \in 1 .. L
      BY <1>14, <3>1, <3>2, <3>3
    <3> QED BY <1>11, <1>13, <3>1, <3>4
  <2>3. \A j : j \in Garbage(d) => j \in Garbage(d)'
    BY <1>11, <1>13
  <2> QED BY <2>2, <2>3
<1>16. Garbage(old)' = {L + M + 1}
  <2>1. \A j : j \notin Garbage(old)
    BY <1>3 DEF InUse
  <2>2. \A k \in 1 .. M : fs[k] # old
    BY <1>3, <1>12 DEF Held, IsForwarder
  <2>3. ASSUME NEW j, j \in Garbage(old)' PROVE j = L + M + 1
    <3>1. j \in DOMAIN h /\ h[j] = old
      BY <1>13, <2>3
    <3>2. j \notin 1 .. L
      BY <1>11, <1>13, <2>1, <3>1
    <3>3. ~ Middle(j)
      BY <2>2, <3>1
    <3> QED BY <1>14, <3>1, <3>2, <3>3
  <2>4. L + M + 1 \in Garbage(old)'
    BY <1>11, <1>13
  <2> QED BY <2>3, <2>4
<1>17. ASSUME NEW d \in Drops(old), d # old PROVE \E k \in 1 .. M : Garbage(d)' = {L + k}
  <2>1. PICK i \in DOMAIN heap[old].buckets : heap[old].buckets[i] = ForwardIn(d)
    BY <1>17 DEF Drops
  <2>2. d \in Block /\ IsForward(heap[old].buckets[i])
    BY <2>1, EntriesAre DEF Drops
  <2>3. PICK k \in 1 .. M : at[k] = i
    BY <1>7, <1>10, <2>2
  <2>4. fs[k] = d
    BY <1>7, <1>10, <2>1, <2>3 DEF ForwardIn
  <2>5. Held(d) /\ <<c0, at[k]>> \in Holding(d)
    BY <1>12, <2>4
  <2>6. \A j : j \notin Garbage(d)
    BY <2>5 DEF Held
  <2>7. \A l \in 1 .. M : fs[l] = d => l = k
    <3> SUFFICES ASSUME NEW l \in 1 .. M, fs[l] = d PROVE l = k
      OBVIOUS
    <3>1. <<c0, at[l]>> \in Holding(d)
      BY <1>12
    <3>2. at[l] = at[k]
      BY <2>5, <3>1 DEF Held
    <3> QED BY <1>7, <1>10, <3>2
  <2>8. ASSUME NEW j, j \in Garbage(d)' PROVE j = L + k
    <3>1. j \in DOMAIN h /\ h[j] = d
      BY <1>13, <2>8
    <3>2. j # L + M + 1
      BY <1>11, <1>17, <3>1
    <3>3. j \notin 1 .. L
      BY <1>11, <1>13, <2>6, <3>1
    <3>4. PICK l \in 1 .. M : j = L + l /\ h[j] = fs[l]
      BY <1>14, <3>1, <3>2, <3>3
    <3>5. fs[l] = d
      BY <3>1, <3>4
    <3> QED BY <2>7, <3>4, <3>5
  <2>9. L + k \in Garbage(d)'
    <3>1. L + k \in DOMAIN h /\ h[L + k] = fs[k]
      BY <1>11
    <3> QED BY <1>13, <2>4, <3>1
  <2> QED BY <2>8, <2>9
<1>18. DropsAll(old)
  <2>1. ASSUME NEW d \in Drops(old) PROVE \E j \in DOMAIN garbage_refs' : Garbage(d)' = {j}
    <3>1. PICK j : Garbage(d)' = {j}
      BY <1>16, <1>17
    <3>2. j \in DOMAIN garbage_refs'
      BY <1>9, <1>13, <3>1
    <3> QED BY <3>1, <3>2
  <2> QED BY <1>15, <2>1 DEF DropsAll
<1> QED BY <1>1, <1>2, <1>4, <1>5, <1>18, NewCacheMemory

LEMMA CollectMemory ==
  ASSUME Control, MemoryOK, NEW t \in Thread, _cache_collect(t)
  PROVE  MemoryOK'
<1>1. /\ Control' /\ Others(t) /\ UNCHANGED cache
      /\ garbage_refs' = <<>> /\ th[t].pc = "scan" /\ th[t].seen = Thread \ {t}
      /\ \A b \in Block \cup {_objc_empty_cache} :
           heap'[b] = IF b \in ToSet(garbage_refs) THEN Free ELSE heap[b]
      /\ \/ th[t].alot /\ th'[t] = Idle
         \/ /\ ~ th[t].alot /\ th'[t].pc = "insert" /\ th'[t].entry = th[t].entry
            /\ th'[t].cls = th[t].cls /\ ~ th'[t].alot
  BY CollectIs
<1>2. PICK G : G = ToSet(garbage_refs)
  OBVIOUS
<1>3. MemoryShape /\ LocksAt(t) /\ cacheUpdateLock = t
  BY <1>1, LocalsAre DEF Control, Shape, LocksAt
<1>4. \A d : d \in G <=> \E j \in DOMAIN garbage_refs : garbage_refs[j] = d
  BY <1>2 DEF ToSet
<1>5. \A d : d \in G <=> Garbage(d) # {}
  BY <1>4 DEF Garbage
<1>6. \A d \in Block \cup {_objc_empty_cache} : heap'[d] = IF d \in G THEN Free ELSE heap[d]
  BY <1>1, <1>2
<1>7. \A c \in CachedClass : heap'[cache'[c]] = heap[cache[c]]
  BY <1>1, <1>2, <1>6, CacheOfIs
<1>8. \A u \in Thread \ {t} : th'[u] = th[u] /\ Alike(u) /\ th[u].pc \notin {"scan", "insert", "empty"}
  BY <1>1, <1>3, OthersAlike, LockedOut DEF Others
<1>9. \A d \in Block : Adding(d)' = Adding(d)
  <2> SUFFICES ASSUME NEW d \in Block PROVE Adding(d)' = Adding(d)
    OBVIOUS
  <2>1. t \in Adding(d)' <=> t \in Adding(d)
    <3>1. CASE th[t].alot
      <4>1. th[t].entry = Empty /\ th'[t].entry = Empty
        BY <1>1, <3>1, LocalsAre, IdleIs DEF Placed
      <4>2. ForwardIn(d) # Empty
        BY DEF ForwardIn, Empty
      <4> QED BY <4>1, <4>2 DEF Adding
    <3>2. CASE ~ th[t].alot
      BY <1>1, <3>2 DEF Adding
    <3> QED BY <3>1, <3>2
  <2> QED BY <1>8, <2>1 DEF Adding
<1>10. \A d \in Block : Holding(d)' = Holding(d) /\ Caching(d)' = Caching(d) /\ Garbage(d)' = {}
  <2>1. \A d \in Block : Holding(d)' = Holding(d)
    BY <1>7, HoldingStays
  <2> QED BY <1>1, <2>1 DEF Caching, Garbage
<1>11. ASSUME NEW d \in Block, d \in G PROVE IsFree(d)' /\ heap'[d] = Free
  <2>1. PICK j : j \in Garbage(d)
    BY <1>5, <1>11
  <2>2. Outgrown(d) \/ Dropped(d)
    BY <2>1, PlaceIs
  <2>3. Caching(d) = {} /\ Holding(d) = {} /\ Adding(d) = {}
    BY <2>2 DEF Outgrown, Dropped, IsCache, IsForwarder
  <2> QED BY <1>6, <1>9, <1>10, <1>11, <2>3 DEF IsFree
<1>12. ASSUME NEW d \in Block, d \notin G PROVE SamePlace(d) /\ heap'[d] = heap[d]
  <2>1. Garbage(d) = {}
    BY <1>5, <1>12
  <2> QED BY <1>6, <1>9, <1>10, <1>12, <2>1 DEF SamePlace
<1>13. ASSUME NEW d \in Block PROVE PlaceOf(d)' /\ OutgrownOK(d)' /\ CountOK(d)'
  <2>1. PlaceOf(d)'
    BY <1>11, <1>12, SamePlaceIs DEF PlaceOf, MemoryOK
  <2>2. OutgrownOK(d)'
    BY <1>10 DEF OutgrownOK, Outgrown
  <2>3. CountOK(d)'
    <3>1. CASE d \in G
      <4>1. heap'[d].kind = "free"
        BY <1>11, <3>1 DEF Free
      <4> QED BY <4>1 DEF CountOK
    <3>2. CASE d \notin G
      <4>1. \A u \in Thread : th[u].pc # "empty"
        BY <1>1, <1>8
      <4>2. ~ Emptying(d)
        BY <4>1 DEF Emptying
      <4>3. CountOK(d) /\ heap'[d] = heap[d]
        BY <1>12, <3>2 DEF MemoryOK
      <4> QED BY <4>2, <4>3 DEF CountOK, Used
    <3> QED BY <3>1, <3>2
  <2> QED BY <2>1, <2>2, <2>3
<1>14. ASSUME NEW u \in Thread \ {t} PROVE ReaderIs(th[u])'
  <2>1. th'[u] = th[u] /\ ReaderIs(th[u]) /\ NoGarbage(th[u]) /\ th[u] \in Local
    BY <1>1, <1>8, LocalsAre DEF MemoryOK, ThreadOK, SeenOK
  <2>2. ASSUME th[u].pc \in Reading
        PROVE  /\ heap'[th[u].cache].kind = "cache"
               /\ th[u].cache \in Block => th[u].cache = cache'[th[u].cur]
    <3>1. PICK k \in Block \cup {_objc_empty_cache} : k = th[u].cache
      BY <2>1 DEF Local
    <3>2. k \notin G /\ heap[k].kind = "cache" /\ (k \in Block => k = cache[th[u].cur] \/ Outgrown(k))
      BY <1>2, <2>1, <2>2, <3>1 DEF NoGarbage, ReaderIs
    <3>3. ~ Outgrown(k)
      BY <1>5, <3>2 DEF Outgrown
    <3> QED BY <1>1, <1>6, <3>1, <3>2, <3>3
  <2>3. ASSUME th[u].pc = "entry", IsForward(th[u].entry) PROVE Held(th[u].entry[2])'
    <3>1. PICK y \in Block : y = th[u].entry[2]
      BY <2>1, <2>3, EntriesAre DEF Local
    <3>2. y \notin G /\ (Held(y) \/ Dropped(y))
      BY <1>2, <2>1, <2>3, <3>1 DEF NoGarbage, ReaderIs
    <3>3. Held(y)
      BY <1>5, <3>2 DEF Dropped
    <3>4. Held(y)'
      BY <1>12, <3>2, <3>3, SamePlaceIs
    <3> QED BY <2>1, <3>1, <3>4
  <2> QED BY <2>1, <2>2, <2>3 DEF ReaderIs
<1>15. ASSUME NEW u \in Thread PROVE ThreadOK(u)'
  <2>1. CASE u # t
    <3>1. Alike(u) /\ th'[u].pc \notin {"scan", "insert", "empty"}
      BY <1>8, <2>1
    <3> QED BY <1>14, <2>1, <3>1, ReaderIsAll
  <2>2. CASE u = t /\ th[t].alot
    <3>1. th'[t].pc = "idle" /\ ~ Alike(t)
      BY <1>1, <2>2, IdleIs DEF Alike
    <3> QED BY <2>2, <3>1, ReaderIsAll DEF Reading
  <2>3. CASE u = t /\ ~ th[t].alot
    <3>1. th'[t].pc = "insert" /\ th'[t].cls = th[t].cls
      BY <1>1, <2>3
    <3>2. ReaderIs(th[t])' /\ SeenOK(t)' /\ EmptyingIs(th[t])'
      BY <3>1 DEF ReaderIs, SeenOK, EmptyingIs, Reading
    <3>3. ExpandedIs(th[t]) /\ Expanding(th[t])
      BY <1>1, <2>3 DEF Expanding, MemoryOK, ThreadOK
    <3>4. PICK k \in Block : k = cache[th[t].cls] /\ th[t].cls \in CachedClass
      BY <3>3, LocalsAre DEF ExpandedIs, Placed, Filling
    <3>5. heap'[k] = heap[k] /\ cache'[th[t].cls] = k
      BY <1>1, <1>7, <3>4, SMTT(30)
    <3>6. ExpandedIs(th[t])'
      BY <3>1, <3>3, <3>4, <3>5 DEF ExpandedIs, Used, Size, Mask
    <3> QED BY <2>3, <3>2, <3>6 DEF ThreadOK
  <2> QED BY <2>1, <2>2, <2>3
<1> QED BY <1>13, <1>15 DEF MemoryOK

LEMMA FlushBucketMemory ==
  ASSUME Control, MemoryOK, NEW t \in Thread, _cache_flush(t)
  PROVE  MemoryOK'
<1>1. /\ Control' /\ Others(t) /\ UNCHANGED cache
      /\ th[t].pc = "empty" /\ th[t].entry = Empty /\ th'[t].entry = Empty
  BY FlushBucketIs
<1>2. PICK b \in Block : /\ th[t].cache = b /\ heap[b].kind = "cache"
                         /\ th[t].index \in DOMAIN heap[b].buckets
                         /\ FlushBucketTo(t, b, th[t].index)
  BY FlushBucketIs
<1>3. PICK i \in DOMAIN heap[b].buckets : i = th[t].index
  BY <1>2
<1>4. MemoryShape /\ LocksAt(t) /\ cacheUpdateLock = t
  BY <1>1, LocalsAre DEF Control, Shape, LocksAt
<1>5. PICK n \in Nat \ {0} : n = Size(b) /\ Mask(heap, b) = n - 1 /\ DOMAIN heap[b].buckets = 0 .. n - 1
                             /\ Cardinality(DOMAIN heap[b].buckets) = n
  BY <1>2, <1>4, CacheIs
<1>6. PICK e \in Entry : e = heap[b].buckets[i]
  BY <1>2, <1>4, CacheIs
<1>7. /\ heap'[b].kind = "cache" /\ heap'[b].occupied = (IF i = n - 1 THEN 0 ELSE heap[b].occupied)
      /\ heap'[b].buckets = [heap[b].buckets EXCEPT ![i] = Empty]
      /\ \A d \in (Block \cup {_objc_empty_cache}) \ {b} : heap'[d] = heap[d]
      /\ garbage_refs' = IF IsForward(e) THEN Append(garbage_refs, e[2]) ELSE garbage_refs
      /\ th'[t].pc = (IF i = n - 1 THEN "flush" ELSE "empty")
      /\ i # n - 1 => th'[t].cache = b /\ th'[t].index = i + 1
  BY <1>2, <1>3, <1>5, <1>6 DEF FlushBucketTo
<1>8. /\ DOMAIN heap'[b].buckets = 0 .. n - 1 /\ heap'[b].buckets[i] = Empty
      /\ \A j \in 0 .. n - 1 : j # i => heap'[b].buckets[j] = heap[b].buckets[j]
  BY <1>5, <1>7
<1>9. EmptyingIs(th[t])
  BY DEF MemoryOK, ThreadOK
<1>10. Caching(b) # {} /\ \A j \in 0 .. i - 1 : heap[b].buckets[j] = Empty
  BY <1>1, <1>2, <1>3, <1>9 DEF EmptyingIs
<1>11. PICK c0 \in CachedClass : cache[c0] = b
  BY <1>10 DEF Caching
<1>12. Caching(b) = {c0} /\ CountOK(b)
  BY <1>11, InUseIs DEF MemoryOK
<1>13. \A u \in Thread \ {t} : th'[u] = th[u] /\ Alike(u) /\ th[u].pc \notin {"scan", "insert", "empty"}
  BY <1>1, <1>4, OthersAlike, LockedOut DEF Others
<1>14. \A d \in Block : Adding(d)' = Adding(d) /\ Caching(d)' = Caching(d)
  <2>1. \A d \in Block : t \notin Adding(d)
    BY <1>1, NotAdding
  <2>2. th'[t].pc \notin {"fill", "scan", "insert"}
    BY <1>7
  <2>3. \A d \in Block : t \notin Adding(d)'
    BY <2>2, NotAddingThen
  <2> QED BY <1>1, <1>13, <2>1, <2>3 DEF Adding, Caching
<1>15. \A c \in CachedClass \ {c0} : cache[c] # b /\ heap'[cache'[c]] = heap[cache[c]]
  <2>1. \A c \in CachedClass \ {c0} : cache[c] # b /\ cache[c] \in Block \cup {_objc_empty_cache}
    BY <1>12, CacheOfIs DEF Caching
  <2> QED BY <1>1, <1>7, <2>1
<1>16. ASSUME NEW d, NEW c \in CachedClass, NEW j
       PROVE  <<c, j>> \in Holding(d)' <=> (<<c, j>> \in Holding(d) /\ ~ (c = c0 /\ j = i))
  <2>1. ForwardIn(d) # Empty
    BY DEF ForwardIn, Empty
  <2>2. CASE c = c0
    <3>1. cache[c] = b /\ cache'[c] = b
      BY <1>1, <1>11, <2>2
    <3> QED BY <1>5, <1>8, <2>1, <2>2, <3>1, HoldingHas, SMTT(30)
  <2>3. CASE c # c0
    BY <1>15, <2>3, HoldingHas
  <2> QED BY <2>2, <2>3
<1>17. \A d : e # ForwardIn(d) => <<c0, i>> \notin Holding(d)
  BY <1>6, <1>11, HoldingHas
<1>18. ASSUME NEW d \in Block, e # ForwardIn(d) PROVE SamePlace(d)
  <2>1. Holding(d)' = Holding(d)
    <3>1. \A x : x \in Holding(d)' => x \in Holding(d)
      BY <1>16, HoldingPairs
    <3>2. \A x : x \in Holding(d) => x \in Holding(d)'
      BY <1>16, <1>17, <1>18, HoldingPairs
    <3> QED BY <3>1, <3>2
  <2>2. Garbage(d)' = Garbage(d)
    <3>1. CASE ~ IsForward(e)
      BY <1>7, <3>1 DEF Garbage
    <3>2. CASE IsForward(e)
      <4>1. PICK y \in Block : y = e[2] /\ y # d
        BY <1>18, <3>2, EntriesAre
      <4>2. PICK g \in Seq(Block) : g = garbage_refs
        BY <1>4 DEF MemoryShape
      <4>3. garbage_refs' = Append(g, y)
        BY <1>7, <3>2, <4>1, <4>2
      <4>4. PICK N \in Nat : N = Len(g)
        OBVIOUS
      <4>5. DOMAIN garbage_refs' = 1 .. N + 1 /\ garbage_refs'[N + 1] = y
            /\ (\A j \in 1 .. N : garbage_refs'[j] = g[j]) /\ DOMAIN g = 1 .. N
        BY <4>3, <4>4, LastPart
      <4> QED BY <4>1, <4>2, <4>5 DEF Garbage
    <3> QED BY <3>1, <3>2
  <2>3. heap'[d].kind = heap[d].kind /\ (heap'[d] = Free <=> heap[d] = Free)
    BY <1>2, <1>7 DEF Free
  <2> QED BY <1>14, <2>1, <2>2, <2>3 DEF SamePlace
<1>19. ASSUME NEW d \in Block, e = ForwardIn(d)
       PROVE  Held(d) /\ Dropped(d)'
  <2>1. <<c0, i>> \in Holding(d)
    BY <1>6, <1>11, <1>19, HoldingHas
  <2>2. Held(d)
    BY <2>1, PlaceIs
  <2>3. Holding(d) = {<<c0, i>>}
    BY <2>1, <2>2 DEF Held
  <2>4. Holding(d)' = {}
    <3>1. \A x : x \notin Holding(d)'
      BY <1>16, <2>3, HoldingPairs
    <3> QED BY <3>1
  <2>5. \E j \in DOMAIN garbage_refs' : Garbage(d)' = {j}
    <3>1. IsForward(e) /\ e[2] = d
      BY <1>19, EntriesAre
    <3>2. PICK g \in Seq(Block) : g = garbage_refs
      BY <1>4 DEF MemoryShape
    <3>3. garbage_refs' = Append(g, d)
      BY <1>7, <3>1, <3>2
    <3>4. PICK N \in Nat : N = Len(g)
      OBVIOUS
    <3>5. DOMAIN garbage_refs' = 1 .. N + 1 /\ garbage_refs'[N + 1] = d
          /\ (\A j \in 1 .. N : garbage_refs'[j] = g[j]) /\ DOMAIN g = 1 .. N
      BY <3>3, <3>4, LastPart
    <3>6. \A j \in 1 .. N : g[j] # d
      BY <2>2, <3>2, <3>5 DEF Held, Garbage
    <3>7. Garbage(d)' = {N + 1}
      BY <3>5, <3>6 DEF Garbage
    <3> QED BY <3>5, <3>7
  <2>6. heap'[d] = heap[d]
    BY <1>2, <1>7, <2>2 DEF Held, IsForwarder
  <2> QED BY <1>14, <2>2, <2>4, <2>5, <2>6 DEF Held, Dropped, IsForwarder
<1>20. \A d \in Block : /\ PlaceOf(d)'
                        /\ Outgrown(d)' <=> Outgrown(d)
                        /\ Held(d) => Held(d)' \/ Dropped(d)'
                        /\ Dropped(d) => Dropped(d)'
  <2> SUFFICES ASSUME NEW d \in Block
               PROVE  /\ PlaceOf(d)'
                      /\ Outgrown(d)' <=> Outgrown(d)
                      /\ Held(d) => Held(d)' \/ Dropped(d)'
                      /\ Dropped(d) => Dropped(d)'
    OBVIOUS
  <2>1. CASE e = ForwardIn(d)
    <3>1. Held(d) /\ Dropped(d)'
      BY <1>19, <2>1
    <3>2. ~ Outgrown(d) /\ ~ Outgrown(d)'
      BY <3>1 DEF Held, Dropped, IsForwarder, Outgrown, IsCache
    <3> QED BY <3>1, <3>2 DEF PlaceOf
  <2>2. CASE e # ForwardIn(d)
    <3>1. PlaceOf(d)
      BY DEF MemoryOK
    <3> QED BY <1>18, <2>2, <3>1, SamePlaceIs
  <2> QED BY <2>1, <2>2
<1>21. ASSUME NEW d \in Block PROVE OutgrownOK(d)'
  <2> SUFFICES ASSUME Outgrown(d)' PROVE OutgrownOK(d)'
    BY DEF OutgrownOK
  <2>1. Outgrown(d) /\ OutgrownOK(d)
    BY <1>20 DEF MemoryOK
  <2>2. d # b
    BY <1>10, <2>1 DEF Outgrown
  <2>3. heap'[d] = heap[d] /\ heap[d].kind = "cache"
    BY <1>7, <2>1, <2>2 DEF Outgrown, IsCache
  <2>4. ASSUME NEW k \in DOMAIN heap[d].buckets, IsForward(heap[d].buckets[k])
        PROVE  Dropped(heap[d].buckets[k][2])'
    <3>1. PICK y \in Block : y = heap[d].buckets[k][2]
      BY <1>4, <2>3, <2>4, CacheIs, EntriesAre
    <3>2. Dropped(y)
      BY <2>1, <2>4, <3>1 DEF OutgrownOK
    <3> QED BY <1>20, <2>3, <3>1, <3>2
  <2> QED BY <2>3, <2>4 DEF OutgrownOK
<1>22. ASSUME NEW d \in Block PROVE CountOK(d)'
  <2>1. CASE d # b
    <3>1. heap'[d] = heap[d] /\ CountOK(d)
      BY <1>7, <2>1 DEF MemoryOK
    <3>2. ~ Emptying(d)
      BY <1>2, <1>13, <2>1 DEF Emptying
    <3> QED BY <3>1, <3>2 DEF CountOK, Used
  <2>2. CASE d = b
    <3>1. i \notin Used(b)' /\ i \in DOMAIN heap'[b].buckets
      BY <1>5, <1>8 DEF Used
    <3>2. ASSUME i = n - 1 PROVE heap'[b].occupied = Cardinality(Used(b)')
      <4>1. \A j \in 0 .. n - 1 : heap'[b].buckets[j] = Empty
        <5> SUFFICES ASSUME NEW j \in 0 .. n - 1, j # i PROVE heap'[b].buckets[j] = Empty
          BY <1>8
        <5>1. j \in 0 .. i - 1
          BY <3>2
        <5> QED BY <1>8, <1>10, <5>1
      <4>2. Used(b)' = {}
        BY <1>8, <4>1 DEF Used
      <4> QED BY <1>7, <3>2, <4>2, FS_EmptySet
    <3>3. ASSUME i # n - 1 PROVE Emptying(b)'
      BY <1>7, <3>3 DEF Emptying
    <3> QED BY <2>2, <3>1, <3>2, <3>3 DEF CountOK
  <2> QED BY <2>1, <2>2
<1>23. Kept
  <2>1. \A d \in Block \cup {_objc_empty_cache} : heap[d].kind = "cache" => heap'[d].kind = "cache"
    BY <1>7
  <2> QED BY <1>1, <1>20, <2>1 DEF Kept
<1>24. ASSUME NEW u \in Thread PROVE ThreadOK(u)'
  <2>1. CASE u # t
    <3>1. Alike(u) /\ th'[u].pc \notin {"scan", "insert", "empty"} /\ ReaderIs(th[u])
      BY <1>13, <2>1 DEF MemoryOK, ThreadOK
    <3>2. ReaderIs(th[u])'
      BY <1>23, <3>1, ReaderStays
    <3> QED BY <3>1, <3>2, ReaderIsAll
  <2>2. CASE u = t
    <3>1. th'[t].pc \in {"flush", "empty"}
      BY <1>7
    <3>2. ReaderIs(th[t])' /\ SeenOK(t)' /\ ExpandedIs(th[t])'
      BY <3>1 DEF ReaderIs, SeenOK, ExpandedIs, Expanding, Reading
    <3>3. EmptyingIs(th[t])'
      <4> SUFFICES ASSUME i # n - 1, th'[t].pc = "empty" PROVE EmptyingIs(th[t])'
        BY <1>7 DEF EmptyingIs
      <4>1. PICK k \in 1 .. n - 1 : k = i + 1
        BY <1>5
      <4>2. th'[t].cache = b /\ th'[t].index = k
        BY <1>7, <4>1
      <4>3. Mask(heap', b) = n - 1 /\ k <= n - 1
        BY <1>5, <1>8 DEF Mask
      <4>4. \A j \in 0 .. k - 1 : heap'[b].buckets[j] = Empty
        <5> SUFFICES ASSUME NEW j \in 0 .. i, j # i PROVE heap'[b].buckets[j] = Empty
          BY <1>5, <1>8, <4>1
        <5>1. j \in 0 .. i - 1 /\ j \in 0 .. n - 1
          BY <1>5
        <5> QED BY <1>8, <1>10, <5>1
      <4>5. {c \in CachedClass : cache'[c] = b} # {}
        BY <1>10, <1>14 DEF Caching
      <4> QED BY <4>2, <4>3, <4>4, <4>5 DEF EmptyingIs, Caching, Mask
    <3> QED BY <2>2, <3>2, <3>3 DEF ThreadOK
  <2> QED BY <2>1, <2>2
<1> QED BY <1>20, <1>21, <1>22, <1>24 DEF MemoryOK

\* What a fill does.
Filled(t) ==
    \/ NotAdded(t) /\ UNCHANGED cacheUpdateLock
    \/ /\ Insert(t) /\ cacheUpdateLock = NULL /\ cache[th[t].cls] \in Block
       /\ heap[cache[th[t].cls]].occupied + 1 < Size(cache[th[t].cls])
    \/ /\ _cache_create(t) /\ cacheUpdateLock = NULL /\ cacheUpdateLock' = t /\ Unused # {}
       /\ cache[th[t].cls] = _objc_empty_cache
    \/ /\ _cache_expand(t) /\ cacheUpdateLock = NULL /\ cacheUpdateLock' = t /\ Unused # {}
       /\ cache[th[t].cls] \in Block

LEMMA FilledIs ==
  ASSUME Control, MemoryOK, NEW t \in Thread, _cache_fill(t)
  PROVE  /\ th[t].pc = "fill" /\ th[t].cls \in CachedClass /\ Filling(th[t])
         /\ cacheUpdateLock # t /\ UNCHANGED <<writer, readers, rest>> /\ Filled(t)
<1>1. th[t].pc = "fill" /\ UNCHANGED <<writer, readers, rest>>
  BY DEF _cache_fill
<1>2. Filling(th[t])
  BY <1>1 DEF Filling
<1>3. th[t].cls \in CachedClass
  BY <1>2, LocalsAre DEF Placed
<1>4. cacheUpdateLock # t
  BY <1>1, LocalsAre DEF LocksAt
<1>5. PICK b \in Block \cup {_objc_empty_cache} : b = cache[th[t].cls]
  BY <1>3, CacheOfIs
<1>6. heap[b].kind = "cache" /\ MemoryShape
  BY <1>3, <1>5, CacheOfIs DEF Control, Shape
<1>7. PICK n \in Nat \ {0} : n = Size(b) /\ Mask(heap, b) = n - 1
  BY <1>6, CacheIs
<1>8. PICK o \in Nat : o = heap[b].occupied
  BY <1>6, CacheIs
<1>9. ASSUME Room(heap, b) PROVE b \in Block /\ heap[b].occupied + 1 < Size(b)
  <2>1. (o + 1) * 4 <= n * 3
    BY <1>7, <1>8, <1>9 DEF Room
  <2>2. o + 1 < n
    BY <2>1
  <2>3. b # _objc_empty_cache
    <3> SUFFICES ASSUME b = _objc_empty_cache PROVE FALSE
      OBVIOUS
    <3>1. n = 1
      BY <1>6, <1>7, EmptyCacheIs
    <3> QED BY <2>2, <3>1
  <2> QED BY <1>7, <1>8, <2>2, <2>3
<1>10. CASE NotAdded(t) /\ UNCHANGED cacheUpdateLock
  BY <1>1, <1>2, <1>3, <1>4, <1>10 DEF Filled
<1>11. CASE cacheUpdateLock = NULL /\ Room(heap, cache[th[t].cls]) /\ Insert(t)
  BY <1>1, <1>2, <1>3, <1>4, <1>5, <1>9, <1>11 DEF Filled
<1>12. CASE cacheUpdateLock = NULL /\ Unused # {} /\ _cache_expand(t) /\ cacheUpdateLock' = t
  <2>1. CASE b = _objc_empty_cache
    <3>1. _cache_create(t)
      BY <1>5, <1>12, <2>1 DEF _cache_expand
    <3> QED BY <1>1, <1>2, <1>3, <1>4, <1>5, <1>12, <2>1, <3>1 DEF Filled
  <2>2. CASE b \in Block
    BY <1>1, <1>2, <1>3, <1>4, <1>5, <1>12, <2>2 DEF Filled
  <2> QED BY <2>1, <2>2
<1>13. \/ NotAdded(t) /\ UNCHANGED cacheUpdateLock
       \/ cacheUpdateLock = NULL /\ Room(heap, cache[th[t].cls]) /\ Insert(t)
       \/ cacheUpdateLock = NULL /\ Unused # {} /\ _cache_expand(t) /\ cacheUpdateLock' = t
  BY Zenon DEF _cache_fill
<1> QED BY <1>10, <1>11, <1>12, <1>13

LEMMA NoRoomLost ==
  ASSUME Control, MemoryOK, NEW c \in CachedClass, cache[c] \in Block
  PROVE  heap[cache[c]].kind = "cache" /\ Used(cache[c]) # DOMAIN heap[cache[c]].buckets
<1>1. PICK b \in Block : b = cache[c]
  OBVIOUS
<1>2. heap[b].kind = "cache" /\ CountOK(b)
  BY <1>1, CacheOfIs DEF MemoryOK
<1> QED BY <1>1, <1>2 DEF CountOK

LEMMA FillMemory ==
  ASSUME Control, MemoryOK, NEW t \in Thread, _cache_fill(t)
  PROVE  Control' /\ MemoryOK'
<1>1. /\ th[t].pc = "fill" /\ th[t].cls \in CachedClass /\ Filling(th[t])
      /\ cacheUpdateLock # t /\ UNCHANGED <<writer, readers, rest>> /\ Filled(t)
  BY FilledIs
<1>2. CASE NotAdded(t) /\ UNCHANGED cacheUpdateLock
  BY <1>1, <1>2, NotAddedIs, NotAddedMemory
<1>3. CASE Insert(t) /\ cacheUpdateLock = NULL /\ cache[th[t].cls] \in Block
           /\ heap[cache[th[t].cls]].occupied + 1 < Size(cache[th[t].cls])
  BY <1>1, <1>3, NoRoomLost, InsertIs, InsertMemory
<1>4. CASE _cache_create(t) /\ cacheUpdateLock = NULL /\ cacheUpdateLock' = t /\ Unused # {}
           /\ cache[th[t].cls] = _objc_empty_cache
  BY <1>1, <1>4, CreateIs, CreateMemory
<1>5. CASE _cache_expand(t) /\ cacheUpdateLock = NULL /\ cacheUpdateLock' = t /\ Unused # {}
           /\ cache[th[t].cls] \in Block
  BY <1>1, <1>5, NoRoomLost, ExpandIs, ExpandMemory
<1> QED BY <1>1, <1>2, <1>3, <1>4, <1>5 DEF Filled

LEMMA FillExpandedIs ==
  ASSUME Control, MemoryOK, NEW t \in Thread, FillExpanded(t)
  PROVE  /\ th[t].pc = "insert" /\ th[t].cls \in CachedClass /\ Filling(th[t]) /\ Insert(t)
         /\ UNCHANGED <<writer, readers, rest>> /\ cacheUpdateLock \in {NULL, t}
         /\ cache[th[t].cls] \in Block
         /\ heap[cache[th[t].cls]].occupied + 1 < Size(cache[th[t].cls])
<1>1. th[t].pc = "insert" /\ Insert(t) /\ UNCHANGED <<writer, readers, rest>>
  BY DEF FillExpanded
<1>2. Filling(th[t]) /\ Expanding(th[t]) /\ cacheUpdateLock = t
  BY <1>1, LocalsAre DEF Filling, Expanding, LocksAt
<1>3. th[t].cls \in CachedClass
  BY <1>2, LocalsAre DEF Placed
<1>4. PICK b \in Block : b = cache[th[t].cls] /\ heap[b].occupied = 0 /\ Size(b) > 1
  BY <1>2 DEF MemoryOK, ThreadOK, ExpandedIs
<1> QED BY <1>1, <1>2, <1>3, <1>4

LEMMA FillExpandedMemory ==
  ASSUME Control, MemoryOK, NEW t \in Thread, FillExpanded(t)
  PROVE  Control' /\ MemoryOK'
BY FillExpandedIs, NoRoomLost, InsertIs, InsertMemory

LEMMA InitMemory ==
  ASSUME Init
  PROVE  Control /\ MemoryOK
<1>1. /\ methods = [c \in CachedClass |-> [s \in Sel |-> IF s \in Methods0[c] THEN 1 ELSE 0]]
      /\ was = methods
      /\ cache = [c \in CachedClass |-> _objc_empty_cache]
      /\ heap = [b \in Block \cup {_objc_empty_cache} |->
                   IF b = _objc_empty_cache THEN CacheBlock(1) ELSE Free]
      /\ garbage_refs = <<>> /\ garbage_byte_size = 0
      /\ initialized = Initialized0
      /\ writer = NULL /\ readers = {} /\ cacheUpdateLock = NULL
      /\ th = [t \in Thread |-> Idle]
      /\ calls = Calls /\ changes = Changes
  BY DEF Init
<1>2. CacheBlock(1) \in HeapValue /\ Free \in HeapValue
  BY CacheBlockIs DEF HeapValue
<1>3. MemoryShape
  <2>1. heap \in [Block \cup {_objc_empty_cache} -> HeapValue] /\ heap[_objc_empty_cache] = CacheBlock(1)
    BY <1>1, <1>2
  <2>2. garbage_refs \in Seq(Block)
    BY <1>1, EmptySeq
  <2>3. cache \in [CachedClass -> Block \cup {_objc_empty_cache}] /\ garbage_byte_size \in Nat
    BY <1>1
  <2> QED BY <2>1, <2>2, <2>3 DEF MemoryShape
<1>4. ListShape
  <2>1. methods \in [CachedClass -> [Sel -> Nat]]
    BY <1>1
  <2>2. calls \in 0 .. Calls /\ changes \in 0 .. Changes /\ initialized \subseteq CachedClass
    BY <1>1, MethodCacheAssumption
  <2> QED BY <1>1, <2>1, <2>2 DEF ListShape
<1>5. LockShape
  BY <1>1 DEF LockShape
<1>6. th \in [Thread -> Local] /\ \A t \in Thread : th[t] = Idle
  BY <1>1, IdleIs
<1>7. \A t \in Thread : Placed(th[t]) /\ LocksAt(t)
  BY <1>1, <1>6, IdleIs, MethodCacheAssumption DEF LocksAt
<1>8. Control
  BY <1>3, <1>4, <1>5, <1>6, <1>7 DEF Control, Shape
<1>9. \A t \in Thread : th[t].pc = "idle"
  BY <1>6, IdleIs
<1>10. ASSUME NEW b \in Block PROVE PlaceOf(b) /\ OutgrownOK(b) /\ CountOK(b)
  <2>1. b # _objc_empty_cache /\ heap[b] = Free
    <3>1. b # _objc_empty_cache
      BY DEF Block, _objc_empty_cache
    <3> QED BY <1>1, <3>1
  <2>2. heap[b].kind = "free"
    BY <2>1 DEF Free
  <2>3. Caching(b) = {} /\ Garbage(b) = {}
    BY <1>1, <2>1 DEF Caching, Garbage
  <2>4. Adding(b) = {}
    BY <1>9 DEF Adding
  <2>5. Holding(b) = {}
    <3>1. \A x : x \notin Holding(b)
      <4>1. \A c \in CachedClass : cache[c] = _objc_empty_cache
        BY <1>1
      <4>2. ForwardIn(b) # Empty
        BY DEF ForwardIn, Empty
      <4> QED BY <1>3, <4>1, <4>2, EmptyCacheIs, HoldingPairs
    <3> QED BY <3>1
  <2>6. IsFree(b)
    BY <2>1, <2>3, <2>4, <2>5 DEF IsFree
  <2> QED BY <2>2, <2>6 DEF PlaceOf, OutgrownOK, CountOK, Outgrown, IsCache
<1>11. ASSUME NEW t \in Thread PROVE ThreadOK(t)
  BY <1>9, QuietAt DEF ThreadOK, SeenOK, Reading
<1> QED BY <1>8, <1>10, <1>11 DEF MemoryOK

LEMMA StutterMemory ==
  ASSUME Control, MemoryOK, UNCHANGED vars
  PROVE  Control' /\ MemoryOK'
<1>1. UNCHANGED <<methods, was, initialized, calls, changes>> /\ UNCHANGED locks /\ th' = th /\ UNCHANGED memory
  BY DEF vars, locks, memory
<1>2. MemoryShape' /\ ListShape'
  BY <1>1, ShapeStays DEF rest
<1>3. LockShape' /\ th' \in [Thread -> Local]
  BY <1>1 DEF Control, Shape, LockShape, locks
<1>4. \A t \in Thread : Placed(th'[t]) /\ LocksAt(t)'
  BY <1>1 DEF Control, LocksAt, locks
<1>5. Control'
  BY <1>2, <1>3, <1>4 DEF Control, Shape
<1>6. \A u \in Thread : Alike(u)
  BY <1>1 DEF Alike
<1>7. MemoryOK'
  <2>1. {} \in SUBSET Thread
    OBVIOUS
  <2>2. \A u \in Thread \ {} : Alike(u)
    BY <1>6
  <2>3. \A u \in {} : QuietStep(u)
    OBVIOUS
  <2> QED BY <1>1, <1>5, <2>1, <2>2, <2>3, QuietSteps
<1> QED BY <1>5, <1>7

LEMMA StepMemory ==
  ASSUME Control, MemoryOK, NEW t \in Thread, Step(t)
  PROVE  Control' /\ MemoryOK'
<1>1. CASE LoadBucket(t)
  BY <1>1, LoadBucketIs, LoadBucketMemory
<1>2. CASE CompareEntry(t)
  BY <1>2, CompareEntryIs, CompareEntryMemory
<1>3. CASE lockForMethodLookup(t)
  BY <1>3, LockIs, LockMemory
<1>4. CASE unlockForMethodLookup(t)
  BY <1>4, UnlockIs, UnlockMemory
<1>5. CASE SearchLists(t)
  BY <1>5, SearchListsIs, SearchListsMemory
<1>6. CASE _class_resolveMethod(t)
  BY <1>6, ResolveMethodIs, ResolveMethodMemory
<1>7. CASE _cache_addForwardEntry(t)
  BY <1>7, AddForwardIs, AddForwardMemory
<1>8. CASE _cache_fill(t)
  BY <1>8, FillMemory
<1>9. CASE FillExpanded(t)
  BY <1>9, FillExpandedMemory
<1>10. CASE _collecting_in_critical(t)
  BY <1>10, InCriticalIs, InCriticalMemory
<1>11. CASE _cache_collect(t)
  BY <1>11, CollectIs, CollectMemory
<1>12. CASE CollectALot(t)
  BY <1>12, CollectALotIs, CollectALotMemory
<1>13. CASE ResolverAdds(t)
  BY <1>13, ChangingIs, ChangesWithIs, ChangingMemory DEF Changing
<1>14. CASE flush_cache(t)
  BY <1>14, FlushCacheIs, FlushCacheMemory
<1>15. CASE _cache_flush(t)
  BY <1>15, FlushBucketIs, FlushBucketMemory
<1>16. CASE Changed(t)
  BY <1>16, ChangedIs, ChangedMemory
<1> QED BY <1>1, <1>2, <1>3, <1>4, <1>5, <1>6, <1>7, <1>8, <1>9, <1>10, <1>11, <1>12,
           <1>13, <1>14, <1>15, <1>16 DEF Step

LEMMA NextMemory ==
  ASSUME Control, MemoryOK, [Next]_vars
  PROVE  Control' /\ MemoryOK'
<1>1. CASE UNCHANGED vars
  BY <1>1, StutterMemory
<1>2. ASSUME NEW t \in Thread, Step(t) PROVE Control' /\ MemoryOK'
  BY <1>2, StepMemory
<1>3. ASSUME NEW t \in Thread, NEW c \in CachedClass, NEW s \in Sel, objc_msgSend(t, c, s)
      PROVE  Control' /\ MemoryOK'
  BY <1>3, SendIs, SendMemory
<1>4. ASSUME NEW t \in Thread, Changing(t) PROVE Control' /\ MemoryOK'
  BY <1>4, ChangingIs, ChangesWithIs, ChangingMemory
<1>5. ASSUME NEW c \in CachedClass, _class_initialize(c) PROVE Control' /\ MemoryOK'
  BY <1>5, InitializeIs, InitializeMemory
<1>6. \A t \in Changer : t \in Thread
  BY MethodCacheAssumption
<1>7. ASSUME NEW t \in Changer, NEW c \in CachedClass, NEW s \in Sel, class_addMethod(t, c, s)
      PROVE  Control' /\ MemoryOK'
  BY <1>4, <1>6, <1>7 DEF Changing
<1>8. ASSUME NEW t \in Changer, NEW c \in CachedClass, NEW ss \in Additions, remethodizeClass(t, c, ss)
      PROVE  Control' /\ MemoryOK'
  BY <1>4, <1>6, <1>8 DEF Changing
<1>9. ASSUME NEW t \in Changer, NEW c \in CachedClass \cup {NULL}, _objc_flush_caches(t, c)
      PROVE  Control' /\ MemoryOK'
  BY <1>4, <1>6, <1>9 DEF Changing
<1> QED BY <1>1, <1>2, <1>3, <1>5, <1>7, <1>8, <1>9 DEF Next

LEMMA MemoryHolds == Spec => [](Control /\ MemoryOK)
<1>1. Init => Control /\ MemoryOK
  BY InitMemory
<1>2. Control /\ MemoryOK /\ [Next]_vars => Control' /\ MemoryOK'
  BY NextMemory
<1> QED BY <1>1, <1>2, PTL DEF Spec

LEMMA OneOrNone ==
  \A S : (S = {} => Cardinality(S) = 0) /\ \A x : S = {x} => Cardinality(S) = 1
BY FS_EmptySet, FS_Singleton

LEMMA EmptySlotHolds ==
  ASSUME Control, MemoryOK
  PROVE  EmptySlot
<1>1. MemoryShape
  BY DEF Control, Shape
<1>2. ASSUME NEW b \in Block \cup {_objc_empty_cache}, heap[b].kind = "cache"
      PROVE  Used(b) # DOMAIN heap[b].buckets
             /\ (cacheUpdateLock = NULL => heap[b].occupied = Cardinality(Used(b)))
  <2>1. CASE b = _objc_empty_cache
    <3>1. Used(b) = {} /\ heap[b].occupied = 0 /\ DOMAIN heap[b].buckets = 0 .. Size(b) - 1 /\ Size(b) = 1
      BY <1>1, <2>1, EmptyCacheIs, CacheIs DEF Used
    <3> QED BY <3>1, FS_EmptySet
  <2>2. CASE b \in Block
    <3>1. CountOK(b)
      BY <2>2 DEF MemoryOK
    <3>2. cacheUpdateLock = NULL => ~ Emptying(b)
      <4>1. \A t \in Thread : t # NULL /\ (th[t].pc = "empty" => cacheUpdateLock = t)
        BY LocalsAre, MethodCacheAssumption DEF LocksAt
      <4> QED BY <4>1 DEF Emptying
    <3> QED BY <1>2, <3>1, <3>2 DEF CountOK
  <2> QED BY <2>1, <2>2
<1>3. DOMAIN heap = Block \cup {_objc_empty_cache}
  BY <1>1 DEF MemoryShape
<1> QED BY <1>2, <1>3 DEF EmptySlot, Used

LEMMA OnePlaceHolds ==
  ASSUME MemoryOK
  PROVE  OnePlace
<1> SUFFICES ASSUME NEW b \in Block
             PROVE  Cardinality(Caching(b)) + Cardinality(Holding(b)) + Cardinality(Adding(b))
                      + Cardinality(Garbage(b)) = IF heap[b] = Free THEN 0 ELSE 1
  BY DEF OnePlace
<1>1. Free.kind = "free"
  BY DEF Free
<1>2. CASE IsFree(b)
  BY <1>2, OneOrNone DEF IsFree
<1>3. CASE InUse(b)
  <2>1. heap[b] # Free
    BY <1>1, <1>3 DEF InUse, IsCache
  <2>2. Cardinality(Caching(b)) = 1 /\ Cardinality(Holding(b)) = 0 /\ Cardinality(Adding(b)) = 0
        /\ Cardinality(Garbage(b)) = 0
    BY <1>3, OneOrNone DEF InUse, IsCache
  <2> QED BY <2>1, <2>2
<1>4. CASE Outgrown(b)
  <2>1. heap[b] # Free
    BY <1>1, <1>4 DEF Outgrown, IsCache
  <2>2. Cardinality(Caching(b)) = 0 /\ Cardinality(Holding(b)) = 0 /\ Cardinality(Adding(b)) = 0
        /\ Cardinality(Garbage(b)) = 1
    BY <1>4, OneOrNone DEF Outgrown, IsCache
  <2> QED BY <2>1, <2>2
<1>5. CASE Held(b)
  <2>1. heap[b] # Free
    BY <1>1, <1>5 DEF Held, IsForwarder
  <2>2. Cardinality(Caching(b)) = 0 /\ Cardinality(Holding(b)) = 1 /\ Cardinality(Adding(b)) = 0
        /\ Cardinality(Garbage(b)) = 0
    BY <1>5, OneOrNone DEF Held, IsForwarder
  <2> QED BY <2>1, <2>2
<1>6. CASE Added(b)
  <2>1. heap[b] # Free
    BY <1>1, <1>6 DEF Added, IsForwarder
  <2>2. Cardinality(Caching(b)) = 0 /\ Cardinality(Holding(b)) = 0 /\ Cardinality(Adding(b)) = 1
        /\ Cardinality(Garbage(b)) = 0
    BY <1>6, OneOrNone DEF Added, IsForwarder
  <2> QED BY <2>1, <2>2
<1>7. CASE Dropped(b)
  <2>1. heap[b] # Free
    BY <1>1, <1>7 DEF Dropped, IsForwarder
  <2>2. Cardinality(Caching(b)) = 0 /\ Cardinality(Holding(b)) = 0 /\ Cardinality(Adding(b)) = 0
        /\ Cardinality(Garbage(b)) = 1
    BY <1>7, OneOrNone DEF Dropped, IsForwarder
  <2> QED BY <2>1, <2>2
<1> QED BY <1>2, <1>3, <1>4, <1>5, <1>6, <1>7 DEF MemoryOK, PlaceOf

LEMMA ReadersAreSafe ==
  ASSUME MemoryOK
  PROVE  NoUseAfterFree
<1> SUFFICES ASSUME NEW t \in Thread
             PROVE  /\ th[t].pc \in Reading => heap[th[t].cache].kind = "cache"
                    /\ th[t].pc = "entry" /\ IsForward(th[t].entry) =>
                         heap[th[t].entry[2]].kind = "forward"
  BY DEF NoUseAfterFree, Reading
<1>1. ReaderIs(th[t])
  BY DEF MemoryOK, ThreadOK
<1> QED BY <1>1 DEF ReaderIs, Held, Dropped, IsForwarder

LEMMA TypesHold ==
  ASSUME Control
  PROVE  TypeOK
<1>1. MemoryShape /\ ListShape /\ LockShape
  BY DEF Control, Shape
<1>2. ToSet(garbage_refs) \subseteq Block
  BY <1>1 DEF MemoryShape, ToSet
<1>3. \A b \in Block : heap[b].kind \in {"free", "cache", "forward"}
  BY <1>1, KindsAre
<1> QED BY <1>1, <1>2, <1>3 DEF TypeOK, MemoryShape, ListShape, LockShape

\* Whatever the threads send, add and flush and however their steps interleave: every
\* cache has an empty bucket, so that a search of it ends, and counts its entries
\* right; every block of memory is in one place, so that none leaks and none is freed
\* twice; and no cache or forward entry is freed while a messenger holds it.
THEOREM CachesStayConsistent == Spec => []CachesConsistent
<1>1. Control /\ MemoryOK => CachesConsistent
  BY TypesHold, EmptySlotHolds, OnePlaceHolds, ReadersAreSafe DEF CachesConsistent
<1> QED BY <1>1, MemoryHolds, PTL

-----------------------------------------------------------------------------
(* Methods: what each step does to what caches and threads know of them.       *)

-----------------------------------------------------------------------------
(* Methods: what each step does to what caches and threads know of them.       *)

LEMMA EntriesOfIs ==
  ASSUME NEW h, NEW b, NEW e
  PROVE  e \in EntriesOf(h, b) <=> e # Empty /\ \E i \in DOMAIN h[b].buckets : e = h[b].buckets[i]
BY DEF EntriesOf

\* A thread's message is the one it was sent, or it has none any more.
SameMessage(t) ==
    th'[t].cls = NULL \/ (th'[t].cls = th[t].cls /\ th'[t].sel = th[t].sel /\ th'[t].valid = th[t].valid)

LEMMA MethodsMove ==
  ASSUME MethodsOK, NEW t \in Thread, Others(t), UNCHANGED <<methods, was, writer>>, SameMessage(t),
         \A c \in CachedClass : CacheAgrees(c)',
         \A u \in Thread \ {t} : AnswerOK(th[u], heap', methods),
         AnswerOK(th'[t], heap', methods)
  PROVE  MethodsOK'
<1>1. writer' = NULL => was' = methods'
  BY DEF MethodsOK
<1>2. ASSUME NEW u \in Thread
      PROVE  ValidOK(th'[u], methods', was') /\ AnswerOK(th'[u], heap', methods')
  <2>1. ValidOK(th[u], methods, was)
    BY DEF MethodsOK
  <2>2. CASE u = t
    BY <2>1, <2>2 DEF ValidOK, SameMessage
  <2>3. CASE u # t
    <3>1. th'[u] = th[u] /\ AnswerOK(th[u], heap', methods)
      BY <2>3 DEF Others
    <3> QED BY <2>1, <3>1
  <2> QED BY <2>2, <2>3
<1> QED BY <1>1, <1>2 DEF MethodsOK

\* What an entry is for and what is pending stays, or the entry is right anyway.
LEMMA CacheKept ==
  ASSUME NEW c \in CachedClass, CacheAgrees(c), UNCHANGED <<methods, was>>, Pending(c) => Pending(c)',
         \A e \in EntriesOf(heap', cache'[c]) :
            \/ Agrees(heap', methods, c, e)
            \/ e \in EntriesOf(heap, cache[c]) /\ NameIn(heap', e) = NameIn(heap, e)
  PROVE  CacheAgrees(c)'
<1> SUFFICES ASSUME NEW e \in EntriesOf(heap', cache'[c])
             PROVE  /\ Agrees(heap', methods, c, e) \/ Agrees(heap', was, c, e)
                    /\ Pending(c)' \/ Agrees(heap', methods, c, e)
  BY DEF CacheAgrees
<1>1. CASE e \in EntriesOf(heap, cache[c]) /\ NameIn(heap', e) = NameIn(heap, e)
  <2>1. /\ Agrees(heap, methods, c, e) \/ Agrees(heap, was, c, e)
        /\ Pending(c) \/ Agrees(heap, methods, c, e)
    BY <1>1 DEF CacheAgrees
  <2>2. \A m : Agrees(heap', m, c, e) <=> Agrees(heap, m, c, e)
    BY <1>1 DEF Agrees
  <2> QED BY <2>1, <2>2
<1> QED BY <1>1

\* What a thread reads keeps its name, or it is right anyway.
LEMMA AnswerKept ==
  ASSUME NEW me, NEW h, NEW g, NEW m, AnswerOK(me, h, m),
         me.pc \in Reading => \A e \in EntriesOf(g, me.cache) :
            \/ AnswersWith(me, g, m, e)
            \/ e \in EntriesOf(h, me.cache) /\ NameIn(g, e) = NameIn(h, e),
         me.pc = "entry" \/ Filling(me) => NameIn(g, me.entry) = NameIn(h, me.entry)
  PROVE  AnswerOK(me, g, m)
<1>1. me.pc \in Reading => \A e \in EntriesOf(g, me.cache) : AnswersWith(me, g, m, e)
  BY DEF AnswerOK, AnswersWith
<1>2. me.pc = "entry" => AnswersWith(me, g, m, me.entry)
  BY DEF AnswerOK, AnswersWith
<1>3. Filling(me) => NameIn(g, me.entry) = me.sel /\ Imp(me.entry) = Resolve(m, me.cls, me.sel)
  BY DEF AnswerOK
<1> QED BY <1>1, <1>2, <1>3 DEF AnswerOK

LEMMA QuietMethods ==
  ASSUME MethodsOK, NEW t \in Thread, Others(t), UNCHANGED <<memory, methods, was, writer>>,
         th[t].pc \notin {"flush", "empty"}, SameMessage(t), AnswerOK(th'[t], heap, methods)
  PROVE  MethodsOK'
<1>1. heap' = heap /\ cache' = cache
  BY DEF memory
<1>2. ASSUME NEW c \in CachedClass PROVE CacheAgrees(c)'
  <2>1. Pending(c) => Pending(c)'
    BY <1>1 DEF Pending, Others
  <2>2. CacheAgrees(c)
    BY DEF MethodsOK
  <2> QED BY <1>1, <2>1, <2>2, CacheKept
<1>3. \A u \in Thread \ {t} : AnswerOK(th[u], heap', methods)
  BY <1>1 DEF MethodsOK
<1> QED BY <1>1, <1>2, <1>3, MethodsMove

\* No cache is stale when nobody is changing the methods, as when a thread looks one up.
LEMMA NoneStale ==
  ASSUME Control, MethodsOK, writer = NULL, NEW c \in CachedClass
  PROVE  \A e \in EntriesOf(heap, cache[c]) : Agrees(heap, methods, c, e)
<1>1. ASSUME NEW t \in Thread PROVE th[t].pc \notin {"flush", "empty"}
  <2>1. writer # t /\ LocksAt(t)
    BY MethodCacheAssumption DEF Control
  <2> QED BY <2>1 DEF LocksAt
<1>2. ~ Pending(c)
  BY <1>1 DEF Pending
<1> QED BY <1>2 DEF MethodsOK, CacheAgrees

LEMMA ReaderLocks ==
  ASSUME Control, NEW t \in Thread, LooksUp(th[t])
  PROVE  t \in readers /\ writer = NULL
BY DEF Control, LocksAt, Shape, LockShape

\* What a thread is about to search is right for the class it searches.
LEMMA SearchedIs ==
  ASSUME Control, MethodsOK, writer = NULL, NEW me, NEW c \in CachedClass, me.cache = cache[c],
         me.pc = "bucket", me.in # "objc_msgSend", me.cur = c,
         Resolve(methods, c, me.sel) = Resolve(methods, me.cls, me.sel)
  PROVE  AnswerOK(me, heap, methods)
<1>1. ASSUME NEW e \in EntriesOf(heap, me.cache) PROVE AnswersWith(me, heap, methods, e)
  BY NoneStale DEF Agrees, AnswersWith, MayAnswer
<1> QED BY <1>1 DEF AnswerOK, Filling, Expanding

LEMMA SendMethods ==
  ASSUME Control, MethodsOK, NEW t \in Thread, NEW c \in CachedClass, NEW s \in Sel, objc_msgSend(t, c, s)
  PROVE  MethodsOK'
<1>1. /\ Others(t) /\ UNCHANGED <<memory, locks, methods, was>>
      /\ th[t].pc = "idle" /\ th'[t].pc = "bucket" /\ th'[t].in = "objc_msgSend"
      /\ th'[t].cls = c /\ th'[t].cur = c /\ th'[t].sel = s /\ th'[t].cache = cache[c]
      /\ th'[t].valid = {Resolve(methods, c, s), Resolve(was, c, s)}
  BY SendIs
<1>2. heap' = heap /\ cache' = cache /\ writer' = writer
  BY <1>1 DEF memory, locks
<1>3. ASSUME NEW e \in EntriesOf(heap, cache[c]) PROVE AnswersWith(th'[t], heap, methods, e)
  <2>1. Agrees(heap, methods, c, e) \/ Agrees(heap, was, c, e)
    BY DEF MethodsOK, CacheAgrees
  <2> QED BY <1>1, <2>1 DEF Agrees, AnswersWith, MayAnswer
<1>4. AnswerOK(th'[t], heap, methods)
  BY <1>1, <1>3 DEF AnswerOK, Filling, Expanding
<1>5. ASSUME NEW d \in CachedClass PROVE CacheAgrees(d)'
  <2>1. Pending(d) => Pending(d)'
    BY <1>1, <1>2 DEF Pending, Others
  <2>2. CacheAgrees(d)
    BY DEF MethodsOK
  <2> QED BY <1>1, <1>2, <2>1, <2>2, CacheKept
<1>6. ASSUME NEW u \in Thread
      PROVE  ValidOK(th'[u], methods, was) /\ AnswerOK(th'[u], heap, methods)
  BY <1>1, <1>4 DEF MethodsOK, ValidOK, Others
<1>7. writer' = NULL => was' = methods'
  BY <1>1, <1>2 DEF MethodsOK
<1> QED BY <1>1, <1>2, <1>5, <1>6, <1>7 DEF MethodsOK

LEMMA LoadBucketMethods ==
  ASSUME Control, MemoryOK, MethodsOK, NEW t \in Thread, LoadBucket(t)
  PROVE  MethodsOK'
<1>1. /\ Others(t) /\ UNCHANGED <<memory, locks, rest>> /\ th[t].pc = "bucket" /\ SameMessage(t)
      /\ th'[t].cls = th[t].cls /\ th'[t].sel = th[t].sel /\ th'[t].cur = th[t].cur
      /\ th'[t].valid = th[t].valid
      /\ \/ th'[t].pc = IF th[t].in = "objc_msgSend" THEN "read" ELSE "lists"
         \/ /\ th'[t].pc = "entry" /\ th'[t].cache = th[t].cache /\ th'[t].in = th[t].in
            /\ \E i \in DOMAIN heap[th[t].cache].buckets :
                 th'[t].entry = heap[th[t].cache].buckets[i]
            /\ th'[t].entry # Empty
  BY LoadBucketIs DEF SameMessage
<1>2. AnswerOK(th[t], heap, methods)
  BY DEF MethodsOK
<1>3. th[t].in # "objc_msgSend" => Resolve(methods, th[t].cur, th[t].sel) = Resolve(methods, th[t].cls, th[t].sel)
  BY <1>1, <1>2 DEF AnswerOK, Reading
<1>4. CASE th'[t].pc = IF th[t].in = "objc_msgSend" THEN "read" ELSE "lists"
  <2>1. AnswerOK(th'[t], heap, methods)
    BY <1>1, <1>3, <1>4 DEF AnswerOK, Reading, Filling, Expanding
  <2> QED BY <1>1, <2>1, QuietMethods DEF rest, locks
<1>5. CASE /\ th'[t].pc = "entry" /\ th'[t].cache = th[t].cache /\ th'[t].in = th[t].in
           /\ \E i \in DOMAIN heap[th[t].cache].buckets :
                th'[t].entry = heap[th[t].cache].buckets[i]
           /\ th'[t].entry # Empty
  <2>1. \A e \in EntriesOf(heap, th'[t].cache) : AnswersWith(th'[t], heap, methods, e)
    BY <1>1, <1>2, <1>5 DEF AnswerOK, Reading, AnswersWith, MayAnswer
  <2>2. th'[t].entry \in EntriesOf(heap, th'[t].cache)
    BY <1>5, EntriesOfIs
  <2>3. AnswerOK(th'[t], heap, methods)
    BY <1>1, <1>3, <1>5, <2>1, <2>2 DEF AnswerOK, Filling, Expanding
  <2> QED BY <1>1, <2>3, QuietMethods DEF rest, locks
<1> QED BY <1>1, <1>4, <1>5

LEMMA CompareEntryMethods ==
  ASSUME Control, MethodsOK, NEW t \in Thread, CompareEntry(t)
  PROVE  MethodsOK'
<1>1. /\ Others(t) /\ UNCHANGED <<memory, locks, rest>>
      /\ th[t].pc = "entry" /\ CompareEntryTo(t)
  BY CompareEntryIs
<1>2. AnswerOK(th[t], heap, methods) /\ ValidOK(th[t], methods, was)
  BY DEF MethodsOK
<1>3. PICK e : e = th[t].entry
  OBVIOUS
<1>4. AnswersWith(th[t], heap, methods, e) /\ Name(e) = NameIn(heap, e)
  BY <1>1, <1>2, <1>3 DEF AnswerOK, Name, NameIn
<1>5. SameMessage(t) /\ AnswerOK(th'[t], heap, methods)
  <2>1. CASE /\ Name(e) # th[t].sel /\ th'[t].pc = "bucket"
             /\ th'[t].in = th[t].in /\ th'[t].cur = th[t].cur /\ th'[t].cls = th[t].cls
             /\ th'[t].sel = th[t].sel /\ th'[t].cache = th[t].cache /\ th'[t].valid = th[t].valid
    <3>1. \A a \in EntriesOf(heap, th'[t].cache) : AnswersWith(th'[t], heap, methods, a)
      BY <1>1, <1>2, <2>1 DEF AnswerOK, Reading, AnswersWith, MayAnswer
    <3>2. th'[t].in # "objc_msgSend" =>
            Resolve(methods, th'[t].cur, th'[t].sel) = Resolve(methods, th'[t].cls, th'[t].sel)
      BY <1>1, <1>2, <2>1 DEF AnswerOK, Reading
    <3> QED BY <2>1, <3>1, <3>2 DEF AnswerOK, SameMessage, Filling, Expanding
  <2>2. CASE th'[t] = Idle
    BY <2>2, IdleIs DEF AnswerOK, SameMessage, Reading, Filling, Expanding
  <2>3. CASE /\ Name(e) = th[t].sel /\ th[t].in # "objc_msgSend" /\ th'[t].pc = "unlock"
             /\ th'[t].cls = NULL /\ th'[t].answer = Imp(e) /\ th'[t].valid = th[t].valid
    <3>1. th[t].cls # NULL
      BY <1>1, LocalsAre, MethodCacheAssumption DEF Placed
    <3>2. th'[t].answer \in th'[t].valid
      BY <1>2, <1>4, <2>3, <3>1 DEF AnswersWith, MayAnswer, ValidOK
    <3> QED BY <2>3, <3>2 DEF AnswerOK, SameMessage, Reading, Filling, Expanding
  <2>4. CASE /\ Name(e) = th[t].sel /\ IsForward(e) /\ th[t].in # "objc_msgSend"
             /\ th'[t].pc \in {"resolve", "forward"} /\ th'[t].cls = th[t].cls
             /\ th'[t].sel = th[t].sel /\ th'[t].valid = th[t].valid
    <3>1. Resolve(methods, th'[t].cls, th'[t].sel) = Empty
      BY <1>4, <2>4 DEF AnswersWith, MayAnswer, Imp
    <3> QED BY <2>4, <3>1 DEF AnswerOK, SameMessage, Reading, Filling, Expanding
  <2>5. CASE /\ Name(e) = th[t].sel /\ ~ IsForward(e) /\ th[t].in # "objc_msgSend"
             /\ th'[t].pc = "fill" /\ th'[t].cls = th[t].cls
             /\ th'[t].sel = th[t].sel /\ th'[t].valid = th[t].valid /\ th'[t].entry = e
    <3>1. NameIn(heap, th'[t].entry) = th'[t].sel
          /\ Imp(th'[t].entry) = Resolve(methods, th'[t].cls, th'[t].sel)
      BY <1>4, <2>5 DEF AnswersWith, MayAnswer
    <3> QED BY <2>5, <3>1 DEF AnswerOK, SameMessage, Reading
  <2> QED BY <1>1, <1>3, <2>1, <2>2, <2>3, <2>4, <2>5 DEF CompareEntryTo
<1> QED BY <1>1, <1>5, QuietMethods DEF rest, locks

LEMMA LockMethods ==
  ASSUME Control, MethodsOK, NEW t \in Thread, lockForMethodLookup(t)
  PROVE  MethodsOK'
<1>1. /\ Others(t) /\ UNCHANGED <<memory, rest, writer, cacheUpdateLock>>
      /\ th[t].pc = "read" /\ writer = NULL
      /\ th'[t].pc = "bucket" /\ th'[t].in = "_cache_getImp"
      /\ th'[t].cls = th[t].cls /\ th'[t].cur = th[t].cls /\ th'[t].sel = th[t].sel
      /\ th'[t].cache = cache[th[t].cls] /\ th'[t].valid = th[t].valid
  BY LockIs
<1>2. th[t].cls \in CachedClass
  BY <1>1, LocalsAre DEF Placed
<1>3. AnswerOK(th'[t], heap, methods)
  BY <1>1, <1>2, SearchedIs
<1> QED BY <1>1, <1>3, QuietMethods DEF rest, SameMessage

LEMMA UnlockMethods ==
  ASSUME Control, MethodsOK, NEW t \in Thread, unlockForMethodLookup(t)
  PROVE  MethodsOK'
<1>1. /\ Others(t) /\ UNCHANGED <<memory, rest, writer, cacheUpdateLock>>
      /\ th[t].pc = "unlock" /\ th'[t] = Idle
  BY UnlockIs
<1>2. AnswerOK(th'[t], heap, methods) /\ SameMessage(t)
  BY <1>1, IdleIs DEF AnswerOK, SameMessage, Reading, Filling, Expanding
<1> QED BY <1>1, <1>2, QuietMethods DEF rest

LEMMA SearchListsMethods ==
  ASSUME Control, MethodsOK, NEW t \in Thread, SearchLists(t)
  PROVE  MethodsOK'
<1>1. /\ Others(t) /\ UNCHANGED <<memory, locks, rest>>
      /\ th[t].pc = "lists" /\ SearchListsTo(t)
  BY SearchListsIs
<1>2. AnswerOK(th[t], heap, methods)
  BY DEF MethodsOK
<1>3. PICK c \in CachedClass : c = th[t].cur
  BY <1>1, LocalsAre DEF Placed
<1>4. PICK s : s = th[t].sel
  OBVIOUS
<1>5. PICK v : v = methods[c][s]
  OBVIOUS
<1>6. Resolve(methods, c, s) = Resolve(methods, th[t].cls, s)
  BY <1>1, <1>2, <1>3, <1>4 DEF AnswerOK
<1>7. writer = NULL
  BY <1>1, ReaderLocks DEF LooksUp
<1>8. SameMessage(t) /\ th'[t].cls = th[t].cls /\ th'[t].sel = s
  BY <1>1, <1>4 DEF SearchListsTo, SameMessage
<1>9. AnswerOK(th'[t], heap, methods)
  <2>1. CASE v # 0 /\ th'[t].pc = "fill" /\ th'[t].entry = MethodOf(c, s, v)
    <3>1. Resolve(methods, c, s) = MethodOf(c, s, v)
      BY <1>5, <2>1, ResolveOwn
    <3>2. \A e : e = MethodOf(c, s, v) => ~ IsForward(e) /\ e[3] = s
      BY DEF MethodOf, IsForward
    <3>3. NameIn(heap, th'[t].entry) = s /\ Imp(th'[t].entry) = Resolve(methods, th'[t].cls, s)
      BY <1>6, <1>8, <2>1, <3>1, <3>2 DEF NameIn, Imp
    <3> QED BY <1>8, <2>1, <3>3 DEF AnswerOK, Reading
  <2>2. CASE v = 0 /\ Super[c] = NULL /\ th'[t].pc \in {"resolve", "forward"}
    <3>1. Resolve(methods, th'[t].cls, th'[t].sel) = Empty
      BY <1>5, <1>6, <1>8, <2>2, ResolveNone
    <3> QED BY <2>2, <3>1 DEF AnswerOK, Reading, Filling, Expanding
  <2>3. CASE /\ v = 0 /\ Super[c] # NULL /\ th'[t].pc = "bucket" /\ th'[t].in = "_cache_getMethod"
             /\ th'[t].cur = Super[c] /\ th'[t].cache = cache[Super[c]]
    <3>1. Super[c] \in CachedClass
      BY <2>3, MethodCacheAssumption
    <3>2. Resolve(methods, Super[c], s) = Resolve(methods, th'[t].cls, s)
      BY <1>5, <1>6, <1>8, <2>3, ResolveUp, Zenon
    <3> QED BY <1>7, <1>8, <2>3, <3>1, <3>2, SearchedIs
  <2> QED BY <1>1, <1>3, <1>4, <1>5, <2>1, <2>2, <2>3 DEF SearchListsTo
<1> QED BY <1>1, <1>8, <1>9, QuietMethods DEF rest, locks

LEMMA ResolveMethodMethods ==
  ASSUME Control, MethodsOK, NEW t \in Thread, _class_resolveMethod(t)
  PROVE  MethodsOK'
<1>1. /\ Others(t) /\ UNCHANGED <<memory, methods, was, writer>>
      /\ th[t].pc = "resolve" /\ th'[t].pc \in {"read", "write"} /\ SameMessage(t)
  BY ResolveMethodIs DEF SameMessage
<1>2. AnswerOK(th'[t], heap, methods)
  BY <1>1 DEF AnswerOK, Reading, Filling, Expanding
<1> QED BY <1>1, <1>2, QuietMethods

LEMMA InCriticalMethods ==
  ASSUME Control, MethodsOK, NEW t \in Thread, _collecting_in_critical(t)
  PROVE  MethodsOK'
<1>1. /\ Others(t) /\ UNCHANGED <<memory, locks, rest>> /\ SameMessage(t)
      /\ th[t].pc = "scan" /\ th'[t].pc \in {"scan", "insert"}
      /\ th'[t].pc = "insert" => ~ th[t].alot
      /\ th'[t].alot <=> th[t].alot
      /\ th'[t].entry = th[t].entry
      /\ th'[t].cls = th[t].cls /\ th'[t].sel = th[t].sel /\ th'[t].valid = th[t].valid
  BY InCriticalIs DEF SameMessage
<1>2. Filling(th'[t]) => Filling(th[t])
  BY <1>1, Zenon DEF Filling, Expanding
<1>3. AnswerOK(th[t], heap, methods)
  BY DEF MethodsOK
<1>4. AnswerOK(th'[t], heap, methods)
  BY <1>1, <1>2, <1>3 DEF AnswerOK, Reading
<1> QED BY <1>1, <1>4, QuietMethods DEF rest, locks

LEMMA CollectALotMethods ==
  ASSUME Control, MethodsOK, NEW t \in Thread, CollectALot(t)
  PROVE  MethodsOK'
<1>1. /\ Others(t) /\ UNCHANGED <<memory, rest, writer, readers>>
      /\ th[t].pc = "collect" /\ th'[t].pc = "scan" /\ th'[t].alot /\ SameMessage(t)
  BY CollectALotIs DEF SameMessage
<1>2. ~ Filling(th'[t])
  BY <1>1, Zenon DEF Filling, Expanding
<1>3. AnswerOK(th'[t], heap, methods)
  BY <1>1, <1>2 DEF AnswerOK, Reading
<1> QED BY <1>1, <1>3, QuietMethods DEF rest

LEMMA InitializeMethods ==
  ASSUME Control, MethodsOK, NEW c \in CachedClass, _class_initialize(c)
  PROVE  MethodsOK'
<1>1. methods' = methods /\ was' = was /\ th' = th /\ heap' = heap /\ cache' = cache /\ writer' = writer
  BY InitializeIs DEF memory, locks
<1>2. ASSUME NEW d \in CachedClass PROVE CacheAgrees(d)'
  <2>1. Pending(d) => Pending(d)'
    BY <1>1 DEF Pending
  <2>2. CacheAgrees(d)
    BY DEF MethodsOK
  <2> QED BY <1>1, <2>1, <2>2, CacheKept
<1>3. ASSUME NEW t \in Thread
      PROVE  ValidOK(th'[t], methods', was') /\ AnswerOK(th'[t], heap', methods')
  BY <1>1 DEF MethodsOK
<1>4. writer' = NULL => was' = methods'
  BY <1>1 DEF MethodsOK
<1> QED BY <1>2, <1>3, <1>4 DEF MethodsOK

\* Only the thread that has changed the methods flushes.
LEMMA OneWriter ==
  ASSUME Control, NEW t \in Thread, th[t].pc \in {"flush", "empty"}
  PROVE  writer = t /\ \A u \in Thread \ {t} : th[u].pc \notin {"flush", "empty"}
<1>1. writer = t
  BY DEF Control, LocksAt
<1>2. \A u \in Thread \ {t} : th[u].pc \notin {"flush", "empty"}
  BY <1>1 DEF Control, LocksAt
<1> QED BY <1>1, <1>2

LEMMA ChangedMethods ==
  ASSUME Control, MethodsOK, NEW t \in Thread, Changed(t)
  PROVE  MethodsOK'
<1>1. /\ Others(t) /\ UNCHANGED <<memory, methods>>
      /\ th[t].pc = "flush" /\ th[t].flush = {} /\ writer' = NULL /\ was' = methods
      /\ th'[t].pc \in {"idle", "read", "collect"} /\ SameMessage(t)
  BY ChangedIs DEF SameMessage
<1>2. heap' = heap /\ cache' = cache
  BY <1>1 DEF memory
<1>3. ASSUME NEW c \in CachedClass PROVE CacheAgrees(c)'
  <2>1. ~ Pending(c)
    BY <1>1, OneWriter DEF Pending
  <2>2. \A e \in EntriesOf(heap, cache[c]) : Agrees(heap, methods, c, e)
    BY <2>1 DEF MethodsOK, CacheAgrees
  <2> QED BY <1>1, <1>2, <2>2 DEF CacheAgrees
<1>4. AnswerOK(th'[t], heap, methods)
  BY <1>1 DEF AnswerOK, Reading, Filling, Expanding
<1>5. ASSUME NEW u \in Thread
      PROVE  ValidOK(th'[u], methods, methods) /\ AnswerOK(th'[u], heap, methods)
  <2>1. ValidOK(th[u], methods, was) /\ AnswerOK(th[u], heap, methods)
    BY DEF MethodsOK
  <2>2. CASE u = t
    BY <1>1, <1>4, <2>1, <2>2 DEF ValidOK, SameMessage
  <2>3. CASE u # t
    BY <1>1, <2>1, <2>3 DEF ValidOK, Others
  <2> QED BY <2>2, <2>3
<1> QED BY <1>1, <1>2, <1>3, <1>5 DEF MethodsOK

LEMMA FlushCacheMethods ==
  ASSUME Control, MethodsOK, NEW t \in Thread, flush_cache(t)
  PROVE  MethodsOK'
<1>1. /\ Others(t) /\ UNCHANGED <<memory, methods, was, writer>> /\ th[t].pc = "flush" /\ SameMessage(t)
  BY FlushCacheIs DEF rest, SameMessage
<1>2. PICK c \in CachedClass : FlushCacheTo(t, c)
  BY FlushCacheIs
<1>3. heap' = heap /\ cache' = cache
  BY <1>1 DEF memory
<1>4. th'[t].pc \in {"flush", "empty"} /\ th'[t].flush = th[t].flush \ {c}
  BY <1>2 DEF FlushCacheTo
<1>5. ASSUME NEW d \in CachedClass PROVE CacheAgrees(d)'
  <2>1. CacheAgrees(d)
    BY DEF MethodsOK
  <2>2. CASE d # c
    <3>1. Pending(d) => d \in th[t].flush
      BY <1>1, OneWriter DEF Pending
    <3>2. Pending(d) => Pending(d)'
      BY <1>4, <2>2, <3>1 DEF Pending
    <3> QED BY <1>1, <1>3, <2>1, <3>2, CacheKept
  <2>3. CASE d = c /\ cache[c] # _objc_empty_cache
    <3>1. th'[t].pc = "empty" /\ th'[t].cache = cache[c]
      BY <1>2, <2>3 DEF FlushCacheTo
    <3>2. Pending(d)'
      BY <1>3, <2>3, <3>1 DEF Pending
    <3> QED BY <1>1, <1>3, <2>1, <3>2, CacheKept
  <2>4. CASE d = c /\ cache[c] = _objc_empty_cache
    <3>1. EntriesOf(heap, _objc_empty_cache) = {}
      BY EmptyCacheIs DEF EntriesOf, Control, Shape
    <3> QED BY <1>3, <2>4, <3>1 DEF CacheAgrees
  <2> QED BY <2>2, <2>3, <2>4
<1>6. AnswerOK(th'[t], heap', methods)
  BY <1>4 DEF AnswerOK, Reading, Filling, Expanding
<1>7. \A u \in Thread \ {t} : AnswerOK(th[u], heap', methods)
  BY <1>3 DEF MethodsOK
<1> QED BY <1>1, <1>5, <1>6, <1>7, MethodsMove

LEMMA ChangingMethods ==
  ASSUME Control, MethodsOK, NEW t \in Thread, NEW me, ChangesWith(t, me)
  PROVE  MethodsOK'
<1>1. /\ Control' /\ UNCHANGED memory
      /\ writer = NULL /\ readers = {} /\ was' = methods /\ methods' = NewMethods(me)
      /\ \A u \in Thread \ {t} : Alike(u) /\ Grown(u)
      /\ th'[t].pc = "flush" /\ th'[t].flush = ToFlush(me)
      /\ th'[t].cls = NULL \/ (th'[t].cls = th[t].cls /\ th'[t].sel = th[t].sel /\ Grown(t))
      /\ me.cur \in CachedClass \cup {NULL}
  BY ChangesWithIs
<1>2. heap' = heap /\ cache' = cache
  BY <1>1 DEF memory
<1>3. writer' = t /\ t # NULL
  BY <1>1, MethodCacheAssumption DEF Control, LocksAt
<1>4. methods \in [CachedClass -> [Sel -> Nat]] /\ was = methods
  BY <1>1 DEF Control, Shape, ListShape, MethodsOK
<1>5. ASSUME NEW c \in CachedClass PROVE CacheAgrees(c)'
  <2>1. \A e \in EntriesOf(heap, cache[c]) : Agrees(heap, methods, c, e)
    BY <1>1, NoneStale
  <2>2. CASE c \in ToFlush(me)
    <3>1. Pending(c)'
      BY <1>1, <2>2 DEF Pending
    <3> QED BY <1>1, <1>2, <2>1, <3>1 DEF CacheAgrees
  <2>3. CASE c \notin ToFlush(me)
    <3>1. methods' = methods \/ (me.cur \in CachedClass /\ me.cur \notin Line[c])
      BY <1>1, <2>3 DEF ToFlush, WithSubclasses
    <3>2. \A s : Resolve(methods', c, s) = Resolve(methods, c, s)
      <4>1. CASE me.cur \in CachedClass /\ me.cur \notin Line[c]
        <5>1. \A d \in CachedClass : d # me.cur => NewMethods(me)[d] = methods[d]
          BY <1>4 DEF NewMethods
        <5>2. \A d \in Line[c] : methods'[d] = methods[d]
          BY <1>1, <4>1, <5>1, LineTypes
        <5> QED BY <5>2, ResolveSame
      <4> QED BY <3>1, <4>1
    <3> QED BY <1>1, <1>2, <2>1, <3>2 DEF CacheAgrees, Agrees
  <2> QED BY <2>2, <2>3
<1>6. ASSUME NEW u \in Thread PROVE ValidOK(th'[u], methods', methods)
  <2>1. ValidOK(th[u], methods, methods)
    BY <1>4 DEF MethodsOK
  <2>2. th'[u].cls = NULL \/ (th'[u].cls = th[u].cls /\ th'[u].sel = th[u].sel /\ Grown(u))
    BY <1>1 DEF Alike
  <2> QED BY <2>1, <2>2 DEF ValidOK, Grown
<1>7. ASSUME NEW u \in Thread \ {t} PROVE AnswerOK(th'[u], heap, methods')
  <2>1. ~ LooksUp(th[u]) /\ AnswerOK(th[u], heap, methods)
    BY <1>1 DEF Control, LocksAt, MethodsOK
  <2>2. Alike(u) /\ Grown(u)
    BY <1>1
  <2>3. ~ Filling(th'[u])
    BY <2>1, <2>2, Zenon DEF LooksUp, Filling, Expanding, Alike
  <2>4. /\ th'[u].pc \notin {"unlock", "lists", "resolve", "forward"}
        /\ th'[u].pc \in Reading => th'[u].in = "objc_msgSend"
    BY <2>1, <2>2 DEF LooksUp, Alike
  <2>5. ASSUME th'[u].pc \in Reading, NEW e, AnswersWith(th[u], heap, methods, e)
        PROVE  AnswersWith(th'[u], heap, methods', e)
    BY <2>2, <2>4, <2>5 DEF AnswersWith, MayAnswer, Alike, Grown
  <2>6. th'[u].pc \in Reading =>
          \A e \in EntriesOf(heap, th'[u].cache) : AnswersWith(th'[u], heap, methods', e)
    BY <2>1, <2>2, <2>5 DEF AnswerOK, Alike
  <2>7. th'[u].pc = "entry" => AnswersWith(th'[u], heap, methods', th'[u].entry)
    BY <2>1, <2>2, <2>5 DEF AnswerOK, Alike, Reading
  <2> QED BY <2>3, <2>4, <2>6, <2>7 DEF AnswerOK
<1>8. AnswerOK(th'[t], heap, methods')
  BY <1>1 DEF AnswerOK, Reading, Filling, Expanding
<1> QED BY <1>1, <1>2, <1>3, <1>5, <1>6, <1>7, <1>8 DEF MethodsOK

\* The blocks D change, and no entry is there that a cache holds or that another thread
\* reads or has found: the entries that caches and threads know of keep their names.
Untouched(t, D) ==
    /\ \A b \in Block \ D : heap'[b] = heap[b]
    /\ \A b \in D : b \in Block => ~ Held(b) /\ Adding(b) \subseteq {t}
    /\ \A b \in D : b \in Block /\ Dropped(b) => \A u \in Thread \ {t} : NoGarbage(th[u])

LEMMA NamesKept ==
  ASSUME NEW e \in Entry, IsForward(e) => heap'[e[2]] = heap[e[2]]
  PROVE  NameIn(heap', e) = NameIn(heap, e)
BY DEF NameIn

LEMMA UntouchedNames ==
  ASSUME Control, MemoryOK, NEW t \in Thread, NEW D, Untouched(t, D)
  PROVE  /\ \A c \in CachedClass : \A e \in EntriesOf(heap, cache[c]) : NameIn(heap', e) = NameIn(heap, e)
         /\ \A u \in Thread \ {t} :
              /\ th[u].pc \in Reading =>
                   \A e \in EntriesOf(heap, th[u].cache) : NameIn(heap', e) = NameIn(heap, e)
              /\ th[u].pc = "entry" \/ Filling(th[u]) =>
                   NameIn(heap', th[u].entry) = NameIn(heap, th[u].entry)
<1>1. MemoryShape
  BY DEF Control, Shape
<1>2. ASSUME NEW d \in Block, NEW j, j \in Garbage(d) PROVE d \in ToSet(garbage_refs)
  BY <1>2 DEF Garbage, ToSet
<1>3. ASSUME NEW c \in CachedClass, NEW e \in EntriesOf(heap, cache[c])
      PROVE  NameIn(heap', e) = NameIn(heap, e)
  <2>1. PICK i \in DOMAIN heap[cache[c]].buckets : e = heap[cache[c]].buckets[i]
    BY EntriesOfIs
  <2>2. e \in Entry
    BY <1>1, <2>1, CacheOfIs, CacheIs
  <2>3. IsForward(e) => heap'[e[2]] = heap[e[2]]
    <3> SUFFICES ASSUME IsForward(e) PROVE heap'[e[2]] = heap[e[2]]
      OBVIOUS
    <3>1. PICK d \in Block : d = e[2] /\ e = ForwardIn(d)
      BY <2>2, EntriesAre, Zenon
    <3>2. <<c, i>> \in Holding(d)
      BY <2>1, <3>1, HoldingHas
    <3>3. Held(d)
      BY <3>2, PlaceIs
    <3> QED BY <3>1, <3>3 DEF Untouched
  <2> QED BY <2>2, <2>3, NamesKept
<1>4. ASSUME NEW u \in Thread \ {t}, NEW d \in Block, Held(d) \/ Dropped(d),
             NoGarbage(th[u]) => d \notin ToSet(garbage_refs)
      PROVE  heap'[d] = heap[d]
  <2>1. CASE d \in D
    <3>1. Dropped(d) /\ NoGarbage(th[u])
      BY <1>4, <2>1 DEF Untouched
    <3>2. d \in ToSet(garbage_refs)
      BY <1>2, <3>1 DEF Dropped
    <3> QED BY <1>4, <3>1, <3>2
  <2> QED BY <2>1 DEF Untouched
<1>5. ASSUME NEW u \in Thread \ {t}, th[u].pc \in Reading, NEW e \in EntriesOf(heap, th[u].cache)
      PROVE  NameIn(heap', e) = NameIn(heap, e)
  <2>1. PICK b : b = th[u].cache
    OBVIOUS
  <2>2. PICK i \in DOMAIN heap[b].buckets : e = heap[b].buckets[i]
    BY <2>1, EntriesOfIs
  <2>3. b \in Block \cup {_objc_empty_cache} /\ heap[b].kind = "cache"
    BY <1>5, <2>1, LocalsAre DEF Local, MemoryOK, ThreadOK, ReaderIs
  <2>4. e \in Entry
    BY <1>1, <2>2, <2>3, CacheIs
  <2>5. IsForward(e) => heap'[e[2]] = heap[e[2]]
    <3> SUFFICES ASSUME IsForward(e) PROVE heap'[e[2]] = heap[e[2]]
      OBVIOUS
    <3>1. PICK d \in Block : d = e[2]
      BY <2>4, EntriesAre, Zenon
    <3>2. /\ Held(d) \/ Dropped(d)
          /\ b \notin ToSet(garbage_refs) => d \notin ToSet(garbage_refs)
      BY <1>5, <2>1, <2>2, <3>1, ReadEntryIs
    <3>3. NoGarbage(th[u]) => b \notin ToSet(garbage_refs)
      BY <1>5, <2>1 DEF NoGarbage
    <3> QED BY <1>4, <3>1, <3>2, <3>3
  <2> QED BY <2>4, <2>5, NamesKept
<1>6. ASSUME NEW u \in Thread \ {t}, th[u].pc = "entry" \/ Filling(th[u])
      PROVE  NameIn(heap', th[u].entry) = NameIn(heap, th[u].entry)
  <2>1. PICK e \in Entry : e = th[u].entry
    BY LocalsAre DEF Local
  <2>2. IsForward(e) => heap'[e[2]] = heap[e[2]]
    <3> SUFFICES ASSUME IsForward(e) PROVE heap'[e[2]] = heap[e[2]]
      OBVIOUS
    <3>1. PICK d \in Block : d = e[2] /\ e = ForwardIn(d)
      BY EntriesAre
    <3>2. CASE th[u].pc = "entry"
      <4>1. Held(d) \/ Dropped(d)
        BY <2>1, <3>1, <3>2 DEF MemoryOK, ThreadOK, ReaderIs
      <4>2. NoGarbage(th[u]) => d \notin ToSet(garbage_refs)
        BY <2>1, <3>1, <3>2 DEF NoGarbage
      <4> QED BY <1>4, <3>1, <4>1, <4>2
    <3>3. CASE Filling(th[u])
      <4>1. u \in Adding(d)
        BY <2>1, <3>1, <3>3 DEF Filling, Expanding, Adding
      <4> QED BY <3>1, <4>1 DEF Untouched
    <3> QED BY <1>6, <3>2, <3>3
  <2> QED BY <2>1, <2>2, NamesKept
<1> QED BY <1>3, <1>5, <1>6

\* Caches and readers see no new entries, or right ones.
LEMMA MemoryMethods ==
  ASSUME Control, MemoryOK, MethodsOK, NEW t \in Thread, NEW D, Untouched(t, D), Others(t),
         UNCHANGED <<methods, was, writer>>, SameMessage(t),
         \A c \in CachedClass : \A e \in EntriesOf(heap', cache'[c]) :
            Agrees(heap', methods, c, e) \/ e \in EntriesOf(heap, cache[c]),
         \A c \in CachedClass : Pending(c) => Pending(c)' \/ EntriesOf(heap', cache'[c]) = {},
         \A u \in Thread \ {t} : th[u].pc \in Reading => \A e \in EntriesOf(heap', th[u].cache) :
            AnswersWith(th[u], heap', methods, e) \/ e \in EntriesOf(heap, th[u].cache),
         AnswerOK(th'[t], heap', methods)
  PROVE  MethodsOK'
<1>1. ASSUME NEW c \in CachedClass PROVE CacheAgrees(c)'
  <2>1. CacheAgrees(c)
    BY DEF MethodsOK
  <2>2. CASE EntriesOf(heap', cache'[c]) = {}
    BY <2>2 DEF CacheAgrees
  <2>3. CASE Pending(c) => Pending(c)'
    <3>1. \A e \in EntriesOf(heap', cache'[c]) :
             \/ Agrees(heap', methods, c, e)
             \/ e \in EntriesOf(heap, cache[c]) /\ NameIn(heap', e) = NameIn(heap, e)
      BY UntouchedNames
    <3> QED BY <2>1, <2>3, <3>1, CacheKept
  <2> QED BY <2>2, <2>3
<1>2. ASSUME NEW u \in Thread \ {t} PROVE AnswerOK(th[u], heap', methods)
  <2>1. AnswerOK(th[u], heap, methods)
    BY DEF MethodsOK
  <2>2. th[u].pc \in Reading => \A e \in EntriesOf(heap', th[u].cache) :
            \/ AnswersWith(th[u], heap', methods, e)
            \/ e \in EntriesOf(heap, th[u].cache) /\ NameIn(heap', e) = NameIn(heap, e)
    BY UntouchedNames
  <2>3. th[u].pc = "entry" \/ Filling(th[u]) =>
            NameIn(heap', th[u].entry) = NameIn(heap, th[u].entry)
    BY UntouchedNames
  <2> QED BY <2>1, <2>2, <2>3, AnswerKept
<1> QED BY <1>1, <1>2, MethodsMove

LEMMA PendingKept ==
  ASSUME NEW t \in Thread, Others(t), th[t].pc \notin {"flush", "empty"}, NEW c \in CachedClass,
         cache'[c] = cache[c]
  PROVE  Pending(c) => Pending(c)'
BY DEF Pending, Others

\* A block that is no cache changes: the caches have the entries they had.
LEMMA EntriesKept ==
  ASSUME Control, MemoryOK, NEW D, \A d \in D : heap[d].kind # "cache",
         \A b \in (Block \cup {_objc_empty_cache}) \ D : heap'[b] = heap[b]
  PROVE  /\ \A c \in CachedClass : EntriesOf(heap', cache[c]) = EntriesOf(heap, cache[c])
         /\ \A u \in Thread : th[u].pc \in Reading =>
              EntriesOf(heap', th[u].cache) = EntriesOf(heap, th[u].cache)
<1>1. ASSUME NEW b \in Block \cup {_objc_empty_cache}, heap[b].kind = "cache"
      PROVE  EntriesOf(heap', b) = EntriesOf(heap, b)
  <2>1. heap'[b] = heap[b]
    BY <1>1
  <2> QED BY <2>1 DEF EntriesOf
<1>2. \A c \in CachedClass : EntriesOf(heap', cache[c]) = EntriesOf(heap, cache[c])
  BY <1>1, CacheOfIs
<1>3. ASSUME NEW u \in Thread, th[u].pc \in Reading
      PROVE  EntriesOf(heap', th[u].cache) = EntriesOf(heap, th[u].cache)
  <2>1. th[u].cache \in Block \cup {_objc_empty_cache} /\ heap[th[u].cache].kind = "cache"
    BY <1>3, LocalsAre DEF Local, MemoryOK, ThreadOK, ReaderIs
  <2> QED BY <1>1, <2>1
<1> QED BY <1>2, <1>3

\* What thread t is about to add.
LEMMA AddedIs ==
  ASSUME Control, MemoryOK, MethodsOK, NEW t \in Thread, Filling(th[t])
  PROVE  /\ th[t].cls \in CachedClass /\ th[t].entry \in Entry /\ th[t].entry # Empty
         /\ NameIn(heap, th[t].entry) = th[t].sel
         /\ Imp(th[t].entry) = Resolve(methods, th[t].cls, th[t].sel)
         /\ Resolve(methods, th[t].cls, th[t].sel) \in th[t].valid
         /\ writer = NULL
         /\ IsForward(th[t].entry) => \E d \in Block :
              th[t].entry = ForwardIn(d) /\ d = th[t].entry[2] /\ Added(d) /\ Adding(d) = {t}
<1>1. th[t].cls \in CachedClass /\ th[t].entry \in Entry /\ th[t].entry # Empty
  BY LocalsAre DEF Local, Placed
<1>2. /\ NameIn(heap, th[t].entry) = th[t].sel
      /\ Imp(th[t].entry) = Resolve(methods, th[t].cls, th[t].sel)
  BY DEF MethodsOK, AnswerOK
<1>3. Resolve(methods, th[t].cls, th[t].sel) \in th[t].valid
  BY <1>1, MethodCacheAssumption DEF MethodsOK, ValidOK
<1>4. writer = NULL
  BY ReaderLocks DEF LooksUp
<1>5. ASSUME IsForward(th[t].entry)
      PROVE  \E d \in Block : th[t].entry = ForwardIn(d) /\ d = th[t].entry[2] /\ Added(d) /\ Adding(d) = {t}
  <2>1. PICK d \in Block : d = th[t].entry[2] /\ th[t].entry = ForwardIn(d)
    BY <1>1, <1>5, EntriesAre
  <2>2. t \in Adding(d)
    BY <2>1 DEF Adding, Filling, Expanding
  <2> QED BY <2>1, <2>2, PlaceIs
<1> QED BY <1>1, <1>2, <1>3, <1>4, <1>5

LEMMA AddForwardMethods ==
  ASSUME Control, MemoryOK, MethodsOK, NEW t \in Thread, _cache_addForwardEntry(t)
  PROVE  MethodsOK'
<1>1. /\ Others(t) /\ UNCHANGED <<cache, methods, was, writer>> /\ SameMessage(t)
      /\ th[t].pc = "forward" /\ th'[t].pc = "fill"
      /\ th'[t].cls = th[t].cls /\ th'[t].sel = th[t].sel
  BY AddForwardIs DEF SameMessage, rest, locks
<1>2. PICK f \in Block : /\ heap[f] = Free /\ heap' = [heap EXCEPT ![f] = ForwardEntry(th[t].sel)]
                         /\ th'[t].entry = ForwardIn(f)
  BY AddForwardIs
<1>3. heap'[f] = ForwardEntry(th[t].sel)
      /\ \A d \in (Block \cup {_objc_empty_cache}) \ {f} : heap'[d] = heap[d]
  BY <1>2 DEF Control, Shape, MemoryShape
<1>4. IsFree(f) /\ heap[f].kind = "free"
  BY <1>2, PlaceIs DEF Free
<1>5. Untouched(t, {f})
  BY <1>3, <1>4 DEF Untouched, IsFree, Held, Dropped, IsForwarder
<1>6. /\ \A c \in CachedClass : EntriesOf(heap', cache'[c]) = EntriesOf(heap, cache[c])
      /\ \A u \in Thread : th[u].pc \in Reading =>
           EntriesOf(heap', th[u].cache) = EntriesOf(heap, th[u].cache)
  BY <1>1, <1>3, <1>4, EntriesKept
<1>7. \A c \in CachedClass : Pending(c) => Pending(c)'
  BY <1>1, PendingKept
<1>8. AnswerOK(th'[t], heap', methods)
  <2>1. Resolve(methods, th[t].cls, th[t].sel) = Empty
    BY <1>1 DEF MethodsOK, AnswerOK
  <2>2. IsForward(ForwardIn(f)) /\ ForwardIn(f)[2] = f
    BY EntriesAre
  <2>3. Imp(th'[t].entry) = Empty /\ NameIn(heap', th'[t].entry) = th[t].sel
    BY <1>2, <1>3, <2>2 DEF Imp, NameIn, ForwardEntry
  <2> QED BY <1>1, <2>1, <2>3 DEF AnswerOK, Reading
<1> QED BY <1>1, <1>5, <1>6, <1>7, <1>8, MemoryMethods

LEMMA NotAddedMethods ==
  ASSUME Control, MemoryOK, MethodsOK, NEW t \in Thread, Filling(th[t]), NotAdded(t),
         UNCHANGED <<writer, readers, cacheUpdateLock, rest>>, cacheUpdateLock # t
  PROVE  MethodsOK'
<1>1. /\ Others(t) /\ UNCHANGED <<cache, methods, was, writer>> /\ SameMessage(t)
      /\ th'[t].pc = "unlock" /\ th'[t].answer = Imp(th[t].entry) /\ th'[t].valid = th[t].valid
  BY NotAddedIs DEF SameMessage, rest
<1>2. th[t].pc \notin {"flush", "empty"}
  BY DEF Filling, Expanding
<1>3. \A c \in CachedClass : Pending(c) => Pending(c)'
  BY <1>1, <1>2, PendingKept
<1>4. AnswerOK(th'[t], heap', methods)
  <2>1. th'[t].answer \in th'[t].valid
    BY <1>1, AddedIs
  <2> QED BY <1>1, <2>1 DEF AnswerOK, Reading, Filling, Expanding
<1>5. CASE heap' = heap
  <2>1. Untouched(t, {})
    BY <1>5 DEF Untouched
  <2> QED BY <1>1, <1>3, <1>4, <1>5, <2>1, MemoryMethods
<1>6. ASSUME NEW b \in Block, th[t].entry = ForwardIn(b), heap' = [heap EXCEPT ![b] = Free]
      PROVE  MethodsOK'
  <2>1. Added(b) /\ Adding(b) = {t}
    BY <1>6, AddedIs, EntriesAre
  <2>2. ~ Held(b) /\ ~ Dropped(b) /\ heap[b].kind # "cache"
    BY <2>1 DEF Added, Held, Dropped, IsForwarder
  <2>3. \A d \in (Block \cup {_objc_empty_cache}) \ {b} : heap'[d] = heap[d]
    BY <1>6 DEF Control, Shape, MemoryShape
  <2>4. Untouched(t, {b})
    BY <2>1, <2>2, <2>3 DEF Untouched
  <2>5. /\ \A c \in CachedClass : EntriesOf(heap', cache'[c]) = EntriesOf(heap, cache[c])
        /\ \A u \in Thread : th[u].pc \in Reading =>
             EntriesOf(heap', th[u].cache) = EntriesOf(heap, th[u].cache)
    <3>1. PICK D : D = {b}
      OBVIOUS
    <3>2. /\ \A d \in D : heap[d].kind # "cache"
          /\ \A d \in (Block \cup {_objc_empty_cache}) \ D : heap'[d] = heap[d]
      BY <2>2, <2>3, <3>1
    <3> QED BY <1>1, <3>2, EntriesKept
  <2> QED BY <1>1, <1>3, <1>4, <2>4, <2>5, MemoryMethods
<1> QED BY <1>5, <1>6, NotAddedIs

LEMMA InsertMethods ==
  ASSUME Control, MemoryOK, MethodsOK, NEW t \in Thread, Filling(th[t]), Insert(t),
         UNCHANGED <<writer, readers, rest>>, cacheUpdateLock \in {NULL, t},
         cache[th[t].cls] \in Block,
         Used(cache[th[t].cls]) # DOMAIN heap[cache[th[t].cls]].buckets
  PROVE  MethodsOK'
<1>1. PICK c0 \in CachedClass : c0 = th[t].cls
  BY AddedIs
<1>2. PICK b \in Block : b = cache[c0]
  BY <1>1
<1>3. InUse(b) /\ Caching(b) = {c0} /\ heap[b].kind = "cache" /\ Adding(b) = {}
  BY <1>2, InUseIs DEF InUse, IsCache
<1>4. PICK e \in Entry : e = th[t].entry
  BY AddedIs
<1>5. /\ Others(t) /\ UNCHANGED <<cache, methods, was, writer>> /\ SameMessage(t)
      /\ th'[t].pc = "unlock" /\ th'[t].answer = Imp(e) /\ th'[t].valid = th[t].valid
      /\ \A d \in (Block \cup {_objc_empty_cache}) \ {b} : heap'[d] = heap[d]
      /\ InsertTo(t)
  BY <1>1, <1>2, <1>3, <1>4, InsertIs DEF SameMessage, rest
<1>6. PICK k \in DOMAIN heap[b].buckets : heap'[b].buckets = [heap[b].buckets EXCEPT ![k] = e]
  BY <1>1, <1>2, <1>4, <1>5, Zenon DEF InsertTo
<1>7. Untouched(t, {b})
  BY <1>3, <1>5 DEF Untouched, Held, Dropped, IsForwarder
<1>8. ASSUME NEW a \in EntriesOf(heap', b) PROVE a = e \/ a \in EntriesOf(heap, b)
  <2>1. PICK j \in DOMAIN heap'[b].buckets : a = heap'[b].buckets[j] /\ a # Empty
    BY EntriesOfIs
  <2>2. j \in DOMAIN heap[b].buckets /\ (j = k \/ heap'[b].buckets[j] = heap[b].buckets[j])
    BY <1>6, <2>1
  <2>3. CASE j = k
    BY <1>6, <2>1, <2>3
  <2>4. CASE heap'[b].buckets[j] = heap[b].buckets[j]
    BY <2>1, <2>2, <2>4, EntriesOfIs
  <2> QED BY <2>2, <2>3, <2>4
<1>9. ASSUME NEW d \in Block \cup {_objc_empty_cache}, d # b
      PROVE  EntriesOf(heap', d) = EntriesOf(heap, d)
  <2>1. heap'[d] = heap[d]
    BY <1>5, <1>9
  <2> QED BY <2>1 DEF EntriesOf
<1>10. NameIn(heap', e) = th[t].sel /\ Imp(e) = Resolve(methods, c0, th[t].sel)
  <2>1. IsForward(e) => heap'[e[2]] = heap[e[2]]
    <3> SUFFICES ASSUME IsForward(e) PROVE heap'[e[2]] = heap[e[2]]
      OBVIOUS
    <3>1. PICK d \in Block : d = e[2] /\ Added(d)
      BY <1>4, AddedIs
    <3>2. d # b
      BY <1>3, <3>1 DEF Added, IsForwarder
    <3> QED BY <1>5, <3>1, <3>2
  <2>2. NameIn(heap', e) = NameIn(heap, e)
    BY <2>1, NamesKept
  <2> QED BY <1>1, <1>4, <2>2, AddedIs
<1>11. ASSUME NEW c \in CachedClass, NEW a \in EntriesOf(heap', cache'[c])
       PROVE  Agrees(heap', methods, c, a) \/ a \in EntriesOf(heap, cache[c])
  <2>1. cache'[c] = cache[c] /\ cache[c] \in Block \cup {_objc_empty_cache}
    BY <1>5, CacheOfIs
  <2>2. CASE cache[c] = b
    <3>1. c = c0
      BY <1>3, <2>2 DEF Caching
    <3> QED BY <1>8, <1>10, <1>11, <2>1, <2>2, <3>1 DEF Agrees
  <2>3. CASE cache[c] # b
    BY <1>9, <1>11, <2>1, <2>3
  <2> QED BY <2>2, <2>3
<1>12. ASSUME NEW u \in Thread \ {t}, th[u].pc \in Reading, NEW a \in EntriesOf(heap', th[u].cache)
       PROVE  AnswersWith(th[u], heap', methods, a) \/ a \in EntriesOf(heap, th[u].cache)
  <2>1. /\ th[u].cache \in Block \cup {_objc_empty_cache} /\ th[u].cls \in CachedClass /\ th[u].cur \in CachedClass
        /\ th[u].in # "_cache_getMethod" => th[u].cur = th[u].cls
    BY <1>12, LocalsAre DEF Local, Placed, Reading
  <2>2. CASE th[u].cache = b /\ a = e
    <3>1. b = cache[th[u].cur] \/ Outgrown(b)
      BY <1>12, <2>2 DEF MemoryOK, ThreadOK, ReaderIs
    <3>2. th[u].cur = c0
      BY <1>3, <2>1, <3>1 DEF Outgrown, Caching
    <3>3. Resolve(methods, c0, th[u].sel) \in MayAnswer(th[u], methods)
      <4>1. CASE th[u].in = "objc_msgSend"
        <5>1. th[u].cls = c0 /\ th[u].cls # NULL
          BY <2>1, <3>2, <4>1, MethodCacheAssumption
        <5> QED BY <4>1, <5>1 DEF MayAnswer, MethodsOK, ValidOK
      <4>2. CASE th[u].in # "objc_msgSend"
        <5>1. Resolve(methods, c0, th[u].sel) = Resolve(methods, th[u].cls, th[u].sel)
          BY <1>12, <3>2, <4>2 DEF MethodsOK, AnswerOK
        <5> QED BY <4>2, <5>1 DEF MayAnswer
      <4> QED BY <4>1, <4>2
    <3> QED BY <1>10, <2>2, <3>3 DEF AnswersWith
  <2>3. CASE th[u].cache = b /\ a # e
    BY <1>8, <1>12, <2>3
  <2>4. CASE th[u].cache # b
    BY <1>9, <1>12, <2>1, <2>4
  <2> QED BY <2>2, <2>3, <2>4
<1>13. \A c \in CachedClass : Pending(c) => Pending(c)'
  <2>1. th[t].pc \notin {"flush", "empty"}
    BY DEF Filling, Expanding
  <2> QED BY <1>5, <2>1, PendingKept
<1>14. AnswerOK(th'[t], heap', methods)
  <2>1. th'[t].answer \in th'[t].valid
    BY <1>4, <1>5, AddedIs
  <2> QED BY <1>5, <2>1 DEF AnswerOK, Reading, Filling, Expanding
<1> QED BY <1>5, <1>7, <1>11, <1>12, <1>13, <1>14, MemoryMethods

LEMMA NewCacheMethods ==
  ASSUME Control, MemoryOK, MethodsOK, NEW t \in Thread, Filling(th[t]), Expanded(t),
         NEW f \in Block, NEW n \in Nat \ {0}, NewCache(t, f, n), UNCHANGED <<writer, rest>>
  PROVE  MethodsOK'
<1>1. PICK c0 \in CachedClass : c0 = th[t].cls
  BY AddedIs
<1>2. /\ heap[f] = Free /\ heap'[f] = CacheBlock(n)
      /\ \A d \in (Block \cup {_objc_empty_cache}) \ {f} : heap'[d] = heap[d]
      /\ cache'[c0] = f /\ \A c \in CachedClass \ {c0} : cache'[c] = cache[c]
  BY <1>1, NewCacheIs DEF NewCache
<1>3. IsFree(f) /\ heap[f].kind = "free"
  BY <1>2, PlaceIs DEF Free
<1>4. Untouched(t, {f})
  BY <1>2, <1>3 DEF Untouched, IsFree, Held, Dropped, IsForwarder
<1>5. /\ \A c \in CachedClass : EntriesOf(heap', cache[c]) = EntriesOf(heap, cache[c])
      /\ \A u \in Thread : th[u].pc \in Reading =>
           EntriesOf(heap', th[u].cache) = EntriesOf(heap, th[u].cache)
  BY <1>2, <1>3, EntriesKept
<1>6. EntriesOf(heap', f) = {}
  <2>1. DOMAIN heap'[f].buckets = 0 .. n - 1 /\ \A i \in 0 .. n - 1 : heap'[f].buckets[i] = Empty
    BY <1>2 DEF CacheBlock, Empty
  <2> QED BY <2>1 DEF EntriesOf
<1>7. /\ Others(t) /\ UNCHANGED <<methods, was, writer>> /\ SameMessage(t)
      /\ th'[t].pc \in {"insert", "scan"} /\ th'[t].entry = th[t].entry
      /\ th'[t].cls = c0 /\ th'[t].sel = th[t].sel
  BY <1>1 DEF Expanded, SameMessage, rest
<1>8. \A c \in CachedClass : Pending(c) => Pending(c)' \/ EntriesOf(heap', cache'[c]) = {}
  <2>1. th[t].pc \notin {"flush", "empty"}
    BY DEF Filling, Expanding
  <2> QED BY <1>2, <1>6, <1>7, <2>1, PendingKept
<1>9. \A c \in CachedClass : \A e \in EntriesOf(heap', cache'[c]) : e \in EntriesOf(heap, cache[c])
  BY <1>2, <1>5, <1>6
<1>10. AnswerOK(th'[t], heap', methods)
  <2>1. PICK e \in Entry : e = th[t].entry
    BY AddedIs
  <2>2. IsForward(e) => heap'[e[2]] = heap[e[2]]
    <3> SUFFICES ASSUME IsForward(e) PROVE heap'[e[2]] = heap[e[2]]
      OBVIOUS
    <3>1. PICK d \in Block : d = e[2] /\ Added(d)
      BY <2>1, AddedIs
    <3>2. d # f
      BY <1>3, <3>1 DEF Added, IsForwarder
    <3> QED BY <1>2, <3>1, <3>2
  <2>3. NameIn(heap', e) = NameIn(heap, e)
    BY <2>2, NamesKept
  <2>4. NameIn(heap', e) = th'[t].sel /\ Imp(e) = Resolve(methods, th'[t].cls, th'[t].sel)
    BY <1>1, <1>7, <2>1, <2>3, AddedIs
  <2> QED BY <1>7, <2>1, <2>4 DEF AnswerOK, Reading
<1> QED BY <1>4, <1>5, <1>7, <1>8, <1>9, <1>10, MemoryMethods

LEMMA FillMethods ==
  ASSUME Control, MemoryOK, MethodsOK, NEW t \in Thread, _cache_fill(t)
  PROVE  MethodsOK'
<1>1. /\ th[t].pc = "fill" /\ th[t].cls \in CachedClass /\ Filling(th[t])
      /\ cacheUpdateLock # t /\ UNCHANGED <<writer, readers, rest>> /\ Filled(t)
  BY FilledIs
<1>2. CASE NotAdded(t) /\ UNCHANGED cacheUpdateLock
  BY <1>1, <1>2, NotAddedMethods
<1>3. CASE Insert(t) /\ cacheUpdateLock = NULL /\ cache[th[t].cls] \in Block
           /\ heap[cache[th[t].cls]].occupied + 1 < Size(cache[th[t].cls])
  BY <1>1, <1>3, NoRoomLost, InsertMethods
<1>4. CASE _cache_create(t) /\ cacheUpdateLock = NULL /\ cacheUpdateLock' = t /\ Unused # {}
           /\ cache[th[t].cls] = _objc_empty_cache
  <2>1. INIT_CACHE_SIZE \in Nat \ {0}
    BY MethodCacheAssumption
  <2>2. Expanded(t) /\ \E f \in Block : NewCache(t, f, INIT_CACHE_SIZE)
    BY <1>1, <1>4, CreateIs
  <2> QED BY <1>1, <2>1, <2>2, NewCacheMethods
<1>5. CASE _cache_expand(t) /\ cacheUpdateLock = NULL /\ cacheUpdateLock' = t /\ Unused # {}
           /\ cache[th[t].cls] \in Block
  <2>1. Expanded(t) /\ \E f \in Block : \E n \in Nat \ {0, 1} : NewCache(t, f, n)
    BY <1>1, <1>5, NoRoomLost, ExpandIs DEF ExpandTo
  <2> QED BY <1>1, <2>1, NewCacheMethods
<1> QED BY <1>1, <1>2, <1>3, <1>4, <1>5 DEF Filled

LEMMA FillExpandedMethods ==
  ASSUME Control, MemoryOK, MethodsOK, NEW t \in Thread, FillExpanded(t)
  PROVE  MethodsOK'
BY FillExpandedIs, NoRoomLost, InsertMethods

LEMMA CollectMethods ==
  ASSUME Control, MemoryOK, MethodsOK, NEW t \in Thread, _cache_collect(t)
  PROVE  MethodsOK'
<1>1. /\ Others(t) /\ UNCHANGED <<cache, methods, was, writer>>
      /\ th[t].pc = "scan" /\ th[t].seen = Thread \ {t}
      /\ \A b \in Block \cup {_objc_empty_cache} :
           heap'[b] = IF b \in ToSet(garbage_refs) THEN Free ELSE heap[b]
      /\ \/ th[t].alot /\ th'[t] = Idle
         \/ /\ ~ th[t].alot /\ th'[t].pc = "insert" /\ th'[t].entry = th[t].entry
            /\ th'[t].cls = th[t].cls /\ th'[t].sel = th[t].sel /\ th'[t].valid = th[t].valid
  BY CollectIs DEF rest
<1>2. PICK G : G = ToSet(garbage_refs)
  OBVIOUS
<1>3. \A u \in Thread \ {t} : NoGarbage(th[u])
  BY <1>1 DEF MemoryOK, ThreadOK, SeenOK
<1>4. ASSUME NEW d \in Block, d \in G PROVE ~ Held(d) /\ Adding(d) = {}
  <2>1. PICK j : j \in Garbage(d)
    BY <1>2, <1>4 DEF ToSet, Garbage
  <2> QED BY <2>1, PlaceIs DEF Held, Outgrown, Dropped, IsCache
<1>5. \A d \in (Block \cup {_objc_empty_cache}) \ G : heap'[d] = heap[d]
  BY <1>1, <1>2
<1>6. Untouched(t, G)
  BY <1>3, <1>4, <1>5 DEF Untouched
<1>7. \A c \in CachedClass : EntriesOf(heap', cache'[c]) = EntriesOf(heap, cache[c])
  <2> SUFFICES ASSUME NEW c \in CachedClass PROVE EntriesOf(heap', cache'[c]) = EntriesOf(heap, cache[c])
    OBVIOUS
  <2>1. PICK b : b = cache[c]
    OBVIOUS
  <2>2. heap'[b] = heap[b] /\ cache'[c] = b
    BY <1>1, <1>2, <1>5, <2>1, CacheOfIs
  <2> QED BY <2>1, <2>2 DEF EntriesOf
<1>8. ASSUME NEW u \in Thread \ {t}, th[u].pc \in Reading
      PROVE  EntriesOf(heap', th[u].cache) = EntriesOf(heap, th[u].cache)
  <2>1. PICK b \in Block \cup {_objc_empty_cache} : b = th[u].cache
    BY LocalsAre DEF Local
  <2>2. b \notin G
    BY <1>2, <1>3, <1>8, <2>1 DEF NoGarbage
  <2>3. heap'[b] = heap[b]
    BY <1>5, <2>2
  <2> QED BY <2>1, <2>3 DEF EntriesOf
<1>9. \A c \in CachedClass : Pending(c) => Pending(c)'
  BY <1>1, PendingKept
<1>10. SameMessage(t)
  BY <1>1, IdleIs DEF SameMessage
<1>11. AnswerOK(th'[t], heap', methods)
  <2>1. CASE th'[t] = Idle
    BY <2>1, IdleIs DEF AnswerOK, Reading, Filling, Expanding
  <2>2. CASE /\ ~ th[t].alot /\ th'[t].pc = "insert" /\ th'[t].entry = th[t].entry
             /\ th'[t].cls = th[t].cls /\ th'[t].sel = th[t].sel
    <3>1. Filling(th[t])
      BY <1>1, <2>2, Zenon DEF Filling, Expanding
    <3>2. PICK e \in Entry : e = th[t].entry
      BY <3>1, AddedIs
    <3>3. IsForward(e) => heap'[e[2]] = heap[e[2]]
      <4> SUFFICES ASSUME IsForward(e) PROVE heap'[e[2]] = heap[e[2]]
        OBVIOUS
      <4>1. PICK d \in Block : d = e[2] /\ Adding(d) = {t}
        BY <3>1, <3>2, AddedIs
      <4>2. d \notin G
        BY <1>4, <4>1
      <4> QED BY <1>5, <4>1, <4>2
    <3>4. NameIn(heap', e) = NameIn(heap, e)
      BY <3>3, NamesKept
    <3>5. NameIn(heap', e) = th'[t].sel /\ Imp(e) = Resolve(methods, th'[t].cls, th'[t].sel)
      BY <2>2, <3>1, <3>2, <3>4, AddedIs
    <3> QED BY <2>2, <3>2, <3>5 DEF AnswerOK, Reading
  <2> QED BY <1>1, <2>1, <2>2
<1> QED BY <1>1, <1>6, <1>7, <1>8, <1>9, <1>10, <1>11, MemoryMethods

LEMMA FlushBucketMethods ==
  ASSUME Control, MemoryOK, MethodsOK, NEW t \in Thread, _cache_flush(t)
  PROVE  MethodsOK'
<1>1. /\ Others(t) /\ UNCHANGED <<cache, methods, was, writer>> /\ SameMessage(t)
      /\ th[t].pc = "empty" /\ th'[t].flush = th[t].flush
  BY FlushBucketIs DEF rest, SameMessage
<1>2. PICK b \in Block : /\ th[t].cache = b /\ heap[b].kind = "cache"
                         /\ th[t].index \in DOMAIN heap[b].buckets
                         /\ FlushBucketTo(t, b, th[t].index)
  BY FlushBucketIs
<1>3. PICK i \in DOMAIN heap[b].buckets : i = th[t].index
  BY <1>2
<1>4. /\ heap'[b].buckets = [heap[b].buckets EXCEPT ![i] = Empty]
      /\ \A d \in (Block \cup {_objc_empty_cache}) \ {b} : heap'[d] = heap[d]
      /\ th'[t].pc = (IF i = Mask(heap, b) THEN "flush" ELSE "empty")
      /\ i # Mask(heap, b) => th'[t].cache = b
  BY <1>2, <1>3 DEF FlushBucketTo
<1>5. ~ Held(b) /\ ~ Dropped(b) /\ Adding(b) = {}
  <2>1. PlaceOf(b)
    BY DEF MemoryOK
  <2> QED BY <1>2, <2>1 DEF PlaceOf, IsFree, InUse, Outgrown, IsCache, Held, Added, Dropped, IsForwarder, Free
<1>6. Untouched(t, {b})
  BY <1>4, <1>5 DEF Untouched
<1>7. ASSUME NEW d \in Block \cup {_objc_empty_cache}, NEW a \in EntriesOf(heap', d)
      PROVE  a \in EntriesOf(heap, d)
  <2>1. PICK j \in DOMAIN heap'[d].buckets : a = heap'[d].buckets[j] /\ a # Empty
    BY <1>7, EntriesOfIs
  <2>2. CASE d = b
    <3>1. j \in DOMAIN heap[b].buckets /\ (j = i \/ heap'[b].buckets[j] = heap[b].buckets[j])
      BY <1>4, <2>1, <2>2
    <3>2. j # i
      BY <1>4, <2>1, <2>2, <3>1
    <3> QED BY <2>1, <2>2, <3>1, <3>2, EntriesOfIs
  <2>3. CASE d # b
    <3>1. heap'[d] = heap[d]
      BY <1>4, <2>3
    <3> QED BY <2>1, <3>1, EntriesOfIs
  <2> QED BY <2>2, <2>3
<1>8. i = Mask(heap, b) => EntriesOf(heap', b) = {}
  <2> SUFFICES ASSUME i = Mask(heap, b), NEW a \in EntriesOf(heap', b) PROVE FALSE
    OBVIOUS
  <2>1. PICK j \in DOMAIN heap'[b].buckets : a = heap'[b].buckets[j] /\ a # Empty
    BY EntriesOfIs
  <2>2. PICK n \in Nat \ {0} : n = Size(b) /\ DOMAIN heap[b].buckets = 0 .. n - 1 /\ i = n - 1
    BY <1>2, CacheIs DEF Control, Shape
  <2>3. j \in 0 .. n - 1 /\ (j = i \/ heap'[b].buckets[j] = heap[b].buckets[j])
    BY <1>4, <2>1, <2>2
  <2>4. j # i
    BY <1>4, <2>1, <2>2
  <2>5. \A k \in 0 .. i - 1 : heap[b].buckets[k] = Empty
    BY <1>1, <1>2, <1>3 DEF MemoryOK, ThreadOK, EmptyingIs
  <2>6. j \in 0 .. i - 1
    BY <2>2, <2>3, <2>4
  <2> QED BY <2>1, <2>3, <2>4, <2>5, <2>6
<1>9. ASSUME NEW c \in CachedClass, Pending(c) PROVE Pending(c)' \/ EntriesOf(heap', cache'[c]) = {}
  <2>1. c \in th[t].flush \/ cache[c] = b
    BY <1>1, <1>2, <1>9, OneWriter DEF Pending
  <2>2. CASE c \in th[t].flush
    BY <1>1, <1>4, <2>2 DEF Pending
  <2>3. CASE cache[c] = b /\ i = Mask(heap, b)
    BY <1>1, <1>8, <2>3
  <2>4. CASE cache[c] = b /\ i # Mask(heap, b)
    BY <1>1, <1>4, <2>4 DEF Pending
  <2> QED BY <2>1, <2>2, <2>3, <2>4
<1>10. \A c \in CachedClass : \A a \in EntriesOf(heap', cache'[c]) : a \in EntriesOf(heap, cache[c])
  BY <1>1, <1>7, CacheOfIs
<1>11. \A u \in Thread : \A a \in EntriesOf(heap', th[u].cache) : a \in EntriesOf(heap, th[u].cache)
  BY <1>7, LocalsAre DEF Local
<1>12. AnswerOK(th'[t], heap', methods)
  <2>1. th'[t].pc \in {"flush", "empty"}
    BY <1>4
  <2> QED BY <2>1 DEF AnswerOK, Reading, Filling, Expanding
<1> QED BY <1>1, <1>6, <1>9, <1>10, <1>11, <1>12, MemoryMethods

LEMMA InitMethods ==
  ASSUME Init
  PROVE  MethodsOK
<1>1. Control
  BY InitMemory
<1>2. /\ was = methods /\ \A c \in CachedClass : cache[c] = _objc_empty_cache
      /\ \A t \in Thread : th[t] = Idle
  BY DEF Init
<1>3. EntriesOf(heap, _objc_empty_cache) = {}
  BY <1>1, EmptyCacheIs DEF EntriesOf, Control, Shape
<1>4. \A c \in CachedClass : CacheAgrees(c)
  BY <1>2, <1>3 DEF CacheAgrees
<1>5. ASSUME NEW t \in Thread PROVE ValidOK(th[t], methods, was) /\ AnswerOK(th[t], heap, methods)
  BY <1>2, IdleIs DEF ValidOK, AnswerOK, Reading, Filling, Expanding
<1> QED BY <1>2, <1>4, <1>5 DEF MethodsOK

LEMMA StepMethods ==
  ASSUME Control, MemoryOK, MethodsOK, NEW t \in Thread, Step(t)
  PROVE  MethodsOK'
<1>1. CASE LoadBucket(t) \/ CompareEntry(t)
  BY <1>1, LoadBucketMethods, CompareEntryMethods
<1>2. CASE lockForMethodLookup(t) \/ unlockForMethodLookup(t)
  BY <1>2, LockMethods, UnlockMethods
<1>3. CASE SearchLists(t) \/ _class_resolveMethod(t)
  BY <1>3, SearchListsMethods, ResolveMethodMethods
<1>4. CASE _cache_addForwardEntry(t) \/ _cache_fill(t) \/ FillExpanded(t)
  BY <1>4, AddForwardMethods, FillMethods, FillExpandedMethods
<1>5. CASE _collecting_in_critical(t) \/ _cache_collect(t) \/ CollectALot(t)
  BY <1>5, InCriticalMethods, CollectMethods, CollectALotMethods
<1>6. CASE ResolverAdds(t)
  BY <1>6, ChangingIs, ChangingMethods DEF Changing
<1>7. CASE flush_cache(t) \/ _cache_flush(t) \/ Changed(t)
  BY <1>7, FlushCacheMethods, FlushBucketMethods, ChangedMethods
<1> QED BY <1>1, <1>2, <1>3, <1>4, <1>5, <1>6, <1>7 DEF Step

LEMMA StutterMethods ==
  ASSUME MethodsOK, UNCHANGED vars
  PROVE  MethodsOK'
<1>1. methods' = methods /\ was' = was /\ th' = th /\ heap' = heap /\ cache' = cache /\ writer' = writer
  BY DEF vars
<1>2. ASSUME NEW c \in CachedClass PROVE CacheAgrees(c)'
  BY <1>1 DEF MethodsOK, CacheAgrees, Pending
<1> QED BY <1>1, <1>2 DEF MethodsOK

LEMMA NextMethods ==
  ASSUME Control, MemoryOK, MethodsOK, [Next]_vars
  PROVE  MethodsOK'
<1>1. ASSUME NEW t \in Thread, Changing(t) PROVE MethodsOK'
  BY <1>1, ChangingIs, ChangingMethods
<1>2. \A t \in Changer : t \in Thread
  BY MethodCacheAssumption
<1>3. ASSUME NEW t \in Changer, NEW c \in CachedClass, NEW s \in Sel, class_addMethod(t, c, s)
      PROVE  MethodsOK'
  BY <1>1, <1>2, <1>3 DEF Changing
<1>4. ASSUME NEW t \in Changer, NEW c \in CachedClass, NEW ss \in Additions, remethodizeClass(t, c, ss)
      PROVE  MethodsOK'
  BY <1>1, <1>2, <1>4 DEF Changing
<1>5. ASSUME NEW t \in Changer, NEW c \in CachedClass \cup {NULL}, _objc_flush_caches(t, c)
      PROVE  MethodsOK'
  BY <1>1, <1>2, <1>5 DEF Changing
<1> QED BY <1>3, <1>4, <1>5, StutterMethods, StepMethods, SendMethods, InitializeMethods DEF Next

LEMMA NothingStale ==
  ASSUME Control, MethodsOK
  PROVE  CachesAgree
<1> SUFFICES ASSUME writer = NULL, NEW c \in CachedClass, NEW i \in DOMAIN heap[cache[c]].buckets,
                    heap[cache[c]].buckets[i] # Empty
             PROVE  Resolve(methods, c, Name(heap[cache[c]].buckets[i])) =
                      IF IsForward(heap[cache[c]].buckets[i]) THEN Empty ELSE heap[cache[c]].buckets[i]
  BY DEF CachesAgree
<1>1. PICK e : e = heap[cache[c]].buckets[i]
  OBVIOUS
<1>2. Agrees(heap, methods, c, e)
  BY <1>1, NoneStale, EntriesOfIs
<1>3. Resolve(methods, c, Name(e)) = IF IsForward(e) THEN Empty ELSE e
  BY <1>2 DEF Agrees, Imp, Name, NameIn
<1> QED BY <1>1, <1>3

LEMMA AnswersRight ==
  ASSUME Control, MethodsOK
  PROVE  AnswersAreCurrent
<1> SUFFICES ASSUME NEW t \in Thread
             PROVE  /\ th[t].pc = "unlock" => th[t].answer \in th[t].valid
                    /\ th[t].pc = "entry" /\ Name(th[t].entry) = th[t].sel =>
                         Imp(th[t].entry) \in th[t].valid
  BY DEF AnswersAreCurrent
<1>1. AnswerOK(th[t], heap, methods) /\ ValidOK(th[t], methods, was)
  BY DEF MethodsOK
<1>2. ASSUME th[t].pc = "entry", NEW e, e = th[t].entry, Name(e) = th[t].sel
      PROVE  Imp(e) \in th[t].valid
  <2>1. th[t].cls # NULL
    BY <1>2, LocalsAre, MethodCacheAssumption DEF Placed
  <2>2. Imp(e) \in MayAnswer(th[t], methods)
    BY <1>1, <1>2 DEF AnswerOK, AnswersWith, Name, NameIn
  <2> QED BY <1>1, <2>1, <2>2 DEF MayAnswer, ValidOK
<1> QED BY <1>1, <1>2 DEF AnswerOK

\* However lookups, additions, fills and flushes interleave: when no method is being
\* added, what a cache has is what the method lists say; and a message is answered by a
\* method that was the right one at some moment since it was sent.
THEOREM MethodsStayCurrent == Spec => []MethodsAreCurrent
<1>1. Init => MethodsOK
  BY InitMethods
<1>2. Control /\ MemoryOK /\ MethodsOK /\ [Next]_vars => MethodsOK'
  BY NextMethods
<1>3. Control /\ MethodsOK => MethodsAreCurrent
  BY NothingStale, AnswersRight DEF MethodsAreCurrent
<1> QED BY <1>1, <1>2, <1>3, MemoryHolds, PTL DEF Spec
=============================================================================
