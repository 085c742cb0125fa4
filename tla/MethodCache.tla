----------------------------- MODULE MethodCache -----------------------------
(***************************************************************************)
(* Method lookup and the method caches: objc_msgSend and its companions    *)
(* (objc-msg-arm.S), lookUpMethod (objc-class.mm), _cache_fill, flushing   *)
(* and the collection of cache memory (objc-cache.mm), and the functions   *)
(* of objc-runtime-new.mm that add methods.                                *)
(*                                                                         *)
(* A messenger reads a class's cache without a lock.  On a miss,           *)
(* lookUpMethod searches the method lists with runtimeLock held for        *)
(* reading and fills the cache under cacheUpdateLock.  Whoever adds a      *)
(* method holds runtimeLock for writing and then empties the caches of the *)
(* class and of its subclasses.  Memory that a messenger may still be      *)
(* reading, an outgrown cache or a forward entry, goes to a list of        *)
(* garbage and is freed when no thread is found inside of a messenger.     *)
(*                                                                         *)
(* Methods are versions: a category puts a newer one before the older.     *)
(***************************************************************************)
EXTENDS Integers, Sequences, FiniteSets, SequencesExt

CONSTANTS
    Thread,
    Changer,            \* the threads that add methods and flush
    CachedClass,        \* the classes, each with a cache
    Super,              \* the superclass of a class, NULL for a root
    Sel, Hash,          \* CACHE_HASH before it is masked
    Methods0,           \* the selectors each class's method list starts with
    Additions,          \* the sets of selectors that categories have methods for
    Initialized0,       \* the classes that start initialized
    NULL,
    INIT_CACHE_SIZE,    \* a power of two; 4 in the code
    garbage_threshold,  \* in words; 8192 in the code
    CanSeeThreads,      \* program counters are read at all: FALSE on Android
    Blocks,             \* bound: memory blocks
    Calls, Changes      \* bounds: messages, and additions or flushes, in all

ASSUME MethodCacheAssumption ==
    /\ Changer \subseteq Thread
    /\ Super \in [CachedClass -> CachedClass \cup {NULL}] /\ NULL \notin CachedClass \cup Thread
    /\ \A S \in SUBSET CachedClass : S # {} => \E c \in S : Super[c] \notin S    \* no cycles
    /\ Hash \in [Sel -> Nat]
    /\ Methods0 \in [CachedClass -> SUBSET Sel] /\ Initialized0 \subseteq CachedClass
    /\ Additions \subseteq SUBSET Sel
    /\ INIT_CACHE_SIZE \in Nat \ {0, 1} /\ garbage_threshold \in Nat
    /\ CanSeeThreads \in BOOLEAN
    /\ {Blocks, Calls, Changes} \subseteq Nat

VARIABLES
    methods,            \* method lists: the newest version of a class's own method, or 0
    was,                \* history: the lists before the change in progress
    cache,              \* class_t.cache, a block
    heap,               \* what is in each block
    garbage_refs, garbage_byte_size,
    initialized,        \* the classes whose +initialize is done
    writer, readers,    \* runtimeLock
    cacheUpdateLock,
    th,                 \* where each thread is, and its local variables
    calls, changes      \* calls and changes left

vars == <<methods, was, cache, heap, garbage_refs, garbage_byte_size, initialized,
          writer, readers, cacheUpdateLock, th, calls, changes>>
memory == <<cache, heap, garbage_refs, garbage_byte_size>>
locks == <<writer, readers, cacheUpdateLock>>
rest == <<methods, was, initialized, calls, changes>>

(***************************************************************************)
(* Memory.  A cache entry is a method_t, which is never freed here, or a   *)
(* forward entry, a block of its own.                                      *)
(***************************************************************************)
Free == [kind |-> "free"]
ForwardEntry(s) == [kind |-> "forward", sel |-> s]
CacheBlock(size) == [kind |-> "cache", occupied |-> 0, buckets |-> [i \in 0..size - 1 |-> <<>>]]

MethodOf(c, s, v) == <<"method", c, s, v>>
ForwardIn(b) == <<"forward", b>>
Empty == <<>>
IsForward(e) == Len(e) = 2

_objc_empty_cache == 0
Block == 1..Blocks
Mask(h, b) == Cardinality(DOMAIN h[b].buckets) - 1
Name(e) == IF IsForward(e) THEN heap[e[2]].sel ELSE e[3]

Unused == {b \in Block : heap[b] = Free}
Fresh == CHOOSE b \in Unused : \A d \in Unused : b <= d

(***************************************************************************)
(* Classes and their method lists.                                         *)
(***************************************************************************)
\* The class, its superclass, that one's superclass, ...
Line[c \in CachedClass] == {c} \cup (IF Super[c] = NULL THEN {} ELSE Line[Super[c]])

\* The class and its subclasses: what flushCaches visits
WithSubclasses(c) == {d \in CachedClass : c \in Line[d]}

\* The method that the lists m give class c for selector s: the nearest class's
Resolve(m, c, s) ==
    LET having == {d \in Line[c] : m[d][s] # 0}
        nearest == CHOOSE d \in having : having \subseteq Line[d]
    IN IF having = {} THEN Empty ELSE MethodOf(nearest, s, m[nearest][s])

Idle == [pc |-> "idle", cls |-> NULL, sel |-> NULL, in |-> "objc_msgSend", cur |-> NULL,
         cache |-> 0, index |-> 0, entry |-> Empty, tried |-> FALSE,
         flush |-> {}, seen |-> {}, alot |-> FALSE, back |-> "idle",
         valid |-> {}, answer |-> Empty]

Init ==
    /\ methods = [c \in CachedClass |-> [s \in Sel |-> IF s \in Methods0[c] THEN 1 ELSE 0]]
    /\ was = methods
    /\ cache = [c \in CachedClass |-> _objc_empty_cache]
    /\ heap = [b \in Block \cup {_objc_empty_cache} |->
                 IF b = _objc_empty_cache THEN CacheBlock(1) ELSE Free]
    /\ garbage_refs = <<>> /\ garbage_byte_size = 0
    /\ initialized = Initialized0
    /\ writer = NULL /\ readers = {} /\ cacheUpdateLock = NULL
    /\ th = [t \in Thread |-> Idle]
    /\ calls = Calls /\ changes = Changes

Set(t, r) == th' = [th EXCEPT ![t] = r]
Goto(t, label) == Set(t, [th[t] EXCEPT !.pc = label])

(***************************************************************************)
(* CacheLookup, in objc_msgSend, _cache_getImp and _cache_getMethod: load  *)
(* the cache, then bucket after bucket, and look at each entry.  The step  *)
(* that enters the function loads the cache: before that the thread uses   *)
(* no memory that could be freed.                                          *)
(***************************************************************************)
Searching(me, in, c) == [me EXCEPT !.pc = "bucket", !.in = in, !.cur = c,
                                   !.cache = cache[c], !.index = Hash[me.sel]]

objc_msgSend(t, c, s) ==
    /\ th[t].pc = "idle" /\ calls > 0
    /\ calls' = calls - 1
    /\ LET me == [Idle EXCEPT !.cls = c, !.sel = s,
                              !.valid = {Resolve(methods, c, s), Resolve(was, c, s)}]
       IN Set(t, Searching(me, "objc_msgSend", c))
    /\ UNCHANGED <<methods, was, initialized, changes, memory, locks>>

\* Where a miss leads
Miss(t) == [th[t] EXCEPT !.pc = IF th[t].in = "objc_msgSend" THEN "read" ELSE "lists",
                        !.cache = 0, !.index = 0]

LoadBucket(t) ==
    /\ th[t].pc = "bucket"
    /\ LET b == th[t].cache
           i == th[t].index % (Mask(heap, b) + 1)
           e == heap[b].buckets[i]
       IN Set(t, IF e = Empty THEN Miss(t)
                 ELSE [th[t] EXCEPT !.pc = "entry", !.entry = e, !.index = i + 1])
    /\ UNCHANGED <<memory, locks, rest>>

\* What an entry answers: its method, or the forwarder
Imp(e) == IF IsForward(e) THEN Empty ELSE e

\* lookUpMethod is done
Answered(t, answer) == [Idle EXCEPT !.pc = "unlock", !.answer = answer, !.valid = th[t].valid]

NotFound(t) == [th[t] EXCEPT !.pc = IF th[t].tried THEN "forward" ELSE "resolve",
                             !.entry = Empty, !.cache = 0, !.index = 0]

CompareEntry(t) ==
    /\ th[t].pc = "entry"
    /\ LET e == th[t].entry
       IN Set(t, IF Name(e) # th[t].sel THEN [th[t] EXCEPT !.pc = "bucket", !.entry = Empty]
                 ELSE IF th[t].in = "objc_msgSend" THEN Idle
                 ELSE IF th[t].in = "_cache_getImp" THEN Answered(t, Imp(e))
                 ELSE IF IsForward(e) THEN NotFound(t)      \* (Method)1
                 ELSE [th[t] EXCEPT !.pc = "fill", !.cache = 0, !.index = 0])
    /\ UNCHANGED <<memory, locks, rest>>

(***************************************************************************)
(* lookUpMethod.                                                           *)
(***************************************************************************)
\* The class's superclasses are initialized before it
_class_initialize(c) ==
    /\ c \notin initialized /\ Super[c] \in initialized \cup {NULL}
    /\ initialized' = initialized \cup {c}
    /\ UNCHANGED <<methods, was, calls, changes, memory, locks, th>>

\* Mutant: the lists are searched and the cache is filled without the lock
LookupWithoutLock(t) ==
    /\ th[t].pc = "read"
    /\ Set(t, Searching(th[t], "_cache_getImp", th[t].cls))
    /\ UNCHANGED <<memory, locks, rest>>

\* After prepareForMethodLookup: the class is initialized now, or this thread is
\* in its +initialize
lockForMethodLookup(t) ==
    /\ th[t].pc = "read" /\ writer = NULL
    /\ readers' = readers \cup {t}
    /\ Set(t, Searching(th[t], "_cache_getImp", th[t].cls))
    /\ UNCHANGED <<writer, cacheUpdateLock, memory, rest>>

unlockForMethodLookup(t) ==
    /\ th[t].pc = "unlock"
    /\ readers' = readers \ {t}
    /\ Set(t, Idle)
    /\ UNCHANGED <<writer, cacheUpdateLock, memory, rest>>

SearchLists(t) ==
    /\ th[t].pc = "lists"
    /\ LET c == th[t].cur
           v == methods[c][th[t].sel]
           m == MethodOf(c, th[t].sel, v)
       IN Set(t, IF v # 0 THEN [th[t] EXCEPT !.pc = "fill", !.entry = m]
                 ELSE IF Super[c] = NULL THEN NotFound(t)
                 ELSE Searching(th[t], "_cache_getMethod", Super[c]))
    /\ UNCHANGED <<memory, locks, rest>>

\* +resolveInstanceMethod: does nothing, or adds the method
_class_resolveMethod(t) ==
    /\ th[t].pc = "resolve"
    /\ readers' = readers \ {t}
    /\ \/ Set(t, [th[t] EXCEPT !.pc = "read", !.tried = TRUE]) /\ changes' = changes
       \/ /\ changes > 0 /\ changes' = changes - 1
          /\ Set(t, [th[t] EXCEPT !.pc = "write", !.tried = TRUE, !.in = "addMethod",
                               !.cur = th[t].cls, !.seen = {th[t].sel}, !.back = "read"])
    /\ UNCHANGED <<methods, was, initialized, calls, writer, cacheUpdateLock, memory>>

(***************************************************************************)
(* Filling a cache.                                                        *)
(***************************************************************************)
_cache_addForwardEntry(t) ==
    /\ th[t].pc = "forward" /\ Unused # {}
    /\ heap' = [heap EXCEPT ![Fresh] = ForwardEntry(th[t].sel)]
    /\ Set(t, [th[t] EXCEPT !.pc = "fill", !.entry = ForwardIn(Fresh)])
    /\ UNCHANGED <<cache, garbage_refs, garbage_byte_size, locks, rest>>

\* The entry is not added: a forward entry is not needed then
NotAdded(t) ==
    /\ heap' = IF IsForward(th[t].entry) THEN [heap EXCEPT ![th[t].entry[2]] = Free] ELSE heap
    /\ Set(t, Answered(t, Imp(th[t].entry)))
    /\ UNCHANGED <<cache, garbage_refs, garbage_byte_size>>

\* The buckets of a cache that could not be empty have room for one more
Room(h, b) == (h[b].occupied + 1) * 4 <= (Mask(h, b) + 1) * 3

IsCached(c, s) == \E i \in DOMAIN heap[cache[c]].buckets :
    LET e == heap[cache[c]].buckets[i] IN e # Empty /\ Name(e) = s

\* The cache in b with entry e for selector s in the first unused slot
Inserted(b, e, s) ==
    LET size == Mask(heap, b) + 1
        Slot(k) == (Hash[s] + k) % size
        first == CHOOSE k \in 0..size - 1 :
            /\ heap[b].buckets[Slot(k)] = Empty
            /\ \A j \in 0..k - 1 : heap[b].buckets[Slot(j)] # Empty
    IN [heap[b] EXCEPT !.occupied = @ + 1, !.buckets[Slot(first)] = e]

Insert(t) ==
    LET b == cache[th[t].cls]
    IN /\ heap' = [heap EXCEPT ![b] = Inserted(b, th[t].entry, th[t].sel)]
       /\ cacheUpdateLock' = NULL
       /\ Set(t, Answered(t, Imp(th[t].entry)))
       /\ UNCHANGED <<cache, garbage_refs, garbage_byte_size>>

_cache_create(t) ==
    /\ heap' = [heap EXCEPT ![Fresh] = CacheBlock(INIT_CACHE_SIZE)]
    /\ cache' = [cache EXCEPT ![th[t].cls] = Fresh]
    /\ Goto(t, "insert")
    /\ UNCHANGED <<garbage_refs, garbage_byte_size>>

\* The blocks of the forward entries among the buckets; they are freed together
ForwardEntries(buckets) ==
    LET at == SetToSeq({i \in DOMAIN buckets : IsForward(buckets[i])})
    IN [k \in DOMAIN at |-> buckets[at[k]][2]]

\* Words charged for a forward entry
EntrySize == 3

\* The cache doubles; _class_shouldGrowCache is always YES
_cache_expand(t) ==
    LET old == cache[th[t].cls]
        forwards == ForwardEntries(heap[old].buckets)
    IN IF old = _objc_empty_cache THEN _cache_create(t)
       ELSE /\ heap' = [heap EXCEPT ![Fresh] = CacheBlock(2 * (Mask(heap, old) + 1))]
            /\ cache' = [cache EXCEPT ![th[t].cls] = Fresh]
            /\ garbage_refs' = garbage_refs \o forwards \o <<old>>
            /\ garbage_byte_size' =
                    garbage_byte_size + EntrySize * Len(forwards) + Mask(heap, old)
            /\ IF garbage_byte_size' < garbage_threshold THEN Goto(t, "insert")
               ELSE Set(t, [th[t] EXCEPT !.pc = "scan", !.seen = {}])

\* Never before +initialize is done, and then under cacheUpdateLock, which
\* only an expansion keeps for more than a step
_cache_fill(t) ==
    /\ th[t].pc = "fill"
    /\ UNCHANGED <<writer, readers, rest>>
    /\ \/ /\ th[t].cls \notin initialized
          /\ NotAdded(t) /\ UNCHANGED cacheUpdateLock
       \/ /\ th[t].cls \in initialized /\ cacheUpdateLock = NULL
          /\ IsCached(th[t].cls, th[t].sel)
          /\ NotAdded(t) /\ UNCHANGED cacheUpdateLock
       \/ /\ th[t].cls \in initialized /\ cacheUpdateLock = NULL
          /\ ~IsCached(th[t].cls, th[t].sel) /\ Room(heap, cache[th[t].cls])
          /\ Insert(t)
       \/ /\ th[t].cls \in initialized /\ cacheUpdateLock = NULL
          /\ ~IsCached(th[t].cls, th[t].sel) /\ ~Room(heap, cache[th[t].cls])
          /\ Unused # {}
          /\ _cache_expand(t) /\ cacheUpdateLock' = t

\* The end of _cache_fill after an expansion
FillExpanded(t) ==
    /\ th[t].pc = "insert"
    /\ Insert(t)
    /\ UNCHANGED <<writer, readers, rest>>

(***************************************************************************)
(* Collecting: every other thread's program counter is read once.  A read  *)
(* may fail, and then the thread counts as inside of a messenger; on       *)
(* Android nothing is read, and the answer is always that some thread is.  *)
(***************************************************************************)
\* Mutant: no thread is taken for a reader
NoneInMessenger(u) == FALSE

InMessenger(u) == th[u].pc \in {"bucket", "entry"}

_collecting_in_critical(t) ==
    /\ th[t].pc = "scan"
    /\ \/ \E u \in Thread \ ({t} \cup th[t].seen) :
            /\ CanSeeThreads /\ ~InMessenger(u)
            /\ Set(t, [th[t] EXCEPT !.seen = @ \cup {u}])
       \/ /\ CanSeeThreads => th[t].seen # Thread \ {t}    \* "assume the worse"
          /\ IF th[t].alot THEN Set(t, [th[t] EXCEPT !.seen = {}])   \* "No excuses."
             ELSE Goto(t, "insert")
    /\ UNCHANGED <<memory, locks, rest>>

_cache_collect(t) ==
    /\ th[t].pc = "scan" /\ CanSeeThreads /\ th[t].seen = Thread \ {t}
    /\ heap' = [b \in DOMAIN heap |-> IF b \in ToSet(garbage_refs) THEN Free ELSE heap[b]]
    /\ garbage_refs' = <<>> /\ garbage_byte_size' = 0
    /\ IF th[t].alot THEN cacheUpdateLock' = NULL /\ Set(t, Idle)
       ELSE cacheUpdateLock' = cacheUpdateLock /\ Goto(t, "insert")
    /\ UNCHANGED <<cache, writer, readers, rest>>

CollectALot(t) ==
    /\ th[t].pc = "collect" /\ cacheUpdateLock = NULL
    /\ cacheUpdateLock' = t
    /\ Set(t, [th[t] EXCEPT !.pc = "scan", !.seen = {}, !.alot = TRUE])
    /\ UNCHANGED <<writer, readers, memory, rest>>

(***************************************************************************)
(* Adding methods and flushing.                                            *)
(***************************************************************************)
Change == changes > 0 /\ changes' = changes - 1

\* addMethod leaves a method that the class has; a category hides it
NewMethods(me) ==
    LET Adds(c, s) == /\ c = me.cur /\ s \in me.seen
                      /\ methods[c][s] = 0 \/ me.in = "remethodizeClass"
    IN [c \in CachedClass |-> [s \in Sel |-> IF Adds(c, s) THEN methods[c][s] + 1 ELSE methods[c][s]]]

\* The caches flushCaches visits; none when addMethod added nothing
ToFlush(me) ==
    IF me.in = "addMethod" /\ NewMethods(me) = methods THEN {}
    ELSE IF me.cur = NULL THEN CachedClass ELSE WithSubclasses(me.cur)

\* Under runtimeLock, thread t with the local variables me changes the lists.
\* A message under way may be answered by the old lists or by the new.
ChangeLists(t, me) ==
    /\ writer = NULL /\ readers = {} /\ writer' = t
    /\ methods' = NewMethods(me)
    /\ was' = methods
    /\ LET Right(l) == IF l.cls = NULL THEN l.valid
                       ELSE l.valid \cup {Resolve(NewMethods(me), l.cls, l.sel)}
       IN th' = [u \in Thread |->
                  IF u # t THEN [th[u] EXCEPT !.valid = Right(th[u])]
                  ELSE [me EXCEPT !.pc = "flush", !.flush = ToFlush(me), !.seen = {},
                                  !.valid = Right(me)]]
    /\ UNCHANGED <<initialized, calls, memory, readers, cacheUpdateLock>>

class_addMethod(t, c, s) ==
    /\ th[t].pc = "idle" /\ Change
    /\ ChangeLists(t, [Idle EXCEPT !.in = "addMethod", !.cur = c, !.seen = {s}])

\* The addition that a resolver asked for
ResolverAdds(t) ==
    /\ th[t].pc = "write" /\ UNCHANGED changes
    /\ ChangeLists(t, th[t])

\* A category with methods for the selectors ss is attached
remethodizeClass(t, c, ss) ==
    /\ th[t].pc = "idle" /\ Change
    /\ ChangeLists(t, [Idle EXCEPT !.in = "remethodizeClass", !.cur = c, !.seen = ss])

\* c = NULL for all classes
_objc_flush_caches(t, c) ==
    /\ th[t].pc = "idle" /\ Change
    /\ ChangeLists(t, [Idle EXCEPT !.in = "flush_caches", !.cur = c,
                                   !.back = IF c = NULL THEN "collect" ELSE "idle"])

flush_cache(t) ==
    /\ th[t].pc = "flush" /\ cacheUpdateLock = NULL
    /\ \E c \in th[t].flush :
        IF cache[c] = _objc_empty_cache
        THEN Set(t, [th[t] EXCEPT !.flush = @ \ {c}]) /\ cacheUpdateLock' = NULL
        ELSE /\ Set(t, [th[t] EXCEPT !.pc = "empty", !.cache = cache[c], !.index = 0,
                                     !.flush = @ \ {c}])
             /\ cacheUpdateLock' = t
    /\ UNCHANGED <<writer, readers, memory, rest>>

\* One bucket after another is emptied
_cache_flush(t) ==
    /\ th[t].pc = "empty"
    /\ LET b == th[t].cache
           e == heap[b].buckets[th[t].index]
           last == th[t].index = Mask(heap, b)
       IN /\ heap' = [heap EXCEPT ![b].buckets[th[t].index] = Empty,
                                  ![b].occupied = IF last THEN 0 ELSE @]
          /\ garbage_refs' = IF IsForward(e) THEN Append(garbage_refs, e[2]) ELSE garbage_refs
          /\ garbage_byte_size' = garbage_byte_size + (IF IsForward(e) THEN EntrySize ELSE 0)
          /\ cacheUpdateLock' = IF last THEN NULL ELSE t
          /\ Set(t, IF last THEN [th[t] EXCEPT !.pc = "flush", !.cache = 0, !.index = 0]
                    ELSE [th[t] EXCEPT !.index = @ + 1])
    /\ UNCHANGED <<cache, writer, readers, rest>>

Changed(t) ==
    /\ th[t].pc = "flush" /\ th[t].flush = {}
    /\ writer' = NULL
    /\ was' = methods
    /\ Set(t, IF th[t].back = "idle" THEN Idle ELSE [th[t] EXCEPT !.pc = th[t].back, !.back = "idle"])
    /\ UNCHANGED <<methods, initialized, calls, changes, memory, readers, cacheUpdateLock>>

Step(t) ==
    \/ LoadBucket(t) \/ CompareEntry(t)
    \/ lockForMethodLookup(t) \/ unlockForMethodLookup(t)
    \/ SearchLists(t) \/ _class_resolveMethod(t)
    \/ _cache_addForwardEntry(t) \/ _cache_fill(t) \/ FillExpanded(t)
    \/ _collecting_in_critical(t) \/ _cache_collect(t) \/ CollectALot(t)
    \/ ResolverAdds(t) \/ flush_cache(t) \/ _cache_flush(t) \/ Changed(t)

Next ==
    \/ \E t \in Thread : Step(t)
    \/ \E t \in Thread, c \in CachedClass, s \in Sel : objc_msgSend(t, c, s)
    \/ \E t \in Changer, c \in CachedClass, s \in Sel : class_addMethod(t, c, s)
    \/ \E t \in Changer, c \in CachedClass, ss \in Additions : remethodizeClass(t, c, ss)
    \/ \E t \in Changer, c \in CachedClass \cup {NULL} : _objc_flush_caches(t, c)
    \/ \E c \in CachedClass : _class_initialize(c)

Spec == Init /\ [][Next]_vars
FairSpec == Spec /\ \A t \in Thread : WF_vars(Step(t))

-----------------------------------------------------------------------------
TypeOK ==
    /\ methods \in [CachedClass -> [Sel -> Nat]] /\ was \in [CachedClass -> [Sel -> Nat]]
    /\ cache \in [CachedClass -> Block \cup {_objc_empty_cache}]
    /\ \A b \in Block : heap[b].kind \in {"free", "cache", "forward"}
    /\ heap[_objc_empty_cache] = CacheBlock(1)
    /\ ToSet(garbage_refs) \subseteq Block /\ garbage_byte_size \in Nat
    /\ initialized \subseteq CachedClass
    /\ writer \in Thread \cup {NULL} /\ readers \subseteq Thread
    /\ cacheUpdateLock \in Thread \cup {NULL}
    /\ calls \in 0..Calls /\ changes \in 0..Changes
    /\ writer # NULL => readers = {}

\* The messenger and the other functions that read a cache without a lock
\* never hold a block that has been freed: the collector finds them.
NoUseAfterFree ==
    \A t \in Thread :
        /\ th[t].pc \in {"bucket", "entry"} => heap[th[t].cache].kind = "cache"
        /\ th[t].pc = "entry" /\ IsForward(th[t].entry) =>
                heap[th[t].entry[2]].kind = "forward"

\* When no method is being added, every cache agrees with the method lists,
\* however lookups, fills and flushes were interleaved.
CachesAgree ==
    writer = NULL => \A c \in CachedClass :
        LET buckets == heap[cache[c]].buckets
        IN \A i \in DOMAIN buckets : buckets[i] # Empty =>
                Resolve(methods, c, Name(buckets[i])) =
                    (IF IsForward(buckets[i]) THEN Empty ELSE buckets[i])

\* A message is answered by a method that was the right one at some moment
\* since it was sent, by a messenger as by lookUpMethod.
AnswersAreCurrent ==
    \A t \in Thread :
        /\ th[t].pc = "unlock" => th[t].answer \in th[t].valid
        /\ th[t].pc = "entry" /\ Name(th[t].entry) = th[t].sel => Imp(th[t].entry) \in th[t].valid

\* "There is guaranteed to be an empty slot": in every cache a reader may be
\* searching, so its search ends; and occupied, which that rests on, counts
\* the entries of each cache nobody is changing.
EmptySlot ==
    \A b \in DOMAIN heap : heap[b].kind = "cache" =>
        LET used == {i \in DOMAIN heap[b].buckets : heap[b].buckets[i] # Empty}
        IN /\ used # DOMAIN heap[b].buckets
           /\ cacheUpdateLock = NULL => heap[b].occupied = Cardinality(used)

\* Where block b is: the cache of these classes, the forward entry in these buckets
\* of their caches, the one these threads are about to add, these pieces of garbage.
Caching(b) == {c \in CachedClass : cache[c] = b}
Holding(b) == UNION {{c} \X {i \in DOMAIN heap[cache[c]].buckets :
                                heap[cache[c]].buckets[i] = ForwardIn(b)} : c \in CachedClass}
Adding(b) == {t \in Thread : th[t].pc \in {"fill", "scan", "insert"}
                             /\ th[t].entry = ForwardIn(b)}
Garbage(b) == {i \in DOMAIN garbage_refs : garbage_refs[i] = b}

\* Every block is free, or in one of these places and only one: nothing leaks and
\* nothing is freed twice.
OnePlace ==
    \A b \in Block :
        Cardinality(Caching(b)) + Cardinality(Holding(b)) + Cardinality(Adding(b))
          + Cardinality(Garbage(b)) = IF heap[b] = Free THEN 0 ELSE 1

\* Nothing stale is kept and nothing stale is answered.
MethodsAreCurrent == CachesAgree /\ AnswersAreCurrent

\* Every message is answered and every change returns, as "returns FALSE when all
\* threads are found to be outside objc_msgSend" promises of the function that a
\* flush of all caches waits for.
CallsReturn == \A t \in Thread : th[t].pc # "idle" ~> th[t].pc = "idle"

\* Every search of a cache ends, every block of memory has one owner, and none is
\* freed while a reader holds it.
CachesConsistent == TypeOK /\ EmptySlot /\ OnePlace /\ NoUseAfterFree
=============================================================================
