---------------------------- MODULE CacheAllocator ----------------------------
(***************************************************************************)
(* The allocator of objc-cache.mm for the larger method caches.  Its       *)
(* blocks carry no header of their own: a block in use begins with the     *)
(* cache's mask, from which the size of the block is worked out again when *)
(* it is freed, and a free one with its size.  So everything depends on    *)
(* the same size coming out both times, on the free list being in the      *)
(* order of addresses, and on its being coalesced at every free.           *)
(*                                                                         *)
(* Sizes are in words.  Every call is made with cacheUpdateLock held, so a *)
(* call is one step.                                                       *)
(***************************************************************************)
EXTENDS Integers, FiniteSets, SequencesExt, FiniteSetsExt

CONSTANTS
    SlotCount,              \* the numbers of slots of the caches asked for, powers
                            \* of two in the code
    CACHE_ALLOCATOR_MIN,    \* 128 in the code (512 bytes)
    CACHE_REGION_QUANTA,    \* CACHE_REGION_SIZE over CACHE_QUANTUM, 252
    MaxRegions              \* bound

ASSUME CacheAllocatorAssumption ==
    /\ SlotCount \subseteq Nat \ {0}
    /\ CACHE_ALLOCATOR_MIN \in Nat /\ CACHE_REGION_QUANTA \in Nat \ {0}
    /\ MaxRegions \in Nat

VARIABLES
    regions,    \* sequence of regions: size, freeList of [at, size]
    live        \* the blocks in use: region, at, mask and, for the properties,
                \* the number of slots the cache was asked to have

allocatorVars == <<regions, live>>

AllocatorInit == regions = <<>> /\ live = {}

\* sizeof(struct objc_cache), which holds one entry.
objc_cache == 3

\* The size _cache_malloc asks for.
Requested(slotCount) == objc_cache + slotCount - 1

CACHE_QUANTUM == CACHE_ALLOCATOR_MIN + objc_cache - 1

CACHE_REGION_SIZE == CACHE_REGION_QUANTA * CACHE_QUANTUM

mask_for_size(size) == size - objc_cache

size_for_mask(mask) ==
    ((objc_cache + mask + CACHE_QUANTUM - 1) \div CACHE_QUANTUM) * CACHE_QUANTUM

\* A new region, one free block.
add_region(size) ==
    LET whole == size + CACHE_QUANTUM - (size % CACHE_QUANTUM)
        all == IF whole < CACHE_REGION_SIZE THEN CACHE_REGION_SIZE ELSE whole
    IN  [size |-> all, freeList |-> <<[at |-> 0, size |-> all]>>]

\* The blocks of a free list that are large enough.
Enough(list, size) == {i \in DOMAIN list : list[i].size >= size}

\* The list without the first "size" words of its block i; a rest too small for
\* any cache goes with them.
Sliced(list, i, size) ==
    IF list[i].size - size >= CACHE_QUANTUM
    THEN [list EXCEPT ![i] = [at |-> @.at + size, size |-> @.size - size]]
    ELSE RemoveAt(list, i)

\* From the first block of region r that is large enough.
Allocate(rs, r, slotCount) ==
    LET mask == mask_for_size(Requested(slotCount))
        size == size_for_mask(mask)
        list == rs[r].freeList
        i == Min(Enough(list, size))
    IN  /\ regions' = [rs EXCEPT ![r].freeList = Sliced(list, i, size)]
        /\ live' = live \cup {[region |-> r, at |-> list[i].at,
                               mask |-> mask, slots |-> slotCount]}

\* Smaller caches are from malloc.
cache_allocator_calloc(slotCount) ==
    /\ Requested(slotCount) >= CACHE_ALLOCATOR_MIN
    /\ LET size == size_for_mask(mask_for_size(Requested(slotCount)))
           fit == {r \in DOMAIN regions : Enough(regions[r].freeList, size) # {}}
       IN  IF fit # {} THEN Allocate(regions, Min(fit), slotCount)
           ELSE /\ Len(regions) < MaxRegions
                /\ Allocate(Append(regions, add_region(Requested(slotCount))),
                            Len(regions) + 1, slotCount)

\* Block i and the one after it as one where they touch.
coalesce(list, i) ==
    IF i < Len(list) /\ list[i].at + list[i].size = list[i + 1].at
    THEN RemoveAt([list EXCEPT ![i].size = @ + list[i + 1].size], i + 1)
    ELSE list

\* Mutant: only the block after the dead one is coalesced with it.
CoalescedAhead(list, i) == coalesce(list, i)

\* The dead block i with both its neighbours.
Coalesced(list, i) ==
    IF i = 1 THEN coalesce(list, i) ELSE coalesce(coalesce(list, i), i - 1)

cache_allocator_free(b) ==
    LET list == regions[b.region].freeList
        dead == [at |-> b.at, size |-> size_for_mask(b.mask)]
        i == 1 + Cardinality({j \in DOMAIN list : list[j].at < b.at})
    IN  /\ regions' = [regions EXCEPT ![b.region].freeList =
                            Coalesced(InsertAt(list, i, dead), i)]
        /\ live' = live \ {b}

AllocatorNext ==
    \/ \E n \in SlotCount : cache_allocator_calloc(n)
    \/ \E b \in live : cache_allocator_free(b)

AllocatorSpec == AllocatorInit /\ [][AllocatorNext]_allocatorVars

-----------------------------------------------------------------------------

\* The words of a block.
Words(b) == b.at .. b.at + b.size - 1

\* What a cache may use of its block: as many slots as it believes it has.
CacheWords(b) == b.at .. b.at + Requested(b.mask + 1) - 1

\* No cache shares a word with another or with a free block, each has the slots
\* it was asked to have, and a region whose caches have all been freed is one free
\* block again: nothing is lost in a rounding, a slice or a free, and blocks that
\* touch are one.
CacheMemoryExact ==
    /\ \A b \in live : b.mask + 1 = b.slots
    /\ \A b, c \in live : b # c /\ b.region = c.region =>
            CacheWords(b) \cap CacheWords(c) = {}
    /\ \A r \in DOMAIN regions :
        LET list == regions[r].freeList
            taken == {b \in live : b.region = r}
        IN  /\ \A i \in DOMAIN list :
                /\ list[i].size > 0 /\ list[i].at + list[i].size <= regions[r].size
                /\ i < Len(list) => list[i].at + list[i].size < list[i + 1].at
                /\ \A b \in taken : Words(list[i]) \cap CacheWords(b) = {}
            /\ \A b \in taken : CacheWords(b) \subseteq 0 .. regions[r].size - 1
            /\ taken = {} => list = <<[at |-> 0, size |-> regions[r].size]>>
=============================================================================
