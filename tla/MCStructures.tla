----------------------------- MODULE MCStructures ------------------------------
(* The structures that the runtime works on one thread at a time: the autorelease
   pool of a thread, the reference count table and the weak table of a side
   table, the memory of the larger method caches, and the layouts of classes; and
   blocks, with two threads.  They share nothing; a behaviour works on one of
   them.

   AutoreleasePool with two-entry pages, so that every page boundary is crossed
   in both directions, and pops three deep.

   DenseMap whose array of eight buckets may grow to sixteen, and six keys whose
   searches start all over it and cross one another, so that it fills with
   entries, zero values and tombstones.

   WeakTable whose first table of three entries grows to seven, and whose arrays
   double from two.  Two objects that start at the last entry have any of four
   variables, three of which start at the same slot; a third object's entry comes
   to lie behind theirs, past the end of the table.

   CacheAllocator: regions of four quanta of seven words, and caches of one, two,
   three and five quanta, the last of which gets a region of its own size; the
   smallest cache asked for is malloc's.

   IvarLayout, on a machine of four-byte words: a root of one or two ivars, the
   second of which leaves its end at an odd offset; below it a class whose second
   ivar wants eight-byte alignment; below that one more; and a pair, which may go
   below any of them or be a root.  The compiler took each superclass for
   smaller, for just as large or for larger than it is.

   BlockTrampolines as MCBlockTrampolines has it.  Its heap addresses are those of
   the three like variables, and its threads are the two like keys, so that one
   permutation serves both. *)
EXTENDS AutoreleasePool, DenseMap, WeakTable, CacheAllocator, IvarLayout, MCBlockTrampolines

CONSTANTS k1, k2, k3, k4, k5, k6, o1, o2, o3, l1, l2, l3, l4, N, A, B, P

MCObj == {k1, k2}
MCKey == {k1, k2, k3, k4, k5, k6}
MCHash == (k1 :> 0) @@ (k2 :> 0) @@ (k3 :> 1) @@ (k4 :> 2) @@ (k5 :> 5) @@ (k6 :> 7)

MCPairs == ({o1, o2} \X {l1, l2, l3, l4}) \cup {<<o3, l4>>}
MCHashPointer == (o1 :> 6) @@ (o2 :> 13) @@ (o3 :> 0)
                 @@ (l1 :> 0) @@ (l2 :> 0) @@ (l3 :> 0) @@ (l4 :> 1)
MCMallocSize == [n \in 1 .. 20 |-> n]

MCSuper == (N :> Nil) @@ (A :> N) @@ (B :> A)
Of(n) == [size |-> n, alignment |-> n]
MCDeclared == (N :> {<<Of(4)>>, <<Of(4), Of(1)>>}) @@ (A :> {<<>>, <<Of(1), Of(8)>>})
              @@ (B :> {<<Of(2)>>})

\* Keys, and variables, of one hash value are interchangeable; so are the threads
\* and the heap addresses, which are the same values.
MCSymmetry == Permutations({k1, k2}) \cup Permutations({l1, l2, l3})

-----------------------------------------------------------------------------
VARIABLE part       \* what the behaviour works on

PartInit ==
    /\ part \in {"pool", "counts", "weak", "caches", "ivars", "blocks"}
    /\ Init /\ MapInit /\ WeakInit /\ AllocatorInit /\ IvarInit /\ TInit

Autorelease ==
    /\ part = "pool" /\ Next
    /\ UNCHANGED <<mapVars, weakVars, allocatorVars, ivarVars, blockVars, trampolines, part>>
Count ==
    /\ part = "counts" /\ MapNext
    /\ UNCHANGED <<vars, weakVars, allocatorVars, ivarVars, blockVars, trampolines, part>>
Refer ==
    /\ part = "weak" /\ WeakNext
    /\ UNCHANGED <<vars, mapVars, allocatorVars, ivarVars, blockVars, trampolines, part>>
Cache ==
    /\ part = "caches" /\ AllocatorNext
    /\ UNCHANGED <<vars, mapVars, weakVars, ivarVars, blockVars, trampolines, part>>
LayOut ==
    /\ part = "ivars" /\ IvarNext
    /\ UNCHANGED <<vars, mapVars, weakVars, allocatorVars, blockVars, trampolines, part>>

\* No more calls, or no address for the copy that a call wants to make.
AtBound == left = 0 \/ \A h \in Heap : mem[h] # NULL
CallBlocks ==
    /\ part = "blocks" /\ (TNext \/ (AtBound /\ UNCHANGED <<blockVars, trampolines>>))
    /\ UNCHANGED <<vars, mapVars, weakVars, allocatorVars, ivarVars, part>>

PartSpec ==
    /\ PartInit
    /\ [][Autorelease \/ Count \/ Refer \/ Cache \/ LayOut \/ CallBlocks]_
          <<vars, mapVars, weakVars, allocatorVars, ivarVars, blockVars, trampolines, part>>
=============================================================================
