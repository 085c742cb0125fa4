--------------------------- MODULE BlockTrampolines ---------------------------
(***************************************************************************)
(* Methods made of blocks, src/objc/objc-block-trampolines.m, over the     *)
(* blocks runtime: imp_implementationWithBlock fills the next slot of a    *)
(* page with the block's code, a copy of the block and the instructions of *)
(* a trampoline.  A slot is <<page, position>> and owns the copy.          *)
(***************************************************************************)
EXTENDS Blocks

CONSTANTS
    PAGE_SIZE,          \* the slots of a page
    Pages               \* bound: the pages mmap has to give

Trampoline == (1 .. Pages) \X (0 .. PAGE_SIZE - 1)

ASSUME TrampolinesAssumption ==
    /\ PAGE_SIZE \in Nat \ {0} /\ Pages \in Nat
    /\ Holder = Thread \cup Trampoline /\ Thread \cap Trampoline = {}

VARIABLES
    buffers,            \* the pages mapped so far
    offset,             \* the next slot of the last of them
    removed,            \* the slots whose block imp_removeBlock has let go
    decremented         \* per slot: what has been taken off its first instruction

trampolines == <<buffers, offset, removed, decremented>>

TInit ==
    /\ BlocksInit
    /\ buffers = 0 /\ offset = 0
    /\ removed = {}
    /\ decremented = [s \in Trampoline |-> 0]

Used == {s \in Trampoline : s[1] < buffers \/ (s[1] = buffers /\ s[2] < offset)}

\* Mutant: the offset is not moved on.
NotAdvanced(s) == s[2]

Advanced(s) == s[2] + 1

NeedsPage == buffers = 0 \/ offset = PAGE_SIZE

\* alloc_buffer: the next slot, on a new page if the last one is full.
alloc_buffer(s) ==
    /\ IF NeedsPage THEN s = <<buffers + 1, 0>> ELSE s = <<buffers, offset>>
    /\ buffers' = s[1]
    /\ offset' = Advanced(s)

\* imp_implementationWithBlock copies the literal, or counts the block, for the
\* slot.
imp_implementationWithBlock(t) ==
    /\ \E s \in Trampoline :
         /\ alloc_buffer(s)
         /\ \/ \E l \in Lit : CopyLiteral(t, s, l)
            \/ \E h \in Heap : CopyBlock(t, s, h)
    /\ UNCHANGED <<removed, decremented>>

\* Without a page, and where the processor has no trampoline (Pages = 0 covers that
\* too), the caller gets a function of no use and nothing else happens.
massive_failure_imp(t) ==
    /\ NeedsPage /\ Begin(t)
    /\ UNCHANGED <<mem, forwarding, object, held, call, trampolines>>

\* isBlockIMP: whether the slot lies on a page of the list, given out or not.
isBlockIMP(s) == s[1] <= buffers

\* What a slot's block pointer holds.
InSlot(s) == {h \in Heap : held[s][h] > 0}

\* imp_getBlock, once the block is in place.
imp_getBlock(s) == {h \in InSlot(s) : isBlockIMP(s)}

\* imp_removeBlock releases "a block" whose address is that of the slot's pointer:
\* the word with its count is the slot's first instruction, in which an ARM
\* processor's trampoline has the bits of a block on the heap with references left.
imp_removeBlock(t, s) ==
    /\ call[t] = <<>> /\ imp_getBlock(s) # {} /\ s \notin removed
    /\ removed' = removed \cup {s}
    /\ decremented' = [decremented EXCEPT ![s] = @ + 2]
    /\ UNCHANGED <<blockVars, buffers, offset>>

TNext ==
    \/ BlocksNext /\ UNCHANGED trampolines
    \/ \E t \in Thread :
         \/ imp_implementationWithBlock(t) \/ massive_failure_imp(t)
         \/ \E s \in Trampoline : imp_removeBlock(t, s)

TSpec == TInit /\ [][TNext]_<<blockVars, trampolines>>
-----------------------------------------------------------------------------
\* A slot belongs to one block: it lies in the part of a page that has been given
\* out, it is given out once, and what it calls is alive for as long as the
\* trampoline is.
OneBlockEach ==
    \A s \in Trampoline :
        /\ InSlot(s) # {} => s \in Used
        /\ \A h, g \in InSlot(s) : h = g /\ held[s][h] = 1 /\ h \in Live

\* The test of imp_removeBlock: "shouldBeNull = imp_getBlock(...)",
\* blocksAsImps.m:130.
RemovedIsGone == \A s \in removed : imp_getBlock(s) = {}
=============================================================================
