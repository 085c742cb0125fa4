-------------------------------- MODULE Blocks --------------------------------
(***************************************************************************)
(* The blocks runtime without garbage collection, libclosure-59/runtime.c: *)
(* _Block_copy, _Block_release, _Block_tryRetain and the helpers           *)
(* _Block_object_assign and _Block_object_dispose that a compiler's copy   *)
(* and dispose functions call for what a block captures.                   *)
(*                                                                         *)
(* The word of a heap object holds its count and the DEALLOCATING bit; it  *)
(* is changed by loops of a read and a compare-and-swap, which are two     *)
(* steps here.  A thread has one frame with one __block variable and the   *)
(* block literals that capture it; only that thread copies its literals.   *)
(* Whatever else a thread has to do in a call is a sequence of operations. *)
(***************************************************************************)
EXTENDS Integers, Sequences, FiniteSets, Functions

CONSTANTS
    Thread, NULL,
    Holder,             \* who may own a reference: the threads, and others
    Heap,               \* the addresses malloc may return
    Lit,                \* the block literals of a frame
    captures,           \* what each captures, in order: another literal or
    BYREF, OBJECT,      \* the __block variable, an object,
    HELD,               \* a variable with a block the thread holds
    BLOCK_REFCOUNT_MASK, \* the highest count, at which a count latches
    WeakVariables,      \* whether the client loads blocks from weak variables
    Calls               \* bound: calls of all threads together

VARIABLES
    mem,                \* per address: the object there, or NULL
    forwarding,         \* per thread: its frame's __block variable, which is
                        \* "out" of scope, on the "stack", or at an address
    object,             \* the references blocks hold to the captured object
    held,               \* the references each holder owns to each block
    call,               \* what each thread still has to do in its call
    left                \* calls left

blockVars == <<mem, forwarding, object, held, call, left>>

Word == [count : 0 .. BLOCK_REFCOUNT_MASK, deallocating : BOOLEAN]
HeapObject == [kind : {"block", "byref"}, word : Word, holds : Seq(Heap \cup {OBJECT})]
Capture == Lit \cup {BYREF, OBJECT, HELD}

ASSUME BlocksAssumption ==
    /\ IsFiniteSet(Heap) /\ IsFiniteSet(Holder) /\ Thread \subseteq Holder
    /\ Heap \cap (Holder \cup Capture \cup {"out", "stack"}) = {}
    /\ Lit \cap {BYREF, OBJECT, HELD} = {} /\ OBJECT \notin {"out", "stack"}
    /\ BYREF # OBJECT /\ BYREF # HELD /\ OBJECT # HELD
    /\ NULL \notin Holder \cup Heap \cup Capture \cup Word \cup HeapObject
    /\ captures \in [Lit -> Seq(Capture)]
    /\ BLOCK_REFCOUNT_MASK \in Nat /\ BLOCK_REFCOUNT_MASK > 1
    /\ WeakVariables \in BOOLEAN /\ Calls \in Nat

Live == {h \in Heap : mem[h] # NULL}

BlocksInit ==
    /\ mem = [h \in Heap |-> NULL]
    /\ forwarding = [t \in Thread |-> "out"]
    /\ object = 0
    /\ held = [p \in Holder |-> [h \in Heap |-> 0]]
    /\ call = [t \in Thread |-> <<>>]
    /\ left = Calls

\* An operation on an object or a capture, on behalf of whom; old is what the
\* loop has read.
Op(op, on, to) == [op |-> op, on |-> on, to |-> to, old |-> NULL]

Begin(t) == call[t] = <<>> /\ left > 0 /\ left' = left - 1
At(t, op) == call[t] # <<>> /\ Head(call[t]).op = op
This(t) == Head(call[t])
Continue(t, ops) == call' = [call EXCEPT ![t] = ops \o Tail(@)]

\* Mutant: the copy of a __block variable is counted for the block only.
ByrefForBlock == [count |-> 1, deallocating |-> FALSE]

\* A new object: a copied block has one owner, a copied __block variable two,
\* the block that is being copied and the frame.
NewBlock == [count |-> 1, deallocating |-> FALSE]
NewByref == [count |-> 2, deallocating |-> FALSE]

Latched(w) == w.count = BLOCK_REFCOUNT_MASK

Incremented(w) == [w EXCEPT !.count = @ + 1]

NotDeallocating(w) == ~w.deallocating

\* Mutant: a count that was latched comes down again.
LatchesLow(w) == w.count = 0

\* A release that leaves the word alone: latched high, or below zero.
Stuck(w) == Latched(w) \/ w.count = 0

LastReference(w) == w.count = 1 /\ ~w.deallocating
Decremented(w) ==
    IF LastReference(w) THEN [count |-> 0, deallocating |-> TRUE]
    ELSE [w EXCEPT !.count = @ - 1]

\* What malloc may return, every address that is free.
Allocated == {h \in Heap : mem[h] = NULL}

\* Mutant: the store does not look whether the word has changed.
PlainStore(o) == TRUE

\* Whether the compare-and-swap finds the word it read.
Swaps(o) == mem[o.on].word = o.old

\* The result reaches whoever asked for it: a holder, or the block that captures.
Given(m, o) ==
    IF o.to \in Heap THEN [m EXCEPT ![o.to].holds = Append(@, o.on)] ELSE m
HeldBy(o) ==
    IF o.to \in Holder THEN [held EXCEPT ![o.to][o.on] = @ + 1] ELSE held

Object(kind, word) == [kind |-> kind, word |-> word, holds |-> <<>>]
Blk(h) == h \in Live /\ mem[h].kind = "block"

-----------------------------------------------------------------------------
(* The calls of a client.                                                      *)

\* A frame with a __block variable is entered; it is left with a dispose of the
\* variable, which finds the copy through the forwarding pointer.
EnterFrame(t) ==
    /\ Begin(t) /\ forwarding[t] = "out"
    /\ forwarding' = [forwarding EXCEPT ![t] = "stack"]
    /\ UNCHANGED <<mem, object, held, call>>

LeaveFrame(t) ==
    /\ call[t] = <<>> /\ forwarding[t] # "out"
    /\ forwarding' = [forwarding EXCEPT ![t] = "out"]
    /\ IF forwarding[t] = "stack" THEN UNCHANGED call
       ELSE call' = [call EXCEPT ![t] = <<Op("decr", forwarding[t], NULL)>>]
    /\ UNCHANGED <<mem, object, held, left>>

\* The block is copied bit by bit, then its copy helper assigns what it captures.
Assigns(b, l) == [i \in 1 .. Len(captures[l]) |-> Op("assign", captures[l][i], b)]

CopyLiteral(t, p, l) ==
    /\ Begin(t) /\ forwarding[t] # "out"
    /\ \E h \in Allocated :
         /\ mem' = [mem EXCEPT ![h] = Object("block", NewBlock)]
         /\ call' = [call EXCEPT ![t] = Assigns(h, l) \o <<Op("return", h, p)>>]
    /\ UNCHANGED <<forwarding, object, held>>

\* A copy or a release of a block on the heap that the thread holds.
CopyBlock(t, p, h) ==
    /\ Begin(t) /\ held[t][h] > 0
    /\ call' = [call EXCEPT ![t] = <<Op("incr", h, p)>>]
    /\ UNCHANGED <<mem, forwarding, object, held>>

ReleaseBlock(t, h) ==
    /\ call[t] = <<>> /\ held[t][h] > 0
    /\ held' = [held EXCEPT ![t][h] = @ - 1]
    /\ call' = [call EXCEPT ![t] = <<Op("decr", h, NULL)>>]
    /\ UNCHANGED <<mem, forwarding, object, left>>

\* A load of a weak variable, which names a block until it is freed, asks the block
\* for -retainWeakReference.  NSBlock has NSObject's, which counts in the side
\* tables, where -[NSBlock release] does not look: the block's count stays.
LoadWeak(t, h) ==
    /\ WeakVariables /\ Begin(t)
    /\ held' = [held EXCEPT ![t][h] = @ + 1]
    /\ UNCHANGED <<mem, forwarding, object, call>>

\* The function libclosure exports for that purpose, to be called "while in
\* exclusion zone": for a block that has not been freed and is not during the call.
\* Nothing in the repository calls it.
_Block_tryRetain(t, h) ==
    /\ Begin(t)
    /\ call' = [call EXCEPT ![t] = <<Op("try", h, t)>>]
    /\ UNCHANGED <<mem, forwarding, object, held>>

\* A reference to a block that the thread need not own, and that is not freed yet.
TakeReference(t, h) == Blk(h) /\ (LoadWeak(t, h) \/ _Block_tryRetain(t, h))

\* One thread hands a reference to another.
Give(t, u, h) ==
    /\ call[t] = <<>> /\ t # u /\ held[t][h] > 0
    /\ held' = [held EXCEPT ![t][h] = @ - 1, ![u][h] = @ + 1]
    /\ UNCHANGED <<mem, forwarding, object, call, left>>

-----------------------------------------------------------------------------
(* _Block_object_assign.                                                       *)

AssignObject(t) ==
    /\ At(t, "assign") /\ This(t).on = OBJECT
    /\ object' = object + 1
    /\ mem' = Given(mem, This(t))
    /\ Continue(t, <<>>)
    /\ UNCHANGED <<forwarding, held, left>>

\* A literal is copied in its turn, before the block that captures it returns.
AssignLiteral(t) ==
    /\ At(t, "assign") /\ This(t).on \in Lit
    /\ \E h \in Allocated :
         /\ mem' = Given([mem EXCEPT ![h] = Object("block", NewBlock)],
                         [This(t) EXCEPT !.on = h])
         /\ Continue(t, Assigns(h, This(t).on))
    /\ UNCHANGED <<forwarding, object, held, left>>

\* A block on the heap gets another reference; there may be none to capture.
AssignBlock(t) ==
    /\ At(t, "assign") /\ This(t).on = HELD
    /\ \/ \E h \in Heap : held[t][h] > 0 /\ Continue(t, <<Op("incr", h, This(t).to)>>)
       \/ Continue(t, <<>>)
    /\ UNCHANGED <<mem, forwarding, object, held, left>>

Forwarded(t, h) == [forwarding EXCEPT ![t] = h]

\* _Block_byref_assign_copy of a variable that is on the stack, or was copied.
AssignByref(t) ==
    /\ At(t, "assign") /\ This(t).on = BYREF
    /\ IF forwarding[t] = "stack"
         THEN \E h \in Allocated :
                /\ mem' = Given([mem EXCEPT ![h] = Object("byref", NewByref)],
                                [This(t) EXCEPT !.on = h])
                /\ forwarding' = Forwarded(t, h)
                /\ Continue(t, <<>>)
         ELSE /\ Continue(t, <<Op("incr", forwarding[t], This(t).to)>>)
              /\ UNCHANGED <<mem, forwarding>>
    /\ UNCHANGED <<object, held, left>>

Return(t) ==
    /\ At(t, "return")
    /\ held' = HeldBy(This(t))
    /\ Continue(t, <<>>)
    /\ UNCHANGED <<mem, forwarding, object, left>>

-----------------------------------------------------------------------------
(* The loops.                                                                  *)

Loop(t) == (\E op \in {"incr", "try", "decr"} : At(t, op)) /\ This(t).on # OBJECT

\* The read, and what it can tell without a swap.
Read(t) ==
    /\ Loop(t) /\ This(t).old = NULL
    /\ LET o == This(t)
           w == mem[o.on].word
           succeeds == o.op \in {"incr", "try"} /\ Latched(w)
           fails == \/ o.op = "try" /\ ~NotDeallocating(w)
                    \/ o.op = "decr" /\ Stuck(w)
       IN IF fails \/ succeeds
            THEN /\ mem' = IF fails THEN mem ELSE Given(mem, o)
                 /\ held' = IF fails THEN held ELSE HeldBy(o)
                 /\ Continue(t, <<>>)
            ELSE /\ call' = [call EXCEPT ![t][1].old = w]
                 /\ UNCHANGED <<mem, held>>
    /\ UNCHANGED <<forwarding, object, left>>

Retry(t) ==
    /\ Loop(t) /\ This(t).old # NULL /\ ~Swaps(This(t))
    /\ call' = [call EXCEPT ![t][1].old = NULL]
    /\ UNCHANGED <<mem, forwarding, object, held, left>>

SwapIncrement(t) ==
    /\ At(t, "incr") \/ At(t, "try")
    /\ This(t).old # NULL /\ Swaps(This(t))
    /\ LET o == This(t) IN
       /\ mem' = Given([mem EXCEPT ![o.on].word = Incremented(o.old)], o)
       /\ held' = HeldBy(o)
    /\ Continue(t, <<>>)
    /\ UNCHANGED <<forwarding, object, left>>

\* What the dispose helper does, in order; a __block variable has nothing to
\* dispose of, for it does not own what it holds.
Disposes(h) == [i \in 1 .. Len(mem[h].holds) |-> Op("decr", mem[h].holds[i], NULL)]

SwapDecrement(t) ==
    /\ At(t, "decr") /\ This(t).on # OBJECT
    /\ This(t).old # NULL /\ Swaps(This(t))
    /\ LET o == This(t) IN
       IF LastReference(o.old)
         THEN /\ mem' = [mem EXCEPT ![o.on].word = Decremented(o.old), ![o.on].holds = <<>>]
              /\ Continue(t, Disposes(o.on) \o <<Op("free", o.on, NULL)>>)
         ELSE /\ mem' = [mem EXCEPT ![o.on].word = Decremented(o.old)]
              /\ Continue(t, <<>>)
    /\ UNCHANGED <<forwarding, object, held, left>>

\* The release of a captured object.
DisposeObject(t) ==
    /\ At(t, "decr") /\ This(t).on = OBJECT
    /\ object' = object - 1
    /\ Continue(t, <<>>)
    /\ UNCHANGED <<mem, forwarding, held, left>>

\* objc_destructInstance clears the weak variables, in the same exclusion zone;
\* then the memory is freed.
FreeObject(t) ==
    /\ At(t, "free")
    /\ \A u \in Thread : ~(At(u, "try") /\ This(u).on = This(t).on)
    /\ mem' = [mem EXCEPT ![This(t).on] = NULL]
    /\ Continue(t, <<>>)
    /\ UNCHANGED <<forwarding, object, held, left>>

Step(t) ==
    \/ AssignObject(t) \/ AssignLiteral(t) \/ AssignBlock(t) \/ AssignByref(t) \/ Return(t)
    \/ Read(t) \/ Retry(t) \/ SwapIncrement(t) \/ SwapDecrement(t)
    \/ DisposeObject(t) \/ FreeObject(t)

Client(t) ==
    \/ EnterFrame(t) \/ LeaveFrame(t)
    \/ \E l \in Lit : CopyLiteral(t, t, l)
    \/ \E h \in Heap :
         \/ CopyBlock(t, t, h) \/ ReleaseBlock(t, h) \/ TakeReference(t, h)
         \/ \E u \in Thread : Give(t, u, h)

BlocksNext == \E t \in Thread : Step(t) \/ Client(t)
-----------------------------------------------------------------------------
Ops(t) == {call[t][i] : i \in 1 .. Len(call[t])}

BlocksTypeOK ==
    /\ mem \in [Heap -> {NULL} \cup HeapObject]
    /\ forwarding \in [Thread -> {"out", "stack"} \cup Heap]
    /\ object \in Nat
    /\ held \in [Holder -> [Heap -> Nat]]
    /\ left \in 0 .. Calls

\* How often x is in a sequence, and what the operations of some kinds are on.
Times(s, x) == Cardinality({i \in DOMAIN s : s[i] = x})
Named(s, kinds) == [i \in DOMAIN s |-> IF s[i].op \in kinds THEN s[i].on ELSE NULL]

\* The references there are to x: of holders, of blocks that capture it, of
\* frames, and those that calls under way have made or still have to give up.
Held(x) == SumFunction([p \in Holder |-> IF x \in Heap THEN held[p][x] ELSE 0])
Holds(h) == IF mem[h] = NULL THEN <<>> ELSE mem[h].holds
Captured(x) == SumFunction([h \in Heap |-> Times(Holds(h), x)])
Frames(x) == Cardinality({t \in Thread : forwarding[t] = x})
Due(kinds, x) == SumFunction([t \in Thread |-> Times(Named(call[t], kinds), x)])
References(x) == Held(x) + Captured(x) + Frames(x) + Due({"return", "decr"}, x)

\* Nothing anybody still refers to has been freed: blocks, __block variables and
\* what calls under way will touch.  A release recovers the memory "if ... last
\* reference", Block.h:35.
ReferencesLive ==
    /\ \A h \in Heap : References(h) > 0 => h \in Live /\ ~mem[h].word.deallocating
    /\ \A t \in Thread : \A o \in Ops(t) : {o.on, o.to} \cap Heap \subseteq Live

\* Whatever has been given up entirely is about to be freed, once.
FreedOnce ==
    \A h \in Live : Due({"free"}, h) = IF mem[h].word.deallocating THEN 1 ELSE 0

\* The count of every heap object that is not latched is the number of
\* references to it, and so is the captured object's: no update is lost, and
\* what has none left is being freed, once.
CountExact ==
    /\ \A h \in Live :
         /\ mem[h].word.count \in {References(h), BLOCK_REFCOUNT_MASK}
         /\ mem[h].word.deallocating <=> mem[h].word.count = 0
    /\ object = References(OBJECT)
    /\ FreedOnce

\* A count that has latched stays: the block is leaked rather than freed early.
LatchedForGood ==
    [][\A h \in Live : Latched(mem[h].word) => mem'[h] # NULL /\ mem'[h].word = mem[h].word]_blockVars

\* While its frame is in scope a __block variable is one variable: all the blocks
\* that were copied with it share the copy the frame uses.
OneVariable ==
    \A t \in Thread : \A o \in Ops(t) :
        o.op = "return" => \A g \in Live :
            (mem[g].kind = "byref" /\ \E i \in 1 .. Len(mem[o.on].holds) : mem[o.on].holds[i] = g)
              => forwarding[t] = g

\* The counts are exact where they are not latched, what has none left is freed
\* once, and copied blocks share the variable of their frame.
BlocksConsistent == BlocksTypeOK /\ CountExact /\ OneVariable
=============================================================================
