-------------------------- MODULE MCBlockTrampolines --------------------------
(* Two threads, three addresses and a count that latches at three; a literal
   that captures a variable and an object, and one that captures that literal
   and a block on the heap as well. *)
EXTENDS BlockTrampolines, TLC

CONSTANTS t1, t2, h1, h2, h3, inner, outer

MCThread == {t1, t2}
MCHolder == MCThread \cup ((1 .. Pages) \X (0 .. PAGE_SIZE - 1))
MCHeap == {h1, h2, h3}
MCLit == {inner, outer}
MCCaptures == inner :> <<BYREF, OBJECT>> @@ outer :> <<inner, HELD, BYREF>>
Symmetric == Permutations(MCHeap) \cup Permutations(MCThread)
=============================================================================
