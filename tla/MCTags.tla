------------------------------- MODULE MCTags --------------------------------
(****************************************************************************)
(* Two threads, a variable and room for two blocks side by side, of which   *)
(* the second may begin inside the place of one that was freed.  Results    *)
(* are stored to the variable, or into a block and to the variable.         *)
(****************************************************************************)
EXTENDS MemoryTags, TLC

MCHeap == 4 .. 7
MCStores == {<<20>>, <<5, 20>>}

\* The properties say nothing of what follows a use that came too early.  The third
\* allocation, which takes the first mark again, has no other code beside it, and none
\* comes after allocations that overlapped.
Bounded ==
    /\ ~early
    /\ overlapped => allocs <= 2
    /\ allocs = 3 => Cardinality({t \in Threads : pending[t] # << >>}) <= 1

ThreadSymmetry == Permutations(Threads)
==============================================================================
