----------------------------- MODULE Controlflow -----------------------------
(****************************************************************************)
(* Controlflow of dytan.cpp: the calls it inserts into a routine, given the *)
(* conditional branches of the routine and their immediate postdominators   *)
(* (which RoutineGraph computes).                                           *)
(****************************************************************************)
EXTENDS Integers, Sequences

SE == INSTANCE SequencesExt

\* controls[addr]: the branches whose scope ends at addr, a std::set<ADDRINT>.
controls(ipdom, addr) == {b \in DOMAIN ipdom : ipdom[b] = addr}

\* The calls in front of the instruction at addr.  The first pass over the
\* routine inserts the pushes, the second one the pops, so that a push comes
\* first where an instruction has both.  A pop names its branches in
\* ascending order.
Inserts(ipdom, addr) ==
    (IF addr \in DOMAIN ipdom THEN <<[fn |-> "PushControl", addr |-> addr]>> ELSE << >>)
      \o (IF controls(ipdom, addr) = {} THEN << >>
          ELSE <<[fn |-> "PopControl", addrs |-> SE!SetToSortSeq(controls(ipdom, addr), <)]>>)
==============================================================================
