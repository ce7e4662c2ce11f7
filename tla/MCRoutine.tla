------------------------------ MODULE MCRoutine ------------------------------
(****************************************************************************)
(* All routines of four instructions, with jumps to any of them, and longer *)
(* ones with a return in the middle, a switch or a jump out of the routine: *)
(*                                                                          *)
(*     if (a && b && c) return; x; return;                                  *)
(*     while (a) { if (b) return; if (c) break; x; } y; return;             *)
(*     if (a) { x(); switch (b) ... } else if (c) p->f(); else exit();      *)
(*     do { if (!a && b) continue; if (c) return; if (d) continue;          *)
(*          if (!e) return; break; } while (f); if (g) { } return;          *)
(****************************************************************************)
EXTENDS RoutineGraph, TLC

Ins(kind) == [kind |-> kind]
Jump(kind, target) == [kind |-> kind, target |-> target]

Address == 6 .. 9
Instructions ==
    {Ins(k) : k \in {"plain", "call", "ret"}}
      \cup [kind : {"jcc", "jmp"}, target : Address]

EarlyReturn ==
    6 :> Ins("plain") @@ 7 :> Jump("jcc", 11) @@ 8 :> Jump("jcc", 11) @@ 9 :> Jump("jcc", 11)
 @@ 10 :> Ins("ret") @@ 11 :> Ins("plain") @@ 12 :> Ins("ret")

LoopWithExits ==
    6 :> Ins("plain") @@ 7 :> Jump("jcc", 13) @@ 8 :> Ins("call") @@ 9 :> Jump("jcc", 15)
 @@ 10 :> Jump("jcc", 13) @@ 11 :> Ins("plain") @@ 12 :> Jump("jmp", 6)
 @@ 13 :> Ins("plain") @@ 14 :> Ins("ret") @@ 15 :> Ins("ret")

Indirect ==
    6 :> Ins("call") @@ 7 :> Jump("jcc", 10) @@ 8 :> Ins("call") @@ 9 :> Ins("ibranch")
 @@ 10 :> Jump("jcc", 13) @@ 11 :> Ins("icall") @@ 12 :> Ins("ret")
 @@ 13 :> Jump("jmp", 20)

Retries ==
    6 :> Ins("plain") @@ 7 :> Jump("jcc", 9) @@ 8 :> Jump("jcc", 13) @@ 9 :> Jump("jcc", 15)
 @@ 10 :> Jump("jcc", 13) @@ 11 :> Jump("jcc", 14) @@ 12 :> Ins("ret")
 @@ 13 :> Jump("jcc", 6) @@ 14 :> Jump("jcc", 15) @@ 15 :> Ins("ret")

MCEarlyReturn == {EarlyReturn}
MCRoutines == [Address -> Instructions] \cup {EarlyReturn, LoopWithExits, Indirect, Retries}
==============================================================================
