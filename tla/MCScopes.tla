------------------------------ MODULE MCScopes -------------------------------
(****************************************************************************)
(* Two routines.  In the first the scopes of a conditional, of a nested     *)
(* conditional and of a loop end at different instructions:                 *)
(*                                                                          *)
(*     if (a) { do { if (b) x = 1; c = x; } while (c); n } m = x;           *)
(*                                                                          *)
(* In the second a conditional and the one nested in it end together:       *)
(*                                                                          *)
(*     if (a) { if (b) x = 1; } m = x;                                      *)
(****************************************************************************)
EXTENDS RoutineScopes, TLC

Handlers == INSTANCE Instrument
Inserted == INSTANCE Controlflow

Op(op, operands) == Handlers!Instruction(op, operands)
R(r) == Handlers!Reg(r)
Imm == Handlers!Imm
Byte(a) == [start |-> a, size |-> 1]
Nop == Op("NOP", << >>)
TestByte(a) == [Op("CMP", <<Handlers!Mem("ESI", "INVALID"), Imm>>) EXCEPT !.rd = Byte(a)]
StoreEAX == [Op("MOV", <<Handlers!Mem("ESI", "INVALID"), R("EAX")>>) EXCEPT !.wr = Byte(2)]

MCLoop ==
    10 :> TestByte(0) @@ 11 :> Op("JZ", << >>)
 @@ 12 :> TestByte(1) @@ 13 :> Op("JNZ", << >>)
 @@ 14 :> Op("MOV", <<R("EAX"), Imm>>)
 @@ 15 :> Op("CMP", <<R("EAX"), Imm>>) @@ 16 :> Op("JNZ", << >>)
 @@ 17 :> Nop @@ 18 :> StoreEAX @@ 19 :> Op("XOR", <<R("EAX"), R("EAX")>>)

MCLoopSuccessors ==
    10 :> {11} @@ 11 :> {12, 18} @@ 12 :> {13} @@ 13 :> {14, 15} @@ 14 :> {15}
 @@ 15 :> {16} @@ 16 :> {12, 17} @@ 17 :> {18} @@ 18 :> {19} @@ 19 :> {10}

MCLoopIpdom == 11 :> 18 @@ 13 :> 15 @@ 16 :> 17

MCNested ==
    10 :> TestByte(0) @@ 11 :> Op("JZ", << >>)
 @@ 12 :> TestByte(1) @@ 13 :> Op("JNZ", << >>)
 @@ 14 :> Op("MOV", <<R("EAX"), Imm>>)
 @@ 15 :> StoreEAX @@ 16 :> Op("XOR", <<R("EAX"), R("EAX")>>)

MCNestedSuccessors ==
    10 :> {11} @@ 11 :> {12, 15} @@ 12 :> {13} @@ 13 :> {14, 15} @@ 14 :> {15}
 @@ 15 :> {16} @@ 16 :> {10}

MCNestedIpdom == 11 :> 15 @@ 13 :> 15

MCREG == {"EAX", "AX", "AH", "AL", "ESI", "EFLAGS", "INVALID"}
MCInputs == {Byte(0), Byte(1)}
MCOverwritten == {[start |-> 0, size |-> 2]}

\* An instruction is named by its address.
Calls(routine, ipdom) ==
    [a \in DOMAIN routine |-> Inserted!Inserts(ipdom, a) \o Handlers!Dataflow(routine[a])]

MCLoopProgram == DOMAIN MCLoop
MCLoopAnalysis == Calls(MCLoop, MCLoopIpdom)
MCLoopCode == [a \in DOMAIN MCLoop |-> a]
MCNestedProgram == DOMAIN MCNested
MCNestedAnalysis == Calls(MCNested, MCNestedIpdom)
MCNestedCode == [a \in DOMAIN MCNested |-> a]
==============================================================================
