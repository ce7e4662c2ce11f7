------------------------------ MODULE MCAtomic -------------------------------
(****************************************************************************)
(* The programs the engine is checked on against the policy: each is a      *)
(* handful of instructions, executed in any order, any number of times.     *)
(****************************************************************************)
EXTENDS AtomicTaint, TLC

Flows == INSTANCE DeclaredFlows
Control == INSTANCE Controlflow

Op(op, operands) == Flows!Instruction(op, operands)
Rd(i, a, n) == [i EXCEPT !.rd = [start |-> a, size |-> n]]
Wr(i, a, n) == [i EXCEPT !.wr = [start |-> a, size |-> n]]
R(r) == Flows!Reg(r)
M(b) == Flows!Mem(b, "INVALID")
Imm == Flows!Imm

\* Registers with parts, addresses, an operand that is source and destination,
\* and the stack pointer, which carries no marks.
Moves == <<
    Rd(Op("MOV", <<R("EAX"), M("ESI")>>), 0, 2),
    Wr(Op("MOV", <<M("ESI"), R("AL")>>), 0, 1),
    Op("MOVZX", <<R("ESI"), R("AX")>>),
    Op("LEA", <<R("EAX"), M("ESI")>>),
    Op("MOV", <<R("AX"), Imm>>),
    Op("XCHG", <<R("AL"), R("ESI")>>),
    Op("MOV", <<R("ESP"), R("ESI")>>),
    Op("MOV", <<R("ESI"), M("ESI")>>)>>

\* Memory to memory, through the eax, cnt and src bitsets.
Strings == <<
    [Wr(Rd(Op("MOVSB", << >>), 0, 1), 1, 1) EXCEPT !.rep = TRUE],
    Wr(Rd(Op("MOVSW", << >>), 1, 1), 0, 1),
    Wr(Op("STOSB", << >>), 0, 2),
    Wr(Op("STOSD", << >>), 1, 1),
    [Rd(Op("SCASB", << >>), 0, 1) EXCEPT !.rep = TRUE],
    [Rd(Op("CMPSB", << >>), 0, 1) EXCEPT !.rd2 = [start |-> 1, size |-> 1]],
    Rd(Op("MOV", <<R("EAX"), M("ESI")>>), 0, 1)>>

\* Arithmetic on a register and on memory, flags as source and as destination.
Arithmetic == <<
    Rd(Op("ADD", <<R("EAX"), M("ESI")>>), 0, 1),
    Wr(Rd(Op("SUB", <<M("ESI"), R("EAX")>>), 0, 1), 0, 1),
    Op("ADC", <<R("EDX"), R("EAX")>>),
    Op("XOR", <<R("EAX"), R("EAX")>>),
    Op("XOR", <<R("EAX"), R("EDX")>>),
    Wr(Rd(Op("XADD", <<M("ESI"), R("EDX")>>), 0, 1), 0, 1),
    Op("CMP", <<R("EAX"), Imm>>),
    Op("INC", <<R("EDX")>>)>>

\* EDX:EAX products, the operand widths that abort, and shifts.
Wide == <<
    Rd(Op("MUL", <<M("ESI")>>), 0, 1),
    Op("DIV", <<R("ECX")>>),
    [Op("IDIV", <<R("ECX")>>) EXCEPT !.width = 8],
    Op("SHL", <<R("EDX"), R("CL")>>),
    Op("CDQ", << >>),
    Op("IMUL", <<R("ECX"), Imm>>),
    Op("SHRD", <<R("ECX"), R("EDX"), Imm>>),
    Op("CPUID", << >>)>>

\* The stack, flags on the stack and in a register, operands Pin cannot resolve.
Stack == <<
    Wr(Op("PUSH", <<R("EAX")>>), 0, 1),
    Rd(Op("POP", <<R("EDX")>>), 0, 1),
    Wr(Op("PUSHFD", << >>), 1, 1),
    Wr(Rd(Op("POP", <<M("ESI")>>), 1, 1), 0, 1),
    Op("SETZ", <<R("AL")>>),
    Op("TEST", <<R("EDX"), R("EDX")>>),
    Op("MOV", <<R("EAX"), M("ESI")>>),
    Op("ADD", <<R("EAX"), M("ESI")>>)>>

\* Conditional moves and exchanges on values that take them and that do not.
Conditional == <<
    Rd(Op("MOV", <<R("ECX"), M("ESI")>>), 0, 1),
    [Op("CMOVNZ", <<R("EAX"), R("ECX")>>) EXCEPT !.eflags = {1, 6}],
    Op("CMOVNZ", <<R("EAX"), R("ECX")>>),
    [Op("CMOVL", <<R("EDX"), R("EAX")>>) EXCEPT !.eflags = {1, 7}],
    Op("CMPXCHG", <<R("ECX"), R("EDX")>>),
    [Op("CMPXCHG", <<R("ECX"), R("EDX")>>) EXCEPT !.equal = TRUE],
    Op("MOV", <<R("ECX"), Imm>>)>>

\* Vector registers.
Vector == <<
    Rd(Op("MOVDQU", <<R("XMM0"), M("ESI")>>), 0, 2),
    Wr(Op("MOVSD_XMM", <<M("ESI"), R("XMM1")>>), 0, 1),
    Op("PXOR", <<R("XMM1"), R("XMM0")>>),
    Op("PMOVMSKB", <<R("EAX"), R("XMM0")>>),
    Op("MOVD", <<R("XMM0"), R("EAX")>>),
    Op("PCMPEQB", <<R("XMM1"), R("XMM0")>>),
    Rd(Op("PALIGNR", <<R("XMM0"), M("ESI")>>), 1, 1),
    Op("PSHUFD", <<R("XMM0"), R("XMM1")>>),
    Op("XORPS", <<R("XMM0"), R("XMM1")>>),
    Op("PXOR", <<Imm, R("XMM0")>>)>>

\* The handlers that read one register and write another, or only clear.
Unary == <<
    Rd(Op("MOV", <<R("AX"), M("ESI")>>), 0, 1),
    Op("CWDE", << >>),
    Op("BSF", <<R("EDX"), R("EAX")>>),
    Op("NEG", <<R("EAX")>>),
    Op("FNSTSW", <<R("AX")>>),
    Rd(Op("CMPSW", <<M("ESI"), R("EDX")>>), 0, 1),
    Op("IMUL", <<R("EAX")>>),
    Rd(Op("IMUL", <<R("EDX"), M("ESI"), Imm>>), 0, 1),
    Op("ROL", <<R("EDX"), Imm>>)>>

\* Two branches, one after the other, with a postdominator each; instructions in
\* the scope of a branch take its marks, the clears included.
Branching == <<
    Rd(Op("CMP", <<M("ESI"), Imm>>), 0, 1),
    [Op("JZ", << >>) EXCEPT !.at = 12],
    Op("MOV", <<R("EAX"), Imm>>),
    [Op("CMP", <<R("EAX"), Imm>>) EXCEPT !.at = 14],
    [Op("JNZ", << >>) EXCEPT !.at = 15],
    [Wr(Op("MOV", <<M("ESI"), R("EAX")>>), 1, 1) EXCEPT !.at = 16],
    Op("RDTSC", << >>),
    Wr(Op("FNSTCW", <<M("ESI")>>), 1, 1),
    Op("CLD", << >>)>>

\* Conditional moves with the flag they test set.
FlagSet == <<
    Rd(Op("MOV", <<R("ECX"), M("ESI")>>), 0, 1),
    [Op("CMOVZ", <<R("EAX"), R("ECX")>>) EXCEPT !.eflags = {1, 6}],
    [Op("CMOVB", <<R("EAX"), R("ECX")>>) EXCEPT !.eflags = {0, 1}]>>

Families == <<FlagSet, Moves, Strings, Arithmetic, Wide, Stack, Conditional, Vector, Unary,
              Branching>>

\* An instruction is named by its family and its place there.
Code(f) == {<<f, n>> : n \in DOMAIN Families[f]}
MCProgram == UNION {Code(f) : f \in DOMAIN Families}
MCCodes == {Code(f) : f \in DOMAIN Families \ {1}}

\* The conditional moves whose condition is that a flag is one.
MCCmovCodes == {Code(1)}

MCIpdom == 12 :> 14 @@ 15 :> 16

MCAnalysis == [p \in MCProgram |->
    LET i == Families[p[1]][p[2]]
        d == Flows!Dataflow(i)
    IN IF d = Abort THEN Abort ELSE Control!Inserts(MCIpdom, i.at) \o d]

MCEffects == [p \in MCProgram |->
    LET i == Families[p[1]][p[2]] IN
    [push |-> DOMAIN MCIpdom \cap {i.at},
     pop |-> Control!controls(MCIpdom, i.at),
     flows |-> Flows!Declared(i)]]

MCREG == {"EAX", "AX", "AH", "AL", "EDX", "DX", "DH", "DL", "ECX", "CX", "CH", "CL",
          "EBX", "BX", "BH", "BL", "ESI", "EDI", "ESP", "EBP", "EFLAGS", "XMM0", "XMM1",
          "INVALID"}

MCInputs == {[start |-> 0, size |-> 1]}
MCOverwritten == {[start |-> 0, size |-> 2]}
==============================================================================
