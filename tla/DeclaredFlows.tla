---------------------------- MODULE DeclaredFlows ----------------------------
(****************************************************************************)
(* The propagation each handler of instrument_functions.c declares, in its  *)
(* comments of the form "dest, eflags <- union(dest, src)": the reference   *)
(* the inserted calls are checked against.  An instruction whose memory     *)
(* operand Pin cannot resolve propagates nothing (the handlers bail out).   *)
(* Where a handler has no such comment the entry states the register the    *)
(* handler names; STOSD's comment is a copy of STOSB's, and AX stands for   *)
(* the al it mentions.                                                      *)
(****************************************************************************)
EXTENDS Instrument

Place(regs, bytes) == [regs |-> regs \ {"INVALID"}, bytes |-> bytes]
R(r) == Place({r}, {})
Flags == R("EFLAGS")
Joined(places) == Place(UNION {p.regs : p \in places}, UNION {p.bytes : p \in places})
Span(ea) == ea.start .. (ea.start + ea.size - 1)

Flow(to, from) == [to |-> Joined(to), from |-> Joined(from), clear |-> FALSE]
Clear(to) == [to |-> Joined(to), from |-> Joined({}), clear |-> TRUE]

AddressRegs(i, n) == IF IMPLICIT THEN {Operand(i, n).base, Operand(i, n).index} ELSE {}

\* Operand n as a source and as a destination.
From(i, n) ==
    CASE IsReg(i, n) -> R(OperandReg(i, n))
      [] IsMem(i, n) -> Place(AddressRegs(i, n), Span(i.rd))
      [] OTHER -> Joined({})
To(i, n) == IF IsReg(i, n) THEN R(OperandReg(i, n)) ELSE Place({}, Span(i.wr))

Source(ea, r) == Place(IF IMPLICIT THEN {r} ELSE {}, Span(ea))
AddressOf(i, n) == IF IsMem(i, n) THEN Place(AddressRegs(i, n), {}) ELSE Joined({})

\* The conditions the comments of Instrument_CMOVcc state.
Taken(op, eflags) ==
    LET CF == 0 \in eflags
        ZF == 6 \in eflags
        SF == 7 \in eflags
        OF == 11 \in eflags
    IN CASE op = "CMOVNB" -> ~CF [] op = "CMOVB" -> CF
         [] op = "CMOVBE" -> CF \/ ZF [] op = "CMOVNBE" -> ~CF /\ ~ZF
         [] op = "CMOVNLE" -> ~ZF /\ SF = OF [] op = "CMOVNL" -> SF = OF
         [] op = "CMOVL" -> SF # OF [] op = "CMOVLE" -> ZF \/ SF # OF
         [] op = "CMOVNZ" -> ~ZF [] op = "CMOVZ" -> ZF
         [] op = "CMOVNS" -> ~SF [] op = "CMOVS" -> SF

\* Whether Pin resolves every memory operand: if it does not, the handler bails.
\* LEA has a memory operand that is not accessed.
Resolved(i) ==
    i.op = "LEA" \/ \A n \in 0 .. (Len(i.operands) - 1) : IsMem(i, n) => IsMemoryRead(i) \/ IsMemoryWrite(i)

Declared(i) ==
    LET dest == To(i, 0)
        D == From(i, 0)
        S == From(i, 1)
        EAX == R("EAX")
        EDX == R("EDX")
    IN
    CASE ~Resolved(i) -> << >>
      [] i.op \in AddLike -> <<Flow({dest, Flags}, {D, S})>>
      [] i.op \in {"ADC", "SBB"} -> <<Flow({dest, Flags}, {D, S, Flags})>>
      [] i.op \in {"CMP", "TEST", "CMPSW"} -> <<Flow({Flags}, {D, S})>>
      [] i.op \in {"DEC", "INC", "NEG"} -> <<Flow({Flags}, {D})>>
      [] i.op = "XOR" -> <<IF IsReg(i, 0) /\ D = S THEN Clear({dest}) ELSE Flow({dest}, {D, S}),
                           Flow({Flags}, {D, S})>>
      [] i.op \in ShiftLike -> <<Flow({dest, Flags}, {D, S})>>
      [] i.op \in {"SHLD", "SHRD"} -> <<Flow({dest, Flags}, {D, S, From(i, 2)})>>
      [] i.op \in {"DIV", "IDIV"} -> <<Flow({EAX, EDX}, {EAX, EDX, D}), Clear({Flags})>>
      [] i.op = "MUL" \/ (i.op = "IMUL" /\ Len(i.operands) = 1) ->
             <<Flow({EAX, EDX, Flags}, {EAX, D})>>
      [] i.op = "IMUL" /\ Len(i.operands) > 1 -> <<Flow({dest, Flags}, {D, S})>>
      [] i.op = "CDQ" -> <<Flow({EDX}, {EAX})>>
      [] i.op = "CWDE" -> <<Flow({EAX}, {R("AX")})>>
      [] i.op \in {"BSF", "BSR", "FNSTSW", "FNSTCW", "STMXCSR"} -> <<Clear({dest})>>
      [] i.op = "CPUID" -> <<Clear({EAX, R("EBX"), R("ECX"), EDX})>>
      [] i.op = "RDTSC" -> <<Clear({EAX, EDX})>>
      [] i.op \in {"CLD", "STD"} -> <<Clear({Flags})>>
      [] i.op \in MovLike \cup {"MOVSD_XMM"} -> <<Flow({dest}, {S, AddressOf(i, 0)})>>
      [] i.op = "POP" -> <<Flow({dest}, {Place({}, Span(i.rd)), AddressOf(i, 0)})>>
      [] i.op = "POPFD" -> <<Flow({Flags}, {Place({}, Span(i.rd))})>>
      [] i.op = "PUSH" -> <<Flow({Place({}, Span(i.wr))}, {D})>>
      [] i.op = "PUSHFD" -> <<Flow({Place({}, Span(i.wr))}, {Flags})>>
      [] i.op = "LEA" -> <<Flow({dest}, {Place({Operand(i, 1).base, Operand(i, 1).index}, {})})>>
      [] i.op = "XADD" -> <<Flow({dest}, {D, S}), Flow({To(i, 1)}, {D}), Flow({Flags}, {D, S})>>
      [] i.op = "XCHG" -> <<Flow({dest}, {S}), Flow({To(i, 1)}, {D})>>
      [] i.op \in {"MOVSB", "MOVSW", "MOVSD"} ->
             <<Flow({Place({}, Span(i.wr))},
                    {Source(i.rd, "ESI"), Source(i.rd, "EDI")} \cup (IF i.rep THEN {R("ECX")} ELSE {}))>>
      [] i.op = "STOSB" -> <<Flow({Place({}, Span(i.wr))}, {R("AL"), Source(NoMemory, "EDI")})>>
      [] i.op = "STOSD" -> <<Flow({Place({}, Span(i.wr))}, {R("AX"), Source(NoMemory, "EDI")})>>
      [] i.op = "CMPSB" -> <<Flow({Flags}, {Source(i.rd, "EDI"), Source(i.rd2, "ESI")})>>
      [] i.op = "SCASB" ->
             <<Flow({Flags} \cup (IF i.rep THEN {R("ECX")} ELSE {}), {Source(i.rd, "EDI"), R("AL")})>>
      [] i.op \in CMOVcc -> IF Taken(i.op, i.eflags) THEN <<Flow({dest}, {S})>> ELSE << >>
      [] i.op \in SETcc -> <<Flow({dest}, {Flags, AddressOf(i, 0)})>>
      [] i.op = "CMPXCHG" -> IF i.equal THEN <<Flow({dest}, {S})>> ELSE <<Flow({EAX}, {S})>>
      [] i.op \in {"PXOR", "PCMPEQB", "PALIGNR", "PSHUFD", "XORPS"} -> <<Flow({dest}, {D, S})>>
      [] i.op = "PMOVMSKB" -> <<Flow({dest}, {S})>>
      [] OTHER -> << >>
==============================================================================
