----------------------------- MODULE Instrument ------------------------------
(****************************************************************************)
(* instrument_functions.c: for each instruction, the analysis calls that    *)
(* its handler inserts in front of it.                                      *)
(*                                                                          *)
(* A handler is the concatenation of its stages.  A stage is a sequence of  *)
(* calls, or Return where the handler gives up (Pin could not say which     *)
(* memory is accessed), or Fail where it calls abort().  Return ends the    *)
(* handler and keeps the calls already inserted.                            *)
(****************************************************************************)
EXTENDS Integers, Sequences

CONSTANTS IMPLICIT, Abort

(* An instruction as it is executed: its operands, its address (at), the    *)
(* memory it reads and writes, and the values the inserted checks look at.  *)
(* eflags is the set of the positions of the one bits of the flags          *)
(* register: 0 is CF, 1 is always one, 2 is PF, 6 is ZF, 7 is SF, 11 is OF. *)
NoMemory == [start |-> 0, size |-> 0]

Instruction(op, operands) ==
    [op |-> op, operands |-> operands, at |-> 0, rd |-> NoMemory, rd2 |-> NoMemory,
     wr |-> NoMemory, width |-> 32, eflags |-> {1}, equal |-> FALSE, rep |-> FALSE]

Reg(r) == [kind |-> "reg", reg |-> r]
Mem(b, x) == [kind |-> "mem", base |-> b, index |-> x]
Imm == [kind |-> "imm"]

Operand(i, n) == i.operands[n + 1]
IsReg(i, n) == Operand(i, n).kind = "reg"
IsMem(i, n) == Operand(i, n).kind = "mem"
OperandReg(i, n) == IF IsReg(i, n) THEN Operand(i, n).reg ELSE "INVALID"
IsMemoryRead(i) == i.rd.size > 0
IsMemoryWrite(i) == i.wr.size > 0

------------------------------------------------------------------------------
(* Stages. *)

Return == <<[fn |-> "return"]>>
Fail == <<[fn |-> "abort"]>>

LoadReg(r, set) == <<[fn |-> "TaintForRegister", reg |-> r, set |-> set]>>

LoadMem(ea, regs, set) ==
    <<[fn |-> "TaintForMemory", ea |-> ea, regs |-> regs \ {"INVALID"}, set |-> set]>>

ClearSet(set) == <<[fn |-> "ClearTaintSet", set |-> set]>>

StoreReg(r, prof, sets) ==
    <<[fn |-> "SetTaintForRegister", reg |-> r, sets |-> sets, prof |-> prof]>>

ClearReg(r, prof) == <<[fn |-> "ClearTaintForRegister", reg |-> r, prof |-> prof]>>

StoreMem(ea, prof, sets) ==
    <<[fn |-> "SetTaintForMemory", ea |-> ea, sets |-> sets, prof |-> prof]>>

ClearMem(ea, prof) == <<[fn |-> "ClearTaintForMemory", ea |-> ea, prof |-> prof]>>

\* The if / else if chain that copies the marks of operand n into a bitset;
\* kinds are the operand kinds the chain has a branch for.
Load(i, n, kinds, set) ==
    LET o == Operand(i, n) IN
    CASE o.kind \notin kinds -> Fail
      [] o.kind = "reg" -> LoadReg(o.reg, set)
      [] o.kind = "mem" -> IF IsMemoryRead(i) THEN LoadMem(i.rd, {o.base, o.index}, set)
                                              ELSE Return
      [] o.kind = "imm" -> ClearSet(set)

RM == {"reg", "mem"}
RI == {"reg", "imm"}
RMI == {"reg", "mem", "imm"}

\* The if / else if chain that assigns the union of sets to operand n.
Store(i, n, prof, sets) ==
    CASE IsReg(i, n) -> StoreReg(Operand(i, n).reg, prof, sets)
      [] IsMem(i, n) -> IF IsMemoryWrite(i) THEN StoreMem(i.wr, prof, sets) ELSE Return
      [] OTHER -> Fail

\* #ifdef IMPLICIT around the loads of the address registers of operand n.
LoadAddress(i, n) ==
    IF IMPLICIT THEN LoadReg(Operand(i, n).base, "base") \o LoadReg(Operand(i, n).index, "idx")
                ELSE << >>

\* The bitsets a store to memory takes its marks from: under IMPLICIT those of
\* the address registers too.
WithAddress(sets) == IF IMPLICIT THEN sets \cup {"base", "idx"} ELSE sets

\* The calls that remain inserted when the handler is left.
Inserted(stages) ==
    LET stop == {n \in 1..Len(stages) : stages[n].fn \in {"return", "abort"}} IN
    IF stop = {} THEN stages
    ELSE LET first == CHOOSE n \in stop : \A m \in stop : n <= m IN
         IF stages[first].fn = "abort" THEN Abort ELSE SubSeq(stages, 1, first - 1)

------------------------------------------------------------------------------
(* Arithmetic and logic. *)

Instrument_ADC(i) ==
    Load(i, 0, RM, "dest") \o Load(i, 1, RMI, "src") \o LoadReg("EFLAGS", "eflags")
      \o Store(i, 0, TRUE, {"dest", "src", "eflags"})
      \o StoreReg("EFLAGS", FALSE, {"dest", "src", "eflags"})

Instrument_ADD(i) ==
    Load(i, 0, RM, "dest") \o Load(i, 1, RMI, "src")
      \o Store(i, 0, TRUE, {"dest", "src"})
      \o StoreReg("EFLAGS", FALSE, {"dest", "src"})

Instrument_CMP(i) ==
    Load(i, 0, RM, "dest") \o Load(i, 1, RMI, "src")
      \o StoreReg("EFLAGS", TRUE, {"dest", "src"})

Instrument_TEST(i) ==
    Load(i, 0, RM, "dest") \o Load(i, 1, RI, "src")
      \o StoreReg("EFLAGS", TRUE, {"dest", "src"})

\* DEC, INC: the destination keeps its marks.
Instrument_DEC(i) == Load(i, 0, RM, "dest") \o StoreReg("EFLAGS", TRUE, {"dest"})

Instrument_NEG(i) == Load(i, 0, RM, "dest") \o StoreReg("EFLAGS", TRUE, {"dest"})

Instrument_XOR(i) ==
    Load(i, 0, RM, "dest") \o Load(i, 1, RMI, "src")
      \o (IF IsReg(i, 0) /\ Operand(i, 0) = Operand(i, 1)
          THEN ClearReg(OperandReg(i, 0), TRUE)
          ELSE Store(i, 0, TRUE, {"dest", "src"}))
      \o StoreReg("EFLAGS", FALSE, {"dest", "src"})

\* SAR, SHL, SHR.
Instrument_SAR(i) ==
    Load(i, 0, RM, "dest") \o Load(i, 1, RI, "cnt")
      \o Store(i, 0, TRUE, {"dest", "cnt"})
      \o StoreReg("EFLAGS", FALSE, {"dest", "cnt"})

\* SHLD, SHRD: a count in a register is loaded from operand 0.
Instrument_SHLD(i) ==
    Load(i, 0, RM, "dest") \o LoadReg(OperandReg(i, 1), "cnt")
      \o (CASE IsReg(i, 2) -> LoadReg(OperandReg(i, 0), "src")
            [] Operand(i, 2).kind = "imm" -> ClearSet("src")
            [] OTHER -> Fail)
      \o Store(i, 0, TRUE, {"dest", "src", "cnt"})
      \o StoreReg("EFLAGS", FALSE, {"dest", "src", "cnt"})

\* Only the 32 bit form is known; the others abort.  The flags end cleared.
Instrument_DIV(i) ==
    IF i.width # 32 THEN Fail
    ELSE Load(i, 0, RM, "src") \o LoadReg("EAX", "eax") \o LoadReg("EDX", "edx")
           \o StoreReg("EAX", TRUE, {"eax", "edx", "src"})
           \o StoreReg("EDX", FALSE, {"eax", "edx", "src"})
           \o ClearReg("EFLAGS", TRUE)

Instrument_IDIV(i) ==
    IF i.width # 32 THEN Fail
    ELSE Load(i, 0, RM, "src") \o LoadReg("EDX", "edx") \o LoadReg("EAX", "eax")
           \o StoreReg("EAX", TRUE, {"eax", "edx", "src"})
           \o StoreReg("EDX", FALSE, {"eax", "edx", "src"})
           \o ClearReg("EFLAGS", TRUE)

Instrument_MUL(i) ==
    IF i.width # 32 THEN Fail
    ELSE Load(i, 0, RM, "src") \o LoadReg("EAX", "eax")
           \o StoreReg("EAX", TRUE, {"eax", "src"})
           \o StoreReg("EDX", FALSE, {"eax", "src"})
           \o StoreReg("EFLAGS", FALSE, {"eax", "src"})

\* The marks of a source register are loaded from operand 0.
LoadFactor(i, kinds) ==
    IF IsReg(i, 1) THEN LoadReg(OperandReg(i, 0), "src") ELSE Load(i, 1, kinds, "src")

Instrument_IMUL(i) ==
    CASE Len(i.operands) = 1 -> Instrument_MUL(i)
      [] Len(i.operands) \in {2, 3} ->
           LoadReg(OperandReg(i, 0), "dest")
             \o LoadFactor(i, IF Len(i.operands) = 2 THEN RMI ELSE RM)
             \o StoreReg(OperandReg(i, 0), TRUE, {"dest", "src"})
             \o StoreReg("EFLAGS", FALSE, {"dest", "src"})
      [] OTHER -> Fail

Instrument_CDQ(i) ==
    IF i.width # 32 THEN Fail
    ELSE LoadReg("EAX", "eax") \o StoreReg("EDX", TRUE, {"eax"})

Instrument_CWDE(i) == LoadReg("AX", "dest") \o StoreReg("EAX", TRUE, {"dest"})

\* BSF, BSR.
Instrument_BSF(i) == ClearReg(OperandReg(i, 0), TRUE)

Instrument_CPUID(i) ==
    ClearReg("EAX", TRUE) \o ClearReg("EBX", FALSE)
      \o ClearReg("ECX", FALSE) \o ClearReg("EDX", FALSE)

Instrument_RDTSC(i) == ClearReg("EAX", TRUE) \o ClearReg("EDX", FALSE)

\* CLD, STD.
Instrument_CLD(i) == ClearReg("EFLAGS", TRUE)

\* FNSTCW, STMXCSR.
Instrument_FNSTCW(i) == ClearMem(i.wr, TRUE)

Instrument_FNSTSW(i) == IF IsReg(i, 0) THEN ClearReg(OperandReg(i, 0), TRUE) ELSE << >>

------------------------------------------------------------------------------
(* Data movement. *)

\* MOV, MOVSX, MOVZX, MOVD, MOVQ, MOVDQA, MOVDQU, MOVAPS, ...
Instrument_MOV(i) ==
    Load(i, 1, RMI, "src")
      \o (IF IsMem(i, 0)
          THEN LoadAddress(i, 0)
                 \o (IF IsMemoryWrite(i) THEN StoreMem(i.wr, TRUE, WithAddress({"src"}))
                                         ELSE Return)
          ELSE Store(i, 0, TRUE, {"src"}))

Instrument_MOVSD_XMM(i) == Instrument_MOV(i)

Instrument_POP(i) ==
    IF ~IsMemoryRead(i) THEN Return
    ELSE LoadMem(i.rd, {}, "src")
           \o (IF IsMem(i, 0)
               THEN LoadAddress(i, 0)
                      \o (IF IsMemoryWrite(i) THEN StoreMem(i.wr, TRUE, WithAddress({"src"}))
                                              ELSE Return)
               ELSE Store(i, 0, TRUE, {"src"}))

\* Loads twice and stores nothing.
Instrument_POPFD(i) ==
    IF ~IsMemoryRead(i) THEN Return
    ELSE LoadMem(i.rd, {}, "src") \o LoadReg("EFLAGS", "src")

Instrument_PUSH(i) ==
    Load(i, 0, RMI, "src")
      \o (IF IsMemoryWrite(i) THEN StoreMem(i.wr, TRUE, {"src"}) ELSE Return)

Instrument_PUSHFD(i) == LoadReg("EFLAGS", "src") \o StoreMem(i.wr, TRUE, {"src"})

Instrument_LEA(i) ==
    LoadReg(Operand(i, 1).base, "base") \o LoadReg(Operand(i, 1).index, "idx")
      \o StoreReg(OperandReg(i, 0), TRUE, {"base", "idx"})

Instrument_XADD(i) ==
    Load(i, 0, RM, "dest") \o Load(i, 1, {"reg"}, "src")
      \o Store(i, 0, TRUE, {"dest", "src"})
      \o StoreReg(OperandReg(i, 1), TRUE, {"dest"})
      \o StoreReg("EFLAGS", FALSE, {"dest", "src"})

Instrument_XCHG(i) ==
    Load(i, 0, RM, "dest") \o Load(i, 1, RM, "src")
      \o Store(i, 0, TRUE, {"src"}) \o Store(i, 1, TRUE, {"dest"})

\* MOVSB, MOVSW, MOVSD.
Instrument_MOVS(i) ==
    LoadMem(i.rd, {"ESI"}, "dest") \o LoadMem(i.rd, {"EDI"}, "src")
      \o (IF i.rep THEN LoadReg("ECX", "cnt") \o StoreMem(i.wr, TRUE, {"src", "dest", "cnt"})
                   ELSE StoreMem(i.wr, TRUE, {"src", "dest"}))

\* STOSB from AL; STOSD, which reads AX where it stores four bytes.
Stos(i, reg) ==
    LoadReg(reg, "eax") \o LoadReg("EDI", "src")
      \o (IF IsMemoryWrite(i)
          THEN StoreMem(i.wr, TRUE, IF IMPLICIT THEN {"eax", "src"} ELSE {"eax"})
          ELSE Return)

Instrument_STOSB(i) == Stos(i, "AL")
Instrument_STOSD(i) == Stos(i, "AX")

------------------------------------------------------------------------------
(* String comparison. *)

Instrument_CMPSB(i) ==
    IF ~IsMemoryRead(i) THEN Return
    ELSE LoadMem(i.rd, {"EDI"}, "dest") \o LoadMem(i.rd2, {"ESI"}, "src")
           \o StoreReg("EFLAGS", TRUE, {"dest", "src"})

Instrument_CMPSW(i) ==
    CASE Len(i.operands) = 2 -> Instrument_CMP(i)
      [] Len(i.operands) = 1 -> Load(i, 0, RM, "dest") \o StoreReg("EFLAGS", TRUE, {"dest"})
      [] OTHER -> << >>

Instrument_SCASB(i) ==
    IF ~IsMemoryRead(i) THEN Return
    ELSE LoadMem(i.rd, {"EDI"}, "src") \o LoadReg("AL", "eax")
           \o StoreReg("EFLAGS", TRUE, {"src", "eax"})
           \o (IF i.rep THEN StoreReg("ECX", FALSE, {"src", "eax"}) ELSE << >>)

------------------------------------------------------------------------------
(* Conditional moves and sets. *)

\* eflags & X_MASK, with X_MASK the number 2^bit the macros define.
Masked(eflags, bit) == IF bit \in eflags THEN 2^bit ELSE 0

\* The bit of each mask; the carry flag is bit 0, and CF_MASK is 1 << 1.
CFmask == 1
PFmask == 2
ZFmask == 6
SFmask == 7
OFmask == 11

\* CheckCMOVcc: InsertIfCall runs the store only when the check says so.
CheckCMOV(op, eflags) ==
    LET Is(mask, v) == Masked(eflags, mask) = v
        SameSO == Masked(eflags, SFmask) = Masked(eflags, OFmask)
    IN CASE op = "CMOVNB"  -> Is(CFmask, 0)
         [] op = "CMOVB"   -> Is(CFmask, 1)
         [] op = "CMOVBE"  -> Is(CFmask, 1) \/ Is(ZFmask, 1)
         [] op = "CMOVNLE" -> Is(ZFmask, 0) /\ Is(SFmask, 0)
         [] op = "CMOVNL"  -> SameSO
         [] op = "CMOVL"   -> ~SameSO
         [] op = "CMOVLE"  -> Is(ZFmask, 1) \/ ~SameSO
         [] op = "CMOVNBE" -> Is(CFmask, 0) /\ Is(ZFmask, 0)
         [] op = "CMOVNZ"  -> Is(ZFmask, 0)
         [] op = "CMOVNO"  -> Is(OFmask, 0)
         [] op = "CMOVNP"  -> Is(PFmask, 0)
         [] op = "CMOVNS"  -> Is(SFmask, 0)
         [] op = "CMOVO"   -> Is(OFmask, 1)
         [] op = "CMOVP"   -> Is(PFmask, 1)
         [] op = "CMOVS"   -> Is(SFmask, 1)
         [] op = "CMOVZ"   -> Is(ZFmask, 1)

Instrument_CMOVcc(i) ==
    Load(i, 1, RM, "src")
      \o (IF CheckCMOV(i.op, i.eflags) THEN StoreReg(OperandReg(i, 0), TRUE, {"src"}) ELSE << >>)

\* Into memory the marks come from base, which only IMPLICIT loads.
Instrument_SETcc(i) ==
    LoadReg("EFLAGS", "src")
      \o (CASE IsReg(i, 0) -> StoreReg(OperandReg(i, 0), TRUE, {"src"})
            [] IsMem(i, 0) ->
                 IF IsMemoryWrite(i)
                 THEN LoadAddress(i, 0)
                        \o StoreMem(i.wr, TRUE, IF IMPLICIT THEN {"base", "idx", "src"} ELSE {"base"})
                 ELSE Return
            [] OTHER -> Fail)

\* i.equal says whether the accumulator equals the destination.  The check in
\* front of the second store of the memory form tests for equality too.
CheckNotEqual(i) == IF IsReg(i, 0) THEN ~i.equal ELSE i.equal

Instrument_CMPXCHG(i) ==
    IF i.width # 32 THEN Fail
    ELSE Load(i, 0, RM, "dest") \o LoadReg(OperandReg(i, 1), "src") \o LoadReg("EAX", "eax")
           \o (IF ~i.equal THEN << >>
               ELSE IF IsReg(i, 0) THEN StoreReg(OperandReg(i, 0), TRUE, {"src"})
               ELSE StoreMem(i.wr, TRUE, {"src"}))
           \o (IF CheckNotEqual(i) THEN StoreReg("EAX", TRUE, {"src"}) ELSE << >>)

------------------------------------------------------------------------------
(* SSE. *)

Instrument_PXOR(i) ==
    Load(i, 0, {"reg"}, "dest") \o Load(i, 1, RM, "src")
      \o StoreReg(OperandReg(i, 0), TRUE, {"dest", "src"})

Instrument_PCMPEQB(i) ==
    Load(i, 0, RM, "dest") \o Load(i, 1, RMI, "src") \o Store(i, 0, TRUE, {"dest", "src"})

Instrument_PALIGNR(i) == Instrument_PCMPEQB(i)
Instrument_PSHUFD(i) == Instrument_PCMPEQB(i)
Instrument_XORPS(i) == Instrument_PCMPEQB(i)

Instrument_PMOVMSKB(i) == Load(i, 1, RMI, "src") \o Store(i, 0, TRUE, {"src"})

------------------------------------------------------------------------------
(* The dispatch table of main, and Dataflow, which looks a handler up.  An  *)
(* instruction with no entry gets UnimplementedInstruction, which inserts   *)
(* nothing; many handlers are empty (NOT, ROL, BSWAP, CALL, RET, LEAVE...). *)

MovLike == {"MOV", "MOVSX", "MOVZX", "MOVD", "MOVQ", "MOVDQA", "MOVDQU",
            "MOVAPS", "MOVHPD", "MOVLPD"}
AddLike == {"ADD", "AND", "OR", "SUB", "PSUBB"}
CMOVcc == {"CMOVNLE", "CMOVB", "CMOVNB", "CMOVZ", "CMOVNZ", "CMOVBE", "CMOVNBE", "CMOVS",
           "CMOVNS", "CMOVL", "CMOVNL", "CMOVLE"}
SETcc == {"SETB", "SETNB", "SETZ", "SETNZ", "SETBE", "SETNBE", "SETS", "SETL", "SETNL",
          "SETLE", "SETNLE"}
ShiftLike == {"SAR", "SHL", "SHR"}

Handler(i) ==
    CASE i.op \in AddLike -> Instrument_ADD(i)
      [] i.op \in {"ADC", "SBB"} -> Instrument_ADC(i)
      [] i.op = "CMP" -> Instrument_CMP(i)
      [] i.op = "TEST" -> Instrument_TEST(i)
      [] i.op \in {"DEC", "INC"} -> Instrument_DEC(i)
      [] i.op = "NEG" -> Instrument_NEG(i)
      [] i.op = "XOR" -> Instrument_XOR(i)
      [] i.op \in ShiftLike -> Instrument_SAR(i)
      [] i.op \in {"SHLD", "SHRD"} -> Instrument_SHLD(i)
      [] i.op = "DIV" -> Instrument_DIV(i)
      [] i.op = "IDIV" -> Instrument_IDIV(i)
      [] i.op = "MUL" -> Instrument_MUL(i)
      [] i.op = "IMUL" -> Instrument_IMUL(i)
      [] i.op = "CDQ" -> Instrument_CDQ(i)
      [] i.op = "CWDE" -> Instrument_CWDE(i)
      [] i.op \in {"BSF", "BSR"} -> Instrument_BSF(i)
      [] i.op = "CPUID" -> Instrument_CPUID(i)
      [] i.op = "RDTSC" -> Instrument_RDTSC(i)
      [] i.op \in {"CLD", "STD"} -> Instrument_CLD(i)
      [] i.op \in {"FNSTCW", "STMXCSR"} -> Instrument_FNSTCW(i)
      [] i.op = "FNSTSW" -> Instrument_FNSTSW(i)
      [] i.op \in MovLike -> Instrument_MOV(i)
      [] i.op = "MOVSD_XMM" -> Instrument_MOVSD_XMM(i)
      [] i.op = "POP" -> Instrument_POP(i)
      [] i.op = "POPFD" -> Instrument_POPFD(i)
      [] i.op = "PUSH" -> Instrument_PUSH(i)
      [] i.op = "PUSHFD" -> Instrument_PUSHFD(i)
      [] i.op = "LEA" -> Instrument_LEA(i)
      [] i.op = "XADD" -> Instrument_XADD(i)
      [] i.op = "XCHG" -> Instrument_XCHG(i)
      [] i.op \in {"MOVSB", "MOVSW", "MOVSD"} -> Instrument_MOVS(i)
      [] i.op = "STOSB" -> Instrument_STOSB(i)
      [] i.op = "STOSD" -> Instrument_STOSD(i)
      [] i.op = "CMPSB" -> Instrument_CMPSB(i)
      [] i.op = "CMPSW" -> Instrument_CMPSW(i)
      [] i.op = "SCASB" -> Instrument_SCASB(i)
      [] i.op \in CMOVcc -> Instrument_CMOVcc(i)
      [] i.op \in SETcc -> Instrument_SETcc(i)
      [] i.op = "CMPXCHG" -> Instrument_CMPXCHG(i)
      [] i.op = "PXOR" -> Instrument_PXOR(i)
      [] i.op = "PCMPEQB" -> Instrument_PCMPEQB(i)
      [] i.op = "PALIGNR" -> Instrument_PALIGNR(i)
      [] i.op = "PSHUFD" -> Instrument_PSHUFD(i)
      [] i.op = "XORPS" -> Instrument_XORPS(i)
      [] i.op = "PMOVMSKB" -> Instrument_PMOVMSKB(i)
      [] OTHER -> << >>

Dataflow(i) == Inserted(Handler(i))
==============================================================================
