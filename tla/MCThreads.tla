------------------------------ MODULE MCThreads ------------------------------
(****************************************************************************)
(* Two threads execute a few instructions in any order: one that loads EAX  *)
(* from memory the sources mark, one that stores AL there, one that sets AX *)
(* alone, a branch on the loaded value and the end of its scope, a stack    *)
(* adjustment, an abort.                                                    *)
(****************************************************************************)
EXTENDS TaintEngine, TLC

Handlers == INSTANCE Instrument

R(r) == Handlers!Reg(r)
M == Handlers!Mem("ESI", "INVALID")
Byte == [start |-> 0, size |-> 1]

MCInstructions == [
    load    |-> [Handlers!Instruction("ADD", <<R("EAX"), M>>) EXCEPT !.rd = Byte],
    store   |-> [Handlers!Instruction("MOV", <<M, R("AL")>>) EXCEPT !.wr = Byte],
    stack   |-> Handlers!Instruction("MOV", <<R("ESP"), Handlers!Imm>>),
    scan    |-> Handlers!Instruction("BSF", <<R("AX"), R("AL")>>),
    control |-> [Handlers!Instruction("FNSTCW", <<M>>) EXCEPT !.wr = Byte],
    wide    |-> [Handlers!Instruction("MUL", <<R("AL")>>) EXCEPT !.width = 8]]

MCProgram == DOMAIN MCInstructions \cup {"branch", "join"}

MCAnalysis == [p \in MCProgram |->
    CASE p = "branch" -> <<[fn |-> "PushControl", addr |-> 11]>>
      [] p = "join" -> <<[fn |-> "PopControl", addrs |-> <<11>>]>>
      [] OTHER -> Handlers!Dataflow(MCInstructions[p])]

ThreadSymmetry == Permutations(Threads)

MCREG == {"EAX", "AX", "AH", "AL", "ESI", "ESP", "EFLAGS", "INVALID"}
MCInputs == {Byte}
MCOverwritten == {Byte}
==============================================================================
