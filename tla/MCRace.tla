------------------------------- MODULE MCRace --------------------------------
(* Two threads, each of which may move a byte of memory to a register or a  *)
(* register to another byte.                                                *)
EXTENDS ThreadedTaint

Handlers == INSTANCE Instrument

M == Handlers!Mem("ESI", "INVALID")
Byte(a) == [start |-> a, size |-> 1]

MCInstructions == [
    load  |-> [Handlers!Instruction("MOV", <<Handlers!Reg("AL"), M>>) EXCEPT !.rd = Byte(0)],
    store |-> [Handlers!Instruction("MOV", <<M, Handlers!Reg("DL")>>) EXCEPT !.wr = Byte(1)]]

MCProgram == DOMAIN MCInstructions
MCAnalysis == [p \in MCProgram |-> Handlers!Dataflow(MCInstructions[p])]
MCREG == {"AL", "DL", "ESI", "EFLAGS", "INVALID"}
MCInputs == {Byte(0)}
==============================================================================
