----------------------------- MODULE AtomicTaint -----------------------------
(****************************************************************************)
(* The engine implements the taint policy: the analysis calls of one        *)
(* instruction, run one after the other through the global bitsets,         *)
(* together do what the comments of its handler say, at once.               *)
(*                                                                          *)
(* before is a history variable: the maps when the current instruction was  *)
(* reached.  code is the program being monitored, one of Codes.             *)
(****************************************************************************)
EXTENDS TaintEngine

CONSTANTS
    Codes,    \* the programs to consider: sets of instructions
    Effects   \* Effects[i]: what the policy says of instruction i

VARIABLES code, before

allVars == <<vars, code, before>>

Now == [reg |-> regTaintMap, mem |-> memTaintMap, control |-> controlTaintMap]

InitA == Init /\ code \in Codes /\ before = Now

NextA ==
    /\ NextOf(code)
    /\ before' = IF \E t \in Threads : ins[t] = Idle /\ ins'[t] # Idle THEN Now ELSE before
    /\ UNCHANGED code

SpecA == InitA /\ [][NextA]_allVars

------------------------------------------------------------------------------
Thread == CHOOSE t \in Threads : TRUE

\* What the policy sees: the maps as the last finished instruction left them.
Seen == IF ins[Thread] = Idle THEN Now ELSE before

Policy == INSTANCE TaintPolicy WITH
    reg <- Seen.reg,
    mem <- Seen.mem,
    control <- Seen.control,
    now <- ins[Thread],
    Parts <- [r \in REG |-> REG \cap SubRegisters(r)],
    Inputs <- {Bytes(ea) : ea \in Inputs},
    Overwritten <- {Bytes(ea) : ea \in Overwritten}

\* The engine of dytan.cpp, driven by the handlers of instrument_functions.c and
\* by Controlflow, implements the policy their comments state ("dest, eflags <-
\* union(dest, src)", "dest <- src"...): whatever marks earlier instructions left
\* in the global bitsets, a finished instruction has moved exactly the marks its
\* sources had before it, and added the marks of the open branches.
ImplementsPolicy == Policy!Spec
==============================================================================
