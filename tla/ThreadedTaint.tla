---------------------------- MODULE ThreadedTaint ----------------------------
(****************************************************************************)
(* Several threads of the monitored program.  Pin runs the analysis calls   *)
(* of different threads at the same time; they share the global bitsets.    *)
(*                                                                          *)
(* loaded is a history variable: what each thread last loaded into each of  *)
(* the bitsets.                                                             *)
(****************************************************************************)
EXTENDS TaintEngine

VARIABLE loaded

InitT == Init /\ loaded = [t \in Threads |-> [s \in SLOT |-> {}]]

Loads == {"TaintForRegister", "TaintForMemory", "ClearTaintSet"}

NextT ==
    /\ Next
    /\ loaded' = [t \in Threads |->
          IF calls[t] # << >> /\ calls'[t] # calls[t] /\ Head(calls[t]).fn \in Loads
          THEN [loaded[t] EXCEPT ![Head(calls[t]).set] = scratch'[Head(calls[t]).set]]
          ELSE loaded[t]]

SpecT == InitT /\ [][NextT]_<<vars, loaded>>

\* The handlers of instrument_functions.c state their effect on the operands of
\* the instruction alone, as in "dest, eflags <- union(dest, src)": when a thread
\* stores the union of some of the global bitsets, they hold what that thread
\* loaded for this instruction.
OwnOperands ==
    \A t \in Threads :
       calls[t] # << >> /\ Head(calls[t]).fn \in {"SetTaintForRegister", "SetTaintForMemory"}
          => \A s \in Head(calls[t]).sets : scratch[s] = loaded[t][s]
==============================================================================
