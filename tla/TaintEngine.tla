----------------------------- MODULE TaintEngine -----------------------------
(****************************************************************************)
(* The taint propagation engine of dytan.cpp.                               *)
(*                                                                          *)
(* Pin runs, before each instruction of the monitored program, the analysis *)
(* calls that instrument_functions.c and Controlflow inserted for it.  The  *)
(* calls of one instruction communicate only through eight global bitsets   *)
(* (dest, src, eax, edx, base, idx, eflags, cnt), and every thread of the   *)
(* monitored program uses the same eight, the same register map and the     *)
(* same memory map, without a lock.  A step of this specification is one    *)
(* analysis call.                                                           *)
(****************************************************************************)
EXTENDS TaintMaps, TaintGenerator, Sequences

CONSTANTS
    Threads,        \* the threads of the monitored program
    REG,            \* registers, by name
    Addresses,      \* byte addresses
    Branches,       \* addresses of conditional branches
    Program,        \* the instructions the program may execute
    Analysis,       \* Analysis[i]: the calls inserted before instruction i
    Inputs,         \* memory ranges a taint source may mark
    Overwritten,    \* memory ranges a system call may overwrite
    IMPLICIT,       \* the build option of that name
    PROFILING,      \* profiling_markop
    WORD_SIZE,      \* word_size when word is set, 1 otherwise
    Idle,           \* "no instruction"
    Abort           \* "the handler aborts the tool"

\* A range of memory: start, start + 1, ..., start + size - 1.
Bytes(ea) == ea.start .. (ea.start + ea.size - 1)

EA == {ea \in [start : Int, size : Nat] : Bytes(ea) \subseteq Addresses}

\* The eight global bitsets.
SLOT == {"dest", "src", "eax", "edx", "base", "idx", "eflags", "cnt"}

\* The analysis functions with the arguments the instrumentation gives them.
\* sets are the bitsets of the varargs list, prof the to_profile argument.
Call ==
    [fn : {"TaintForRegister"}, reg : REG, set : SLOT]
      \cup [fn : {"TaintForMemory"}, ea : EA, regs : SUBSET REG, set : SLOT]
      \cup [fn : {"ClearTaintSet"}, set : SLOT]
      \cup [fn : {"SetTaintForRegister"}, reg : REG, sets : SUBSET SLOT, prof : BOOLEAN]
      \cup [fn : {"ClearTaintForRegister"}, reg : REG, prof : BOOLEAN]
      \cup [fn : {"SetTaintForMemory"}, ea : EA, sets : SUBSET SLOT, prof : BOOLEAN]
      \cup [fn : {"ClearTaintForMemory"}, ea : EA, prof : BOOLEAN]
      \cup [fn : {"PushControl"}, addr : Branches]
      \cup [fn : {"PopControl"}, addrs : Seq(Branches)]

ASSUME ProgramAssumption == Idle \notin Program

ASSUME AnalysisAssumption == \A i \in Program : Analysis[i] \in Seq(Call) \cup {Abort}

ASSUME AbortAssumption == Abort \notin Seq(Call)

ASSUME RangesAssumption == Inputs \subseteq EA /\ Overwritten \subseteq EA

ASSUME OptionsAssumption == /\ IMPLICIT \in BOOLEAN
                            /\ PROFILING \in BOOLEAN
                            /\ WORD_SIZE \in Nat \ {0}

ASSUME FlagsAssumption == "EFLAGS" \in REG

VARIABLES
    regTaintMap,      \* map<REG, bitset *>
    memTaintMap,      \* map<ADDRINT, bitset *>
    controlTaintMap,  \* map<ADDRINT, bitset *>, keyed by branch address
    scratch,          \* the eight global bitsets
    gen,              \* the TaintGenerator: _start and _current (_max is constant)
    issued,           \* history: the marks nextTaintMark has returned
    prof_stream,      \* the instructions whose marks are in the profiling stream
    profilingMap,     \* the keys of profilingMap: the instructions with marks in
                      \* the key, and the one whose opcode ends it
    ins,              \* ins[t]: the instruction thread t is about to execute
    calls,            \* calls[t]: the analysis calls still to run before it
    running           \* FALSE once the tool has called abort()

vars == <<regTaintMap, memTaintMap, controlTaintMap, scratch, gen, issued,
          prof_stream, profilingMap, ins, calls, running>>

maps == <<regTaintMap, memTaintMap, controlTaintMap>>
profile == <<prof_stream, profilingMap>>
generator == <<gen, issued>>
machine == <<ins, running>>

TypeOK ==
    /\ IsTaintMap(regTaintMap, REG, Mark)
    /\ IsTaintMap(memTaintMap, Addresses, Mark)
    /\ IsTaintMap(controlTaintMap, Branches, Mark)
    /\ scratch \in [SLOT -> SUBSET Mark]
    /\ gen \in [start : Mark, current : Mark]
    /\ issued \in SUBSET Mark
    /\ prof_stream \in SUBSET Program
    /\ profilingMap \in SUBSET [from : SUBSET Program, op : Program]
    /\ ins \in [Threads -> Program \cup {Idle}]
    /\ calls \in [Threads -> Seq(Call)]
    /\ running \in BOOLEAN

Init ==
    /\ regTaintMap = NoEntries
    /\ memTaintMap = NoEntries
    /\ controlTaintMap = NoEntries
    /\ scratch = [s \in SLOT |-> {}]
    /\ gen = [start |-> 0, current |-> 0]
    /\ issued = {}
    /\ prof_stream = {}
    /\ profilingMap = {}
    /\ ins = [t \in Threads |-> Idle]
    /\ calls = [t \in Threads |-> << >>]
    /\ running = TRUE

------------------------------------------------------------------------------
(* Thread t reaches instruction i, and leaves it once its calls have run. *)

Execute(t, i) ==
    /\ running /\ ins[t] = Idle /\ Analysis[i] # Abort
    /\ ins' = [ins EXCEPT ![t] = i]
    /\ calls' = [calls EXCEPT ![t] = Analysis[i]]
    /\ UNCHANGED <<maps, scratch, generator, profile, running>>

Retire(t) ==
    /\ running /\ ins[t] # Idle /\ calls[t] = << >>
    /\ ins' = [ins EXCEPT ![t] = Idle]
    /\ UNCHANGED <<maps, scratch, generator, profile, calls, running>>

\* Pin asks for the instrumentation of i and the handler calls abort(): an
\* operand of a kind or a width it does not know.
AbortTool(t, i) ==
    /\ running /\ ins[t] = Idle /\ Analysis[i] = Abort
    /\ running' = FALSE
    /\ UNCHANGED <<maps, scratch, generator, profile, ins, calls>>

\* The tool is gone; nothing changes any more.
Stopped == ~running /\ UNCHANGED vars

\* Thread t runs the call fn, the first of those it still has to run.
Runs(t, fn) ==
    /\ running /\ calls[t] # << >> /\ Head(calls[t]).fn = fn
    /\ calls' = [calls EXCEPT ![t] = Tail(@)]

------------------------------------------------------------------------------
(* Loading marks into the global bitsets. *)

\* prof_stream << bitset_str(...) while thread t's instruction is analysed.
ProfAppend(t, appends) ==
    /\ prof_stream' = IF PROFILING /\ appends THEN prof_stream \cup {ins[t]}
                                              ELSE prof_stream
    /\ UNCHANGED profilingMap

ClearTaintSet(t) ==
    /\ Runs(t, "ClearTaintSet")
    /\ scratch' = [scratch EXCEPT ![Head(calls[t]).set] = {}]
    /\ UNCHANGED <<maps, generator, profile, machine>>

\* Mutant: the bitset is not reset when the register has no entry.
TaintForRegisterNoReset(t) ==
    LET c == Head(calls[t]) IN
    /\ Runs(t, "TaintForRegister")
    /\ scratch' = IF c.reg \in DOMAIN regTaintMap
                  THEN [scratch EXCEPT ![c.set] = regTaintMap[c.reg]] ELSE scratch
    /\ ProfAppend(t, TRUE)
    /\ UNCHANGED <<maps, generator, machine>>

TaintForRegister(t) ==
    LET c == Head(calls[t]) IN
    /\ Runs(t, "TaintForRegister")
    /\ scratch' = [scratch EXCEPT ![c.set] = MarksOf(regTaintMap, c.reg)]
    /\ ProfAppend(t, TRUE)
    /\ UNCHANGED <<maps, generator, machine>>

\* The marks of the bytes, and under IMPLICIT those of the registers the
\* address was computed from.
MarksRead(ea, regs) ==
    UnionOf(memTaintMap, Bytes(ea))
        \cup (IF IMPLICIT THEN UnionOf(regTaintMap, regs) ELSE {})

\* With the word option only the first byte of each word goes to the stream.
ProfiledBytes(ea) == {a \in Bytes(ea) : (a - ea.start) % WORD_SIZE = 0}

TaintForMemory(t) ==
    LET c == Head(calls[t]) IN
    /\ Runs(t, "TaintForMemory")
    /\ scratch' = [scratch EXCEPT ![c.set] = MarksRead(c.ea, c.regs)]
    /\ ProfAppend(t, \/ ProfiledBytes(c.ea) \cap DOMAIN memTaintMap # {}
                     \/ IMPLICIT /\ c.regs \cap DOMAIN regTaintMap # {})
    /\ UNCHANGED <<maps, generator, machine>>

------------------------------------------------------------------------------
(* Storing marks into registers and memory. *)

\* Mutant: the stream is not emptied.
ProfFlushKeeps(t, prof) ==
    /\ profilingMap' = IF PROFILING /\ prof
                       THEN profilingMap \cup {[from |-> prof_stream, op |-> ins[t]]}
                       ELSE profilingMap
    /\ UNCHANGED prof_stream

\* The four store functions add the marks of the open branches to the stream;
\* with the opcode it becomes a key, and it starts again empty.
ProfFlush(t, prof) ==
    IF PROFILING /\ prof
    THEN /\ profilingMap' = profilingMap \cup
               {[from |-> IF DOMAIN controlTaintMap = {} THEN prof_stream
                          ELSE prof_stream \cup {ins[t]},
                 op |-> ins[t]]}
         /\ prof_stream' = {}
    ELSE UNCHANGED profile

SubRegisters(reg) ==
    CASE reg = "EAX" -> {"AX", "AH", "AL"} [] reg = "AX" -> {"AH", "AL"}
      [] reg = "EBX" -> {"BX", "BH", "BL"} [] reg = "BX" -> {"BH", "BL"}
      [] reg = "ECX" -> {"CX", "CH", "CL"} [] reg = "CX" -> {"CH", "CL"}
      [] reg = "EDX" -> {"DX", "DH", "DL"} [] reg = "DX" -> {"DH", "DL"}
      [] OTHER -> {}

\* The registers a store into reg updates.
Covered(reg) == REG \cap ({reg} \cup SubRegisters(reg))

\* Dytan keeps no marks for the stack and the frame pointer.
Untracked == {"ESP", "EBP"}

\* Mutant: the bitset for the union is not zeroed when it is allocated.
ControlTaintUnzeroed == IF DOMAIN controlTaintMap = {} THEN Mark ELSE AllMarks(controlTaintMap)

ControlTaint == AllMarks(controlTaintMap)

\* Mutant: the marks of the open branches are left out.
StoredDataOnly(sets) == UNION {scratch[s] : s \in sets}

Stored(sets) == (UNION {scratch[s] : s \in sets}) \cup ControlTaint

\* Mutant: the parts of the register are not updated.
SetTaintForRegisterWhole(t) ==
    LET c == Head(calls[t]) IN
    /\ Runs(t, "SetTaintForRegister")
    /\ IF c.reg \in Untracked
       THEN UNCHANGED <<regTaintMap, profile>>
       ELSE /\ regTaintMap' = Put(regTaintMap, {c.reg}, Stored(c.sets))
            /\ ProfFlush(t, c.prof)
    /\ UNCHANGED <<memTaintMap, controlTaintMap, scratch, generator, machine>>

SetTaintForRegister(t) ==
    LET c == Head(calls[t]) IN
    /\ Runs(t, "SetTaintForRegister")
    /\ IF c.reg \in Untracked
       THEN UNCHANGED <<regTaintMap, profile>>
       ELSE /\ regTaintMap' = Put(regTaintMap, Covered(c.reg), Stored(c.sets))
            /\ ProfFlush(t, c.prof)
    /\ UNCHANGED <<memTaintMap, controlTaintMap, scratch, generator, machine>>

ClearTaintForRegister(t) ==
    LET c == Head(calls[t]) IN
    /\ Runs(t, "ClearTaintForRegister")
    /\ regTaintMap' = Overwrite(regTaintMap, Covered(c.reg), ControlTaint)
    /\ ProfFlush(t, c.prof)
    /\ UNCHANGED <<memTaintMap, controlTaintMap, scratch, generator, machine>>

SetTaintForMemory(t) ==
    LET c == Head(calls[t]) IN
    /\ Runs(t, "SetTaintForMemory")
    /\ memTaintMap' = Put(memTaintMap, Bytes(c.ea), Stored(c.sets))
    /\ ProfFlush(t, c.prof)
    /\ UNCHANGED <<regTaintMap, controlTaintMap, scratch, generator, machine>>

ClearTaintForMemory(t) ==
    LET c == Head(calls[t]) IN
    /\ Runs(t, "ClearTaintForMemory")
    /\ memTaintMap' = Overwrite(memTaintMap, Bytes(c.ea), ControlTaint)
    /\ ProfFlush(t, c.prof)
    /\ UNCHANGED <<regTaintMap, controlTaintMap, scratch, generator, machine>>

------------------------------------------------------------------------------
(* Control flow: marks that are active between a branch and its immediate   *)
(* postdominator.                                                           *)

PushControl(t) ==
    LET addr == Head(calls[t]).addr
        flags == MarksOf(regTaintMap, "EFLAGS")
    IN
    /\ Runs(t, "PushControl")
    /\ controlTaintMap' =
           IF flags = {} THEN controlTaintMap
           ELSE Put(controlTaintMap, {addr}, MarksOf(controlTaintMap, addr) \cup flags)
    /\ UNCHANGED <<regTaintMap, memTaintMap, scratch, generator, profile, machine>>

\* Mutant: the loop stops one address early.
PoppedShort(addrs) ==
    {addrs[n] : n \in {m \in 1..(Len(addrs) - 1) :
                          \A k \in 1..m : addrs[k] \in DOMAIN controlTaintMap}}

\* The addresses before the first one that has no entry: the loop returns there.
Popped(addrs) ==
    {addrs[n] : n \in {m \in 1..Len(addrs) :
                          \A k \in 1..m : addrs[k] \in DOMAIN controlTaintMap}}

PopControl(t) ==
    /\ Runs(t, "PopControl")
    /\ controlTaintMap' = Erase(controlTaintMap, Popped(Head(calls[t]).addrs))
    /\ UNCHANGED <<regTaintMap, memTaintMap, scratch, generator, profile, machine>>

------------------------------------------------------------------------------
(* Taint sources and the system calls that overwrite memory. *)

\* Mutant: memory gets the mark after the one the generator returned.
SetNewTaintForMemoryLate(t, ea) ==
    /\ running /\ ins[t] = Idle
    /\ memTaintMap' = Put(memTaintMap, Bytes(ea), {nextTaintMark(gen).current})
    /\ gen' = nextTaintMark(gen)
    /\ issued' = issued \cup {gen.current}
    /\ UNCHANGED <<regTaintMap, controlTaintMap, scratch, profile, ins, calls, running>>

\* The mark argument is optional and no caller gives one: the generator does.
SetNewTaintForMemory(t, ea) ==
    /\ running /\ ins[t] = Idle
    /\ memTaintMap' = Put(memTaintMap, Bytes(ea), {gen.current})
    /\ gen' = nextTaintMark(gen)
    /\ issued' = issued \cup {gen.current}
    /\ UNCHANGED <<regTaintMap, controlTaintMap, scratch, profile, ins, calls, running>>

\* After the arguments of main are tainted, once, their marks are set aside:
\* from now on the generator wraps around to the mark it has reached.
SetNewTaintStart(t) ==
    /\ running /\ ins[t] = Idle /\ gen.start = 0
    /\ gen' = [start |-> gen.current, current |-> gen.current]
    /\ UNCHANGED <<maps, scratch, issued, profile, ins, calls, running>>

\* A system call writes its result: the entries of the buffer are erased.
SyscallOverwrites(t, ea) ==
    /\ running /\ ins[t] = Idle
    /\ memTaintMap' = Erase(memTaintMap, Bytes(ea))
    /\ UNCHANGED <<regTaintMap, controlTaintMap, scratch, generator, profile, ins, calls, running>>

------------------------------------------------------------------------------
AnalysisCall(t) ==
    \/ ClearTaintSet(t) \/ TaintForRegister(t) \/ TaintForMemory(t)
    \/ SetTaintForRegister(t) \/ ClearTaintForRegister(t)
    \/ SetTaintForMemory(t) \/ ClearTaintForMemory(t)
    \/ PushControl(t) \/ PopControl(t)

\* The steps while the monitored program is made of the instructions in code.
NextOf(code) ==
    \/ \E t \in Threads :
          \/ \E i \in code : Execute(t, i) \/ AbortTool(t, i)
          \/ AnalysisCall(t)
          \/ Retire(t)
          \/ \E ea \in Inputs : SetNewTaintForMemory(t, ea)
          \/ SetNewTaintStart(t)
          \/ \E ea \in Overwritten : SyscallOverwrites(t, ea)
    \/ Stopped

Next == NextOf(Program)

Spec == Init /\ [][Next]_vars

------------------------------------------------------------------------------
(* Properties. *)

\* A store into a register updates the registers that are part of it (the long
\* case analysis of SetTaintForRegister), so whenever a register has an entry its
\* parts have one: a later read of AL never misses what was stored in EAX or AX.
\* The comment in front of the case analysis says otherwise of AX, BX, CX and DX:
\* "setting [A|B|C|D]X won't set the super or subregisters".  The code does set AH
\* and AL with AX, but not EAX; this is what the code does.  The stack and the frame
\* pointer never get an entry.
RegisterEntries ==
    /\ \A r \in DOMAIN regTaintMap : Covered(r) \subseteq DOMAIN regTaintMap
    /\ Untracked \cap DOMAIN regTaintMap = {}

\* "After all marks have been used, Dytan starts reassigning them" (README): the
\* generator gives a mark to a second input only when no mark from its start on
\* is unused, wherever SetNewTaintStart has moved the start to.
FreshMarks ==
    /\ gen.start <= gen.current
    /\ gen.current \in issued => gen.start .. (NUMBER_OF_TAINT_MARKS - 1) \subseteq issued

\* The marks in use: in registers, in memory, of a branch, or in a global bitset.
Live == AllMarks(regTaintMap) \cup AllMarks(memTaintMap) \cup AllMarks(controlTaintMap)
          \cup AllMarks(scratch)

\* No marks are in use but the ones some source has handed out.
MarksIssued == Live \subseteq issued

\* Propagation moves marks and never makes one: an analysis call, of whichever
\* thread and however interleaved, leaves no mark in use that was not in use
\* before.  A mark that is gone comes back only from a source, as the next mark of
\* the generator.
MarksConserved ==
    [][Live' \subseteq Live \cup (IF calls' = calls THEN {gen.current} ELSE {})]_vars
==============================================================================
