------------------------- MODULE TaintEngine_proofs --------------------------
(****************************************************************************)
(* Proofs about the taint engine, for any number of threads, any registers, *)
(* any memory, any program and any instrumentation of it.                   *)
(****************************************************************************)
EXTENDS TaintEngine, TaintGenerator_proofs

------------------------------------------------------------------------------
(* Taint maps. *)

\* The map operations of TaintMaps keep a taint map a taint map.
LEMMA MapOperations ==
    ASSUME NEW K, NEW M, NEW map, IsTaintMap(map, K, M),
           NEW L, NEW marks \in SUBSET M
    PROVE  /\ L \subseteq K => IsTaintMap(Put(map, L, marks), K, M)
           /\ IsTaintMap(Overwrite(map, L, marks), K, M)
           /\ IsTaintMap(Erase(map, L), K, M)
  BY DEF IsTaintMap, Put, Overwrite, Erase

\* What is read from a taint map is a set of marks.
LEMMA MapReads ==
    ASSUME NEW K, NEW M, NEW map, IsTaintMap(map, K, M)
    PROVE  /\ \A k : MarksOf(map, k) \in SUBSET M
           /\ \A L : UnionOf(map, L) \in SUBSET M
           /\ AllMarks(map) \in SUBSET M
  BY DEF IsTaintMap, MarksOf, UnionOf, AllMarks

------------------------------------------------------------------------------
(* Analysis calls. *)

\* The arguments an analysis function is called with are of the types it expects.
LEMMA CallArguments ==
    ASSUME NEW c \in Call
    PROVE  /\ c.fn = "ClearTaintSet" => c.set \in SLOT
           /\ c.fn = "TaintForRegister" => c.reg \in REG /\ c.set \in SLOT
           /\ c.fn = "TaintForMemory" => c.ea \in EA /\ c.regs \in SUBSET REG /\ c.set \in SLOT
           /\ c.fn = "SetTaintForRegister" => c.reg \in REG /\ c.sets \in SUBSET SLOT
           /\ c.fn = "ClearTaintForRegister" => c.reg \in REG
           /\ c.fn = "SetTaintForMemory" => c.ea \in EA /\ c.sets \in SUBSET SLOT
           /\ c.fn = "ClearTaintForMemory" => c.ea \in EA
           /\ c.fn = "PushControl" => c.addr \in Branches
  BY DEF Call

\* The call a thread runs is one of Call, and what is left are calls.
LEMMA FirstCall ==
    ASSUME TypeOK, NEW t \in Threads, NEW fn, Runs(t, fn)
    PROVE  /\ Head(calls[t]) \in Call
           /\ Head(calls[t]).fn = fn
           /\ calls' \in [Threads -> Seq(Call)]
  BY DEF TypeOK, Runs

\* A store writes marks.
LEMMA StoredMarks ==
    ASSUME TypeOK, NEW sets \in SUBSET SLOT
    PROVE  Stored(sets) \in SUBSET Mark /\ ControlTaint \in SUBSET Mark
  <1>1. AllMarks(controlTaintMap) \in SUBSET Mark
    BY MapReads DEF TypeOK
  <1> QED  BY <1>1 DEF TypeOK, Stored, ControlTaint

------------------------------------------------------------------------------
(* Type correctness. *)

\* Appending to the profiling stream and flushing it keep both well typed.
LEMMA ProfileType ==
    ASSUME TypeOK, NEW t \in Threads, ins[t] # Idle,
           NEW b, ProfAppend(t, b) \/ ProfFlush(t, b) \/ UNCHANGED profile
    PROVE  /\ prof_stream' \in SUBSET Program
           /\ profilingMap' \in SUBSET [from : SUBSET Program, op : Program]
  BY DEF TypeOK, ProfAppend, ProfFlush, profile

\* The generator stays within its range and hands out a mark.
LEMMA GeneratorType ==
    ASSUME TypeOK
    PROVE  nextTaintMark(gen) \in [start : Mark, current : Mark]
  BY NextMark DEF TypeOK

\* A thread between two instructions has no calls left to run.
IdleThreads == \A t \in Threads : ins[t] = Idle => calls[t] = << >>

TypeInv == TypeOK /\ IdleThreads

LEMMA TypeInit == Init => TypeInv
  BY MarksAssumption
  DEF Init, TypeInv, TypeOK, IdleThreads, IsTaintMap, NoEntries, Mark

\* A step that runs a call of thread t keeps what TypeInv says of the machine.
LEMMA MachineType ==
    ASSUME TypeInv, NEW t \in Threads, NEW fn, Runs(t, fn), UNCHANGED machine
    PROVE  /\ ins[t] # Idle
           /\ IdleThreads'
           /\ ins' \in [Threads -> Program \cup {Idle}]
           /\ running' \in BOOLEAN
  BY DEF TypeInv, TypeOK, IdleThreads, Runs, machine

LEMMA TypeNext == TypeInv /\ [Next]_vars => TypeInv'
  <1> SUFFICES ASSUME TypeInv, [Next]_vars PROVE TypeInv'
    OBVIOUS
  <1> USE DEF TypeInv
  <1>1. ASSUME NEW t \in Threads, NEW i \in Program, Execute(t, i) PROVE TypeInv'
    <2>1. Analysis[i] \in Seq(Call)
      BY <1>1, AnalysisAssumption DEF Execute
    <2>2. calls' \in [Threads -> Seq(Call)] /\ ins' \in [Threads -> Program \cup {Idle}]
      BY <1>1, <2>1 DEF Execute, TypeOK
    <2>3. IdleThreads'
      BY <1>1, ProgramAssumption DEF Execute, TypeOK, IdleThreads
    <2> QED  BY <1>1, <2>2, <2>3 DEF Execute, TypeOK, maps, generator, profile
  <1>2. ASSUME NEW t \in Threads, NEW i \in Program, AbortTool(t, i) PROVE TypeInv'
    BY <1>2 DEF AbortTool, TypeOK, IdleThreads, maps, generator, profile
  <1>3. ASSUME NEW t \in Threads, Retire(t) PROVE TypeInv'
    BY <1>3 DEF Retire, TypeOK, IdleThreads, maps, generator, profile
  <1>4. ASSUME NEW t \in Threads, ClearTaintSet(t) PROVE TypeInv'
    <2>1. Head(calls[t]).set \in SLOT /\ calls' \in [Threads -> Seq(Call)]
      BY <1>4, FirstCall, CallArguments DEF ClearTaintSet
    <2>2. scratch' \in [SLOT -> SUBSET Mark]
      BY <1>4, <2>1 DEF ClearTaintSet, TypeOK
    <2> QED  BY <1>4, <2>1, <2>2, MachineType
             DEF ClearTaintSet, TypeOK, maps, generator, profile
  <1>5. ASSUME NEW t \in Threads, TaintForRegister(t) PROVE TypeInv'
    <2>1. Head(calls[t]).set \in SLOT /\ calls' \in [Threads -> Seq(Call)]
      BY <1>5, FirstCall, CallArguments DEF TaintForRegister
    <2>2. MarksOf(regTaintMap, Head(calls[t]).reg) \in SUBSET Mark
      BY MapReads DEF TypeOK
    <2>3. scratch' \in [SLOT -> SUBSET Mark]
      BY <1>5, <2>1, <2>2 DEF TaintForRegister, TypeOK
    <2>4. Runs(t, "TaintForRegister") /\ UNCHANGED machine /\ ProfAppend(t, TRUE)
      BY <1>5 DEF TaintForRegister
    <2>5. ins[t] # Idle
      BY <2>4, MachineType
    <2> QED  BY <1>5, <2>1, <2>3, <2>4, <2>5, MachineType, ProfileType
             DEF TaintForRegister, TypeOK, maps, generator
  <1>6. ASSUME NEW t \in Threads, TaintForMemory(t) PROVE TypeInv'
    <2> DEFINE c == Head(calls[t])
    <2>1. c.set \in SLOT /\ calls' \in [Threads -> Seq(Call)]
      BY <1>6, FirstCall, CallArguments DEF TaintForMemory
    <2>2. MarksRead(c.ea, c.regs) \in SUBSET Mark
      BY MapReads DEF TypeOK, MarksRead
    <2>3. scratch' \in [SLOT -> SUBSET Mark]
      BY <1>6, <2>1, <2>2 DEF TaintForMemory, TypeOK
    <2>4. PICK b : Runs(t, "TaintForMemory") /\ UNCHANGED machine /\ ProfAppend(t, b)
      BY <1>6 DEF TaintForMemory
    <2>5. ins[t] # Idle
      BY <2>4, MachineType
    <2> QED  BY <1>6, <2>1, <2>3, <2>4, <2>5, MachineType, ProfileType
             DEF TaintForMemory, TypeOK, maps, generator
  <1>7. ASSUME NEW t \in Threads, SetTaintForRegister(t) PROVE TypeInv'
    <2> DEFINE c == Head(calls[t])
    <2>1. c.reg \in REG /\ c.sets \in SUBSET SLOT /\ calls' \in [Threads -> Seq(Call)]
      BY <1>7, FirstCall, CallArguments DEF SetTaintForRegister
    <2>2. IsTaintMap(Put(regTaintMap, Covered(c.reg), Stored(c.sets)), REG, Mark)
      BY <2>1, StoredMarks, MapOperations DEF TypeOK, Covered
    <2>3. IsTaintMap(regTaintMap', REG, Mark)
      BY <1>7, <2>2 DEF SetTaintForRegister, TypeOK
    <2>4. /\ Runs(t, "SetTaintForRegister") /\ UNCHANGED machine
          /\ ProfFlush(t, c.prof) \/ UNCHANGED profile
      BY <1>7 DEF SetTaintForRegister
    <2>5. ins[t] # Idle
      BY <2>4, MachineType
    <2> QED  BY <1>7, <2>1, <2>3, <2>4, <2>5, MachineType, ProfileType
             DEF SetTaintForRegister, TypeOK, generator
  <1>8. ASSUME NEW t \in Threads, ClearTaintForRegister(t) PROVE TypeInv'
    <2> DEFINE c == Head(calls[t])
    <2>1. calls' \in [Threads -> Seq(Call)]
      BY <1>8, FirstCall DEF ClearTaintForRegister
    <2>2. IsTaintMap(Overwrite(regTaintMap, Covered(c.reg), ControlTaint), REG, Mark)
      BY StoredMarks, MapOperations DEF TypeOK
    <2>3. /\ Runs(t, "ClearTaintForRegister") /\ UNCHANGED machine
          /\ ProfFlush(t, c.prof)
      BY <1>8 DEF ClearTaintForRegister
    <2>4. ins[t] # Idle
      BY <2>3, MachineType
    <2> QED  BY <1>8, <2>1, <2>2, <2>3, <2>4, MachineType, ProfileType
             DEF ClearTaintForRegister, TypeOK, generator
  <1>9. ASSUME NEW t \in Threads, SetTaintForMemory(t) PROVE TypeInv'
    <2> DEFINE c == Head(calls[t])
    <2>1. c.ea \in EA /\ c.sets \in SUBSET SLOT /\ calls' \in [Threads -> Seq(Call)]
      BY <1>9, FirstCall, CallArguments DEF SetTaintForMemory
    <2>2. IsTaintMap(Put(memTaintMap, Bytes(c.ea), Stored(c.sets)), Addresses, Mark)
      BY <2>1, StoredMarks, MapOperations DEF TypeOK, EA
    <2>3. /\ Runs(t, "SetTaintForMemory") /\ UNCHANGED machine
          /\ ProfFlush(t, c.prof)
      BY <1>9 DEF SetTaintForMemory
    <2>4. ins[t] # Idle
      BY <2>3, MachineType
    <2> QED  BY <1>9, <2>1, <2>2, <2>3, <2>4, MachineType, ProfileType
             DEF SetTaintForMemory, TypeOK, generator
  <1>10. ASSUME NEW t \in Threads, ClearTaintForMemory(t) PROVE TypeInv'
    <2> DEFINE c == Head(calls[t])
    <2>1. calls' \in [Threads -> Seq(Call)]
      BY <1>10, FirstCall DEF ClearTaintForMemory
    <2>2. IsTaintMap(Overwrite(memTaintMap, Bytes(c.ea), ControlTaint), Addresses, Mark)
      BY StoredMarks, MapOperations DEF TypeOK
    <2>3. /\ Runs(t, "ClearTaintForMemory") /\ UNCHANGED machine
          /\ ProfFlush(t, c.prof)
      BY <1>10 DEF ClearTaintForMemory
    <2>4. ins[t] # Idle
      BY <2>3, MachineType
    <2> QED  BY <1>10, <2>1, <2>2, <2>3, <2>4, MachineType, ProfileType
             DEF ClearTaintForMemory, TypeOK, generator
  <1>11. ASSUME NEW t \in Threads, PushControl(t) PROVE TypeInv'
    <2> DEFINE a == Head(calls[t]).addr
               flags == MarksOf(regTaintMap, "EFLAGS")
               marks == MarksOf(controlTaintMap, a) \cup flags
    <2>1. a \in Branches /\ calls' \in [Threads -> Seq(Call)]
      BY <1>11, FirstCall, CallArguments DEF PushControl
    <2>2. marks \in SUBSET Mark
      BY MapReads DEF TypeOK
    <2>3. IsTaintMap(Put(controlTaintMap, {a}, marks), Branches, Mark)
      BY <2>1, <2>2, MapOperations DEF TypeOK
    <2> QED  BY <1>11, <2>1, <2>3, MachineType
             DEF PushControl, TypeOK, generator, profile
  <1>12. ASSUME NEW t \in Threads, PopControl(t) PROVE TypeInv'
    <2>1. calls' \in [Threads -> Seq(Call)]
      BY <1>12, FirstCall DEF PopControl
    <2>2. IsTaintMap(Erase(controlTaintMap, Popped(Head(calls[t]).addrs)), Branches, Mark)
      BY MapOperations DEF TypeOK
    <2> QED  BY <1>12, <2>1, <2>2, MachineType
             DEF PopControl, TypeOK, generator, profile
  <1>13. ASSUME NEW t \in Threads, NEW ea \in Inputs, SetNewTaintForMemory(t, ea) PROVE TypeInv'
    <2>1. IsTaintMap(Put(memTaintMap, Bytes(ea), {gen.current}), Addresses, Mark)
      BY RangesAssumption, MapOperations DEF TypeOK, EA
    <2> QED  BY <1>13, <2>1, GeneratorType
             DEF SetNewTaintForMemory, TypeOK, IdleThreads, profile
  <1>14. ASSUME NEW t \in Threads, SetNewTaintStart(t) PROVE TypeInv'
    BY <1>14 DEF SetNewTaintStart, TypeOK, IdleThreads, maps, profile
  <1>15. ASSUME NEW t \in Threads, NEW ea \in Overwritten, SyscallOverwrites(t, ea) PROVE TypeInv'
    <2>1. IsTaintMap(Erase(memTaintMap, Bytes(ea)), Addresses, Mark)
      BY MapOperations DEF TypeOK
    <2> QED  BY <1>15, <2>1 DEF SyscallOverwrites, TypeOK, IdleThreads, generator, profile
  <1>16. CASE Stopped \/ UNCHANGED vars
    BY <1>16 DEF Stopped, vars, TypeOK, IdleThreads
  <1> QED
    BY <1>1, <1>2, <1>3, <1>4, <1>5, <1>6, <1>7, <1>8, <1>9, <1>10, <1>11, <1>12, <1>13,
       <1>14, <1>15, <1>16
    DEF Next, NextOf, AnalysisCall

\* TypeInv is the inductive invariant the other proofs start from.
THEOREM TypeInvariant == Spec => []TypeInv
  BY TypeInit, TypeNext, PTL DEF Spec

\* Type correctness: every map, bitset and queue of calls stays well formed.
THEOREM TypeCorrect == Spec => []TypeOK
  <1>1. TypeInv => TypeOK
    BY DEF TypeInv
  <1> QED  BY <1>1, TypeInvariant, PTL

------------------------------------------------------------------------------
(* The generator hands out every mark before it hands one out again. *)

\* FreshMarks is not inductive: it says nothing of the marks below current.
\* Either the marks handed out are those below current, or they are all marks.
FreshInv ==
    /\ gen.start <= gen.current
    /\ issued = 0 .. (gen.current - 1) \/ issued = Mark

LEMMA FreshStep == TypeInv /\ FreshInv /\ [Next]_vars => FreshInv'
  <1> SUFFICES ASSUME TypeInv, FreshInv, [Next]_vars PROVE FreshInv'
    OBVIOUS
  <1>1. gen.current \in Mark /\ gen.start \in Mark
    BY DEF TypeInv, TypeOK
  <1>2. ASSUME NEW t \in Threads, NEW ea \in Inputs, SetNewTaintForMemory(t, ea)
        PROVE  FreshInv'
    <2>1. gen' = nextTaintMark(gen) /\ issued' = issued \cup {gen.current}
      BY <1>2 DEF SetNewTaintForMemory
    <2>2. CASE gen.current + 1 = NUMBER_OF_TAINT_MARKS
      <3>1. gen' = [start |-> gen.start, current |-> gen.start]
        BY <1>1, <2>1, <2>2, LastMark DEF nextTaintMark
      <3>2. issued' = Mark
        BY <1>1, <2>1, <2>2, MarksAssumption DEF FreshInv, Mark
      <3> QED  BY <1>1, <3>1, <3>2, MarksAssumption DEF FreshInv, Mark
    <2>3. CASE gen.current + 1 # NUMBER_OF_TAINT_MARKS
      <3>1. gen' = [start |-> gen.start, current |-> gen.current + 1]
        BY <1>1, <2>1, <2>3, LastMark DEF nextTaintMark
      <3>2. issued = 0 .. (gen.current - 1) => issued' = 0 .. gen.current
        BY <1>1, <2>1, MarksAssumption DEF Mark
      <3>3. issued = Mark => issued' = Mark
        BY <1>1, <2>1
      <3> QED  BY <1>1, <3>1, <3>2, <3>3, MarksAssumption DEF FreshInv, Mark
    <2> QED  BY <2>2, <2>3
  <1>3. ASSUME NEW t \in Threads, SetNewTaintStart(t) PROVE FreshInv'
    BY <1>1, <1>3, MarksAssumption DEF SetNewTaintStart, FreshInv, Mark
  <1>4. ASSUME UNCHANGED generator PROVE FreshInv'
    BY <1>4 DEF generator, FreshInv
  <1>5. \/ \E t \in Threads, ea \in Inputs : SetNewTaintForMemory(t, ea)
        \/ \E t \in Threads : SetNewTaintStart(t)
        \/ UNCHANGED generator
    BY DEF Next, NextOf, AnalysisCall, Execute, Retire, AbortTool, Stopped, ClearTaintSet,
           TaintForRegister, TaintForMemory, SetTaintForRegister, ClearTaintForRegister,
           SetTaintForMemory, ClearTaintForMemory, PushControl, PopControl,
           SyscallOverwrites, vars, generator
  <1> QED  BY <1>2, <1>3, <1>4, <1>5

\* The generator of taint_generator.h gives no mark to a second input while one
\* from its start on is unused, however often the start has been moved.
THEOREM MarksAreFresh == Spec => []FreshMarks
  <1>1. Init => FreshInv
    BY MarksAssumption DEF Init, FreshInv, Mark
  <1>2. TypeInv /\ FreshInv => FreshMarks
    BY MarksAssumption DEF TypeInv, TypeOK, FreshInv, FreshMarks, Mark
  <1> QED  BY <1>1, <1>2, FreshStep, TypeInvariant, PTL DEF Spec

------------------------------------------------------------------------------
(* The registers with entries. *)

\* A part of a part of a register is a part of it, and a register with marks has
\* no part without.
LEMMA PartsNest ==
    ASSUME NEW r \in REG, NEW p \in Covered(r)
    PROVE  /\ Covered(p) \subseteq Covered(r)
           /\ r \notin Untracked => p \notin Untracked
  <1>1. p = r \/ p \in SubRegisters(r)
    BY DEF Covered
  <1>2. p \in SubRegisters(r) => p \notin Untracked
    BY DEF SubRegisters, Untracked
  <1>3. p \in SubRegisters(r) => SubRegisters(p) \subseteq SubRegisters(r)
    BY DEF SubRegisters
  <1> QED  BY <1>1, <1>2, <1>3 DEF Covered

LEMMA EntriesStep == TypeInv /\ RegisterEntries /\ [Next]_vars => RegisterEntries'
  <1> SUFFICES ASSUME TypeInv, RegisterEntries, [Next]_vars PROVE RegisterEntries'
    OBVIOUS
  <1>1. ASSUME NEW t \in Threads, SetTaintForRegister(t) PROVE RegisterEntries'
    <2> DEFINE c == Head(calls[t])
    <2>1. c.reg \in REG
      BY <1>1, FirstCall, CallArguments DEF SetTaintForRegister, TypeInv
    <2>2. CASE c.reg \in Untracked
      BY <1>1, <2>2 DEF SetTaintForRegister, RegisterEntries
    <2>3. CASE c.reg \notin Untracked
      <3>1. DOMAIN regTaintMap' = Covered(c.reg) \cup DOMAIN regTaintMap
        BY <1>1, <2>3 DEF SetTaintForRegister, Put
      <3> QED  BY <2>1, <2>3, <3>1, PartsNest DEF RegisterEntries
    <2> QED  BY <2>2, <2>3
  <1>2. ASSUME NEW t \in Threads, ClearTaintForRegister(t) PROVE RegisterEntries'
    <2>1. DOMAIN regTaintMap' = DOMAIN regTaintMap
      BY <1>2 DEF ClearTaintForRegister, Overwrite
    <2> QED  BY <2>1 DEF RegisterEntries
  <1>3. ASSUME UNCHANGED regTaintMap PROVE RegisterEntries'
    BY <1>3 DEF RegisterEntries
  <1>4. \/ \E t \in Threads : SetTaintForRegister(t) \/ ClearTaintForRegister(t)
        \/ UNCHANGED regTaintMap
    BY DEF Next, NextOf, AnalysisCall, Execute, Retire, AbortTool, Stopped, ClearTaintSet,
           TaintForRegister, TaintForMemory, SetTaintForMemory, ClearTaintForMemory,
           PushControl, PopControl, SetNewTaintForMemory, SetNewTaintStart,
           SyscallOverwrites, vars, maps
  <1> QED  BY <1>1, <1>2, <1>3, <1>4

\* Whatever instructions the threads interleave, a register has an entry only if
\* all its parts have one, and the stack and frame pointer have none.
THEOREM EntriesComplete == Spec => []RegisterEntries
  <1>1. Init => RegisterEntries
    BY DEF Init, RegisterEntries, NoEntries
  <1> QED  BY <1>1, EntriesStep, TypeInvariant, PTL DEF Spec

------------------------------------------------------------------------------
(* Propagation moves marks and makes none. *)

\* A map operation adds only the marks it is given, and what is read from a map
\* is in it.
LEMMA MapMarks ==
    ASSUME NEW map, NEW L, NEW marks
    PROVE  /\ AllMarks(Put(map, L, marks)) \subseteq AllMarks(map) \cup marks
           /\ AllMarks(Overwrite(map, L, marks)) \subseteq AllMarks(map) \cup marks
           /\ AllMarks(Erase(map, L)) \subseteq AllMarks(map)
           /\ \A k : MarksOf(map, k) \subseteq AllMarks(map)
           /\ UnionOf(map, L) \subseteq AllMarks(map)
  BY DEF AllMarks, Put, Overwrite, Erase, MarksOf, UnionOf

\* Loading marks into a global bitset adds only those marks.
LEMMA ScratchMarks ==
    ASSUME TypeOK, NEW set \in SLOT, NEW marks,
           scratch' = [scratch EXCEPT ![set] = marks]
    PROVE  AllMarks(scratch') \subseteq AllMarks(scratch) \cup marks
  BY DEF TypeOK, AllMarks

\* A store writes marks of the global bitsets and of the open branches.
LEMMA StoredLive ==
    ASSUME TypeOK, NEW sets \in SUBSET SLOT
    PROVE  Stored(sets) \subseteq Live /\ ControlTaint \subseteq Live
  <1>1. \A s \in sets : scratch[s] \subseteq AllMarks(scratch)
    BY DEF TypeOK, AllMarks
  <1> QED  BY <1>1 DEF Stored, ControlTaint, Live

\* Every step but a taint source only moves marks that are in use.
LEMMA LiveStep ==
    ASSUME TypeInv, [Next]_vars
    PROVE  \/ Live' \subseteq Live /\ issued' = issued
           \/ /\ Live' \subseteq Live \cup {gen.current}
              /\ issued' = issued \cup {gen.current}
              /\ calls' = calls
  <1> DEFINE Moves == Live' \subseteq Live /\ issued' = issued
  <1>1. ASSUME NEW t \in Threads, ClearTaintSet(t) PROVE Moves
    <2>1. Head(calls[t]).set \in SLOT
      BY <1>1, FirstCall, CallArguments DEF ClearTaintSet, TypeInv
    <2>2. AllMarks(scratch') \subseteq AllMarks(scratch) \cup {}
      BY <1>1, <2>1, ScratchMarks DEF ClearTaintSet, TypeInv
    <2> QED  BY <1>1, <2>2 DEF ClearTaintSet, Live, maps, generator
  <1>2. ASSUME NEW t \in Threads, TaintForRegister(t) PROVE Moves
    <2> DEFINE marks == MarksOf(regTaintMap, Head(calls[t]).reg)
    <2>1. Head(calls[t]).set \in SLOT
      BY <1>2, FirstCall, CallArguments DEF TaintForRegister, TypeInv
    <2>2. AllMarks(scratch') \subseteq AllMarks(scratch) \cup marks
      BY <1>2, <2>1, ScratchMarks DEF TaintForRegister, TypeInv
    <2>3. marks \subseteq AllMarks(regTaintMap)
      BY MapMarks
    <2> QED  BY <1>2, <2>2, <2>3 DEF TaintForRegister, Live, maps, generator
  <1>3. ASSUME NEW t \in Threads, TaintForMemory(t) PROVE Moves
    <2> DEFINE c == Head(calls[t])
               marks == MarksRead(c.ea, c.regs)
    <2>1. c.set \in SLOT
      BY <1>3, FirstCall, CallArguments DEF TaintForMemory, TypeInv
    <2>2. AllMarks(scratch') \subseteq AllMarks(scratch) \cup marks
      BY <1>3, <2>1, ScratchMarks DEF TaintForMemory, TypeInv
    <2>3. marks \subseteq AllMarks(regTaintMap) \cup AllMarks(memTaintMap)
      BY MapMarks DEF MarksRead
    <2> QED  BY <1>3, <2>2, <2>3 DEF TaintForMemory, Live, maps, generator
  <1>4. ASSUME NEW t \in Threads, SetTaintForRegister(t) PROVE Moves
    <2> DEFINE c == Head(calls[t])
    <2>1. Stored(c.sets) \subseteq Live
      BY <1>4, FirstCall, CallArguments, StoredLive DEF SetTaintForRegister, TypeInv
    <2>2. AllMarks(regTaintMap') \subseteq AllMarks(regTaintMap) \cup Stored(c.sets)
      BY <1>4, MapMarks DEF SetTaintForRegister
    <2> QED  BY <1>4, <2>1, <2>2 DEF SetTaintForRegister, Live, generator
  <1>5. ASSUME NEW t \in Threads, ClearTaintForRegister(t) PROVE Moves
    <2>1. ControlTaint \subseteq Live
      BY StoredLive DEF TypeInv
    <2>2. AllMarks(regTaintMap') \subseteq AllMarks(regTaintMap) \cup ControlTaint
      BY <1>5, MapMarks DEF ClearTaintForRegister
    <2> QED  BY <1>5, <2>1, <2>2 DEF ClearTaintForRegister, Live, generator
  <1>6. ASSUME NEW t \in Threads, SetTaintForMemory(t) PROVE Moves
    <2> DEFINE c == Head(calls[t])
    <2>1. Stored(c.sets) \subseteq Live
      BY <1>6, FirstCall, CallArguments, StoredLive DEF SetTaintForMemory, TypeInv
    <2>2. AllMarks(memTaintMap') \subseteq AllMarks(memTaintMap) \cup Stored(c.sets)
      BY <1>6, MapMarks DEF SetTaintForMemory
    <2> QED  BY <1>6, <2>1, <2>2 DEF SetTaintForMemory, Live, generator
  <1>7. ASSUME NEW t \in Threads, ClearTaintForMemory(t) PROVE Moves
    <2>1. ControlTaint \subseteq Live
      BY StoredLive DEF TypeInv
    <2>2. AllMarks(memTaintMap') \subseteq AllMarks(memTaintMap) \cup ControlTaint
      BY <1>7, MapMarks DEF ClearTaintForMemory
    <2> QED  BY <1>7, <2>1, <2>2 DEF ClearTaintForMemory, Live, generator
  <1>8. ASSUME NEW t \in Threads, PushControl(t) PROVE Moves
    <2> DEFINE a == Head(calls[t]).addr
               flags == MarksOf(regTaintMap, "EFLAGS")
               marks == MarksOf(controlTaintMap, a) \cup flags
    <2>1. marks \subseteq Live
      BY MapMarks DEF Live
    <2>2. AllMarks(controlTaintMap') \subseteq AllMarks(controlTaintMap) \cup marks
      BY <1>8, MapMarks DEF PushControl
    <2> QED  BY <1>8, <2>1, <2>2 DEF PushControl, Live, generator
  <1>9. ASSUME NEW t \in Threads, PopControl(t) PROVE Moves
    BY <1>9, MapMarks DEF PopControl, Live, generator
  <1>10. ASSUME NEW t \in Threads, NEW ea \in Overwritten, SyscallOverwrites(t, ea) PROVE Moves
    BY <1>10, MapMarks DEF SyscallOverwrites, Live, generator
  <1>11. ASSUME UNCHANGED <<maps, scratch, issued>> PROVE Moves
    BY <1>11 DEF Live, maps
  <1>12. ASSUME NEW t \in Threads, NEW ea \in Inputs, SetNewTaintForMemory(t, ea)
         PROVE  /\ Live' \subseteq Live \cup {gen.current}
                /\ issued' = issued \cup {gen.current}
                /\ calls' = calls
    <2>1. AllMarks(memTaintMap') \subseteq AllMarks(memTaintMap) \cup {gen.current}
      BY <1>12, MapMarks DEF SetNewTaintForMemory
    <2> QED  BY <1>12, <2>1 DEF SetNewTaintForMemory, Live
  <1>13. \/ \E t \in Threads : AnalysisCall(t)
         \/ \E t \in Threads, ea \in Inputs : SetNewTaintForMemory(t, ea)
         \/ \E t \in Threads, ea \in Overwritten : SyscallOverwrites(t, ea)
         \/ UNCHANGED <<maps, scratch, issued>>
    BY DEF Next, NextOf, Execute, Retire, AbortTool, Stopped, SetNewTaintStart, vars, maps,
           generator
  <1> QED
    BY <1>1, <1>2, <1>3, <1>4, <1>5, <1>6, <1>7, <1>8, <1>9, <1>10, <1>11, <1>12, <1>13
    DEF AnalysisCall

\* No marks are in use, in a register, in memory, of a branch or in a global
\* bitset, but marks a taint source has handed out.
THEOREM OnlyIssuedMarks == Spec => []MarksIssued
  <1>1. Init => MarksIssued
    BY DEF Init, MarksIssued, Live, AllMarks, NoEntries
  <1>2. TypeInv /\ MarksIssued /\ [Next]_vars => MarksIssued'
    BY LiveStep DEF MarksIssued
  <1> QED  BY <1>1, <1>2, TypeInvariant, PTL DEF Spec

\* No analysis call of any thread brings a mark into use: a mark that is gone
\* comes back only from a source.
THEOREM MarksAreConserved == Spec => MarksConserved
  <1>1. TypeInv /\ [Next]_vars
          => [Live' \subseteq Live \cup (IF calls' = calls THEN {gen.current} ELSE {})]_vars
    BY LiveStep
  <1> QED  BY <1>1, TypeInvariant, PTL DEF Spec, MarksConserved
==============================================================================
