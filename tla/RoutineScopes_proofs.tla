------------------------ MODULE RoutineScopes_proofs -------------------------
(****************************************************************************)
(* Proofs about the scopes of conditional branches, for every routine,      *)
(* whatever its loops and nesting, with Controlflow's calls in front of     *)
(* those of the handlers.                                                   *)
(****************************************************************************)
EXTENDS RoutineScopes, TaintEngine_proofs

\* No two scopes end at one instruction; where they do PopControl may leave one open.
SeparateEnds == \A b, c \in DOMAIN Ipdom : Ipdom[b] = Ipdom[c] => b = c

------------------------------------------------------------------------------
(* The calls in front of the instruction the thread has reached.            *)

\* The next call is the n-th of them.
Reached(n) ==
    LET s == Analysis[Code[pc]] IN
    /\ pc \in DOMAIN Successors /\ ins[Thread] = Code[pc] /\ s \in Seq(Call)
    /\ n \in 1 .. (Len(s) + 1) /\ Len(calls[Thread]) = (Len(s) + 1) - n
    /\ \A k \in 1 .. Len(calls[Thread]) : calls[Thread][k] = s[k + (n - 1)]

\* What PushControl and PopControl have still to do is between the map and open.
Pushed(n) ==
    LET flags == MarksOf(regTaintMap, "EFLAGS") IN
    IF n \in PushAt(pc) /\ flags # {}
    THEN Put(controlTaintMap, {pc}, MarksOf(controlTaintMap, pc) \cup flags)
    ELSE controlTaintMap

Owed(n) == open = Erase(Pushed(n), IF \E k \in PopAt(pc) : n <= k THEN Ends(pc) ELSE {})

ScopeInv ==
    /\ TypeInv
    /\ IF ins[Thread] = Idle THEN open = controlTaintMap ELSE \E n \in Nat : Reached(n) /\ Owed(n)

LEMMA OneThread == Thread \in Threads
  BY RoutineAssumption DEF Thread

\* The steps of the routine are steps of the engine.
LEMMA EngineStep == NextR => Next
  <1> SUFFICES ASSUME NextR PROVE Next
    OBVIOUS
  <1>1. Thread \in Threads
    BY OneThread
  <1>2. ASSUME NEW a \in DOMAIN Successors, Step(a) PROVE Next
    <2>1. Code[a] \in Program /\ Execute(Thread, Code[a])
      BY <1>2, RoutineAssumption DEF Step
    <2> QED  BY <1>1, <2>1 DEF Next, NextOf
  <1> QED  BY <1>1, <1>2 DEF NextR, Next, NextOf

LEMMA NothingErased ==
    ASSUME TypeOK PROVE Erase(controlTaintMap, {}) = controlTaintMap
  BY DEF TypeOK, IsTaintMap, Erase

\* Where there is no call of Controlflow the pushes and pops are done.
LEMMA Settled ==
    ASSUME TypeOK, NEW n \in Nat, Reached(n), Owed(n), n \notin PushAt(pc), n \notin PopAt(pc)
    PROVE  open = controlTaintMap /\ \A k \in PopAt(pc) : ~(n <= k)
  <1>1. n # 0
    BY DEF Reached
  <1>2. ASSUME NEW k \in PopAt(pc), n <= k PROVE FALSE
    <2>1. CASE pc \in DOMAIN Ipdom
      <3>1. k = 2 /\ n # 1 /\ n # 2
        BY <1>2, <2>1 DEF PopAt, PushAt
      <3> QED  BY <1>1, <1>2, <3>1
    <2>2. CASE pc \notin DOMAIN Ipdom
      <3>1. k = 1 /\ n # 1
        BY <1>2, <2>2 DEF PopAt
      <3> QED  BY <1>1, <1>2, <3>1
    <2> QED  BY <2>1, <2>2
  <1>3. Pushed(n) = controlTaintMap
    BY DEF Pushed
  <1> QED  BY <1>2, <1>3, NothingErased DEF Owed

\* The call that is run, and the one that is next.
LEMMA CallRun ==
    ASSUME TypeInv, NEW n \in Nat, Reached(n), NEW fn, Runs(Thread, fn), ins' = ins, pc' = pc
    PROVE  /\ n \in DOMAIN Analysis[Code[pc]] /\ Head(calls[Thread]) = Analysis[Code[pc]][n]
           /\ n \in Positions(pc, fn) /\ n + 1 \in Nat /\ Reached(n + 1)'
           /\ \A other : n \in Positions(pc, other) => other = fn
           /\ Positions(pc, "PushControl") = PushAt(pc) /\ Positions(pc, "PopControl") = PopAt(pc)
  <1> DEFINE s == Analysis[Code[pc]]
             q == calls[Thread]
  <1>1. /\ pc \in DOMAIN Successors /\ s \in Seq(Call) /\ n \in 1 .. (Len(s) + 1)
        /\ Len(q) = (Len(s) + 1) - n /\ \A k \in 1 .. Len(q) : q[k] = s[k + (n - 1)]
        /\ ins[Thread] = Code[pc]
    BY DEF Reached
  <1>2. q \in Seq(Call) /\ q # << >> /\ Head(q).fn = fn /\ calls'[Thread] = Tail(q)
    BY OneThread DEF TypeInv, TypeOK, Runs
  <1> HIDE DEF s, q
  <1>3. Len(q) \in Nat /\ Len(q) # 0 /\ Len(s) \in Nat /\ DOMAIN s = 1 .. Len(s) /\ Head(q) = q[1]
    BY <1>1, <1>2
  <1>4. n \in DOMAIN s /\ Head(q) = s[n]
    <2>1. 1 \in 1 .. Len(q) /\ 1 + (n - 1) = n /\ n \in 1 .. Len(s)
      BY <1>1, <1>3
    <2> QED  BY <1>1, <1>3, <2>1
  <1>5. /\ Tail(q) \in Seq(Call) /\ Len(Tail(q)) = Len(q) - 1
        /\ \A k \in 1 .. (Len(q) - 1) : Tail(q)[k] = q[k + 1]
    BY <1>2, <1>3
  <1>6. /\ n + 1 \in 1 .. (Len(s) + 1) /\ Len(Tail(q)) = (Len(s) + 1) - (n + 1)
        /\ \A k \in 1 .. Len(Tail(q)) : Tail(q)[k] = s[k + ((n + 1) - 1)]
    <2>1. n + 1 \in 1 .. (Len(s) + 1) /\ Len(Tail(q)) = (Len(s) + 1) - (n + 1)
      BY <1>1, <1>3, <1>4, <1>5
    <2>2. ASSUME NEW k \in 1 .. Len(Tail(q)) PROVE Tail(q)[k] = s[k + ((n + 1) - 1)]
      <3>1. k \in 1 .. (Len(q) - 1) /\ k + 1 \in 1 .. Len(q) /\ (k + 1) + (n - 1) = k + ((n + 1) - 1)
        BY <1>3, <1>5
      <3>2. Tail(q)[k] = q[k + 1] /\ q[k + 1] = s[(k + 1) + (n - 1)]
        BY <1>1, <1>5, <3>1
      <3> QED  BY <3>1, <3>2
    <2> QED  BY <2>1, <2>2
  <1>7. Reached(n + 1)'
    BY <1>1, <1>2, <1>6 DEF Reached, s
  <1>8. s # Abort
    BY <1>1, AbortAssumption
  <1>9. Positions(pc, "PushControl") = PushAt(pc) /\ Positions(pc, "PopControl") = PopAt(pc)
    BY <1>1, <1>8, ControlAssumption DEF s
  <1>10. n \in Positions(pc, fn) /\ \A other : n \in Positions(pc, other) => other = fn
    BY <1>2, <1>4 DEF Positions, s
  <1> QED  BY <1>4, <1>7, <1>9, <1>10 DEF s, q

------------------------------------------------------------------------------
(* The steps.                                                               *)

\* A call that is none of Controlflow's leaves its map alone and comes after its calls.
LEMMA DataCall ==
    ASSUME ScopeInv, NEW fn, Runs(Thread, fn), fn \notin {"PushControl", "PopControl"}
    PROVE  /\ open = controlTaintMap
           /\ UNCHANGED <<controlTaintMap, ins, pc, open>> =>
                 \E n \in Nat : Reached(n)' /\ Owed(n)'
  <1>1. TypeOK /\ TypeInv /\ ins[Thread] # Idle
    BY OneThread DEF ScopeInv, TypeInv, IdleThreads, Runs
  <1>2. PICK n \in Nat : Reached(n) /\ Owed(n)
    BY <1>1 DEF ScopeInv
  <1>3. n \notin PushAt(pc) /\ n \notin PopAt(pc)
    <2> DEFINE s == Analysis[Code[pc]]
    <2>1. /\ pc \in DOMAIN Successors /\ s \in Seq(Call) /\ n \in 1 .. (Len(s) + 1)
          /\ Len(calls[Thread]) = (Len(s) + 1) - n
          /\ \A k \in 1 .. Len(calls[Thread]) : calls[Thread][k] = s[k + (n - 1)]
      BY <1>2 DEF Reached
    <2>2. calls[Thread] \in Seq(Call) /\ calls[Thread] # << >> /\ Head(calls[Thread]).fn = fn
      BY <1>1, OneThread DEF TypeOK, Runs
    <2> HIDE DEF s
    <2>3. 1 \in 1 .. Len(calls[Thread]) /\ 1 + (n - 1) = n /\ Head(calls[Thread]) = calls[Thread][1]
      BY <2>1, <2>2
    <2>4. s[n].fn = fn /\ s # Abort
      BY <2>1, <2>2, <2>3, AbortAssumption
    <2>5. Positions(pc, "PushControl") = PushAt(pc) /\ Positions(pc, "PopControl") = PopAt(pc)
      BY <2>1, <2>4, ControlAssumption DEF s
    <2> QED  BY <2>4, <2>5 DEF Positions, s
  <1>4. open = controlTaintMap /\ \A k \in PopAt(pc) : ~(n <= k)
    BY <1>1, <1>2, <1>3, Settled
  <1>5. ASSUME UNCHANGED <<controlTaintMap, ins, pc, open>> PROVE \E m \in Nat : Reached(m)' /\ Owed(m)'
    <2>1. n + 1 \in Nat /\ Reached(n + 1)'
      BY <1>1, <1>2, <1>5, CallRun
    <2>2. n # 0 /\ n + 1 \notin PushAt(pc) /\ \A k \in PopAt(pc) : ~(n + 1 <= k)
      <3>1. n # 0
        BY <1>2 DEF Reached
      <3>2. \A k \in PopAt(pc) : k \in Nat
        BY DEF PopAt
      <3> QED  BY <1>4, <3>1, <3>2 DEF PushAt
    <2>3. PushAt(pc)' = PushAt(pc) /\ PopAt(pc)' = PopAt(pc)
      BY <1>5 DEF PushAt, PopAt, Ends
    <2>4. Pushed(n + 1)' = controlTaintMap
      BY <1>5, <2>2, <2>3 DEF Pushed
    <2>5. Owed(n + 1)'
      BY <1>1, <1>4, <1>5, <2>2, <2>3, <2>4, NothingErased DEF Owed
    <2> QED  BY <2>1, <2>5
  <1> QED  BY <1>4, <1>5

\* PushControl has no more to do after its call, and PopControl still has all.
LEMMA PushCall ==
    ASSUME ScopeInv, PushControl(Thread), UNCHANGED <<pc, open>>
    PROVE  \E n \in Nat : Reached(n)' /\ Owed(n)'
  <1> DEFINE flags == MarksOf(regTaintMap, "EFLAGS")
             addr == Head(calls[Thread]).addr
  <1>1. /\ Runs(Thread, "PushControl")
        /\ controlTaintMap' = IF flags = {} THEN controlTaintMap
                              ELSE Put(controlTaintMap, {addr}, MarksOf(controlTaintMap, addr) \cup flags)
        /\ UNCHANGED <<ins, regTaintMap>>
    BY DEF PushControl, machine
  <1>2. TypeInv /\ ins[Thread] # Idle
    BY <1>1, OneThread DEF ScopeInv, TypeInv, IdleThreads, Runs
  <1>3. PICK n \in Nat : Reached(n) /\ Owed(n)
    BY <1>2 DEF ScopeInv
  <1>4. /\ n \in PushAt(pc) /\ n + 1 \in Nat /\ Reached(n + 1)' /\ addr = Analysis[Code[pc]][n].addr
    BY <1>1, <1>2, <1>3, CallRun
  <1>5. addr = pc
    <2>1. pc \in DOMAIN Successors /\ Analysis[Code[pc]] # Abort
      BY <1>3, AbortAssumption DEF Reached
    <2> QED  BY <1>4, <2>1, ControlAssumption
  <1>6. n = 1 /\ pc \in DOMAIN Ipdom /\ 2 \notin PushAt(pc)
    BY <1>4 DEF PushAt
  <1>7. Pushed(n) = controlTaintMap'
    BY <1>1, <1>4, <1>5 DEF Pushed
  <1>8. Pushed(n + 1)' = controlTaintMap'
    <2>1. n + 1 \notin PushAt(pc)' /\ n + 1 = 2
      BY <1>6 DEF PushAt
    <2> QED  BY <2>1 DEF Pushed
  <1>9. (\E k \in PopAt(pc)' : n + 1 <= k) <=> (\E k \in PopAt(pc) : n <= k)
    <2>1. PopAt(pc)' = PopAt(pc) /\ PopAt(pc) \subseteq {2}
      BY <1>6 DEF PopAt, Ends
    <2> QED  BY <1>6, <2>1
  <1>10. Owed(n + 1)'
    <2>1. Ends(pc)' = Ends(pc)
      BY DEF Ends
    <2> HIDE DEF flags, addr
    <2> QED  BY <1>3, <1>7, <1>8, <1>9, <2>1 DEF Owed
  <1> QED  BY <1>4, <1>10

\* PopControl erases the one scope that ends at the instruction, if it is open.
LEMMA PopCall ==
    ASSUME SeparateEnds, ScopeInv, PopControl(Thread), UNCHANGED <<pc, open>>
    PROVE  \E n \in Nat : Reached(n)' /\ Owed(n)'
  <1> DEFINE addrs == Head(calls[Thread]).addrs
  <1>1. /\ Runs(Thread, "PopControl") /\ UNCHANGED <<ins, regTaintMap>>
        /\ controlTaintMap' = Erase(controlTaintMap, Popped(addrs))
    BY DEF PopControl, machine
  <1>2. TypeOK /\ TypeInv /\ ins[Thread] # Idle
    BY <1>1, OneThread DEF ScopeInv, TypeInv, IdleThreads, Runs
  <1>3. PICK n \in Nat : Reached(n) /\ Owed(n)
    BY <1>2 DEF ScopeInv
  <1>4. /\ n \in Positions(pc, "PopControl") /\ n \notin Positions(pc, "PushControl")
        /\ n \in PopAt(pc) /\ n \notin PushAt(pc) /\ n + 1 \in Nat /\ Reached(n + 1)'
        /\ addrs = Analysis[Code[pc]][n].addrs /\ Head(calls[Thread]) \in Call
        /\ Head(calls[Thread]).fn = "PopControl"
    <2>1. Head(calls[Thread]) \in Call /\ Head(calls[Thread]).fn = "PopControl"
      BY <1>1, <1>2, FirstCall, OneThread
    <2> QED  BY <1>1, <1>2, <1>3, <2>1, CallRun
  <1>5. {addrs[j] : j \in DOMAIN addrs} = Ends(pc)
    <2>1. pc \in DOMAIN Successors /\ Analysis[Code[pc]] # Abort
      BY <1>3, AbortAssumption DEF Reached
    <2> QED  BY <1>4, <2>1, ControlAssumption
  <1>6. PICK b : Ends(pc) = {b}
    <2>1. Ends(pc) # {}
      BY <1>4 DEF PopAt
    <2> QED  BY <2>1 DEF Ends, SeparateEnds
  <1>7. addrs \in Seq(Branches)
    BY <1>4 DEF Call
  <1> HIDE DEF addrs
  <1>8. Erase(controlTaintMap, Popped(addrs)) = Erase(controlTaintMap, {b})
    <2>1. /\ Len(addrs) \in Nat /\ DOMAIN addrs = 1 .. Len(addrs) /\ 1 \in 1 .. Len(addrs)
          /\ \A j \in 1 .. Len(addrs) : addrs[j] = b /\ 1 .. j \subseteq 1 .. Len(addrs) /\ 1 \in 1 .. j
      <3>1. Len(addrs) \in Nat /\ DOMAIN addrs = 1 .. Len(addrs)
        BY <1>7
      <3>2. PICK j \in 1 .. Len(addrs) : TRUE
        BY <1>5, <1>6, <3>1
      <3>3. 1 \in 1 .. Len(addrs)
        BY <3>1, <3>2
      <3>4. \A i \in 1 .. Len(addrs) : addrs[i] = b
        BY <1>5, <1>6, <3>1
      <3> QED  BY <3>1, <3>3, <3>4
    <2>2. CASE b \in DOMAIN controlTaintMap
      <3>1. Popped(addrs) = {b}
        BY <2>1, <2>2 DEF Popped
      <3> QED  BY <3>1
    <2>3. CASE b \notin DOMAIN controlTaintMap
      <3>1. Popped(addrs) = {}
        BY <2>1, <2>3 DEF Popped
      <3> QED  BY <2>3, <3>1 DEF Erase
    <2> QED  BY <2>2, <2>3
  <1>9. open = controlTaintMap'
    <2>1. Pushed(n) = controlTaintMap /\ n <= n
      BY <1>4 DEF Pushed
    <2> QED  BY <1>1, <1>3, <1>4, <1>6, <1>8, <2>1 DEF Owed
  <1>10. Owed(n + 1)'
    <2>1. PopAt(pc)' = PopAt(pc) /\ PushAt(pc)' = PushAt(pc)
      BY DEF PopAt, PushAt, Ends
    <2>2. PopAt(pc) = {n} /\ n + 1 \notin PushAt(pc) /\ ~(n + 1 <= n)
      <3>1. PopAt(pc) = {n} /\ n \in {1, 2}
        BY <1>4 DEF PopAt
      <3> QED  BY <3>1 DEF PushAt
    <2>3. Pushed(n + 1)' = controlTaintMap'
      BY <2>1, <2>2 DEF Pushed
    <2>4. Erase(controlTaintMap, {b}) = Erase(Erase(controlTaintMap, {b}), {})
      BY DEF Erase
    <2>5. Erase(controlTaintMap', {}) = controlTaintMap'
      BY <1>1, <1>8, <2>4
    <2> QED  BY <1>9, <2>1, <2>2, <2>3, <2>5 DEF Owed
  <1> QED  BY <1>4, <1>10

\* An instruction is reached: all its calls are still to run.
LEMMA StepBegins ==
    ASSUME TypeInv, NEW a \in DOMAIN Successors, Step(a)
    PROVE  Reached(1)' /\ ins'[Thread] # Idle /\ ins[Thread] = Idle /\ Analysis[Code[a]] # Abort
  <1>1. /\ ins[Thread] = Idle /\ Analysis[Code[a]] # Abort /\ Code[a] \in Program
        /\ ins'[Thread] = Code[a] /\ calls'[Thread] = Analysis[Code[a]] /\ pc' = a
    BY OneThread, RoutineAssumption DEF Step, Execute, TypeInv, TypeOK
  <1>2. Analysis[Code[a]] \in Seq(Call)
    BY <1>1, AnalysisAssumption
  <1>3. Reached(1)'
    <2> DEFINE s == Analysis[Code[a]]
    <2>1. /\ 1 \in 1 .. (Len(s) + 1) /\ Len(s) = (Len(s) + 1) - 1
          /\ \A k \in 1 .. Len(s) : s[k] = s[k + (1 - 1)]
      BY <1>2
    <2> QED  BY <1>1, <1>2, <2>1 DEF Reached
  <1> QED  BY <1>1, <1>3, ProgramAssumption

LEMMA StepReached ==
    ASSUME ScopeInv, NEW a \in DOMAIN Successors, Step(a)
    PROVE  Reached(1)' /\ Owed(1)'
  <1>1. /\ ins[Thread] = Idle /\ pc' = a /\ open' = ScopesAt(a)
        /\ UNCHANGED <<regTaintMap, controlTaintMap>>
    BY DEF Step, Execute, maps
  <1>2. open = controlTaintMap
    BY <1>1 DEF ScopeInv
  <1>3. Reached(1)'
    BY StepBegins DEF ScopeInv
  <1>4. Owed(1)'
    <2>1. Ends(pc)' = Ends(a) /\ PushAt(pc)' = PushAt(a) /\ PopAt(pc)' = PopAt(a)
      BY <1>1 DEF Ends, PushAt, PopAt
    <2>2. (\E k \in PopAt(a) : 1 <= k) <=> Ends(a) # {}
      BY DEF PopAt
    <2>3. Pushed(1)' = IF a \in DOMAIN Ipdom /\ MarksOf(regTaintMap, "EFLAGS") # {}
                       THEN Put(open, {a}, MarksOf(open, a) \cup MarksOf(regTaintMap, "EFLAGS"))
                       ELSE open
      BY <1>1, <1>2, <2>1 DEF Pushed, PushAt
    <2>4. open' = Erase(Pushed(1)', Ends(a))
      BY <1>1, <2>3 DEF ScopesAt
    <2> QED  BY <2>1, <2>2, <2>4 DEF Owed
  <1> QED  BY <1>3, <1>4

\* After the last call nothing is left to push or pop.
LEMMA RetireSettled ==
    ASSUME ScopeInv, Retire(Thread)
    PROVE  open = controlTaintMap
  <1>1. TypeOK /\ ins[Thread] # Idle /\ calls[Thread] = << >>
    BY DEF ScopeInv, TypeInv, Retire
  <1>2. PICK n \in Nat : Reached(n) /\ Owed(n)
    BY <1>1 DEF ScopeInv
  <1> DEFINE s == Analysis[Code[pc]]
  <1>3. pc \in DOMAIN Successors /\ s \in Seq(Call) /\ 0 = (Len(s) + 1) - n
    BY <1>1, <1>2 DEF Reached
  <1>4. Positions(pc, "PushControl") = PushAt(pc) /\ Positions(pc, "PopControl") = PopAt(pc)
    BY <1>3, AbortAssumption, ControlAssumption
  <1>5. n \notin DOMAIN s
    BY <1>3
  <1>6. n \notin PushAt(pc) /\ n \notin PopAt(pc)
    BY <1>4, <1>5 DEF Positions
  <1> QED  BY <1>1, <1>2, <1>6, Settled

\* The calls of the handlers leave Controlflow's map alone.
LEMMA DataCalls ==
    ASSUME AnalysisCall(Thread), ~PushControl(Thread), ~PopControl(Thread)
    PROVE  /\ UNCHANGED <<controlTaintMap, ins>>
           /\ \E fn : Runs(Thread, fn) /\ fn \notin {"PushControl", "PopControl"}
  <1>1. CASE ClearTaintSet(Thread)
    BY <1>1 DEF ClearTaintSet, maps, machine
  <1>2. CASE TaintForRegister(Thread)
    BY <1>2 DEF TaintForRegister, maps, machine
  <1>3. CASE TaintForMemory(Thread)
    BY <1>3 DEF TaintForMemory, maps, machine
  <1>4. CASE SetTaintForRegister(Thread)
    BY <1>4 DEF SetTaintForRegister, machine
  <1>5. CASE ClearTaintForRegister(Thread)
    BY <1>5 DEF ClearTaintForRegister, machine
  <1>6. CASE SetTaintForMemory(Thread)
    BY <1>6 DEF SetTaintForMemory, machine
  <1>7. CASE ClearTaintForMemory(Thread)
    BY <1>7 DEF ClearTaintForMemory, machine
  <1> QED  BY <1>1, <1>2, <1>3, <1>4, <1>5, <1>6, <1>7 DEF AnalysisCall

LEMMA ScopeNext == SeparateEnds /\ ScopeInv /\ [NextR]_allVars => ScopeInv'
  <1> SUFFICES ASSUME SeparateEnds, ScopeInv, [NextR]_allVars PROVE ScopeInv'
    OBVIOUS
  <1>1. TypeInv'
    BY EngineStep, TypeNext DEF ScopeInv, allVars
  <1>2. ASSUME NEW a \in DOMAIN Successors, Step(a) PROVE ScopeInv'
    <2>1. Reached(1)' /\ Owed(1)'
      BY <1>2, StepReached
    <2>2. ins'[Thread] # Idle
      BY <1>2, OneThread, RoutineAssumption, ProgramAssumption
         DEF Step, Execute, ScopeInv, TypeInv, TypeOK
    <2> QED  BY <1>1, <2>1, <2>2 DEF ScopeInv
  <1>3. ASSUME AnalysisCall(Thread), UNCHANGED <<pc, open>> PROVE ScopeInv'
    <2>1. \E n \in Nat : Reached(n)' /\ Owed(n)'
      <3>1. CASE PushControl(Thread)
        BY <1>3, <3>1, PushCall
      <3>2. CASE PopControl(Thread)
        BY <1>3, <3>2, PopCall
      <3>3. CASE ~PushControl(Thread) /\ ~PopControl(Thread)
        BY <1>3, <3>3, DataCalls, DataCall
      <3> QED  BY <3>1, <3>2, <3>3
    <2>2. ins' = ins /\ ins[Thread] # Idle
      <3>1. ins' = ins /\ \E fn : Runs(Thread, fn)
        BY <1>3, DataCalls DEF PushControl, PopControl, machine
      <3> QED  BY <3>1, OneThread DEF ScopeInv, TypeInv, IdleThreads, Runs
    <2> QED  BY <1>1, <2>1, <2>2 DEF ScopeInv
  <1>4. ASSUME Retire(Thread), UNCHANGED <<pc, open>> PROVE ScopeInv'
    <2>1. open = controlTaintMap
      BY <1>4, RetireSettled
    <2>2. ins'[Thread] = Idle /\ controlTaintMap' = controlTaintMap
      BY <1>4, OneThread DEF Retire, maps, ScopeInv, TypeInv, TypeOK
    <2> QED  BY <1>1, <1>4, <2>1, <2>2 DEF ScopeInv
  <1>5. ASSUME ins[Thread] = Idle, UNCHANGED <<ins, controlTaintMap, open>> PROVE ScopeInv'
    BY <1>1, <1>5 DEF ScopeInv
  <1>6. ASSUME UNCHANGED allVars PROVE ScopeInv'
    <2>1. UNCHANGED <<regTaintMap, controlTaintMap, ins, calls, pc, open>>
      BY <1>6 DEF allVars, vars
    <2>2. \A n : Reached(n)' = Reached(n) /\ Owed(n)' = Owed(n)
      BY <2>1 DEF Reached, Owed, Pushed, PushAt, PopAt, Ends
    <2> QED  BY <1>1, <2>1, <2>2 DEF ScopeInv
  <1> QED  BY <1>2, <1>3, <1>4, <1>5, <1>6
           DEF NextR, SetNewTaintForMemory, SyscallOverwrites

LEMMA ScopeInit == InitR => ScopeInv
  <1> SUFFICES ASSUME InitR PROVE ScopeInv
    OBVIOUS
  <1>1. TypeInv /\ ins[Thread] = Idle /\ open = controlTaintMap
    BY TypeInit, OneThread DEF InitR, Init
  <1> QED  BY <1>1 DEF ScopeInv

\* Between two instructions controlTaintMap holds exactly the branches the routine is in
\* the scope of, with all the marks they were taken on, for every routine whose scopes end
\* at different instructions, however it loops and nests.  Where two scopes end at one
\* instruction it is false: PopControl returns at the first branch without an entry.
THEOREM ActiveScopesAlways == SeparateEnds => (SpecR => []ActiveScopes)
  <1> SUFFICES ASSUME SeparateEnds PROVE SpecR => []ActiveScopes
    OBVIOUS
  <1>1. ScopeInv => ActiveScopes
    BY DEF ScopeInv, ActiveScopes
  <1>2. ScopeInv /\ [NextR]_allVars => ScopeInv'
    BY ScopeNext
  <1> QED  BY <1>1, <1>2, ScopeInit, PTL DEF SpecR

\* What an instruction writes in the scope of a branch carries the marks of the branch:
\* its stores and clears come behind the calls of Controlflow, when the map is that of
\* the open scopes, for the same routines.
THEOREM ScopeMarksAlways == SeparateEnds => (SpecR => ScopeMarksStored)
  <1> DEFINE Written ==
        /\ \A r \in DOMAIN regTaintMap' :
              (r \notin DOMAIN regTaintMap \/ regTaintMap'[r] # MarksOf(regTaintMap, r))
                 => AllMarks(open) \subseteq regTaintMap'[r]
        /\ \A a \in DOMAIN memTaintMap' :
              (calls # calls' /\ memTaintMap'[a] # MarksOf(memTaintMap, a))
                 => AllMarks(open) \subseteq memTaintMap'[a]
  <1> SUFFICES ASSUME SeparateEnds PROVE SpecR => ScopeMarksStored
    OBVIOUS
  <1>1. ScopeInv /\ [NextR]_allVars => [Written]_allVars
    <2> SUFFICES ASSUME ScopeInv, NextR PROVE Written
      OBVIOUS
    <2>1. CASE UNCHANGED regTaintMap /\ (UNCHANGED memTaintMap \/ UNCHANGED calls)
      BY <2>1 DEF MarksOf
    <2>2. ASSUME AnalysisCall(Thread), ~PushControl(Thread), ~PopControl(Thread)
          PROVE  AllMarks(open) = ControlTaint
      BY <2>2, DataCalls, DataCall DEF ControlTaint
    <2>3. CASE SetTaintForRegister(Thread)
      <3>1. AllMarks(open) = ControlTaint
        BY <2>2, <2>3 DEF AnalysisCall, SetTaintForRegister, PushControl, PopControl, Runs
      <3>2. \/ UNCHANGED regTaintMap
            \/ \E K, sets : regTaintMap' = Put(regTaintMap, K, Stored(sets))
        BY <2>3 DEF SetTaintForRegister
      <3>3. \A sets : ControlTaint \subseteq Stored(sets)
        BY DEF Stored
      <3>4. UNCHANGED memTaintMap
        BY <2>3 DEF SetTaintForRegister
      <3>5. CASE UNCHANGED regTaintMap
        <4> HIDE DEF Written
        <4> QED  BY <2>1, <3>4, <3>5
      <3>6. ASSUME NEW K, NEW sets, regTaintMap' = Put(regTaintMap, K, Stored(sets)) PROVE Written
        <4>1. ASSUME NEW r \in DOMAIN regTaintMap',
                     r \notin DOMAIN regTaintMap \/ regTaintMap'[r] # MarksOf(regTaintMap, r)
              PROVE  AllMarks(open) \subseteq regTaintMap'[r]
          <5>1. r \in K
            BY <3>6, <4>1 DEF Put, MarksOf
          <5>2. regTaintMap'[r] = Stored(sets)
            BY <3>6, <5>1 DEF Put
          <5> QED  BY <3>1, <3>3, <5>2
        <4> QED  BY <3>4, <4>1 DEF MarksOf
      <3> HIDE DEF Written
      <3> QED  BY <3>2, <3>5, <3>6
    <2>4. CASE ClearTaintForRegister(Thread)
      <3>1. AllMarks(open) = ControlTaint
        BY <2>2, <2>4 DEF AnalysisCall, ClearTaintForRegister, PushControl, PopControl, Runs
      <3>2. \E K : regTaintMap' = Overwrite(regTaintMap, K, ControlTaint) /\ UNCHANGED memTaintMap
        BY <2>4 DEF ClearTaintForRegister
      <3> QED  BY <3>1, <3>2 DEF Overwrite, MarksOf
    <2>5. CASE SetTaintForMemory(Thread)
      <3>1. AllMarks(open) = ControlTaint
        BY <2>2, <2>5 DEF AnalysisCall, SetTaintForMemory, PushControl, PopControl, Runs
      <3>2. \E K, sets : memTaintMap' = Put(memTaintMap, K, Stored(sets)) /\ UNCHANGED regTaintMap
        BY <2>5 DEF SetTaintForMemory
      <3>3. \A sets : ControlTaint \subseteq Stored(sets)
        BY DEF Stored
      <3> QED  BY <3>1, <3>2, <3>3 DEF Put, MarksOf
    <2>6. CASE ClearTaintForMemory(Thread)
      <3>1. AllMarks(open) = ControlTaint
        BY <2>2, <2>6 DEF AnalysisCall, ClearTaintForMemory, PushControl, PopControl, Runs
      <3>2. \E K : memTaintMap' = Overwrite(memTaintMap, K, ControlTaint) /\ UNCHANGED regTaintMap
        BY <2>6 DEF ClearTaintForMemory
      <3> QED  BY <3>1, <3>2 DEF Overwrite, MarksOf
    <2>7. CASE \/ \E a \in DOMAIN Successors : Step(a)
               \/ Retire(Thread) \/ PushControl(Thread) \/ PopControl(Thread)
               \/ ClearTaintSet(Thread) \/ TaintForRegister(Thread) \/ TaintForMemory(Thread)
               \/ \E ea \in Inputs : SetNewTaintForMemory(Thread, ea)
               \/ \E ea \in Overwritten : SyscallOverwrites(Thread, ea)
      <3>1. UNCHANGED regTaintMap /\ (UNCHANGED memTaintMap \/ UNCHANGED calls)
        BY <2>7 DEF Step, Execute, Retire, PushControl, PopControl, ClearTaintSet, TaintForRegister,
                    TaintForMemory, SetNewTaintForMemory, SyscallOverwrites, maps
      <3> HIDE DEF Written
      <3> QED  BY <2>1, <3>1
    <2> HIDE DEF Written
    <2> QED  BY <2>3, <2>4, <2>5, <2>6, <2>7 DEF NextR, AnalysisCall
  <1>2. ScopeInv /\ [NextR]_allVars => ScopeInv'
    BY ScopeNext
  <1> QED  BY <1>1, <1>2, ScopeInit, PTL DEF SpecR, ScopeMarksStored

------------------------------------------------------------------------------
(* The keys of profilingMap.                                                *)

Loads(c) == c.fn \in {"TaintForRegister", "TaintForMemory"}

Flushes(c) ==
    \/ c.fn \in {"ClearTaintForRegister", "SetTaintForMemory", "ClearTaintForMemory"} /\ c.prof
    \/ c.fn = "SetTaintForRegister" /\ c.prof /\ c.reg \notin Untracked

\* After every load there is a store of the same instruction that makes a key.
LoadsFlushed ==
    \A a \in DOMAIN Successors : Analysis[Code[a]] # Abort =>
       LET s == Analysis[Code[a]] IN
       \A k \in DOMAIN s : Loads(s[k]) => \E j \in DOMAIN s : k < j /\ Flushes(s[j])

\* What is in the stream is of the current instruction, and a store is still to come
\* that takes it out.
StreamOwn(n) ==
    LET s == Analysis[Code[pc]] IN
    /\ prof_stream \subseteq {ins[Thread]}
    /\ prof_stream # {} => PROFILING /\ \E j \in DOMAIN s : n <= j /\ Flushes(s[j])

ProfileInv ==
    /\ TypeInv /\ ProfileKeysOwn
    /\ IF ins[Thread] = Idle THEN prof_stream = {} ELSE \E n \in Nat : Reached(n) /\ StreamOwn(n)

\* What an analysis call does to the stream.
LEMMA ProfileCalls ==
    ASSUME AnalysisCall(Thread)
    PROVE  LET c == Head(calls[Thread]) IN
           /\ ins' = ins /\ \E fn : Runs(Thread, fn)
           /\ \/ UNCHANGED profile /\ (PROFILING => ~Flushes(c))
              \/ Loads(c) /\ \E b : ProfAppend(Thread, b)
              \/ PROFILING /\ ProfFlush(Thread, TRUE)
  <1> DEFINE c == Head(calls[Thread])
  <1>1. CASE ClearTaintSet(Thread) \/ PushControl(Thread) \/ PopControl(Thread)
    BY <1>1 DEF ClearTaintSet, PushControl, PopControl, machine, profile, Runs, Flushes
  <1>2. CASE TaintForRegister(Thread)
    BY <1>2 DEF TaintForRegister, machine, Runs, Loads
  <1>3. CASE TaintForMemory(Thread)
    BY <1>3 DEF TaintForMemory, machine, Runs, Loads
  <1>4. ASSUME ProfFlush(Thread, c.prof) PROVE \/ UNCHANGED profile /\ (PROFILING => ~c.prof)
                                               \/ PROFILING /\ ProfFlush(Thread, TRUE)
    BY <1>4 DEF ProfFlush
  <1>5. CASE SetTaintForRegister(Thread)
    <2>1. c.fn = "SetTaintForRegister" /\ ins' = ins /\ Runs(Thread, "SetTaintForRegister")
      BY <1>5 DEF SetTaintForRegister, machine, Runs
    <2>2. CASE c.reg \in Untracked
      BY <1>5, <2>1, <2>2 DEF SetTaintForRegister, Flushes
    <2>3. CASE c.reg \notin Untracked
      <3>1. ProfFlush(Thread, c.prof)
        BY <1>5, <2>3 DEF SetTaintForRegister
      <3> QED  BY <1>4, <2>1, <3>1 DEF Flushes
    <2> QED  BY <2>2, <2>3
  <1>6. CASE ClearTaintForRegister(Thread)
    BY <1>4, <1>6 DEF ClearTaintForRegister, machine, Runs, Flushes
  <1>7. CASE SetTaintForMemory(Thread)
    BY <1>4, <1>7 DEF SetTaintForMemory, machine, Runs, Flushes
  <1>8. CASE ClearTaintForMemory(Thread)
    BY <1>4, <1>8 DEF ClearTaintForMemory, machine, Runs, Flushes
  <1> QED  BY <1>1, <1>2, <1>3, <1>5, <1>6, <1>7, <1>8 DEF AnalysisCall

LEMMA ProfileNext == LoadsFlushed /\ ProfileInv /\ [NextR]_allVars => ProfileInv'
  <1> SUFFICES ASSUME LoadsFlushed, ProfileInv, [NextR]_allVars PROVE ProfileInv'
    OBVIOUS
  <1>1. TypeInv /\ TypeInv'
    BY EngineStep, TypeNext DEF ProfileInv, allVars
  <1>2. ASSUME NEW a \in DOMAIN Successors, Step(a) PROVE ProfileInv'
    <2>1. Reached(1)' /\ ins'[Thread] # Idle /\ ins[Thread] = Idle
      BY <1>1, <1>2, StepBegins
    <2>2. prof_stream' = {} /\ profilingMap' = profilingMap
      BY <1>2, <2>1 DEF Step, Execute, profile, ProfileInv
    <2>3. StreamOwn(1)'
      BY <2>2 DEF StreamOwn
    <2> QED  BY <1>1, <2>1, <2>2, <2>3 DEF ProfileInv, ProfileKeysOwn
  <1>3. ASSUME AnalysisCall(Thread), UNCHANGED <<pc, open>> PROVE ProfileInv'
    <2> DEFINE c == Head(calls[Thread])
               s == Analysis[Code[pc]]
    <2>1. PICK fn : Runs(Thread, fn)
      BY <1>3, ProfileCalls
    <2>2. ins' = ins /\ ins[Thread] # Idle
      BY <1>1, <1>3, <2>1, ProfileCalls, OneThread DEF TypeInv, IdleThreads, Runs
    <2>3. PICK n \in Nat : Reached(n) /\ StreamOwn(n)
      BY <2>2 DEF ProfileInv
    <2>4. n \in DOMAIN s /\ c = s[n] /\ n + 1 \in Nat /\ Reached(n + 1)'
      BY <1>1, <1>3, <2>1, <2>2, <2>3, CallRun
    <2>5. s \in Seq(Call) /\ pc \in DOMAIN Successors /\ s # Abort /\ DOMAIN s \subseteq Nat
      BY <2>3, AbortAssumption DEF Reached
    <2>6. prof_stream \subseteq {ins[Thread]}
          /\ (prof_stream # {} => PROFILING /\ \E j \in DOMAIN s : n <= j /\ Flushes(s[j]))
      BY <2>3 DEF StreamOwn
    <2>7. \A key \in profilingMap : key.from \subseteq {key.op}
      BY DEF ProfileInv, ProfileKeysOwn
    <2> HIDE DEF c, s
    <2>8. /\ prof_stream' \subseteq {ins[Thread]}
          /\ prof_stream' # {} => PROFILING /\ \E j \in DOMAIN s : n + 1 <= j /\ Flushes(s[j])
          /\ \A key \in profilingMap' : key.from \subseteq {key.op}
      <3>1. CASE UNCHANGED profile /\ (PROFILING => ~Flushes(c))
        <4>1. UNCHANGED <<prof_stream, profilingMap>>
          BY <3>1 DEF profile
        <4>2. ASSUME NEW j \in DOMAIN s, n <= j, Flushes(s[j]), PROFILING PROVE n + 1 <= j
          <5>1. j # n /\ j \in Nat
            BY <2>4, <2>5, <3>1, <4>2
          <5> QED  BY <4>2, <5>1
        <4> QED  BY <2>6, <2>7, <4>1, <4>2
      <3>2. CASE Loads(c) /\ \E b : ProfAppend(Thread, b)
        <4>1. PICK j \in DOMAIN s : n < j /\ Flushes(s[j])
          BY <2>4, <2>5, <3>2 DEF LoadsFlushed, s
        <4>2. n + 1 <= j
          BY <2>5, <4>1
        <4> QED  BY <2>6, <2>7, <3>2, <4>1, <4>2 DEF ProfAppend
      <3>3. CASE PROFILING /\ ProfFlush(Thread, TRUE)
        BY <2>6, <2>7, <3>3 DEF ProfFlush
      <3> QED  BY <1>3, <3>1, <3>2, <3>3, ProfileCalls DEF c
    <2>9. StreamOwn(n + 1)'
      BY <1>3, <2>2, <2>8 DEF StreamOwn, s
    <2> QED  BY <1>1, <2>2, <2>4, <2>8, <2>9 DEF ProfileInv, ProfileKeysOwn
  <1>4. ASSUME Retire(Thread), UNCHANGED <<pc, open>> PROVE ProfileInv'
    <2>1. /\ ins[Thread] # Idle /\ calls[Thread] = << >> /\ ins'[Thread] = Idle
          /\ UNCHANGED <<prof_stream, profilingMap>>
      BY <1>1, <1>4, OneThread DEF Retire, profile, TypeInv, TypeOK
    <2>2. PICK n \in Nat : Reached(n) /\ StreamOwn(n)
      BY <2>1 DEF ProfileInv
    <2> DEFINE s == Analysis[Code[pc]]
    <2>3. s \in Seq(Call) /\ 0 = (Len(s) + 1) - n
      BY <2>1, <2>2 DEF Reached
    <2>4. \A j \in DOMAIN s : ~(n <= j)
      BY <2>3
    <2>5. prof_stream = {}
      BY <2>2, <2>4 DEF StreamOwn
    <2> QED  BY <1>1, <2>1, <2>5 DEF ProfileInv, ProfileKeysOwn
  <1>5. ASSUME ins[Thread] = Idle, UNCHANGED <<ins, profile>> PROVE ProfileInv'
    BY <1>1, <1>5 DEF ProfileInv, ProfileKeysOwn, profile
  <1>6. ASSUME UNCHANGED allVars PROVE ProfileInv'
    <2>1. UNCHANGED <<prof_stream, profilingMap, ins, calls, pc>>
      BY <1>6 DEF allVars, vars
    <2>2. \A n : Reached(n)' = Reached(n) /\ StreamOwn(n)' = StreamOwn(n)
      BY <2>1 DEF Reached, StreamOwn
    <2> QED  BY <1>1, <2>1, <2>2 DEF ProfileInv, ProfileKeysOwn
  <1> QED  BY <1>2, <1>3, <1>4, <1>5, <1>6
           DEF NextR, SetNewTaintForMemory, SyscallOverwrites

\* A key of profilingMap holds marks of the instruction whose opcode ends it and of no
\* other, for every routine in which each load is followed by a profiled store of its own
\* instruction: the stream is then empty whenever an instruction is left.
THEOREM ProfileKeysAlways == LoadsFlushed => (SpecR => []ProfileKeysOwn)
  <1> SUFFICES ASSUME LoadsFlushed PROVE SpecR => []ProfileKeysOwn
    OBVIOUS
  <1>1. InitR => ProfileInv
    <2> SUFFICES ASSUME InitR PROVE ProfileInv
      OBVIOUS
    <2>1. TypeInv /\ ins[Thread] = Idle /\ prof_stream = {} /\ profilingMap = {}
      BY TypeInit, OneThread DEF InitR, Init
    <2> QED  BY <2>1 DEF ProfileInv, ProfileKeysOwn
  <1>2. ProfileInv /\ [NextR]_allVars => ProfileInv'
    BY ProfileNext
  <1>3. ProfileInv => ProfileKeysOwn
    BY DEF ProfileInv
  <1> QED  BY <1>1, <1>2, <1>3, PTL DEF SpecR
==============================================================================
