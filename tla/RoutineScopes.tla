---------------------------- MODULE RoutineScopes ----------------------------
(****************************************************************************)
(* One thread walks through a routine, along the edges of its control flow  *)
(* graph, with the analysis calls Controlflow and Dataflow inserted.  The   *)
(* marks of a conditional branch are active from the branch until its       *)
(* immediate postdominator is reached.                                      *)
(****************************************************************************)
EXTENDS TaintEngine

CONSTANTS
    Entry,       \* the address of the first instruction
    Successors,  \* Successors[a]: the addresses that may follow address a
    Ipdom,       \* Ipdom[b]: the immediate postdominator of branch b
    Code         \* Code[a]: the instruction at a, a member of Program

VARIABLES
    pc,    \* the address of the last instruction executed
    open   \* history: open[b], the marks branch b was taken on and whose
           \* scope has not ended

allVars == <<vars, pc, open>>

Thread == CHOOSE t \in Threads : TRUE

\* The branches whose scope ends at a.
Ends(a) == {b \in DOMAIN Ipdom : Ipdom[b] = a}

ASSUME RoutineAssumption == Threads # {} /\ \A a \in DOMAIN Successors : Code[a] \in Program

\* Controlflow inserts its calls in front of those of the handler, the push first: one
\* push where a is a branch, and one pop of all the branches that end at a.
Positions(a, fn) == {k \in DOMAIN Analysis[Code[a]] : Analysis[Code[a]][k].fn = fn}
PushAt(a) == IF a \in DOMAIN Ipdom THEN {1} ELSE {}
PopAt(a) == IF Ends(a) = {} THEN {} ELSE IF a \in DOMAIN Ipdom THEN {2} ELSE {1}

ASSUME ControlAssumption ==
    \A a \in DOMAIN Successors : Analysis[Code[a]] # Abort =>
       /\ Positions(a, "PushControl") = PushAt(a) /\ Positions(a, "PopControl") = PopAt(a)
       /\ \A k \in PushAt(a) : Analysis[Code[a]][k].addr = a
       /\ \A k \in PopAt(a) :
             LET addrs == Analysis[Code[a]][k].addrs IN {addrs[j] : j \in DOMAIN addrs} = Ends(a)

InitR == Init /\ pc = Entry /\ open = NoEntries

\* The scopes after the instruction at a is reached: those that end at a are
\* closed, and a branch on marked flags opens its own or adds to it.
ScopesAt(a) ==
    LET entered == IF a \in DOMAIN Ipdom THEN MarksOf(regTaintMap, "EFLAGS") ELSE {}
        opened == IF entered = {} THEN open ELSE Put(open, {a}, MarksOf(open, a) \cup entered)
    IN Erase(opened, Ends(a))

Step(a) ==
    /\ a \in Successors[pc]
    /\ Execute(Thread, Code[a])
    /\ pc' = a
    /\ open' = ScopesAt(a)

NextR ==
    \/ \E a \in DOMAIN Successors : Step(a)
    \/ (AnalysisCall(Thread) \/ Retire(Thread)) /\ UNCHANGED <<pc, open>>
    \/ \E ea \in Inputs : SetNewTaintForMemory(Thread, ea) /\ UNCHANGED <<pc, open>>
    \/ \E ea \in Overwritten : SyscallOverwrites(Thread, ea) /\ UNCHANGED <<pc, open>>

SpecR == InitR /\ [][NextR]_allVars

\* dytan.h calls controlTaintMap the "map that stores taint marks active due to
\* control flow".  Between two instructions it holds exactly the branches the
\* routine is in the scope of, with all the marks they were taken on: PushControl
\* misses none, and PopControl leaves none behind after the postdominator, also
\* when scopes nest and when a loop takes a branch again.
ActiveScopes == ins[Thread] = Idle => controlTaintMap = open

\* A register or a byte that an instruction writes in the scope of a branch
\* carries the marks of the branch from then on: SetTaintForRegister and
\* SetTaintForMemory add controlTaintMap to what they store.
ScopeMarksStored ==
    [][/\ \A r \in DOMAIN regTaintMap' :
             (r \notin DOMAIN regTaintMap \/ regTaintMap'[r] # MarksOf(regTaintMap, r))
                => AllMarks(open) \subseteq regTaintMap'[r]
       /\ \A a \in DOMAIN memTaintMap' :
             (calls # calls' /\ memTaintMap'[a] # MarksOf(memTaintMap, a))
                => AllMarks(open) \subseteq memTaintMap'[a]]_allVars

\* With profiling, a store adds a key to profilingMap, "logging here such that
\* control flow can be included": the marks in it are those the instruction of
\* its opcode read, and none that an earlier instruction left in prof_stream.
ProfileKeysOwn == \A key \in profilingMap : key.from \subseteq {key.op}
==============================================================================
