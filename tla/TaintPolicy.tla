----------------------------- MODULE TaintPolicy -----------------------------
(****************************************************************************)
(* What taint propagation promises: an instruction takes effect at once.    *)
(* Its destinations get the union of the marks its sources had before the   *)
(* instruction and of the marks control flow contributes, and nothing else  *)
(* changes.  There are no intermediate buffers and no order of analysis     *)
(* calls; Effects says what each instruction moves where.                   *)
(****************************************************************************)
EXTENDS TaintMaps, Sequences

CONSTANTS
    REG, Addresses, Program, Idle,
    Parts,        \* Parts[r]: the registers that hold part of register r
    Untracked,    \* the registers that carry no marks
    Effects,      \* Effects[i]: what instruction i does
    Inputs,       \* sets of addresses a taint source may mark
    Overwritten,  \* sets of addresses a system call may overwrite
    Mark

SX == INSTANCE SequencesExt

VARIABLES
    reg, mem, control,  \* the marks of registers, memory and open branches
    now                 \* the instruction being executed

(* A place is [regs, bytes]; a flow [to, from, clear] moves the marks of    *)
(* the place from to the place to.  An effect is [push, pop, flows]: the    *)
(* branches it opens and closes, and its flows in order.                    *)
Before(p) == UnionOf(reg, p.regs) \cup UnionOf(mem, p.bytes)

Wholly(regs) == UNION {Parts[r] \cup {r} : r \in regs \ Untracked}

\* Marks of several flows into one place: the last flow wins, and all of them
\* read what was there before the instruction.
Move(state, flow, active) ==
    LET marks == active \cup (IF flow.clear THEN {} ELSE Before(flow.from))
        regs == Wholly(flow.to.regs)
    IN IF flow.clear
       THEN [reg |-> Overwrite(state.reg, regs, marks),
             mem |-> Overwrite(state.mem, flow.to.bytes, marks)]
       ELSE [reg |-> Put(state.reg, regs, marks),
             mem |-> Put(state.mem, flow.to.bytes, marks)]

\* Branches close; then a branch on marked flags opens.
Controlled(effect) ==
    LET closed == Erase(control, effect.pop)
        flags == MarksOf(reg, "EFLAGS")
    IN IF flags = {} THEN closed
       ELSE [b \in DOMAIN closed \cup effect.push |->
                MarksOf(closed, b) \cup (IF b \in effect.push THEN flags ELSE {})]

Init == reg = NoEntries /\ mem = NoEntries /\ control = NoEntries /\ now = Idle

Begin(i) == now = Idle /\ now' = i /\ UNCHANGED <<reg, mem, control>>

Commit ==
    /\ now # Idle /\ now' = Idle
    /\ control' = Controlled(Effects[now])
    /\ LET active == AllMarks(control')
           Then(state, flow) == Move(state, flow, active)
           after == SX!FoldLeft(Then, [reg |-> reg, mem |-> mem], Effects[now].flows)
       IN reg' = after.reg /\ mem' = after.mem

Input(bytes) ==
    /\ now = Idle
    /\ \E m \in Mark : mem' = Put(mem, bytes, {m})
    /\ UNCHANGED <<reg, control, now>>

SystemCall(bytes) ==
    /\ now = Idle
    /\ mem' = Erase(mem, bytes)
    /\ UNCHANGED <<reg, control, now>>

Next ==
    \/ \E i \in Program : Begin(i)
    \/ Commit
    \/ \E bytes \in Inputs : Input(bytes)
    \/ \E bytes \in Overwritten : SystemCall(bytes)

Spec == Init /\ [][Next]_<<reg, mem, control, now>>
==============================================================================
