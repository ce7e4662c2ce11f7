---------------------------- MODULE RoutineGraph -----------------------------
(****************************************************************************)
(* RoutineGraph and BasicBlock: the basic blocks of a routine, the edges    *)
(* between them, and the postdominator of each block, from which            *)
(* Controlflow takes the instruction where the scope of a branch ends.      *)
(*                                                                          *)
(* mapper and BlockBuilder read the routine once and are operators here.    *)
(* buildPostDominanceTree works backwards from the return node, breadth     *)
(* first, and corrects the postdominator of a block each time it comes to   *)
(* it again; each predecessor it looks at is one step.                      *)
(****************************************************************************)
EXTENDS Integers, Sequences, FiniteSetsExt

CONSTANTS
    First,        \* the address of a routine's first instruction
    Routines,     \* routines: from addresses First, First + 1... to instructions
    MaxGarbage,   \* bound: blocks allocated where memory was used before
    NULL,
    Garbage       \* a pointer the constructor did not set, other than NULL

Flag == [call |-> 1, ret |-> 2, icall |-> 4, ibranch |-> 5]
ReturnNode == Flag.ret

ASSUME AddressAssumption ==
    /\ First \in Nat /\ \A k \in DOMAIN Flag : Flag[k] < First
    /\ \A r \in Routines :
          /\ First \in DOMAIN r /\ IsFiniteSet(DOMAIN r)
          /\ \A a \in DOMAIN r :
                /\ a \in Nat /\ First <= a /\ First .. a \subseteq DOMAIN r
                /\ r[a].kind \in {"plain", "jcc", "jmp", "call", "icall", "ret", "ibranch"}
    /\ NULL \notin Nat /\ Garbage \notin Nat /\ NULL # Garbage

VARIABLES
    routine,
    predecessors,              \* per block, set<void *>
    garbage,                   \* history: blocks whose PostDominator began as Garbage
    PostDominator,
    isPostDominated,
    postDominated,             \* per block, the keys of the map that have a block...
    nullKeys,                  \* ... and those that operator[] put in with NULL
    immediatelyPostDominated,
    currentBlock,
    edgeTargets,               \* its predecessors that are still to be looked at
    blockQueue

graph == <<routine, predecessors, garbage>>
tree == <<PostDominator, isPostDominated, postDominated, nullKeys, immediatelyPostDominated>>
vars == <<graph, tree, currentBlock, edgeTargets, blockQueue>>

------------------------------------------------------------------------------
(* The graph.  A block is known by its startingAddress. *)

\* mapper: the targets of the branch at a, with a flag for those it does not know.
branches(a) ==
    LET ins == routine[a] IN
    CASE ins.kind = "plain" -> {}
      [] ins.kind = "jcc" -> {ins.target, a + 1}
      [] ins.kind = "jmp" -> {ins.target}
      [] ins.kind \in {"call", "icall"} -> {Flag[ins.kind], a + 1}
      [] ins.kind \in {"ret", "ibranch"} -> {Flag[ins.kind]}

IsBranch(a) == branches(a) # {}
IsTarget(a) == \E b \in DOMAIN routine : a \in branches(b)

\* BlockBuilder's loop begins behind the first instruction, which therefore is
\* never looked at as a branch: its block goes on.
EndsBlock(a) == a # First /\ IsBranch(a)

\* The block an instruction is in (addressMap).
StartsBlock(a) == a = First \/ IsTarget(a) \/ EndsBlock(a - 1)
BlockAt(a) == Max({s \in First .. a : StartsBlock(s)})

allBlocks == {a \in DOMAIN routine : StartsBlock(a)} \cup {ReturnNode}

\* BranchIns: the blocks that get the block of the branch at a as a predecessor.
\* It goes by the lowest target.  Calls are passed over; an indirect branch leads
\* nowhere; a jump to the start of its own block is given a fall through.
BranchIns(a) ==
    LET target == Min(branches(a)) IN
    CASE target \in {Flag.call, Flag.icall} -> {a + 1}
      [] target = Flag.ret -> {ReturnNode}
      [] target = Flag.ibranch -> {}
      [] OTHER -> branches(a) \cup (IF branches(a) = {BlockAt(a)} THEN {a + 1} ELSE {})

\* BlockBuilder: an edge from each branch, and from a block to the next one where
\* a target ends it.
BlockBuilder(block) ==
    {BlockAt(a) : a \in {b \in DOMAIN routine : EndsBlock(b) /\ block \in BranchIns(b)}}
      \cup {BlockAt(a) : a \in {b \in DOMAIN routine :
                                   b + 1 = block /\ ~EndsBlock(b) /\ IsTarget(block)}}

\* Routines that run past their last instruction make the code ask for the address
\* of an instruction that is not there.
EndsInside ==
    LET end == Max(DOMAIN routine) IN
    /\ routine[end].kind \in {"ret", "jmp", "ibranch"}
    /\ EndsBlock(end) => (end + 1) \notin BranchIns(end)

------------------------------------------------------------------------------
(* The postdominators. *)

Blocks == DOMAIN predecessors

\* The block and those a walk along PostDominator reaches, up to the return node.
Chain(block) ==
    LET above == [b \in Blocks \cup {NULL, Garbage} |->
                    IF b \in Blocks \ {ReturnNode} THEN PostDominator[b] ELSE b]
        up[n \in 0 .. Cardinality(Blocks)] == IF n = 0 THEN block ELSE above[up[n - 1]]
    IN {up[n] : n \in DOMAIN up}

\* Mutant: whatever was known, the return node is taken.
getCommonPostDominatorLast(block, sibling) == ReturnNode

\* The first block on the way from block to the return node whose map has sibling.
getCommonPostDominator(block, sibling) ==
    LET parents == {b \in Chain(block) : sibling \in postDominated[b]} \cup {ReturnNode}
    IN CHOOSE b \in parents : parents \subseteq Chain(b)

\* Mutant: the two postdominators are not brought together.
addPredecessorAsPostDominatedLatest(predecessor) ==
    /\ PostDominator' = [PostDominator EXCEPT ![predecessor] = currentBlock]
    /\ isPostDominated' = [isPostDominated EXCEPT ![predecessor] = TRUE]
    /\ UNCHANGED <<postDominated, nullKeys, immediatelyPostDominated>>

\* The first block to come to a predecessor is its postdominator; all blocks up to
\* the return node get the news (passDownPostDominanceInfo).
FirstPostDominator(predecessor) ==
    LET informed == Chain(currentBlock) IN
    /\ PostDominator' = [PostDominator EXCEPT ![predecessor] = currentBlock]
    /\ immediatelyPostDominated' =
          [immediatelyPostDominated EXCEPT ![currentBlock] = @ \cup {predecessor}]
    /\ postDominated' = [b \in Blocks |->
          IF b \in informed THEN postDominated[b] \cup {predecessor} ELSE postDominated[b]]
    /\ nullKeys' = [b \in Blocks |->
          IF b \in informed THEN nullKeys[b] \ {predecessor} ELSE nullKeys[b]]

\* Any other has to share it with the one there is.  The search leaves NULL in the
\* maps it looks into; deleteDownPostDominanceInfo takes the predecessor, and all
\* that is in its own map, out of those between the old one and the new one.
SharedPostDominator(predecessor) ==
    LET new == getCommonPostDominator(currentBlock, predecessor)
        searched == (Chain(currentBlock) \ Chain(new)) \cup {new}
        probed == [b \in Blocks |->
                     IF b \in searched THEN nullKeys[b] \cup ({predecessor} \ postDominated[b])
                     ELSE nullKeys[b]]
        deletable == {predecessor} \cup postDominated[predecessor] \cup probed[predecessor]
        walk == Chain(PostDominator[predecessor])
        passed == IF new \in walk THEN walk \ Chain(new) ELSE walk
    IN /\ PostDominator' = [PostDominator EXCEPT ![predecessor] = new]
       /\ immediatelyPostDominated' =
             [b \in Blocks |->
                (immediatelyPostDominated[b] \ (IF b = currentBlock THEN {predecessor} ELSE {}))
                  \cup (IF b = new THEN {predecessor} ELSE {})]
       /\ postDominated' =
             [b \in Blocks |-> postDominated[b] \ (IF b \in passed THEN deletable ELSE {})]
       /\ nullKeys' = [b \in Blocks |-> probed[b] \ (IF b \in passed THEN deletable ELSE {})]

addPredecessorAsPostDominated(predecessor) ==
    /\ isPostDominated' = [isPostDominated EXCEPT ![predecessor] = TRUE]
    /\ IF isPostDominated[predecessor] THEN SharedPostDominator(predecessor)
       ELSE FirstPostDominator(predecessor)

Init ==
    /\ routine \in Routines /\ EndsInside
    /\ predecessors = [b \in allBlocks |-> BlockBuilder(b)]
    /\ garbage \in {S \in SUBSET Blocks : Cardinality(S) <= MaxGarbage}
    /\ PostDominator = [b \in Blocks |-> IF b \in garbage THEN Garbage ELSE NULL]
    /\ isPostDominated = [b \in Blocks |-> FALSE]
    /\ postDominated = [b \in Blocks |-> {}]
    /\ nullKeys = [b \in Blocks |-> {}]
    /\ immediatelyPostDominated = [b \in Blocks |-> {}]
    /\ currentBlock = ReturnNode
    /\ edgeTargets = predecessors[ReturnNode]
    /\ blockQueue = << >>

\* The predecessors are a set of pointers: their order is that of the heap.
LookAt(predecessor) ==
    /\ predecessor \in edgeTargets
    /\ blockQueue' = IF PostDominator[predecessor] = NULL THEN Append(blockQueue, predecessor)
                     ELSE blockQueue
    /\ addPredecessorAsPostDominated(predecessor)
    /\ edgeTargets' = edgeTargets \ {predecessor}
    /\ UNCHANGED <<graph, currentBlock>>

\* Mutant: the block is looked up but left in the queue.
NextBlockKept ==
    /\ edgeTargets = {} /\ blockQueue # << >>
    /\ currentBlock' = Head(blockQueue)
    /\ edgeTargets' = predecessors[Head(blockQueue)]
    /\ UNCHANGED <<graph, tree, blockQueue>>

\* The recursive call of buildPostDominanceTree.
NextBlock ==
    /\ edgeTargets = {} /\ blockQueue # << >>
    /\ currentBlock' = Head(blockQueue)
    /\ edgeTargets' = predecessors[Head(blockQueue)]
    /\ blockQueue' = Tail(blockQueue)
    /\ UNCHANGED <<graph, tree>>

Next == (\E b \in Blocks : LookAt(b)) \/ NextBlock

\* The builder is sequential code that runs while a routine is instrumented:
\* nothing it waits for, so it takes its next step.
Spec == Init /\ [][Next]_vars /\ WF_vars(Next)

Done == edgeTargets = {} /\ blockQueue = << >>

------------------------------------------------------------------------------
(* What a postdominator is, by the paths through the instructions.  A path  *)
(* ends at a return; an indirect branch, a jump out of the routine and a    *)
(* block without end are not followed, as in the graph.                     *)

Flow == [a \in DOMAIN routine |-> IF IsBranch(a) THEN BranchIns(a) ELSE {a + 1}]

\* The instructions from which some path returns without passing through x.
Returning(flow, x) ==
    LET nodes == DOMAIN flow \ {x}
        back[n \in 0 .. Cardinality(nodes)] ==
          IF n = 0 THEN {ReturnNode} \ {x}
          ELSE LET found == back[n - 1] IN found \cup {a \in nodes : flow[a] \cap found # {}}
    IN back[Cardinality(nodes)]

\* The blocks that every path from a conditional branch passes through on its way to
\* the return, for the branches that have such a path.
PostDominators ==
    LET flow == Flow
        returns == Returning(flow, NULL)
        around == [x \in Blocks |-> Returning(flow, x)]
    IN [a \in {b \in DOMAIN routine \cap returns : routine[b].kind = "jcc"} |->
           {x \in Blocks \ {a} : a \notin around[x]}]

\* The graph is that of the instructions if the first one is no jump, and the builder
\* finds its blocks in memory that holds zeros.
GraphRight == routine[First].kind \in {"plain", "call", "icall"} /\ garbage = {}

\* buildPostDominanceTree calls itself until its queue is empty, which it comes to
\* be on every routine, however its branches loop and whatever the pointers held
\* that the constructor of BasicBlock does not set.
Termination == <>Done

\* getCommonPostDominator, passDownPostDominanceInfo and
\* deleteDownPostDominanceInfo follow PostDominator until they are at the return
\* node.  From each block that has a postdominator they come there: moving a block to
\* another postdominator closes no circle and meets no pointer that was not set.
ChainsEnd ==
    \A b \in Blocks : isPostDominated[b] =>
       LET above == Chain(PostDominator[b]) IN above \subseteq Blocks \ {b} /\ ReturnNode \in above

\* A block that is moved is put below one that was above it: deleteDownPostDominanceInfo,
\* which stops nowhere but at the new postdominator, meets it on its way up from the old
\* one and does not go on behind the return node, whose PostDominator is never set.
MovesUp ==
    [][\A b \in Blocks : isPostDominated[b] => PostDominator'[b] \in Chain(PostDominator[b])]_vars

\* No postdominator of a conditional branch is missed: the scope of the branch is
\* closed at its immediate postdominator or at a block that was taken for one before
\* it, never later.
NoneMissed ==
    Done /\ GraphRight =>
       LET right == PostDominators IN
       \A a \in DOMAIN right : right[a] \subseteq Chain(PostDominator[BlockAt(a)])

\* "The PostDominator is a pointer to the postDominating node of the current one"
\* (BasicBlock.H): every path from a conditional branch to the return passes through
\* it.
PostDominatorRight ==
    Done /\ GraphRight =>
       LET right == PostDominators IN
       \A a \in DOMAIN right : PostDominator[BlockAt(a)] \in right[a]
==============================================================================
