------------------------- MODULE RoutineGraph_proofs -------------------------
(****************************************************************************)
(* Proofs about the builder of postdominators, for every routine.           *)
(****************************************************************************)
EXTENDS RoutineGraph, NumberTheorems, FiniteSetTheorems

------------------------------------------------------------------------------
(* The blocks of a routine.                                                 *)

\* A set of numbers that is not empty and has a bound has a greatest element.
LEMMA GreatestNumber ==
    ASSUME NEW T, T \subseteq Nat, T # {}, NEW n \in Nat, \A k \in T : k <= n
    PROVE  Max(T) \in T /\ \A k \in T : k <= Max(T)
  <1> DEFINE U == {k \in 0 .. n : n - k \in T}
  <1>1. U \subseteq Nat
    OBVIOUS
  <1>2. U # {}
    <2>1. PICK k \in T : TRUE
      OBVIOUS
    <2>2. n - k \in U
      BY <2>1
    <2> QED  BY <2>2
  <1> HIDE DEF U
  <1>3. PICK m \in U : \A k \in U : m <= k
    BY <1>1, <1>2, LeastNumber
  <1>4. n - m \in T /\ \A k \in T : k <= n - m
    <2>1. ASSUME NEW k \in T PROVE n - k \in U
      BY <2>1 DEF U
    <2> QED  BY <1>3, <2>1 DEF U
  <1>5. \E x \in T : \A y \in T : x >= y
    BY <1>4
  <1> QED  BY <1>5 DEF Max

\* The block of an instruction starts at it or before it, in the routine.
LEMMA BlockOf ==
    ASSUME routine \in Routines, NEW a \in DOMAIN routine
    PROVE  /\ BlockAt(a) \in allBlocks \ {ReturnNode}
           /\ BlockAt(a) \in First .. a /\ StartsBlock(BlockAt(a))
           /\ \A s \in First .. a : StartsBlock(s) => s <= BlockAt(a)
  <1> DEFINE starts == {s \in First .. a : StartsBlock(s)}
  <1>1. a \in Nat /\ First \in Nat /\ First <= a /\ First .. a \subseteq DOMAIN routine
    BY AddressAssumption
  <1>2. ReturnNode < First
    BY AddressAssumption DEF ReturnNode, Flag
  <1>3. First \in starts
    BY <1>1 DEF StartsBlock
  <1>4. starts \subseteq Nat /\ starts # {} /\ \A s \in starts : s <= a
    BY <1>1, <1>3
  <1> HIDE DEF starts
  <1>5. Max(starts) \in starts /\ \A s \in starts : s <= Max(starts)
    BY <1>1, <1>4, GreatestNumber
  <1>6. Max(starts) = BlockAt(a)
    BY DEF BlockAt, starts
  <1>7. BlockAt(a) \in First .. a /\ StartsBlock(BlockAt(a))
    BY <1>5, <1>6 DEF starts
  <1>8. BlockAt(a) \in DOMAIN routine /\ BlockAt(a) # ReturnNode
    <2> HIDE DEF BlockAt
    <2> QED  BY <1>1, <1>2, <1>7 DEF ReturnNode, Flag
  <1>9. BlockAt(a) \in allBlocks
    BY <1>7, <1>8 DEF allBlocks
  <1>10. \A s \in First .. a : StartsBlock(s) => s <= BlockAt(a)
    BY <1>5, <1>6 DEF starts
  <1> QED  BY <1>7, <1>8, <1>9, <1>10

LEMMA BlocksFinite ==
    ASSUME routine \in Routines
    PROVE  IsFiniteSet(allBlocks) /\ ReturnNode \in allBlocks
  <1> DEFINE inside == {a \in DOMAIN routine : StartsBlock(a)}
  <1>1. IsFiniteSet(DOMAIN routine) /\ inside \in SUBSET DOMAIN routine
    BY AddressAssumption
  <1> HIDE DEF inside
  <1>2. IsFiniteSet(inside)
    BY <1>1, FS_Subset
  <1>3. IsFiniteSet(inside \cup {ReturnNode})
    BY <1>2, FS_AddElement
  <1> QED  BY <1>3 DEF inside, allBlocks

\* The return node is no predecessor.
LEMMA PredecessorsInside ==
    ASSUME routine \in Routines, NEW b
    PROVE  BlockBuilder(b) \subseteq allBlocks \ {ReturnNode}
  BY BlockOf DEF BlockBuilder

------------------------------------------------------------------------------
(* The tree of postdominators.                                              *)

Found == {b \in Blocks : isPostDominated[b]}
Tree == Found \cup {ReturnNode}

TypeInv ==
    /\ IsFiniteSet(Blocks) /\ ReturnNode \in Blocks /\ ReturnNode \notin Found
    /\ predecessors \in [Blocks -> SUBSET (Blocks \ {ReturnNode})]
    /\ PostDominator = [b \in Blocks |-> PostDominator[b]]
    /\ isPostDominated \in [Blocks -> BOOLEAN]
    /\ postDominated \in [Blocks -> SUBSET Blocks]
    /\ nullKeys \in [Blocks -> SUBSET Blocks]
    /\ currentBlock \in Tree
    /\ edgeTargets \subseteq predecessors[currentBlock]
    /\ blockQueue \in Seq(Found)

\* The blocks are numbered as they were found, the return node first.  A block is
\* found, and put into the maps of others, after its postdominator and after them.
Numbering(rank) ==
    /\ rank \in [Tree -> 0 .. Cardinality(Found)]
    /\ rank[ReturnNode] = 0
    /\ \A b \in Found : /\ rank[b] > 0 /\ PostDominator[b] \in Tree
                        /\ rank[PostDominator[b]] < rank[b]

MapsNumbered(rank) ==
    \A b \in Blocks : \A c \in postDominated[b] : b \in Tree /\ c \in Found /\ rank[b] < rank[c]

TreeInv == \E rank : Numbering(rank) /\ MapsNumbered(rank)

\* One step of a walk along PostDominator, and the walk.
Above ==
    [b \in Blocks \cup {NULL, Garbage} |->
        IF b \in Blocks \ {ReturnNode} THEN PostDominator[b] ELSE b]

Way(block) ==
    CHOOSE g : g = [k \in 0 .. Cardinality(Blocks) |-> IF k = 0 THEN block ELSE Above[g[k - 1]]]

LEMMA WaySteps ==
    ASSUME IsFiniteSet(Blocks), NEW block
    PROVE  /\ Cardinality(Blocks) \in Nat
           /\ Way(block)[0] = block
           /\ \A k \in 0 .. Cardinality(Blocks) :
                 k # Cardinality(Blocks) => Way(block)[k + 1] = Above[Way(block)[k]]
           /\ Chain(block) = {Way(block)[k] : k \in 0 .. Cardinality(Blocks)}
  <1> DEFINE n == Cardinality(Blocks)
             up == Way(block)
  <1>1. n \in Nat
    BY FS_CardinalityType
  <1>2. up = CHOOSE g : g = [k \in 0 .. n |-> IF k = 0 THEN block ELSE Above[g[k - 1]]]
    BY DEF Way
  <1>3. Chain(block) = {up[k] : k \in DOMAIN up}
    BY DEF Chain, Way, Above
  <1> HIDE DEF n, up
  <1>4. up = [k \in 0 .. n |-> IF k = 0 THEN block ELSE Above[up[k - 1]]]
    BY <1>1, <1>2, Iterated
  <1>5. DOMAIN up = 0 .. n /\ up[0] = block /\ \A k \in 0 .. n : k # n => up[k + 1] = Above[up[k]]
    BY <1>1, <1>4
  <1> QED  BY <1>1, <1>3, <1>5 DEF n, up

LEMMA FoundFewer ==
    ASSUME TypeInv
    PROVE  /\ IsFiniteSet(Found) /\ Cardinality(Found) \in Nat
           /\ Cardinality(Found) < Cardinality(Blocks)
  <1>1. Found \in SUBSET Blocks /\ Tree \in SUBSET Blocks /\ IsFiniteSet(Blocks)
    BY DEF TypeInv, Found, Tree
  <1>2. IsFiniteSet(Found) /\ IsFiniteSet(Tree) /\ Cardinality(Tree) <= Cardinality(Blocks)
    BY <1>1, FS_Subset
  <1>3. Cardinality(Tree) = Cardinality(Found) + 1
    BY <1>2, FS_AddElement DEF Tree, TypeInv
  <1>4. Cardinality(Found) \in Nat /\ Cardinality(Blocks) \in Nat
    BY <1>1, <1>2, FS_CardinalityType
  <1> QED  BY <1>2, <1>3, <1>4

LEMMA NumbersSmall ==
    ASSUME TypeInv, NEW rank, Numbering(rank)
    PROVE  /\ Cardinality(Blocks) \in Nat
           /\ \A c \in Tree : rank[c] \in Nat /\ rank[c] < Cardinality(Blocks)
  <1>1. Cardinality(Blocks) \in Nat
    BY FS_CardinalityType DEF TypeInv
  <1>2. Cardinality(Found) \in Nat /\ Cardinality(Found) < Cardinality(Blocks)
    BY FoundFewer
  <1>3. \A c \in Tree : rank[c] \in 0 .. Cardinality(Found)
    BY DEF Numbering
  <1> QED  BY <1>1, <1>2, <1>3

\* A walk stays in the tree and comes to the return node in as many steps as the
\* number of the block it began at, and stays there.
LEMMA WayEnds ==
    ASSUME TypeInv, NEW rank, Numbering(rank), NEW b \in Tree, NEW k \in 0 .. Cardinality(Blocks)
    PROVE  /\ Way(b)[k] \in Tree
           /\ rank[Way(b)[k]] <= rank[b]
           /\ rank[b] <= k => Way(b)[k] = ReturnNode
  <1> DEFINE n == Cardinality(Blocks)
             up == Way(b)
             S == {j \in 0 .. n : up[j] \in Tree /\ (up[j] = ReturnNode \/ rank[up[j]] + j <= rank[b])}
  <1>1. /\ n \in Nat /\ up[0] = b
        /\ \A j \in 0 .. n : j # n => up[j + 1] = Above[up[j]]
    BY WaySteps DEF TypeInv
  <1>2. Cardinality(Found) \in Nat
    BY FoundFewer
  <1>3. \A c \in Tree : rank[c] \in Nat /\ (c # ReturnNode => c \in Found)
    BY <1>2 DEF Numbering, Tree
  <1>4. \A c \in Tree : Above[c] = IF c = ReturnNode THEN c ELSE PostDominator[c]
    BY DEF Above, Tree, Found, TypeInv
  <1> HIDE DEF up, n
  <1>5. 0 \in S
    BY <1>1, <1>3
  <1>6. ASSUME NEW j \in 0 .. n, j # n, j \in S PROVE j + 1 \in S
    <2>1. up[j + 1] = Above[up[j]] /\ up[j] \in Tree /\ j + 1 \in 0 .. n
      BY <1>1, <1>6
    <2>2. CASE up[j] = ReturnNode
      BY <1>4, <2>1, <2>2
    <2>3. CASE up[j] # ReturnNode
      <3>1. up[j + 1] = PostDominator[up[j]] /\ up[j] \in Found
        BY <1>3, <1>4, <2>1, <2>3
      <3>2. up[j + 1] \in Tree /\ rank[up[j + 1]] < rank[up[j]]
        BY <3>1 DEF Numbering
      <3>3. rank[up[j]] + j <= rank[b]
        BY <1>6, <2>3
      <3> QED  BY <1>3, <2>1, <3>2, <3>3
    <2> QED  BY <2>2, <2>3
  <1> HIDE DEF S
  <1>7. 0 .. n \subseteq S
    BY <1>1, <1>5, <1>6, InductionUpTo
  <1>8. up[k] \in Tree /\ (up[k] = ReturnNode \/ rank[up[k]] + k <= rank[b])
    BY <1>7 DEF S, n
  <1>9. rank[ReturnNode] = 0 /\ \A c \in Found : rank[c] > 0
    BY DEF Numbering
  <1>10. k \in Nat
    BY <1>1 DEF n
  <1> QED  BY <1>3, <1>8, <1>9, <1>10 DEF up

\* The recursion the walks follow: a block, and then those above its postdominator.
LEMMA ChainSteps ==
    ASSUME TypeInv, NEW rank, Numbering(rank)
    PROVE  /\ Chain(ReturnNode) = {ReturnNode}
           /\ \A b \in Found : Chain(b) = {b} \cup Chain(PostDominator[b])
  <1> DEFINE n == Cardinality(Blocks)
  <1>1. n \in Nat /\ \A c \in Tree : rank[c] \in Nat /\ rank[c] < n
    BY NumbersSmall
  <1>2. Chain(ReturnNode) = {ReturnNode}
    <2>1. \A k \in 0 .. n : Way(ReturnNode)[k] = ReturnNode
      BY WayEnds DEF Numbering, Tree
    <2>2. Chain(ReturnNode) = {Way(ReturnNode)[k] : k \in 0 .. n} /\ 0 \in 0 .. n
      BY <1>1, WaySteps DEF TypeInv
    <2> QED  BY <2>1, <2>2
  <1>3. ASSUME NEW b \in Found PROVE Chain(b) = {b} \cup Chain(PostDominator[b])
    <2> DEFINE p == PostDominator[b]
               up == Way(b)
               next == Way(p)
               S == {k \in 0 .. n : k # n => up[k + 1] = next[k]}
    <2>1. /\ up[0] = b /\ \A k \in 0 .. n : k # n => up[k + 1] = Above[up[k]]
          /\ Chain(b) = {up[k] : k \in 0 .. n}
      BY WaySteps DEF TypeInv
    <2>2. /\ next[0] = p /\ \A k \in 0 .. n : k # n => next[k + 1] = Above[next[k]]
          /\ Chain(p) = {next[k] : k \in 0 .. n}
      BY WaySteps DEF TypeInv
    <2>3. b \in Tree /\ p \in Tree /\ rank[p] < rank[b] /\ Above[b] = p
      BY DEF Numbering, Tree, Above, Found, TypeInv
    <2>4. next[n] = ReturnNode /\ (n # 0 => next[n - 1] = ReturnNode) /\ n # 0
      <3>1. n # 0 /\ rank[p] <= n - 1 /\ n - 1 \in 0 .. n /\ n \in 0 .. n /\ rank[p] <= n
        BY <1>1, <2>3
      <3> HIDE DEF n, p
      <3> QED  BY <2>3, <3>1, WayEnds DEF n
    <2> HIDE DEF n, up, next
    <2>5. 0 \in S
      BY <1>1, <2>1, <2>2, <2>3
    <2>6. ASSUME NEW k \in 0 .. n, k # n, k \in S PROVE k + 1 \in S
      <3>1. k + 1 \in 0 .. n /\ up[k + 1] = next[k] /\ next[k + 1] = Above[next[k]]
        BY <1>1, <2>2, <2>6
      <3>2. k + 1 # n => up[(k + 1) + 1] = Above[up[k + 1]]
        BY <2>1, <3>1
      <3> QED  BY <3>1, <3>2
    <2> HIDE DEF S
    <2>7. 0 .. n \subseteq S
      BY <1>1, <2>5, <2>6, InductionUpTo
    <2>8. \A k \in 0 .. n : k # n => up[k + 1] = next[k]
      BY <2>7 DEF S
    <2>9. ASSUME NEW c \in Chain(b) PROVE c \in {b} \cup Chain(p)
      <3>1. PICK k \in 0 .. n : c = up[k]
        BY <2>1
      <3>2. CASE k = 0
        BY <2>1, <3>1, <3>2
      <3>3. CASE k # 0
        <4>1. k - 1 \in 0 .. n /\ k - 1 # n /\ (k - 1) + 1 = k
          BY <1>1, <3>3
        <4>2. up[(k - 1) + 1] = next[k - 1]
          BY <2>8, <4>1
        <4>3. c = next[k - 1]
          BY <3>1, <4>1, <4>2
        <4> QED  BY <2>2, <4>1, <4>3
      <3> QED  BY <3>2, <3>3
    <2>10. b \in Chain(b)
      <3>1. 0 \in 0 .. n
        BY <1>1
      <3> QED  BY <2>1, <3>1
    <2>11. ASSUME NEW c \in Chain(p) PROVE c \in Chain(b)
      <3>1. PICK k \in 0 .. n : c = next[k]
        BY <2>2
      <3>2. ASSUME NEW j \in 0 .. n, j # n, c = next[j] PROVE c \in Chain(b)
        <4>1. j + 1 \in 0 .. n /\ c = up[j + 1]
          BY <1>1, <2>8, <3>2
        <4> QED  BY <2>1, <4>1
      <3>3. CASE k # n
        BY <3>1, <3>2, <3>3
      <3>4. CASE k = n
        <4>1. c = next[n - 1] /\ n - 1 \in 0 .. n /\ n - 1 # n
          BY <1>1, <2>4, <3>1, <3>4
        <4> QED  BY <3>2, <4>1
      <3> QED  BY <3>3, <3>4
    <2> QED  BY <2>9, <2>10, <2>11
  <1> QED  BY <1>2, <1>3

\* A walk stays in the tree, goes to lower numbers only and ends at the return node.
LEMMA ChainInTree ==
    ASSUME TypeInv, NEW rank, Numbering(rank), NEW b \in Tree
    PROVE  /\ Chain(b) \subseteq Tree /\ b \in Chain(b) /\ ReturnNode \in Chain(b)
           /\ \A c \in Chain(b) : rank[c] <= rank[b]
  <1>1. Chain(b) \subseteq Tree /\ \A c \in Chain(b) : rank[c] <= rank[b]
    BY WayEnds, WaySteps DEF TypeInv
  <1>2. b \in Chain(b)
    BY ChainSteps DEF Tree
  <1>3. ReturnNode \in Chain(b)
    <2> DEFINE n == Cardinality(Blocks)
    <2>1. n \in 0 .. n /\ rank[b] <= n
      BY NumbersSmall
    <2>2. Way(b)[n] = ReturnNode
      BY <2>1, WayEnds
    <2> QED  BY <2>1, <2>2, WaySteps DEF TypeInv
  <1> QED  BY <1>1, <1>2, <1>3

\* Of any blocks on a walk there is a first one, from which the walk leads to the others.
LEMMA FirstOfChain ==
    ASSUME TypeInv, NEW rank, Numbering(rank), NEW b \in Tree, NEW T, T \subseteq Chain(b), T # {}
    PROVE  \E c \in T : T \subseteq Chain(c)
  <1> DEFINE n == Cardinality(Blocks)
             Good(c) == T \subseteq Chain(c) => \E d \in T : T \subseteq Chain(d)
             S == {k \in 0 .. n : \A c \in Tree : rank[c] <= k => Good(c)}
  <1>1. n \in Nat /\ \A c \in Tree : rank[c] \in Nat /\ rank[c] < n
    BY NumbersSmall
  <1>2. Good(ReturnNode)
    BY ChainSteps
  <1>3. rank[ReturnNode] = 0 /\ \A c \in Found : rank[c] > 0
    BY DEF Numbering
  <1> HIDE DEF n
  <1>4. 0 \in S
    <2> HIDE DEF Good
    <2>1. \A c \in Tree : rank[c] <= 0 => c = ReturnNode
      BY <1>1, <1>3 DEF Tree
    <2> QED  BY <1>1, <1>2, <2>1
  <1>5. ASSUME NEW k \in 0 .. n, k # n, k \in S PROVE k + 1 \in S
    <2>1. ASSUME NEW c \in Tree, rank[c] <= k + 1 PROVE Good(c)
      <3>1. CASE c = ReturnNode
        BY <1>2, <3>1
      <3>2. CASE c \in Found
        <4>1. PostDominator[c] \in Tree /\ rank[PostDominator[c]] < rank[c]
          BY <3>2 DEF Numbering
        <4>2. rank[PostDominator[c]] <= k
          BY <1>1, <2>1, <4>1
        <4>3. Good(PostDominator[c])
          BY <1>5, <4>1, <4>2
        <4>4. Chain(c) = {c} \cup Chain(PostDominator[c])
          BY <3>2, ChainSteps
        <4>5. CASE c \in T
          BY <4>5
        <4>6. CASE c \notin T
          BY <4>3, <4>4, <4>6
        <4> QED  BY <4>5, <4>6
      <3> QED  BY <3>1, <3>2 DEF Tree
    <2> HIDE DEF Good
    <2>2. k + 1 \in 0 .. n
      BY <1>1, <1>5
    <2> QED  BY <2>1, <2>2
  <1> HIDE DEF S
  <1>6. 0 .. n \subseteq S
    BY <1>1, <1>4, <1>5, InductionUpTo
  <1>7. n \in S /\ rank[b] <= n
    BY <1>1, <1>6
  <1>8. Good(b)
    BY <1>7 DEF S
  <1> QED  BY <1>8

\* What getCommonPostDominator returns: the return node, or a block whose map has the
\* sibling; and every such block on the way is above it.
LEMMA CommonPostDominator ==
    ASSUME TypeInv, NEW rank, Numbering(rank), NEW b \in Tree, NEW sibling
    PROVE  LET new == getCommonPostDominator(b, sibling) IN
           /\ new \in Chain(b)
           /\ new = ReturnNode \/ sibling \in postDominated[new]
           /\ \A c \in Chain(b) : sibling \in postDominated[c] => c \in Chain(new)
  <1> DEFINE parents == {c \in Chain(b) : sibling \in postDominated[c]} \cup {ReturnNode}
  <1>1. parents \subseteq Chain(b) /\ parents # {}
    BY ChainInTree
  <1>2. \E c \in parents : parents \subseteq Chain(c)
    <2> HIDE DEF parents
    <2> QED  BY <1>1, FirstOfChain
  <1> DEFINE new == getCommonPostDominator(b, sibling)
  <1>3. new \in parents /\ parents \subseteq Chain(new)
    BY <1>2 DEF getCommonPostDominator
  <1> HIDE DEF new
  <1> QED  BY <1>1, <1>3 DEF new

------------------------------------------------------------------------------
(* The steps of the builder.                                                *)

LEMMA TypeInit == Init => TypeInv /\ TreeInv
  <1> SUFFICES ASSUME Init PROVE TypeInv /\ TreeInv
    OBVIOUS
  <1>1. Blocks = allBlocks /\ routine \in Routines
    BY DEF Init, Blocks
  <1>2. IsFiniteSet(Blocks) /\ ReturnNode \in Blocks
    BY <1>1, BlocksFinite
  <1>3. predecessors \in [Blocks -> SUBSET (Blocks \ {ReturnNode})]
    BY <1>1, PredecessorsInside DEF Init
  <1>4. Found = {} /\ Tree = {ReturnNode}
    BY DEF Init, Found, Tree
  <1>5. TypeInv
    BY <1>2, <1>3, <1>4 DEF Init, TypeInv
  <1>6. Cardinality(Found) = 0
    BY <1>4, FS_EmptySet
  <1> DEFINE rank == [b \in Tree |-> 0]
  <1>7. Numbering(rank)
    BY <1>4, <1>6 DEF Numbering
  <1>8. MapsNumbered(rank)
    BY DEF MapsNumbered, Init
  <1> QED  BY <1>5, <1>7, <1>8 DEF TreeInv

\* The predecessor that is looked at.
LEMMA LookedAt ==
    ASSUME TypeInv, NEW p \in Blocks, LookAt(p)
    PROVE  /\ p \in Blocks \ {ReturnNode} /\ p \in edgeTargets
           /\ UNCHANGED <<predecessors, routine, garbage, currentBlock>> /\ Blocks' = Blocks
           /\ isPostDominated' = [isPostDominated EXCEPT ![p] = TRUE]
           /\ Found' = Found \cup {p} /\ Tree' = Tree \cup {p}
           /\ edgeTargets' = edgeTargets \ {p}
  <1>1. /\ p \in edgeTargets /\ UNCHANGED <<predecessors, routine, garbage, currentBlock>>
        /\ isPostDominated' = [isPostDominated EXCEPT ![p] = TRUE]
        /\ edgeTargets' = edgeTargets \ {p}
    BY DEF LookAt, addPredecessorAsPostDominated, graph
  <1>2. currentBlock \in Blocks
    BY DEF TypeInv, Tree, Found
  <1>3. p \in Blocks \ {ReturnNode}
    BY <1>1, <1>2 DEF TypeInv
  <1>4. Blocks' = Blocks
    BY <1>1 DEF Blocks
  <1>5. Found' = Found \cup {p}
    BY <1>1, <1>4 DEF Found, TypeInv
  <1> QED  BY <1>1, <1>3, <1>4, <1>5 DEF Tree

LEMMA TypeLookAt ==
    ASSUME TypeInv, NEW p \in Blocks, LookAt(p)
    PROVE  TypeInv'
  <1>1. /\ p \in Blocks \ {ReturnNode} /\ p \in edgeTargets
        /\ UNCHANGED <<predecessors, currentBlock>> /\ Blocks' = Blocks
        /\ isPostDominated' = [isPostDominated EXCEPT ![p] = TRUE]
        /\ Found' = Found \cup {p} /\ Tree' = Tree \cup {p}
        /\ edgeTargets' = edgeTargets \ {p}
    BY LookedAt
  <1>2. /\ PostDominator' = [b \in Blocks |-> PostDominator'[b]]
        /\ postDominated' \in [Blocks -> SUBSET Blocks]
        /\ nullKeys' \in [Blocks -> SUBSET Blocks]
    <2>1. CASE isPostDominated[p]
      <3> DEFINE new == getCommonPostDominator(currentBlock, p)
                 searched == (Chain(currentBlock) \ Chain(new)) \cup {new}
                 probed == [b \in Blocks |->
                     IF b \in searched THEN nullKeys[b] \cup ({p} \ postDominated[b]) ELSE nullKeys[b]]
                 walk == Chain(PostDominator[p])
                 passed == IF new \in walk THEN walk \ Chain(new) ELSE walk
                 deletable == {p} \cup postDominated[p] \cup probed[p]
      <3>1. /\ PostDominator' = [PostDominator EXCEPT ![p] = new]
            /\ postDominated' = [b \in Blocks |-> postDominated[b] \ (IF b \in passed THEN deletable ELSE {})]
            /\ nullKeys' = [b \in Blocks |-> probed[b] \ (IF b \in passed THEN deletable ELSE {})]
        BY <2>1 DEF LookAt, addPredecessorAsPostDominated, SharedPostDominator
      <3> HIDE DEF new, searched, passed, deletable
      <3>2. probed \in [Blocks -> SUBSET Blocks]
        BY DEF TypeInv
      <3> HIDE DEF probed
      <3> QED  BY <3>1, <3>2 DEF TypeInv
    <2>2. CASE ~isPostDominated[p]
      BY <1>1, <2>2 DEF LookAt, addPredecessorAsPostDominated, FirstPostDominator, TypeInv
    <2> QED  BY <2>1, <2>2
  <1>3. blockQueue' \in Seq(Found')
    <2>1. blockQueue \in Seq(Found')
      BY <1>1 DEF TypeInv
    <2>2. blockQueue' \in {blockQueue, Append(blockQueue, p)}
      BY DEF LookAt
    <2> QED  BY <1>1, <2>1, <2>2
  <1> QED  BY <1>1, <1>2, <1>3 DEF TypeInv

\* A block that is found takes the next number.
LEMMA FirstNumbering ==
    ASSUME TypeInv, NEW rank, Numbering(rank), MapsNumbered(rank),
           NEW p \in Blocks, LookAt(p), ~isPostDominated[p],
           NEW next, next = [b \in Tree \cup {p} |-> IF b = p THEN Cardinality(Found) + 1 ELSE rank[b]]
    PROVE  Numbering(next)' /\ MapsNumbered(next)'
  <1>1. /\ p \in Blocks \ {ReturnNode} /\ currentBlock \in Tree /\ p \notin Tree
        /\ Blocks' = Blocks /\ Found' = Found \cup {p} /\ Tree' = Tree \cup {p}
    BY LookedAt DEF TypeInv, Tree, Found
  <1>2. Cardinality(Found) \in Nat /\ Cardinality(Found') = Cardinality(Found) + 1
    BY <1>1, FoundFewer, FS_AddElement DEF Tree
  <1>3. /\ next[p] = Cardinality(Found) + 1
        /\ \A b \in Tree : next[b] = rank[b] /\ rank[b] \in 0 .. Cardinality(Found)
    BY <1>1 DEF Numbering
  <1>4. /\ PostDominator' = [PostDominator EXCEPT ![p] = currentBlock]
        /\ postDominated' = [b \in Blocks |-> IF b \in Chain(currentBlock) THEN postDominated[b] \cup {p}
                                               ELSE postDominated[b]]
    BY DEF LookAt, addPredecessorAsPostDominated, FirstPostDominator
  <1>5. PostDominator'[p] = currentBlock /\ \A b \in Found : PostDominator'[b] = PostDominator[b]
    BY <1>1, <1>4 DEF TypeInv, Tree, Found
  <1>6. Numbering(next)'
    <2>1. next \in [Tree' -> 0 .. Cardinality(Found')]
      BY <1>1, <1>2, <1>3
    <2>2. next[ReturnNode] = 0
      BY <1>3 DEF Numbering, Tree
    <2>3. \A b \in Found : next[b] > 0 /\ PostDominator'[b] \in Tree /\ next[PostDominator'[b]] < next[b]
      BY <1>3, <1>5 DEF Numbering, Tree
    <2>4. next[p] > 0 /\ PostDominator'[p] \in Tree /\ next[PostDominator'[p]] < next[p]
      BY <1>1, <1>2, <1>3, <1>5
    <2> QED  BY <1>1, <2>1, <2>2, <2>3, <2>4 DEF Numbering
  <1>7. MapsNumbered(next)'
    <2>1. ASSUME NEW b \in Blocks, NEW c \in postDominated'[b]
          PROVE  b \in Tree' /\ c \in Found' /\ next[b] < next[c]
      <3>1. CASE c \in postDominated[b]
        BY <1>1, <1>3, <2>1, <3>1 DEF MapsNumbered, Tree
      <3>2. CASE b \in Chain(currentBlock) /\ c = p
        <4>1. b \in Tree
          BY <1>1, <3>2, ChainInTree
        <4> QED  BY <1>1, <1>2, <1>3, <3>2, <4>1
      <3> QED  BY <1>4, <2>1, <3>1, <3>2
    <2> QED  BY <1>1, <2>1 DEF MapsNumbered
  <1> QED  BY <1>6, <1>7

\* A block that is moved keeps its number: it is put below a block that was there
\* when it was found.
LEMMA SharedNumbering ==
    ASSUME TypeInv, NEW rank, Numbering(rank), MapsNumbered(rank),
           NEW p \in Blocks, LookAt(p), isPostDominated[p]
    PROVE  Numbering(rank)' /\ MapsNumbered(rank)'
  <1> DEFINE new == getCommonPostDominator(currentBlock, p)
  <1>1. /\ p \in Found /\ currentBlock \in Tree
        /\ Blocks' = Blocks /\ Found' = Found /\ Tree' = Tree
    BY LookedAt DEF TypeInv, Tree, Found
  <1>2. /\ PostDominator' = [PostDominator EXCEPT ![p] = new]
        /\ \A b \in Blocks : postDominated'[b] \subseteq postDominated[b]
    BY <1>1 DEF LookAt, addPredecessorAsPostDominated, SharedPostDominator
  <1>3. new \in Tree /\ rank[new] < rank[p]
    <2>1. new \in Chain(currentBlock) /\ (new = ReturnNode \/ p \in postDominated[new])
      BY <1>1, CommonPostDominator
    <2>2. new \in Tree
      BY <1>1, <2>1, ChainInTree
    <2>3. CASE new = ReturnNode
      BY <1>1, <2>2, <2>3 DEF Numbering
    <2>4. CASE p \in postDominated[new]
      BY <2>2, <2>4 DEF MapsNumbered, Tree, Found, TypeInv
    <2> QED  BY <2>1, <2>2, <2>3, <2>4
  <1> HIDE DEF new
  <1>4. PostDominator'[p] = new /\ \A b \in Found : b # p => PostDominator'[b] = PostDominator[b]
    BY <1>1, <1>2 DEF TypeInv, Found
  <1>5. Numbering(rank)'
    BY <1>1, <1>3, <1>4 DEF Numbering
  <1>6. MapsNumbered(rank)'
    BY <1>1, <1>2 DEF MapsNumbered
  <1> QED  BY <1>5, <1>6

LEMMA TreeNext == TypeInv /\ TreeInv /\ [Next]_vars => TypeInv' /\ TreeInv'
  <1> SUFFICES ASSUME TypeInv, TreeInv, [Next]_vars PROVE TypeInv' /\ TreeInv'
    OBVIOUS
  <1>1. ASSUME NEW p \in Blocks, LookAt(p) PROVE TypeInv' /\ TreeInv'
    <2>1. PICK rank : Numbering(rank) /\ MapsNumbered(rank)
      BY DEF TreeInv
    <2>2. CASE isPostDominated[p]
      BY <1>1, <2>1, <2>2, TypeLookAt, SharedNumbering DEF TreeInv
    <2>3. CASE ~isPostDominated[p]
      <3>1. PICK next : next = [b \in Tree \cup {p} |->
                                   IF b = p THEN Cardinality(Found) + 1 ELSE rank[b]]
        OBVIOUS
      <3> QED  BY <1>1, <2>1, <2>3, <3>1, TypeLookAt, FirstNumbering DEF TreeInv
    <2> QED  BY <2>2, <2>3
  <1>2. CASE NextBlock \/ UNCHANGED vars
    <2>1. UNCHANGED <<predecessors, PostDominator, isPostDominated, postDominated, nullKeys>>
      BY <1>2 DEF NextBlock, vars, graph, tree
    <2>2. Blocks' = Blocks /\ Found' = Found /\ Tree' = Tree
      BY <2>1 DEF Blocks, Found, Tree
    <2>3. TreeInv'
      <3>1. PICK rank : Numbering(rank) /\ MapsNumbered(rank)
        BY DEF TreeInv
      <3>2. Numbering(rank)' /\ MapsNumbered(rank)'
        BY <2>1, <2>2, <3>1 DEF Numbering, MapsNumbered
      <3> QED  BY <3>2 DEF TreeInv
    <2>4. currentBlock' \in Tree /\ edgeTargets' \subseteq predecessors[currentBlock']
          /\ blockQueue' \in Seq(Found)
      <3>1. CASE NextBlock
        <4>1. blockQueue # << >> /\ blockQueue \in Seq(Found)
          BY <3>1 DEF NextBlock, TypeInv
        <4>2. Head(blockQueue) \in Found /\ Tail(blockQueue) \in Seq(Found)
          BY <4>1
        <4> QED  BY <3>1, <4>2 DEF NextBlock, Tree
      <3>2. CASE UNCHANGED vars
        BY <3>2 DEF vars, graph, TypeInv
      <3> QED  BY <1>2, <3>1, <3>2
    <2> QED  BY <2>1, <2>2, <2>3, <2>4 DEF TypeInv
  <1> QED  BY <1>1, <1>2 DEF Next

\* From every block that has a postdominator the walks of BasicBlock along the pointers
\* come to the return node, and to no pointer that was not set, while the builder runs
\* and after it, for every routine and every order of the heap: a block is only ever
\* put below one that was found before it.
THEOREM ChainsEndAlways == Spec => []ChainsEnd
  <1>1. TypeInv /\ TreeInv => ChainsEnd
    <2> SUFFICES ASSUME TypeInv, TreeInv, NEW b \in Found
                 PROVE  Chain(PostDominator[b]) \subseteq Blocks \ {b}
                        /\ ReturnNode \in Chain(PostDominator[b])
      BY DEF ChainsEnd, Found
    <2>1. PICK rank : Numbering(rank)
      BY DEF TreeInv
    <2>2. PostDominator[b] \in Tree /\ rank[PostDominator[b]] < rank[b] /\ b \in Tree
      BY <2>1 DEF Numbering, Tree
    <2>3. /\ Chain(PostDominator[b]) \subseteq Tree /\ ReturnNode \in Chain(PostDominator[b])
          /\ \A c \in Chain(PostDominator[b]) : rank[c] <= rank[PostDominator[b]]
      BY <2>1, <2>2, ChainInTree
    <2>4. \A c \in Tree : rank[c] \in Nat /\ c \in Blocks
      BY <2>1, NumbersSmall DEF Tree, Found, TypeInv
    <2>5. b \notin Chain(PostDominator[b])
      BY <2>2, <2>3, <2>4
    <2> QED  BY <2>3, <2>4, <2>5
  <1> QED  BY <1>1, TypeInit, TreeNext, PTL DEF Spec
==============================================================================
