------------------------ MODULE Postdominators_proofs ------------------------
(****************************************************************************)
(* The proof that the builder of postdominators misses none, for every      *)
(* routine: the paths through the instructions, the blocks they pass, and   *)
(* what the builder knows of them.                                          *)
(****************************************************************************)
EXTENDS RoutineGraph_proofs

------------------------------------------------------------------------------
(* Paths to the return, as sets of instructions they start from.            *)

\* One step of Returning.
Backward(flow, nodes, found) == found \cup {a \in nodes : flow[a] \cap found # {}}

\* Returning is the last of the sets that begin with the return node, and its members
\* are found in as many steps as there are instructions.
LEMMA ReturningSteps ==
    ASSUME NEW flow, NEW x, IsFiniteSet(DOMAIN flow)
    PROVE  LET nodes == DOMAIN flow \ {x}
               n == Cardinality(nodes)
           IN /\ n \in Nat /\ IsFiniteSet(nodes)
              /\ \E back : /\ back[0] = {ReturnNode} \ {x}
                           /\ \A k \in 0 .. n : k # n =>
                                 back[k + 1] = Backward(flow, nodes, back[k])
                           /\ Returning(flow, x) = back[n]
  <1> DEFINE nodes == DOMAIN flow \ {x}
             n == Cardinality(nodes)
             first == {ReturnNode} \ {x}
             Step(found) == found \cup {a \in nodes : flow[a] \cap found # {}}
             Rec(h, m) == h = [k \in 0 .. m |-> IF k = 0 THEN first ELSE Step(h[k - 1])]
             S == {m \in 0 .. n : \E h : Rec(h, m)}
             back == CHOOSE h : h = [k \in 0 .. n |-> IF k = 0 THEN first ELSE Step(h[k - 1])]
  <1>1. n \in Nat /\ IsFiniteSet(nodes)
    BY FS_Subset, FS_CardinalityType
  <1>2. Returning(flow, x) = back[n]
    BY DEF Returning
  <1> HIDE DEF Step, n
  <1>3. 0 \in S
    <2>1. Rec([k \in 0 .. 0 |-> first], 0)
      OBVIOUS
    <2>2. \E h : Rec(h, 0)
      BY <2>1
    <2> HIDE DEF Rec
    <2> QED  BY <1>1, <2>2
  <1>4. ASSUME NEW m \in 0 .. n, m # n, m \in S PROVE m + 1 \in S
    <2>1. PICK h : Rec(h, m)
      BY <1>4
    <2> DEFINE longer == [k \in 0 .. (m + 1) |-> IF k = m + 1 THEN Step(h[m]) ELSE h[k]]
    <2>0. m \in Nat
      BY <1>1
    <2>2. longer = [k \in 0 .. (m + 1) |-> IF k = 0 THEN first ELSE Step(longer[k - 1])]
      <3>1. ASSUME NEW k \in 0 .. (m + 1)
            PROVE  longer[k] = IF k = 0 THEN first ELSE Step(longer[k - 1])
        <4>1. CASE k = m + 1
          <5>1. k # 0 /\ k - 1 = m /\ longer[m] = h[m] /\ longer[k] = Step(h[m])
            BY <2>0, <4>1
          <5> HIDE DEF longer
          <5> QED  BY <5>1
        <4>2. CASE k # m + 1
          <5>1. k \in 0 .. m /\ longer[k] = h[k]
            BY <2>0, <4>2
          <5>2. h[k] = IF k = 0 THEN first ELSE Step(h[k - 1])
            BY <2>1, <5>1
          <5>3. k # 0 => k - 1 \in 0 .. (m + 1) /\ k - 1 # m + 1
            BY <2>0, <5>1
          <5>4. k # 0 => longer[k - 1] = h[k - 1]
            BY <5>3
          <5> HIDE DEF longer
          <5> QED  BY <5>1, <5>2, <5>4
        <4> QED  BY <4>1, <4>2
      <3>2. longer = [k \in 0 .. (m + 1) |-> longer[k]]
        OBVIOUS
      <3> HIDE DEF longer
      <3> QED  BY <3>1, <3>2
    <2>3. m + 1 \in 0 .. n
      BY <1>1, <1>4
    <2> QED  BY <2>2, <2>3
  <1> HIDE DEF S
  <1>5. 0 .. n \subseteq S
    BY <1>1, <1>3, <1>4, InductionUpTo
  <1>6. n \in S
    BY <1>1, <1>5
  <1>7. PICK h : h = [k \in 0 .. n |-> IF k = 0 THEN first ELSE Step(h[k - 1])]
    BY <1>6 DEF S
  <1>8. back = [k \in 0 .. n |-> IF k = 0 THEN first ELSE Step(back[k - 1])]
    BY <1>7
  <1> HIDE DEF back
  <1>9. /\ back[0] = first
        /\ \A k \in 0 .. n : k # n => back[k + 1] = Step(back[k])
    <2>1. \A k \in 0 .. n : back[k] = IF k = 0 THEN first ELSE Step(back[k - 1])
      BY <1>8
    <2>2. 0 \in 0 .. n
      BY <1>1
    <2>3. ASSUME NEW k \in 0 .. n, k # n PROVE back[k + 1] = Step(back[k])
      <3>1. k + 1 \in 0 .. n /\ k + 1 # 0 /\ (k + 1) - 1 = k
        BY <1>1, <2>3
      <3>2. back[k + 1] = Step(back[(k + 1) - 1])
        BY <2>1, <3>1
      <3> QED  BY <3>1, <3>2
    <2> QED  BY <2>1, <2>2, <2>3
  <1>10. \A k \in 0 .. n : k # n => back[k + 1] = Backward(flow, nodes, back[k])
    BY <1>9 DEF Step, Backward
  <1>11. \E b : /\ b[0] = {ReturnNode} \ {x}
                /\ \A k \in 0 .. n : k # n => b[k + 1] = Backward(flow, nodes, b[k])
                /\ Returning(flow, x) = b[n]
    BY <1>2, <1>9, <1>10
  <1> QED  BY <1>1, <1>11 DEF n

\* Returning holds the return node and whatever leads to a member around x; whatever
\* it holds leads to a member; and a set that is closed in this way holds it all.
LEMMA ReturningClosed ==
    ASSUME NEW flow, NEW x, IsFiniteSet(DOMAIN flow)
    PROVE  LET found == Returning(flow, x) IN
           /\ x # ReturnNode => ReturnNode \in found
           /\ \A a \in DOMAIN flow \ {x} : flow[a] \cap found # {} => a \in found
           /\ \A a \in found : a # ReturnNode => a \in DOMAIN flow \ {x} /\ flow[a] \cap found # {}
           /\ x \notin found
           /\ \A S : /\ ReturnNode \in S
                     /\ \A a \in DOMAIN flow : flow[a] \cap S # {} => a \in S
                     => found \subseteq S
  <1> DEFINE nodes == DOMAIN flow \ {x}
             n == Cardinality(nodes)
             found == Returning(flow, x)
             More(T) == {a \in nodes : flow[a] \cap T # {}}
  <1>1. n \in Nat /\ IsFiniteSet(nodes)
    BY ReturningSteps
  <1>2. PICK back : /\ back[0] = {ReturnNode} \ {x}
                    /\ \A k \in 0 .. n : k # n => back[k + 1] = Backward(flow, nodes, back[k])
                    /\ found = back[n]
    BY ReturningSteps
  <1> HIDE DEF n, nodes, found
  <1>3. \A k \in 0 .. n : k # n => back[k + 1] = back[k] \cup More(back[k])
    BY <1>2 DEF Backward
  <1> HIDE DEF More
  \* the members of every set, and what they lead to
  <1>4. \A k \in 0 .. n : /\ {ReturnNode} \ {x} \subseteq back[k]
                          /\ \A a \in back[k] : (a = ReturnNode /\ a # x) \/ a \in More(back[k])
    <2> DEFINE Fine(k) == /\ {ReturnNode} \ {x} \subseteq back[k]
                          /\ \A a \in back[k] : (a = ReturnNode /\ a # x) \/ a \in More(back[k])
               S == {k \in 0 .. n : Fine(k)}
    <2>1. 0 \in S
      BY <1>1, <1>2
    <2>2. ASSUME NEW k \in 0 .. n, k # n, k \in S PROVE k + 1 \in S
      <3>1. back[k + 1] = back[k] \cup More(back[k]) /\ k + 1 \in 0 .. n
        BY <1>1, <1>3, <2>2
      <3>2. More(back[k]) \subseteq More(back[k + 1])
        BY <3>1 DEF More
      <3>3. Fine(k)
        BY <2>2
      <3>4. Fine(k + 1)
        BY <3>1, <3>2, <3>3
      <3> QED  BY <3>1, <3>4
    <2> HIDE DEF S
    <2>3. 0 .. n \subseteq S
      BY <1>1, <2>1, <2>2, InductionUpTo
    <2> QED  BY <2>3 DEF S
  <1>5. n \in 0 .. n
    BY <1>1
  <1>6. /\ x # ReturnNode => ReturnNode \in found
        /\ \A a \in found : a # ReturnNode => a \in nodes /\ flow[a] \cap found # {}
        /\ x \notin found
    BY <1>2, <1>4, <1>5 DEF More, nodes
  \* a set that is not closed grows, and there are n instructions
  <1>7. More(found) \subseteq found
    <2> DEFINE Closed(k) == More(back[k]) \subseteq back[k]
               Many(k) == Cardinality(back[k] \cap nodes) >= k
               S == {k \in 0 .. n : Closed(k) \/ Many(k)}
    <2>0. \A k : IsFiniteSet(back[k] \cap nodes) /\ Cardinality(back[k] \cap nodes) \in Nat
      <3>1. \A k : back[k] \cap nodes \in SUBSET nodes
        OBVIOUS
      <3> QED  BY <1>1, <3>1, FS_Subset, FS_CardinalityType
    <2>1. 0 \in S
      BY <1>1, <2>0
    <2>2. ASSUME NEW k \in 0 .. n, k # n, k \in S PROVE k + 1 \in S
      <3>1. back[k + 1] = back[k] \cup More(back[k]) /\ k + 1 \in 0 .. n
        BY <1>1, <1>3, <2>2
      <3>2. CASE Closed(k)
        <4>1. back[k + 1] = back[k]
          BY <3>1, <3>2
        <4>2. Closed(k + 1)
          BY <3>2, <4>1
        <4> QED  BY <3>1, <4>2
      <3>3. CASE ~Closed(k)
        <4>1. PICK a \in nodes : a \in More(back[k]) /\ a \notin back[k]
          BY <3>3 DEF More
        <4> DEFINE T == back[k] \cap nodes
                   U == back[k + 1] \cap nodes
        <4>2. T \cup {a} \in SUBSET U /\ a \notin T
          BY <3>1, <4>1
        <4>3. IsFiniteSet(T) /\ IsFiniteSet(U) /\ Cardinality(T) \in Nat /\ Cardinality(U) \in Nat
              /\ Cardinality(T) >= k
          BY <2>0, <2>2, <3>3
        <4> HIDE DEF T, U
        <4>4. Cardinality(T \cup {a}) = Cardinality(T) + 1
          BY <4>2, <4>3, FS_AddElement
        <4>5. Cardinality(T \cup {a}) <= Cardinality(U)
          BY <4>2, <4>3, FS_Subset
        <4>6. k \in Nat
          BY <1>1
        <4>7. Cardinality(U) >= k + 1
          BY <4>3, <4>4, <4>5, <4>6
        <4> QED  BY <3>1, <4>7 DEF U
      <3> QED  BY <3>2, <3>3
    <2> HIDE DEF S
    <2>3. 0 .. n \subseteq S
      BY <1>1, <2>1, <2>2, InductionUpTo
    <2>4. Closed(n) \/ Many(n)
      BY <1>5, <2>3 DEF S
    <2>5. CASE Many(n)
      <3> DEFINE T == back[n] \cap nodes
      <3>1. T \in SUBSET nodes /\ Cardinality(T) \in Nat /\ Cardinality(T) >= n
        BY <2>0, <2>5
      <3> HIDE DEF T
      <3>2. Cardinality(T) <= Cardinality(nodes) /\ (Cardinality(nodes) = Cardinality(T) => nodes = T)
        BY <1>1, <3>1, FS_Subset
      <3>3. nodes = T
        BY <1>1, <3>1, <3>2 DEF n
      <3> QED  BY <1>2, <3>3 DEF T, More
    <2> QED  BY <1>2, <2>4, <2>5
  <1>8. ASSUME NEW S, ReturnNode \in S, \A a \in DOMAIN flow : flow[a] \cap S # {} => a \in S
        PROVE  found \subseteq S
    <2> DEFINE Inside == {k \in 0 .. n : back[k] \subseteq S}
    <2>1. 0 \in Inside
      BY <1>1, <1>2, <1>8
    <2>2. ASSUME NEW k \in 0 .. n, k # n, k \in Inside PROVE k + 1 \in Inside
      <3>1. back[k + 1] = back[k] \cup More(back[k]) /\ k + 1 \in 0 .. n
        BY <1>1, <1>3, <2>2
      <3>2. More(back[k]) \subseteq S
        BY <1>8, <2>2 DEF More, nodes
      <3> QED  BY <2>2, <3>1, <3>2
    <2> HIDE DEF Inside
    <2>3. 0 .. n \subseteq Inside
      BY <1>1, <2>1, <2>2, InductionUpTo
    <2> QED  BY <1>2, <1>5, <2>3 DEF Inside
  <1>9. \A a \in nodes : flow[a] \cap found # {} => a \in found
    BY <1>7 DEF More
  <1> QED  BY <1>6, <1>8, <1>9 DEF found, nodes

------------------------------------------------------------------------------
(* Blocks and the paths through their instructions.                         *)

FirstPlain == routine \in Routines /\ routine[First].kind \in {"plain", "call", "icall"}

\* The instructions from which a path returns around x.
Around(x) == Returning(Flow, x)

LEMMA Addresses ==
    ASSUME routine \in Routines
    PROVE  /\ First \in Nat /\ First \in DOMAIN routine /\ DOMAIN routine \subseteq Nat
           /\ ReturnNode \in Nat /\ ReturnNode < First /\ ReturnNode \notin DOMAIN routine
           /\ \A a \in DOMAIN routine : First <= a /\ First .. a \subseteq DOMAIN routine
           /\ IsFiniteSet(DOMAIN routine)
           /\ NULL \notin DOMAIN routine /\ NULL # ReturnNode
           /\ Flag.call < First /\ Flag.icall < First /\ Flag.call \in Nat /\ Flag.icall \in Nat
  <1>1. First \in Nat /\ Flag.call < First /\ Flag.icall < First /\ Flag.ret < First
    BY AddressAssumption DEF Flag
  <1>2. \A a \in DOMAIN routine : a \in Nat /\ First <= a /\ First .. a \subseteq DOMAIN routine
    BY AddressAssumption
  <1>3. First \in DOMAIN routine /\ IsFiniteSet(DOMAIN routine) /\ NULL \notin Nat
    BY AddressAssumption
  <1>4. ReturnNode = 2 /\ Flag.call = 1 /\ Flag.icall = 4 /\ Flag.ret = 2
    BY DEF ReturnNode, Flag
  <1> QED  BY <1>1, <1>2, <1>3, <1>4

\* The closure of the paths around x.
LEMMA AroundClosed ==
    ASSUME routine \in Routines, NEW x
    PROVE  /\ x # ReturnNode => ReturnNode \in Around(x)
           /\ \A a \in DOMAIN routine \ {x} : Flow[a] \cap Around(x) # {} => a \in Around(x)
           /\ \A a \in Around(x) : a # ReturnNode =>
                 a \in DOMAIN routine \ {x} /\ Flow[a] \cap Around(x) # {}
           /\ x \notin Around(x)
           /\ \A S : /\ ReturnNode \in S
                     /\ \A a \in DOMAIN routine : Flow[a] \cap S # {} => a \in S
                     => Around(x) \subseteq S
  <1>1. DOMAIN Flow = DOMAIN routine
    BY DEF Flow
  <1>2. IsFiniteSet(DOMAIN Flow)
    BY <1>1, Addresses
  <1> QED  BY <1>1, <1>2, ReturningClosed DEF Around

\* Where the first instruction is a call it leads to the next one.
LEMMA FirstFlow ==
    ASSUME FirstPlain
    PROVE  Flow[First] = {First + 1} /\ (IsBranch(First) => IsTarget(First + 1))
  <1>1. First \in DOMAIN routine /\ First \in Nat /\ Flag.call < First /\ Flag.icall < First
        /\ Flag.call \in Nat /\ Flag.icall \in Nat
    BY Addresses DEF FirstPlain
  <1>2. CASE routine[First].kind = "plain"
    <2>1. ~IsBranch(First)
      BY <1>2 DEF IsBranch, branches
    <2> QED  BY <1>1, <2>1 DEF Flow
  <1>3. CASE routine[First].kind \in {"call", "icall"}
    <2> DEFINE f == Flag[routine[First].kind]
    <2>1. branches(First) = {f, First + 1}
      BY <1>3 DEF branches
    <2>2. f \in {Flag.call, Flag.icall} /\ f \in Nat /\ f < First
      BY <1>1, <1>3
    <2> HIDE DEF f
    <2>3. Min({f, First + 1}) = f
      <3>1. \E m \in {f, First + 1} : \A y \in {f, First + 1} : m <= y
        BY <1>1, <2>2
      <3>2. \A m \in {f, First + 1} : (\A y \in {f, First + 1} : m <= y) => m = f
        BY <1>1, <2>2
      <3> QED  BY <3>1, <3>2 DEF Min
    <2>4. BranchIns(First) = {First + 1}
      <3>1. Min(branches(First)) = f
        BY <2>1, <2>3
      <3>2. Flag.call = 1 /\ Flag.icall = 4 /\ Flag.ret = 2 /\ Flag.ibranch = 5
        BY DEF Flag
      <3> QED  BY <2>2, <3>1, <3>2 DEF BranchIns
    <2>5. IsBranch(First) /\ IsTarget(First + 1)
      BY <1>1, <2>1 DEF IsBranch, IsTarget
    <2> QED  BY <1>1, <2>4, <2>5 DEF Flow
  <1> QED  BY <1>2, <1>3 DEF FirstPlain

\* In a block one instruction leads to the next.
LEMMA StraightLine ==
    ASSUME FirstPlain, NEW a \in DOMAIN routine, NEW i \in BlockAt(a) .. (a - 1)
    PROVE  i \in DOMAIN routine /\ Flow[i] = {i + 1} /\ ~StartsBlock(i + 1)
  <1>1. /\ a \in Nat /\ First \in Nat /\ First .. a \subseteq DOMAIN routine
    BY Addresses DEF FirstPlain
  <1>2. BlockAt(a) \in First .. a /\ \A s \in First .. a : StartsBlock(s) => s <= BlockAt(a)
    BY BlockOf DEF FirstPlain
  <1> HIDE DEF BlockAt
  <1>3. i \in First .. a /\ i + 1 \in First .. a /\ ~(i + 1 <= BlockAt(a))
    BY <1>1, <1>2
  <1>4. ~StartsBlock(i + 1)
    BY <1>2, <1>3
  <1>5. ~IsTarget(i + 1) /\ ~EndsBlock(i)
    <2>1. (i + 1) - 1 = i
      BY <1>1, <1>3
    <2> QED  BY <1>4, <2>1 DEF StartsBlock
  <1>6. Flow[i] = {i + 1}
    <2>1. CASE i = First
      BY <2>1, FirstFlow
    <2>2. CASE i # First
      BY <1>1, <1>3, <1>5, <2>2 DEF EndsBlock, Flow
    <2> QED  BY <2>1, <2>2
  <1> QED  BY <1>1, <1>3, <1>4, <1>6

\* A block that starts at an instruction is that of the instruction.
LEMMA OwnBlock ==
    ASSUME routine \in Routines, NEW a \in DOMAIN routine, StartsBlock(a)
    PROVE  BlockAt(a) = a
  <1>1. BlockAt(a) \in First .. a /\ \A s \in First .. a : StartsBlock(s) => s <= BlockAt(a)
    BY BlockOf
  <1>2. a \in Nat /\ First \in Nat /\ First <= a
    BY Addresses
  <1> HIDE DEF BlockAt
  <1> QED  BY <1>1, <1>2

\* An instruction that starts no block is in the one of the instruction before.
LEMMA SameBlock ==
    ASSUME routine \in Routines, NEW a \in DOMAIN routine, a + 1 \in DOMAIN routine, ~StartsBlock(a + 1)
    PROVE  BlockAt(a + 1) = BlockAt(a)
  <1>1. a \in Nat /\ First \in Nat /\ First <= a
    BY Addresses
  <1>2. {s \in First .. (a + 1) : StartsBlock(s)} = {s \in First .. a : StartsBlock(s)}
    <2>1. ASSUME NEW s \in First .. (a + 1), StartsBlock(s) PROVE s \in First .. a
      <3>1. s # a + 1
        BY <2>1
      <3> QED  BY <1>1, <3>1
    <2>2. First .. a \subseteq First .. (a + 1)
      BY <1>1
    <2> QED  BY <2>1, <2>2
  <1> QED  BY <1>2 DEF BlockAt

\* The last instruction of a predecessor leads to the block.
LEMMA LastOfPredecessor ==
    ASSUME FirstPlain, NEW block, NEW p \in BlockBuilder(block)
    PROVE  \E b \in DOMAIN routine :
              /\ p = BlockAt(b) /\ block \in Flow[b]
              /\ \/ EndsBlock(b) /\ block \in BranchIns(b)
                 \/ b + 1 = block /\ ~EndsBlock(b) /\ IsTarget(block)
  <1>1. PICK b \in DOMAIN routine :
           /\ p = BlockAt(b)
           /\ \/ EndsBlock(b) /\ block \in BranchIns(b)
              \/ b + 1 = block /\ ~EndsBlock(b) /\ IsTarget(block)
    BY DEF BlockBuilder
  <1>2. CASE EndsBlock(b) /\ block \in BranchIns(b)
    BY <1>1, <1>2 DEF EndsBlock, Flow
  <1>3. CASE b + 1 = block /\ ~EndsBlock(b)
    <2>1. CASE b = First
      BY <1>1, <1>3, <2>1, FirstFlow
    <2>2. CASE b # First
      BY <1>1, <1>3, <2>2 DEF EndsBlock, Flow
    <2> QED  BY <2>1, <2>2
  <1> QED  BY <1>1, <1>2, <1>3

\* The paths around a block x, block by block: if one returns from a block, one returns
\* from each of its predecessors other than x.
LEMMA BlocksClosed ==
    ASSUME FirstPlain, NEW x \in allBlocks, NEW block \in Around(x), NEW p \in BlockBuilder(block), p # x
    PROVE  p \in Around(x)
  <1>0. routine \in Routines
    BY DEF FirstPlain
  <1>1. PICK b \in DOMAIN routine : p = BlockAt(b) /\ block \in Flow[b]
    BY LastOfPredecessor
  <1>2. b \in Nat /\ First \in Nat /\ p \in First .. b /\ First .. b \subseteq DOMAIN routine
    BY <1>0, <1>1, Addresses, BlockOf
  <1>3. x \in DOMAIN routine => StartsBlock(x)
    BY <1>0, Addresses DEF allBlocks
  <1>4. b # x
    BY <1>0, <1>1, <1>3, OwnBlock
  <1>5. b \in Around(x)
    BY <1>0, <1>1, <1>4, AroundClosed
  <1> DEFINE n == b - p
             S == {k \in 0 .. n : b - k \in Around(x)}
  <1>6. n \in Nat
    BY <1>2
  <1>7. 0 \in S
    BY <1>2, <1>5
  <1>8. ASSUME NEW k \in 0 .. n, k # n, k \in S PROVE k + 1 \in S
    <2> DEFINE i == b - (k + 1)
    <2>1. i \in p .. (b - 1) /\ i + 1 = b - k /\ i \in Int
      BY <1>2, <1>6, <1>8
    <2>2. i \in DOMAIN routine /\ Flow[i] = {i + 1}
      BY <1>1, <2>1, StraightLine
    <2>3. i # x
      <3>1. CASE i = p
        BY <3>1
      <3>2. CASE i # p
        <4>1. i - 1 \in p .. (b - 1) /\ (i - 1) + 1 = i
          BY <1>2, <2>1, <3>2
        <4> HIDE DEF i
        <4>2. ~StartsBlock((i - 1) + 1)
          BY <1>1, <4>1, StraightLine
        <4> QED  BY <1>3, <2>2, <4>1, <4>2
      <3> QED  BY <3>1, <3>2
    <2>4. Flow[i] \cap Around(x) # {}
      BY <1>8, <2>1, <2>2
    <2>5. i \in Around(x)
      BY <1>0, <2>2, <2>3, <2>4, AroundClosed
    <2>6. k + 1 \in 0 .. n
      BY <1>6, <1>8
    <2> QED  BY <2>5, <2>6
  <1> HIDE DEF S
  <1>9. 0 .. n \subseteq S
    BY <1>6, <1>7, <1>8, InductionUpTo
  <1>10. n \in 0 .. n /\ b - n = p
    BY <1>2, <1>6
  <1> QED  BY <1>9, <1>10 DEF S

\* A path that returns from the start of a block passes all its instructions.
LEMMA ThroughBlock ==
    ASSUME FirstPlain, NEW x, NEW a \in DOMAIN routine, NEW i \in BlockAt(a) .. a, i \in Around(x)
    PROVE  a \in Around(x)
  <1>0. routine \in Routines
    BY DEF FirstPlain
  <1>1. a \in Nat /\ First \in Nat /\ BlockAt(a) \in First .. a /\ ReturnNode \in Nat /\ ReturnNode < First
    BY <1>0, Addresses, BlockOf
  <1> HIDE DEF BlockAt
  <1> DEFINE n == a - i
             S == {k \in 0 .. n : i + k \in Around(x)}
  <1>2. n \in Nat /\ i \in Nat /\ First <= i
    BY <1>1
  <1>3. 0 \in S
    BY <1>2
  <1>4. ASSUME NEW k \in 0 .. n, k # n, k \in S PROVE k + 1 \in S
    <2>1. i + k \in BlockAt(a) .. (a - 1) /\ (i + k) + 1 = i + (k + 1) /\ i + k # ReturnNode
      BY <1>1, <1>2, <1>4
    <2>2. Flow[i + k] = {(i + k) + 1}
      BY <2>1, StraightLine
    <2>3. Flow[i + k] \cap Around(x) # {}
      BY <1>0, <1>4, <2>1, AroundClosed
    <2>4. i + (k + 1) \in Around(x)
      BY <2>1, <2>2, <2>3
    <2>5. k + 1 \in 0 .. n
      BY <1>2, <1>4
    <2> QED  BY <2>4, <2>5
  <1> HIDE DEF S
  <1>5. 0 .. n \subseteq S
    BY <1>2, <1>3, <1>4, InductionUpTo
  <1>6. n \in 0 .. n /\ i + n = a
    BY <1>1, <1>2
  <1> QED  BY <1>5, <1>6 DEF S

\* No block is passed on every way from one of its own instructions to the return.
LEMMA NotOwnStart ==
    ASSUME FirstPlain, NEW a \in DOMAIN routine, a \in Around(NULL), a # BlockAt(a)
    PROVE  a \in Around(BlockAt(a))
  <1> DEFINE x == BlockAt(a)
  <1>0. routine \in Routines
    BY DEF FirstPlain
  <1>1. a \in Nat /\ First \in Nat /\ x \in First .. a /\ x # ReturnNode /\ x \in DOMAIN routine
    BY <1>0, Addresses, BlockOf
  <1> SUFFICES ASSUME a \notin Around(x) PROVE FALSE
    OBVIOUS
  <1>2. Flow[x] \cap Around(x) = {}
    <2>1. x \in x .. (a - 1) /\ x + 1 \in x .. a
      <3> HIDE DEF x
      <3> QED  BY <1>1 DEF x
    <2>2. Flow[x] = {x + 1}
      BY <2>1, StraightLine
    <2>3. x + 1 \notin Around(x)
      BY <2>1, ThroughBlock
    <2> QED  BY <2>2, <2>3
  <1>3. \A i \in DOMAIN routine : Flow[i] \cap Around(x) # {} => i \in Around(x)
    BY <1>0, <1>2, AroundClosed
  <1>4. ReturnNode \in Around(x)
    BY <1>0, <1>1, AroundClosed
  <1> HIDE DEF x
  <1>5. Around(NULL) \subseteq Around(x)
    BY <1>0, <1>3, <1>4, AroundClosed
  <1> QED  BY <1>5

\* Blocks that are found from the return node, predecessor by predecessor, are those of
\* all the instructions from which a path returns.
LEMMA ReturningFound ==
    ASSUME FirstPlain, NEW F,
           \A block \in allBlocks : block \in F \cup {ReturnNode} => BlockBuilder(block) \subseteq F,
           NEW a \in DOMAIN routine, a \in Around(NULL)
    PROVE  BlockAt(a) \in F
  <1> DEFINE S == {ReturnNode} \cup {i \in DOMAIN routine : BlockAt(i) \in F}
  <1>0. routine \in Routines /\ ReturnNode \notin DOMAIN routine
    BY Addresses DEF FirstPlain
  <1>1. ASSUME NEW i \in DOMAIN routine, NEW z \in Flow[i], z \in S PROVE BlockAt(i) \in F
    <2>1. i \in Nat /\ First \in Nat /\ First <= i /\ ReturnNode \in Nat /\ ReturnNode < First
      BY <1>0, Addresses
    <2>2. z = i + 1 \/ (EndsBlock(i) /\ z \in BranchIns(i))
      <3>1. CASE i = First
        BY <3>1, FirstFlow, <1>1
      <3>2. CASE i # First
        BY <1>1, <3>2 DEF Flow, EndsBlock
      <3> QED  BY <3>1, <3>2
    <2>3. ASSUME z \in allBlocks, z \in F \cup {ReturnNode}, EndsBlock(i) /\ z \in BranchIns(i)
          PROVE  BlockAt(i) \in F
      <3>1. BlockAt(i) \in BlockBuilder(z)
        BY <2>3 DEF BlockBuilder
      <3> QED  BY <2>3, <3>1
    <2>4. CASE z = ReturnNode
      <3>1. z # i + 1
        BY <2>1, <2>4
      <3>2. z \in allBlocks
        BY <2>4 DEF allBlocks
      <3> QED  BY <2>2, <2>3, <2>4, <3>1, <3>2
    <2>5. CASE z \in DOMAIN routine /\ StartsBlock(z) /\ BlockAt(z) \in F
      <3>1. z \in allBlocks /\ z \in F
        BY <1>0, <2>5, OwnBlock DEF allBlocks
      <3>2. CASE z = i + 1 /\ ~EndsBlock(i)
        <4>1. IsTarget(z)
          BY <2>1, <2>5, <3>2 DEF StartsBlock
        <4>2. BlockAt(i) \in BlockBuilder(z)
          BY <3>2, <4>1 DEF BlockBuilder
        <4> QED  BY <3>1, <4>2
      <3>3. CASE EndsBlock(i)
        <4>1. z \in BranchIns(i)
          BY <1>1, <3>3 DEF EndsBlock, Flow
        <4> QED  BY <2>3, <3>1, <3>3, <4>1
      <3> QED  BY <2>2, <3>2, <3>3
    <2>6. CASE z \in DOMAIN routine /\ ~StartsBlock(z) /\ BlockAt(z) \in F
      <3>1. ~EndsBlock(i) \/ z # i + 1
        <4>1. (i + 1) - 1 = i
          BY <2>1
        <4> QED  BY <2>6, <4>1 DEF StartsBlock
      <3>2. z = i + 1
        <4> SUFFICES ASSUME EndsBlock(i), z \in BranchIns(i), z # i + 1 PROVE FALSE
          BY <2>2
        <4>1. z \notin branches(i)
          BY <2>6 DEF StartsBlock, IsTarget
        <4>2. z # ReturnNode
          BY <1>0, <2>6
        <4> QED  BY <4>1, <4>2 DEF BranchIns
      <3>3. BlockAt(i) = BlockAt(z)
        BY <1>0, <2>6, <3>2, SameBlock
      <3> QED  BY <2>6, <3>3
    <2> QED  BY <1>1, <2>4, <2>5, <2>6
  <1>2. \A i \in DOMAIN routine : Flow[i] \cap S # {} => i \in S
    BY <1>1
  <1> HIDE DEF S
  <1>3. ReturnNode \in S
    BY DEF S
  <1>4. Around(NULL) \subseteq S
    BY <1>0, <1>2, <1>3, AroundClosed
  <1> QED  BY <1>0, <1>4 DEF S

\* A block has two successors at most.
LEMMA TwoSuccessors ==
    ASSUME routine \in Routines, NEW p
    PROVE  \E s, t : \A block : p \in BlockBuilder(block) => block \in {s, t}
  <1> DEFINE Last(b, block) == \/ EndsBlock(b) /\ block \in BranchIns(b)
                               \/ b + 1 = block /\ ~EndsBlock(b) /\ IsTarget(block)
  <1>1. CASE ~\E block : p \in BlockBuilder(block)
    BY <1>1
  <1>2. ASSUME NEW here, p \in BlockBuilder(here)
        PROVE  \E s, t : \A block : p \in BlockBuilder(block) => block \in {s, t}
    <2>1. PICK b \in DOMAIN routine : p = BlockAt(b) /\ Last(b, here)
      BY <1>2 DEF BlockBuilder
    <2>2. ASSUME NEW block, NEW c \in DOMAIN routine, p = BlockAt(c), Last(c, block) PROVE c = b
      <3>1. ASSUME NEW i \in DOMAIN routine, NEW j \in DOMAIN routine, i < j,
                   BlockAt(i) = BlockAt(j), NEW z, Last(i, z)
            PROVE  FALSE
        <4>1. /\ i \in Nat /\ j \in Nat /\ First \in Nat /\ First <= i
              /\ BlockAt(i) \in First .. i
              /\ \A s \in First .. j : StartsBlock(s) => s <= BlockAt(j)
          BY Addresses, BlockOf
        <4>2. StartsBlock(i + 1)
          <5>1. (i + 1) - 1 = i
            BY <4>1
          <5> QED  BY <3>1, <5>1 DEF StartsBlock
        <4> HIDE DEF BlockAt, Last
        <4>3. i + 1 \in First .. j
          BY <3>1, <4>1
        <4> QED  BY <3>1, <4>1, <4>2, <4>3
      <3>2. b \in Nat /\ c \in Nat
        BY Addresses
      <3>3. ~(b < c) /\ ~(c < b)
        BY <2>1, <2>2, <3>1
      <3> QED  BY <3>2, <3>3
    <2>3. \A block : p \in BlockBuilder(block) => Last(b, block)
      <3> SUFFICES ASSUME NEW block, p \in BlockBuilder(block) PROVE Last(b, block)
        OBVIOUS
      <3>1. PICK c \in DOMAIN routine : p = BlockAt(c) /\ Last(c, block)
        BY DEF BlockBuilder
      <3>2. c = b
        BY <2>2, <3>1
      <3> QED  BY <3>1, <3>2
    <2>4. CASE ~EndsBlock(b)
      <3>1. \A block : p \in BlockBuilder(block) => block \in {b + 1, b + 1}
        BY <2>3, <2>4
      <3> QED  BY <3>1
    <2>5. CASE EndsBlock(b)
      <3>1. \E s, t : branches(b) \subseteq {s, t}
        <4> DEFINE kind == routine[b].kind
        <4>1. kind \in {"plain", "jcc", "jmp", "call", "icall", "ret", "ibranch"}
          BY AddressAssumption
        <4>2. CASE kind = "plain"
          BY <4>2 DEF branches
        <4>3. CASE kind = "jcc"
          BY <4>3 DEF branches
        <4>4. CASE kind = "jmp"
          BY <4>4 DEF branches
        <4>5. CASE kind \in {"call", "icall"}
          BY <4>5 DEF branches
        <4>6. CASE kind \in {"ret", "ibranch"}
          BY <4>6 DEF branches
        <4> QED  BY <4>1, <4>2, <4>3, <4>4, <4>5, <4>6
      <3>2. \E s, t : BranchIns(b) \subseteq {s, t}
        <4>1. \/ BranchIns(b) \subseteq {b + 1, ReturnNode}
              \/ BranchIns(b) = branches(b)
              \/ BranchIns(b) = branches(b) \cup {b + 1} /\ branches(b) = {BlockAt(b)}
          BY DEF BranchIns
        <4>2. CASE BranchIns(b) = branches(b) \cup {b + 1} /\ branches(b) = {BlockAt(b)}
          <5>1. BranchIns(b) \subseteq {BlockAt(b), b + 1}
            BY <4>2
          <5> QED  BY <5>1
        <4> QED  BY <3>1, <4>1, <4>2
      <3>3. \A block : p \in BlockBuilder(block) => block \in BranchIns(b)
        BY <2>3, <2>5
      <3> QED  BY <3>2, <3>3
    <2> QED  BY <2>4, <2>5
  <1> QED  BY <1>1, <1>2

------------------------------------------------------------------------------
(* How the tree changes.                                                    *)

\* Induction from the return node down the tree.
LEMMA TreeInduction ==
    ASSUME TypeInv, NEW rank, Numbering(rank), NEW G, ReturnNode \in G,
           \A b \in Found : PostDominator[b] \in G => b \in G
    PROVE  Tree \subseteq G
  <1> DEFINE Missing == {k \in Nat : \E b \in Tree : b \notin G /\ rank[b] = k}
  <1>1. \A c \in Tree : rank[c] \in Nat
    BY NumbersSmall
  <1> SUFFICES ASSUME NEW b \in Tree, b \notin G PROVE FALSE
    OBVIOUS
  <1>2. Missing \subseteq Nat /\ rank[b] \in Missing
    BY <1>1
  <1> HIDE DEF Missing
  <1>3. PICK m \in Missing : \A k \in Missing : m <= k
    BY <1>2, LeastNumber
  <1>4. PICK c \in Tree : c \notin G /\ rank[c] = m
    BY <1>3 DEF Missing
  <1>5. c \in Found
    BY <1>4 DEF Tree
  <1>6. PostDominator[c] \in Tree /\ PostDominator[c] \notin G /\ rank[PostDominator[c]] < m
    BY <1>4, <1>5 DEF Numbering
  <1>7. rank[PostDominator[c]] \in Missing
    BY <1>1, <1>6 DEF Missing
  <1> QED  BY <1>1, <1>3, <1>4, <1>6, <1>7

ChainRecursion ==
    \A rank : TypeInv /\ Numbering(rank) =>
       /\ Chain(ReturnNode) = {ReturnNode}
       /\ \A b \in Found : \A c : c = PostDominator[b] => Chain(b) = {b} \cup Chain(c)

LEMMA ChainRecursionHolds == ChainRecursion
  BY ChainSteps DEF ChainRecursion

LEMMA ChainRecursionNext == ChainRecursion'
  BY ChainRecursionHolds, PTL

\* A block that is found changes no walk of those that were.
LEMMA ChainKept ==
    ASSUME TypeInv, NEW rank, Numbering(rank), MapsNumbered(rank),
           NEW p \in Blocks, LookAt(p), ~isPostDominated[p], NEW d \in Tree
    PROVE  Chain(d)' = Chain(d)
  <1> DEFINE G == {c \in Tree : Chain(c)' = Chain(c)}
  <1>1. PICK next : next = [b \in Tree \cup {p} |-> IF b = p THEN Cardinality(Found) + 1 ELSE rank[b]]
    OBVIOUS
  <1>2. TypeInv' /\ Numbering(next)'
    BY <1>1, TypeLookAt, FirstNumbering
  <1>3. /\ Chain(ReturnNode)' = {ReturnNode}
        /\ \A b \in Found' : \A c : c = PostDominator'[b] => Chain(b)' = {b} \cup Chain(c)'
    BY <1>2, ChainRecursionNext DEF ChainRecursion
  <1>4. /\ Chain(ReturnNode) = {ReturnNode}
        /\ \A b \in Found : Chain(b) = {b} \cup Chain(PostDominator[b])
    BY ChainSteps
  <1>5. /\ PostDominator' = [PostDominator EXCEPT ![p] = currentBlock]
        /\ Found' = Found \cup {p} /\ p \notin Found
    BY LookedAt DEF LookAt, addPredecessorAsPostDominated, FirstPostDominator, Found
  <1>6. \A b \in Found : PostDominator'[b] = PostDominator[b]
    BY <1>5 DEF TypeInv, Found
  <1>7. ReturnNode \in G
    BY <1>3, <1>4 DEF Tree
  <1>8. ASSUME NEW b \in Found, PostDominator[b] \in G PROVE b \in G
    <2>1. PICK c \in G : c = PostDominator[b]
      BY <1>8
    <2>2. Chain(b)' = {b} \cup Chain(c)' /\ Chain(b) = {b} \cup Chain(c)
      BY <1>3, <1>4, <1>5, <1>6, <2>1
    <2>3. Chain(c)' = Chain(c)
      BY <2>1
    <2> QED  BY <2>2, <2>3 DEF Tree
  <1> HIDE DEF G
  <1>9. Tree \subseteq G
    BY <1>7, <1>8, TreeInduction
  <1> QED  BY <1>9 DEF G

LEMMA ChainTransitive ==
    ASSUME TypeInv, NEW rank, Numbering(rank), NEW d \in Tree, NEW c \in Chain(d)
    PROVE  Chain(c) \subseteq Chain(d)
  <1> DEFINE G == {e \in Tree : \A f \in Chain(e) : Chain(f) \subseteq Chain(e)}
  <1>1. /\ Chain(ReturnNode) = {ReturnNode}
        /\ \A b \in Found : Chain(b) = {b} \cup Chain(PostDominator[b])
    BY ChainSteps
  <1>2. ReturnNode \in G
    BY <1>1 DEF Tree
  <1>3. \A b \in Found : PostDominator[b] \in G => b \in G
    BY <1>1 DEF Tree
  <1> HIDE DEF G
  <1>4. Tree \subseteq G
    BY <1>2, <1>3, TreeInduction
  <1> QED  BY <1>4 DEF G

\* The block a predecessor is moved below, and those it no longer is below.
Common(p) == getCommonPostDominator(currentBlock, p)
Passed(p) == Chain(PostDominator[p]) \ Chain(Common(p))

\* The move of a predecessor, if its new postdominator is above the old one.
LEMMA SharedEffect ==
    ASSUME TypeInv, NEW rank, Numbering(rank), MapsNumbered(rank),
           NEW p \in Blocks, LookAt(p), isPostDominated[p], Common(p) \in Chain(PostDominator[p])
    PROVE  /\ p \in Found /\ Found' = Found /\ Tree' = Tree
           /\ Common(p) \in Tree /\ Common(p) \in Chain(currentBlock) /\ rank[Common(p)] < rank[p]
           /\ PostDominator' = [PostDominator EXCEPT ![p] = Common(p)]
           /\ \A b \in Blocks : \A c \in Blocks :
                 /\ c \in postDominated'[b] =>
                       c \in postDominated[b] /\ ~(b \in Passed(p) /\ c \in {p} \cup postDominated[p])
                 /\ c \in postDominated[b] /\ c \notin postDominated'[b] =>
                       b \in Passed(p) /\ c \in {p} \cup postDominated[p] \cup nullKeys[p]
                 /\ c \in nullKeys'[b] => c \in nullKeys[b] \/ (c = p /\ b \in Chain(currentBlock))
  <1> DEFINE new == Common(p)
             searched == (Chain(currentBlock) \ Chain(new)) \cup {new}
             probed == [b \in Blocks |->
                     IF b \in searched THEN nullKeys[b] \cup ({p} \ postDominated[b]) ELSE nullKeys[b]]
             deletable == {p} \cup postDominated[p] \cup probed[p]
  <1>1. /\ p \in Found /\ currentBlock \in Tree
        /\ Blocks' = Blocks /\ Found' = Found /\ Tree' = Tree
    BY LookedAt DEF TypeInv, Tree, Found
  <1>2. new \in Chain(currentBlock) /\ (new = ReturnNode \/ p \in postDominated[new])
    BY <1>1, CommonPostDominator DEF Common
  <1>3. new \in Tree
    BY <1>1, <1>2, ChainInTree
  <1>4. rank[new] < rank[p]
    <2>1. CASE new = ReturnNode
      BY <1>1, <2>1 DEF Numbering
    <2>2. CASE p \in postDominated[new]
      BY <1>3, <2>2 DEF MapsNumbered, Tree, Found, TypeInv
    <2> QED  BY <1>2, <2>1, <2>2
  <1>5. /\ PostDominator' = [PostDominator EXCEPT ![p] = new]
        /\ postDominated' = [b \in Blocks |->
              postDominated[b] \ (IF b \in Passed(p) THEN deletable ELSE {})]
        /\ nullKeys' = [b \in Blocks |-> probed[b] \ (IF b \in Passed(p) THEN deletable ELSE {})]
    BY DEF LookAt, addPredecessorAsPostDominated, SharedPostDominator, Common, Passed
  <1>6. searched \subseteq Chain(currentBlock)
    BY <1>2
  <1> HIDE DEF new, searched
  <1>7. \A b \in Blocks : \A c \in probed[b] : c \in nullKeys[b] \/ (c = p /\ b \in Chain(currentBlock))
    BY <1>6
  <1>8. probed[p] \subseteq nullKeys[p] \cup {p}
    OBVIOUS
  <1> HIDE DEF probed
  <1>9. ASSUME NEW b \in Blocks, NEW c \in Blocks
        PROVE  /\ c \in postDominated'[b] =>
                     c \in postDominated[b] /\ ~(b \in Passed(p) /\ c \in {p} \cup postDominated[p])
               /\ c \in postDominated[b] /\ c \notin postDominated'[b] =>
                     b \in Passed(p) /\ c \in {p} \cup postDominated[p] \cup nullKeys[p]
               /\ c \in nullKeys'[b] => c \in nullKeys[b] \/ (c = p /\ b \in Chain(currentBlock))
    BY <1>5, <1>7, <1>8
  <1> QED  BY <1>1, <1>2, <1>3, <1>4, <1>5, <1>9 DEF new

\* The walks after the move: those through the predecessor leave out what it has passed.
LEMMA ChainMoved ==
    ASSUME TypeInv, NEW rank, Numbering(rank), MapsNumbered(rank),
           NEW p \in Blocks, LookAt(p), isPostDominated[p], Common(p) \in Chain(PostDominator[p]),
           NEW d \in Tree
    PROVE  /\ p \notin Passed(p) /\ p \notin Chain(Common(p))
           /\ Chain(d)' = IF p \in Chain(d) THEN Chain(d) \ Passed(p) ELSE Chain(d)
  <1> DEFINE new == Common(p)
  <1>1. /\ p \in Found /\ Found' = Found /\ new \in Tree /\ rank[new] < rank[p]
        /\ PostDominator' = [PostDominator EXCEPT ![p] = new]
    BY SharedEffect
  <1>2. TypeInv' /\ Numbering(rank)'
    BY TypeLookAt, SharedNumbering
  <1>3. /\ Chain(ReturnNode)' = {ReturnNode}
        /\ \A b \in Found' : \A c : c = PostDominator'[b] => Chain(b)' = {b} \cup Chain(c)'
    BY <1>2, ChainRecursionNext DEF ChainRecursion
  <1>4. /\ Chain(ReturnNode) = {ReturnNode}
        /\ \A b \in Found : Chain(b) = {b} \cup Chain(PostDominator[b])
    BY ChainSteps
  <1>5. /\ PostDominator'[p] = new
        /\ \A b \in Found : b # p => PostDominator'[b] = PostDominator[b]
    BY <1>1 DEF TypeInv, Found
  <1>6. \A b \in Tree : rank[b] \in Nat
    BY NumbersSmall
  <1>7. /\ p \notin Chain(new) /\ Chain(new) \subseteq Chain(PostDominator[p])
        /\ PostDominator[p] \in Tree /\ rank[PostDominator[p]] < rank[p]
        /\ \A b \in Chain(PostDominator[p]) : b \in Tree /\ rank[b] < rank[p]
    <2>1. PostDominator[p] \in Tree /\ rank[PostDominator[p]] < rank[p] /\ p \in Tree
      BY <1>1 DEF Numbering, Tree
    <2>2. \A b \in Chain(PostDominator[p]) : b \in Tree /\ rank[b] <= rank[PostDominator[p]]
      BY <2>1, ChainInTree
    <2>3. \A b \in Chain(new) : b \in Tree /\ rank[b] <= rank[new]
      BY <1>1, ChainInTree
    <2>4. p \notin Chain(new)
      BY <1>1, <1>6, <2>1, <2>3
    <2>5. Chain(new) \subseteq Chain(PostDominator[p])
      BY <2>1, ChainTransitive
    <2>6. \A b \in Chain(PostDominator[p]) : rank[b] < rank[p]
      BY <1>6, <2>1, <2>2
    <2> QED  BY <2>1, <2>2, <2>4, <2>5, <2>6
  <1>8. \A b \in Passed(p) : b \in Tree /\ rank[b] < rank[p]
    BY <1>7 DEF Passed
  <1>9. p \notin Passed(p)
    BY <1>6, <1>8
  <1> HIDE DEF new
  \* the walks the predecessor is not on
  <1>10. \A c \in Tree : p \notin Chain(c) => Chain(c)' = Chain(c)
    <2> DEFINE G == {c \in Tree : p \notin Chain(c) => Chain(c)' = Chain(c)}
    <2>1. ReturnNode \in G
      BY <1>3, <1>4 DEF Tree
    <2>2. ASSUME NEW b \in Found, PostDominator[b] \in G PROVE b \in G
      <3>1. PICK c \in G : c = PostDominator[b]
        BY <2>2
      <3>2. Chain(b) = {b} \cup Chain(c)
        BY <1>4, <3>1
      <3>3. CASE p \in Chain(b)
        BY <3>3 DEF Tree
      <3>4. CASE p \notin Chain(b)
        <4>1. b # p /\ p \notin Chain(c)
          BY <3>2, <3>4
        <4>2. Chain(b)' = {b} \cup Chain(c)'
          BY <1>1, <1>3, <1>5, <3>1, <4>1
        <4>3. Chain(c)' = Chain(c)
          BY <3>1, <4>1
        <4> QED  BY <3>2, <4>2, <4>3 DEF Tree
      <3> QED  BY <3>3, <3>4
    <2> HIDE DEF G
    <2>3. Tree \subseteq G
      BY <2>1, <2>2, TreeInduction
    <2> QED  BY <2>3 DEF G
  <1>11. Chain(p)' = Chain(p) \ Passed(p)
    <2>1. PICK n : n = new
      OBVIOUS
    <2>2. Chain(p)' = {p} \cup Chain(n)'
      BY <1>1, <1>3, <1>5, <2>1
    <2>3. Chain(n)' = Chain(n)
      BY <1>1, <1>7, <1>10, <2>1
    <2>4. Chain(p) = {p} \cup Chain(PostDominator[p])
      BY <1>1, <1>4
    <2> QED  BY <1>7, <1>9, <2>1, <2>2, <2>3, <2>4 DEF Passed, new
  \* the walks it is on
  <1>12. \A c \in Tree : p \in Chain(c) => Chain(c)' = Chain(c) \ Passed(p)
    <2> DEFINE G == {c \in Tree : p \in Chain(c) => Chain(c)' = Chain(c) \ Passed(p)}
    <2>1. ReturnNode \in G
      BY <1>1, <1>4 DEF Tree, TypeInv
    <2>2. ASSUME NEW b \in Found, PostDominator[b] \in G PROVE b \in G
      <3>1. PICK c \in G : c = PostDominator[b]
        BY <2>2
      <3>2. Chain(b) = {b} \cup Chain(c) /\ b \in Tree
        BY <1>4, <3>1 DEF Tree
      <3>3. CASE b = p
        BY <1>11, <3>2, <3>3
      <3>4. CASE p \notin Chain(b)
        BY <3>2, <3>4
      <3>5. CASE b # p /\ p \in Chain(b)
        <4>1. p \in Chain(c) /\ Chain(b)' = {b} \cup Chain(c)' /\ Chain(c)' = Chain(c) \ Passed(p)
          BY <1>1, <1>3, <1>5, <3>1, <3>2, <3>5
        <4>2. rank[p] <= rank[c] /\ rank[c] < rank[b] /\ c \in Tree
          BY <3>1, <4>1, ChainInTree DEF Numbering
        <4>3. b \notin Passed(p)
          BY <1>1, <1>6, <1>8, <3>2, <4>2 DEF Tree
        <4> QED  BY <3>2, <4>1, <4>3
      <3> QED  BY <3>3, <3>4, <3>5
    <2> HIDE DEF G
    <2>3. Tree \subseteq G
      BY <2>1, <2>2, TreeInduction
    <2> QED  BY <2>3 DEF G
  <1> QED  BY <1>7, <1>9, <1>10, <1>12 DEF new

------------------------------------------------------------------------------
(* Which edges the builder has looked at.                                   *)

GraphInv == routine \in Routines /\ predecessors = [b \in allBlocks |-> BlockBuilder(b)]

Waiting == {blockQueue[i] : i \in DOMAIN blockQueue}

\* Blocks the builder never puts into the queue, as their pointer is not NULL at first.
Skipped == garbage \ {ReturnNode}

\* The predecessors of b that were looked at, and the blocks p was looked at from.
Looked(b) ==
    IF b = currentBlock THEN predecessors[b] \ edgeTargets
    ELSE IF b \in Tree \ (Waiting \cup Skipped) THEN predecessors[b] ELSE {}

Lookers(p) == {b \in Blocks : p \in Looked(b)}

\* A block is put into the queue once, when it is found.
EdgesInv ==
    /\ \A b \in Blocks \ {ReturnNode} : PostDominator[b] = NULL <=> b \notin Found \cup Skipped
    /\ Waiting \cap Skipped = {} /\ currentBlock \notin Skipped
    /\ \A i, j \in DOMAIN blockQueue : blockQueue[i] = blockQueue[j] => i = j
    /\ currentBlock \notin Waiting
    /\ \A p \in Blocks : p \in Found <=> Lookers(p) # {}

LEMMA BlocksKnown ==
    ASSUME GraphInv
    PROVE  Blocks = allBlocks /\ NULL \notin Blocks /\ \A b \in Blocks : predecessors[b] = BlockBuilder(b)
  <1>1. Blocks = allBlocks /\ \A b \in Blocks : predecessors[b] = BlockBuilder(b)
    BY DEF GraphInv, Blocks
  <1>2. NULL \notin allBlocks
    BY Addresses DEF GraphInv, allBlocks
  <1> QED  BY <1>1, <1>2

LEMMA GraphInit == Init => GraphInv
  BY DEF Init, GraphInv

LEMMA GraphNext == GraphInv /\ [Next]_vars => GraphInv'
  <1> SUFFICES ASSUME GraphInv, [Next]_vars PROVE GraphInv'
    OBVIOUS
  <1>1. UNCHANGED <<routine, predecessors>>
    BY DEF Next, LookAt, NextBlock, vars, graph
  <1>2. allBlocks' = allBlocks /\ \A b : BlockBuilder(b)' = BlockBuilder(b)
    BY <1>1 DEF allBlocks, StartsBlock, IsTarget, EndsBlock, IsBranch, branches, BlockBuilder,
                BranchIns, BlockAt
  <1> QED  BY <1>1, <1>2 DEF GraphInv

LEMMA EdgesInit == ASSUME Init PROVE EdgesInv
  <1>1. Found = {} /\ Waiting = {} /\ Tree = {ReturnNode} /\ currentBlock = ReturnNode
    BY DEF Init, Found, Waiting, Tree
  <1>2. \A b \in Blocks \ {ReturnNode} : PostDominator[b] = NULL <=> b \notin Skipped
    BY AddressAssumption DEF Init, Skipped
  <1>3. \A b : Looked(b) = {}
    BY <1>1 DEF Init, Looked
  <1> QED  BY <1>1, <1>2, <1>3 DEF EdgesInv, Lookers, Init, Skipped

LEMMA EdgesLookAt ==
    ASSUME TypeInv, GraphInv, TreeInv, EdgesInv, NEW p \in Blocks, LookAt(p)
    PROVE  /\ EdgesInv'
           /\ currentBlock \in Blocks /\ currentBlock \notin Lookers(p)
           /\ Lookers(p)' = Lookers(p) \cup {currentBlock}
           /\ \A c : c # p => Lookers(c)' = Lookers(c)
  <1>1. /\ p \in Blocks \ {ReturnNode} /\ p \in edgeTargets
        /\ UNCHANGED <<predecessors, currentBlock, garbage>> /\ Blocks' = Blocks
        /\ Found' = Found \cup {p} /\ Tree' = Tree \cup {p}
        /\ edgeTargets' = edgeTargets \ {p} /\ Skipped' = Skipped
    BY LookedAt DEF Skipped
  <1>2. currentBlock \in Tree /\ currentBlock \in Blocks /\ p \in predecessors[currentBlock]
    BY <1>1 DEF TypeInv, Tree, Found
  <1>3. blockQueue \in Seq(Found) /\ Waiting \subseteq Found
    BY DEF TypeInv, Waiting
  <1>4. /\ p \in Found \cup Skipped => blockQueue' = blockQueue
        /\ p \notin Found \cup Skipped => blockQueue' = Append(blockQueue, p)
    BY <1>1 DEF LookAt, EdgesInv
  <1>5. /\ Waiting' = IF p \in Found \cup Skipped THEN Waiting ELSE Waiting \cup {p}
        /\ \A i, j \in DOMAIN blockQueue' : blockQueue'[i] = blockQueue'[j] => i = j
    <2>1. CASE p \in Found \cup Skipped
      BY <1>4, <2>1 DEF Waiting, EdgesInv
    <2>2. CASE p \notin Found \cup Skipped
      <3> DEFINE n == Len(blockQueue)
      <3>1. /\ n \in Nat /\ DOMAIN blockQueue = 1 .. n /\ DOMAIN blockQueue' = 1 .. (n + 1)
            /\ blockQueue'[n + 1] = p /\ \A i \in 1 .. n : blockQueue'[i] = blockQueue[i]
        BY <1>3, <1>4, <2>2
      <3>2. \A i \in 1 .. n : blockQueue[i] # p
        BY <1>3, <2>2, <3>1 DEF Waiting
      <3> HIDE DEF n
      <3>3. \A i \in 1 .. (n + 1) : i \in 1 .. n \/ i = n + 1
        BY <3>1
      <3>4. Waiting' = Waiting \cup {p}
        BY <3>1, <3>3 DEF Waiting
      <3>5. \A i, j \in DOMAIN blockQueue' : blockQueue'[i] = blockQueue'[j] => i = j
        BY <3>1, <3>2, <3>3 DEF EdgesInv
      <3> QED  BY <2>2, <3>4, <3>5
    <2> QED  BY <2>1, <2>2
  <1>6. currentBlock \notin Waiting'
    <2>1. p \notin Found => currentBlock # p
      BY <1>1, <1>2 DEF Tree
    <2> QED  BY <1>5, <2>1 DEF EdgesInv
  <1>7. Tree' \ (Waiting' \cup Skipped) = Tree \ (Waiting \cup Skipped) /\ Waiting' \cap Skipped = {}
    <2>1. CASE p \in Found \cup Skipped
      BY <1>1, <1>5, <2>1 DEF Tree, EdgesInv
    <2>2. CASE p \notin Found \cup Skipped
      BY <1>1, <1>3, <1>5, <2>2 DEF Tree, EdgesInv
    <2> QED  BY <2>1, <2>2
  <1>8. /\ \A b : b # currentBlock => Looked(b)' = Looked(b)
        /\ Looked(currentBlock)' = Looked(currentBlock) \cup {p} /\ p \notin Looked(currentBlock)
    BY <1>1, <1>2, <1>7 DEF Looked
  <1>9. /\ currentBlock \notin Lookers(p) /\ Lookers(p)' = Lookers(p) \cup {currentBlock}
        /\ \A c : c # p => Lookers(c)' = Lookers(c)
    BY <1>1, <1>2, <1>8 DEF Lookers
  <1>10. \A b \in Blocks \ {ReturnNode} : PostDominator'[b] = NULL <=> b \notin Found' \cup Skipped
    <2>1. \A b \in Blocks : b # p => PostDominator'[b] = PostDominator[b]
      BY DEF LookAt, addPredecessorAsPostDominated, FirstPostDominator, SharedPostDominator, TypeInv
    <2>2. PostDominator'[p] # NULL
      <3>1. TreeInv' /\ TypeInv'
        BY TreeNext DEF Next
      <3>2. PICK rank : Numbering(rank)'
        BY <3>1 DEF TreeInv
      <3>3. PostDominator'[p] \in Tree'
        BY <1>1, <3>2 DEF Numbering
      <3>4. PostDominator'[p] \in Blocks
        BY <1>1, <3>3 DEF TypeInv, Tree, Found
      <3> QED  BY <3>4, BlocksKnown
    <2> QED  BY <1>1, <2>1, <2>2 DEF EdgesInv
  <1>11. \A c \in Blocks : c \in Found' <=> Lookers(c)' # {}
    BY <1>1, <1>9 DEF EdgesInv
  <1> QED  BY <1>1, <1>2, <1>5, <1>6, <1>7, <1>9, <1>10, <1>11 DEF EdgesInv

LEMMA EdgesNextBlock ==
    ASSUME TypeInv, EdgesInv, NextBlock
    PROVE  EdgesInv' /\ \A c : Lookers(c)' = Lookers(c)
  <1>1. /\ edgeTargets = {} /\ blockQueue # << >> /\ currentBlock' = Head(blockQueue)
        /\ edgeTargets' = predecessors[Head(blockQueue)] /\ blockQueue' = Tail(blockQueue)
        /\ UNCHANGED <<predecessors, garbage, PostDominator, isPostDominated>>
    BY DEF NextBlock, graph, tree
  <1>2. Blocks' = Blocks /\ Found' = Found /\ Tree' = Tree /\ Skipped' = Skipped
    BY <1>1 DEF Blocks, Found, Tree, Skipped
  <1> DEFINE n == Len(blockQueue)
             h == Head(blockQueue)
  <1>3. /\ n \in Nat /\ n # 0 /\ DOMAIN blockQueue = 1 .. n /\ h = blockQueue[1]
        /\ DOMAIN blockQueue' = 1 .. (n - 1) /\ \A i \in 1 .. (n - 1) : blockQueue'[i] = blockQueue[i + 1]
    <2>1. blockQueue \in Seq(Found)
      BY DEF TypeInv
    <2> QED  BY <1>1, <2>1
  <1> HIDE DEF n, h
  <1>4. \A i \in 1 .. n : i # 1 => i - 1 \in 1 .. (n - 1) /\ (i - 1) + 1 = i
    BY <1>3
  <1>5. \A i \in 1 .. (n - 1) : i + 1 \in 1 .. n /\ i + 1 # 1
    BY <1>3
  <1>6. 1 \in 1 .. n
    BY <1>3
  <1>7. h \in Waiting /\ Waiting' = Waiting \ {h}
    <2>1. h \in Waiting
      BY <1>3, <1>6 DEF Waiting
    <2>2. ASSUME NEW c \in Waiting', NEW i \in 1 .. (n - 1), c = blockQueue'[i] PROVE c \in Waiting \ {h}
      <3>1. c = blockQueue[i + 1] /\ i + 1 \in DOMAIN blockQueue /\ i + 1 # 1 /\ 1 \in DOMAIN blockQueue
        BY <1>3, <1>5, <1>6, <2>2
      <3>2. blockQueue[i + 1] # blockQueue[1]
        BY <3>1 DEF EdgesInv
      <3> QED  BY <1>3, <3>1, <3>2 DEF Waiting
    <2>3. ASSUME NEW c \in Waiting \ {h} PROVE c \in Waiting'
      <3>1. PICK i \in 1 .. n : c = blockQueue[i]
        BY <1>3 DEF Waiting
      <3>2. i # 1
        BY <1>3, <2>3, <3>1
      <3>3. i - 1 \in 1 .. (n - 1) /\ c = blockQueue'[i - 1]
        BY <1>3, <1>4, <3>1, <3>2
      <3> QED  BY <1>3, <3>3 DEF Waiting
    <2> QED  BY <1>3, <2>1, <2>2, <2>3 DEF Waiting
  <1>8. \A i, j \in DOMAIN blockQueue' : blockQueue'[i] = blockQueue'[j] => i = j
    <2> SUFFICES ASSUME NEW i \in 1 .. (n - 1), NEW j \in 1 .. (n - 1), blockQueue'[i] = blockQueue'[j]
                 PROVE  i = j
      BY <1>3
    <2>1. i + 1 = j + 1
      BY <1>3, <1>5 DEF EdgesInv
    <2> QED  BY <1>3, <2>1
  <1>9. /\ h \in Tree /\ h # currentBlock /\ currentBlock' = h
        /\ currentBlock \in Tree \ (Waiting \cup Skipped) /\ h \notin Skipped
    <2>1. Waiting \subseteq Found
      BY DEF TypeInv, Waiting
    <2> QED  BY <1>1, <1>7, <2>1 DEF EdgesInv, TypeInv, Tree, h
  <1>10. \A b : Looked(b)' = Looked(b)
    <2> SUFFICES ASSUME NEW b PROVE Looked(b)' = Looked(b)
      OBVIOUS
    <2>1. CASE b = h
      BY <1>1, <1>7, <1>9, <2>1 DEF Looked, h
    <2>2. CASE b = currentBlock
      BY <1>1, <1>2, <1>7, <1>9, <2>2 DEF Looked
    <2>3. CASE b # h /\ b # currentBlock
      BY <1>1, <1>2, <1>7, <1>9, <2>3 DEF Looked
    <2> QED  BY <2>1, <2>2, <2>3
  <1>11. \A c : Lookers(c)' = Lookers(c)
    BY <1>2, <1>10 DEF Lookers
  <1> QED  BY <1>1, <1>2, <1>7, <1>8, <1>9, <1>11 DEF EdgesInv

------------------------------------------------------------------------------
(* The maps of the blocks that were looked at once.                         *)

Fresh(c) == \E b : Lookers(c) = {b}

\* Until it is looked at again a block is in the maps of those above it, and in no
\* other; null keys are those of blocks that were found, in maps of the tree.
KeysExact ==
    \A c \in Found : Fresh(c) =>
       \A b \in Blocks :
          /\ c \notin nullKeys[b]
          /\ \A d : d = PostDominator[c] => (c \in postDominated[b] <=> b \in Chain(d))

NullsFound == \A b \in Blocks : \A c \in nullKeys[b] : b \in Tree /\ c \in Found

\* A predecessor has two successors, and one of them is looked at now.
LEMMA FreshWhenShared ==
    ASSUME TypeInv, GraphInv, TreeInv, EdgesInv, NEW p \in Blocks, LookAt(p), isPostDominated[p]
    PROVE  Fresh(p)
  <1>1. /\ currentBlock \in Blocks /\ currentBlock \notin Lookers(p)
        /\ p \in Found /\ p \in predecessors[currentBlock]
    BY EdgesLookAt, LookedAt DEF Found, TypeInv
  <1>2. Lookers(p) # {} /\ Lookers(p) \subseteq Blocks
    BY <1>1 DEF EdgesInv, Lookers
  <1>3. \A b \in Lookers(p) : p \in predecessors[b]
    BY <1>1 DEF Lookers, Looked
  <1>4. PICK s, t : \A block : p \in BlockBuilder(block) => block \in {s, t}
    BY TwoSuccessors DEF GraphInv
  <1>5. \A b \in Lookers(p) \cup {currentBlock} : b \in {s, t}
    BY <1>1, <1>2, <1>3, <1>4, BlocksKnown
  <1>6. PICK b : b \in Lookers(p)
    BY <1>2
  <1>7. Lookers(p) = {b}
    BY <1>1, <1>5, <1>6
  <1> QED  BY <1>7 DEF Fresh

\* So its new postdominator is above the old one.
LEMMA CommonAbove ==
    ASSUME TypeInv, GraphInv, EdgesInv, KeysExact, NEW rank, Numbering(rank), MapsNumbered(rank),
           NEW p \in Blocks, LookAt(p), isPostDominated[p]
    PROVE  Common(p) \in Chain(PostDominator[p])
  <1>1. Fresh(p)
    BY FreshWhenShared DEF TreeInv
  <1>2. p \in Found /\ currentBlock \in Tree /\ PostDominator[p] \in Tree
    BY DEF Found, TypeInv, Numbering
  <1>3. Common(p) \in Chain(currentBlock) /\ (Common(p) = ReturnNode \/ p \in postDominated[Common(p)])
    BY <1>2, CommonPostDominator DEF Common
  <1>4. Common(p) \in Blocks
    <2>1. Common(p) \in Tree
      BY <1>2, <1>3, ChainInTree
    <2> QED  BY <2>1 DEF Tree, Found, TypeInv
  <1>5. ReturnNode \in Chain(PostDominator[p])
    BY <1>2, ChainInTree
  <1>6. p \in postDominated[Common(p)] => Common(p) \in Chain(PostDominator[p])
    BY <1>1, <1>2, <1>4 DEF KeysExact
  <1> QED  BY <1>3, <1>5, <1>6

\* The maps when a block is found.
LEMMA FirstEffect ==
    ASSUME TypeInv, NEW p \in Blocks, LookAt(p), ~isPostDominated[p]
    PROVE  /\ p \notin Tree /\ Found' = Found \cup {p} /\ Tree' = Tree \cup {p} /\ currentBlock \in Tree
           /\ Blocks' = Blocks /\ routine' = routine
           /\ PostDominator'[p] = currentBlock
           /\ \A b \in Found : PostDominator'[b] = PostDominator[b]
           /\ \A b \in Blocks :
                 /\ postDominated'[b] = postDominated[b] \cup (IF b \in Chain(currentBlock) THEN {p} ELSE {})
                 /\ nullKeys'[b] = nullKeys[b] \ (IF b \in Chain(currentBlock) THEN {p} ELSE {})
  <1>1. /\ p \notin Tree /\ Found' = Found \cup {p} /\ Tree' = Tree \cup {p} /\ currentBlock \in Tree
        /\ Blocks' = Blocks /\ routine' = routine
    BY LookedAt DEF TypeInv, Tree, Found
  <1>2. /\ PostDominator' = [PostDominator EXCEPT ![p] = currentBlock]
        /\ postDominated' = [b \in Blocks |->
              IF b \in Chain(currentBlock) THEN postDominated[b] \cup {p} ELSE postDominated[b]]
        /\ nullKeys' = [b \in Blocks |->
              IF b \in Chain(currentBlock) THEN nullKeys[b] \ {p} ELSE nullKeys[b]]
    BY DEF LookAt, addPredecessorAsPostDominated, FirstPostDominator
  <1>3. PostDominator'[p] = currentBlock /\ \A b \in Found : PostDominator'[b] = PostDominator[b]
    BY <1>1, <1>2 DEF TypeInv, Tree, Found
  <1> QED  BY <1>1, <1>2, <1>3

LEMMA KeysFirst ==
    ASSUME TypeInv, GraphInv, EdgesInv, KeysExact, NullsFound,
           NEW rank, Numbering(rank), MapsNumbered(rank),
           NEW p \in Blocks, LookAt(p), ~isPostDominated[p]
    PROVE  KeysExact' /\ NullsFound'
  <1>1. /\ p \notin Tree /\ Found' = Found \cup {p} /\ Tree' = Tree \cup {p} /\ currentBlock \in Tree
        /\ Blocks' = Blocks
        /\ PostDominator'[p] = currentBlock
        /\ \A b \in Found : PostDominator'[b] = PostDominator[b]
        /\ \A b \in Blocks :
              /\ postDominated'[b] = postDominated[b] \cup (IF b \in Chain(currentBlock) THEN {p} ELSE {})
              /\ nullKeys'[b] = nullKeys[b] \ (IF b \in Chain(currentBlock) THEN {p} ELSE {})
    BY FirstEffect
  <1>2. \A c : c # p => Lookers(c)' = Lookers(c)
    BY EdgesLookAt DEF TreeInv
  <1>3. ASSUME NEW c \in Found, Fresh(c)', NEW b \in Blocks, NEW d, d = PostDominator'[c]
        PROVE  c \notin nullKeys'[b] /\ (c \in postDominated'[b] <=> b \in Chain(d)')
    <2>1. c # p /\ Fresh(c)
      BY <1>1, <1>2, <1>3 DEF Tree, Fresh
    <2>2. d = PostDominator[c] /\ d \in Tree
      BY <1>1, <1>3 DEF Numbering
    <2>3. c \notin nullKeys[b] /\ (c \in postDominated[b] <=> b \in Chain(d))
      BY <1>3, <2>1, <2>2 DEF KeysExact
    <2>4. Chain(d)' = Chain(d)
      BY <2>2, ChainKept
    <2> QED  BY <1>1, <2>1, <2>3, <2>4
  <1>4. ASSUME NEW b \in Blocks, NEW d, d = PostDominator'[p]
        PROVE  p \notin nullKeys'[b] /\ (p \in postDominated'[b] <=> b \in Chain(d)')
    <2>1. d = currentBlock /\ Chain(d)' = Chain(d)
      BY <1>1, <1>4, ChainKept
    <2>2. p \notin nullKeys[b] /\ p \notin postDominated[b]
      BY <1>1 DEF NullsFound, MapsNumbered, Tree
    <2> QED  BY <1>1, <2>1, <2>2
  <1>5. KeysExact'
    BY <1>1, <1>3, <1>4 DEF KeysExact
  <1>6. NullsFound'
    BY <1>1 DEF NullsFound
  <1> QED  BY <1>5, <1>6

LEMMA KeysShared ==
    ASSUME TypeInv, GraphInv, EdgesInv, KeysExact, NullsFound,
           NEW rank, Numbering(rank), MapsNumbered(rank),
           NEW p \in Blocks, LookAt(p), isPostDominated[p]
    PROVE  KeysExact' /\ NullsFound'
  <1>1. Common(p) \in Chain(PostDominator[p])
    BY CommonAbove
  <1>2. /\ p \in Found /\ Found' = Found /\ Tree' = Tree /\ Blocks' = Blocks
        /\ currentBlock \in Tree /\ currentBlock \in Blocks
        /\ PostDominator' = [PostDominator EXCEPT ![p] = Common(p)]
        /\ \A b \in Blocks : \A c \in Blocks :
              /\ c \in postDominated'[b] =>
                    c \in postDominated[b] /\ ~(b \in Passed(p) /\ c \in {p} \cup postDominated[p])
              /\ c \in postDominated[b] /\ c \notin postDominated'[b] =>
                    b \in Passed(p) /\ c \in {p} \cup postDominated[p] \cup nullKeys[p]
              /\ c \in nullKeys'[b] => c \in nullKeys[b] \/ (c = p /\ b \in Chain(currentBlock))
    BY <1>1, SharedEffect, LookedAt DEF TypeInv, Tree, Found
  <1>3. /\ currentBlock \notin Lookers(p) /\ Lookers(p)' = Lookers(p) \cup {currentBlock}
        /\ \A c : c # p => Lookers(c)' = Lookers(c)
    BY EdgesLookAt DEF TreeInv
  <1>4. ~Fresh(p)'
    <2>1. PICK b : b \in Lookers(p)
      BY <1>2 DEF EdgesInv
    <2> QED  BY <1>3, <2>1 DEF Fresh
  <1>5. ASSUME NEW c \in Found, Fresh(c)', NEW b \in Blocks, NEW d, d = PostDominator'[c]
        PROVE  c \notin nullKeys'[b] /\ (c \in postDominated'[b] <=> b \in Chain(d)')
    <2>1. c # p /\ Fresh(c) /\ c \in Blocks
      BY <1>3, <1>4, <1>5 DEF Fresh, Found
    <2>2. d = PostDominator[c] /\ d \in Tree
      BY <1>2, <1>5, <2>1 DEF Numbering, TypeInv, Found
    <2>3. c \notin nullKeys[b] /\ (c \in postDominated[b] <=> b \in Chain(d))
      BY <1>5, <2>1, <2>2 DEF KeysExact
    <2>4. c \notin nullKeys[p] /\ (c \in postDominated[p] <=> p \in Chain(d))
      BY <1>5, <2>1, <2>2 DEF KeysExact
    <2>5. Chain(d)' = IF p \in Chain(d) THEN Chain(d) \ Passed(p) ELSE Chain(d)
      BY <1>1, <2>2, ChainMoved
    <2> QED  BY <1>2, <2>1, <2>3, <2>4, <2>5
  <1>6. KeysExact'
    BY <1>2, <1>5 DEF KeysExact
  <1>7. NullsFound'
    <2>1. Chain(currentBlock) \subseteq Tree
      BY <1>2, ChainInTree
    <2>2. TypeInv'
      BY TypeLookAt
    <2>3. \A b \in Blocks : nullKeys'[b] \subseteq Blocks
      BY <1>2, <2>2 DEF TypeInv
    <2> QED  BY <1>2, <2>1, <2>3 DEF NullsFound
  <1> QED  BY <1>6, <1>7

------------------------------------------------------------------------------
(* What the tree and the maps say of the paths.                             *)

LEMMA AroundKept == ASSUME routine' = routine, NEW x PROVE Around(x)' = Around(x)
  <1>1. Flow' = Flow
    BY DEF Flow, IsBranch, branches, BranchIns, BlockAt, StartsBlock, IsTarget, EndsBlock
  <1> QED  BY <1>1 DEF Around

\* A path around a block that is not found yet returns from all that are.
UnknownAvoided == \A x \in Blocks \ Tree : \A c \in Found : c \in Around(x)

\* A path that returns from the postdominator of b around a block found before it
\* goes on from b; the same holds for a block and those in its map.
BelowAvoids(rank) ==
    \A b \in Found : \A x \in Tree : \A d :
       d = PostDominator[b] /\ rank[x] < rank[d] /\ d \in Around(x) => b \in Around(x)

KeysAvoid(rank) ==
    \A b \in Blocks : \A c \in postDominated[b] \cup nullKeys[b] : \A x \in Tree :
       rank[x] < rank[b] /\ x # c /\ b \in Around(x) => c \in Around(x)

\* A block that no path from c returns around is above c and has c in its map.
NoneMissing ==
    \A c \in Found : \A x \in Blocks : x # c /\ c \notin Around(x) =>
       c \in postDominated[x] /\ \A d : d = PostDominator[c] => x \in Chain(d)

PathInv(rank) == UnknownAvoided /\ BelowAvoids(rank) /\ KeysAvoid(rank) /\ NoneMissing

\* BelowAvoids along a walk.
LEMMA WalkAvoids ==
    ASSUME TypeInv, NEW rank, Numbering(rank), BelowAvoids(rank),
           NEW d \in Tree, NEW b \in Chain(d), NEW x \in Tree, rank[x] < rank[b], b \in Around(x)
    PROVE  d \in Around(x)
  <1> DEFINE G == {e \in Tree : b \in Chain(e) => e \in Around(x)}
  <1>1. /\ Chain(ReturnNode) = {ReturnNode}
        /\ \A e \in Found : Chain(e) = {e} \cup Chain(PostDominator[e])
    BY ChainSteps
  <1>2. ReturnNode \in G
    BY <1>1 DEF Tree
  <1>3. ASSUME NEW e \in Found, PostDominator[e] \in G PROVE e \in G
    <2>1. CASE e = b
      BY <2>1 DEF Tree
    <2>2. CASE b \notin Chain(e)
      BY <2>2 DEF Tree
    <2>3. CASE e # b /\ b \in Chain(e)
      <3>1. b \in Chain(PostDominator[e]) /\ PostDominator[e] \in Tree /\ PostDominator[e] \in Around(x)
        BY <1>1, <1>3, <2>3
      <3>2. rank[b] <= rank[PostDominator[e]] /\ b \in Tree
        BY <3>1, ChainInTree
      <3>3. rank[x] < rank[PostDominator[e]]
        BY <3>1, <3>2, NumbersSmall
      <3>4. e \in Around(x)
        BY <3>1, <3>3 DEF BelowAvoids
      <3> QED  BY <3>4 DEF Tree
    <2> QED  BY <2>1, <2>2, <2>3
  <1> HIDE DEF G
  <1>4. Tree \subseteq G
    BY <1>2, <1>3, TreeInduction
  <1> QED  BY <1>4 DEF G

\* The edge that is looked at: what returns from the current block around x returns
\* from its predecessor, and what every path from the predecessor passes is on the walk
\* from the current block.
LEMMA EdgeAvoids ==
    ASSUME TypeInv, GraphInv, FirstPlain, NEW rank, Numbering(rank), PathInv(rank),
           NEW p \in Blocks, LookAt(p), NEW x \in Blocks, x # p
    PROVE  /\ currentBlock \in Around(x) => p \in Around(x)
           /\ p \notin Around(x) => x \in Chain(currentBlock)
  <1>1. currentBlock \in Tree /\ currentBlock \in Blocks /\ p \in BlockBuilder(currentBlock)
    <2>1. currentBlock \in Tree /\ currentBlock \in Blocks
      BY DEF TypeInv, Tree, Found
    <2>2. p \in predecessors[currentBlock]
      BY LookedAt DEF TypeInv
    <2> QED  BY <2>1, <2>2, BlocksKnown
  <1>2. currentBlock \in Around(x) => p \in Around(x)
    BY <1>1, BlocksKnown, BlocksClosed
  <1>3. ASSUME p \notin Around(x) PROVE x \in Chain(currentBlock)
    <2>1. currentBlock \notin Around(x)
      BY <1>2, <1>3
    <2>2. CASE x = currentBlock
      BY <1>1, <2>2, ChainInTree
    <2>3. CASE x # currentBlock
      <3>1. currentBlock # ReturnNode
        BY <2>1, <2>3, AroundClosed DEF GraphInv
      <3>2. currentBlock \in Found
        BY <1>1, <3>1 DEF Tree
      <3>3. x \in Chain(PostDominator[currentBlock])
        BY <2>1, <2>3, <3>2 DEF PathInv, NoneMissing
      <3> QED  BY <3>2, <3>3, ChainSteps
    <2> QED  BY <2>2, <2>3
  <1> QED  BY <1>2, <1>3

LEMMA PathFirst ==
    ASSUME TypeInv, GraphInv, FirstPlain, NullsFound,
           NEW rank, Numbering(rank), MapsNumbered(rank), PathInv(rank),
           NEW p \in Blocks, LookAt(p), ~isPostDominated[p],
           NEW next, next = [b \in Tree \cup {p} |-> IF b = p THEN Cardinality(Found) + 1 ELSE rank[b]]
    PROVE  PathInv(next)'
  <1>1. /\ p \notin Tree /\ Found' = Found \cup {p} /\ Tree' = Tree \cup {p} /\ currentBlock \in Tree
        /\ Blocks' = Blocks /\ routine' = routine
        /\ PostDominator'[p] = currentBlock
        /\ \A b \in Found : PostDominator'[b] = PostDominator[b]
        /\ \A b \in Blocks :
              /\ postDominated'[b] = postDominated[b] \cup (IF b \in Chain(currentBlock) THEN {p} ELSE {})
              /\ nullKeys'[b] = nullKeys[b] \ (IF b \in Chain(currentBlock) THEN {p} ELSE {})
    BY FirstEffect
  <1>2. \A x : Around(x)' = Around(x)
    BY <1>1, AroundKept
  <1>3. /\ \A b \in Tree : next[b] = rank[b] /\ ~(next[p] < next[b])
    <2>1. Cardinality(Found) \in Nat
      BY FoundFewer
    <2>2. \A b \in Tree : rank[b] \in 0 .. Cardinality(Found)
      BY DEF Numbering
    <2>3. next[p] = Cardinality(Found) + 1 /\ \A b \in Tree : next[b] = rank[b]
      BY <1>1
    <2> QED  BY <2>1, <2>2, <2>3
  <1>4. \A x \in Blocks : x # p => /\ currentBlock \in Around(x) => p \in Around(x)
                                   /\ p \notin Around(x) => x \in Chain(currentBlock)
    BY EdgeAvoids
  <1>5. UnknownAvoided'
    <2>1. ASSUME NEW x \in Blocks \ (Tree \cup {p}) PROVE p \in Around(x)
      <3>1. ReturnNode \in Around(x)
        BY AroundClosed DEF GraphInv, Tree
      <3>2. currentBlock \in Around(x)
        BY <1>1, <3>1 DEF Tree, PathInv, UnknownAvoided
      <3> QED  BY <1>4, <3>2
    <2> QED  BY <1>1, <1>2, <2>1 DEF UnknownAvoided, PathInv
  <1>6. BelowAvoids(next)'
    <2> SUFFICES ASSUME NEW b \in Found \cup {p}, NEW x \in Tree \cup {p}, NEW d, d = PostDominator'[b],
                        next[x] < next[d], d \in Around(x)
                 PROVE  b \in Around(x)
      BY <1>1, <1>2 DEF BelowAvoids
    <2>1. d \in Tree
      BY <1>1 DEF Numbering
    <2>2. x \in Tree /\ rank[x] < rank[d] /\ x \in Blocks
      BY <1>3, <2>1 DEF Tree, Found, TypeInv
    <2>3. CASE b = p
      BY <1>1, <1>4, <2>2, <2>3
    <2>4. CASE b \in Found
      BY <1>1, <2>2, <2>4 DEF PathInv, BelowAvoids
    <2> QED  BY <2>3, <2>4
  <1>7. KeysAvoid(next)'
    <2> SUFFICES ASSUME NEW b \in Blocks, NEW c \in postDominated'[b] \cup nullKeys'[b],
                        NEW x \in Tree \cup {p}, next[x] < next[b], x # c, b \in Around(x)
                 PROVE  c \in Around(x)
      BY <1>1, <1>2 DEF KeysAvoid
    <2>1. c \in postDominated[b] \cup nullKeys[b] \/ (c = p /\ b \in Chain(currentBlock))
      BY <1>1
    <2>2. b \in Tree
      BY <1>1, <2>1, ChainInTree DEF MapsNumbered, NullsFound
    <2>3. x \in Tree /\ rank[x] < rank[b] /\ x \in Blocks
      BY <1>3, <2>2 DEF Tree, Found, TypeInv
    <2>4. CASE c \in postDominated[b] \cup nullKeys[b]
      BY <2>3, <2>4 DEF PathInv, KeysAvoid
    <2>5. CASE c = p /\ b \in Chain(currentBlock)
      <3>1. currentBlock \in Around(x)
        BY <1>1, <2>3, <2>5, WalkAvoids DEF PathInv
      <3> QED  BY <1>4, <2>3, <2>5, <3>1
    <2> QED  BY <2>1, <2>4, <2>5
  <1>8. NoneMissing'
    <2> SUFFICES ASSUME NEW c \in Found \cup {p}, NEW x \in Blocks, x # c, c \notin Around(x),
                        NEW d, d = PostDominator'[c]
                 PROVE  c \in postDominated'[x] /\ x \in Chain(d)'
      BY <1>1, <1>2 DEF NoneMissing
    <2>1. d \in Tree
      BY <1>1 DEF Numbering
    <2>2. Chain(d)' = Chain(d)
      BY <2>1, ChainKept
    <2>3. CASE c = p
      BY <1>1, <1>4, <2>2, <2>3
    <2>4. CASE c \in Found
      BY <1>1, <2>2, <2>4 DEF PathInv, NoneMissing
    <2> QED  BY <2>3, <2>4
  <1> QED  BY <1>5, <1>6, <1>7, <1>8 DEF PathInv

LEMMA PathShared ==
    ASSUME TypeInv, GraphInv, FirstPlain, EdgesInv, KeysExact, NullsFound,
           NEW rank, Numbering(rank), MapsNumbered(rank), PathInv(rank),
           NEW p \in Blocks, LookAt(p), isPostDominated[p]
    PROVE  PathInv(rank)'
  <1> DEFINE new == Common(p)
  <1>1. new \in Chain(PostDominator[p])
    BY CommonAbove
  <1>2. /\ p \in Found /\ Found' = Found /\ Tree' = Tree /\ Blocks' = Blocks /\ routine' = routine
        /\ currentBlock \in Tree /\ currentBlock \in Blocks
        /\ new \in Tree /\ new \in Chain(currentBlock) /\ rank[new] < rank[p]
        /\ PostDominator' = [PostDominator EXCEPT ![p] = new]
        /\ \A b \in Blocks : \A c \in Blocks :
              /\ c \in postDominated'[b] => c \in postDominated[b]
              /\ c \in postDominated[b] /\ c \notin postDominated'[b] =>
                    b \in Passed(p) /\ c \in {p} \cup postDominated[p] \cup nullKeys[p]
              /\ c \in nullKeys'[b] => c \in nullKeys[b] \/ (c = p /\ b \in Chain(currentBlock))
    BY <1>1, SharedEffect, LookedAt DEF TypeInv, Tree, Found
  <1>3. \A x : Around(x)' = Around(x)
    BY <1>2, AroundKept
  <1>4. /\ p \notin Passed(p) /\ p \notin Chain(new)
        /\ \A d \in Tree : Chain(d)' = IF p \in Chain(d) THEN Chain(d) \ Passed(p) ELSE Chain(d)
    BY <1>1, <1>2, ChainMoved
  <1>5. \A x \in Blocks : x # p => /\ currentBlock \in Around(x) => p \in Around(x)
                                   /\ p \notin Around(x) => x \in Chain(currentBlock)
    BY EdgeAvoids
  <1>6. /\ PostDominator'[p] = new
        /\ \A b \in Found : b # p => PostDominator'[b] = PostDominator[b]
    BY <1>2 DEF TypeInv, Found
  <1>7. \A b \in Tree : rank[b] \in Nat /\ b \in Blocks
    BY NumbersSmall DEF Tree, Found, TypeInv
  <1>8. TypeInv'
    BY TypeLookAt
  \* what every path from the predecessor passes stays above it
  <1>9. \A x \in Blocks : x # p /\ p \notin Around(x) => x \in Chain(new)
    <2> SUFFICES ASSUME NEW x \in Blocks, x # p, p \notin Around(x) PROVE x \in Chain(new)
      OBVIOUS
    <2>1. x \in Chain(currentBlock)
      BY <1>5
    <2>2. p \in postDominated[x]
      BY <1>2 DEF PathInv, NoneMissing
    <2> QED  BY <1>2, <2>1, <2>2, CommonPostDominator DEF Common
  <1>10. \A x \in Passed(p) : x \in Tree /\ rank[x] < rank[p] /\ p \in Around(x)
    <2>1. PostDominator[p] \in Tree /\ rank[PostDominator[p]] < rank[p] /\ p \in Tree
      BY <1>2 DEF Numbering, Tree
    <2>2. \A x \in Chain(PostDominator[p]) : x \in Tree /\ rank[x] <= rank[PostDominator[p]]
      BY <2>1, ChainInTree
    <2>3. \A x \in Passed(p) : x \in Tree /\ rank[x] < rank[p]
      BY <1>7, <2>1, <2>2 DEF Passed
    <2> QED  BY <1>4, <1>7, <1>9, <2>3 DEF Passed
  <1> HIDE DEF new
  <1>11. UnknownAvoided'
    BY <1>2, <1>3 DEF UnknownAvoided, PathInv
  <1>12. BelowAvoids(rank)'
    <2> SUFFICES ASSUME NEW b \in Found, NEW x \in Tree, NEW d, d = PostDominator'[b],
                        rank[x] < rank[d], d \in Around(x)
                 PROVE  b \in Around(x)
      BY <1>2, <1>3 DEF BelowAvoids
    <2>1. CASE b = p
      <3>1. d = new /\ x # p
        BY <1>2, <1>6, <1>7, <2>1
      <3>2. currentBlock \in Around(x)
        BY <1>2, <3>1, WalkAvoids DEF PathInv
      <3> QED  BY <1>5, <1>7, <2>1, <3>1, <3>2
    <2>2. CASE b # p
      BY <1>6, <2>2 DEF PathInv, BelowAvoids
    <2> QED  BY <2>1, <2>2
  <1>13. KeysAvoid(rank)'
    <2> SUFFICES ASSUME NEW b \in Blocks, NEW c \in postDominated'[b] \cup nullKeys'[b],
                        NEW x \in Tree, rank[x] < rank[b], x # c, b \in Around(x)
                 PROVE  c \in Around(x)
      BY <1>2, <1>3 DEF KeysAvoid
    <2>1. c \in Blocks
      BY <1>2, <1>8 DEF TypeInv
    <2>2. CASE c \in postDominated[b] \cup nullKeys[b]
      BY <2>2 DEF PathInv, KeysAvoid
    <2>3. CASE c = p /\ b \in Chain(currentBlock)
      <3>1. currentBlock \in Around(x)
        BY <1>2, <2>3, WalkAvoids DEF PathInv
      <3> QED  BY <1>5, <1>7, <2>3, <3>1
    <2> QED  BY <1>2, <2>1, <2>2, <2>3
  <1>14. NoneMissing'
    <2> SUFFICES ASSUME NEW c \in Found, NEW x \in Blocks, x # c, c \notin Around(x),
                        NEW d, d = PostDominator'[c]
                 PROVE  c \in postDominated'[x] /\ x \in Chain(d)'
      BY <1>2, <1>3 DEF NoneMissing
    <2>0. c \in Blocks /\ c \in postDominated[x] /\ x \in Chain(PostDominator[c])
      BY DEF PathInv, NoneMissing, Found
    <2>1. CASE c = p
      <3>1. x \in Chain(new) /\ d = new
        BY <1>6, <1>9, <2>1
      <3>2. Chain(d)' = Chain(d)
        BY <1>2, <1>4, <3>1
      <3>3. x \notin Passed(p)
        BY <1>10, <2>1
      <3> QED  BY <1>2, <2>0, <3>1, <3>2, <3>3
    <2>2. CASE c # p
      <3>1. d = PostDominator[c] /\ d \in Tree
        BY <1>6, <2>2 DEF Numbering
      <3>2. ASSUME x \in Passed(p), p \in Chain(d) PROVE FALSE
        <4>1. x \in Tree /\ rank[x] < rank[p] /\ p \in Around(x)
          BY <1>10, <3>2
        <4>2. d \in Around(x)
          BY <3>1, <3>2, <4>1, WalkAvoids DEF PathInv
        <4>3. rank[x] < rank[d]
          <5>1. rank[p] <= rank[d] /\ p \in Tree
            BY <3>1, <3>2, ChainInTree
          <5> QED  BY <1>7, <3>1, <4>1, <5>1
        <4> QED  BY <3>1, <4>1, <4>2, <4>3 DEF PathInv, BelowAvoids
      <3>3. ASSUME x \in Passed(p), c \in postDominated[p] \cup nullKeys[p] PROVE FALSE
        BY <1>10, <3>3 DEF PathInv, KeysAvoid
      <3> QED  BY <1>2, <1>4, <2>0, <2>2, <3>1, <3>2, <3>3
    <2> QED  BY <2>1, <2>2
  <1> QED  BY <1>11, <1>12, <1>13, <1>14 DEF PathInv

------------------------------------------------------------------------------
(* The whole invariant, and what it says of the tree.                       *)

PathsKnown == \E rank : Numbering(rank) /\ MapsNumbered(rank) /\ (GraphRight => PathInv(rank))

PostInv == TypeInv /\ GraphInv /\ EdgesInv /\ KeysExact /\ NullsFound /\ PathsKnown

LEMMA PostInit == Init => PostInv
  <1> SUFFICES ASSUME Init PROVE PostInv
    OBVIOUS
  <1>1. TypeInv /\ TreeInv /\ GraphInv /\ EdgesInv
    BY TypeInit, GraphInit, EdgesInit
  <1>2. Found = {} /\ Tree = {ReturnNode} /\ \A b \in Blocks : postDominated[b] = {} /\ nullKeys[b] = {}
    BY DEF Init, Found, Tree
  <1>3. KeysExact /\ NullsFound
    BY <1>2 DEF KeysExact, NullsFound
  <1>4. PICK rank : Numbering(rank) /\ MapsNumbered(rank)
    BY <1>1 DEF TreeInv
  <1>5. PathInv(rank)
    BY <1>2 DEF PathInv, UnknownAvoided, BelowAvoids, KeysAvoid, NoneMissing
  <1> QED  BY <1>1, <1>3, <1>4, <1>5 DEF PostInv, PathsKnown

LEMMA PostNext == PostInv /\ [Next]_vars => PostInv'
  <1> SUFFICES ASSUME PostInv, [Next]_vars PROVE PostInv'
    OBVIOUS
  <1>1. PICK rank : Numbering(rank) /\ MapsNumbered(rank) /\ (GraphRight => PathInv(rank))
    BY DEF PostInv, PathsKnown
  <1>2. TypeInv /\ TreeInv /\ GraphInv /\ EdgesInv /\ KeysExact /\ NullsFound
    BY <1>1 DEF PostInv, TreeInv
  <1>3. TypeInv' /\ GraphInv'
    BY <1>2, TreeNext, GraphNext
  <1>4. GraphRight' = GraphRight /\ (GraphRight => FirstPlain)
    <2>1. UNCHANGED <<routine, garbage>>
      BY DEF Next, LookAt, NextBlock, vars, graph
    <2> QED  BY <1>2, <2>1 DEF GraphRight, GraphInv, FirstPlain
  <1>5. ASSUME NEW p \in Blocks, LookAt(p) PROVE EdgesInv' /\ KeysExact' /\ NullsFound' /\ PathsKnown'
    <2>1. EdgesInv'
      BY <1>2, <1>5, EdgesLookAt
    <2>2. CASE isPostDominated[p]
      <3>1. KeysExact' /\ NullsFound'
        BY <1>1, <1>2, <1>5, <2>2, KeysShared
      <3>2. Numbering(rank)' /\ MapsNumbered(rank)'
        BY <1>1, <1>2, <1>5, <2>2, SharedNumbering
      <3>3. GraphRight => PathInv(rank)'
        BY <1>1, <1>2, <1>4, <1>5, <2>2, PathShared
      <3> QED  BY <1>4, <2>1, <3>1, <3>2, <3>3 DEF PathsKnown
    <2>3. CASE ~isPostDominated[p]
      <3>1. KeysExact' /\ NullsFound'
        BY <1>1, <1>2, <1>5, <2>3, KeysFirst
      <3>2. PICK next : next = [b \in Tree \cup {p} |-> IF b = p THEN Cardinality(Found) + 1 ELSE rank[b]]
        OBVIOUS
      <3>3. Numbering(next)' /\ MapsNumbered(next)'
        BY <1>1, <1>2, <1>5, <2>3, <3>2, FirstNumbering
      <3>4. GraphRight => PathInv(next)'
        BY <1>1, <1>2, <1>4, <1>5, <2>3, <3>2, PathFirst
      <3> QED  BY <1>4, <2>1, <3>1, <3>3, <3>4 DEF PathsKnown
    <2> QED  BY <2>2, <2>3
  <1>6. CASE NextBlock \/ UNCHANGED vars
    <2>1. UNCHANGED <<routine, predecessors, garbage, PostDominator, isPostDominated, postDominated,
                      nullKeys>>
      BY <1>6 DEF NextBlock, vars, graph, tree
    <2>2. Blocks' = Blocks /\ Found' = Found /\ Tree' = Tree /\ Skipped' = Skipped
      BY <2>1 DEF Blocks, Found, Tree, Skipped
    <2>3. \A d : Chain(d)' = Chain(d)
      BY <2>1, <2>2 DEF Chain
    <2>4. \A x : Around(x)' = Around(x)
      BY <2>1, AroundKept
    <2>5. EdgesInv' /\ \A c : Lookers(c)' = Lookers(c)
      <3>1. CASE NextBlock
        BY <1>2, <3>1, EdgesNextBlock
      <3>2. CASE UNCHANGED vars
        <4>1. UNCHANGED <<currentBlock, edgeTargets, blockQueue>>
          BY <3>2 DEF vars
        <4>2. Waiting' = Waiting
          BY <4>1 DEF Waiting
        <4>3. \A b : Looked(b)' = Looked(b)
          BY <2>1, <2>2, <4>1, <4>2 DEF Looked
        <4>4. \A c : Lookers(c)' = Lookers(c)
          BY <2>2, <4>3 DEF Lookers
        <4> QED  BY <1>2, <2>1, <2>2, <4>1, <4>2, <4>4 DEF EdgesInv
      <3> QED  BY <1>6, <3>1, <3>2
    <2>6. KeysExact' /\ NullsFound'
      BY <1>2, <2>1, <2>2, <2>3, <2>5 DEF KeysExact, NullsFound, Fresh
    <2>7. Numbering(rank)' /\ MapsNumbered(rank)'
      BY <1>1, <2>1, <2>2 DEF Numbering, MapsNumbered
    <2>8. GraphRight => PathInv(rank)'
      BY <1>1, <2>1, <2>2, <2>3, <2>4
         DEF PathInv, UnknownAvoided, BelowAvoids, KeysAvoid, NoneMissing
    <2> QED  BY <1>3, <1>4, <2>5, <2>6, <2>7, <2>8 DEF PostInv, PathsKnown
  <1> QED  BY <1>3, <1>5, <1>6 DEF Next, PostInv

\* A block that is moved is put below one that was above it, so that the walk of
\* deleteDownPostDominanceInfo meets the block it has to stop at, for every routine,
\* every order of the heap and whatever the pointers held that were not set: a block has
\* two successors at most, and until the second one comes to it the maps of the blocks
\* above it, and no others, have it.
THEOREM MovesUpAlways == Spec => MovesUp
  <1>1. PostInv /\ [Next]_vars =>
           [\A b \in Blocks : isPostDominated[b] => PostDominator'[b] \in Chain(PostDominator[b])]_vars
    <2> SUFFICES ASSUME PostInv, Next, NEW b \in Found
                 PROVE  PostDominator'[b] \in Chain(PostDominator[b])
      BY DEF Found
    <2>1. PICK rank : Numbering(rank) /\ MapsNumbered(rank)
      BY DEF PostInv, PathsKnown
    <2>2. TypeInv /\ GraphInv /\ EdgesInv /\ KeysExact /\ PostDominator[b] \in Chain(PostDominator[b])
      <3>1. PostDominator[b] \in Tree
        BY <2>1 DEF Numbering
      <3> QED  BY <2>1, <3>1, ChainInTree DEF PostInv
    <2>3. CASE PostDominator'[b] = PostDominator[b]
      BY <2>2, <2>3
    <2>4. ASSUME NEW p \in Blocks, LookAt(p), PostDominator'[b] # PostDominator[b]
          PROVE  PostDominator'[b] \in Chain(PostDominator[b])
      <3>1. isPostDominated[p]
        BY <2>2, <2>4, FirstEffect
      <3>2. Common(p) \in Chain(PostDominator[p])
        BY <2>1, <2>2, <2>4, <3>1, CommonAbove
      <3>3. PostDominator' = [PostDominator EXCEPT ![p] = Common(p)]
        BY <2>1, <2>2, <2>4, <3>1, <3>2, SharedEffect
      <3>4. b = p /\ PostDominator'[b] = Common(p)
        BY <2>2, <2>4, <3>3 DEF TypeInv, Found
      <3> QED  BY <3>2, <3>4
    <2> QED  BY <2>3, <2>4 DEF Next, NextBlock, tree
  <1> QED  BY <1>1, PostInit, PostNext, PTL DEF Spec, MovesUp

\* When no block waits any more all the blocks are found from which a path returns.
LEMMA AllFound ==
    ASSUME PostInv, GraphRight, Done, NEW a \in DOMAIN routine, a \in Around(NULL)
    PROVE  BlockAt(a) \in Found
  <1>1. TypeInv /\ GraphInv /\ EdgesInv /\ FirstPlain
    BY DEF PostInv, GraphRight, GraphInv, FirstPlain
  <1>2. Waiting = {} /\ edgeTargets = {} /\ Skipped = {}
    BY DEF Done, Waiting, GraphRight, Skipped
  <1>3. \A b \in Tree : Looked(b) = predecessors[b]
    BY <1>2 DEF Looked
  <1>4. ASSUME NEW b \in allBlocks, b \in Found \cup {ReturnNode} PROVE BlockBuilder(b) \subseteq Found
    <2>1. b \in Tree /\ b \in Blocks /\ Looked(b) = BlockBuilder(b)
      BY <1>1, <1>3, <1>4, BlocksKnown DEF Tree
    <2>2. BlockBuilder(b) \subseteq Blocks
      BY <1>1, BlocksKnown, PredecessorsInside DEF GraphInv
    <2>3. \A p \in BlockBuilder(b) : b \in Lookers(p)
      BY <2>1 DEF Lookers
    <2> QED  BY <1>1, <2>2, <2>3 DEF EdgesInv
  <1> QED  BY <1>1, <1>4, ReturningFound

\* The blocks that every path from a conditional branch to the return passes through
\* are all on the walk from its block that Controlflow takes, when the builder is done:
\* a scope is never closed later than at the immediate postdominator.  For every routine
\* whose first instruction is no jump and every order of the heap, with blocks allocated
\* in memory that holds zeros.
THEOREM NoneMissedAlways == Spec => []NoneMissed
  <1>1. PostInv => NoneMissed
    <2> SUFFICES ASSUME PostInv, Done, GraphRight PROVE
                        LET right == PostDominators IN
                        \A a \in DOMAIN right : right[a] \subseteq Chain(PostDominator[BlockAt(a)])
      BY DEF NoneMissed
    <2> DEFINE branching == {b \in DOMAIN routine \cap Around(NULL) : routine[b].kind = "jcc"}
    <2>1. PostDominators = [a \in branching |-> {x \in Blocks \ {a} : a \notin Around(x)}]
      BY DEF PostDominators, Around
    <2>2. TypeInv /\ GraphInv /\ FirstPlain
      BY DEF PostInv, GraphRight, GraphInv, FirstPlain
    <2>3. PICK rank : PathInv(rank)
      BY DEF PostInv, PathsKnown
    <2>4. ASSUME NEW a \in branching, NEW x \in Blocks \ {a}, a \notin Around(x)
          PROVE  x \in Chain(PostDominator[BlockAt(a)])
      <3>1. a \in DOMAIN routine /\ a \in Around(NULL)
        OBVIOUS
      <3>2. BlockAt(a) \in Found
        BY <3>1, AllFound
      <3>3. BlockAt(a) \in BlockAt(a) .. a
        <4>1. BlockAt(a) \in First .. a /\ a \in Nat /\ First \in Nat
          BY <2>2, <3>1, BlockOf, Addresses DEF GraphInv
        <4> QED  BY <4>1
      <3>4. BlockAt(a) \notin Around(x)
        BY <2>2, <2>4, <3>1, <3>3, ThroughBlock
      <3>5. x # BlockAt(a)
        BY <2>2, <2>4, <3>1, NotOwnStart
      <3> QED  BY <2>3, <3>2, <3>4, <3>5 DEF PathInv, NoneMissing
    <2> QED  BY <2>1, <2>4
  <1> QED  BY <1>1, PostInit, PostNext, PTL DEF Spec
==============================================================================
