------------------------- MODULE MemoryTags_proofs ---------------------------
(****************************************************************************)
(* Proofs about the tags of heap blocks, for any number of threads, any     *)
(* heap, any variables, any sizes, any stores of the results and any number *)
(* of marks.                                                                *)
(****************************************************************************)
EXTENDS MemoryTags, TaintGenerator_proofs, SequenceTheorems

------------------------------------------------------------------------------
(* Maps, sequences and addresses. *)

\* What is put at the front of a sequence, and what is taken from it.
LEMMA SequenceParts ==
    ASSUME NEW S, NEW p \in Seq(S)
    PROVE  /\ Range(p) \subseteq S
           /\ p = << >> <=> Range(p) = {}
           /\ p # << >> => /\ Head(p) \in S /\ Tail(p) \in Seq(S)
                           /\ Range(p) = {Head(p)} \cup Range(Tail(p))
           /\ \A x \in S : /\ <<x>> \o p \in Seq(S) /\ <<x>> \o p # << >>
                           /\ Head(<<x>> \o p) = x /\ Tail(<<x>> \o p) = p
                           /\ Range(<<x>> \o p) = {x} \cup Range(p)
  <1>1. Range(p) \subseteq S
    BY DEF Range
  <1>2. p = << >> <=> Range(p) = {}
    <2>1. p = << >> => DOMAIN p = {}
      OBVIOUS
    <2>2. p # << >> => 1 \in DOMAIN p
      OBVIOUS
    <2> QED  BY <2>1, <2>2 DEF Range
  <1>3. ASSUME p # << >>
        PROVE  /\ Head(p) \in S
               /\ Tail(p) \in Seq(S)
               /\ Range(p) = {Head(p)} \cup Range(Tail(p))
    <2>1. Head(p) = p[1] /\ 1 \in DOMAIN p /\ Tail(p) \in Seq(S)
      BY <1>3
    <2>2. \A i \in DOMAIN Tail(p) : i + 1 \in DOMAIN p /\ Tail(p)[i] = p[i + 1]
      BY <1>3
    <2>3. \A i \in DOMAIN p : i # 1 => i - 1 \in DOMAIN Tail(p) /\ Tail(p)[i - 1] = p[i]
      BY <1>3
    <2> QED  BY <2>1, <2>2, <2>3 DEF Range
  <1>4. ASSUME NEW x \in S
        PROVE  /\ <<x>> \o p \in Seq(S) /\ <<x>> \o p # << >>
               /\ Head(<<x>> \o p) = x /\ Tail(<<x>> \o p) = p
               /\ Range(<<x>> \o p) = {x} \cup Range(p)
    <2> DEFINE longer == <<x>> \o p
    <2>1. longer \in Seq(S) /\ Len(longer) = Len(p) + 1 /\ longer[1] = x
      BY <1>4
    <2>2. \A i \in 1 .. Len(p) : longer[i + 1] = p[i]
      BY <1>4
    <2> HIDE DEF longer
    <2>3. longer # << >> /\ Head(longer) = x
      BY <2>1
    <2>4. Tail(longer) = p
      <3>1. Tail(longer) \in Seq(S) /\ Len(Tail(longer)) = Len(p)
        BY <2>1, <2>3
      <3>2. \A i \in 1 .. Len(p) : Tail(longer)[i] = p[i]
        BY <2>1, <2>2, <2>3, <3>1
      <3> QED  BY <3>1, <3>2, SeqEqual
    <2>5. Range(longer) = {x} \cup Range(p)
      <3>1. 1 \in DOMAIN longer /\ longer[1] = x
        BY <2>1
      <3>2. \A i \in DOMAIN p : i + 1 \in DOMAIN longer /\ longer[i + 1] = p[i]
        BY <2>1, <2>2
      <3>3. \A i \in DOMAIN longer : i = 1 \/ (i - 1 \in DOMAIN p /\ longer[i] = p[i - 1])
        BY <2>1, <2>2
      <3> QED  BY <3>1, <3>2, <3>3 DEF Range
    <2> QED  BY <2>1, <2>3, <2>4, <2>5 DEF longer
  <1> QED  BY <1>1, <1>2, <1>3, <1>4

\* Addresses are numbers, and NULL is none of them.
LEMMA Addresses ==
    /\ Memory \subseteq Nat /\ Heap \subseteq Memory /\ Variables \subseteq Memory
    /\ NULL \notin Memory /\ NULL \in Nat /\ Sizes \subseteq Nat \ {0}
  BY HeapAssumption, PagesAssumption DEF Memory, NULL

\* What is tagged at NULL is no memory of the program.
LEMMA NullPage ==
    ASSUME NEW n \in Sizes
    PROVE  Bytes(NULL, n) \cap Memory = {}
  BY Addresses, PagesAssumption DEF Bytes, NULL

\* The bytes of a range, and the only one of a pointer.
LEMMA OneByte ==
    ASSUME NEW a \in Nat
    PROVE  Bytes(a, 1) = {a}
  BY DEF Bytes

------------------------------------------------------------------------------
(* The code that is pending. *)

\* Code that other code of the thread may run in front of, or that may come to be
\* behind other code.
Plain(p) == \A k \in Range(p) : k.op \in {"free", "store", "tag", "count"}

\* Only the first may be the load, or a tag call that is under way.
Ready(p) ==
    \/ p = << >>
    \/ Head(p).op # "new" /\ Plain(Tail(p))
    \/ /\ Head(p).op = "new" /\ Tail(p) # << >>
       /\ Head(Tail(p)).op = "assign" /\ Head(Tail(p)).id = Head(p).id
       /\ Plain(Tail(Tail(p)))

\* What is tagged is memory of the program, or follows NULL.
CodeOK(k) ==
    /\ k.op = "free" => k.id = 0 /\ k.start \in Heap \cup {NULL}
    /\ k.op # "free" => k.id \in 1 .. allocs
    /\ k.op \in {"free", "load", "new", "count"} => k.size = 0
    /\ k.op \in {"store", "tag", "assign"} =>
          \/ k.start \in Memory /\ k.size \in Nat \ {0} /\ Bytes(k.start, k.size) \subseteq Memory
          \/ k.start = NULL /\ k.size \in Sizes
    /\ k.op = "store" => k.cell \in Memory

\* Nothing but the load comes before the counter was loaded, and no mark is assigned
\* before the tag has one.
ThreadOK(t) ==
    /\ Ready(pending[t])
    /\ \A k \in Range(pending[t]) :
          /\ CodeOK(k)
          /\ k.op \notin {"load", "free"} =>
                \/ k.id \in DOMAIN loaded
                \/ Head(pending[t]).op = "load" /\ Head(pending[t]).id = k.id
          /\ k.op = "assign" =>
                /\ k.id \in DOMAIN loaded
                /\ \/ loaded[k.id] \in DOMAIN tagMap
                   \/ Head(pending[t]).op = "new" /\ Head(pending[t]).id = k.id
          /\ k.op = "load" => k.id \notin DOMAIN loaded

\* Every allocation loads the counter once.
LoadsApart ==
    \A t, u \in Threads : t # u =>
       \A k \in Range(pending[t]), l \in Range(pending[u]) :
          k.op = "load" /\ l.op = "load" => k.id # l.id

\* Live blocks are in the heap and have the byte in front of them to themselves.
Apart ==
    \A b, c \in DOMAIN live :
       /\ Block(b) \subseteq Heap
       /\ b < c => b + live[b] < c

TypeInv == TypeOK /\ Apart /\ (\A t \in Threads : ThreadOK(t)) /\ LoadsApart

\* Code that other code may run in front of is ready to be run itself.
LEMMA PlainReady ==
    ASSUME NEW p \in Seq(Code)
    PROVE  /\ Plain(p) => Ready(p)
           /\ \A k \in Code : k.op # "new" /\ Plain(p) => Ready(<<k>> \o p)
           /\ Ready(p) /\ (p # << >> => Head(p).op = "store") => Plain(p)
  <1>1. p # << >> => Range(p) = {Head(p)} \cup Range(Tail(p))
    BY SequenceParts
  <1>2. \A k \in Code : Head(<<k>> \o p) = k /\ Tail(<<k>> \o p) = p
    BY SequenceParts
  <1>3. p = << >> => Range(p) = {}
    BY SequenceParts
  <1> QED  BY <1>1, <1>2, <1>3 DEF Plain, Ready

\* What a thread that runs op knows of its code, where it goes on with code.
Runs(t, op, code) ==
    LET head == Head(pending[t])
        rest == Tail(pending[t])
    IN /\ pending' \in [Threads -> Seq(Code)]
       /\ pending'[t] = code \o rest /\ \A u \in Threads : u # t => pending'[u] = pending[u]
       /\ pending[t] \in Seq(Code) /\ pending[t] # << >>
       /\ rest \in Seq(Code) /\ head \in Code /\ head.op = op /\ CodeOK(head)
       /\ Range(pending[t]) = {head} \cup Range(rest)
       /\ Range(pending'[t]) = Range(code) \cup Range(rest)
       /\ op # "new" => Plain(rest)
       /\ op = "new" => Ready(rest)
       /\ \A k \in Range(rest) :
             /\ k \in Code /\ CodeOK(k) /\ k.op \notin {"load", "new"}
             /\ k.op = "assign" => op = "new" /\ k.id = head.id /\ k.id \in DOMAIN loaded
       /\ \A k \in {head} \cup Range(rest) : k.op \notin {"load", "free"} =>
             k.id \in DOMAIN loaded \/ (op = "load" /\ k.id = head.id)
       /\ op = "load" => head.id \notin DOMAIN loaded
       /\ op = "assign" => loaded[head.id] \in DOMAIN tagMap

LEMMA HeadRuns ==
    ASSUME TypeInv, NEW t \in Threads, NEW op, NEW code \in Seq(Code), Step(t, op, code)
    PROVE  Runs(t, op, code)
  <1> DEFINE head == Head(pending[t])
             rest == Tail(pending[t])
  <1>1. pending \in [Threads -> Seq(Code)] /\ ThreadOK(t)
    BY DEF TypeInv, TypeOK
  <1>2. pending[t] \in Seq(Code) /\ pending[t] # << >> /\ head.op = op
    BY <1>1 DEF Step
  <1>3. /\ rest \in Seq(Code) /\ head \in Code
        /\ Range(pending[t]) = {head} \cup Range(rest)
        /\ Range(rest) \subseteq Code
    BY <1>2, SequenceParts
  <1> HIDE DEF rest
  <1>4. code \o rest \in Seq(Code) /\ Range(code \o rest) = Range(code) \cup Range(rest)
    BY <1>3, ConcatProperties, RangeConcatenation
  <1> USE DEF rest
  <1>5. /\ pending' \in [Threads -> Seq(Code)]
        /\ pending'[t] = code \o rest /\ \A u \in Threads : u # t => pending'[u] = pending[u]
    BY <1>1, <1>4 DEF Step
  <1>6. op # "new" => Plain(rest)
    BY <1>1, <1>2 DEF ThreadOK, Ready
  <1>7. ASSUME op = "new"
        PROVE  /\ Ready(rest)
               /\ \A k \in Range(rest) :
                    k.op \notin {"load", "new"} /\ (k.op = "assign" => k.id = head.id)
    <2>1. /\ rest # << >> /\ Head(rest).op = "assign" /\ Head(rest).id = head.id
          /\ Plain(Tail(rest))
      BY <1>1, <1>2, <1>7 DEF ThreadOK, Ready
    <2>2. Range(rest) = {Head(rest)} \cup Range(Tail(rest))
      BY <1>3, <2>1, SequenceParts
    <2> QED  BY <2>1, <2>2 DEF Ready, Plain
  <1> HIDE DEF head, rest
  <1>8. \A k \in Range(rest) :
           k.op \notin {"load", "new"} /\ (k.op = "assign" => op = "new" /\ k.id = head.id)
    BY <1>6, <1>7 DEF Plain
  <1>9. \A k \in {head} \cup Range(rest) :
           /\ CodeOK(k)
           /\ k.op \notin {"load", "free"} => k.id \in DOMAIN loaded \/ (op = "load" /\ k.id = head.id)
           /\ k.op = "assign" => k.id \in DOMAIN loaded
    BY <1>1, <1>2, <1>3 DEF ThreadOK, head
  <1>10. op = "load" => head.id \notin DOMAIN loaded
    BY <1>1, <1>2, <1>3 DEF ThreadOK, head
  <1>11. op = "assign" => loaded[head.id] \in DOMAIN tagMap
    BY <1>1, <1>2, <1>3 DEF ThreadOK, head
  <1> QED  BY <1>2, <1>3, <1>4, <1>5, <1>6, <1>7, <1>8, <1>9, <1>10, <1>11 DEF head, rest, Runs

\* The code of the other threads stays in order while allocations, tags and loads of
\* the counter are added.
LEMMA OthersKept ==
    ASSUME TypeInv, NEW t \in Threads, \A u \in Threads : u # t => pending'[u] = pending[u],
           allocs' \in Nat, allocs <= allocs',
           DOMAIN loaded \subseteq DOMAIN loaded',
           \A id \in DOMAIN loaded : loaded'[id] = loaded[id],
           DOMAIN tagMap \subseteq DOMAIN tagMap',
           \A u \in Threads : u # t =>
              \A k \in Range(pending[u]) : k.op = "load" => k.id \notin DOMAIN loaded'
    PROVE  \A u \in Threads : u # t => ThreadOK(u)'
  <1> SUFFICES ASSUME NEW u \in Threads, u # t PROVE ThreadOK(u)'
    OBVIOUS
  <1>1. ThreadOK(u) /\ pending'[u] = pending[u] /\ allocs \in Nat
    BY DEF TypeInv, TypeOK
  <1>2. \A k : CodeOK(k) => CodeOK(k)'
    BY <1>1 DEF CodeOK
  <1> QED  BY <1>1, <1>2 DEF ThreadOK

\* Where the code of one thread has no load of the counter, loads stay apart.
LEMMA LoadsKept ==
    ASSUME LoadsApart, NEW t \in Threads, \A u \in Threads : u # t => pending'[u] = pending[u],
           \A k \in Range(pending'[t]) : k.op # "load"
    PROVE  LoadsApart'
  BY DEF LoadsApart

\* A thread that runs what is at the head of its code stays in order, if what it goes
\* on with is in order.
LEMMA RunKept ==
    ASSUME TypeInv, NEW t \in Threads, NEW op, NEW code \in Seq(Code), Step(t, op, code),
           UNCHANGED allocs, Ready(pending'[t]),
           DOMAIN loaded \subseteq DOMAIN loaded',
           \A id \in DOMAIN loaded : loaded'[id] = loaded[id],
           IF op = "load" THEN DOMAIN loaded' = DOMAIN loaded \cup {Head(pending[t]).id}
                          ELSE DOMAIN loaded' = DOMAIN loaded,
           DOMAIN tagMap \subseteq DOMAIN tagMap',
           op = "new" => loaded[Head(pending[t]).id] \in DOMAIN tagMap',
           \A k \in Range(code) :
              /\ CodeOK(k) /\ k.op \notin {"load", "free"} /\ k.id \in DOMAIN loaded
              /\ k.op = "assign" => \/ loaded[k.id] \in DOMAIN tagMap
                                    \/ Head(pending'[t]).op = "new" /\ Head(pending'[t]).id = k.id
    PROVE  (\A u \in Threads : ThreadOK(u)') /\ LoadsApart'
  <1> DEFINE head == Head(pending[t])
             rest == Tail(pending[t])
  <1>1. \A k \in Range(rest) :
           /\ CodeOK(k) /\ k.op \notin {"load", "new"}
           /\ k.op = "assign" => op = "new" /\ k.id = head.id /\ k.id \in DOMAIN loaded
           /\ k.op \notin {"load", "free"} =>
                 k.id \in DOMAIN loaded \/ (op = "load" /\ k.id = head.id)
    BY HeadRuns DEF Runs
  <1>2. /\ \A u \in Threads : u # t => pending'[u] = pending[u]
        /\ Range(pending[t]) = {head} \cup Range(rest) /\ head.op = op
    BY HeadRuns DEF Runs
  <1>3. Range(pending'[t]) = Range(code) \cup Range(rest)
    BY HeadRuns DEF Runs
  <1>4. allocs \in Nat /\ allocs' \in Nat /\ allocs <= allocs'
    BY DEF TypeInv, TypeOK
  <1> HIDE DEF head, rest
  <1>5. \A k : CodeOK(k) => CodeOK(k)'
    BY DEF CodeOK
  <1>6. ThreadOK(t)'
    <2>1. ASSUME NEW k \in Range(code)
          PROVE  /\ CodeOK(k)' /\ k.op # "load" /\ k.id \in DOMAIN loaded'
                 /\ k.op = "assign" => \/ loaded'[k.id] \in DOMAIN tagMap'
                                       \/ Head(pending'[t]).op = "new" /\ Head(pending'[t]).id = k.id
      BY <1>5, <2>1
    <2>2. ASSUME NEW k \in Range(rest)
          PROVE  /\ CodeOK(k)' /\ k.op # "load"
                 /\ k.op \notin {"load", "free"} => k.id \in DOMAIN loaded'
                 /\ k.op = "assign" => k.id \in DOMAIN loaded' /\ loaded'[k.id] \in DOMAIN tagMap'
      BY <1>1, <1>5, <2>2 DEF head
    <2> QED  BY <1>3, <2>1, <2>2 DEF ThreadOK
  <1>7. \A k \in Range(pending'[t]) : k.op # "load"
    BY <1>1, <1>3
  <1>8. LoadsApart'
    BY <1>2, <1>7, LoadsKept DEF TypeInv
  <1>9. \A u \in Threads : u # t =>
           \A k \in Range(pending[u]) : k.op = "load" => k.id \notin DOMAIN loaded'
    <2> SUFFICES ASSUME NEW u \in Threads, u # t, NEW k \in Range(pending[u]), k.op = "load"
                 PROVE  k.id \notin DOMAIN loaded'
      OBVIOUS
    <2>1. k.id \notin DOMAIN loaded
      BY DEF TypeInv, ThreadOK
    <2>2. op = "load" => k.id # head.id
      BY <1>2 DEF TypeInv, LoadsApart
    <2> QED  BY <2>1, <2>2 DEF head
  <1>10. \A u \in Threads : u # t => ThreadOK(u)'
    BY <1>2, <1>4, <1>9, OthersKept
  <1> QED  BY <1>6, <1>8, <1>10

------------------------------------------------------------------------------
(* Types and order: each action by itself. *)

\* All addresses that may have an entry.
Keys == Memory \cup UNION {Bytes(NULL, n) : n \in Sizes}

\* Marks from marks, entries from entries.
LEMMA PutType ==
    ASSUME IsTaintMap(memTaintMap, Keys, Mark), NEW K \in SUBSET Keys, NEW marks \in SUBSET Mark
    PROVE  IsTaintMap(Put(memTaintMap, K, marks), Keys, Mark)
  BY DEF IsTaintMap, Put

LEMMA MarksType ==
    ASSUME IsTaintMap(memTaintMap, Keys, Mark), NEW a, NEW K
    PROVE  MarksOf(memTaintMap, a) \subseteq Mark /\ UnionOf(memTaintMap, K) \subseteq Mark
  BY DEF IsTaintMap, MarksOf, UnionOf

\* What a program may use is memory.
LEMMA AccessibleMemory ==
    ASSUME TypeInv
    PROVE  /\ Accessible \subseteq Memory
           /\ \A b \in DOMAIN live : Block(b) \subseteq Memory
  BY Addresses DEF TypeInv, Apart, Accessible

\* Blocks stay apart while nothing is allocated or freed.
LEMMA ApartKept ==
    ASSUME Apart, UNCHANGED live
    PROVE  Apart'
  BY DEF Apart, Block

LEMMA LoadCountType ==
    ASSUME TypeInv, NEW t \in Threads, LoadCount(t)
    PROVE  TypeInv'
  <1> DEFINE head == Head(pending[t])
             rest == Tail(pending[t])
  <1>1. Step(t, "load", << >>) /\ << >> \in Seq(Code) /\ Range(<< >>) = {}
    BY DEF LoadCount, Range
  <1>2. Runs(t, "load", << >>)
    BY <1>1, HeadRuns
  <1>3. /\ pending' \in [Threads -> Seq(Code)]
        /\ pending'[t] = << >> \o rest /\ rest \in Seq(Code)
        /\ head.op = "load" /\ CodeOK(head) /\ Plain(rest) /\ head.id \notin DOMAIN loaded
    BY <1>2 DEF Runs
  <1>4. Ready(pending'[t])
    BY <1>3, ConcatEmptySeq, PlainReady
  <1>5. head.id \in 1 .. allocs
    BY <1>3 DEF CodeOK
  <1>6. /\ DOMAIN loaded' = DOMAIN loaded \cup {head.id}
        /\ \A id \in DOMAIN loaded : loaded'[id] = loaded[id]
        /\ loaded' \in [DOMAIN loaded' -> Nat]
    BY <1>3 DEF LoadCount, Put, TypeInv, TypeOK
  <1>7. UNCHANGED <<memTaintMap, tagMap, gen, ima_tag_count, live, allocs, origin, stored, overlapped, early>>
    BY DEF LoadCount, tool, history
  <1>8. (\A u \in Threads : ThreadOK(u)') /\ LoadsApart'
    <2> HIDE DEF head
    <2>1. IF "load" = "load" THEN DOMAIN loaded' = DOMAIN loaded \cup {Head(pending[t]).id}
                             ELSE DOMAIN loaded' = DOMAIN loaded
      BY <1>6 DEF head
    <2> QED  BY <1>1, <1>4, <1>6, <1>7, <2>1, RunKept
  <1>9. TypeOK'
    BY <1>3, <1>5, <1>6, <1>7 DEF TypeInv, TypeOK
  <1> QED  BY <1>7, <1>8, <1>9, ApartKept DEF TypeInv

LEMMA StoreCountType ==
    ASSUME TypeInv, NEW t \in Threads, StoreCount(t)
    PROVE  TypeInv'
  <1> DEFINE head == Head(pending[t])
             rest == Tail(pending[t])
  <1>1. Step(t, "count", << >>) /\ << >> \in Seq(Code) /\ Range(<< >>) = {}
    BY DEF StoreCount, Range
  <1>2. Runs(t, "count", << >>)
    BY <1>1, HeadRuns
  <1>3. /\ pending' \in [Threads -> Seq(Code)]
        /\ pending'[t] = << >> \o rest /\ rest \in Seq(Code)
        /\ head.op = "count" /\ Plain(rest) /\ head.id \in DOMAIN loaded
    BY <1>2 DEF Runs
  <1>4. Ready(pending'[t])
    BY <1>3, ConcatEmptySeq, PlainReady
  <1>5. /\ UNCHANGED <<memTaintMap, tagMap, gen, loaded, live, allocs, origin, stored, overlapped, early>>
        /\ ima_tag_count' = loaded[head.id] + 1
    BY DEF StoreCount, tool, history
  <1>6. (\A u \in Threads : ThreadOK(u)') /\ LoadsApart'
    BY <1>1, <1>4, <1>5, RunKept
  <1>7. TypeOK'
    BY <1>3, <1>5 DEF TypeInv, TypeOK
  <1> QED  BY <1>5, <1>6, <1>7, ApartKept DEF TypeInv

LEMMA ClearType ==
    ASSUME TypeInv, NEW t \in Threads, Clear(t)
    PROVE  TypeInv'
  <1> DEFINE head == Head(pending[t])
             rest == Tail(pending[t])
  <1>1. Step(t, "free", << >>) /\ << >> \in Seq(Code) /\ Range(<< >>) = {}
    BY DEF Clear, Range
  <1>2. Runs(t, "free", << >>)
    BY <1>1, HeadRuns
  <1>3. /\ pending' \in [Threads -> Seq(Code)]
        /\ pending'[t] = << >> \o rest /\ rest \in Seq(Code) /\ Plain(rest)
    BY <1>2 DEF Runs
  <1>4. Ready(pending'[t])
    BY <1>3, ConcatEmptySeq, PlainReady
  <1>5. UNCHANGED <<tagMap, gen, ima_tag_count, loaded, live, allocs, origin, stored, overlapped, early>>
    BY DEF Clear, history
  <1>6. (\A u \in Threads : ThreadOK(u)') /\ LoadsApart'
    BY <1>1, <1>4, <1>5, RunKept
  <1>7. IsTaintMap(memTaintMap', Keys, Mark)
    BY DEF Clear, ClearTagsForByteRange, Erase, IsTaintMap, TypeInv, TypeOK, Keys
  <1>8. TypeOK'
    BY <1>3, <1>5, <1>7 DEF TypeInv, TypeOK, Keys
  <1> QED  BY <1>5, <1>6, <1>8, ApartKept DEF TypeInv

\* A sequence of one and a sequence of two in front of another one.
LEMMA OneFront ==
    ASSUME NEW S, NEW x \in S, NEW one, one = <<x>>, NEW p \in Seq(S)
    PROVE  /\ one \in Seq(S) /\ Range(one) = {x} /\ one \o p \in Seq(S)
           /\ one \o p # << >> /\ Head(one \o p) = x /\ Tail(one \o p) = p
  <1>1. one \in Seq(S)
    OBVIOUS
  <1>2. Range(one) = {x}
    BY DEF Range
  <1> QED  BY <1>1, <1>2, SequenceParts

Fronted(q, x, y, p) ==
    q # << >> /\ Head(q) = x /\ Tail(q) # << >> /\ Head(Tail(q)) = y /\ Tail(Tail(q)) = p

LEMMA TwoFront ==
    ASSUME NEW S, NEW x \in S, NEW y \in S, NEW two, two = <<x, y>>, NEW p \in Seq(S)
    PROVE  two \in Seq(S) /\ Range(two) = {x, y} /\ Fronted(two \o p, x, y, p)
  <1>1. two \in Seq(S)
    OBVIOUS
  <1>2. Range(two) = {x, y}
    BY DEF Range
  <1> DEFINE a == <<x>>
             b == <<y>>
  <1>3. a \in Seq(S) /\ b \in Seq(S) /\ a \o b \in Seq(S) /\ Len(a \o b) = 2
        /\ (a \o b)[1] = x /\ (a \o b)[2] = y
    OBVIOUS
  <1>4. Len(two) = 2 /\ two[1] = x /\ two[2] = y
    OBVIOUS
  <1> HIDE DEF a, b
  <1>5. two = a \o b
    <2>1. \A i \in 1 .. Len(two) : two[i] = (a \o b)[i]
      BY <1>3, <1>4
    <2> QED  BY <1>1, <1>3, <1>4, <2>1, SeqEqual
  <1>6. (a \o b) \o p = a \o (b \o p)
    BY <1>3, ConcatAssociative
  <1>7. b \o p \in Seq(S) /\ b \o p # << >> /\ Head(b \o p) = y /\ Tail(b \o p) = p
    BY SequenceParts DEF b
  <1>8. /\ a \o (b \o p) \in Seq(S) /\ a \o (b \o p) # << >>
        /\ Head(a \o (b \o p)) = x /\ Tail(a \o (b \o p)) = b \o p
    BY <1>7, SequenceParts DEF a
  <1> QED  BY <1>1, <1>2, <1>5, <1>6, <1>7, <1>8 DEF Fronted

\* What the search for a tag goes on with.
FindCode(code) ==
    LET assign == Tag("assign", code.id, code.start, code.size) IN
    IF loaded[code.id] \in DOMAIN tagMap THEN <<assign>> ELSE <<Run("new", code.id), assign>>

LEMMA FindRuns ==
    ASSUME TypeInv, NEW t \in Threads, FindTag(t)
    PROVE  LET head == Head(pending[t])
               assign == Tag("assign", head.id, head.start, head.size)
               new == Run("new", head.id)
           IN /\ Runs(t, "tag", FindCode(head)) /\ FindCode(head) \in Seq(Code)
              /\ Range(FindCode(head)) = IF loaded[head.id] \in DOMAIN tagMap THEN {assign}
                                         ELSE {new, assign}
              /\ assign.op = "assign" /\ assign.id = head.id
              /\ assign.start = head.start /\ assign.size = head.size
              /\ new.op = "new" /\ new.id = head.id /\ new.size = 0
              /\ head.op = "tag" /\ CodeOK(head) /\ head.id \in DOMAIN loaded
              /\ Ready(pending'[t])
              /\ loaded[head.id] \notin DOMAIN tagMap => Head(pending'[t]) = new
  <1> DEFINE head == Head(pending[t])
             rest == Tail(pending[t])
             assign == Tag("assign", head.id, head.start, head.size)
             new == Run("new", head.id)
             code == FindCode(head)
  <1>1. Step(t, "tag", code)
    BY DEF FindTag, FindCode
  <1>2. pending[t] \in Seq(Code) /\ pending[t] # << >> /\ head.op = "tag"
    BY <1>1 DEF TypeInv, TypeOK, Step
  <1>3. head \in Code /\ CodeOK(head)
    BY <1>2, SequenceParts DEF TypeInv, ThreadOK
  <1>4. /\ head.id \in Nat /\ head.start \in Nat /\ head.size \in Nat
    BY <1>3 DEF Code
  <1>5. /\ assign \in Code /\ new \in Code
        /\ assign.op = "assign" /\ assign.id = head.id
        /\ assign.start = head.start /\ assign.size = head.size
        /\ new.op = "new" /\ new.id = head.id /\ new.size = 0
    <2> HIDE DEF head
    <2> QED  BY <1>4 DEF Code, Run, Tag, NULL
  <1>6. code = IF loaded[head.id] \in DOMAIN tagMap THEN <<assign>> ELSE <<new, assign>>
    BY DEF FindCode
  <1> HIDE DEF head, assign, new, code
  <1>7. /\ code \in Seq(Code)
        /\ Range(code) = IF loaded[head.id] \in DOMAIN tagMap THEN {assign} ELSE {new, assign}
    <2>1. rest \in Seq(Code)
      BY <1>2, SequenceParts
    <2> HIDE DEF rest
    <2>2. loaded[head.id] \in DOMAIN tagMap => code = <<assign>>
      BY <1>6
    <2>3. loaded[head.id] \notin DOMAIN tagMap => code = <<new, assign>>
      BY <1>6
    <2>4. loaded[head.id] \in DOMAIN tagMap => code \in Seq(Code) /\ Range(code) = {assign}
      BY <1>5, <2>1, <2>2, OneFront
    <2>5. loaded[head.id] \notin DOMAIN tagMap => code \in Seq(Code) /\ Range(code) = {new, assign}
      BY <1>5, <2>1, <2>3, TwoFront
    <2> QED  BY <2>4, <2>5
  <1>8. Runs(t, "tag", code)
    BY <1>1, <1>7, HeadRuns
  <1>9. /\ pending' \in [Threads -> Seq(Code)]
        /\ pending'[t] = code \o rest /\ rest \in Seq(Code) /\ Plain(rest) /\ head.id \in DOMAIN loaded
    BY <1>2, <1>8 DEF Runs, head
  <1>10. Ready(pending'[t]) /\ (loaded[head.id] \notin DOMAIN tagMap => Head(pending'[t]) = new)
    <2>1. CASE loaded[head.id] \in DOMAIN tagMap
      BY <1>5, <1>9, <1>6, <2>1, PlainReady
    <2>2. CASE loaded[head.id] \notin DOMAIN tagMap
      <3> HIDE DEF rest
      <3>1. code = <<new, assign>>
        BY <2>2, <1>6
      <3>2. rest \in Seq(Code) /\ new \in Code /\ assign \in Code
        BY <1>5, <1>9
      <3>3. Fronted(code \o rest, new, assign, rest)
        BY <3>1, <3>2, TwoFront
      <3> QED  BY <1>5, <1>9, <3>3 DEF Ready, Fronted
    <2> QED  BY <2>1, <2>2
  <1> QED  BY <1>2, <1>3, <1>5, <1>7, <1>8, <1>9, <1>10 DEF head, assign, new, code

LEMMA FindTagType ==
    ASSUME TypeInv, NEW t \in Threads, FindTag(t)
    PROVE  TypeInv'
  <1> DEFINE head == Head(pending[t])
             assign == Tag("assign", head.id, head.start, head.size)
             new == Run("new", head.id)
             code == FindCode(head)
  <1>1. /\ Runs(t, "tag", code) /\ code \in Seq(Code) /\ Range(code) \subseteq {new, assign}
        /\ assign.op = "assign" /\ assign.id = head.id
        /\ assign.start = head.start /\ assign.size = head.size
        /\ new.op = "new" /\ new.id = head.id /\ new.size = 0
        /\ head.op = "tag" /\ CodeOK(head) /\ head.id \in DOMAIN loaded
        /\ Ready(pending'[t])
        /\ loaded[head.id] \notin DOMAIN tagMap => Head(pending'[t]) = new
    BY FindRuns
  <1>2. Step(t, "tag", code)
    BY DEF FindTag, FindCode
  <1>3. UNCHANGED <<memTaintMap, tagMap, gen, ima_tag_count, loaded, live, allocs, origin, stored, overlapped, early>>
    BY DEF FindTag, tool, history
  <1> HIDE DEF head, assign, new, code
  <1>4. CodeOK(new) /\ CodeOK(assign)
    BY <1>1 DEF CodeOK
  <1>5. \A k \in Range(code) :
            /\ CodeOK(k) /\ k.op \notin {"load", "free"} /\ k.id \in DOMAIN loaded
            /\ k.op = "assign" => \/ loaded[k.id] \in DOMAIN tagMap
                                  \/ Head(pending'[t]).op = "new" /\ Head(pending'[t]).id = k.id
    BY <1>1, <1>4
  <1>6. (\A u \in Threads : ThreadOK(u)') /\ LoadsApart'
    BY <1>1, <1>2, <1>3, <1>5, RunKept
  <1>7. TypeOK'
    BY <1>1, <1>3 DEF Runs, TypeInv, TypeOK
  <1> QED  BY <1>3, <1>6, <1>7, ApartKept DEF TypeInv

LEMMA NewTagType ==
    ASSUME TypeInv, NEW t \in Threads, NewTag(t)
    PROVE  TypeInv'
  <1> DEFINE head == Head(pending[t])
             rest == Tail(pending[t])
  <1>1. Step(t, "new", << >>) /\ << >> \in Seq(Code) /\ Range(<< >>) = {}
    BY DEF NewTag, Range
  <1>2. Runs(t, "new", << >>)
    BY <1>1, HeadRuns
  <1>3. /\ pending' \in [Threads -> Seq(Code)]
        /\ pending'[t] = << >> \o rest /\ rest \in Seq(Code) /\ Ready(rest)
        /\ head.op = "new" /\ head.id \in DOMAIN loaded
    BY <1>2 DEF Runs
  <1>4. Ready(pending'[t])
    BY <1>3, ConcatEmptySeq
  <1>5. UNCHANGED <<memTaintMap, ima_tag_count, loaded, live, allocs, origin, stored, overlapped, early>>
    BY DEF NewTag, history
  <1>6. gen.current \in Mark /\ gen' \in [start : Mark, current : Mark]
    BY NextMark DEF NewTag, TypeInv, TypeOK
  <1>7. loaded[head.id] \in Nat
    BY <1>3 DEF TypeInv, TypeOK
  <1>8. /\ DOMAIN tagMap' = {loaded[head.id]} \cup DOMAIN tagMap
        /\ tagMap' \in [DOMAIN tagMap' -> Mark]
    BY <1>6, <1>7 DEF NewTag, Put, TypeInv, TypeOK
  <1>9. (\A u \in Threads : ThreadOK(u)') /\ LoadsApart'
    BY <1>1, <1>4, <1>5, <1>8, RunKept
  <1>10. TypeOK'
    BY <1>3, <1>5, <1>6, <1>7, <1>8 DEF TypeInv, TypeOK
  <1> QED  BY <1>5, <1>9, <1>10, ApartKept DEF TypeInv

LEMMA AssignTagType ==
    ASSUME TypeInv, NEW t \in Threads, AssignTag(t)
    PROVE  TypeInv'
  <1> DEFINE head == Head(pending[t])
             rest == Tail(pending[t])
  <1>1. Step(t, "assign", << >>) /\ << >> \in Seq(Code) /\ Range(<< >>) = {}
    BY DEF AssignTag, Range
  <1>2. Runs(t, "assign", << >>)
    BY <1>1, HeadRuns
  <1>3. /\ pending' \in [Threads -> Seq(Code)]
        /\ pending'[t] = << >> \o rest /\ rest \in Seq(Code) /\ Plain(rest)
        /\ head.op = "assign" /\ CodeOK(head) /\ loaded[head.id] \in DOMAIN tagMap
    BY <1>2 DEF Runs
  <1>4. Ready(pending'[t])
    BY <1>3, ConcatEmptySeq, PlainReady
  <1>5. UNCHANGED <<tagMap, gen, ima_tag_count, loaded, live, allocs, origin, stored, overlapped, early>>
    BY DEF AssignTag, history
  <1>6. Bytes(head.start, head.size) \subseteq Keys
    BY <1>3 DEF CodeOK, Keys
  <1>7. {tagMap[loaded[head.id]]} \subseteq Mark
    BY <1>3 DEF TypeInv, TypeOK
  <1>8. IsTaintMap(memTaintMap', Keys, Mark)
    BY <1>6, <1>7, PutType DEF AssignTag, TypeInv, TypeOK, Keys
  <1>9. (\A u \in Threads : ThreadOK(u)') /\ LoadsApart'
    BY <1>1, <1>4, <1>5, RunKept
  <1>10. TypeOK'
    BY <1>3, <1>5, <1>8 DEF TypeInv, TypeOK, Keys
  <1> QED  BY <1>5, <1>9, <1>10, ApartKept DEF TypeInv

\* The calls that come behind the store of a result.
StoreTags(code) == <<Tag("tag", code.id, code.cell, 1), Tag("tag", code.id, code.start, code.size)>>

LEMMA StoreRuns ==
    ASSUME TypeInv, NEW t \in Threads, StoreResult(t)
    PROVE  LET head == Head(pending[t])
               pointer == Tag("tag", head.id, head.cell, 1)
               block == Tag("tag", head.id, head.start, head.size)
           IN /\ Runs(t, "store", StoreTags(head)) /\ StoreTags(head) \in Seq(Code)
              /\ Range(StoreTags(head)) = {pointer, block}
              /\ pointer \in Code /\ pointer.op = "tag" /\ pointer.id = head.id
              /\ pointer.start = head.cell /\ pointer.size = 1
              /\ block \in Code /\ block.op = "tag" /\ block.id = head.id
              /\ block.start = head.start /\ block.size = head.size
              /\ head.cell \in Memory /\ head.id \in 1 .. allocs
              /\ head.op = "store" /\ CodeOK(head) /\ head \in Code
              /\ Ready(pending'[t])
  <1> DEFINE head == Head(pending[t])
             rest == Tail(pending[t])
             pointer == Tag("tag", head.id, head.cell, 1)
             block == Tag("tag", head.id, head.start, head.size)
             code == StoreTags(head)
  <1>1. Step(t, "store", code)
    BY DEF StoreResult, StoreTags
  <1>2. pending[t] \in Seq(Code) /\ pending[t] # << >> /\ head.op = "store"
    BY <1>1 DEF TypeInv, TypeOK, Step
  <1>3. head \in Code /\ CodeOK(head) /\ rest \in Seq(Code)
    BY <1>2, SequenceParts DEF TypeInv, ThreadOK
  <1>4. /\ head.id \in Nat /\ head.start \in Nat /\ head.size \in Nat /\ head.cell \in Nat
        /\ head.cell \in Memory /\ head.id \in 1 .. allocs
    BY <1>2, <1>3 DEF Code, CodeOK
  <1>5. /\ pointer \in Code /\ pointer.op = "tag" /\ pointer.id = head.id
        /\ pointer.start = head.cell /\ pointer.size = 1
        /\ block \in Code /\ block.op = "tag" /\ block.id = head.id
        /\ block.start = head.start /\ block.size = head.size
    <2> HIDE DEF head
    <2> QED  BY <1>4 DEF Code, Run, Tag, NULL
  <1>6. code = <<pointer, block>>
    BY DEF StoreTags
  <1> HIDE DEF head, rest, pointer, block, code
  <1>7. code \in Seq(Code) /\ Range(code) = {pointer, block} /\ Fronted(code \o rest, pointer, block, rest)
    BY <1>3, <1>5, <1>6, TwoFront
  <1>8. Runs(t, "store", code)
    BY <1>1, <1>7, HeadRuns
  <1>9. Ready(pending'[t])
    <2>1. pending'[t] = code \o rest /\ Plain(rest) /\ pending' \in [Threads -> Seq(Code)]
      BY <1>8 DEF Runs, rest
    <2>2. Tail(pending'[t]) \in Seq(Code)
      BY <1>7, <2>1, SequenceParts DEF Fronted
    <2>3. Range(Tail(pending'[t])) = {block} \cup Range(rest)
      <3> DEFINE tail == Tail(pending'[t])
      <3>1. tail \in Seq(Code) /\ tail # << >> /\ Head(tail) = block /\ Tail(tail) = rest
        BY <1>7, <2>1, <2>2 DEF Fronted
      <3> HIDE DEF tail
      <3>2. Range(tail) = {block} \cup Range(rest)
        BY <3>1, SequenceParts
      <3> QED  BY <3>2 DEF tail
    <2> QED  BY <1>5, <1>7, <2>1, <2>3 DEF Ready, Plain, Fronted
  <1> QED  BY <1>2, <1>3, <1>4, <1>5, <1>7, <1>8, <1>9 DEF head, rest, pointer, block, code

LEMMA StoreResultType ==
    ASSUME TypeInv, NEW t \in Threads, StoreResult(t)
    PROVE  TypeInv'
  <1> DEFINE head == Head(pending[t])
             rest == Tail(pending[t])
             pointer == Tag("tag", head.id, head.cell, 1)
             block == Tag("tag", head.id, head.start, head.size)
             code == StoreTags(head)
  <1>1. /\ Runs(t, "store", code) /\ code \in Seq(Code) /\ Range(code) = {pointer, block}
        /\ pointer \in Code /\ pointer.op = "tag" /\ pointer.id = head.id
        /\ pointer.start = head.cell /\ pointer.size = 1
        /\ block \in Code /\ block.op = "tag" /\ block.id = head.id
        /\ block.start = head.start /\ block.size = head.size
        /\ head.cell \in Memory /\ head.id \in 1 .. allocs
        /\ head.op = "store" /\ CodeOK(head)
        /\ Ready(pending'[t])
    BY StoreRuns
  <1>2. Step(t, "store", code)
    BY DEF StoreResult, StoreTags
  <1>3. UNCHANGED <<tagMap, gen, ima_tag_count, loaded, live, allocs, overlapped>>
    BY DEF StoreResult
  <1>4. IsTaintMap(memTaintMap', Keys, Mark)
    <2>1. PICK marks \in {{}} \cup {MarksOf(memTaintMap, a) : a \in Accessible} :
             memTaintMap' = Put(memTaintMap, {head.cell}, marks)
      BY DEF StoreResult
    <2>2. marks \subseteq Mark
      BY MarksType DEF TypeInv, TypeOK, Keys
    <2> QED  BY <1>1, <2>1, <2>2, PutType DEF TypeInv, TypeOK, Keys
  <1>5. /\ origin' \in [Memory -> SUBSET (1 .. allocs)] /\ stored' \subseteq Memory
        /\ early' \in BOOLEAN
    BY <1>1 DEF StoreResult, Uses, TypeInv, TypeOK
  <1>6. pending' \in [Threads -> Seq(Code)] /\ head.id \in DOMAIN loaded
    BY <1>1 DEF Runs
  <1> HIDE DEF head, rest, pointer, block, code
  <1>7. CodeOK(pointer) /\ CodeOK(block)
    <2>1. head.cell \in Nat
      BY <1>1, Addresses
    <2>2. Bytes(head.cell, 1) = {head.cell}
      BY <2>1, OneByte
    <2> QED  BY <1>1, <2>1, <2>2 DEF CodeOK
  <1>8. (\A u \in Threads : ThreadOK(u)') /\ LoadsApart'
    <2>1. \A k \in Range(code) : /\ CodeOK(k) /\ k.op = "tag" /\ k.id \in DOMAIN loaded
      BY <1>1, <1>6, <1>7
    <2> QED  BY <1>1, <1>2, <1>3, <2>1, RunKept
  <1>9. TypeOK'
    BY <1>3, <1>4, <1>5, <1>6 DEF TypeInv, TypeOK, Keys
  <1> QED  BY <1>3, <1>8, <1>9, ApartKept DEF TypeInv

------------------------------------------------------------------------------
(* The allocations: the code that follows them, and their blocks. *)

Following(q, S, x, rest) ==
    /\ q \in Seq(S) /\ q # << >> /\ Head(q) = x /\ Tail(q) \in Seq(S)
    /\ Range(Tail(q)) = rest /\ Range(q) = {x} \cup rest

LEMMA FrontFirst ==
    ASSUME NEW S, NEW x \in S, NEW one, one = <<x>>, NEW a \in Seq(S), NEW b \in Seq(S),
           NEW c \in Seq(S), NEW d \in Seq(S), NEW q, q = one \o a \o b \o c \o d
    PROVE  Following(q, S, x, Range(a) \cup Range(b) \cup Range(c) \cup Range(d))
  <1>1. one \in Seq(S)
    OBVIOUS
  <1> DEFINE ab == a \o b
             abc == ab \o c
             abcd == abc \o d
  <1>2. ab \in Seq(S) /\ abc \in Seq(S) /\ abcd \in Seq(S)
    BY ConcatProperties
  <1>3. Range(abcd) = Range(a) \cup Range(b) \cup Range(c) \cup Range(d)
    <2>1. Range(ab) = Range(a) \cup Range(b)
      BY RangeConcatenation
    <2> HIDE DEF ab
    <2>2. Range(abc) = Range(ab) \cup Range(c)
      BY <1>2, RangeConcatenation
    <2> HIDE DEF abc
    <2>3. Range(abcd) = Range(abc) \cup Range(d)
      BY <1>2, RangeConcatenation
    <2> QED  BY <2>1, <2>2, <2>3
  <1>4. (one \o a) \o b = one \o ab
    BY <1>1, ConcatAssociative
  <1> HIDE DEF ab
  <1>5. (one \o ab) \o c = one \o abc
    BY <1>1, <1>2, ConcatAssociative
  <1> HIDE DEF abc
  <1>6. (one \o abc) \o d = one \o abcd
    BY <1>1, <1>2, ConcatAssociative
  <1> HIDE DEF abcd
  <1>7. q = one \o abcd
    BY <1>4, <1>5, <1>6
  <1>8. /\ one \o abcd \in Seq(S) /\ one \o abcd # << >>
        /\ Head(one \o abcd) = x /\ Tail(one \o abcd) = abcd
        /\ Range(one \o abcd) = {x} \cup Range(abcd)
    BY <1>2, SequenceParts
  <1>9. q \in Seq(S) /\ q # << >> /\ Head(q) = x /\ Tail(q) = abcd
    BY <1>7, <1>8
  <1>10. Range(q) = {x} \cup Range(abcd)
    BY <1>7, <1>8
  <1> QED  BY <1>2, <1>3, <1>9, <1>10 DEF Following

\* The stores of a result.
StoreCode(stores, id, start, size) ==
    [i \in DOMAIN stores |-> [Tag("store", id, start, size) EXCEPT !.cell = stores[i]]]

StoresOK(code, stores, id, start, size) ==
    /\ code \in Seq(Code) /\ Range(code) # {}
    /\ \A k \in Range(code) :
          /\ k \in Code /\ k.op = "store" /\ k.id = id /\ k.start = start /\ k.size = size
          /\ k.cell \in Range(stores) /\ k.cell \in Memory

LEMMA StoreCodeType ==
    ASSUME NEW stores \in Stores, NEW id \in Nat, NEW start \in Nat, NEW size \in Nat
    PROVE  StoresOK(StoreCode(stores, id, start, size), stores, id, start, size)
  <1>1. stores \in Seq(Memory) /\ stores # << >>
    BY HeapAssumption
  <1>2. Range(stores) # {} /\ Range(stores) \subseteq Memory
    BY <1>1, SequenceParts
  <1>3. ASSUME NEW i \in DOMAIN stores
        PROVE  LET k == StoreCode(stores, id, start, size)[i] IN
               /\ k \in Code /\ k.op = "store" /\ k.id = id /\ k.start = start /\ k.size = size
               /\ k.cell = stores[i] /\ k.cell \in Memory
    <2>1. stores[i] \in Memory
      BY <1>1, <1>3
    <2>2. stores[i] \in Nat
      BY <2>1, Addresses
    <2> QED  BY <1>3, <2>1, <2>2 DEF StoreCode, Code, Run, Tag, NULL
  <1>4. StoreCode(stores, id, start, size) \in Seq(Code)
    BY <1>1, <1>3 DEF StoreCode
  <1>5. DOMAIN StoreCode(stores, id, start, size) = DOMAIN stores /\ DOMAIN stores # {}
    BY <1>2 DEF StoreCode, Range
  <1> QED  BY <1>3, <1>4, <1>5 DEF Range, StoresOK

\* The counter is stored, and nothing of the allocation comes behind that.
Ends(p) ==
    /\ (\E k \in Range(p) : k.id # 0) => \E k \in Range(p) : k.op = "count"
    /\ \A i, j \in DOMAIN p : i < j /\ p[i].op = "count" => p[j].id = 0

\* What is left of the code ends as the whole of it does, ...
LEMMA EndsTail ==
    ASSUME NEW p \in Seq(Code), p # << >>, Ends(p)
    PROVE  /\ Head(p).op # "count" => Ends(Tail(p))
           /\ Head(p).op = "count" => \A k \in Range(Tail(p)) : k.id = 0
  <1>1. Tail(p) \in Seq(Code) /\ Range(p) = {Head(p)} \cup Range(Tail(p))
    BY SequenceParts
  <1>2. \A i \in DOMAIN Tail(p) : i + 1 \in DOMAIN p /\ Tail(p)[i] = p[i + 1] /\ i \in Nat \ {0}
    OBVIOUS
  <1>3. 1 \in DOMAIN p /\ p[1] = Head(p)
    OBVIOUS
  <1>4. \A i, j \in DOMAIN Tail(p) : i < j /\ Tail(p)[i].op = "count" => Tail(p)[j].id = 0
    <2> SUFFICES ASSUME NEW i \in DOMAIN Tail(p), NEW j \in DOMAIN Tail(p), i < j,
                        Tail(p)[i].op = "count"
                 PROVE  Tail(p)[j].id = 0
      OBVIOUS
    <2>1. i + 1 < j + 1
      BY <1>2
    <2> QED  BY <1>2, <2>1 DEF Ends
  <1>5. Head(p).op = "count" => \A k \in Range(Tail(p)) : k.id = 0
    <2> SUFFICES ASSUME Head(p).op = "count", NEW i \in DOMAIN Tail(p) PROVE Tail(p)[i].id = 0
      BY DEF Range
    <2>1. 1 < i + 1
      BY <1>2
    <2> QED  BY <1>2, <1>3, <2>1 DEF Ends
  <1> QED  BY <1>1, <1>4, <1>5 DEF Ends

\* ... and code in front of it, or in front of other code than that of allocations.
LEMMA EndsFront ==
    ASSUME NEW p \in Seq(Code), NEW q \in Seq(Code), Ends(q),
           \/ \A k \in Range(p) : k.op # "count"
           \/ Ends(p) /\ \A k \in Range(q) : k.id = 0,
           (\E k \in Range(p) : k.id # 0) => \E k \in Range(p) \cup Range(q) : k.op = "count"
    PROVE  Ends(p \o q)
  <1> DEFINE r == p \o q
  <1>1. r \in Seq(Code) /\ Len(r) = Len(p) + Len(q) /\ Range(r) = Range(p) \cup Range(q)
    BY ConcatProperties, RangeConcatenation
  <1>2. /\ \A i \in 1 .. Len(p) : r[i] = p[i]
        /\ \A i \in 1 .. Len(q) : r[Len(p) + i] = q[i]
    BY ConcatProperties
  <1>3. /\ DOMAIN p = 1 .. Len(p) /\ DOMAIN q = 1 .. Len(q) /\ Len(p) \in Nat /\ Len(q) \in Nat
        /\ DOMAIN r = 1 .. Len(r)
    BY <1>1
  <1> HIDE DEF r
  <1>4. \A i \in DOMAIN r :
           \/ i \in DOMAIN p /\ r[i] = p[i] /\ r[i] \in Range(p)
           \/ i - Len(p) \in DOMAIN q /\ r[i] = q[i - Len(p)] /\ r[i] \in Range(q) /\ i > Len(p)
    <2> SUFFICES ASSUME NEW i \in DOMAIN r, i \notin DOMAIN p
                 PROVE  /\ i - Len(p) \in DOMAIN q /\ r[i] = q[i - Len(p)] /\ r[i] \in Range(q)
                        /\ i > Len(p)
      BY <1>2, <1>3 DEF Range
    <2>1. i \in Nat /\ i > Len(p) /\ i - Len(p) \in 1 .. Len(q) /\ i = Len(p) + (i - Len(p))
      BY <1>1, <1>3
    <2>2. r[i] = q[i - Len(p)]
      BY <1>2, <2>1
    <2> QED  BY <1>3, <2>1, <2>2 DEF Range
  <1>5. ASSUME NEW i \in DOMAIN r, NEW j \in DOMAIN r, i < j, r[i].op = "count"
        PROVE  r[j].id = 0
    <2>1. CASE i \in DOMAIN p /\ r[i] = p[i] /\ r[i] \in Range(p)
      <3>1. Ends(p) /\ \A k \in Range(q) : k.id = 0
        BY <1>5, <2>1
      <3> QED  BY <1>4, <1>5, <2>1, <3>1 DEF Ends
    <2>2. CASE i - Len(p) \in DOMAIN q /\ r[i] = q[i - Len(p)] /\ i > Len(p)
      <3>1. j - Len(p) \in DOMAIN q /\ r[j] = q[j - Len(p)]
        BY <1>3, <1>4, <1>5, <2>2
      <3>2. i - Len(p) < j - Len(p)
        BY <1>3, <1>5
      <3> QED  BY <1>5, <2>2, <3>1, <3>2 DEF Ends
    <2> QED  BY <1>4, <1>5, <2>1, <2>2
  <1>6. (\E k \in Range(r) : k.id # 0) => \E k \in Range(r) : k.op = "count"
    BY <1>1 DEF Ends
  <1> QED  BY <1>5, <1>6 DEF Ends, r

\* Thread t had nothing but plain code to run and gets that of an allocation in front.
Begun(t, stores, start, size, free) ==
    LET load == Run("load", allocs + 1)
        count == Run("count", allocs + 1)
        store == StoreCode(stores, allocs + 1, start, size)
    IN /\ allocs \in Nat /\ allocs' = allocs + 1 /\ allocs + 1 \in 0 .. MaxAllocs
       /\ pending \in [Threads -> Seq(Code)] /\ Plain(pending[t])
       /\ pending' \in [Threads -> Seq(Code)] /\ \A u \in Threads : u # t => pending'[u] = pending[u]
       /\ load \in Code /\ load.op = "load" /\ load.id = allocs + 1 /\ load.size = 0
       /\ count \in Code /\ count.op = "count" /\ count.id = allocs + 1 /\ count.size = 0
       /\ Head(pending'[t]) = load /\ pending'[t] # << >>
       /\ Range(Tail(pending'[t])) = Range(free) \cup Range(store) \cup {count} \cup Range(pending[t])
       /\ Range(pending'[t]) = {load} \cup Range(Tail(pending'[t]))
       /\ Range(store) # {}
       /\ \A k \in Range(store) :
             /\ k \in Code /\ k.op = "store" /\ k.id = allocs + 1 /\ k.start = start /\ k.size = size
             /\ k.cell \in Range(stores) /\ k.cell \in Memory
       /\ overlapped' = (overlapped \/ \E code \in Pending : code.id # 0)
       /\ origin' = [a \in Memory |-> IF a \in Bytes(start, size) THEN {allocs + 1} ELSE origin[a]]
       /\ stored' = stored \ Bytes(start, size)
       /\ Range(stores) \subseteq Accessible
       /\ (\A k \in Range(free) : k.op # "count") /\ (\A k \in Range(pending[t]) : k.id = 0) =>
             Ends(pending'[t])
       /\ UNCHANGED <<tagMap, gen, ima_tag_count, loaded>>

LEMMA AllocationBegins ==
    ASSUME TypeInv, NEW t \in Threads, NEW stores \in Stores, NEW start \in Heap \cup {NULL},
           NEW size \in Sizes, NEW free \in Seq(Code), Allocation(t, stores, start, size, free)
    PROVE  Begun(t, stores, start, size, free)
  <1> DEFINE load == Run("load", allocs + 1)
             count == Run("count", allocs + 1)
             store == StoreCode(stores, allocs + 1, start, size)
             p == pending[t]
             one == <<load>>
             c == <<count>>
             q == one \o free \o store \o c \o p
  <1>1. /\ allocs \in Nat /\ allocs' = allocs + 1 /\ allocs + 1 \in 0 .. MaxAllocs
        /\ pending \in [Threads -> Seq(Code)] /\ ThreadOK(t)
    BY HeapAssumption DEF TypeInv, TypeOK, Allocation
  <1>2. start \in Nat /\ size \in Nat
    BY Addresses
  <1>3. /\ load \in Code /\ load.op = "load" /\ load.id = allocs + 1 /\ load.size = 0
        /\ count \in Code /\ count.op = "count" /\ count.id = allocs + 1 /\ count.size = 0
    BY <1>1 DEF Code, Run, NULL
  <1>4. /\ store \in Seq(Code) /\ Range(store) # {}
        /\ \A k \in Range(store) :
              /\ k \in Code /\ k.op = "store" /\ k.id = allocs + 1 /\ k.start = start /\ k.size = size
              /\ k.cell \in Range(stores) /\ k.cell \in Memory
    <2> DEFINE id == allocs + 1
    <2>1. id \in Nat
      BY <1>1
    <2> HIDE DEF id
    <2>2. StoresOK(StoreCode(stores, id, start, size), stores, id, start, size)
      BY <1>2, <2>1, StoreCodeType
    <2> QED  BY <2>2 DEF id, StoresOK
  <1>5. p \in Seq(Code) /\ Plain(p)
    BY <1>1, PlainReady DEF Allocation, Running, ThreadOK
  <1>6. pending' = [pending EXCEPT ![t] = q]
    BY <1>1 DEF Allocation, StoreCode
  <1>7. /\ overlapped' = (overlapped \/ \E code \in Pending : code.id # 0)
        /\ origin' = [a \in Memory |-> IF a \in Bytes(start, size) THEN {allocs + 1} ELSE origin[a]]
        /\ stored' = stored \ Bytes(start, size)
        /\ Range(stores) \subseteq Accessible
        /\ UNCHANGED <<tagMap, gen, ima_tag_count, loaded>>
    BY DEF Allocation, Range
  <1> HIDE DEF load, count, store, p
  <1>8. c \in Seq(Code) /\ Range(c) = {count} /\ one = <<load>>
    <2>1. c \in Seq(Code)
      BY <1>3
    <2>2. Range(c) = {count}
      BY DEF Range
    <2> QED  BY <2>1, <2>2
  <1> HIDE DEF one, c
  <1>9. Following(q, Code, load, Range(free) \cup Range(store) \cup Range(c) \cup Range(p))
    BY <1>3, <1>4, <1>5, <1>8, FrontFirst
  <1> DEFINE front == one \o free \o store
  <1>10. ASSUME \A k \in Range(free) : k.op # "count", \A k \in Range(p) : k.id = 0
         PROVE  Ends(q)
    <2>1. /\ front \in Seq(Code)
          /\ Range(front) = {load} \cup Range(free) \cup Range(store)
      <3> DEFINE lf == one \o free
      <3>1. one \in Seq(Code)
        BY <1>3, <1>8
      <3>2. Range(one) = {load}
        BY <1>8 DEF Range
      <3>3. lf \in Seq(Code) /\ Range(lf) = Range(one) \cup Range(free)
        BY <3>1, ConcatProperties, RangeConcatenation
      <3>4. front = lf \o store
        OBVIOUS
      <3> HIDE DEF lf, front
      <3>5. front \in Seq(Code) /\ Range(front) = Range(lf) \cup Range(store)
        BY <1>4, <3>3, <3>4, ConcatProperties, RangeConcatenation
      <3> QED  BY <3>3, <3>2, <3>5
    <2>2. q = (front \o c) \o p
      OBVIOUS
    <2> HIDE DEF front, q
    <2>3. Ends(c)
      <3>1. Len(c) = 1 /\ \A i, j \in DOMAIN c : ~(i < j)
        BY DEF c
      <3> QED  BY <1>3, <1>8, <3>1 DEF Ends
    <2>4. Ends(front \o c) /\ front \o c \in Seq(Code) /\ count \in Range(front \o c)
      <3>1. \A k \in Range(front) : k.op # "count"
        BY <1>3, <1>4, <1>10, <2>1
      <3>2. \E k \in Range(front) \cup Range(c) : k.op = "count"
        BY <1>3, <1>8
      <3>3. Ends(front \o c)
        BY <1>8, <2>1, <2>3, <3>1, <3>2, EndsFront
      <3> QED  BY <1>8, <2>1, <3>3, ConcatProperties, RangeConcatenation
    <2>5. Ends(p)
      <3>1. \A i \in DOMAIN p : p[i].id = 0
        BY <1>10 DEF Range
      <3> QED  BY <1>10, <3>1 DEF Ends
    <2> DEFINE fc == front \o c
    <2>6. Ends(fc) /\ fc \in Seq(Code) /\ count \in Range(fc) /\ q = fc \o p
      BY <2>2, <2>4
    <2> HIDE DEF fc
    <2>7. \E k \in Range(fc) \cup Range(p) : k.op = "count"
      BY <1>3, <2>6
    <2>8. Ends(fc \o p)
      BY <1>5, <1>10, <2>5, <2>6, <2>7, EndsFront
    <2> QED  BY <2>6, <2>8
  <1> HIDE DEF q
  <1>11. /\ pending' \in [Threads -> Seq(Code)] /\ pending'[t] = q
         /\ \A u \in Threads : u # t => pending'[u] = pending[u]
    BY <1>1, <1>6, <1>9 DEF Following
  <1> QED  BY <1>1, <1>3, <1>4, <1>5, <1>7, <1>8, <1>9, <1>11, <1>10
           DEF Begun, Following, load, count, store, p

\* The code of all threads is in order when an allocation has begun.
LEMMA BegunOrder ==
    ASSUME TypeInv, NEW t \in Threads, NEW stores \in Stores, NEW start \in Heap \cup {NULL},
           NEW size \in Sizes, NEW free \in Seq(Code), Begun(t, stores, start, size, free),
           start # NULL => Bytes(start, size) \subseteq Memory,
           \A k \in Range(free) : k.op = "free" /\ CodeOK(k)
    PROVE  (\A u \in Threads : ThreadOK(u)') /\ LoadsApart'
  <1> DEFINE load == Run("load", allocs + 1)
             count == Run("count", allocs + 1)
             store == StoreCode(stores, allocs + 1, start, size)
             id == allocs + 1
  <1>1. /\ allocs \in Nat /\ allocs' = allocs + 1
        /\ pending \in [Threads -> Seq(Code)] /\ Plain(pending[t])
        /\ pending' \in [Threads -> Seq(Code)] /\ \A u \in Threads : u # t => pending'[u] = pending[u]
        /\ Head(pending'[t]) = load /\ pending'[t] # << >>
        /\ Range(Tail(pending'[t])) = Range(free) \cup Range(store) \cup {count} \cup Range(pending[t])
        /\ Range(pending'[t]) = {load} \cup Range(Tail(pending'[t]))
        /\ UNCHANGED <<tagMap, loaded>>
    BY DEF Begun
  <1>2. /\ load.op = "load" /\ load.id = id /\ load.size = 0
        /\ count.op = "count" /\ count.id = id /\ count.size = 0
        /\ \A k \in Range(store) :
              /\ k.op = "store" /\ k.id = id /\ k.start = start /\ k.size = size
              /\ k.cell \in Memory
    BY DEF Begun
  <1> HIDE DEF load, count, store
  <1>3. \A k : CodeOK(k) => CodeOK(k)'
    BY <1>1 DEF CodeOK
  <1>4. \A k \in {load, count} \cup Range(store) : CodeOK(k)'
    <2>1. id \in 1 .. allocs'
      BY <1>1
    <2>2. /\ start = NULL \/ (start \in Memory /\ Bytes(start, size) \subseteq Memory)
          /\ size \in Nat \ {0}
      BY Addresses
    <2> HIDE DEF id
    <2>3. ASSUME NEW k \in {load, count} PROVE CodeOK(k)'
      BY <1>2, <2>1, <2>3 DEF CodeOK
    <2>4. ASSUME NEW k \in Range(store) PROVE CodeOK(k)'
      BY <1>2, <2>1, <2>2, <2>4 DEF CodeOK
    <2> QED  BY <2>3, <2>4
  <1>5. \A k \in Range(pending[t]) :
           /\ CodeOK(k)' /\ k.op \notin {"load", "new", "assign"}
           /\ k.op # "free" => k.id \in DOMAIN loaded
    <2> SUFFICES ASSUME NEW k \in Range(pending[t])
                 PROVE  /\ CodeOK(k)' /\ k.op \notin {"load", "new", "assign"}
                        /\ k.op # "free" => k.id \in DOMAIN loaded
      OBVIOUS
    <2>1. ThreadOK(t) /\ CodeOK(k)' /\ k.op \notin {"load", "new", "assign"}
      BY <1>1, <1>3 DEF TypeInv, ThreadOK, Plain
    <2>2. pending[t] \in Seq(Code)
      BY <1>1
    <2>3. Head(pending[t]) \in Range(pending[t])
      BY <2>2, SequenceParts
    <2>4. Head(pending[t]).op # "load"
      BY <1>1, <2>3 DEF Plain
    <2> QED  BY <2>1, <2>4 DEF ThreadOK
  <1>6. id \notin DOMAIN loaded
    BY <1>1 DEF TypeInv, TypeOK
  <1>7. Ready(pending'[t])
    <2>1. Plain(Tail(pending'[t]))
      BY <1>1, <1>2, <1>5 DEF Plain
    <2> QED  BY <1>1, <1>2, <2>1 DEF Ready
  <1>8. ThreadOK(t)'
    <2>1. \A k \in Range(pending'[t]) :
             /\ CodeOK(k)' /\ k.op # "assign"
             /\ k.op \notin {"load", "free"} => k.id \in DOMAIN loaded \/ k.id = id
             /\ k.op = "load" => k.id = id
      <3> HIDE DEF id
      <3>1. ASSUME NEW k \in Range(free)
            PROVE  CodeOK(k)' /\ k.op = "free"
        BY <1>3, <3>1
      <3>2. Range(pending'[t]) = {load, count} \cup Range(free) \cup Range(store) \cup Range(pending[t])
        BY <1>1
      <3> QED  BY <1>2, <1>4, <1>5, <3>1, <3>2
    <2> QED  BY <1>1, <1>2, <1>6, <1>7, <2>1 DEF ThreadOK
  <1>9. \A u \in Threads : u # t => \A k \in Range(pending[u]) :
           k.op = "load" => k.id \notin DOMAIN loaded' /\ k.id # id
    BY <1>1 DEF TypeInv, ThreadOK, CodeOK
  <1>10. LoadsApart'
    <2>1. \A k \in Range(pending'[t]) : k.op = "load" => k.id = id
      BY <1>1, <1>2, <1>5
    <2> QED  BY <1>1, <1>9, <2>1 DEF TypeInv, LoadsApart
  <1>11. \A u \in Threads : u # t => ThreadOK(u)'
    <2>1. allocs' \in Nat /\ allocs <= allocs'
      BY <1>1
    <2>2. /\ DOMAIN loaded \subseteq DOMAIN loaded' /\ \A i \in DOMAIN loaded : loaded'[i] = loaded[i]
          /\ DOMAIN tagMap \subseteq DOMAIN tagMap'
      BY <1>1
    <2> QED  BY <1>1, <1>9, <2>1, <2>2, OthersKept
  <1> QED  BY <1>8, <1>10, <1>11

\* Where a block is put there is room for it between the others.
LEMMA NewBlock ==
    ASSUME TypeInv, NEW size \in Sizes, NEW start \in Places(size, Used)
    PROVE  /\ start \in Heap /\ start \notin DOMAIN live
           /\ Bytes(start - 1, size + 1) \subseteq Heap
           /\ Bytes(start, size) \subseteq Heap /\ start - 1 \in Heap \ Bytes(start, size)
           /\ \A b \in DOMAIN live : b + live[b] < start \/ start + size < b
  <1>1. start \in Heap /\ start \in Nat \ {0} /\ size \in Nat \ {0}
    BY Addresses DEF Places, NULL
  <1>2. Bytes(start - 1, size + 1) \subseteq Heap /\ Bytes(start - 1, size + 1) \cap Used = {}
    BY DEF Places
  <1>3. ASSUME NEW b \in DOMAIN live PROVE b + live[b] < start \/ start + size < b
    <2>1. b \in Nat /\ live[b] \in Nat \ {0}
      BY Addresses DEF TypeInv, TypeOK
    <2>2. \A a \in (b - 1) .. (b + live[b] - 1) : a \in Used
      BY <2>1 DEF Used, Block, Bytes
    <2>3. \A a \in (start - 1) .. (start + size - 1) : a \notin Used
      BY <1>1, <1>2 DEF Bytes
    <2>4. b - 1 \in Used /\ start - 1 \notin Used
      BY <1>1, <2>1, <2>2, <2>3
    <2> QED  BY <1>1, <2>1, <2>2, <2>3, <2>4
  <1>4. \A b \in DOMAIN live : live[b] \in Nat
    BY Addresses DEF TypeInv, TypeOK
  <1>5. start \notin DOMAIN live
    BY <1>1, <1>3, <1>4
  <1>6. Bytes(start, size) \subseteq Heap /\ start - 1 \in Heap \ Bytes(start, size)
    BY <1>1, <1>2 DEF Bytes
  <1> QED  BY <1>1, <1>2, <1>3, <1>5, <1>6

\* The block at start comes to be, and those at gone are no more.
Placed(start, size, gone) ==
    /\ start \in Heap /\ size \in Sizes /\ Bytes(start, size) \subseteq Heap
    /\ DOMAIN live' = (DOMAIN live \ gone) \cup {start}
    /\ live' \in [DOMAIN live' -> Sizes]
    /\ live'[start] = size
    /\ \A b \in DOMAIN live \ gone :
          b # start /\ live'[b] = live[b] /\ (b + live[b] < start \/ start + size < b)

\* Entries are added; outside the new block, bytes of the heap may lose marks.
MemoryKept(start, size) ==
    /\ IsTaintMap(memTaintMap', Keys, Mark)
    /\ DOMAIN memTaintMap \subseteq DOMAIN memTaintMap'
    /\ \A a \in Variables : MarksOf(memTaintMap', a) = MarksOf(memTaintMap, a)
    /\ \A a \in Heap \ Bytes(start, size) :
          MarksOf(memTaintMap', a) \in {{}, MarksOf(memTaintMap, a)}

\* An allocation that succeeds or fails.
AllocationStep(t) ==
    \E stores \in Stores, size \in Sizes, start \in Heap \cup {NULL}, free \in Seq(Code),
       gone \in SUBSET DOMAIN live :
       /\ Begun(t, stores, start, size, free)
       /\ \A k \in Range(free) : k.op = "free" /\ CodeOK(k)
       /\ \A b \in gone : \E k \in Range(free) : k.start = b
       /\ \A b \in gone : /\ Block(b) \cap (Wanted \cup Range(stores)) = {}
                          /\ ~early' => Block(b) \cap Untagged = {}
       /\ early' \in BOOLEAN /\ (early => early')
       /\ \/ start = NULL /\ gone = {} /\ UNCHANGED <<memTaintMap, live>>
          \/ start \in Heap /\ Placed(start, size, gone) /\ MemoryKept(start, size)

LEMMA PutPlaced ==
    ASSUME TypeInv, NEW size \in Sizes, NEW start \in Places(size, Used), NEW gone,
           live' = Put(Erase(live, gone), {start}, size)
    PROVE  Placed(start, size, gone)
  <1>1. /\ start \in Heap /\ start \notin DOMAIN live /\ Bytes(start, size) \subseteq Heap
        /\ \A b \in DOMAIN live : b + live[b] < start \/ start + size < b
    BY NewBlock
  <1> QED  BY <1>1 DEF Placed, Put, Erase, TypeInv, TypeOK

LEMMA AllocateSteps ==
    ASSUME TypeInv, NEW t \in Threads, NEW stores \in Stores, NEW size \in Sizes,
           NEW zeroed \in BOOLEAN, Allocate(t, stores, size, zeroed)
    PROVE  AllocationStep(t)
  <1>1. PICK start \in Places(size, Used) \cup {NULL} :
          /\ Allocation(t, stores, start, size, << >>)
          /\ IF start = NULL THEN UNCHANGED <<memTaintMap, live>>
             ELSE /\ live' = Put(live, {start}, size)
                  /\ memTaintMap' = Put(memTaintMap,
                                        Bytes(start - 1, IF zeroed THEN size + 1 ELSE 1), {})
          /\ UNCHANGED early
    BY DEF Allocate
  <1>2. start \in Heap \cup {NULL}
    BY <1>1 DEF Places
  <1>3. << >> \in Seq(Code) /\ Range(<< >>) = {} /\ early' \in BOOLEAN
    BY <1>1 DEF Range, TypeInv, TypeOK
  <1>4. Begun(t, stores, start, size, << >>)
    BY <1>1, <1>2, <1>3, AllocationBegins
  <1>5. {} \in SUBSET DOMAIN live
    OBVIOUS
  <1>6. CASE start = NULL
    BY <1>1, <1>2, <1>3, <1>4, <1>5, <1>6 DEF AllocationStep
  <1>7. CASE start # NULL
    <2> DEFINE cleared == Bytes(start - 1, IF zeroed THEN size + 1 ELSE 1)
    <2>1. start \in Places(size, Used)
      BY <1>1, <1>7
    <2>2. Erase(live, {}) = live
      BY DEF Erase, TypeInv, TypeOK
    <2>3. Placed(start, size, {})
      BY <1>1, <1>7, <2>1, <2>2, PutPlaced
    <2>4. start \in Nat \ {0} /\ size \in Nat \ {0} /\ Bytes(start - 1, size + 1) \subseteq Heap
      BY <2>1, NewBlock, Addresses DEF NULL
    <2>5. cleared \subseteq Heap
      BY <2>4 DEF Bytes
    <2>6. memTaintMap' = Put(memTaintMap, cleared, {})
      BY <1>1, <1>7
    <2> HIDE DEF cleared
    <2>7. /\ DOMAIN memTaintMap' = cleared \cup DOMAIN memTaintMap
          /\ \A a : MarksOf(memTaintMap', a) = IF a \in cleared THEN {} ELSE MarksOf(memTaintMap, a)
      BY <2>6 DEF Put, MarksOf
    <2>8. cleared \in SUBSET Keys /\ {} \in SUBSET Mark /\ cleared \cap Variables = {}
      BY <2>5, Addresses, HeapAssumption DEF Keys
    <2>9. IsTaintMap(memTaintMap', Keys, Mark)
      BY <2>6, <2>8, PutType DEF TypeInv, TypeOK, Keys
    <2>10. MemoryKept(start, size)
      BY <2>7, <2>8, <2>9 DEF MemoryKept
    <2>11. start \in Heap
      BY <1>2, <1>7
    <2> QED  BY <1>1, <1>3, <1>4, <1>5, <2>3, <2>10, <2>11 DEF AllocationStep
  <1> QED  BY <1>6, <1>7

\* What is copied into a block that moves are marks of the heap.
LEMMA MovedKeeps ==
    ASSUME TypeInv, NEW old \in DOMAIN live \cup {NULL}, NEW size \in Sizes,
           NEW start \in Places(size, Used), memTaintMap' = Moved(old, start, size)
    PROVE  MemoryKept(start, size)
  <1> DEFINE copied == {a \in Bytes(start, size) : /\ old + (a - start) \in BlockOf(old)
                                                   /\ old + (a - start) \in DOMAIN memTaintMap}
  <1>1. /\ Bytes(start, size) \subseteq Heap /\ start - 1 \in Heap \ Bytes(start, size)
    BY NewBlock
  <1>2. memTaintMap' = [a \in DOMAIN memTaintMap \cup copied \cup {start - 1} |->
                          CASE a \in copied -> memTaintMap[old + (a - start)]
                            [] a = start - 1 -> {}
                            [] OTHER -> memTaintMap[a]]
    BY DEF Moved
  <1>3. \A a \in copied : a \in Bytes(start, size) /\ old + (a - start) \in DOMAIN memTaintMap
    OBVIOUS
  <1> HIDE DEF copied
  <1>4. IsTaintMap(memTaintMap', Keys, Mark)
    <2>1. /\ \A a \in DOMAIN memTaintMap : memTaintMap[a] \in SUBSET Mark
          /\ DOMAIN memTaintMap \subseteq Keys
      BY DEF TypeInv, TypeOK, IsTaintMap, Keys
    <2>2. DOMAIN memTaintMap' \subseteq Keys
      BY <1>1, <1>2, <1>3, <2>1, Addresses DEF Keys
    <2>3. \A a \in DOMAIN memTaintMap' : memTaintMap'[a] \in SUBSET Mark
      BY <1>2, <1>3, <2>1
    <2> QED  BY <1>2, <2>2, <2>3 DEF IsTaintMap
  <1>5. \A a \in Variables : a \notin copied /\ a # start - 1
    BY <1>1, <1>3, HeapAssumption
  <1>6. \A a \in Variables : MarksOf(memTaintMap', a) = MarksOf(memTaintMap, a)
    BY <1>2, <1>5 DEF MarksOf
  <1>7. \A a \in Heap \ Bytes(start, size) : MarksOf(memTaintMap', a) \in {{}, MarksOf(memTaintMap, a)}
    BY <1>2, <1>3 DEF MarksOf
  <1> QED  BY <1>2, <1>4, <1>6, <1>7 DEF MemoryKept

\* The clear that is inserted for a block.
LEMMA FreeTagsCode ==
    ASSUME NEW old \in Heap \cup {NULL}
    PROVE  /\ FreeTags(old) \in Seq(Code)
           /\ Range(FreeTags(old)) = {Tag("free", 0, old, 0)}
           /\ Tag("free", 0, old, 0) \in Code /\ Tag("free", 0, old, 0).op = "free"
           /\ Tag("free", 0, old, 0).start = old /\ Tag("free", 0, old, 0).id = 0
           /\ Tag("free", 0, old, 0).size = 0
           /\ CodeOK(Tag("free", 0, old, 0))
  <1> DEFINE clear == Tag("free", 0, old, 0)
  <1>1. old \in Nat
    BY Addresses
  <1>2. clear \in Code /\ clear.op = "free" /\ clear.start = old /\ clear.id = 0 /\ clear.size = 0
    BY <1>1 DEF Code, Run, Tag, NULL
  <1>3. FreeTags(old) = <<clear>>
    BY DEF FreeTags
  <1> HIDE DEF clear
  <1>4. FreeTags(old) \in Seq(Code)
    BY <1>2, <1>3
  <1>5. Range(FreeTags(old)) = {clear}
    BY <1>3 DEF Range
  <1>6. CodeOK(clear)
    BY <1>2 DEF CodeOK
  <1> QED  BY <1>2, <1>4, <1>5, <1>6 DEF clear

LEMMA ReallocSteps ==
    ASSUME TypeInv, NEW t \in Threads, NEW old, NEW stores \in Stores,
           NEW size \in Sizes, Realloc(t, old, stores, size)
    PROVE  AllocationStep(t)
  <1> DEFINE free == FreeTags(old)
  <1>1. old \in Given(stores) /\ Uses(BlockOf(old))
    BY DEF Realloc
  <1>2. /\ old \in DOMAIN live \cup {NULL} /\ old \in Heap \cup {NULL}
        /\ old # NULL => Block(old) \cap (Wanted \cup Range(stores)) = {}
    BY <1>1 DEF Given, Range, TypeInv, TypeOK
  <1>3. /\ early' \in BOOLEAN /\ (early => early')
        /\ old # NULL => (~early' => Block(old) \cap Untagged = {})
    BY <1>1 DEF Uses, BlockOf, TypeInv, TypeOK
  <1>4. /\ free \in Seq(Code)
        /\ \A k \in Range(free) : k.op = "free" /\ CodeOK(k)
        /\ \E k \in Range(free) : k.start = old
    BY <1>2, FreeTagsCode
  <1> HIDE DEF free
  <1>5. CASE Allocation(t, stores, NULL, size, free) /\ UNCHANGED <<memTaintMap, live>>
    <2>1. Begun(t, stores, NULL, size, free)
      BY <1>4, <1>5, AllocationBegins
    <2>2. {} \in SUBSET DOMAIN live
      OBVIOUS
    <2> QED  BY <1>3, <1>4, <1>5, <2>1, <2>2 DEF AllocationStep
  <1>6. CASE /\ old # NULL
             /\ Bytes(old, size) \subseteq Heap \ (Used \ Block(old))
             /\ Allocation(t, stores, old, size, free)
             /\ live' = [live EXCEPT ![old] = size]
             /\ UNCHANGED memTaintMap
    <2>1. old \in DOMAIN live /\ old \in Heap
      BY <1>2, <1>6
    <2>2. old \in Nat /\ size \in Nat \ {0} /\ live[old] \in Nat \ {0}
      BY <2>1, Addresses DEF TypeInv, TypeOK
    <2>3. ASSUME NEW b \in DOMAIN live \ {old}
          PROVE  b + live[b] < old \/ old + size < b
      <3>1. b \in Nat /\ live[b] \in Nat \ {0}
        BY Addresses DEF TypeInv, TypeOK
      <3>2. b < old => b + live[b] < old
        BY <2>1 DEF TypeInv, Apart
      <3>3. old < b => old + live[old] < b
        BY <2>1 DEF TypeInv, Apart
      <3>4. b - 1 \in Used
        BY DEF Used
      <3>5. old < b => b - 1 \notin Block(old)
        BY <2>2, <3>1, <3>3 DEF Block, Bytes
      <3>6. old < b => b - 1 \notin old .. (old + size - 1)
        BY <1>6, <3>4, <3>5 DEF Bytes
      <3> QED  BY <2>2, <3>1, <3>2, <3>6
    <2>4. Placed(old, size, {old})
      BY <1>6, <2>1, <2>3 DEF Placed, TypeInv, TypeOK
    <2>5. MemoryKept(old, size)
      BY <1>6 DEF MemoryKept, TypeInv, TypeOK, Keys
    <2>6. Begun(t, stores, old, size, free)
      BY <1>4, <1>6, <2>1, AllocationBegins
    <2>7. {old} \in SUBSET DOMAIN live
      BY <2>1
    <2> QED  BY <1>2, <1>3, <1>4, <1>6, <2>1, <2>4, <2>5, <2>6, <2>7 DEF AllocationStep
  <1>7. ASSUME NEW start \in Places(size, Used),
               Allocation(t, stores, start, size, free),
               live' = Put(Erase(live, {old}), {start}, size),
               memTaintMap' = Moved(old, start, size)
        PROVE  AllocationStep(t)
    <2> DEFINE gone == {old} \cap DOMAIN live
    <2>1. start \in Heap
      BY DEF Places
    <2>2. Begun(t, stores, start, size, free)
      BY <1>4, <1>7, <2>1, AllocationBegins
    <2>3. Erase(live, {old}) = Erase(live, gone)
      BY DEF Erase
    <2>4. Placed(start, size, gone)
      BY <1>7, <2>3, PutPlaced
    <2>5. MemoryKept(start, size)
      BY <1>2, <1>7, MovedKeeps
    <2>6. \A b \in gone : b = old /\ old # NULL
      BY Addresses DEF TypeInv, TypeOK
    <2>7. gone \in SUBSET DOMAIN live
      OBVIOUS
    <2> HIDE DEF gone
    <2> QED  BY <1>2, <1>3, <1>4, <2>1, <2>2, <2>4, <2>5, <2>6, <2>7 DEF AllocationStep
  <1> QED  BY <1>5, <1>6, <1>7 DEF Realloc, free

LEMMA AllocationType ==
    ASSUME TypeInv, NEW t \in Threads, AllocationStep(t)
    PROVE  TypeInv'
  <1>1. PICK stores \in Stores, size \in Sizes, start \in Heap \cup {NULL}, free \in Seq(Code),
             gone \in SUBSET DOMAIN live :
          /\ Begun(t, stores, start, size, free)
          /\ \A k \in Range(free) : k.op = "free" /\ CodeOK(k)
          /\ early' \in BOOLEAN
          /\ \/ start = NULL /\ UNCHANGED <<memTaintMap, live>>
             \/ start \in Heap /\ Placed(start, size, gone) /\ MemoryKept(start, size)
    BY DEF AllocationStep
  <1>2. start # NULL => Bytes(start, size) \subseteq Memory
    BY <1>1, Addresses DEF Placed
  <1>3. (\A u \in Threads : ThreadOK(u)') /\ LoadsApart'
    BY <1>1, <1>2, BegunOrder
  <1>4. /\ allocs \in Nat /\ allocs' = allocs + 1 /\ allocs' \in 0 .. MaxAllocs
        /\ pending' \in [Threads -> Seq(Code)]
        /\ overlapped' = (overlapped \/ \E code \in Pending : code.id # 0)
        /\ origin' = [a \in Memory |-> IF a \in Bytes(start, size) THEN {allocs + 1} ELSE origin[a]]
        /\ stored' = stored \ Bytes(start, size)
        /\ UNCHANGED <<tagMap, gen, ima_tag_count, loaded>>
    BY <1>1 DEF Begun
  <1>5. origin' \in [Memory -> SUBSET (1 .. allocs')]
    <2>1. 1 .. allocs \subseteq 1 .. allocs' /\ allocs + 1 \in 1 .. allocs'
      BY <1>4
    <2>2. \A a \in Memory : origin[a] \subseteq 1 .. allocs
      BY DEF TypeInv, TypeOK
    <2> QED  BY <1>4, <2>1, <2>2
  <1>6. IsTaintMap(memTaintMap', Keys, Mark)
    BY <1>1 DEF MemoryKept, TypeInv, TypeOK, Keys
  <1>7. DOMAIN live' \subseteq Heap /\ live' \in [DOMAIN live' -> Sizes]
    BY <1>1 DEF Placed, TypeInv, TypeOK
  <1>8. TypeOK'
    <2>1. DOMAIN loaded' \subseteq 1 .. allocs'
      BY <1>4 DEF TypeInv, TypeOK
    <2> QED  BY <1>1, <1>4, <1>5, <1>6, <1>7, <2>1 DEF TypeInv, TypeOK, Keys
  <1>9. Apart'
    <2>1. CASE UNCHANGED live
      BY <2>1, ApartKept DEF TypeInv
    <2>2. CASE start \in Heap /\ Placed(start, size, gone)
      <3> SUFFICES ASSUME NEW b \in DOMAIN live', NEW c \in DOMAIN live'
                   PROVE  /\ Bytes(b, live'[b]) \subseteq Heap
                          /\ b < c => b + live'[b] < c
        BY DEF Apart, Block
      <3>1. /\ b = start \/ b \in DOMAIN live \ gone
            /\ c = start \/ c \in DOMAIN live \ gone
            /\ Bytes(start, size) \subseteq Heap /\ live'[start] = size
        BY <2>2 DEF Placed
      <3>2. \A d \in DOMAIN live \ gone :
               /\ live'[d] = live[d] /\ (d + live[d] < start \/ start + size < d)
               /\ d \in Nat /\ live[d] \in Nat
        BY <2>2, Addresses DEF Placed, TypeInv, TypeOK
      <3>3. start \in Nat /\ size \in Nat
        BY Addresses
      <3>4. Bytes(b, live'[b]) \subseteq Heap
        BY <3>1, <3>2 DEF TypeInv, Apart, Block
      <3>5. b < c => b + live'[b] < c
        <4>1. b # start /\ c # start => (b < c => b + live[b] < c)
          BY <3>1 DEF TypeInv, Apart
        <4> QED  BY <3>1, <3>2, <3>3, <4>1
      <3> QED  BY <3>4, <3>5
    <2> QED  BY <1>1, <2>1, <2>2
  <1> QED  BY <1>3, <1>8, <1>9 DEF TypeInv

\* What free does, to the block and to the code of the thread.
Freed(t, old) ==
    LET clear == Tag("free", 0, old, 0) IN
    /\ old \in Heap \cup {NULL}
    /\ pending' \in [Threads -> Seq(Code)] /\ \A u \in Threads : u # t => pending'[u] = pending[u]
    /\ Plain(pending[t]) /\ pending[t] \in Seq(Code)
    /\ pending'[t] = FreeTags(old) \o pending[t] /\ Head(pending'[t]) = clear
    /\ Tail(pending'[t]) = pending[t] /\ Range(pending'[t]) = {clear} \cup Range(pending[t])
    /\ clear \in Code /\ clear.op = "free" /\ clear.start = old /\ clear.id = 0 /\ clear.size = 0
    /\ CodeOK(clear)
    /\ live' = Erase(live, {old})
    /\ old # NULL => old \in DOMAIN live /\ Block(old) \cap Wanted = {}
    /\ early' \in BOOLEAN /\ (early => early')
    /\ old # NULL /\ ~early' => Block(old) \cap Untagged = {}
    /\ UNCHANGED <<memTaintMap, tagMap, gen, ima_tag_count, loaded, allocs, origin, stored, overlapped>>

LEMMA FreeRuns ==
    ASSUME TypeInv, NEW t \in Threads, NEW old, Free(t, old)
    PROVE  Freed(t, old)
  <1> DEFINE clear == Tag("free", 0, old, 0)
             one == FreeTags(old)
             p == pending[t]
  <1>1. /\ Running(t) /\ old \in Given(<< >>) /\ Uses(BlockOf(old))
        /\ pending' = [pending EXCEPT ![t] = one \o p]
        /\ live' = Erase(live, {old})
        /\ UNCHANGED <<memTaintMap, tagMap, gen, ima_tag_count, loaded, allocs, origin, stored, overlapped>>
    BY DEF Free, tool
  <1>2. /\ old \in Heap \cup {NULL}
        /\ old # NULL => old \in DOMAIN live /\ Block(old) \cap Wanted = {}
    BY <1>1 DEF Given, TypeInv, TypeOK
  <1>3. /\ early' \in BOOLEAN /\ (early => early')
        /\ old # NULL /\ ~early' => Block(old) \cap Untagged = {}
    BY <1>1 DEF Uses, BlockOf, TypeInv, TypeOK
  <1>4. /\ one \in Seq(Code) /\ Range(one) = {clear} /\ clear \in Code /\ clear.op = "free"
        /\ clear.start = old /\ clear.id = 0 /\ clear.size = 0 /\ CodeOK(clear)
    BY <1>2, FreeTagsCode
  <1>5. p \in Seq(Code) /\ Plain(p)
    BY <1>1, PlainReady DEF Running, TypeInv, TypeOK, ThreadOK
  <1>6. one = <<clear>>
    BY DEF FreeTags
  <1> HIDE DEF clear, p, one
  <1>7. /\ <<clear>> \o p \in Seq(Code) /\ Head(<<clear>> \o p) = clear /\ Tail(<<clear>> \o p) = p
        /\ Range(<<clear>> \o p) = {clear} \cup Range(p)
    BY <1>4, <1>5, SequenceParts
  <1>8. /\ pending' \in [Threads -> Seq(Code)] /\ \A u \in Threads : u # t => pending'[u] = pending[u]
        /\ pending'[t] = one \o p
    BY <1>1, <1>6, <1>7 DEF TypeInv, TypeOK
  <1>9. Head(pending'[t]) = clear /\ Tail(pending'[t]) = p /\ Range(pending'[t]) = {clear} \cup Range(p)
    BY <1>6, <1>7, <1>8
  <1> QED  BY <1>1, <1>2, <1>3, <1>4, <1>5, <1>8, <1>9 DEF Freed, clear, p, one

LEMMA FreeType ==
    ASSUME TypeInv, NEW t \in Threads, NEW old, Free(t, old)
    PROVE  TypeInv'
  <1> DEFINE clear == Tag("free", 0, old, 0)
  <1>1. Freed(t, old)
    BY FreeRuns
  <1>2. /\ \A u \in Threads : u # t => pending'[u] = pending[u]
        /\ Plain(pending[t]) /\ pending[t] \in Seq(Code)
        /\ Head(pending'[t]) = clear /\ Tail(pending'[t]) = pending[t]
        /\ Range(pending'[t]) = {clear} \cup Range(pending[t])
        /\ clear.op = "free" /\ CodeOK(clear)
        /\ UNCHANGED <<loaded, tagMap, allocs>>
    BY <1>1 DEF Freed
  <1> HIDE DEF clear
  <1>3. \A k : CodeOK(k) => CodeOK(k)'
    BY <1>2 DEF CodeOK
  <1>4. ThreadOK(t) /\ LoadsApart /\ allocs \in Nat
    BY DEF TypeInv, TypeOK
  <1>5. \A k \in Range(pending[t]) :
           /\ CodeOK(k)' /\ k.op \notin {"load", "new", "assign"}
           /\ k.op # "free" => k.id \in DOMAIN loaded
    <2>1. Head(pending[t]).op # "load" \/ Range(pending[t]) = {}
      <3>1. Range(pending[t]) # {} => Head(pending[t]) \in Range(pending[t])
        BY <1>2, SequenceParts
      <3> QED  BY <1>2, <3>1 DEF Plain
    <2> QED  BY <1>2, <1>3, <1>4, <2>1 DEF ThreadOK, Plain
  <1>6. Ready(pending'[t])
    BY <1>2 DEF Ready
  <1>7. ThreadOK(t)'
    <2>1. \A k \in Range(pending'[t]) :
             /\ CodeOK(k)' /\ k.op \notin {"load", "assign"}
             /\ k.op # "free" => k.id \in DOMAIN loaded'
      BY <1>2, <1>3, <1>5
    <2> QED  BY <1>6, <2>1 DEF ThreadOK
  <1>8. \A u \in Threads : u # t => ThreadOK(u)'
    <2>1. \A u \in Threads : \A k \in Range(pending[u]) : k.op = "load" => k.id \notin DOMAIN loaded'
      BY <1>2 DEF TypeInv, ThreadOK
    <2> QED  BY <1>2, <1>4, <2>1, OthersKept
  <1>9. LoadsApart'
    <2>1. \A k \in Range(pending'[t]) : k.op # "load"
      BY <1>2, <1>5
    <2> QED  BY <1>2, <1>4, <2>1, LoadsKept
  <1>10. Apart'
    <2>1. \A b \in DOMAIN live' : b \in DOMAIN live /\ live'[b] = live[b]
      BY <1>1 DEF Freed, Erase
    <2> QED  BY <2>1 DEF TypeInv, Apart, Block
  <1>11. TypeOK'
    <2>1. DOMAIN live' \subseteq Heap /\ live' \in [DOMAIN live' -> Sizes]
      BY <1>1 DEF Freed, Erase, TypeInv, TypeOK
    <2> QED  BY <1>1, <2>1 DEF Freed, TypeInv, TypeOK
  <1> QED  BY <1>7, <1>8, <1>9, <1>10, <1>11 DEF TypeInv

LEMMA WriteType ==
    ASSUME TypeInv, NEW t \in Threads, NEW operands \in Operands, NEW to \in Accessible,
           Write(t, operands, to)
    PROVE  TypeInv'
  <1>1. UNCHANGED <<tagMap, gen, ima_tag_count, loaded, live, pending, allocs, overlapped>>
    BY DEF Write
  <1>2. to \in Memory /\ operands \subseteq Memory /\ {to} \in SUBSET Keys
    BY AccessibleMemory DEF Operands, Keys
  <1>3. IsTaintMap(memTaintMap', Keys, Mark)
    <2>1. UnionOf(memTaintMap, operands) \in SUBSET Mark
      BY MarksType DEF TypeInv, TypeOK, Keys
    <2> QED  BY <1>2, <2>1, PutType DEF Write, TypeInv, TypeOK, Keys
  <1>4. /\ origin' \in [Memory -> SUBSET (1 .. allocs)] /\ stored' \subseteq Memory
        /\ early' \in BOOLEAN
    <2> DEFINE marked == {a \in operands : MarksOf(memTaintMap, a) # {}}
    <2>1. UNION {origin[a] : a \in marked} \subseteq 1 .. allocs
      BY <1>2 DEF TypeInv, TypeOK
    <2>2. /\ origin' = [origin EXCEPT ![to] = UNION {origin[a] : a \in marked}]
          /\ stored' = IF marked = {} THEN stored ELSE stored \cup {to}
          /\ Uses(operands \cup {to})
      BY DEF Write
    <2> HIDE DEF marked
    <2> QED  BY <1>2, <2>1, <2>2 DEF Uses, TypeInv, TypeOK
  <1>5. TypeOK'
    BY <1>1, <1>3, <1>4 DEF TypeInv, TypeOK, Keys
  <1>6. (\A u \in Threads : ThreadOK(u)') /\ LoadsApart'
    BY <1>1 DEF TypeInv, ThreadOK, CodeOK, LoadsApart
  <1> QED  BY <1>1, <1>5, <1>6, ApartKept DEF TypeInv

------------------------------------------------------------------------------
(* Types and order in all steps. *)

\* What a step is.
LEMMA StepCases ==
    ASSUME TypeInv, Next
    PROVE  \E t \in Threads :
              \/ AllocationStep(t)
              \/ \E old : Free(t, old)
              \/ LoadCount(t) \/ Clear(t) \/ StoreResult(t) \/ StoreCount(t)
              \/ FindTag(t) \/ NewTag(t) \/ AssignTag(t)
              \/ \E operands \in Operands, to \in Accessible : Write(t, operands, to)
  BY AllocateSteps, ReallocSteps DEF Next

LEMMA TypeInvInit == Init => TypeInv
  <1> SUFFICES ASSUME Init PROVE TypeInv
    OBVIOUS
  <1>1. \A t \in Threads : pending[t] = << >> /\ Range(pending[t]) = {}
    BY DEF Init, Range
  <1>2. 0 \in Mark /\ 0 \in 0 .. MaxAllocs
    BY MarksAssumption, HeapAssumption DEF Mark
  <1>3. TypeOK
    <2>1. IsTaintMap(memTaintMap, Memory \cup UNION {Bytes(NULL, n) : n \in Sizes}, Mark)
      BY DEF Init, NoEntries, IsTaintMap
    <2>2. /\ DOMAIN tagMap = {} /\ tagMap \in [DOMAIN tagMap -> Mark]
          /\ DOMAIN loaded = {} /\ loaded \in [DOMAIN loaded -> Nat]
          /\ DOMAIN live = {} /\ live \in [DOMAIN live -> Sizes]
      BY DEF Init, NoEntries
    <2>3. gen \in [start : Mark, current : Mark] /\ ima_tag_count \in Nat /\ allocs \in 0 .. MaxAllocs
      BY <1>2 DEF Init
    <2>4. pending \in [Threads -> Seq(Code)]
      BY DEF Init
    <2>5. /\ origin \in [Memory -> SUBSET (1 .. allocs)] /\ stored \subseteq Memory
          /\ overlapped \in BOOLEAN /\ early \in BOOLEAN
      BY DEF Init
    <2> QED  BY <2>1, <2>2, <2>3, <2>4, <2>5 DEF TypeOK
  <1>4. Apart
    BY DEF Init, Apart, NoEntries
  <1> QED  BY <1>1, <1>3, <1>4 DEF TypeInv, ThreadOK, LoadsApart, Ready

LEMMA TypeInvNext == TypeInv /\ [Next]_vars => TypeInv'
  <1> SUFFICES ASSUME TypeInv, [Next]_vars PROVE TypeInv'
    OBVIOUS
  <1>1. CASE Next
    BY <1>1, StepCases, AllocationType, FreeType, LoadCountType, ClearType, StoreResultType,
       StoreCountType, FindTagType, NewTagType, AssignTagType, WriteType
  <1>2. CASE UNCHANGED vars
    <2>1. UNCHANGED <<memTaintMap, tagMap, gen, ima_tag_count, loaded, live, pending, allocs,
                      origin, stored, overlapped, early>>
      BY <1>2 DEF vars, tool, history
    <2> QED  BY <2>1, ApartKept DEF TypeInv, TypeOK, ThreadOK, CodeOK, LoadsApart
  <1> QED  BY <1>1, <1>2

\* Entries, marks, tags, blocks and pending code have their types in every state: a mark
\* is one of NUMBER_OF_TAINT_MARKS whichever threads race in the tag calls, no mark is
\* assigned before a tag has one, and nothing reads a counter that was not loaded.
THEOREM TypeCorrect == Spec => []TypeOK
  <1>1. TypeInv => TypeOK
    BY DEF TypeInv
  <1> QED  BY <1>1, TypeInvInit, TypeInvNext, PTL DEF Spec

------------------------------------------------------------------------------
(* Freed memory. *)

\* A clear that begins at start goes as far as a.
Reaches(start, a) == start <= a /\ start .. a \subseteq DOMAIN memTaintMap

\* Pending code clears the byte a.
Cleared(a) == \E k \in Pending : k.op = "free" /\ Reaches(k.start, a)

Tags == {"store", "tag", "assign"}

\* Pending code tags the whole block at b.
ToTag(b) == \E k \in Pending : k.op \in Tags /\ k.start = b /\ k.size = live[b]

\* A byte that has marks, and not those of a value written there, will be cleared, or
\* is in a live block that will be tagged, or a clear from the start of its block will
\* come to it.
Covered ==
    \A a \in Heap \ stored : MarksOf(memTaintMap, a) # {} =>
       \/ Cleared(a)
       \/ \E b \in DOMAIN live : a \in Block(b) /\ (ToTag(b) \/ Reaches(b, a))

\* What will be tagged is a live block, or a place a result was stored to.
TagsLive ==
    \A k \in Pending : k.op \in Tags =>
       \/ k.start = NULL
       \/ k.start \in DOMAIN live /\ live[k.start] = k.size
       \/ k.op # "store" /\ k.size = 1 /\ k.start \in stored \cap Accessible

\* Where a result will be stored the program may write.
CellsLive == \A k \in Pending : k.op = "store" => k.cell \in Accessible

FreedInv == ~early => Covered /\ TagsLive /\ CellsLive

LEMMA PendingOf ==
    ASSUME NEW k
    PROVE  k \in Pending <=> \E t \in Threads : k \in Range(pending[t])
  BY DEF Pending, Range

\* Pending code when a thread has run the head of its own.
LEMMA PendingRuns ==
    ASSUME NEW t \in Threads, NEW op, NEW code, Runs(t, op, code)
    PROVE  /\ Head(pending[t]) \in Pending
           /\ \A k \in Pending : k = Head(pending[t]) \/ k \in Pending'
           /\ \A k \in Pending' : k \in Range(code) \/ k \in Pending
           /\ Range(code) \subseteq Pending'
  <1> DEFINE head == Head(pending[t])
             rest == Tail(pending[t])
  <1>1. /\ \A u \in Threads : u # t => pending'[u] = pending[u]
        /\ Range(pending[t]) = {head} \cup Range(rest)
        /\ Range(pending'[t]) = Range(code) \cup Range(rest)
    BY DEF Runs
  <1>2. \A k : k \in Pending <=> \E u \in Threads : k \in Range(pending[u])
    BY PendingOf
  <1>3. \A k : k \in Pending' <=> \E u \in Threads : k \in Range(pending'[u])
    BY DEF Pending, Range
  <1> HIDE DEF head, rest
  <1>4. head \in Pending
    BY <1>1, <1>2
  <1>5. \A k \in Pending : k = head \/ k \in Pending'
    BY <1>1, <1>2, <1>3
  <1>6. \A k \in Pending' : k \in Range(code) \/ k \in Pending
    BY <1>1, <1>2, <1>3
  <1>7. Range(code) \subseteq Pending'
    BY <1>1, <1>3
  <1> QED  BY <1>4, <1>5, <1>6, <1>7 DEF head

\* The types of what is pending.
LEMMA PendingType ==
    ASSUME TypeInv, NEW k \in Pending
    PROVE  k \in Code /\ CodeOK(k) /\ k.start \in Nat /\ k.size \in Nat
  <1>1. PICK t \in Threads : k \in Range(pending[t])
    BY PendingOf
  <1>2. pending[t] \in Seq(Code) /\ ThreadOK(t)
    BY DEF TypeInv, TypeOK
  <1>3. k \in Code
    BY <1>1, <1>2, SequenceParts
  <1> QED  BY <1>1, <1>2, <1>3 DEF ThreadOK, Code

\* Bytes stay covered where the live blocks are the same, no mark is new, and no code
\* and no entry is gone.
LEMMA CoveredKept ==
    ASSUME Covered, UNCHANGED live, stored \subseteq stored',
           DOMAIN memTaintMap \subseteq DOMAIN memTaintMap',
           \A a \in Heap \ stored' : MarksOf(memTaintMap', a) \in {{}, MarksOf(memTaintMap, a)},
           \A k \in Pending : k.op = "free" => k \in Pending',
           \A b \in DOMAIN live : ToTag(b) => ToTag(b)'
    PROVE  Covered'
  <1> SUFFICES ASSUME NEW a \in Heap \ stored', MarksOf(memTaintMap', a) # {}
               PROVE  \/ Cleared(a)'
                      \/ \E b \in DOMAIN live : a \in Block(b) /\ (ToTag(b)' \/ Reaches(b, a)')
    BY DEF Covered, Block
  <1>1. a \in Heap \ stored /\ MarksOf(memTaintMap, a) # {}
    OBVIOUS
  <1>2. Cleared(a) => Cleared(a)'
    BY DEF Cleared, Reaches
  <1>3. \A b : Reaches(b, a) => Reaches(b, a)'
    BY DEF Reaches
  <1> QED  BY <1>1, <1>2, <1>3 DEF Covered

\* What has the same start and size as something pending is tagged where it may be.
LEMMA TagsLiveKept ==
    ASSUME TagsLive, UNCHANGED live, stored \subseteq stored',
           \A k \in Pending' : k.op \in Tags =>
              \/ \E l \in Pending : /\ l.op \in Tags /\ k.start = l.start /\ k.size = l.size
                                    /\ k.op = "store" => l.op = "store"
              \/ k.op # "store" /\ k.size = 1 /\ k.start \in stored' \cap Accessible
    PROVE  TagsLive'
  <1>1. Accessible' = Accessible
    BY DEF Accessible, Block
  <1> QED  BY <1>1 DEF TagsLive

\* Steps that run code without tags, and leave marks and blocks alone.
LEMMA IdleFreed ==
    ASSUME TypeInv, FreedInv, NEW t \in Threads, NEW op \in {"load", "count", "new"},
           Runs(t, op, << >>), UNCHANGED <<memTaintMap, live, stored, early>>
    PROVE  FreedInv'
  <1> SUFFICES ASSUME ~early PROVE Covered' /\ TagsLive' /\ CellsLive'
    BY DEF FreedInv
  <1> USE DEF FreedInv
  <1>1. /\ \A k \in Pending : k.op # op => k \in Pending'
        /\ \A k \in Pending' : k \in Pending
    <2>1. Range(<< >>) = {}
      BY DEF Range
    <2>2. Head(pending[t]).op = op
      BY DEF Runs
    <2> QED  BY <2>1, <2>2, PendingRuns
  <1>2. \A b \in DOMAIN live : ToTag(b) => ToTag(b)'
    BY <1>1 DEF ToTag, Tags
  <1>3. Covered'
    <2>1. \A k \in Pending : k.op = "free" => k \in Pending'
      BY <1>1
    <2> QED  BY <1>2, <2>1, CoveredKept
  <1>4. TagsLive'
    BY <1>1, TagsLiveKept
  <1>5. CellsLive'
    BY <1>1 DEF CellsLive, Accessible, Block
  <1> QED  BY <1>3, <1>4, <1>5

LEMMA FindFreed ==
    ASSUME TypeInv, FreedInv, NEW t \in Threads, FindTag(t)
    PROVE  FreedInv'
  <1> DEFINE head == Head(pending[t])
             assign == Tag("assign", head.id, head.start, head.size)
             new == Run("new", head.id)
             code == FindCode(head)
  <1>1. /\ Runs(t, "tag", code) /\ Range(code) \subseteq {new, assign} /\ assign \in Range(code)
        /\ assign.op = "assign" /\ assign.start = head.start /\ assign.size = head.size
        /\ new.op = "new" /\ head.op = "tag"
    BY FindRuns
  <1>2. UNCHANGED <<memTaintMap, live, stored, early>>
    BY DEF FindTag, tool, history
  <1> HIDE DEF assign, new, code
  <1>3. /\ head \in Pending /\ assign \in Pending'
        /\ \A k \in Pending : k = head \/ k \in Pending'
        /\ \A k \in Pending' : k = new \/ k = assign \/ k \in Pending
    BY <1>1, PendingRuns
  <1> HIDE DEF head
  <1> SUFFICES ASSUME ~early PROVE Covered' /\ TagsLive' /\ CellsLive'
    BY <1>2 DEF FreedInv
  <1> USE DEF FreedInv
  <1>4. \A b \in DOMAIN live : ToTag(b) => ToTag(b)'
    BY <1>1, <1>2, <1>3 DEF ToTag, Tags
  <1>5. Covered'
    <2>1. \A k \in Pending : k.op = "free" => k \in Pending'
      BY <1>1, <1>3
    <2> QED  BY <1>2, <1>4, <2>1, CoveredKept
  <1>6. TagsLive'
    <2>1. \A k \in Pending' : k.op \in Tags =>
             \E l \in Pending : /\ l.op \in Tags /\ k.start = l.start /\ k.size = l.size
                                /\ k.op = "store" => l.op = "store"
      BY <1>1, <1>3 DEF Tags
    <2> QED  BY <1>2, <2>1, TagsLiveKept
  <1>7. CellsLive'
    BY <1>1, <1>2, <1>3 DEF CellsLive, Accessible, Block
  <1> QED  BY <1>5, <1>6, <1>7

LEMMA StoreFreed ==
    ASSUME TypeInv, FreedInv, NEW t \in Threads, StoreResult(t)
    PROVE  FreedInv'
  <1> DEFINE head == Head(pending[t])
             pointer == Tag("tag", head.id, head.cell, 1)
             block == Tag("tag", head.id, head.start, head.size)
             code == StoreTags(head)
  <1>1. /\ Runs(t, "store", code) /\ Range(code) = {pointer, block}
        /\ pointer.op = "tag" /\ pointer.start = head.cell /\ pointer.size = 1
        /\ block.op = "tag" /\ block.start = head.start /\ block.size = head.size
        /\ head.op = "store"
    BY StoreRuns
  <1>2. /\ UNCHANGED live /\ stored' = stored \cup {head.cell} /\ (early => early')
        /\ DOMAIN memTaintMap \subseteq DOMAIN memTaintMap'
        /\ \A a : a # head.cell => MarksOf(memTaintMap', a) = MarksOf(memTaintMap, a)
    BY DEF StoreResult, Uses, Put, MarksOf
  <1> HIDE DEF pointer, block, code
  <1>3. /\ head \in Pending /\ block \in Pending'
        /\ \A k \in Pending : k = head \/ k \in Pending'
        /\ \A k \in Pending' : k = pointer \/ k = block \/ k \in Pending
    BY <1>1, PendingRuns
  <1> HIDE DEF head
  <1> SUFFICES ASSUME ~early PROVE Covered' /\ TagsLive' /\ CellsLive'
    BY <1>2 DEF FreedInv
  <1> USE DEF FreedInv
  <1>4. \A b \in DOMAIN live : ToTag(b) => ToTag(b)'
    BY <1>1, <1>2, <1>3 DEF ToTag, Tags
  <1>5. Covered'
    <2>1. \A k \in Pending : k.op = "free" => k \in Pending'
      BY <1>1, <1>3
    <2> QED  BY <1>2, <1>4, <2>1, CoveredKept
  <1>6. TagsLive'
    <2>1. head.cell \in Accessible
      BY <1>1, <1>3 DEF CellsLive
    <2>2. \A k \in Pending' : k.op \in Tags =>
             \/ \E l \in Pending : /\ l.op \in Tags /\ k.start = l.start /\ k.size = l.size
                                   /\ k.op = "store" => l.op = "store"
             \/ k.op # "store" /\ k.size = 1 /\ k.start \in stored' \cap Accessible
      BY <1>1, <1>2, <1>3, <2>1 DEF Tags
    <2> QED  BY <1>2, <2>2, TagsLiveKept
  <1>7. CellsLive'
    BY <1>1, <1>2, <1>3 DEF CellsLive, Accessible, Block
  <1> QED  BY <1>5, <1>6, <1>7

LEMMA WriteFreed ==
    ASSUME TypeInv, FreedInv, NEW t \in Threads, NEW operands \in Operands, NEW to \in Accessible,
           Write(t, operands, to)
    PROVE  FreedInv'
  <1> DEFINE marked == {a \in operands : MarksOf(memTaintMap, a) # {}}
             union == UnionOf(memTaintMap, operands)
  <1>1. /\ UNCHANGED <<live, pending>> /\ (early => early')
        /\ stored' = IF marked = {} THEN stored ELSE stored \cup {to}
        /\ memTaintMap' = Put(memTaintMap, {to}, union)
    BY DEF Write, Uses
  <1>2. marked = {} => union = {}
    BY DEF UnionOf, MarksOf
  <1> HIDE DEF marked, union
  <1>3. /\ DOMAIN memTaintMap \subseteq DOMAIN memTaintMap'
        /\ \A a : MarksOf(memTaintMap', a) = IF a = to THEN union ELSE MarksOf(memTaintMap, a)
    BY <1>1 DEF Put, MarksOf
  <1>4. Pending' = Pending
    BY <1>1 DEF Pending
  <1> SUFFICES ASSUME ~early PROVE Covered' /\ TagsLive' /\ CellsLive'
    BY <1>1 DEF FreedInv
  <1> USE DEF FreedInv
  <1>5. \A b \in DOMAIN live : ToTag(b) => ToTag(b)'
    BY <1>1, <1>4 DEF ToTag
  <1>6. stored \subseteq stored'
    BY <1>1
  <1>7. \A a \in Heap \ stored' : MarksOf(memTaintMap', a) \in {{}, MarksOf(memTaintMap, a)}
    BY <1>1, <1>2, <1>3
  <1>8. Covered'
    BY <1>1, <1>3, <1>4, <1>5, <1>6, <1>7, CoveredKept
  <1>9. TagsLive'
    BY <1>1, <1>4, <1>6, TagsLiveKept
  <1>10. CellsLive'
    BY <1>1, <1>4 DEF CellsLive, Accessible, Block
  <1> QED  BY <1>8, <1>9, <1>10

LEMMA AssignFreed ==
    ASSUME TypeInv, FreedInv, NEW t \in Threads, AssignTag(t)
    PROVE  FreedInv'
  <1> DEFINE head == Head(pending[t])
             range == Bytes(head.start, head.size)
             marks == {tagMap[loaded[head.id]]}
  <1>1. Step(t, "assign", << >>) /\ << >> \in Seq(Code) /\ Range(<< >>) = {}
    BY DEF AssignTag, Range
  <1>2. Runs(t, "assign", << >>)
    BY <1>1, HeadRuns
  <1>3. head.op = "assign"
    BY <1>2 DEF Runs
  <1>4. /\ UNCHANGED <<live, stored, early>>
        /\ memTaintMap' = Put(memTaintMap, range, marks)
    BY DEF AssignTag, history
  <1>5. /\ head \in Pending
        /\ \A k \in Pending : k = head \/ k \in Pending'
        /\ \A k \in Pending' : k \in Pending
    BY <1>1, <1>2, PendingRuns
  <1>6. head.start \in Nat /\ head.size \in Nat /\ CodeOK(head)
    BY <1>5, PendingType
  <1> HIDE DEF head, range, marks
  <1>7. /\ DOMAIN memTaintMap' = range \cup DOMAIN memTaintMap
        /\ \A a : MarksOf(memTaintMap', a) = IF a \in range THEN marks ELSE MarksOf(memTaintMap, a)
    BY <1>4 DEF Put, MarksOf
  <1> SUFFICES ASSUME ~early PROVE Covered' /\ TagsLive' /\ CellsLive'
    BY <1>4 DEF FreedInv
  <1> USE DEF FreedInv
  <1>8. TagsLive'
    BY <1>4, <1>5, TagsLiveKept
  <1>9. CellsLive'
    BY <1>4, <1>5 DEF CellsLive, Accessible, Block
  <1>10. ASSUME NEW b \in DOMAIN live, NEW a \in Block(b), range = Block(b)
         PROVE  Reaches(b, a)'
    <2>1. b \in Nat /\ live[b] \in Nat
      BY Addresses DEF TypeInv, TypeOK
    <2>2. b <= a /\ b .. a \subseteq Block(b)
      BY <2>1 DEF Block, Bytes
    <2> QED  BY <1>7, <1>10, <2>2 DEF Reaches
  <1>11. Covered'
    <2> SUFFICES ASSUME NEW a \in Heap \ stored, MarksOf(memTaintMap', a) # {}
                 PROVE  \/ Cleared(a)'
                        \/ \E b \in DOMAIN live : a \in Block(b) /\ (ToTag(b)' \/ Reaches(b, a)')
      BY <1>4 DEF Covered, Block
    <2>1. CASE a \in range
      <3>1. a \in Memory
        BY Addresses
      <3>2. head.start # NULL
        <4>1. head.start = NULL => head.size \in Sizes
          BY <1>3, <1>6, Addresses DEF CodeOK
        <4> QED  BY <2>1, <3>1, <4>1, NullPage DEF range
      <3>3. ~(head.size = 1 /\ head.start \in stored)
        BY <1>6, <2>1, OneByte DEF range
      <3>4. head.start \in DOMAIN live /\ live[head.start] = head.size
        BY <1>3, <1>5, <3>2, <3>3 DEF TagsLive, Tags
      <3>5. range = Block(head.start)
        BY <3>4 DEF range, Block
      <3> QED  BY <1>10, <2>1, <3>4, <3>5
    <2>2. CASE a \notin range
      <3>1. MarksOf(memTaintMap, a) # {}
        BY <1>7, <2>2
      <3>2. \A b : Reaches(b, a) => Reaches(b, a)'
        BY <1>7 DEF Reaches
      <3>3. Cleared(a) => Cleared(a)'
        BY <1>3, <1>5, <3>2 DEF Cleared
      <3>4. ASSUME NEW b \in DOMAIN live, a \in Block(b), ToTag(b) PROVE ToTag(b)' \/ Reaches(b, a)'
        <4>1. PICK k \in Pending : k.op \in Tags /\ k.start = b /\ k.size = live[b]
          BY <3>4 DEF ToTag
        <4>2. CASE k = head
          <5>1. range = Block(b)
            BY <4>1, <4>2 DEF range, Block
          <5> QED  BY <1>10, <3>4, <5>1
        <4>3. CASE k # head
          BY <1>4, <1>5, <4>1, <4>3 DEF ToTag
        <4> QED  BY <4>2, <4>3
      <3> QED  BY <3>1, <3>2, <3>3, <3>4 DEF Covered
    <2> QED  BY <2>1, <2>2
  <1> QED  BY <1>8, <1>9, <1>11

LEMMA ClearFreed ==
    ASSUME TypeInv, FreedInv, NEW t \in Threads, Clear(t)
    PROVE  FreedInv'
  <1> DEFINE head == Head(pending[t])
             start == head.start
             cleared == {a \in DOMAIN memTaintMap : a >= start /\ start .. a \subseteq DOMAIN memTaintMap}
  <1>1. Step(t, "free", << >>) /\ << >> \in Seq(Code) /\ Range(<< >>) = {}
    BY DEF Clear, Range
  <1>2. Runs(t, "free", << >>)
    BY <1>1, HeadRuns
  <1>3. head.op = "free"
    BY <1>2 DEF Runs
  <1>4. /\ UNCHANGED <<live, stored, early>>
        /\ DOMAIN memTaintMap' = DOMAIN memTaintMap \ cleared
        /\ \A a : MarksOf(memTaintMap', a) = IF a \in cleared THEN {} ELSE MarksOf(memTaintMap, a)
    BY DEF Clear, ClearTagsForByteRange, Erase, MarksOf, history
  <1>5. /\ head \in Pending
        /\ \A k \in Pending : k = head \/ k \in Pending'
        /\ \A k \in Pending' : k \in Pending
    BY <1>1, <1>2, PendingRuns
  <1>6. start \in Nat /\ Heap \subseteq Nat
    BY <1>5, PendingType, Addresses
  <1> HIDE DEF head
  <1> SUFFICES ASSUME ~early PROVE Covered' /\ TagsLive' /\ CellsLive'
    BY <1>4 DEF FreedInv
  <1> USE DEF FreedInv
  <1>7. TagsLive'
    BY <1>4, <1>5, TagsLiveKept
  <1>8. CellsLive'
    BY <1>4, <1>5 DEF CellsLive, Accessible, Block
  <1>9. Covered'
    <2> SUFFICES ASSUME NEW a \in Heap \ stored, MarksOf(memTaintMap', a) # {}
                 PROVE  \/ Cleared(a)'
                        \/ \E b \in DOMAIN live : a \in Block(b) /\ (ToTag(b)' \/ Reaches(b, a)')
      BY <1>4 DEF Covered, Block
    <2>1. a \notin cleared /\ MarksOf(memTaintMap, a) # {} /\ a \in DOMAIN memTaintMap /\ a \in Nat
      BY <1>4, <1>6 DEF MarksOf
    <2>2. ~Reaches(start, a)
      BY <1>6, <2>1 DEF Reaches
    <2>3. ASSUME NEW b \in Nat, Reaches(b, a) PROVE Reaches(b, a)'
      <3>1. b .. a \subseteq DOMAIN memTaintMap /\ b <= a
        BY <2>3 DEF Reaches
      <3>2. ASSUME NEW x \in b .. a, x \in cleared PROVE FALSE
        <4>1. x \in Nat /\ start <= x /\ x <= a /\ start .. x \subseteq DOMAIN memTaintMap
          BY <1>6, <2>1, <3>2
        <4>2. \A y \in start .. a : y \in start .. x \/ y \in b .. a
          BY <1>6, <2>1, <3>2, <4>1
        <4> QED  BY <1>6, <2>1, <2>2, <3>1, <4>1, <4>2 DEF Reaches
      <3> HIDE DEF cleared
      <3> QED  BY <1>4, <3>1, <3>2 DEF Reaches
    <2> HIDE DEF cleared
    <2>4. Cleared(a) => Cleared(a)'
      <3> SUFFICES ASSUME NEW k \in Pending, k.op = "free", Reaches(k.start, a)
                   PROVE  Cleared(a)'
        BY DEF Cleared
      <3>1. k # head
        BY <2>2
      <3>2. k \in Pending' /\ k.start \in Nat
        BY <1>5, <3>1, PendingType
      <3> QED  BY <2>3, <3>2 DEF Cleared
    <2>5. \A b \in DOMAIN live : b \in Nat
      BY Addresses DEF TypeInv, TypeOK
    <2>6. \A b \in DOMAIN live : ToTag(b) => ToTag(b)'
      BY <1>3, <1>4, <1>5 DEF ToTag, Tags
    <2> QED  BY <2>1, <2>3, <2>4, <2>5, <2>6 DEF Covered
  <1> QED  BY <1>7, <1>8, <1>9

\* Nothing tags a block that is freed, or a place in it, when it is not used early.
LEMMA GoneUntagged ==
    ASSUME TypeInv, NEW b \in DOMAIN live, Block(b) \cap Untagged = {}
    PROVE  ~ToTag(b) /\ \A k \in Pending : k.op \in Tags => k.start \notin Block(b)
  <1>1. b \in Nat /\ live[b] \in Nat \ {0}
    BY Addresses DEF TypeInv, TypeOK
  <1>2. b \in Block(b)
    BY <1>1 DEF Block, Bytes
  <1>3. ASSUME NEW k \in Pending, k.op \in Tags PROVE k.start \notin Block(b)
    <2>1. CodeOK(k) /\ k.start \in Nat
      BY PendingType
    <2>2. k.size \in Nat \ {0}
      BY <1>3, <2>1, Addresses DEF CodeOK, Tags
    <2>3. k.start \in Bytes(k.start, k.size)
      BY <2>1, <2>2 DEF Bytes
    <2>4. k.start \in Untagged
      BY <2>3 DEF Untagged
    <2> QED  BY <2>4
  <1> QED  BY <1>2, <1>3 DEF ToTag

\* What is pending stays in live memory when blocks go that it has nothing to do with.
LEMMA GoneKept ==
    ASSUME TypeInv, TagsLive, CellsLive, NEW gone \in SUBSET DOMAIN live,
           \A b \in DOMAIN live \ gone : b \in DOMAIN live' /\ live'[b] = live[b],
           \A b \in gone : Block(b) \cap Untagged = {} /\ Block(b) \cap Wanted = {},
           \A a \in stored \cap Accessible : (\A b \in gone : a \notin Block(b)) => a \in stored'
    PROVE  /\ \A k \in Pending : k.op \in Tags =>
                 \/ k.start = NULL
                 \/ k.start \in DOMAIN live' /\ live'[k.start] = k.size
                 \/ k.op # "store" /\ k.size = 1 /\ k.start \in stored' \cap Accessible'
           /\ \A k \in Pending : k.op = "store" => k.cell \in Accessible'
  <1>1. ASSUME NEW a \in Accessible, \A b \in gone : a \notin Block(b) PROVE a \in Accessible'
    <2>1. CASE a \in Variables
      BY <2>1 DEF Accessible
    <2>2. ASSUME NEW b \in DOMAIN live, a \in Block(b) PROVE a \in Accessible'
      <3>1. b \in DOMAIN live' /\ live'[b] = live[b]
        BY <1>1, <2>2
      <3>2. a \in Bytes(b, live'[b])
        BY <2>2, <3>1 DEF Block
      <3> QED  BY <3>1, <3>2 DEF Accessible, Block
    <2> QED  BY <2>1, <2>2 DEF Accessible
  <1>2. ASSUME NEW k \in Pending, k.op \in Tags
        PROVE  \/ k.start = NULL
               \/ k.start \in DOMAIN live' /\ live'[k.start] = k.size
               \/ k.op # "store" /\ k.size = 1 /\ k.start \in stored' \cap Accessible'
    <2>1. \A b \in gone : k.start \notin Block(b)
      BY <1>2, GoneUntagged
    <2>2. CASE k.start = NULL
      BY <2>2
    <2>3. CASE k.start \in DOMAIN live /\ live[k.start] = k.size
      <3>1. k.start \in Block(k.start)
        <4>1. k.start \in Nat /\ live[k.start] \in Nat \ {0}
          BY <2>3, Addresses DEF TypeInv, TypeOK
        <4> QED  BY <4>1 DEF Block, Bytes
      <3> QED  BY <2>1, <2>3, <3>1
    <2>4. CASE k.op # "store" /\ k.size = 1 /\ k.start \in stored \cap Accessible
      BY <1>1, <2>1, <2>4
    <2> QED  BY <1>2, <2>2, <2>3, <2>4 DEF TagsLive
  <1>3. ASSUME NEW k \in Pending, k.op = "store" PROVE k.cell \in Accessible'
    <2>1. k.cell \in Wanted /\ k.cell \in Accessible
      BY <1>3 DEF Wanted, CellsLive
    <2> QED  BY <1>1, <2>1
  <1> QED  BY <1>2, <1>3

LEMMA FreeFreed ==
    ASSUME TypeInv, FreedInv, NEW t \in Threads, NEW old, Free(t, old)
    PROVE  FreedInv'
  <1> DEFINE clear == Tag("free", 0, old, 0)
             gone == {old} \cap DOMAIN live
  <1>1. /\ \A u \in Threads : u # t => pending'[u] = pending[u]
        /\ Range(pending'[t]) = {clear} \cup Range(pending[t])
        /\ clear.op = "free" /\ clear.start = old
        /\ live' = Erase(live, {old})
        /\ old # NULL => old \in DOMAIN live /\ Block(old) \cap Wanted = {}
        /\ early => early'
        /\ old # NULL /\ ~early' => Block(old) \cap Untagged = {}
        /\ UNCHANGED <<memTaintMap, stored>>
    BY FreeRuns DEF Freed
  <1> HIDE DEF clear
  <1>2. \A k : k \in Pending' <=> k \in Pending \/ k = clear
    <2>1. \A k : k \in Pending <=> \E u \in Threads : k \in Range(pending[u])
      BY PendingOf
    <2>2. \A k : k \in Pending' <=> \E u \in Threads : k \in Range(pending'[u])
      BY DEF Pending, Range
    <2> QED  BY <1>1, <2>1, <2>2
  <1> SUFFICES ASSUME ~early' PROVE Covered' /\ TagsLive' /\ CellsLive'
    BY DEF FreedInv
  <1>3. Covered /\ TagsLive /\ CellsLive
    BY <1>1 DEF FreedInv
  <1>4. \A b \in DOMAIN live \ gone : b \in DOMAIN live' /\ live'[b] = live[b]
    BY <1>1 DEF Erase
  <1>5. \A b \in gone : b = old /\ Block(b) \cap Untagged = {} /\ Block(b) \cap Wanted = {}
    <2>1. \A b \in gone : b # NULL
      BY Addresses DEF TypeInv, TypeOK
    <2> QED  BY <1>1, <2>1
  <1>6. /\ \A k \in Pending : k.op \in Tags =>
              \/ k.start = NULL
              \/ k.start \in DOMAIN live' /\ live'[k.start] = k.size
              \/ k.op # "store" /\ k.size = 1 /\ k.start \in stored' \cap Accessible'
        /\ \A k \in Pending : k.op = "store" => k.cell \in Accessible'
    <2>1. gone \in SUBSET DOMAIN live
      OBVIOUS
    <2> HIDE DEF gone
    <2> QED  BY <1>1, <1>3, <1>4, <1>5, <2>1, GoneKept
  <1>7. TagsLive' /\ CellsLive'
    BY <1>1, <1>2, <1>6 DEF TagsLive, CellsLive, Tags
  <1>8. Covered'
    <2> SUFFICES ASSUME NEW a \in Heap \ stored, MarksOf(memTaintMap, a) # {}
                 PROVE  \/ Cleared(a)'
                        \/ \E b \in DOMAIN live' :
                              a \in Bytes(b, live'[b]) /\ (ToTag(b)' \/ Reaches(b, a)')
      BY <1>1 DEF Covered, Block
    <2>1. \A b : Reaches(b, a) => Reaches(b, a)'
      BY <1>1 DEF Reaches
    <2>2. Cleared(a) => Cleared(a)'
      BY <1>2, <2>1 DEF Cleared
    <2>3. ASSUME NEW b \in DOMAIN live, a \in Block(b), ToTag(b) \/ Reaches(b, a), b \in gone
          PROVE  Cleared(a)'
      <3>1. Reaches(b, a)
        BY <1>5, <2>3, GoneUntagged
      <3>2. clear \in Pending' /\ clear.op = "free" /\ Reaches(clear.start, a)'
        BY <1>1, <1>2, <1>5, <2>1, <2>3, <3>1
      <3> QED  BY <3>2 DEF Cleared
    <2>4. ASSUME NEW b \in DOMAIN live, a \in Block(b), ToTag(b) \/ Reaches(b, a), b \notin gone
          PROVE  b \in DOMAIN live' /\ a \in Bytes(b, live'[b]) /\ (ToTag(b)' \/ Reaches(b, a)')
      <3>1. b \in DOMAIN live' /\ live'[b] = live[b]
        BY <1>4, <2>4
      <3>2. ToTag(b) => ToTag(b)'
        BY <1>2, <3>1 DEF ToTag
      <3> QED  BY <2>1, <2>4, <3>1, <3>2 DEF Block
    <2> QED  BY <1>3, <2>2, <2>3, <2>4 DEF Covered
  <1> QED  BY <1>7, <1>8

\* Pending code when an allocation has begun.
LEMMA PendingBegun ==
    ASSUME NEW t \in Threads, NEW stores, NEW start, NEW size, NEW free,
           Begun(t, stores, start, size, free)
    PROVE  \A k : k \in Pending' <=>
              \/ k \in Pending \/ k \in Range(free)
              \/ k \in {Run("load", allocs + 1), Run("count", allocs + 1)}
              \/ k \in Range(StoreCode(stores, allocs + 1, start, size))
  <1> DEFINE load == Run("load", allocs + 1)
             count == Run("count", allocs + 1)
             store == StoreCode(stores, allocs + 1, start, size)
  <1>1. /\ \A u \in Threads : u # t => pending'[u] = pending[u]
        /\ Range(Tail(pending'[t])) = Range(free) \cup Range(store) \cup {count} \cup Range(pending[t])
        /\ Range(pending'[t]) = {load} \cup Range(Tail(pending'[t]))
    BY DEF Begun
  <1> HIDE DEF load, count, store
  <1>2. \A k : k \in Pending <=> \E u \in Threads : k \in Range(pending[u])
    BY PendingOf
  <1>3. \A k : k \in Pending' <=> \E u \in Threads : k \in Range(pending'[u])
    BY DEF Pending, Range
  <1>4. Range(pending'[t]) = Range(pending[t]) \cup Range(free) \cup {load, count} \cup Range(store)
    BY <1>1
  <1>5. \A k : k \in Pending' <=>
           k \in Pending \/ k \in Range(free) \/ k \in {load, count} \/ k \in Range(store)
    BY <1>1, <1>2, <1>3, <1>4
  <1> QED  BY <1>5 DEF load, count, store

LEMMA AllocationFreed ==
    ASSUME TypeInv, FreedInv, NEW t \in Threads, AllocationStep(t)
    PROVE  FreedInv'
  <1> SUFFICES ASSUME ~early' PROVE Covered' /\ TagsLive' /\ CellsLive'
    BY DEF FreedInv
  <1>1. PICK stores \in Stores, size \in Sizes, start \in Heap \cup {NULL}, free \in Seq(Code),
             gone \in SUBSET DOMAIN live :
          /\ Begun(t, stores, start, size, free)
          /\ \A k \in Range(free) : k.op = "free" /\ CodeOK(k)
          /\ \A b \in gone : \E k \in Range(free) : k.start = b
          /\ \A b \in gone : /\ Block(b) \cap (Wanted \cup Range(stores)) = {}
                             /\ ~early' => Block(b) \cap Untagged = {}
          /\ early => early'
          /\ \/ start = NULL /\ gone = {} /\ UNCHANGED <<memTaintMap, live>>
             \/ start \in Heap /\ Placed(start, size, gone) /\ MemoryKept(start, size)
    BY DEF AllocationStep
  <1> DEFINE load == Run("load", allocs + 1)
             count == Run("count", allocs + 1)
             store == StoreCode(stores, allocs + 1, start, size)
  <1>2. \A k : k \in Pending' <=>
           k \in Pending \/ k \in Range(free) \/ k \in {load, count} \/ k \in Range(store)
    BY <1>1, PendingBegun
  <1>3. /\ load.op = "load" /\ count.op = "count" /\ Range(store) # {}
        /\ \A k \in Range(store) :
              k.op = "store" /\ k.start = start /\ k.size = size /\ k.cell \in Range(stores)
        /\ stored' = stored \ Bytes(start, size)
        /\ Range(stores) \subseteq Accessible
    BY <1>1 DEF Begun
  <1> HIDE DEF load, count, store
  <1>4. Covered /\ TagsLive /\ CellsLive
    BY <1>1 DEF FreedInv
  <1>5. \A b \in DOMAIN live \ gone : b \in DOMAIN live' /\ live'[b] = live[b]
    BY <1>1 DEF Placed
  <1>6. \A b \in gone : Block(b) \cap Untagged = {} /\ Block(b) \cap Wanted = {}
    BY <1>1
  <1>7. \A a \in Accessible : (\A b \in gone : a \notin Block(b)) => a \notin Bytes(start, size)
    <2> SUFFICES ASSUME NEW a \in Accessible, \A b \in gone : a \notin Block(b)
                 PROVE  a \notin Bytes(start, size)
      OBVIOUS
    <2>1. CASE start = NULL
      BY <2>1, AccessibleMemory, NullPage
    <2>2. CASE start \in Heap /\ Placed(start, size, gone)
      <3>1. CASE a \in Variables
        BY <2>2, <3>1, HeapAssumption DEF Placed
      <3>2. ASSUME NEW b \in DOMAIN live, a \in Block(b) PROVE a \notin Bytes(start, size)
        <4>1. b + live[b] < start \/ start + size < b
          BY <2>2, <3>2 DEF Placed
        <4>2. b \in Nat /\ live[b] \in Nat /\ start \in Nat /\ size \in Nat
          BY Addresses DEF TypeInv, TypeOK
        <4> QED  BY <3>2, <4>1, <4>2 DEF Block, Bytes
      <3> QED  BY <3>1, <3>2 DEF Accessible
    <2> QED  BY <1>1, <2>1, <2>2
  <1>8. /\ \A k \in Pending : k.op \in Tags =>
              \/ k.start = NULL
              \/ k.start \in DOMAIN live' /\ live'[k.start] = k.size
              \/ k.op # "store" /\ k.size = 1 /\ k.start \in stored' \cap Accessible'
        /\ \A k \in Pending : k.op = "store" => k.cell \in Accessible'
    BY <1>3, <1>4, <1>5, <1>6, <1>7, GoneKept
  <1>9. start = NULL \/ (start \in DOMAIN live' /\ live'[start] = size)
    BY <1>1 DEF Placed
  <1>10. TagsLive'
    BY <1>1, <1>2, <1>3, <1>8, <1>9 DEF TagsLive, Tags
  <1>11. \A a \in Range(stores) : a \in Accessible'
    <2> SUFFICES ASSUME NEW a \in Range(stores) PROVE a \in Accessible'
      OBVIOUS
    <2>1. a \in Accessible /\ \A b \in gone : a \notin Block(b)
      BY <1>1, <1>3
    <2>2. CASE a \in Variables
      BY <2>2 DEF Accessible
    <2>3. ASSUME NEW b \in DOMAIN live, a \in Block(b) PROVE a \in Accessible'
      <3>1. b \in DOMAIN live' /\ a \in Bytes(b, live'[b])
        BY <1>5, <2>1, <2>3 DEF Block
      <3> QED  BY <3>1 DEF Accessible, Block
    <2> QED  BY <2>1, <2>2, <2>3 DEF Accessible
  <1>12. CellsLive'
    BY <1>1, <1>2, <1>3, <1>8, <1>11 DEF CellsLive
  <1>13. Covered'
    <2> SUFFICES ASSUME NEW a \in Heap \ stored', MarksOf(memTaintMap', a) # {}
                 PROVE  \/ Cleared(a)'
                        \/ \E b \in DOMAIN live' :
                              a \in Bytes(b, live'[b]) /\ (ToTag(b)' \/ Reaches(b, a)')
      BY DEF Covered, Block
    <2>1. CASE a \in Bytes(start, size)
      <3>1. start # NULL
        BY <2>1, NullPage, Addresses
      <3>2. start \in DOMAIN live' /\ live'[start] = size
        BY <1>9, <3>1
      <3>3. PICK k \in Range(store) : TRUE
        BY <1>3
      <3>4. k \in Pending' /\ k.op \in Tags /\ k.start = start /\ k.size = live'[start]
        BY <1>2, <1>3, <3>2, <3>3 DEF Tags
      <3>5. ToTag(start)'
        BY <3>4 DEF ToTag
      <3> QED  BY <2>1, <3>2, <3>5
    <2>2. CASE a \notin Bytes(start, size)
      <3>1. a \in Heap \ stored /\ MarksOf(memTaintMap, a) # {}
        BY <1>1, <1>3, <2>2 DEF MemoryKept
      <3>2. \A b : Reaches(b, a) => Reaches(b, a)'
        BY <1>1 DEF Reaches, MemoryKept
      <3>3. Cleared(a) => Cleared(a)'
        BY <1>2, <3>2 DEF Cleared
      <3>4. ASSUME NEW b \in DOMAIN live, a \in Block(b), ToTag(b) \/ Reaches(b, a), b \in gone
            PROVE  Cleared(a)'
        <4>1. Reaches(b, a)
          BY <1>6, <3>4, GoneUntagged
        <4>2. PICK k \in Range(free) : k.start = b
          BY <1>1, <3>4
        <4>3. k \in Pending' /\ k.op = "free" /\ Reaches(k.start, a)'
          BY <1>1, <1>2, <3>2, <4>1, <4>2
        <4> QED  BY <4>3 DEF Cleared
      <3>5. ASSUME NEW b \in DOMAIN live, a \in Block(b), ToTag(b) \/ Reaches(b, a), b \notin gone
            PROVE  b \in DOMAIN live' /\ a \in Bytes(b, live'[b]) /\ (ToTag(b)' \/ Reaches(b, a)')
        <4>1. b \in DOMAIN live' /\ live'[b] = live[b]
          BY <1>5, <3>5
        <4>2. ToTag(b) => ToTag(b)'
          BY <1>2, <4>1 DEF ToTag
        <4> QED  BY <3>2, <3>5, <4>1, <4>2 DEF Block
      <3> QED  BY <1>4, <3>1, <3>3, <3>4, <3>5 DEF Covered
    <2> QED  BY <2>1, <2>2
  <1> QED  BY <1>10, <1>12, <1>13

LEMMA FreedInit == Init => FreedInv
  <1> SUFFICES ASSUME Init PROVE Covered /\ TagsLive /\ CellsLive
    BY DEF FreedInv
  <1>1. Pending = {}
    BY DEF Init, Pending
  <1>2. \A a : MarksOf(memTaintMap, a) = {}
    BY DEF Init, MarksOf, NoEntries
  <1> QED  BY <1>1, <1>2 DEF Covered, TagsLive, CellsLive

LEMMA FreedNext == TypeInv /\ FreedInv /\ [Next]_vars => FreedInv'
  <1> SUFFICES ASSUME TypeInv, FreedInv, [Next]_vars PROVE FreedInv'
    OBVIOUS
  <1>1. ASSUME NEW t \in Threads, LoadCount(t) PROVE FreedInv'
    <2>1. Step(t, "load", << >>) /\ << >> \in Seq(Code) /\ UNCHANGED <<memTaintMap, live, stored, early>>
      BY <1>1 DEF LoadCount, tool, history
    <2>2. Runs(t, "load", << >>)
      BY <2>1, HeadRuns
    <2> QED  BY <2>1, <2>2, IdleFreed
  <1>2. ASSUME NEW t \in Threads, StoreCount(t) PROVE FreedInv'
    <2>1. Step(t, "count", << >>) /\ << >> \in Seq(Code) /\ UNCHANGED <<memTaintMap, live, stored, early>>
      BY <1>2 DEF StoreCount, tool, history
    <2>2. Runs(t, "count", << >>)
      BY <2>1, HeadRuns
    <2> QED  BY <2>1, <2>2, IdleFreed
  <1>3. ASSUME NEW t \in Threads, NewTag(t) PROVE FreedInv'
    <2>1. Step(t, "new", << >>) /\ << >> \in Seq(Code) /\ UNCHANGED <<memTaintMap, live, stored, early>>
      BY <1>3 DEF NewTag, history
    <2>2. Runs(t, "new", << >>)
      BY <2>1, HeadRuns
    <2> QED  BY <2>1, <2>2, IdleFreed
  <1>4. CASE Next
    BY <1>1, <1>2, <1>3, <1>4, StepCases, AllocationFreed, FreeFreed, ClearFreed, StoreFreed,
       FindFreed, AssignFreed, WriteFreed
  <1>5. CASE UNCHANGED vars
    <2>1. UNCHANGED <<memTaintMap, live, pending, stored, early>>
      BY <1>5 DEF vars, tool, history
    <2> QED  BY <2>1 DEF FreedInv, Covered, TagsLive, CellsLive, Cleared, ToTag, Reaches, Block,
                         Accessible, Pending
  <1> QED  BY <1>4, <1>5

\* Once the clears have run, no byte of the heap that is in no live block has the marks
\* of its block left, whichever threads allocated, freed and cleared meanwhile, as long
\* as nothing was used before it was tagged.
THEOREM FreedCleanAlways == Spec => []FreedClean
  <1>1. FreedInv => FreedClean
    BY DEF FreedInv, Covered, Cleared, FreedClean
  <1> QED  BY <1>1, TypeInvInit, TypeInvNext, FreedInit, FreedNext, PTL DEF Spec

------------------------------------------------------------------------------
(* The counter and the marks while allocations do not overlap. *)

\* Nobody is in the middle of an allocation.
Quiet == \A k \in Pending : k.id = 0

\* At most one allocation is under way, the last one, in one thread.
OneAtATime ==
    /\ \A k \in Pending : k.id # 0 => k.id = allocs
    /\ \A t, u \in Threads : \A k \in Range(pending[t]), l \in Range(pending[u]) :
          k.id # 0 /\ l.id # 0 => t = u
    /\ \A t \in Threads : Ends(pending[t])

\* The counter counts the allocations that are done.
Counter ==
    /\ ima_tag_count = IF Quiet THEN allocs ELSE allocs - 1
    /\ ~Quiet /\ allocs \in DOMAIN loaded => loaded[allocs] = allocs - 1

\* The last allocation has still to find its mark.
Unmarked == \E k \in Pending : k.op \in {"store", "tag", "new"}

\* The first n counts have marks, and the generator is at the next one.
MarksGivenTo(n) ==
    /\ DOMAIN tagMap = 0 .. (n - 1)
    /\ \A i \in 0 .. (n - 1) : tagMap[i] = i % NUMBER_OF_TAINT_MARKS
    /\ gen = [start |-> 0, current |-> n % NUMBER_OF_TAINT_MARKS]

MarksGiven == \/ MarksGivenTo(allocs)
              \/ Unmarked /\ allocs # 0 /\ MarksGivenTo(allocs - 1)

\* A tag gets a mark only if it has none.
NewTagsNew == \A k \in Pending : k.op = "new" => loaded[k.id] \notin DOMAIN tagMap

CountInv == ~overlapped => OneAtATime /\ Counter /\ MarksGiven /\ NewTagsNew

\* What a step of pending code, which goes on with code of the same allocation, leaves
\* of the allocation that is under way.
RunsAlone(t, op, code) ==
    /\ OneAtATime'
    /\ op \notin {"free", "count"} => ~Quiet /\ ~Quiet'
    /\ op = "free" => (Quiet' <=> Quiet)
    /\ op = "count" => ~Quiet /\ Quiet'
    /\ op # "free" => /\ Head(pending[t]).id = allocs /\ allocs # 0
                      /\ \A k \in Pending : k.id # 0 => k = Head(pending[t]) \/ k \in Range(Tail(pending[t]))
                      /\ \A k \in Pending' : k.id # 0 => k \in Range(code) \cup Range(Tail(pending[t]))

LEMMA OneKept ==
    ASSUME TypeInv, OneAtATime, NEW t \in Threads, NEW op, NEW code \in Seq(Code),
           Runs(t, op, code), UNCHANGED allocs,
           \A k \in Range(code) : k.op # "count" /\ k.id = Head(pending[t]).id,
           op \in {"free", "count"} => Range(code) = {}
    PROVE  RunsAlone(t, op, code)
  <1> DEFINE head == Head(pending[t])
             rest == Tail(pending[t])
  <1>1. /\ pending[t] \in Seq(Code) /\ pending[t] # << >> /\ rest \in Seq(Code)
        /\ head.op = op /\ CodeOK(head)
        /\ pending'[t] = code \o rest /\ \A u \in Threads : u # t => pending'[u] = pending[u]
        /\ Range(pending[t]) = {head} \cup Range(rest)
        /\ Range(pending'[t]) = Range(code) \cup Range(rest)
    BY DEF Runs
  <1>2. Ends(pending[t])
    BY DEF OneAtATime
  <1>3. /\ op # "count" => Ends(rest)
        /\ op = "count" => \A k \in Range(rest) : k.id = 0
    BY <1>1, <1>2, EndsTail
  <1>4. /\ head \in Pending
        /\ \A k \in Pending : k = head \/ k \in Pending'
        /\ \A k \in Pending' : k \in Range(code) \/ k \in Pending
        /\ Range(code) \subseteq Pending'
    BY PendingRuns
  <1>5. /\ op = "free" => head.id = 0
        /\ op # "free" => head.id # 0 /\ head.id = allocs
    BY <1>1, <1>4 DEF OneAtATime, CodeOK
  <1>6. op \notin {"free", "count"} => \E k \in Range(rest) : k.op = "count" /\ k.id # 0
    <2>1. op \notin {"free", "count"} => \E k \in Range(pending[t]) : k.op = "count"
      BY <1>1, <1>2, <1>5 DEF Ends
    <2>2. \A k \in Range(rest) : CodeOK(k)
      BY DEF Runs
    <2> HIDE DEF head, rest
    <2>3. \A k \in Range(rest) : k.op = "count" => k.id # 0
      BY <2>2 DEF CodeOK
    <2> QED  BY <1>1, <2>1, <2>3
  <1>7. \A u \in Threads : \A k \in Range(pending'[u]) :
           k.id # 0 => \E l \in Range(pending[u]) : l.id # 0 /\ l.id = k.id
    <2> SUFFICES ASSUME NEW u \in Threads, NEW k \in Range(pending'[u]), k.id # 0
                 PROVE  \E l \in Range(pending[u]) : l.id # 0 /\ l.id = k.id
      OBVIOUS
    <2>1. CASE u = t
      BY <1>1, <2>1
    <2>2. CASE u # t
      BY <1>1, <2>2
    <2> QED  BY <2>1, <2>2
  <1> HIDE DEF head, rest
  <1>8. OneAtATime'
    <2>1. \A k \in Pending' : k.id # 0 => k.id = allocs'
      <3> SUFFICES ASSUME NEW k \in Pending', k.id # 0 PROVE k.id = allocs
        OBVIOUS
      <3>1. PICK u \in Threads : k \in Range(pending'[u])
        BY DEF Pending, Range
      <3>2. PICK l \in Range(pending[u]) : l.id # 0 /\ l.id = k.id
        BY <1>7, <3>1
      <3> QED  BY <3>2, PendingOf DEF OneAtATime
    <2>2. \A v, u \in Threads : \A k \in Range(pending'[v]), l \in Range(pending'[u]) :
             k.id # 0 /\ l.id # 0 => v = u
      BY <1>7 DEF OneAtATime
    <2>3. Ends(pending'[t])
      <3>1. CASE op = "count"
        <4>1. \A k \in Range(pending'[t]) : k.id = 0
          BY <1>1, <1>3, <3>1
        <4>2. pending'[t] \in Seq(Code)
          BY DEF Runs
        <4>3. \A j \in DOMAIN pending'[t] : pending'[t][j] \in Range(pending'[t])
          BY DEF Range
        <4> QED  BY <4>1, <4>3 DEF Ends
      <3>2. CASE op # "count"
        <4>1. (\E k \in Range(code) : k.id # 0) => \E k \in Range(code) \cup Range(rest) : k.op = "count"
          BY <1>5, <1>6, <3>2 DEF head
        <4>2. Ends(rest) /\ \A k \in Range(code) : k.op # "count"
          BY <1>3, <3>2
        <4> QED  BY <1>1, <4>1, <4>2, EndsFront
      <3> QED  BY <3>1, <3>2
    <2>4. \A u \in Threads : Ends(pending'[u])
      <3>1. \A u \in Threads : u # t => Ends(pending'[u])
        BY <1>1 DEF OneAtATime
      <3> QED  BY <2>3, <3>1
    <2>5. \A u \in Threads : Ends(pending[u])'
      BY <2>4 DEF Ends
    <2> QED  BY <2>1, <2>2, <2>5 DEF OneAtATime
  <1>9. op # "free" => \A k \in Pending : k.id # 0 => k = head \/ k \in Range(rest)
    <2> SUFFICES ASSUME op # "free", NEW k \in Pending, k.id # 0
                 PROVE  k \in Range(pending[t])
      BY <1>1
    <2>1. PICK u \in Threads : k \in Range(pending[u])
      BY PendingOf
    <2>2. head \in Range(pending[t]) /\ head.id # 0
      BY <1>1, <1>5
    <2> QED  BY <2>1, <2>2 DEF OneAtATime
  <1>10. op # "free" => \A k \in Pending' : k.id # 0 => k \in Range(code) \cup Range(rest)
    <2> SUFFICES ASSUME op # "free", NEW k \in Pending', k.id # 0
                 PROVE  k \in Range(pending'[t])
      BY <1>1
    <2>1. PICK u \in Threads : k \in Range(pending'[u])
      BY DEF Pending, Range
    <2>2. PICK l \in Range(pending[u]) : l.id # 0
      BY <1>7, <2>1
    <2>3. head \in Range(pending[t]) /\ head.id # 0
      BY <1>1, <1>5
    <2>4. u = t
      BY <2>2, <2>3 DEF OneAtATime
    <2> QED  BY <2>1, <2>4
  <1>11. Range(rest) \subseteq Pending'
    <2>1. \A k \in Range(pending'[t]) : k \in Pending'
      BY DEF Pending, Range
    <2> QED  BY <1>1, <2>1
  <1>12. op \notin {"free", "count"} => ~Quiet /\ ~Quiet'
    BY <1>4, <1>5, <1>6, <1>11 DEF Quiet
  <1>13. op = "free" => (Quiet' <=> Quiet)
    BY <1>4, <1>5 DEF Quiet, head
  <1>14. op = "count" => ~Quiet /\ Quiet'
    BY <1>3, <1>4, <1>5, <1>10 DEF Quiet
  <1> QED  BY <1>5, <1>8, <1>9, <1>10, <1>12, <1>13, <1>14 DEF RunsAlone, head, rest

\* What the code of the allocation that is under way has loaded.
LEMMA LoadedLast ==
    ASSUME TypeInv, OneAtATime, Counter, NEW t \in Threads,
           NEW op \in {"tag", "new", "assign", "count"}, NEW code, Runs(t, op, code)
    PROVE  /\ Head(pending[t]).id = allocs /\ allocs \in Nat \ {0}
           /\ allocs \in DOMAIN loaded /\ loaded[allocs] = allocs - 1 /\ ~Quiet
  <1> DEFINE head == Head(pending[t])
  <1>1. head.op = op /\ CodeOK(head) /\ head.id \in DOMAIN loaded
    BY DEF Runs
  <1>2. head \in Pending
    BY PendingRuns
  <1>3. head.id # 0 /\ head.id \in Nat
    BY <1>1 DEF CodeOK
  <1> QED  BY <1>1, <1>2, <1>3 DEF OneAtATime, Counter, Quiet

LEMMA LoadCounts ==
    ASSUME TypeInv, CountInv, NEW t \in Threads, LoadCount(t)
    PROVE  CountInv'
  <1> DEFINE head == Head(pending[t])
             rest == Tail(pending[t])
  <1>1. Step(t, "load", << >>) /\ << >> \in Seq(Code) /\ Range(<< >>) = {}
    BY DEF LoadCount, Range
  <1>2. Runs(t, "load", << >>)
    BY <1>1, HeadRuns
  <1>3. UNCHANGED <<tagMap, gen, ima_tag_count, allocs, overlapped>>
    BY DEF LoadCount, tool, history
  <1> SUFFICES ASSUME ~overlapped PROVE OneAtATime' /\ Counter' /\ MarksGiven' /\ NewTagsNew'
    BY <1>3 DEF CountInv
  <1>4. OneAtATime /\ Counter /\ MarksGiven
    BY DEF CountInv
  <1>5. RunsAlone(t, "load", << >>)
    BY <1>1, <1>2, <1>3, <1>4, OneKept
  <1>6. OneAtATime' /\ ~Quiet /\ ~Quiet' /\ head.id = allocs
    BY <1>5 DEF RunsAlone
  <1>7. loaded' = Put(loaded, {allocs}, ima_tag_count)
    BY <1>6 DEF LoadCount
  <1>8. Counter'
    BY <1>3, <1>4, <1>6, <1>7 DEF Counter, Put
  <1>9. head.op = "load" /\ \A k \in Pending : k = head \/ k \in Pending'
    BY <1>2, PendingRuns DEF Runs
  <1>10. Unmarked => Unmarked'
    <2> HIDE DEF head
    <2> QED  BY <1>9 DEF Unmarked
  <1>11. MarksGiven'
    BY <1>3, <1>4, <1>10 DEF MarksGiven, MarksGivenTo
  <1>12. \A k \in Pending' : k.op # "new"
    <2> SUFFICES ASSUME NEW k \in Pending', k.op = "new" PROVE FALSE
      OBVIOUS
    <2>1. k.id # 0
      <3>1. k \in Pending
        BY <1>1, <1>2, PendingRuns
      <3>2. CodeOK(k)
        BY <3>1, PendingType
      <3> QED  BY <3>2 DEF CodeOK
    <2>2. k \in Range(rest)
      BY <1>1, <1>5, <2>1 DEF RunsAlone
    <2> QED  BY <1>2, <2>2 DEF Runs
  <1> QED  BY <1>6, <1>8, <1>11, <1>12 DEF NewTagsNew

LEMMA StoreCounts ==
    ASSUME TypeInv, CountInv, NEW t \in Threads, StoreCount(t)
    PROVE  CountInv'
  <1> DEFINE head == Head(pending[t])
             rest == Tail(pending[t])
  <1>1. Step(t, "count", << >>) /\ << >> \in Seq(Code) /\ Range(<< >>) = {}
    BY DEF StoreCount, Range
  <1>2. Runs(t, "count", << >>)
    BY <1>1, HeadRuns
  <1>3. UNCHANGED <<tagMap, gen, loaded, allocs, overlapped>>
    BY DEF StoreCount, tool, history
  <1> SUFFICES ASSUME ~overlapped PROVE OneAtATime' /\ Counter' /\ MarksGiven' /\ NewTagsNew'
    BY <1>3 DEF CountInv
  <1>4. OneAtATime /\ Counter /\ MarksGiven
    BY DEF CountInv
  <1>5. RunsAlone(t, "count", << >>)
    BY <1>1, <1>2, <1>3, <1>4, OneKept
  <1>6. OneAtATime' /\ Quiet'
    BY <1>5 DEF RunsAlone
  <1>7. head.id = allocs /\ allocs \in Nat \ {0} /\ loaded[allocs] = allocs - 1
    BY <1>2, <1>4, LoadedLast
  <1>8. Counter'
    BY <1>3, <1>6, <1>7 DEF Counter, StoreCount
  <1>9. ~Unmarked
    <2> SUFFICES ASSUME NEW k \in Pending, k.op \in {"store", "tag", "new"} PROVE FALSE
      BY DEF Unmarked
    <2>1. k.id # 0
      BY PendingType DEF CodeOK
    <2>2. k = head \/ k \in Pending'
      BY <1>2, PendingRuns
    <2>3. head.op = "count"
      BY <1>2 DEF Runs
    <2> QED  BY <1>6, <2>1, <2>2, <2>3 DEF Quiet
  <1>10. MarksGiven'
    BY <1>3, <1>4, <1>9 DEF MarksGiven, MarksGivenTo
  <1>11. \A k \in Pending' : k.op # "new"
    <2> SUFFICES ASSUME NEW k \in Pending', k.op = "new" PROVE FALSE
      OBVIOUS
    <2>1. k \in Pending
      BY <1>1, <1>2, PendingRuns
    <2>2. k.id # 0
      BY <2>1, PendingType DEF CodeOK
    <2> QED  BY <1>6, <2>2 DEF Quiet
  <1> QED  BY <1>6, <1>8, <1>10, <1>11 DEF NewTagsNew

LEMMA ClearCounts ==
    ASSUME TypeInv, CountInv, NEW t \in Threads, Clear(t)
    PROVE  CountInv'
  <1> DEFINE head == Head(pending[t])
  <1>1. Step(t, "free", << >>) /\ << >> \in Seq(Code) /\ Range(<< >>) = {}
    BY DEF Clear, Range
  <1>2. Runs(t, "free", << >>)
    BY <1>1, HeadRuns
  <1>3. UNCHANGED <<tagMap, gen, ima_tag_count, loaded, allocs, overlapped>>
    BY DEF Clear, history
  <1> SUFFICES ASSUME ~overlapped PROVE OneAtATime' /\ Counter' /\ MarksGiven' /\ NewTagsNew'
    BY <1>3 DEF CountInv
  <1>4. OneAtATime /\ Counter /\ MarksGiven /\ NewTagsNew
    BY DEF CountInv
  <1>5. RunsAlone(t, "free", << >>)
    BY <1>1, <1>2, <1>3, <1>4, OneKept
  <1>6. OneAtATime' /\ (Quiet' <=> Quiet)
    BY <1>5 DEF RunsAlone
  <1>7. Counter'
    BY <1>3, <1>4, <1>6 DEF Counter
  <1>8. head.op = "free" /\ \A k \in Pending : k = head \/ k \in Pending'
    BY <1>2, PendingRuns DEF Runs
  <1>9. Unmarked => Unmarked'
    <2> HIDE DEF head
    <2> QED  BY <1>8 DEF Unmarked
  <1>10. MarksGiven'
    BY <1>3, <1>4, <1>9 DEF MarksGiven, MarksGivenTo
  <1>11. \A k \in Pending' : k \in Pending
    BY <1>1, <1>2, PendingRuns
  <1>12. NewTagsNew'
    BY <1>3, <1>4, <1>11 DEF NewTagsNew
  <1> QED  BY <1>6, <1>7, <1>10, <1>12

LEMMA StoreResultCounts ==
    ASSUME TypeInv, CountInv, NEW t \in Threads, StoreResult(t)
    PROVE  CountInv'
  <1> DEFINE head == Head(pending[t])
             pointer == Tag("tag", head.id, head.cell, 1)
             block == Tag("tag", head.id, head.start, head.size)
  <1>1. /\ Runs(t, "store", StoreTags(head)) /\ StoreTags(head) \in Seq(Code)
        /\ Range(StoreTags(head)) = {pointer, block}
        /\ pointer.op = "tag" /\ pointer.id = head.id
        /\ block.op = "tag" /\ block.id = head.id
    BY StoreRuns
  <1>2. UNCHANGED <<tagMap, gen, ima_tag_count, loaded, allocs, overlapped>>
    BY DEF StoreResult
  <1> SUFFICES ASSUME ~overlapped PROVE OneAtATime' /\ Counter' /\ MarksGiven' /\ NewTagsNew'
    BY <1>2 DEF CountInv
  <1>3. OneAtATime /\ Counter /\ MarksGiven /\ NewTagsNew
    BY DEF CountInv
  <1> HIDE DEF pointer, block
  <1>4. RunsAlone(t, "store", StoreTags(head))
    <2> DEFINE code == StoreTags(head)
    <2>1. \A k \in Range(code) : k.op # "count" /\ k.id = Head(pending[t]).id
      BY <1>1
    <2>2. code \in Seq(Code) /\ Runs(t, "store", code)
      BY <1>1
    <2> HIDE DEF code
    <2>3. RunsAlone(t, "store", code)
      BY <1>2, <1>3, <2>1, <2>2, OneKept
    <2> QED  BY <2>3 DEF code
  <1>5. OneAtATime' /\ ~Quiet /\ ~Quiet'
    BY <1>4 DEF RunsAlone
  <1>6. Counter'
    BY <1>2, <1>3, <1>5 DEF Counter
  <1>7. /\ \A k \in Pending' : k \in {pointer, block} \/ k \in Pending
        /\ pointer \in Pending'
    BY <1>1, PendingRuns
  <1>8. MarksGiven'
    BY <1>1, <1>2, <1>3, <1>7 DEF MarksGiven, MarksGivenTo, Unmarked
  <1>9. NewTagsNew'
    BY <1>1, <1>2, <1>3, <1>7 DEF NewTagsNew
  <1> QED  BY <1>5, <1>6, <1>8, <1>9

LEMMA FindCounts ==
    ASSUME TypeInv, CountInv, NEW t \in Threads, FindTag(t)
    PROVE  CountInv'
  <1> DEFINE head == Head(pending[t])
             assign == Tag("assign", head.id, head.start, head.size)
             new == Run("new", head.id)
             known == loaded[head.id] \in DOMAIN tagMap
  <1>1. /\ Runs(t, "tag", FindCode(head)) /\ FindCode(head) \in Seq(Code)
        /\ Range(FindCode(head)) = IF known THEN {assign} ELSE {new, assign}
        /\ assign.op = "assign" /\ assign.id = head.id
        /\ new.op = "new" /\ new.id = head.id
    BY FindRuns
  <1>2. UNCHANGED <<tagMap, gen, ima_tag_count, loaded, allocs, overlapped>>
    BY DEF FindTag, tool, history
  <1> SUFFICES ASSUME ~overlapped PROVE OneAtATime' /\ Counter' /\ MarksGiven' /\ NewTagsNew'
    BY <1>2 DEF CountInv
  <1>3. OneAtATime /\ Counter /\ MarksGiven /\ NewTagsNew
    BY DEF CountInv
  <1> HIDE DEF assign, new, known
  <1>4. RunsAlone(t, "tag", FindCode(head))
    <2> DEFINE code == FindCode(head)
    <2>1. \A k \in Range(code) : k.op # "count" /\ k.id = Head(pending[t]).id
      BY <1>1
    <2>2. code \in Seq(Code) /\ Runs(t, "tag", code)
      BY <1>1
    <2> HIDE DEF code
    <2>3. RunsAlone(t, "tag", code)
      BY <1>2, <1>3, <2>1, <2>2, OneKept
    <2> QED  BY <2>3 DEF code
  <1>5. OneAtATime' /\ ~Quiet /\ ~Quiet'
    BY <1>4 DEF RunsAlone
  <1>6. Counter'
    BY <1>2, <1>3, <1>5 DEF Counter
  <1>7. /\ \A k \in Pending' : k \in Range(FindCode(head)) \/ k \in Pending
        /\ Range(FindCode(head)) \subseteq Pending'
    BY <1>1, PendingRuns
  <1>8. head.id = allocs /\ allocs \in Nat \ {0} /\ loaded[allocs] = allocs - 1
    BY <1>1, <1>3, LoadedLast
  <1>9. MarksGiven'
    <2>1. CASE known
      <3>1. allocs - 1 \in DOMAIN tagMap
        BY <1>8, <2>1 DEF known
      <3>2. ~MarksGivenTo(allocs - 1)
        BY <1>8, <3>1 DEF MarksGivenTo
      <3>3. MarksGivenTo(allocs)
        BY <1>3, <3>2 DEF MarksGiven
      <3> QED  BY <1>2, <3>3 DEF MarksGiven, MarksGivenTo
    <2>2. CASE ~known
      <3>1. new \in Pending'
        BY <1>1, <1>7, <2>2
      <3>2. Unmarked'
        BY <1>1, <3>1 DEF Unmarked
      <3> QED  BY <1>2, <1>3, <3>2 DEF MarksGiven, MarksGivenTo
    <2> QED  BY <2>1, <2>2
  <1>10. NewTagsNew'
    <2> SUFFICES ASSUME NEW k \in Pending', k.op = "new" PROVE loaded[k.id] \notin DOMAIN tagMap
      BY <1>2 DEF NewTagsNew
    <2>1. CASE k \in Pending
      BY <1>3, <2>1 DEF NewTagsNew
    <2>2. CASE k \in Range(FindCode(head))
      BY <1>1, <2>2 DEF known
    <2> QED  BY <1>7, <2>1, <2>2
  <1> QED  BY <1>5, <1>6, <1>9, <1>10

LEMMA NewCounts ==
    ASSUME TypeInv, CountInv, NEW t \in Threads, NewTag(t)
    PROVE  CountInv'
  <1> DEFINE head == Head(pending[t])
             N == NUMBER_OF_TAINT_MARKS
  <1>1. Step(t, "new", << >>) /\ << >> \in Seq(Code) /\ Range(<< >>) = {}
    BY DEF NewTag, Range
  <1>2. Runs(t, "new", << >>)
    BY <1>1, HeadRuns
  <1>3. UNCHANGED <<ima_tag_count, loaded, allocs, overlapped>>
    BY DEF NewTag, history
  <1> SUFFICES ASSUME ~overlapped PROVE OneAtATime' /\ Counter' /\ MarksGiven' /\ NewTagsNew'
    BY <1>3 DEF CountInv
  <1>4. OneAtATime /\ Counter /\ MarksGiven /\ NewTagsNew
    BY DEF CountInv
  <1>5. RunsAlone(t, "new", << >>)
    BY <1>1, <1>2, <1>3, <1>4, OneKept
  <1>6. OneAtATime' /\ ~Quiet /\ ~Quiet'
    BY <1>5 DEF RunsAlone
  <1>7. Counter'
    BY <1>3, <1>4, <1>6 DEF Counter
  <1>8. head.id = allocs /\ allocs \in Nat \ {0} /\ loaded[allocs] = allocs - 1
    BY <1>2, <1>4, LoadedLast
  <1>9. allocs - 1 \notin DOMAIN tagMap
    <2>1. head \in Pending /\ head.op = "new"
      BY <1>2, PendingRuns DEF Runs
    <2> QED  BY <1>4, <1>8, <2>1 DEF NewTagsNew
  <1>10. MarksGivenTo(allocs - 1)
    <2>1. ~MarksGivenTo(allocs)
      BY <1>8, <1>9 DEF MarksGivenTo
    <2> QED  BY <1>4, <2>1 DEF MarksGiven
  <1>11. gen.start = 0 /\ gen.current = (allocs - 1) % N
    BY <1>10 DEF MarksGivenTo
  <1>12. gen' = [start |-> 0, current |-> allocs % N]
    <2>1. gen \in [start : Mark, current : Mark] /\ gen' = nextTaintMark(gen)
      BY DEF NewTag, TypeInv, TypeOK
    <2>2. /\ gen' \in [start : Mark, current : Mark] /\ gen'.start = 0
          /\ gen'.current = IF gen.current + 1 = N THEN 0 ELSE gen.current + 1
      BY <1>11, <2>1, NextMark
    <2>3. allocs - 1 \in Nat /\ (allocs - 1) + 1 = allocs /\ N \in Nat \ {0}
      BY <1>8, MarksAssumption
    <2>4. ((allocs - 1) + 1) % N = IF ((allocs - 1) % N) + 1 = N THEN 0 ELSE ((allocs - 1) % N) + 1
      BY <2>3, NextRemainder
    <2>5. gen'.current = allocs % N
      BY <1>11, <2>2, <2>3, <2>4
    <2> QED  BY <2>2, <2>5
  <1>13. tagMap' = Put(tagMap, {allocs - 1}, (allocs - 1) % N)
    BY <1>8, <1>11 DEF NewTag
  <1>14. MarksGivenTo(allocs)'
    <2>1. DOMAIN tagMap' = {allocs - 1} \cup 0 .. ((allocs - 1) - 1)
      BY <1>10, <1>13 DEF MarksGivenTo, Put
    <2>2. DOMAIN tagMap' = 0 .. (allocs - 1)
      BY <1>8, <2>1
    <2>3. \A i \in 0 .. (allocs - 1) : tagMap'[i] = i % N
      <3> SUFFICES ASSUME NEW i \in 0 .. (allocs - 1) PROVE tagMap'[i] = i % N
        OBVIOUS
      <3>1. CASE i = allocs - 1
        BY <1>13, <3>1 DEF Put
      <3>2. CASE i # allocs - 1
        <4>1. i \in 0 .. ((allocs - 1) - 1)
          BY <1>8, <3>2
        <4>2. i \in DOMAIN tagMap /\ tagMap[i] = i % N
          BY <1>10, <4>1 DEF MarksGivenTo
        <4> QED  BY <1>13, <3>2, <4>2 DEF Put
      <3> QED  BY <3>1, <3>2
    <2> QED  BY <1>3, <1>12, <2>2, <2>3 DEF MarksGivenTo
  <1>15. \A k \in Pending' : k.op # "new"
    <2> SUFFICES ASSUME NEW k \in Pending', k.op = "new" PROVE FALSE
      OBVIOUS
    <2>1. k \in Pending
      BY <1>1, <1>2, PendingRuns
    <2>2. k.id # 0
      BY <2>1, PendingType DEF CodeOK
    <2>3. k \in Range(Tail(pending[t]))
      BY <1>1, <1>5, <2>2 DEF RunsAlone
    <2> QED  BY <1>2, <2>3 DEF Runs
  <1> QED  BY <1>6, <1>7, <1>14, <1>15 DEF MarksGiven, NewTagsNew

\* The mark that is assigned is that of the last allocation.
LEMMA AssignsLast ==
    ASSUME TypeInv, CountInv, ~overlapped, NEW t \in Threads, Runs(t, "assign", << >>)
    PROVE  /\ Head(pending[t]).id = allocs /\ allocs \in Nat \ {0}
           /\ tagMap[loaded[Head(pending[t]).id]] = (allocs - 1) % NUMBER_OF_TAINT_MARKS
           /\ MarksGivenTo(allocs)
  <1>1. OneAtATime /\ Counter /\ MarksGiven
    BY DEF CountInv
  <1>2. Head(pending[t]).id = allocs /\ allocs \in Nat \ {0} /\ loaded[allocs] = allocs - 1
    BY <1>1, LoadedLast
  <1>3. allocs - 1 \in DOMAIN tagMap
    BY <1>2 DEF Runs
  <1>4. ~MarksGivenTo(allocs - 1)
    BY <1>2, <1>3 DEF MarksGivenTo
  <1>5. MarksGivenTo(allocs)
    BY <1>1, <1>4 DEF MarksGiven
  <1> QED  BY <1>2, <1>3, <1>5 DEF MarksGivenTo

LEMMA AssignCounts ==
    ASSUME TypeInv, CountInv, NEW t \in Threads, AssignTag(t)
    PROVE  CountInv'
  <1>1. Step(t, "assign", << >>) /\ << >> \in Seq(Code) /\ Range(<< >>) = {}
    BY DEF AssignTag, Range
  <1>2. Runs(t, "assign", << >>)
    BY <1>1, HeadRuns
  <1>3. UNCHANGED <<tagMap, gen, ima_tag_count, loaded, allocs, overlapped>>
    BY DEF AssignTag, history
  <1> SUFFICES ASSUME ~overlapped PROVE OneAtATime' /\ Counter' /\ MarksGiven' /\ NewTagsNew'
    BY <1>3 DEF CountInv
  <1>4. OneAtATime /\ Counter /\ NewTagsNew
    BY DEF CountInv
  <1>5. RunsAlone(t, "assign", << >>)
    BY <1>1, <1>2, <1>3, <1>4, OneKept
  <1>6. OneAtATime' /\ ~Quiet /\ ~Quiet'
    BY <1>5 DEF RunsAlone
  <1>7. Counter'
    BY <1>3, <1>4, <1>6 DEF Counter
  <1>8. MarksGivenTo(allocs)
    BY <1>2, AssignsLast
  <1>9. MarksGiven'
    BY <1>3, <1>8 DEF MarksGiven, MarksGivenTo
  <1>10. NewTagsNew'
    BY <1>1, <1>2, <1>3, <1>4, PendingRuns DEF NewTagsNew
  <1> QED  BY <1>6, <1>7, <1>9, <1>10

LEMMA FreeCounts ==
    ASSUME TypeInv, CountInv, NEW t \in Threads, NEW old, Free(t, old)
    PROVE  CountInv'
  <1> DEFINE clear == Tag("free", 0, old, 0)
  <1>1. /\ Freed(t, old) /\ clear.op = "free" /\ clear.id = 0 /\ clear \in Code
        /\ \A u \in Threads : u # t => pending'[u] = pending[u]
        /\ pending'[t] = FreeTags(old) \o pending[t] /\ pending[t] \in Seq(Code)
        /\ Range(pending'[t]) = {clear} \cup Range(pending[t])
        /\ old \in Heap \cup {NULL}
        /\ UNCHANGED <<tagMap, gen, ima_tag_count, loaded, allocs, overlapped>>
    BY FreeRuns DEF Freed
  <1>2. FreeTags(old) \in Seq(Code) /\ Range(FreeTags(old)) = {clear}
    BY <1>1, FreeTagsCode
  <1> HIDE DEF clear
  <1> SUFFICES ASSUME ~overlapped PROVE OneAtATime' /\ Counter' /\ MarksGiven' /\ NewTagsNew'
    BY <1>1 DEF CountInv
  <1>3. OneAtATime /\ Counter /\ MarksGiven /\ NewTagsNew
    BY DEF CountInv
  <1>4. \A u \in Threads : Range(pending'[u]) = IF u = t THEN {clear} \cup Range(pending[u])
                                                         ELSE Range(pending[u])
    BY <1>1
  <1>5. \A k : k \in Pending' <=> k = clear \/ k \in Pending
    <2>1. \A k : k \in Pending' <=> \E u \in Threads : k \in Range(pending'[u])
      BY DEF Pending, Range
    <2> QED  BY <1>4, <2>1, PendingOf
  <1>6. Quiet' <=> Quiet
    BY <1>1, <1>5 DEF Quiet
  <1>7. Counter'
    BY <1>1, <1>3, <1>6 DEF Counter
  <1>8. MarksGiven'
    BY <1>1, <1>3, <1>5 DEF MarksGiven, MarksGivenTo, Unmarked
  <1>9. NewTagsNew'
    BY <1>1, <1>3, <1>5 DEF NewTagsNew
  <1>10. OneAtATime'
    <2>1. \A k \in Pending' : k.id # 0 => k.id = allocs'
      BY <1>1, <1>3, <1>5 DEF OneAtATime
    <2>2. \A v, u \in Threads : \A k \in Range(pending'[v]), l \in Range(pending'[u]) :
             k.id # 0 /\ l.id # 0 => v = u
      <3>1. \A u \in Threads : \A k \in Range(pending'[u]) : k.id # 0 => k \in Range(pending[u])
        BY <1>1, <1>4
      <3> QED  BY <1>3, <3>1 DEF OneAtATime
    <2>3. Ends(pending'[t])
      <3>1. Ends(pending[t])
        BY <1>3 DEF OneAtATime
      <3>2. \A k \in Range(FreeTags(old)) : k.op # "count" /\ k.id = 0
        BY <1>1, <1>2
      <3> QED  BY <1>1, <1>2, <3>1, <3>2, EndsFront
    <2>4. \A u \in Threads : Ends(pending'[u])
      <3>1. \A u \in Threads : u # t => Ends(pending'[u])
        BY <1>1, <1>3 DEF OneAtATime
      <3> QED  BY <2>3, <3>1
    <2>5. \A u \in Threads : Ends(pending[u])'
      BY <2>4 DEF Ends
    <2> QED  BY <2>1, <2>2, <2>5 DEF OneAtATime
  <1> QED  BY <1>7, <1>8, <1>9, <1>10

LEMMA AllocationCounts ==
    ASSUME TypeInv, CountInv, NEW t \in Threads, AllocationStep(t)
    PROVE  CountInv'
  <1>1. PICK stores \in Stores, size \in Sizes, start \in Heap \cup {NULL}, free \in Seq(Code) :
          /\ Begun(t, stores, start, size, free)
          /\ \A k \in Range(free) : k.op = "free" /\ CodeOK(k)
    BY DEF AllocationStep
  <1> DEFINE load == Run("load", allocs + 1)
             count == Run("count", allocs + 1)
             store == StoreCode(stores, allocs + 1, start, size)
  <1>2. \A k : k \in Pending' <=>
           k \in Pending \/ k \in Range(free) \/ k \in {load, count} \/ k \in Range(store)
    BY <1>1, PendingBegun
  <1>3. /\ load.op = "load" /\ load.id = allocs + 1 /\ count.op = "count" /\ count.id = allocs + 1
        /\ Range(store) # {} /\ \A k \in Range(store) : k.op = "store" /\ k.id = allocs + 1
        /\ allocs \in Nat /\ allocs' = allocs + 1
        /\ \A u \in Threads : u # t => pending'[u] = pending[u]
        /\ overlapped' = (overlapped \/ \E code \in Pending : code.id # 0)
        /\ (\A k \in Range(free) : k.op # "count") /\ (\A k \in Range(pending[t]) : k.id = 0) =>
              Ends(pending'[t])
        /\ UNCHANGED <<tagMap, gen, ima_tag_count, loaded>>
    BY <1>1 DEF Begun
  <1> HIDE DEF load, count, store
  <1> SUFFICES ASSUME ~overlapped' PROVE OneAtATime' /\ Counter' /\ MarksGiven' /\ NewTagsNew'
    BY DEF CountInv
  <1>4. ~overlapped /\ Quiet
    BY <1>3 DEF Quiet
  <1>5. OneAtATime /\ Counter /\ MarksGiven
    BY <1>4 DEF CountInv
  <1>6. \A k \in Range(free) : k.op = "free" /\ k.id = 0
    BY <1>1 DEF CodeOK
  <1>7. \A k \in Pending : k.id = 0 /\ k.op = "free"
    <2> SUFFICES ASSUME NEW k \in Pending PROVE k.id = 0 /\ k.op = "free"
      OBVIOUS
    <2>1. CodeOK(k) /\ allocs \in Nat
      BY <1>3, PendingType
    <2> QED  BY <1>4, <2>1 DEF Quiet, CodeOK
  <1>8. ~Quiet' /\ Unmarked' /\ allocs + 1 # 0
    BY <1>2, <1>3 DEF Quiet, Unmarked
  <1>9. Counter'
    <2>1. DOMAIN loaded \subseteq 1 .. allocs /\ ima_tag_count \in Nat
      BY DEF TypeInv, TypeOK
    <2>2. allocs' \notin DOMAIN loaded' /\ ima_tag_count' = allocs' - 1
      BY <1>3, <1>4, <1>5, <2>1 DEF Counter
    <2> QED  BY <1>8, <2>2 DEF Counter
  <1>10. MarksGiven'
    <2>1. ~Unmarked
      BY <1>7 DEF Unmarked
    <2>2. MarksGivenTo(allocs)
      BY <1>5, <2>1 DEF MarksGiven
    <2>3. allocs' - 1 = allocs
      BY <1>3
    <2>4. MarksGivenTo(allocs - 1)'
      BY <1>3, <2>2, <2>3 DEF MarksGivenTo
    <2> QED  BY <1>3, <1>8, <2>4 DEF MarksGiven
  <1>11. NewTagsNew'
    BY <1>2, <1>3, <1>6, <1>7 DEF NewTagsNew
  <1>12. OneAtATime'
    <2>1. \A k \in Pending' : k.id # 0 => k.id = allocs'
      BY <1>2, <1>3, <1>6, <1>7
    <2>2. \A u \in Threads : u # t => \A k \in Range(pending'[u]) : k.id = 0
      BY <1>3, <1>7, PendingOf
    <2>3. \A v, u \in Threads : \A k \in Range(pending'[v]), l \in Range(pending'[u]) :
             k.id # 0 /\ l.id # 0 => v = u
      BY <2>2
    <2>4. Ends(pending'[t])
      <3>1. \A k \in Range(pending[t]) : k.id = 0
        BY <1>7, PendingOf
      <3> QED  BY <1>3, <1>6, <3>1
    <2>5. \A u \in Threads : Ends(pending'[u])
      <3>1. \A u \in Threads : u # t => Ends(pending'[u])
        BY <1>3, <1>5 DEF OneAtATime
      <3> QED  BY <2>4, <3>1
    <2>6. \A u \in Threads : Ends(pending[u])'
      BY <2>5 DEF Ends
    <2> QED  BY <2>1, <2>3, <2>6 DEF OneAtATime
  <1> QED  BY <1>9, <1>10, <1>11, <1>12

LEMMA CountInit == Init => CountInv
  <1> SUFFICES ASSUME Init PROVE OneAtATime /\ Counter /\ MarksGiven /\ NewTagsNew
    BY DEF CountInv
  <1>1. Pending = {} /\ \A t \in Threads : Range(pending[t]) = {} /\ DOMAIN pending[t] = {}
    BY DEF Init, Pending, Range
  <1>2. allocs = 0 /\ ima_tag_count = 0 /\ tagMap = NoEntries /\ gen = [start |-> 0, current |-> 0]
    BY DEF Init
  <1>3. 0 % NUMBER_OF_TAINT_MARKS = 0
    <2>1. NUMBER_OF_TAINT_MARKS \in Nat \ {0}
      BY MarksAssumption
    <2> QED  BY <2>1, SMT
  <1>4. MarksGivenTo(allocs)
    BY <1>2, <1>3 DEF MarksGivenTo, NoEntries
  <1> QED  BY <1>1, <1>2, <1>4 DEF OneAtATime, Ends, Counter, Quiet, MarksGiven, NewTagsNew

LEMMA CountNext == TypeInv /\ CountInv /\ [Next]_vars => CountInv'
  <1> SUFFICES ASSUME TypeInv, CountInv, [Next]_vars PROVE CountInv'
    OBVIOUS
  <1>1. ASSUME UNCHANGED <<tagMap, gen, ima_tag_count, loaded, pending, allocs, overlapped>>
        PROVE  CountInv'
    BY <1>1 DEF CountInv, OneAtATime, Ends, Counter, MarksGiven, MarksGivenTo, NewTagsNew,
                Unmarked, Quiet, Pending
  <1>2. ASSUME NEW t \in Threads, NEW operands, NEW to, Write(t, operands, to) PROVE CountInv'
    <2>1. UNCHANGED <<tagMap, gen, ima_tag_count, loaded, pending, allocs, overlapped>>
      BY <1>2 DEF Write
    <2> QED  BY <1>1, <2>1
  <1>3. CASE Next
    BY <1>2, <1>3, StepCases, AllocationCounts, FreeCounts, LoadCounts, ClearCounts,
       StoreResultCounts, StoreCounts, FindCounts, NewCounts, AssignCounts
  <1>4. CASE UNCHANGED vars
    <2>1. UNCHANGED <<tagMap, gen, ima_tag_count, loaded, pending, allocs, overlapped>>
      BY <1>4 DEF vars, tool, history
    <2> QED  BY <1>1, <2>1
  <1> QED  BY <1>3, <1>4

------------------------------------------------------------------------------
(* The marks of values and those of where they come from. *)

\* What will be tagged comes from the allocation it is tagged for.
TagsOwn ==
    \A k \in Pending : k.op \in Tags =>
       \A a \in Bytes(k.start, k.size) \cap Memory : origin[a] = {k.id}

Agrees(a) ==
    \/ MarksOf(memTaintMap, a) = MarksOfOrigin(a)
    \/ MarksOf(memTaintMap, a) = {} /\ a \in Heap

AgreeInv == ~early /\ ~overlapped => TagsOwn /\ \A a \in Memory \ Untagged : Agrees(a)

\* What other code than tags has of bytes is none.
LEMMA UntaggedTags ==
    ASSUME TypeInv, NEW a \in Untagged
    PROVE  \E k \in Pending : k.op \in Tags /\ a \in Bytes(k.start, k.size)
  <1>1. PICK k \in Pending : a \in Bytes(k.start, k.size)
    BY DEF Untagged
  <1>2. CodeOK(k) /\ k.start \in Nat /\ k \in Code
    BY PendingType
  <1>3. k.size # 0
    BY <1>1, <1>2 DEF Bytes
  <1>4. k.op \in Tags
    BY <1>2, <1>3 DEF CodeOK, Code, Tags
  <1> QED  BY <1>1, <1>4

\* A step that keeps the values, and where they come from, keeps them in agreement, if
\* what is to be tagged stays the same.
LEMMA AgreeKept ==
    ASSUME TypeInv, AgreeInv, UNCHANGED origin, early => early', overlapped => overlapped',
           \A a \in Variables : MarksOf(memTaintMap', a) = MarksOf(memTaintMap, a),
           \A a \in Heap : MarksOf(memTaintMap', a) \in {{}, MarksOf(memTaintMap, a)},
           \A k \in Pending : k.op \in Tags =>
              \E l \in Pending' : l.start = k.start /\ l.size = k.size,
           \A l \in Pending' : l.op \in Tags =>
              \E k \in Pending : /\ k.op \in Tags /\ k.start = l.start /\ k.size = l.size
                                 /\ k.id = l.id
    PROVE  AgreeInv'
  <1> SUFFICES ASSUME ~early, ~overlapped
               PROVE  TagsOwn' /\ \A a \in Memory \ Untagged' : Agrees(a)'
    BY DEF AgreeInv
  <1>1. TagsOwn /\ \A a \in Memory \ Untagged : Agrees(a)
    BY DEF AgreeInv
  <1>2. TagsOwn'
    BY <1>1 DEF TagsOwn
  <1>3. \A a \in Untagged : a \in Untagged'
    <2> SUFFICES ASSUME NEW a \in Untagged PROVE a \in Untagged'
      OBVIOUS
    <2>1. PICK k \in Pending : k.op \in Tags /\ a \in Bytes(k.start, k.size)
      BY UntaggedTags
    <2>2. PICK l \in Pending' : l.start = k.start /\ l.size = k.size
      BY <2>1
    <2> QED  BY <2>1, <2>2 DEF Untagged
  <1>4. ASSUME NEW a \in Memory \ Untagged' PROVE Agrees(a)'
    <2>1. Agrees(a)
      BY <1>1, <1>3
    <2>2. MarksOfOrigin(a)' = MarksOfOrigin(a)
      BY DEF MarksOfOrigin
    <2> QED  BY <2>1, <2>2 DEF Agrees, Memory
  <1> QED  BY <1>2, <1>4

LEMMA IdleAgree ==
    ASSUME TypeInv, AgreeInv, NEW t \in Threads, NEW op \in {"load", "count", "new"},
           Runs(t, op, << >>), UNCHANGED <<memTaintMap, origin, overlapped, early>>
    PROVE  AgreeInv'
  <1>1. Head(pending[t]).op \notin Tags /\ Range(<< >>) = {}
    BY DEF Runs, Tags, Range
  <1>2. \A k \in Pending : k = Head(pending[t]) \/ k \in Pending'
    BY PendingRuns
  <1>3. \A k \in Pending' : k \in Pending
    BY <1>1, PendingRuns
  <1>4. \A k \in Pending : k.op \in Tags => k \in Pending'
    BY <1>1, <1>2
  <1> QED  BY <1>3, <1>4, AgreeKept

\* Clears never reach a variable: there is always a page in between that is not mapped.
LEMMA ClearSparesVariables ==
    ASSUME TypeInv, NEW start \in Heap \cup {NULL}, NEW v \in Variables, start <= v
    PROVE  ~(start .. v \subseteq DOMAIN memTaintMap)
  <1>1. v \in Nat /\ start \in Nat
    BY Addresses
  <1>2. \A a \in DOMAIN memTaintMap : a \in Memory \/ \E n \in Sizes : a \in 0 .. (n - 1)
    <2>1. \A a \in DOMAIN memTaintMap : a \in Memory \/ \E n \in Sizes : a \in Bytes(NULL, n)
      BY DEF TypeInv, TypeOK, IsTaintMap
    <2>2. \A n \in Sizes : Bytes(NULL, n) = 0 .. (n - 1)
      BY Addresses DEF Bytes, NULL
    <2> QED  BY <2>1, <2>2
  <1>3. \A n \in Sizes : n \in Nat
    BY Addresses
  <1>4. CASE start \in Heap
    <2>1. start < v
      BY <1>1, <1>4, HeapAssumption
    <2>2. PICK a \in start .. v : a \notin Memory
      BY <1>4, <2>1, PagesAssumption
    <2>3. \A n \in Sizes : n < start
      BY <1>4, PagesAssumption DEF Memory
    <2>4. a \notin DOMAIN memTaintMap
      BY <1>1, <1>2, <1>3, <2>2, <2>3
    <2> QED  BY <2>4
  <1>5. CASE start = NULL
    <2>1. PICK m \in Memory : \A a \in Memory : m <= a
      BY LeastNumber, Addresses
    <2>2. m \in Nat /\ m # 0 /\ \A n \in Sizes : n < m
      BY <2>1, Addresses, PagesAssumption DEF NULL
    <2>3. m - 1 \notin Memory
      BY <2>1, <2>2
    <2>4. m - 1 \notin DOMAIN memTaintMap
      BY <1>2, <1>3, <2>2, <2>3
    <2>5. m - 1 \in start .. v
      BY <1>1, <1>5, <2>1, <2>2, Addresses DEF NULL
    <2> QED  BY <2>4, <2>5
  <1> QED  BY <1>4, <1>5

LEMMA ClearAgree ==
    ASSUME TypeInv, AgreeInv, NEW t \in Threads, Clear(t)
    PROVE  AgreeInv'
  <1> DEFINE head == Head(pending[t])
             gone == {a \in DOMAIN memTaintMap :
                        a >= head.start /\ head.start .. a \subseteq DOMAIN memTaintMap}
  <1>1. Step(t, "free", << >>) /\ << >> \in Seq(Code) /\ Range(<< >>) = {}
    BY DEF Clear, Range
  <1>2. Runs(t, "free", << >>)
    BY <1>1, HeadRuns
  <1>3. head.op = "free" /\ head.start \in Heap \cup {NULL}
    BY <1>2 DEF Runs, CodeOK
  <1>4. UNCHANGED <<origin, overlapped, early>> /\ memTaintMap' = Erase(memTaintMap, gone)
    BY DEF Clear, ClearTagsForByteRange, history
  <1>5. \A v \in Variables : v \notin gone
    <2> SUFFICES ASSUME NEW v \in Variables, v >= head.start,
                        head.start .. v \subseteq DOMAIN memTaintMap
                 PROVE  FALSE
      OBVIOUS
    <2> DEFINE start == head.start
    <2>1. start \in Heap \cup {NULL} /\ start \in Nat /\ v \in Nat
      BY <1>3, Addresses
    <2>2. start <= v /\ start .. v \subseteq DOMAIN memTaintMap
      BY <2>1
    <2> HIDE DEF start
    <2> QED  BY <2>1, <2>2, ClearSparesVariables
  <1> HIDE DEF gone
  <1>6. \A a : MarksOf(memTaintMap', a) = IF a \in gone THEN {} ELSE MarksOf(memTaintMap, a)
    BY <1>4 DEF Erase, MarksOf
  <1>7. /\ \A a \in Variables : MarksOf(memTaintMap', a) = MarksOf(memTaintMap, a)
        /\ \A a \in Heap : MarksOf(memTaintMap', a) \in {{}, MarksOf(memTaintMap, a)}
    BY <1>5, <1>6
  <1>8. \A k \in Pending : k = head \/ k \in Pending'
    BY <1>2, PendingRuns
  <1>9. \A k \in Pending' : k \in Pending
    BY <1>1, <1>2, PendingRuns
  <1>10. \A k \in Pending : k.op \in Tags => k \in Pending'
    BY <1>3, <1>8 DEF Tags
  <1> QED  BY <1>4, <1>7, <1>9, <1>10, AgreeKept

LEMMA FindAgree ==
    ASSUME TypeInv, AgreeInv, NEW t \in Threads, FindTag(t)
    PROVE  AgreeInv'
  <1> DEFINE head == Head(pending[t])
             assign == Tag("assign", head.id, head.start, head.size)
             new == Run("new", head.id)
             known == loaded[head.id] \in DOMAIN tagMap
  <1>1. /\ Runs(t, "tag", FindCode(head))
        /\ Range(FindCode(head)) = IF known THEN {assign} ELSE {new, assign}
        /\ assign.op = "assign" /\ assign.id = head.id
        /\ assign.start = head.start /\ assign.size = head.size
        /\ new.op = "new" /\ head.op = "tag"
    BY FindRuns
  <1>2. UNCHANGED <<memTaintMap, origin, overlapped, early>>
    BY DEF FindTag, tool, history
  <1> HIDE DEF assign, new, known
  <1>3. /\ head \in Pending
        /\ \A k \in Pending : k = head \/ k \in Pending'
        /\ \A k \in Pending' : k \in Range(FindCode(head)) \/ k \in Pending
        /\ Range(FindCode(head)) \subseteq Pending'
    BY <1>1, PendingRuns
  <1>4. assign \in Pending' /\ \A k \in Pending' : k \in {assign, new} \/ k \in Pending
    BY <1>1, <1>3
  <1> HIDE DEF head
  <1>5. \A k \in Pending : \E l \in Pending' : l.start = k.start /\ l.size = k.size
    BY <1>1, <1>3, <1>4
  <1>6. \A l \in Pending' : l.op \in Tags =>
           \E k \in Pending : /\ k.op \in Tags /\ k.start = l.start /\ k.size = l.size
                              /\ k.id = l.id
    BY <1>1, <1>3, <1>4 DEF Tags
  <1> QED  BY <1>2, <1>5, <1>6, AgreeKept

LEMMA FreeAgree ==
    ASSUME TypeInv, AgreeInv, NEW t \in Threads, NEW old, Free(t, old)
    PROVE  AgreeInv'
  <1> DEFINE clear == Tag("free", 0, old, 0)
  <1>1. /\ clear.op = "free"
        /\ \A u \in Threads : u # t => pending'[u] = pending[u]
        /\ Range(pending'[t]) = {clear} \cup Range(pending[t])
        /\ early => early'
        /\ UNCHANGED <<memTaintMap, origin, overlapped>>
    BY FreeRuns DEF Freed
  <1> HIDE DEF clear
  <1>2. \A k : k \in Pending' <=> k = clear \/ k \in Pending
    <2>1. \A u \in Threads : Range(pending'[u]) = IF u = t THEN {clear} \cup Range(pending[u])
                                                           ELSE Range(pending[u])
      BY <1>1
    <2>2. \A k : k \in Pending' <=> \E u \in Threads : k \in Range(pending'[u])
      BY DEF Pending, Range
    <2> QED  BY <2>1, <2>2, PendingOf
  <1>3. \A l \in Pending' : l.op \in Tags => l \in Pending
    BY <1>1, <1>2 DEF Tags
  <1> QED  BY <1>1, <1>2, <1>3, AgreeKept

LEMMA AssignAgree ==
    ASSUME TypeInv, CountInv, AgreeInv, NEW t \in Threads, AssignTag(t)
    PROVE  AgreeInv'
  <1> DEFINE head == Head(pending[t])
             bytes == Bytes(head.start, head.size)
             mark == tagMap[loaded[head.id]]
  <1>1. Step(t, "assign", << >>) /\ << >> \in Seq(Code) /\ Range(<< >>) = {}
    BY DEF AssignTag, Range
  <1>2. Runs(t, "assign", << >>)
    BY <1>1, HeadRuns
  <1>3. /\ UNCHANGED <<allocs, origin, overlapped, early>>
        /\ memTaintMap' = Put(memTaintMap, bytes, {mark})
    BY DEF AssignTag, history
  <1> SUFFICES ASSUME ~early, ~overlapped
               PROVE  TagsOwn' /\ \A a \in Memory \ Untagged' : Agrees(a)'
    BY <1>3 DEF AgreeInv
  <1>4. TagsOwn /\ \A a \in Memory \ Untagged : Agrees(a)
    BY DEF AgreeInv
  <1>5. head.id = allocs /\ mark = (allocs - 1) % NUMBER_OF_TAINT_MARKS
    BY <1>2, AssignsLast
  <1>6. head \in Pending /\ head.op \in Tags /\ \A k \in Pending : k = head \/ k \in Pending'
    BY <1>2, PendingRuns DEF Runs, Tags
  <1>7. \A a \in bytes \cap Memory : origin[a] = {allocs}
    BY <1>4, <1>5, <1>6 DEF TagsOwn
  <1>8. TagsOwn'
    BY <1>1, <1>2, <1>3, <1>4, PendingRuns DEF TagsOwn
  <1>9. \A a \in Untagged : a \in bytes \/ a \in Untagged'
    BY <1>6 DEF Untagged
  <1> HIDE DEF bytes, mark
  <1>10. \A a : MarksOf(memTaintMap', a) = IF a \in bytes THEN {mark} ELSE MarksOf(memTaintMap, a)
    BY <1>3 DEF Put, MarksOf
  <1>11. ASSUME NEW a \in Memory \ Untagged' PROVE Agrees(a)'
    <2>1. MarksOfOrigin(a)' = MarksOfOrigin(a)
      BY <1>3 DEF MarksOfOrigin
    <2>2. CASE a \in bytes
      <3>1. MarksOf(memTaintMap', a) = {mark}
        BY <1>10, <2>2
      <3>2. MarksOfOrigin(a) = {mark}
        BY <1>5, <1>7, <2>2 DEF MarksOfOrigin
      <3> QED  BY <2>1, <3>1, <3>2 DEF Agrees
    <2>3. CASE a \notin bytes
      <3>1. Agrees(a)
        BY <1>4, <1>9, <2>3
      <3> QED  BY <1>10, <2>1, <2>3, <3>1 DEF Agrees
    <2> QED  BY <2>2, <2>3
  <1> QED  BY <1>8, <1>11

LEMMA StoreResultAgree ==
    ASSUME TypeInv, AgreeInv, NEW t \in Threads, StoreResult(t)
    PROVE  AgreeInv'
  <1> DEFINE head == Head(pending[t])
             cell == head.cell
             pointer == Tag("tag", head.id, head.cell, 1)
             block == Tag("tag", head.id, head.start, head.size)
  <1>1. /\ Runs(t, "store", StoreTags(head))
        /\ Range(StoreTags(head)) = {pointer, block}
        /\ pointer.op = "tag" /\ pointer.id = head.id
        /\ pointer.start = cell /\ pointer.size = 1
        /\ block.op = "tag" /\ block.id = head.id
        /\ block.start = head.start /\ block.size = head.size
        /\ cell \in Memory /\ head.op = "store"
    BY StoreRuns
  <1>2. /\ origin' = [origin EXCEPT ![cell] = {head.id}]
        /\ overlapped' = overlapped /\ early' = (early \/ {cell} \cap Untagged # {})
        /\ \E marks : memTaintMap' = Put(memTaintMap, {cell}, marks)
    BY DEF StoreResult, Uses
  <1>3. /\ head \in Pending
        /\ \A k \in Pending : k = head \/ k \in Pending'
        /\ \A k \in Pending' : k \in Range(StoreTags(head)) \/ k \in Pending
        /\ Range(StoreTags(head)) \subseteq Pending'
    BY <1>1, PendingRuns
  <1> HIDE DEF head, cell, pointer, block
  <1> SUFFICES ASSUME ~early', ~overlapped
               PROVE  TagsOwn' /\ \A a \in Memory \ Untagged' : Agrees(a)'
    BY <1>2 DEF AgreeInv
  <1>4. TagsOwn /\ \A a \in Memory \ Untagged : Agrees(a)
    BY <1>2 DEF AgreeInv
  <1>5. cell \notin Untagged
    BY <1>2
  <1>6. /\ \A a \in Memory : origin'[a] = IF a = cell THEN {head.id} ELSE origin[a]
        /\ \A a : a # cell => MarksOf(memTaintMap', a) = MarksOf(memTaintMap, a)
    <2>1. origin \in [Memory -> SUBSET (1 .. allocs)]
      BY DEF TypeInv, TypeOK
    <2> QED  BY <1>2, <2>1 DEF Put, MarksOf
  <1>7. \A k \in Pending : cell \notin Bytes(k.start, k.size)
    BY <1>5 DEF Untagged
  <1>8. TagsOwn'
    <2> SUFFICES ASSUME NEW k \in Pending', k.op \in Tags,
                        NEW a \in Bytes(k.start, k.size) \cap Memory
                 PROVE  origin'[a] = {k.id}
      BY DEF TagsOwn
    <2>1. CASE k = pointer
      <3>1. a = cell
        BY <1>1, <2>1, OneByte, Addresses
      <3> QED  BY <1>1, <1>6, <2>1, <3>1
    <2>2. CASE k = block
      <3>1. a \in Bytes(head.start, head.size) /\ a # cell
        BY <1>1, <1>3, <1>7, <2>2
      <3>2. origin[a] = {head.id}
        BY <1>1, <1>3, <1>4, <3>1 DEF TagsOwn, Tags
      <3> QED  BY <1>1, <1>6, <2>2, <3>1, <3>2
    <2>3. CASE k \in Pending
      <3>1. a # cell /\ origin[a] = {k.id}
        BY <1>4, <1>7, <2>3 DEF TagsOwn
      <3> QED  BY <1>6, <3>1
    <2> QED  BY <1>1, <1>3, <2>1, <2>2, <2>3
  <1>9. cell \in Untagged'
    <2>1. pointer \in Pending' /\ cell \in Bytes(pointer.start, pointer.size)
      BY <1>1, <1>3, OneByte, Addresses
    <2> QED  BY <2>1 DEF Untagged
  <1>10. \A a \in Untagged : a \in Untagged'
    <2> SUFFICES ASSUME NEW k \in Pending, NEW a \in Bytes(k.start, k.size) PROVE a \in Untagged'
      BY DEF Untagged
    <2>1. CASE k = head
      <3>1. block \in Pending' /\ a \in Bytes(block.start, block.size)
        BY <1>1, <1>3, <2>1
      <3> QED  BY <3>1 DEF Untagged
    <2>2. CASE k \in Pending'
      BY <2>2 DEF Untagged
    <2> QED  BY <1>3, <2>1, <2>2
  <1>11. ASSUME NEW a \in Memory \ Untagged' PROVE Agrees(a)'
    <2>1. a # cell /\ Agrees(a)
      BY <1>4, <1>9, <1>10
    <2>2. origin'[a] = origin[a] /\ MarksOf(memTaintMap', a) = MarksOf(memTaintMap, a)
      BY <1>6, <2>1
    <2> QED  BY <2>1, <2>2 DEF Agrees, MarksOfOrigin
  <1> QED  BY <1>8, <1>11

\* The marks of operands that agree are together those of where the marked ones come from.
LEMMA UnionAgrees ==
    ASSUME NEW K, \A a \in K : Agrees(a)
    PROVE  UnionOf(memTaintMap, K) =
              {(id - 1) % NUMBER_OF_TAINT_MARKS :
                 id \in UNION {origin[a] : a \in {b \in K : MarksOf(memTaintMap, b) # {}}}}
  <1> DEFINE marked == {b \in K : MarksOf(memTaintMap, b) # {}}
             m(id) == (id - 1) % NUMBER_OF_TAINT_MARKS
  <1>1. \A a \in marked : MarksOf(memTaintMap, a) = {m(id) : id \in origin[a]}
    BY DEF Agrees, MarksOfOrigin
  <1>2. \A x : x \in UnionOf(memTaintMap, K) <=> \E a \in marked : x \in MarksOf(memTaintMap, a)
    BY DEF UnionOf, MarksOf
  <1> HIDE DEF marked, m
  <1>3. \A x : x \in UnionOf(memTaintMap, K) <=> \E a \in marked : \E id \in origin[a] : x = m(id)
    BY <1>1, <1>2
  <1>4. \A x : x \in {m(id) : id \in UNION {origin[a] : a \in marked}}
               <=> \E a \in marked : \E id \in origin[a] : x = m(id)
    OBVIOUS
  <1>5. UnionOf(memTaintMap, K) = {m(id) : id \in UNION {origin[a] : a \in marked}}
    BY <1>3, <1>4
  <1> QED  BY <1>5 DEF marked, m

LEMMA WriteAgree ==
    ASSUME TypeInv, AgreeInv, NEW t \in Threads, NEW operands \in Operands, NEW to \in Accessible,
           Write(t, operands, to)
    PROVE  AgreeInv'
  <1> DEFINE marked == {a \in operands : MarksOf(memTaintMap, a) # {}}
             union == UnionOf(memTaintMap, operands)
             from == UNION {origin[a] : a \in marked}
  <1>1. /\ UNCHANGED <<pending, overlapped>>
        /\ early' = (early \/ (operands \cup {to}) \cap Untagged # {})
        /\ memTaintMap' = Put(memTaintMap, {to}, union)
        /\ origin' = [origin EXCEPT ![to] = from]
    BY DEF Write, Uses
  <1> SUFFICES ASSUME ~early', ~overlapped
               PROVE  TagsOwn' /\ \A a \in Memory \ Untagged' : Agrees(a)'
    BY <1>1 DEF AgreeInv
  <1>2. TagsOwn /\ \A a \in Memory \ Untagged : Agrees(a)
    BY <1>1 DEF AgreeInv
  <1>3. to \in Memory \ Untagged /\ operands \subseteq Memory \ Untagged
    BY <1>1, AccessibleMemory DEF Operands
  <1>4. Pending' = Pending /\ Untagged' = Untagged
    BY <1>1 DEF Pending, Untagged
  <1>5. union = {(id - 1) % NUMBER_OF_TAINT_MARKS : id \in from}
    BY <1>2, <1>3, UnionAgrees
  <1> HIDE DEF from, union
  <1>6. /\ \A a \in Memory : origin'[a] = IF a = to THEN from ELSE origin[a]
        /\ \A a : MarksOf(memTaintMap', a) = IF a = to THEN union ELSE MarksOf(memTaintMap, a)
    <2>1. origin \in [Memory -> SUBSET (1 .. allocs)]
      BY DEF TypeInv, TypeOK
    <2> QED  BY <1>1, <2>1 DEF Put, MarksOf
  <1>7. TagsOwn'
    <2> SUFFICES ASSUME NEW k \in Pending, k.op \in Tags,
                        NEW a \in Bytes(k.start, k.size) \cap Memory
                 PROVE  origin'[a] = {k.id}
      BY <1>4 DEF TagsOwn
    <2>1. a # to
      BY <1>3 DEF Untagged
    <2> QED  BY <1>2, <1>6, <2>1 DEF TagsOwn
  <1>8. ASSUME NEW a \in Memory \ Untagged' PROVE Agrees(a)'
    <2>1. CASE a = to
      <3>1. MarksOf(memTaintMap', a) = union /\ origin'[a] = from
        BY <1>6, <2>1
      <3>2. MarksOfOrigin(a)' = union
        BY <1>5, <3>1 DEF MarksOfOrigin
      <3> QED  BY <3>1, <3>2 DEF Agrees
    <2>2. CASE a # to
      <3>1. Agrees(a)
        BY <1>2, <1>4
      <3>2. origin'[a] = origin[a] /\ MarksOf(memTaintMap', a) = MarksOf(memTaintMap, a)
        BY <1>6, <2>2
      <3> QED  BY <3>1, <3>2 DEF Agrees, MarksOfOrigin
    <2> QED  BY <2>1, <2>2
  <1> QED  BY <1>7, <1>8

LEMMA AllocationAgree ==
    ASSUME TypeInv, CountInv, AgreeInv, NEW t \in Threads, AllocationStep(t)
    PROVE  AgreeInv'
  <1>1. PICK stores \in Stores, size \in Sizes, start \in Heap \cup {NULL}, free \in Seq(Code) :
          /\ Begun(t, stores, start, size, free)
          /\ \A k \in Range(free) : k.op = "free" /\ CodeOK(k)
          /\ early => early'
          /\ UNCHANGED memTaintMap \/ MemoryKept(start, size)
    BY DEF AllocationStep
  <1> DEFINE load == Run("load", allocs + 1)
             count == Run("count", allocs + 1)
             store == StoreCode(stores, allocs + 1, start, size)
             block == Bytes(start, size)
  <1>2. \A k : k \in Pending' <=>
           k \in Pending \/ k \in Range(free) \/ k \in {load, count} \/ k \in Range(store)
    BY <1>1, PendingBegun
  <1>3. /\ load.op = "load" /\ count.op = "count"
        /\ Range(store) # {}
        /\ \A k \in Range(store) :
              k.op = "store" /\ k.id = allocs + 1 /\ k.start = start /\ k.size = size
        /\ allocs \in Nat
        /\ overlapped' = (overlapped \/ \E code \in Pending : code.id # 0)
        /\ origin' = [a \in Memory |-> IF a \in block THEN {allocs + 1} ELSE origin[a]]
    BY <1>1 DEF Begun
  <1> HIDE DEF load, count, store, block
  <1> SUFFICES ASSUME ~early', ~overlapped'
               PROVE  TagsOwn' /\ \A a \in Memory \ Untagged' : Agrees(a)'
    BY DEF AgreeInv
  <1>4. \A a \in Memory \ Untagged : Agrees(a)
    BY <1>1, <1>3 DEF AgreeInv
  <1>5. \A k \in Pending : k.op \notin Tags
    <2> SUFFICES ASSUME NEW k \in Pending PROVE k.op \notin Tags
      OBVIOUS
    <2>1. CodeOK(k) /\ k.id = 0
      BY <1>3, PendingType
    <2> QED  BY <1>3, <2>1 DEF CodeOK, Tags
  <1>6. Untagged = {}
    BY <1>5, UntaggedTags
  <1>7. TagsOwn'
    <2> SUFFICES ASSUME NEW k \in Pending', k.op \in Tags,
                        NEW a \in Bytes(k.start, k.size) \cap Memory
                 PROVE  origin'[a] = {k.id}
      BY DEF TagsOwn
    <2>1. k \in Range(store)
      BY <1>1, <1>2, <1>3, <1>5 DEF Tags
    <2>2. a \in block
      BY <1>3, <2>1 DEF block
    <2> QED  BY <1>3, <2>1, <2>2
  <1>8. \A a \in block : a \in Untagged'
    <2>1. PICK k \in Range(store) : TRUE
      BY <1>3
    <2>2. k \in Pending' /\ Bytes(k.start, k.size) = block
      BY <1>2, <1>3 DEF block
    <2> QED  BY <2>2 DEF Untagged
  <1>9. ASSUME NEW a \in Memory \ Untagged' PROVE Agrees(a)'
    <2>1. a \notin block /\ Agrees(a)
      BY <1>4, <1>6, <1>8
    <2>2. origin'[a] = origin[a]
      BY <1>3, <2>1
    <2>3. \/ MarksOf(memTaintMap', a) = MarksOf(memTaintMap, a)
          \/ MarksOf(memTaintMap', a) = {} /\ a \in Heap
      BY <1>1, <2>1 DEF MemoryKept, Memory, block
    <2> QED  BY <2>1, <2>2, <2>3 DEF Agrees, MarksOfOrigin
  <1> QED  BY <1>7, <1>9

LEMMA AgreeInit == Init => AgreeInv
  <1> SUFFICES ASSUME Init PROVE TagsOwn /\ \A a \in Memory \ Untagged : Agrees(a)
    BY DEF AgreeInv
  <1>1. Pending = {}
    BY DEF Init, Pending
  <1>2. \A a \in Memory : origin[a] = {} /\ MarksOf(memTaintMap, a) = {}
    BY DEF Init, NoEntries, MarksOf
  <1> QED  BY <1>1, <1>2 DEF TagsOwn, Agrees, MarksOfOrigin

LEMMA AgreeNext == TypeInv /\ CountInv /\ AgreeInv /\ [Next]_vars => AgreeInv'
  <1> SUFFICES ASSUME TypeInv, CountInv, AgreeInv, [Next]_vars PROVE AgreeInv'
    OBVIOUS
  <1>1. ASSUME NEW t \in Threads, LoadCount(t) PROVE AgreeInv'
    <2>1. Step(t, "load", << >>) /\ << >> \in Seq(Code)
          /\ UNCHANGED <<memTaintMap, origin, overlapped, early>>
      BY <1>1 DEF LoadCount, tool, history
    <2>2. Runs(t, "load", << >>)
      BY <2>1, HeadRuns
    <2> QED  BY <2>1, <2>2, IdleAgree
  <1>2. ASSUME NEW t \in Threads, StoreCount(t) PROVE AgreeInv'
    <2>1. Step(t, "count", << >>) /\ << >> \in Seq(Code)
          /\ UNCHANGED <<memTaintMap, origin, overlapped, early>>
      BY <1>2 DEF StoreCount, tool, history
    <2>2. Runs(t, "count", << >>)
      BY <2>1, HeadRuns
    <2> QED  BY <2>1, <2>2, IdleAgree
  <1>3. ASSUME NEW t \in Threads, NewTag(t) PROVE AgreeInv'
    <2>1. Step(t, "new", << >>) /\ << >> \in Seq(Code)
          /\ UNCHANGED <<memTaintMap, origin, overlapped, early>>
      BY <1>3 DEF NewTag, history
    <2>2. Runs(t, "new", << >>)
      BY <2>1, HeadRuns
    <2> QED  BY <2>1, <2>2, IdleAgree
  <1>4. CASE Next
    BY <1>1, <1>2, <1>3, <1>4, StepCases, AllocationAgree, FreeAgree, ClearAgree,
       StoreResultAgree, FindAgree, AssignAgree, WriteAgree
  <1>5. CASE UNCHANGED vars
    <2>1. UNCHANGED <<memTaintMap, pending, origin, overlapped, early>>
      BY <1>5 DEF vars, tool, history
    <2> QED  BY <2>1 DEF AgreeInv, TagsOwn, Agrees, MarksOfOrigin, Untagged, Pending
  <1> QED  BY <1>4, <1>5

\* While no allocation begins in the middle of another one and nothing is used before it
\* is tagged, every value has the marks of the allocations it comes from, in variables
\* and in blocks, up to what clears took from the heap, with any number of marks and of
\* allocations.
THEOREM TagsAgreeAlways == Spec => []TagsAgree
  <1>1. AgreeInv => TagsAgree
    BY DEF AgreeInv, Agrees, TagsAgree
  <1> QED  BY <1>1, TypeInvInit, TypeInvNext, CountInit, CountNext, AgreeInit, AgreeNext, PTL
           DEF Spec
==============================================================================
