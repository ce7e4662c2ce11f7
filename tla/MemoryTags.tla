----------------------------- MODULE MemoryTags ------------------------------
(****************************************************************************)
(* Tags of heap blocks and of the pointers to them: the code InstrumentIMA  *)
(* inserts behind malloc, calloc, realloc and free, and the functions of    *)
(* replace_functions.cpp that take the place of its calls when the program  *)
(* runs under Dytan.                                                        *)
(*                                                                          *)
(* Behind the allocation the pass puts the load of ima_tag_count, behind    *)
(* each store of its result DYTAN_tag_pointer and DYTAN_tag_memory, behind  *)
(* the last one the store of the counter, and behind free DYTAN_free.  Each *)
(* of these is a step of its own, and a tag call is up to three of them:    *)
(* other threads run in between, and in front of a store also other code of *)
(* the same thread.  The result is stored anywhere, to a variable or into a *)
(* block of the heap; all marks are in one memTaintMap.                     *)
(****************************************************************************)
EXTENDS TaintMaps, TaintGenerator, FiniteSets, Sequences

CONSTANTS
    Threads,
    Variables,    \* the addresses of variables, outside the heap
    Heap,         \* the addresses of heap bytes
    Sizes,        \* the sizes asked for
    Stores,       \* where results are stored: sequences of addresses
    MaxAllocs,    \* bound: allocations
    MaxOperands   \* bound: the values another one is computed from

NULL == 0
Bytes(start, n) == start .. (start + n - 1)
Memory == Variables \cup Heap

ASSUME HeapAssumption ==
    /\ MaxAllocs \in Nat /\ MaxOperands \in Nat /\ Sizes \subseteq Nat \ {0}
    /\ Variables \subseteq Nat /\ Heap \subseteq Nat /\ Variables \cap Heap = {}
    /\ Stores \subseteq Seq(Memory) \ {<< >>}

\* A call that fails is tagged like any other, from NULL on: the first page is not
\* mapped, and nothing else is there.  Between the heap and the stack or the globals
\* above it there are pages that are not mapped either.
ASSUME PagesAssumption ==
    /\ \A n \in Sizes \cup {NULL}, a \in Memory : n < a
    /\ \A h \in Heap, v \in Variables : h < v => \E a \in h .. v : a \notin Memory

VARIABLES
    memTaintMap,    \* map<ADDRINT, bitset *>
    tagMap,         \* map<string, int>: the mark of a tag
    gen,            \* the TaintGenerator
    ima_tag_count,  \* the program's counter; its width is out of reach here
    loaded,         \* per allocation, the counter as it was loaded for it
    live,           \* the allocator: start of a block -> its size
    pending,        \* per thread, the code it is in the middle of
    allocs,         \* history: allocations so far; they are numbered from 1
    origin,         \* history: per address, the allocations whose results and whose
                    \* blocks the value there was computed from
    stored,         \* history: the addresses marked values were written to since they
                    \* were last allocated
    overlapped,     \* history: an allocation began before another was done
    early           \* history: something was used before its tags were set

tool == <<memTaintMap, tagMap, gen>>
history == <<allocs, origin, stored, overlapped, early>>
vars == <<tool, ima_tag_count, loaded, live, pending, history>>

\* What a thread has still to run: inserted code, and stores of a result.  start and
\* size are the bytes that will be tagged, or where a clear begins; cell is where the
\* result is stored.
Code == [op : {"load", "free", "store", "tag", "new", "assign", "count"}, id : Nat,
         start : Nat, size : Nat, cell : Nat]

Run(op, id) == [op |-> op, id |-> id, start |-> NULL, size |-> 0, cell |-> NULL]
Tag(op, id, start, size) == [Run(op, id) EXCEPT !.start = start, !.size = size]

TypeOK ==
    /\ IsTaintMap(memTaintMap, Memory \cup UNION {Bytes(NULL, n) : n \in Sizes}, Mark)
    /\ DOMAIN tagMap \subseteq Nat /\ tagMap \in [DOMAIN tagMap -> Mark]
    /\ gen \in [start : Mark, current : Mark]
    /\ ima_tag_count \in Nat /\ allocs \in 0 .. MaxAllocs
    /\ DOMAIN loaded \subseteq 1 .. allocs /\ loaded \in [DOMAIN loaded -> Nat]
    /\ DOMAIN live \subseteq Heap /\ live \in [DOMAIN live -> Sizes]
    /\ pending \in [Threads -> Seq(Code)]
    /\ origin \in [Memory -> SUBSET (1 .. allocs)] /\ stored \subseteq Memory
    /\ overlapped \in BOOLEAN /\ early \in BOOLEAN

Init ==
    /\ memTaintMap = NoEntries /\ tagMap = NoEntries
    /\ gen = [start |-> 0, current |-> 0]
    /\ ima_tag_count = 0 /\ loaded = NoEntries
    /\ live = NoEntries
    /\ pending = [t \in Threads |-> << >>]
    /\ allocs = 0
    /\ origin = [a \in Memory |-> {}] /\ stored = {}
    /\ overlapped = FALSE /\ early = FALSE

------------------------------------------------------------------------------
(* The state of the allocator and of the code that is pending.              *)

Block(start) == Bytes(start, live[start])
Used == UNION {{start - 1} \cup Block(start) : start \in DOMAIN live}
Places(size, used) == {start \in Heap : Bytes(start - 1, size + 1) \subseteq Heap \ used}

\* What the program may read and write.
Accessible == Variables \cup UNION {Block(start) : start \in DOMAIN live}

Pending == UNION {{pending[t][i] : i \in DOMAIN pending[t]} : t \in Threads}

\* The addresses results are still to be stored to, and those whose tags are not set.
Wanted == {code.cell : code \in {k \in Pending : k.op = "store"}}
Untagged == UNION {Bytes(code.start, code.size) : code \in Pending}

\* Other code of the thread runs when it is not in inserted code.
Running(t) == pending[t] # << >> => Head(pending[t]).op = "store"

Uses(addresses) == early' = (early \/ addresses \cap Untagged # {})

\* t runs the code at the head of what it has to, which is op, and goes on with code.
Step(t, op, code) ==
    /\ pending[t] # << >> /\ Head(pending[t]).op = op
    /\ pending' = [pending EXCEPT ![t] = code \o Tail(pending[t])]

------------------------------------------------------------------------------
(* replace_functions.cpp.  The three functions that assign a tag are the    *)
(* same code.                                                               *)

\* find: a tag that is new has to get a mark first.
FindTag(t) ==
    LET code == Head(pending[t])
        assign == Tag("assign", code.id, code.start, code.size)
    IN
    /\ Step(t, "tag", IF loaded[code.id] \in DOMAIN tagMap THEN <<assign>>
                      ELSE <<Run("new", code.id), assign>>)
    /\ UNCHANGED <<tool, ima_tag_count, loaded, live, history>>

NewTag(t) ==
    /\ Step(t, "new", << >>)
    /\ tagMap' = Put(tagMap, {loaded[Head(pending[t]).id]}, gen.current)
    /\ gen' = nextTaintMark(gen)
    /\ UNCHANGED <<memTaintMap, ima_tag_count, loaded, live, history>>

AssignTag(t) ==
    LET code == Head(pending[t]) IN
    /\ Step(t, "assign", << >>)
    /\ memTaintMap' = Put(memTaintMap, Bytes(code.start, code.size), {tagMap[loaded[code.id]]})
    /\ UNCHANGED <<tagMap, gen, ima_tag_count, loaded, live, history>>

\* Mutant: only the first byte is cleared.
ClearTagsForByteRangeFirst(start) == Erase(memTaintMap, {start})

\* The bytes from start on, as far as there are entries, wherever the block ends.
ClearTagsForByteRange(start) ==
    Erase(memTaintMap,
          {a \in DOMAIN memTaintMap : a >= start /\ start .. a \subseteq DOMAIN memTaintMap})

\* DYTAN_free.
Clear(t) ==
    /\ Step(t, "free", << >>)
    /\ memTaintMap' = ClearTagsForByteRange(Head(pending[t]).start)
    /\ UNCHANGED <<tagMap, gen, ima_tag_count, loaded, live, history>>

------------------------------------------------------------------------------
(* The rest of the code behind an allocation.                               *)

LoadCount(t) ==
    /\ Step(t, "load", << >>)
    /\ loaded' = Put(loaded, {Head(pending[t]).id}, ima_tag_count)
    /\ UNCHANGED <<tool, ima_tag_count, live, history>>

\* The program stores the result, without marks or, from realloc, with those of the
\* pointer it was given; then come the tags of the two.
StoreResult(t) ==
    LET code == Head(pending[t]) IN
    /\ Step(t, "store", <<Tag("tag", code.id, code.cell, 1),
                          Tag("tag", code.id, code.start, code.size)>>)
    /\ \E marks \in {{}} \cup {MarksOf(memTaintMap, a) : a \in Accessible} :
          memTaintMap' = Put(memTaintMap, {code.cell}, marks)
    /\ origin' = [origin EXCEPT ![code.cell] = {code.id}]
    /\ stored' = stored \cup {code.cell}
    /\ Uses({code.cell})
    /\ UNCHANGED <<tagMap, gen, ima_tag_count, loaded, live, allocs, overlapped>>

\* Mutant: the counter is not counted on.
StoreCountSame(t) ==
    /\ Step(t, "count", << >>)
    /\ ima_tag_count' = loaded[Head(pending[t]).id]
    /\ UNCHANGED <<tool, loaded, live, history>>

\* The counter becomes one more than what was loaded.
StoreCount(t) ==
    /\ Step(t, "count", << >>)
    /\ ima_tag_count' = loaded[Head(pending[t]).id] + 1
    /\ UNCHANGED <<tool, loaded, live, history>>

------------------------------------------------------------------------------
(* The allocator and the program.  A block goes wherever there is room for  *)
(* it and for the word in front of it that the allocator writes, which      *)
(* makes an entry without marks.  The program frees and reallocates live    *)
(* blocks only, and none that it is about to store a result to.             *)

\* The allocation of a block at start, NULL if it fails, and the code that follows.
Allocation(t, stores, start, size, free) ==
    LET id == allocs + 1
        store == [i \in DOMAIN stores |-> [Tag("store", id, start, size) EXCEPT !.cell = stores[i]]]
    IN
    /\ Running(t) /\ allocs < MaxAllocs
    /\ {stores[i] : i \in DOMAIN stores} \subseteq Accessible
    /\ allocs' = id
    /\ overlapped' = (overlapped \/ \E code \in Pending : code.id # 0)
    /\ pending' = [pending EXCEPT ![t] =
                     <<Run("load", id)>> \o free \o store \o <<Run("count", id)>> \o pending[t]]
    /\ origin' = [a \in Memory |-> IF a \in Bytes(start, size) THEN {id} ELSE origin[a]]
    /\ stored' = stored \ Bytes(start, size)
    /\ UNCHANGED <<tagMap, gen, ima_tag_count, loaded>>

\* instrumentMalloc and instrumentCalloc; calloc fills the block with zeros.
Allocate(t, stores, size, zeroed) ==
    \E start \in Places(size, Used) \cup {NULL} :
       /\ Allocation(t, stores, start, size, << >>)
       /\ IF start = NULL THEN UNCHANGED <<memTaintMap, live>>
          ELSE /\ live' = Put(live, {start}, size)
               /\ memTaintMap' = Put(memTaintMap,
                                     Bytes(start - 1, IF zeroed THEN size + 1 ELSE 1), {})
       /\ UNCHANGED early

\* The blocks that may be passed to realloc and free.
Given(stores) ==
    {NULL} \cup {start \in DOMAIN live :
                   Block(start) \cap (Wanted \cup {stores[i] : i \in DOMAIN stores}) = {}}

BlockOf(start) == IF start = NULL THEN {} ELSE Block(start)
FreeTags(start) == <<Tag("free", 0, start, 0)>>

\* What memcpy copies into a block that has moved.
Moved(old, start, size) ==
    LET copied == {a \in Bytes(start, size) : /\ old + (a - start) \in BlockOf(old)
                                              /\ old + (a - start) \in DOMAIN memTaintMap}
    IN [a \in DOMAIN memTaintMap \cup copied \cup {start - 1} |->
           CASE a \in copied -> memTaintMap[old + (a - start)]
             [] a = start - 1 -> {}
             [] OTHER -> memTaintMap[a]]

\* instrumentRealloc: DYTAN_free of the old block is inserted behind the load, whether
\* or not the call has failed and the block is still the program's.
Realloc(t, old, stores, size) ==
    /\ old \in Given(stores)
    /\ Uses(BlockOf(old))
    /\ \/ /\ Allocation(t, stores, NULL, size, FreeTags(old))
          /\ UNCHANGED <<memTaintMap, live>>
       \/ /\ old # NULL
          /\ Bytes(old, size) \subseteq Heap \ (Used \ Block(old))
          /\ Allocation(t, stores, old, size, FreeTags(old))
          /\ live' = [live EXCEPT ![old] = size]
          /\ UNCHANGED memTaintMap
       \/ \E start \in Places(size, Used) :
             /\ Allocation(t, stores, start, size, FreeTags(old))
             /\ live' = Put(Erase(live, {old}), {start}, size)
             /\ memTaintMap' = Moved(old, start, size)

\* instrumentFree; free(NULL) does nothing.
Free(t, old) ==
    /\ Running(t) /\ old \in Given(<< >>)
    /\ live' = Erase(live, {old})
    /\ pending' = [pending EXCEPT ![t] = FreeTags(old) \o pending[t]]
    /\ Uses(BlockOf(old))
    /\ UNCHANGED <<tool, ima_tag_count, loaded, allocs, origin, stored, overlapped>>

Operands == {operands \in SUBSET Accessible : Cardinality(operands) <= MaxOperands}

\* The program writes a value it has computed from those at operands, none for a
\* constant; the engine writes the union of their marks.
Write(t, operands, to) ==
    LET marked == {a \in operands : MarksOf(memTaintMap, a) # {}} IN
    /\ Running(t)
    /\ memTaintMap' = Put(memTaintMap, {to}, UnionOf(memTaintMap, operands))
    /\ origin' = [origin EXCEPT ![to] = UNION {origin[a] : a \in marked}]
    /\ stored' = IF marked = {} THEN stored ELSE stored \cup {to}
    /\ Uses(operands \cup {to})
    /\ UNCHANGED <<tagMap, gen, ima_tag_count, loaded, live, pending, allocs, overlapped>>

Next ==
    \E t \in Threads :
       \/ \E stores \in Stores, size \in Sizes :
             \/ \E zeroed \in BOOLEAN : Allocate(t, stores, size, zeroed)
             \/ \E old \in DOMAIN live \cup {NULL} : Realloc(t, old, stores, size)
       \/ \E old \in DOMAIN live \cup {NULL} : Free(t, old)
       \/ LoadCount(t) \/ Clear(t) \/ StoreResult(t) \/ StoreCount(t)
       \/ FindTag(t) \/ NewTag(t) \/ AssignTag(t)
       \/ \E operands \in Operands, to \in Accessible : Write(t, operands, to)

Spec == Init /\ [][Next]_vars

------------------------------------------------------------------------------
(* Properties. *)

\* "getting global counter to have different counter for new allocated memory" and
\* "all this store refer to the same malloc so need to have same ima_tag_count"
\* (InstrumentIMA.cpp): the marks of a value are those of the allocations it comes
\* from, one each, and NUMBER_OF_TAINT_MARKS allocations in a row have different ones.
\* A byte of the heap may have lost its marks to a clear that began in front of it, a
\* variable never.  It is so for every address whose tags are not still to come, as long
\* as no allocation begins in the middle of another one and nothing is used before it is
\* tagged.
MarksOfOrigin(a) == {(id - 1) % NUMBER_OF_TAINT_MARKS : id \in origin[a]}
TagsAgree ==
    ~overlapped /\ ~early => \A a \in Memory \ Untagged :
       \/ MarksOf(memTaintMap, a) = MarksOfOrigin(a)
       \/ MarksOf(memTaintMap, a) = {} /\ a \in Heap

\* DYTAN_free is given no size and "delete[s] taint marks for contiguous chunk of
\* memory" (replace_functions.cpp): once it has run, no byte of the heap that is in no
\* live block has the marks of its block left, also when the block was moved, cut or
\* taken by another thread in the meantime.  Marks of a value that the program wrote
\* there may stay, behind a byte that had lost its own.
FreedClean ==
    (\A code \in Pending : code.op # "free") /\ ~early => \A a \in Heap :
       MarksOf(memTaintMap, a) # {} => a \in stored \/ \E start \in DOMAIN live : a \in Block(start)
==============================================================================
