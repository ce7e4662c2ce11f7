# A TLA+ model of Dytan

Dytan (`src/dytan`) is a Pin tool that follows data through a running x86
program: sources put *taint marks* on bytes of memory, and before every
instruction a few *analysis calls* move the marks from the operands the
instruction reads to those it writes. This directory models the tool in TLA+,
checks the models with TLC and proves the general facts with TLAPS.

## The system

| part | state | operations |
|---|---|---|
| propagation engine (`dytan.cpp`) | `regTaintMap`, `memTaintMap`, `controlTaintMap`; eight global bitsets `dest src eax edx base idx eflags cnt` | `TaintForRegister/Memory`, `ClearTaintSet`, `SetTaintFor...`, `ClearTaintFor...`, `PushControl`, `PopControl`, `SetNewTaintForMemory`, `SetNewTaintStart` |
| instruction handlers (`instrument_functions.c`) | none: run once per instruction, at instrumentation time | about 90 handlers, each inserts calls to the engine |
| mark generator (`taint_generator.h`) | `_start`, `_current` | `nextTaintMark`, `setStart` |
| control flow (`Controlflow`, `RoutineGraph.H`, `BasicBlock.H`) | a routine's graph, its postdominators | inserts `PushControl` at branches, `PopControl` at postdominators |
| system call monitor (`syscall_monitor.H`) | `pendingSyscalls`, `observers` | `beginSyscall`, `endSyscall` |
| file sources (`monitor_path.cpp`, `taint_source_path.cpp`) | `activeFileDescriptors` | callbacks for open, close, read; PerByte and PerRead marking |
| network sources (`monitor_network.cpp`, `taint_source_network.cpp`) | `socketToAddress` | callbacks for socketcall, close, read |
| system call handlers (`syscall_functions.cpp`) | none that is read | erase the marks of result buffers; most are empty |
| user functions, IMA pass (`replace_functions.cpp`, `InstrumentIMA.cpp`) | `tagMap`, a counter in the program | tag a block and the pointer to it with one mark, clear the tags of a freed block |
| configuration, profiling, logs | `prof_stream`, `profilingMap` | keys made of the marks read and the opcode |

The handlers decide *which* calls an instruction gets; the engine runs them,
one at a time, each time the instruction is reached. The calls of an
instruction communicate only through the eight global bitsets, which keep their
contents from one instruction to the next and which all threads share. Sources
write `memTaintMap` directly, between instructions.

What is hard about it: a bitset that is stored but was not loaded by the same
instruction carries marks of an older one; registers overlap (`EAX`, `AX`,
`AH`, `AL`) but have separate entries, and an absent entry is not the same as
an empty one; scopes of branches nest, end together and are entered again by
loops; marks run out; threads interleave between analysis calls, and between
the kernel's part of a system call and its observation, and between an
allocation and the code that tags it; the builder of postdominators follows
pointers that it changes as it goes, in an order that is that of the heap.
`PROJECT.json` lists these hazards with their lines.

## Modules

| module | models |
|---|---|
| `TaintMaps` | `std::map<K, bitset *>` as a function whose domain is the keys that have an entry; a bitset is the set of its one bits |
| `TaintGenerator` | the generator; with one mark it is `ConstantTaintGenerator` |
| `TaintEngine` | the engine: one action per analysis function, `Execute` and `Retire` around them, sources, system calls that erase marks, the abort of a handler |
| `Instrument` | for each instruction the sequence of calls its handler inserts, with its early returns and aborts, and the dispatch table |
| `Controlflow` | the pushes and pops inserted into a routine, given its postdominators |
| `DeclaredFlows` | what the comments in the handlers declare (`dest, eflags <- union(dest, src)`): the reference |
| `TaintPolicy` | the abstract specification: an instruction takes effect at once, without bitsets |
| `AtomicTaint` | `TaintEngine` with the history needed to state that it implements `TaintPolicy` |
| `RoutineScopes` | one thread walking the control flow graph of a routine, with a history of the scopes it is in |
| `ThreadedTaint` | several threads, with a history of what each one loaded |
| `FileSources` | system call monitor, path monitor, path source and the kernel's side of open, dup, close and read |
| `NetworkSources` | network monitor and network source beside the files, on the same system call monitor and the same table of descriptors |
| `RoutineGraph` | the blocks and edges of a routine, and the construction of their postdominators, one predecessor a step |
| `MemoryTags` | the tag functions, and the code InstrumentIMA puts behind malloc, calloc, realloc and free, each inserted instruction a step |
| `NumberTheorems`, `TaintGenerator_proofs` | lemmas: least numbers, induction up to a bound, iteration; the generator |
| `TaintEngine_proofs` | theorems on the engine under any interleaving |
| `RoutineScopes_proofs` | theorems on scopes and profiling keys |
| `Sources_proofs` | theorems on files and sockets |
| `MemoryTags_proofs` | theorems on the tags of blocks and pointers |
| `RoutineGraph_proofs`, `Postdominators_proofs` | theorems on the builder of postdominators |
| `MC...` | instances for TLC |

State and code correspond by name: `regTaintMap`, `memTaintMap`,
`controlTaintMap`, `prof_stream`, `pendingSyscalls`, `activeFileDescriptors`,
`socketToAddress`, `addressObservers`, `PostDominator`, `postDominated`,
`tagMap` and `ima_tag_count` are the variables of the code, `scratch` is the eight bitsets,
`gen` the generator, `calls[t]` what Pin has still to run for thread `t` before
the instruction `ins[t]`, `pending[t]` the code InstrumentIMA has inserted that
thread `t` has still to run. `issued`, `before`, `open`, `loaded`, `opened`,
`content`, `last`, `garbage`, `allocs`, `origin`, `stored`, `overlapped` and `early`
are history. The calls of one handler are the atomic steps: inside a
call the code touches one entry after another, and a race inside a
`std::map` operation is beyond this model. What InstrumentIMA inserts is finer: the
load of the counter, each store of the result, each tag call and the store of the
counter are separate steps, and a tag call is the lookup in `tagMap`, the mark for a
new tag and the assignment to the bytes, with other threads in between.

Abstractions: memory is a few bytes; the values the program computes with
appear only where an inserted check looks at them (flags of a CMOVcc, equality
of a CMPXCHG); a profiling key is the set of instructions whose marks are in
it, since a key of another instruction's marks is what could go wrong; `Print`
and all logging are left out. `RoutineGraph` reads a routine as instructions at
consecutive addresses; its maps keep apart the keys that hold a block and those
that `operator[]` has put in with `NULL`. In `MemoryTags` a pointer is one address, in a
variable or in a block, a block has one byte of the allocator's in front of it, and
the program writes any value, computed from others or constant, to any byte it may
write; the stores of a result are all run, one after the other, with other code of the
same thread in front of each; the width of the counter is out
of reach, and a size of zero is left out. In `NetworkSources` an address is a
host of the configuration or another one; what the code does with the end of a
map, with `NULL` and in `abort()` is the end of the tool.

## Runs

| run | shows |
|---|---|
| `atomic` | the engine, driven by the handlers, implements the policy the comments declare (refinement), in the shipped build with `IMPLICIT` |
| `atomic_cmov` | violated: a CMOVZ or CMOVB that moves its data does not move its marks |
| `scopes` | `controlTaintMap` is exactly the scopes the routine is in; writes in a scope carry its marks; a profiling key has no marks of other instructions |
| `scopes_nested` | violated: two scopes that end together, one of which never had marks |
| `threads` | under any interleaving: types, complete register entries, marks reused only when all are used, no mark from nowhere |
| `race` | violated: a thread stores what another thread loaded |
| `files` | one thread, files beside sockets and copies of descriptors: descriptors agree with the kernel, data of source files is marked, at the granularity asked for, and nothing else is taken for it |
| `files_race` | violated: a late exit of close removes the descriptor another thread was just given |
| `network` | violated: data from a host of the configuration is never marked |
| `routine` | the builder of postdominators ends, its walks reach the return node, a block is moved only to one above it, and no postdominator of a conditional branch is missed |
| `routine_early` | violated: with an early return behind a condition of three parts, a block that the return avoids is taken for a postdominator |
| `tags` | two threads: types; without overlapping allocations every value has the marks of the allocations it comes from; freed memory has no mark of its block, with them too |

Bounds. The atomic runs are of the shipped build, with `IMPLICIT`; they take nine programs in turn; each mixes six to ten
instructions of a family (moves, strings, arithmetic, products, stack,
conditional moves, vectors, unary, branches) that are executed in any order,
any number of times, on two or three bytes. One mark is enough there: every
operation is a union or a copy, so each mark moves as if it were alone, and the
mark of a stale bitset shows as a mark in the wrong place. Left out of these
programs are the forms whose handlers visibly depart from their own comments:
CMOVcc on a flag that is one (its own run), POPFD, SHLD and SHRD with a count in
a register, IMUL of two registers and CMPXCHG on memory; they are among the hazards. `scopes` uses two marks, so that a branch can be taken on one mark in one
round of the loop and on another in the next; every pair of nesting, sequence and loop occurs in its routine.
`threads` has two threads, two marks and eight instructions, so that marks run
out and both threads can be inside any two instructions; it stores to EAX, to AX and reads AL. `files` has two
descriptors, so that they run out and files, copies and sockets take each
other's numbers, three files (one per granularity and one that is no source), a
host, both configurations, buffers that overlap, and reads of two bytes with two
marks, so that the generator wraps within a read. `routine` has every routine of
four instructions and four longer ones, with early returns, an exit from the
middle of a loop, an indirect branch, a jump out of the routine and a loop that
is tried again from several places; one block may lie in memory that was used before, and predecessors are met in any order.
`tags` has three allocations, of one or two bytes, in a heap of four, so that two
blocks lie side by side and a new one may begin before, at or inside a freed one;
results are stored to a variable, or into a block and to the variable. There are two
marks, so that the third allocation takes the mark of the first again. The constraint
`Bounded` cuts what follows a use that came too early, of which the properties say
nothing; a third allocation after two that overlapped; and, while there are three
allocations, states in which both threads are in the middle of inserted code. The theorems
have none of these bounds.

In `RoutineScopes` the postdominators are given as a constant and are the right
ones. In `FileSources` and `NetworkSources` the program is well behaved: it
never uses a descriptor that is not open or that another thread is closing, so
the race it shows is the tool's. In `MemoryTags` likewise it uses, frees and
reallocates live blocks only, and none that it is about to store a result to.

Where the code does not keep a property, the property says under which condition it
does, and these conditions are not met by every program.

* Nothing in the code keeps another thread from the time between the store of a
  result and its tags. A copy of the pointer made there has no mark, a write there is
  overwritten by the tag, and a block freed there is tagged behind its clear and keeps
  the marks. `TagsAgree` and `FreedClean` hold up to the first such use (`early`).
* Allocations that overlap share a tag, and the counter can go back, so that later
  ones do too. It takes two threads, or one that allocates between an allocation and
  the store of its result, as in `*f() = malloc(n)`. `TagsAgree` holds as long as
  there was none (`overlapped`), `FreedClean` in spite of them.
* A live block need not keep its marks: `ClearTagsForByteRange` goes on through the
  allocator's word into the next block, and a `realloc` that failed clears the block
  it left alone. `TagsAgree` therefore lets bytes of the heap lose their marks, never
  have others, and says of variables that no clear comes to them.
* A result that is stored into a block, as in `a->next = malloc(n)`, puts its own mark
  into that block. `TagsAgree` has it there, as the mark of a value that comes from
  another allocation. If the byte in front has lost its entry, the clear of the block
  does not reach it: `FreedClean` is about the marks of the block itself, and lets
  those stay that were written to it as values (`stored`).
* The marks of two blocks are different only if fewer than `NUMBER_OF_TAINT_MARKS`
  allocations lie between them: `TagsAgree` counts modulo that number.

`SourceDataMarked` speaks of descriptors that `open` returned: the monitor does not
know the ones from `dup`, and data read by them is not marked. The run `files` leaves
out two calls. `dup2` onto a descriptor that is open closes its file without the
monitor's knowing: with it `DescriptorsAgree` and `OnlySourceData` fail, since the
number goes on to stand for the old file, whose marks the data of the new one then
gets, and `SourceDataMarked` when the old file was no source. `lseek` has the
handler of `lstat64` and `fcntl64` that of `fstat64`, which take the second argument
for a buffer: with an offset that is the address of marked data the handler
erases its marks, and `SourceDataMarked` fails. Both are among the hazards. No
document or comment promises anything about them, so they are no findings.

One comment and the code disagree where a run passes. In front of the case analysis
of `SetTaintForRegister`, `dytan.cpp:383` says that "setting [A|B|C|D]X won't set the super
or subregisters"; lines 528-549 and those of the other three registers do set the
subregisters (`AH` and `AL` with `AX`), and not the super register (`EAX`).
`RegisterEntries`, `SubRegisters` and the refinement follow the code: read by the
comment, `AX` would have an entry without `AH` and `AL` having one. `threads` has both
`EAX` and `AX`. It has no run of its own, as the code is what a reader wants there and the
comment is out of date.

Fairness is assumed in one place. The builder of postdominators is sequential
code that waits for nothing, so `RoutineGraph` has weak fairness of its next
step and `Termination` says that the recursion ends, on every routine and also
when a pointer was not set. Elsewhere no liveness is claimed: the analysis
functions are loops over finite data, nothing waits except for the one lock, and
the program may stop at any point.

## Theorems

All theorems are about the specifications the runs check, for every value of the
constants that the named assumptions allow. No bound of a run is in them.

**Engine** (`TaintEngine_proofs`), for any threads, registers, addresses,
programs and number of marks; assumed are at least one mark, analysis calls with
arguments in range, and `EFLAGS` a register.

* `TypeCorrect`. `TypeOK` is not quite inductive: that a call has an
  instruction to belong to (`IdleThreads`, a thread between instructions has no
  calls left) is needed for the profiling keys. `TypeInv` is the conjunction.
* `EntriesComplete` (`RegisterEntries`): stores cover a register and its parts,
  `PartsNest` says that the parts of a part are parts, clears never remove an
  entry.
* `MarksAreFresh` (`FreshMarks`): the property itself forgets which marks were
  handed out; the inductive `FreshInv` adds that all marks between the start
  and the current one have been.
* `OnlyIssuedMarks` (`MarksIssued`) and `MarksAreConserved`
  (`MarksConserved`): both rest on `LiveStep`, which bounds the marks in use
  after a step by those before it and the one a source may add.

**Scopes** (`RoutineScopes_proofs`), for any routine. `RoutineAssumption` says
that its code is part of the program, `ControlAssumption` that the calls in front
of an instruction begin with the push and the pop `Controlflow` inserts.

* `ActiveScopesAlways` and `ScopeMarksAlways` hold under `SeparateEnds`: no two
  scopes end at one instruction. Where two do, `PopControl` may return early, and
  `scopes_nested` is the counterexample. The properties speak of the moments
  between instructions; `ScopeInv` says of each position among the calls what the
  push and the pop still owe between `controlTaintMap` and `open`.
* `ProfileKeysAlways` holds under `LoadsFlushed`: every load is followed by a
  profiled store of its own instruction. `ProfileInv`: what is in `prof_stream` is
  of the current instruction, and the store that empties it is still to come.
  Handlers without such a store (POPFD) leave their marks for the next key.

The routine of the run `scopes` meets both hypotheses.

**Sources** (`Sources_proofs`), for any files, hosts, descriptors, buffers and
marks; `SourcesAssumption` has only that paths, peers and "none" differ and that
buffers lie in memory.

* `TypeCorrect` and `GranularityAlways`, for any number of threads. The second is
  a fact about the generator: `n` calls in a row give `n` different marks as long as
  there are that many (`TaintGenerator_proofs`, by induction on the calls).
* `DescriptorsAlways`, `SourceDataAlways`, `OnlySourceDataAlways`, under
  `OneThread`; with two threads `files_race` refutes the first. `FilesInv` relates
  the monitor's table and the marks, as the callback of the call under way will
  leave them (`Known`), with the kernel's table, which that call may have changed
  already.

**Tags** (`MemoryTags_proofs`), for any number of threads, allocations, variables,
stores of a result, sizes and marks, any heap, and pointers anywhere in it.
`HeapAssumption` says only that variables are not in the heap, that sizes are not zero
and that results are stored to memory; `PagesAssumption` that the first page is not
mapped and that unmapped pages part the heap from what is above it:
`ClearTagsForByteRange` goes on as far as entries follow each other, and a failed
`malloc` is tagged from `NULL` on.

* `TypeCorrect`. `TypeInv` adds that blocks are apart and what order the pending code
  of a thread is in (`ThreadOK`): only its head can be in the middle of a call, no
  tag is assigned before it has a mark, none is looked up before the counter was
  loaded.
* `FreedCleanAlways`. `FreedInv`: what has still to be tagged is a live block or a
  place a result was stored to (`TagsLive`), and a marked byte of the heap that was not
  written is going to be cleared, or lies in a live block that will be tagged or is
  marked from its start on, so that its own clear will come that far (`Covered`).
* `TagsAgreeAlways`. `CountInv`, without overlap: one allocation is under way, and its
  store of the counter comes last (`Ends`); the counter is the number of allocations
  done, the first `n` of them have marks, `i` modulo the number of marks for the
  `i`-th, and the generator is at the next one (`MarksGivenTo`). `AgreeInv`: values
  agree with where they come from, and what is still to be tagged comes from the
  allocation it is tagged for (`TagsOwn`). `ClearSparesVariables` is where the pages are needed.

**Postdominators** (`RoutineGraph_proofs`, `Postdominators_proofs`), for every
routine, every order of the heap and any contents of the pointers that the
constructor does not set; `AddressAssumption` says what a routine is.

* `ChainsEndAlways`: the blocks can be numbered in the order they were found so
  that postdominators go down (`TreeInv`), which excludes circles.
* `MovesUpAlways`: a block is moved to one that was above it, so
  `deleteDownPostDominanceInfo` always meets the block at which it stops. It rests
  on `KeysExact`: a block that was looked at once is in the maps of exactly the blocks
  above it. As a block has two successors at most (`TwoSuccessors`), it is moved at
  most once, and `KeysExact` speaks of it at that time (`EdgesInv` counts).
* `NoneMissedAlways`: with a graph that is that of the code (`GraphRight`), all
  postdominators of a conditional branch are above its block at the end. `PathInv`
  carries the paths: who is not above a block can be avoided by a path from it to the
  return (`BelowAvoids`, `KeysAvoid`, `NoneMissing`, `UnknownAvoided`), in spite of
  keys that are lost or stale.

What `BasicBlock.H` says of the maps themselves, "the map of postDominated nodes are
those immmediately and recursively postDominated by the current node", is true of
all short routines and not inductive, and the states an attempt at its proof left
over led to a routine in which it is false, `Retries` of `MCRoutine`.
`getCommonPostDominator` looks a block up with `operator[]`, which puts it into the map
with `NULL`; `deleteDownPostDominanceInfo` takes every key in the map of a block that
moves for a block below it and erases it elsewhere; a block that is missing in one map
and not in those above is then left behind by the next move. Nothing the tool uses
depends on it: the theorems use of the maps only `KeysExact` and the paths.

Induction is used about sets, not predicates, so that the provers can instantiate
it: `LeastNumber` is the library's `WFMin` on the natural numbers, `InductionUpTo`
follows from it, `Iterated` gives a function that is defined by recursion up to a
bound its equation; induction along chains of postdominators is by the numbering.

Model-checked only: the refinement of `TaintPolicy` (`ImplementsPolicy`, whose
instruction effects are folds over the calls of ninety handlers), and
`Termination`, which is liveness and out of the prover's reach.

## Not modelled

The word arithmetic of `bitset.cpp`; the XML configuration (its result is the
constants); which bytes `main_wrapper_func` marks; which uses of an allocation's
result make InstrumentIMA leave it alone; `DYTAN_check`, whose body is a comment;
the builder of dominators, which nothing calls; the build without `IMPLICIT`
beyond its definitions, since no run has it; text output; `penumbra.cpp` and the
samples, which are not part of the tool that is built.

The order of `NetworkAddress_cmp` is not modelled either: it is not a strict
weak order, but in no configuration is a lookup with it the reason why nothing
is marked.

## Plan

1. The refinement of `TaintPolicy` for the handlers one by one: between two calls
   of an instruction the maps and bitsets are those the effect of the calls so far
   gives, whatever the bitsets held before.
2. `Bitsets`: the macros and loops of `bitset.cpp` against sets.
3. `RoutineScopes` with the postdominators `RoutineGraph` computes, the return
   node and recursion.
