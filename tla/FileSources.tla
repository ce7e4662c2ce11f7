----------------------------- MODULE FileSources -----------------------------
(****************************************************************************)
(* Files as taint sources: SyscallMonitor, which pairs the entry and the    *)
(* exit of a system call; PathMonitor, which follows open, close and read   *)
(* to know which descriptor is which file; PathTaintSource, which marks the *)
(* bytes a read of a source file has returned.                              *)
(*                                                                          *)
(* A system call takes three steps: SysBefore records its arguments, the    *)
(* kernel executes it, SysAfter runs the observers.  Pin takes a lock for   *)
(* the first and for the last step, but not across them, so that the calls  *)
(* of two threads overlap.                                                  *)
(****************************************************************************)
EXTENDS TaintMaps, TaintGenerator, FiniteSets, Sequences

CONSTANTS
    Threads,
    Paths,        \* the files of the system
    Granularity,  \* Granularity[p]: "PerByte" or "PerRead", for p a source
    FDs,          \* file descriptors
    Addresses,
    Syscalls,     \* the system calls the program may make
    Buffers,      \* [start, size]: the buffers it may pass to read
    Peers,        \* what else a descriptor can lead to: hosts
    None          \* "no file", "no call", a socket without a peer

Bytes(start, n) == start .. (start + n - 1)

ASSUME SourcesAssumption ==
    /\ DOMAIN Granularity \subseteq Paths
    /\ Granularity \in [DOMAIN Granularity -> {"PerByte", "PerRead"}]
    /\ Paths \cap Peers = {} /\ None \notin Paths \cup Peers \cup Int
    /\ Threads # {} /\ FDs \subseteq Nat /\ Addresses \subseteq Nat
    /\ Buffers \subseteq [start : Nat, size : Nat]
    /\ \A buf \in Buffers : Bytes(buf.start, buf.size) \subseteq Addresses

\* The system calls of the program, with their arguments.
Requests ==
    [num : {"open"} \cap Syscalls, path : Paths]
      \cup [num : {"close", "dup"} \cap Syscalls, fd : FDs]
      \cup [num : {"read"} \cap Syscalls, fd : FDs, buf : Buffers]

VARIABLES
    kernel,                 \* the kernel's table: fd -> path or peer
    opened,                 \* history: the descriptors that open has returned
    content,                \* history: where the data at an address came from, and
                            \* whether by a descriptor in opened
    pendingSyscalls,        \* per thread, what beginSyscall recorded
    ret,                    \* per thread, the result of a call, None before it
    activeFileDescriptors,  \* map<int, string>: what PathMonitor knows
    memTaintMap,            \* map<ADDRINT, bitset *>
    gen,                    \* the TaintGenerator
    last                    \* history: the range and file of the read just marked

system == <<kernel, opened, content>>
vars == <<system, pendingSyscalls, ret, activeFileDescriptors, memTaintMap, gen, last>>

monitor == <<activeFileDescriptors, memTaintMap, gen, last>>

TypeOK ==
    /\ DOMAIN kernel \subseteq FDs /\ kernel \in [DOMAIN kernel -> Paths \cup Peers \cup {None}]
    /\ opened \subseteq DOMAIN kernel
    /\ content \in [Addresses -> [from : Paths \cup Peers, opened : BOOLEAN] \cup {None}]
    /\ DOMAIN pendingSyscalls = Threads
    /\ ret \in [Threads -> Int \cup {None}]
    /\ DOMAIN activeFileDescriptors \subseteq FDs
    /\ activeFileDescriptors \in [DOMAIN activeFileDescriptors -> Paths]
    /\ IsTaintMap(memTaintMap, Addresses, Mark)
    /\ gen \in [start : Mark, current : Mark]

Init ==
    /\ kernel = NoEntries /\ opened = {}
    /\ content = [a \in Addresses |-> None]
    /\ pendingSyscalls = [t \in Threads |-> None]
    /\ ret = [t \in Threads |-> None]
    /\ activeFileDescriptors = NoEntries
    /\ memTaintMap = NoEntries
    /\ gen = [start |-> 0, current |-> 0]
    /\ last = None

------------------------------------------------------------------------------
\* The program is well behaved: it uses descriptors that are open, after the call
\* that opened them has returned, and not while another thread is closing them.
Usable(request) ==
    "fd" \in DOMAIN request =>
       /\ request.fd \in DOMAIN kernel
       /\ \A u \in Threads : LET other == pendingSyscalls[u] IN
             other # None =>
                /\ other.num \in {"open", "dup", "socket", "accept"} => ret[u] # request.fd
                /\ other.num = "close" => other.fd # request.fd

beginSyscall(t, request) ==
    /\ pendingSyscalls[t] = None /\ Usable(request)
    /\ pendingSyscalls' = [pendingSyscalls EXCEPT ![t] = request]
    /\ last' = None
    /\ UNCHANGED <<system, ret, activeFileDescriptors, memTaintMap, gen>>

(* The kernel.  A call that fails returns -1. *)

FreeFDs == FDs \ DOMAIN kernel
Lowest(fds) == CHOOSE fd \in fds : \A other \in fds : fd <= other

Kernel(t, result) ==
    /\ pendingSyscalls[t] # None /\ ret[t] = None
    /\ ret' = [ret EXCEPT ![t] = result]
    /\ UNCHANGED <<pendingSyscalls, monitor>>

KernelFails(t) == Kernel(t, -1) /\ UNCHANGED system

\* The file a call opens, if it is a call that does: dup's is the one its
\* argument stands for.
OpenedBy(call) ==
    CASE call.num = "open" -> {call.path}
      [] call.num = "dup" -> {kernel[fd] : fd \in {call.fd} \cap DOMAIN kernel}
      [] OTHER -> {}

\* A call that returns a descriptor returns the lowest that is free.
KernelDescribes(t, what) ==
    LET fd == Lowest(FreeFDs) IN
    /\ FreeFDs # {}
    /\ Kernel(t, fd)
    /\ kernel' = Put(kernel, {fd}, what)
    /\ opened' = IF pendingSyscalls[t].num = "open" THEN opened \cup {fd} ELSE opened
    /\ UNCHANGED content

KernelOpens(t) ==
    /\ pendingSyscalls[t] # None
    /\ \E what \in OpenedBy(pendingSyscalls[t]) : KernelDescribes(t, what)

KernelCloses(t) ==
    /\ pendingSyscalls[t] # None /\ pendingSyscalls[t].num = "close"
    /\ pendingSyscalls[t].fd \in DOMAIN kernel
    /\ Kernel(t, 0)
    /\ kernel' = Erase(kernel, {pendingSyscalls[t].fd})
    /\ opened' = opened \ {pendingSyscalls[t].fd}
    /\ UNCHANGED content

\* Data arrives: anything from the end of the file (0) to the whole buffer.
KernelFills(t, from) ==
    LET call == pendingSyscalls[t] IN
    \E n \in 0 .. call.buf.size :
       /\ Kernel(t, n)
       /\ content' = [a \in Addresses |->
                         IF a \in Bytes(call.buf.start, n)
                         THEN [from |-> from, opened |-> call.fd \in opened] ELSE content[a]]
       /\ UNCHANGED <<kernel, opened>>

KernelReads(t) ==
    /\ pendingSyscalls[t] # None /\ pendingSyscalls[t].num = "read"
    /\ pendingSyscalls[t].fd \in DOMAIN kernel /\ kernel[pendingSyscalls[t].fd] # None
    /\ KernelFills(t, kernel[pendingSyscalls[t].fd])

------------------------------------------------------------------------------
(* The observers, which endSyscall runs under the lock. *)

\* Mutant: the result of a failed open becomes a descriptor.
openCallbackUnchecked(args, result) == Put(activeFileDescriptors, {result}, args.path)

openCallback(args, result) ==
    IF result = -1 THEN activeFileDescriptors ELSE Put(activeFileDescriptors, {result}, args.path)

\* Mutants: a close that failed forgets the descriptor too, a close forgets nothing.
closeCallbackUnchecked(args, result) == Erase(activeFileDescriptors, {args.fd})
closeCallbackKeeps(args, result) == activeFileDescriptors

closeCallback(args, result) ==
    IF result = -1 THEN activeFileDescriptors ELSE Erase(activeFileDescriptors, {args.fd})

\* The marks and the generator, as the callbacks of a read take them and leave them.
Taint == [mem |-> memTaintMap, gen |-> gen]

\* The generator after each of n marks.
Generated(first, n) ==
    LET g[k \in 0 .. n] == IF k = 0 THEN first ELSE nextTaintMark(g[k - 1]) IN g

\* Mutant: the bitset is not reset between two bytes.
pathSourceReadCallbackPerByteKeeps(taint, start, n) ==
    LET g == Generated(taint.gen, n) IN
    [mem |-> [a \in DOMAIN taint.mem \cup Bytes(start, n) |->
                 IF a \in Bytes(start, n) THEN {g[k].current : k \in 0 .. (a - start)}
                 ELSE taint.mem[a]],
     gen |-> g[n]]

pathSourceReadCallbackPerByte(taint, start, n) ==
    LET g == Generated(taint.gen, n) IN
    [mem |-> [a \in DOMAIN taint.mem \cup Bytes(start, n) |->
                 IF a \in Bytes(start, n) THEN {g[a - start].current} ELSE taint.mem[a]],
     gen |-> g[n]]

\* Mutant: the last byte is left out.
pathSourceReadCallbackPerReadShort(taint, start, n) ==
    [mem |-> Put(taint.mem, Bytes(start, n - 1), {taint.gen.current}),
     gen |-> nextTaintMark(taint.gen)]

pathSourceReadCallbackPerRead(taint, start, n) ==
    [mem |-> Put(taint.mem, Bytes(start, n), {taint.gen.current}),
     gen |-> nextTaintMark(taint.gen)]

\* A read that is marked: its descriptor is known, its file is a source (the observer
\* of the others, pathSourceReadDefault, is empty), it has not failed and is not empty.
Observed(args, result) ==
    /\ args.num = "read" /\ result > 0
    /\ args.fd \in DOMAIN activeFileDescriptors
    /\ activeFileDescriptors[args.fd] \in DOMAIN Granularity

notifyForRead(args, result) ==
    IF ~Observed(args, result) THEN Taint
    ELSE IF Granularity[activeFileDescriptors[args.fd]] = "PerByte"
    THEN pathSourceReadCallbackPerByte(Taint, args.buf.start, result)
    ELSE pathSourceReadCallbackPerRead(Taint, args.buf.start, result)

\* dup has a handler of its own, which tells PathMonitor nothing.  The code
\* leaves pendingSyscalls[t] in place for the next beginSyscall to replace;
\* None stands for an entry whose call is over.
SyscallEnds(t) ==
    LET args == pendingSyscalls[t] IN
    /\ ret[t] # None
    /\ activeFileDescriptors' =
          CASE args.num = "open" -> openCallback(args, ret[t])
            [] args.num = "close" -> closeCallback(args, ret[t])
            [] OTHER -> activeFileDescriptors
    /\ last' = IF Observed(args, ret[t])
               THEN [start |-> args.buf.start, size |-> ret[t],
                     path |-> activeFileDescriptors[args.fd]]
               ELSE last
    /\ pendingSyscalls' = [pendingSyscalls EXCEPT ![t] = None]
    /\ ret' = [ret EXCEPT ![t] = None]
    /\ UNCHANGED system

endSyscall(t) ==
    /\ SyscallEnds(t)
    /\ LET taint == notifyForRead(pendingSyscalls[t], ret[t])
       IN memTaintMap' = taint.mem /\ gen' = taint.gen

Next ==
    \E t \in Threads :
       \/ \E request \in Requests : beginSyscall(t, request)
       \/ KernelFails(t) \/ KernelOpens(t) \/ KernelCloses(t) \/ KernelReads(t)
       \/ endSyscall(t)

Spec == Init /\ [][Next]_vars

------------------------------------------------------------------------------
(* Properties. *)

Quiet == \A t \in Threads : pendingSyscalls[t] = None

\* openCallback "adds the file descriptor of the file that is opened" and
\* closeCallback "removes file descriptor of the file being close": between system
\* calls the monitor knows the descriptors that open has returned and that are still
\* open, as the kernel does, also when dup and sockets take numbers in between.
DescriptorsAgree ==
    Quiet => activeFileDescriptors = [fd \in opened |-> kernel[fd]]

\* Dytan lets users "taint data originating from a file" (README): between system
\* calls every byte that was last filled from a source file has marks, if it was read
\* by a descriptor that open returned.
SourceDataMarked ==
    Quiet => \A a \in Addresses :
                content[a] # None /\ content[a].from \in DOMAIN Granularity /\ content[a].opened =>
                   MarksOf(memTaintMap, a) # {}

\* A read is marked as data of a file only if the kernel filled the whole range from
\* that file: a number that was closed and is now a copy or a socket is not mistaken.
OnlySourceData ==
    last # None => \A a \in Bytes(last.start, last.size) : content[a].from = last.path

\* The two granularities of the README: after a read, PerRead has put one mark on
\* all its bytes, PerByte a different one on each, as far as there are marks.
GranularityKept ==
    last # None =>
       LET bytes == Bytes(last.start, last.size)
           used == {memTaintMap[a] : a \in bytes}
       IN /\ \A marks \in used : Cardinality(marks) = 1
          /\ Cardinality(used) =
                IF Granularity[last.path] = "PerRead" THEN 1
                ELSE IF last.size < NUMBER_OF_TAINT_MARKS THEN last.size
                ELSE NUMBER_OF_TAINT_MARKS
==============================================================================
