--------------------------- MODULE Sources_proofs ----------------------------
(****************************************************************************)
(* Proofs about files and sockets as taint sources, for any files, hosts,   *)
(* descriptors, buffers and number of marks.                                *)
(****************************************************************************)
EXTENDS NetworkSources, TaintGenerator_proofs, FiniteSetTheorems

------------------------------------------------------------------------------
(* The marks a read takes from the generator.                               *)

Generator == [start : Mark, current : Mark]

\* The generators of a read satisfy the recursion that defines them.
LEMMA GeneratedRecursion ==
    ASSUME NEW first \in Generator, NEW n \in Nat
    PROVE  LET g == Generated(first, n) IN
           /\ g[0] = first
           /\ \A k \in 0 .. n : g[k] \in Generator
           /\ \A k \in 0 .. n : k # n => g[k + 1] = nextTaintMark(g[k])
  <1> DEFINE g == Generated(first, n)
             Rec(h, m) == h = [k \in 0 .. m |-> IF k = 0 THEN first ELSE nextTaintMark(h[k - 1])]
             S == {m \in 0 .. n : \E h : Rec(h, m)}
  <1>1. 0 \in S
    <2>1. Rec([k \in 0 .. 0 |-> first], 0)
      OBVIOUS
    <2>2. \E h : Rec(h, 0)
      BY <2>1
    <2> HIDE DEF Rec
    <2> QED  BY <2>2
  <1>2. ASSUME NEW m \in 0 .. n, m # n, m \in S PROVE m + 1 \in S
    <2>1. PICK h : Rec(h, m)
      BY <1>2
    <2> DEFINE longer == [k \in 0 .. (m + 1) |-> IF k = m + 1 THEN nextTaintMark(h[m]) ELSE h[k]]
    <2>2. longer = [k \in 0 .. (m + 1) |-> IF k = 0 THEN first ELSE nextTaintMark(longer[k - 1])]
      <3>1. ASSUME NEW k \in 0 .. (m + 1)
            PROVE  longer[k] = IF k = 0 THEN first ELSE nextTaintMark(longer[k - 1])
        <4>1. CASE k = m + 1
          BY <2>1, <4>1
        <4>2. CASE k # m + 1
          BY <2>1, <4>2
        <4> QED  BY <4>1, <4>2
      <3>2. longer = [k \in 0 .. (m + 1) |-> longer[k]]
        OBVIOUS
      <3> HIDE DEF longer
      <3> QED  BY <3>1, <3>2
    <2>3. m + 1 \in 0 .. n
      BY <1>2
    <2> QED  BY <2>2, <2>3
  <1> HIDE DEF S
  <1>3. 0 .. n \subseteq S
    BY <1>1, <1>2, InductionUpTo
  <1>4. n \in S
    BY <1>3
  <1>5. PICK h : h = [k \in 0 .. n |-> IF k = 0 THEN first ELSE nextTaintMark(h[k - 1])]
    BY <1>4 DEF S
  <1>6. g = [k \in 0 .. n |-> IF k = 0 THEN first ELSE nextTaintMark(g[k - 1])]
    BY <1>5 DEF Generated
  <1> HIDE DEF g
  <1>7. g[0] = first /\ \A k \in 0 .. n : k # n => g[k + 1] = nextTaintMark(g[k])
    BY <1>6
  <1> DEFINE T == {k \in 0 .. n : g[k] \in Generator}
  <1>8. 0 .. n \subseteq T
    <2>1. 0 \in T
      BY <1>7
    <2>2. \A k \in 0 .. n : k # n /\ k \in T => k + 1 \in T
      BY <1>7, NextMark DEF Generator
    <2> HIDE DEF T
    <2> QED  BY <2>1, <2>2, InductionUpTo
  <1> QED  BY <1>7, <1>8 DEF g

\* Counted from the current mark on, and from the first one again after the last: the
\* marks of a read, as far as they have not come round.
LEMMA GeneratedMarks ==
    ASSUME NEW first \in Generator, first.start = 0, NEW n \in Nat
    PROVE  LET g == Generated(first, n) IN
           /\ \A k \in 0 .. n : g[k].start = 0
           /\ \A k \in 0 .. n : k < NUMBER_OF_TAINT_MARKS =>
                 g[k].current = IF first.current + k < NUMBER_OF_TAINT_MARKS THEN first.current + k
                                ELSE first.current + k - NUMBER_OF_TAINT_MARKS
  <1> DEFINE g == Generated(first, n)
             max == NUMBER_OF_TAINT_MARKS
             S == {k \in 0 .. n : /\ g[k].start = 0
                                  /\ k < max => g[k].current =
                                        IF first.current + k < max THEN first.current + k
                                        ELSE first.current + k - max}
  <1>1. /\ g[0] = first
        /\ \A k \in 0 .. n : g[k] \in Generator
        /\ \A k \in 0 .. n : k # n => g[k + 1] = nextTaintMark(g[k])
    BY GeneratedRecursion
  <1> HIDE DEF g
  <1>2. max \in Nat \ {0} /\ first.current \in Nat /\ first.current < max
    BY MarksAssumption DEF Generator, Mark
  <1>3. 0 \in S
    BY <1>1, <1>2
  <1>4. ASSUME NEW k \in 0 .. n, k # n, k \in S PROVE k + 1 \in S
    <2>1. /\ g[k + 1].start = g[k].start
          /\ g[k + 1].current = IF g[k].current + 1 = max THEN g[k].start ELSE g[k].current + 1
      BY <1>1, <1>4, NextMark DEF Generator
    <2>2. g[k].start = 0 /\ (k < max => g[k].current =
                                        IF first.current + k < max THEN first.current + k
                                        ELSE first.current + k - max)
      BY <1>4
    <2>3. k + 1 \in 0 .. n
      BY <1>4
    <2>4. k + 1 < max => g[k + 1].current = IF first.current + (k + 1) < max THEN first.current + (k + 1)
                                        ELSE first.current + (k + 1) - max
      BY <1>2, <2>1, <2>2
    <2> QED  BY <2>1, <2>2, <2>3, <2>4
  <1> HIDE DEF S
  <1>5. 0 .. n \subseteq S
    BY <1>3, <1>4, InductionUpTo
  <1> QED  BY <1>5 DEF S, g

\* As many marks as there are bytes, or all there are.
LEMMA MarksOfRead ==
    ASSUME NEW first \in Generator, first.start = 0, NEW n \in Nat \ {0}
    PROVE  Cardinality({{Generated(first, n)[k].current} : k \in 0 .. (n - 1)}) =
              IF n < NUMBER_OF_TAINT_MARKS THEN n ELSE NUMBER_OF_TAINT_MARKS
  <1> DEFINE g == Generated(first, n)
             max == NUMBER_OF_TAINT_MARKS
             size == IF n < max THEN n ELSE max
             used == {{g[k].current} : k \in 0 .. (n - 1)}
             f == [k \in 0 .. (size - 1) |-> {g[k].current}]
             shifted(k) == IF first.current + k < max THEN first.current + k ELSE first.current + k - max
  <1>1. /\ \A k \in 0 .. n : g[k].current \in Mark
        /\ \A k \in 0 .. n : k < max => g[k].current = shifted(k)
    BY GeneratedRecursion, GeneratedMarks DEF Generator
  <1> HIDE DEF g
  <1>2. max \in Nat \ {0} /\ first.current \in Nat /\ first.current < max
    BY MarksAssumption DEF Generator, Mark
  <1>3. size \in Nat \ {0} /\ size <= n /\ size <= max
    BY <1>2
  <1>4. \A k \in 0 .. (size - 1) : g[k].current = shifted(k)
    BY <1>1, <1>2
  <1>5. f \in [0 .. (size - 1) -> used]
    BY <1>3
  <1>6. ASSUME NEW j \in 0 .. (size - 1), NEW k \in 0 .. (size - 1), f[j] = f[k] PROVE j = k
    <2>1. shifted(j) = shifted(k)
      BY <1>4, <1>6
    <2> QED  BY <1>2, <1>3, <2>1
  <1>7. ASSUME NEW u \in used PROVE \E k \in 0 .. (size - 1) : f[k] = u
    <2>1. PICK j \in 0 .. (n - 1) : u = {g[j].current}
      OBVIOUS
    <2>2. CASE n < max
      BY <2>1, <2>2
    <2>3. CASE ~(n < max)
      <3> DEFINE m == g[j].current
                 k == IF first.current <= m THEN m - first.current ELSE m - first.current + max
      <3>1. m \in Nat /\ m < max
        BY <1>1, <1>2, <2>1 DEF Mark
      <3>2. k \in 0 .. (max - 1) /\ shifted(k) = m
        BY <1>2, <3>1
      <3> HIDE DEF k, m
      <3>3. k \in 0 .. (size - 1)
        BY <2>3, <3>2
      <3>4. f[k] = {m}
        BY <1>4, <3>2, <3>3
      <3> QED  BY <2>1, <3>3, <3>4 DEF m
    <2> QED  BY <2>2, <2>3
  <1> HIDE DEF f, used, size
  <1>8. f \in Bijection(0 .. (size - 1), used)
    BY <1>5, <1>6, <1>7 DEF Bijection, Injection, Surjection, IsInjective
  <1>9. IsFiniteSet(0 .. (size - 1)) /\ Cardinality(0 .. (size - 1)) = size
    BY <1>3, FS_Interval
  <1>10. Cardinality(used) = size
    BY <1>8, <1>9, FS_Bijection DEF ExistsBijection
  <1> QED  BY <1>10 DEF used, size, g

------------------------------------------------------------------------------
(* System calls, and the types of what they change.                         *)

Calls == Requests \cup SocketRequests

LEMMA CallFields ==
    ASSUME NEW call \in Calls
    PROVE  /\ call.num = "open" => call.path \in Paths
           /\ call.num \in {"close", "dup", "read", "accept", "connect"} => call.fd \in FDs
           /\ call.num \in {"read", "recv", "recvfrom", "recvmsg"} => call.fd \in FDs /\ call.buf \in Buffers
           /\ call.num = "connect" => call.host \in Peers
  <1>1. CASE call \in [num : {"open"} \cap Syscalls, path : Paths]
    BY <1>1
  <1>2. CASE call \in [num : {"close", "dup"} \cap Syscalls, fd : FDs]
    BY <1>2
  <1>3. CASE call \in [num : {"read"} \cap Syscalls, fd : FDs, buf : Buffers]
    BY <1>3
  <1>4. CASE call \in [num : {"socket"} \cap Syscalls]
    BY <1>4
  <1>5. CASE call \in [num : {"accept", "send"} \cap Syscalls, fd : FDs]
    BY <1>5
  <1>6. CASE call \in [num : {"connect"} \cap Syscalls, fd : FDs, host : Peers]
    BY <1>6
  <1>7. CASE call \in [num : {"recv", "recvmsg"} \cap Syscalls, fd : FDs, buf : Buffers]
    BY <1>7
  <1>8. CASE call \in [num : {"recvfrom"} \cap Syscalls, fd : FDs, buf : Buffers, host : Peers \cup {None}]
    BY <1>8
  <1> QED  BY <1>1, <1>2, <1>3, <1>4, <1>5, <1>6, <1>7, <1>8 DEF Calls, Requests, SocketRequests

\* A call that is over is one that was begun; an open returns a descriptor and a read
\* no more than its buffer holds.
CallsInv ==
    /\ pendingSyscalls \in [Threads -> Calls \cup {None}]
    /\ \A t \in Threads : ret[t] # None =>
          /\ pendingSyscalls[t] # None
          /\ pendingSyscalls[t].num = "open" => ret[t] \in FDs \cup {-1}
          /\ pendingSyscalls[t].num = "read" => ret[t] \in 0 .. pendingSyscalls[t].buf.size \cup {-1}

\* No socket is ever recorded: Recorded asks for a host that is observed and for all of
\* them to be, and with "*" there are no observers of hosts.
Silent ==
    /\ socketToAddress = NoEntries
    /\ observeEverything => addressObservers = NoEntries

TypeInv == TypeOK /\ CallsInv /\ Silent /\ gen.start = 0

\* The calls the kernel answers without a change to its tables, with a new descriptor
\* and with data.
Answers(t) ==
    /\ pendingSyscalls[t] # None
    /\ \E r \in {-1, 0} : Kernel(t, r) /\ UNCHANGED system /\ (r = 0 => pendingSyscalls[t].num = "send")

Describes(t) ==
    LET call == pendingSyscalls[t] IN
    /\ call # None /\ call.num \in {"open", "dup", "socket", "accept"}
    /\ \E what \in Paths \cup Peers \cup {None} :
          KernelDescribes(t, what) /\ (call.num = "open" => what = call.path)

Fills(t) ==
    LET call == pendingSyscalls[t] IN
    /\ call # None /\ call.num \in {"read", "recv", "recvfrom", "recvmsg"}
    /\ \E from \in Paths \cup Peers :
          /\ KernelFills(t, from)
          /\ IF call.num = "read" THEN call.fd \in DOMAIN kernel /\ from = kernel[call.fd]
             ELSE from \in Peers

LEMMA StepsOfCalls ==
    ASSUME TypeInv, NetworkNext
    PROVE  \E t \in Threads :
              \/ endSocketcall(t)
              \/ /\ \/ \E request \in Calls : beginSyscall(t, request)
                    \/ Answers(t) \/ Describes(t) \/ KernelCloses(t) \/ KernelConnects(t) \/ Fills(t)
                 /\ UNCHANGED network
  <1>1. PICK t \in Threads :
          \/ endSocketcall(t)
          \/ /\ \/ \E request \in Calls : beginSyscall(t, request)
                \/ KernelFails(t) \/ KernelOpens(t) \/ KernelCloses(t) \/ KernelReads(t)
                \/ KernelMakesSocket(t) \/ KernelConnects(t) \/ KernelReceives(t)
                \/ KernelSends(t)
             /\ UNCHANGED network
    BY DEF NetworkNext, Calls
  <1> DEFINE call == pendingSyscalls[t]
  <1>2. call \in Calls \cup {None}
    BY DEF TypeInv, CallsInv
  <1>3. KernelFails(t) \/ KernelSends(t) => Answers(t)
    BY DEF KernelFails, KernelSends, Answers, Kernel
  <1>4. ASSUME KernelOpens(t) PROVE Describes(t)
    <2>1. PICK what \in OpenedBy(call) : KernelDescribes(t, what)
      BY <1>4 DEF KernelOpens
    <2>2. call \in Calls /\ call # None
      BY <1>2, <1>4 DEF KernelOpens
    <2> HIDE DEF call
    <2>3. CASE call.num = "open"
      BY <2>1, <2>2, <2>3, CallFields DEF Describes, OpenedBy, call
    <2>4. CASE call.num = "dup"
      <3>1. what \in {kernel[fd] : fd \in {call.fd} \cap DOMAIN kernel}
        BY <2>1, <2>4 DEF OpenedBy
      <3>2. what \in Paths \cup Peers \cup {None}
        BY <3>1 DEF TypeInv, TypeOK
      <3> QED  BY <2>1, <2>2, <2>4, <3>2 DEF Describes, call
    <2>5. CASE call.num # "open" /\ call.num # "dup"
      BY <2>1, <2>5 DEF OpenedBy
    <2> QED  BY <2>3, <2>4, <2>5
  <1>5. ASSUME KernelMakesSocket(t) PROVE Describes(t)
    <2>1. PICK what \in SocketOf(call) : KernelDescribes(t, what)
      BY <1>5 DEF KernelMakesSocket
    <2>2. call.num \in {"socket", "accept"} /\ what \in Peers \cup {None}
      BY <2>1 DEF SocketOf
    <2> QED  BY <1>5, <2>1, <2>2 DEF KernelMakesSocket, Describes
  <1>6. KernelReads(t) => Fills(t)
    <2> SUFFICES ASSUME KernelReads(t) PROVE Fills(t)
      OBVIOUS
    <2>1. kernel[call.fd] \in Paths \cup Peers
      BY DEF KernelReads, TypeInv, TypeOK
    <2> QED  BY <2>1 DEF KernelReads, Fills
  <1>7. KernelReceives(t) => Fills(t)
    BY DEF KernelReceives, Fills
  <1> QED  BY <1>1, <1>3, <1>4, <1>5, <1>6, <1>7

\* The number a new descriptor gets is one that is free.
LEMMA LowestFree ==
    ASSUME FreeFDs # {}
    PROVE  Lowest(FreeFDs) \in FDs \ DOMAIN kernel
  <1>1. FreeFDs \subseteq Nat /\ FreeFDs \subseteq FDs \ DOMAIN kernel
    BY SourcesAssumption DEF FreeFDs
  <1>2. \E m \in FreeFDs : \A k \in FreeFDs : m <= k
    BY <1>1, LeastNumber
  <1> QED  BY <1>1, <1>2 DEF Lowest

\* What NetworkMonitor does when a call ends: it marks nothing.
LEMMA NetworkSilent ==
    ASSUME Silent, NEW args, NEW result, NEW taint
    PROVE  /\ Recorded(args) = NoEntries
           /\ closeNetworkCallback(args, result) = NoEntries
           /\ notifyForNetworkRead(taint, args, result) = taint
  <1>1. DOMAIN NoEntries = {} /\ \A K : Erase(NoEntries, K) = NoEntries
    BY DEF NoEntries, Erase
  <1>2. Recorded(args) = NoEntries
    BY <1>1 DEF Recorded, Silent
  <1>3. closeNetworkCallback(args, result) = NoEntries
    BY <1>1 DEF closeNetworkCallback, Silent
  <1>4. Notifies(args, result) => observeEverything /\ Address(args) \notin DOMAIN addressObservers
    BY <1>1, <1>2 DEF Notifies, Address, Silent
  <1>5. notifyForNetworkRead(taint, args, result) = taint
    BY <1>4 DEF notifyForNetworkRead, Stops
  <1> QED  BY <1>2, <1>3, <1>5

\* The end of a call that is not observed by PathTaintSource, and of one that is.
LEMMA EndEffect ==
    ASSUME TypeInv, NEW t \in Threads, endSocketcall(t)
    PROVE  LET args == pendingSyscalls[t]
               n == ret[t]
               bytes == Bytes(args.buf.start, n)
               path == activeFileDescriptors[args.fd]
               g == Generated(gen, n)
           IN
           /\ args \in Calls /\ n \in Int
           /\ ~Observed(args, n) => UNCHANGED <<memTaintMap, gen, last>>
           /\ Observed(args, n) =>
                 /\ n \in Nat \ {0} /\ args.buf.start \in Nat /\ bytes \subseteq Addresses
                 /\ last' = [start |-> args.buf.start, size |-> n, path |-> path]
                 /\ \/ /\ Granularity[path] = "PerByte"
                       /\ memTaintMap' = [a \in DOMAIN memTaintMap \cup bytes |->
                             IF a \in bytes THEN {g[a - args.buf.start].current} ELSE memTaintMap[a]]
                       /\ gen' = g[n]
                    \/ /\ Granularity[path] = "PerRead"
                       /\ memTaintMap' = Put(memTaintMap, bytes, {gen.current})
                       /\ gen' = nextTaintMark(gen)
           /\ socketToAddress' = NoEntries
           /\ UNCHANGED <<observeEverything, addressObservers>>
  <1> DEFINE args == pendingSyscalls[t]
             n == ret[t]
             bytes == Bytes(args.buf.start, n)
             path == activeFileDescriptors[args.fd]
  <1>1. /\ SyscallEnds(t)
        /\ LET taint == notifyForNetworkRead(notifyForRead(args, n), args, n)
           IN memTaintMap' = taint.mem /\ gen' = taint.gen
        /\ socketToAddress' = IF args.num = "close" THEN closeNetworkCallback(args, n) ELSE Recorded(args)
        /\ UNCHANGED <<observeEverything, addressObservers>>
    BY DEF endSocketcall
  <1>2. n # None /\ args # None /\ args \in Calls /\ n \in Int
    BY <1>1 DEF SyscallEnds, TypeInv, CallsInv, TypeOK
  <1>3. /\ memTaintMap' = notifyForRead(args, n).mem /\ gen' = notifyForRead(args, n).gen
        /\ socketToAddress' = NoEntries
    BY <1>1, NetworkSilent DEF TypeInv
  <1>4. last' = IF Observed(args, n) THEN [start |-> args.buf.start, size |-> n, path |-> path] ELSE last
    BY <1>1 DEF SyscallEnds
  <1>5. ~Observed(args, n) => UNCHANGED <<memTaintMap, gen, last>>
    BY <1>3, <1>4 DEF notifyForRead, Taint
  <1>6. ASSUME Observed(args, n)
        PROVE  n \in Nat \ {0} /\ args.buf.start \in Nat /\ bytes \subseteq Addresses
    <2>1. args.num = "read" /\ n > 0
      BY <1>6 DEF Observed
    <2>2. args.buf \in Buffers
      BY <1>2, <2>1, CallFields
    <2>3. n \in 0 .. args.buf.size \cup {-1}
      BY <1>2, <2>1 DEF TypeInv, CallsInv
    <2>4. /\ args.buf.start \in Nat /\ args.buf.size \in Nat
          /\ Bytes(args.buf.start, args.buf.size) \subseteq Addresses
      BY <2>2, SourcesAssumption
    <2>5. n \in Nat \ {0} /\ n <= args.buf.size
      BY <2>1, <2>3, <2>4
    <2>6. bytes \subseteq Bytes(args.buf.start, args.buf.size)
      BY <2>4, <2>5 DEF Bytes
    <2> QED  BY <2>4, <2>5, <2>6
  <1>7. ASSUME Observed(args, n)
        PROVE  \/ /\ Granularity[path] = "PerByte"
                  /\ memTaintMap' = [a \in DOMAIN memTaintMap \cup bytes |->
                        IF a \in bytes THEN {Generated(gen, n)[a - args.buf.start].current}
                        ELSE memTaintMap[a]]
                  /\ gen' = Generated(gen, n)[n]
               \/ /\ Granularity[path] = "PerRead"
                  /\ memTaintMap' = Put(memTaintMap, bytes, {gen.current})
                  /\ gen' = nextTaintMark(gen)
    <2>1. Granularity[path] \in {"PerByte", "PerRead"}
      BY <1>7, SourcesAssumption DEF Observed
    <2>2. CASE Granularity[path] = "PerByte"
      <3>1. notifyForRead(args, n) = pathSourceReadCallbackPerByte(Taint, args.buf.start, n)
        BY <1>7, <2>2 DEF notifyForRead
      <3> QED  BY <1>3, <2>2, <3>1 DEF pathSourceReadCallbackPerByte, Taint
    <2>3. CASE Granularity[path] = "PerRead"
      <3>1. notifyForRead(args, n) = pathSourceReadCallbackPerRead(Taint, args.buf.start, n)
        BY <1>7, <2>3 DEF notifyForRead
      <3> QED  BY <1>3, <2>3, <3>1 DEF pathSourceReadCallbackPerRead, Taint
    <2> QED  BY <2>1, <2>2, <2>3
  <1> QED  BY <1>1, <1>2, <1>3, <1>4, <1>5, <1>6, <1>7

\* A read that is marked leaves the marks and the generator of their types, and each of
\* its bytes with one mark.
LEMMA EndMarks ==
    ASSUME TypeInv, NEW t \in Threads, endSocketcall(t)
    PROVE  LET args == pendingSyscalls[t]
               bytes == Bytes(args.buf.start, ret[t])
           IN
           /\ IsTaintMap(memTaintMap', Addresses, Mark)
           /\ gen' \in Generator /\ gen'.start = 0
           /\ \A a : MarksOf(memTaintMap, a) # {} => MarksOf(memTaintMap', a) # {}
           /\ Observed(args, ret[t]) =>
                 \A a \in bytes : a \in DOMAIN memTaintMap' /\ \E m \in Mark : memTaintMap'[a] = {m}
  <1> DEFINE args == pendingSyscalls[t]
             n == ret[t]
             start == args.buf.start
             bytes == Bytes(start, n)
             path == activeFileDescriptors[args.fd]
             g == Generated(gen, n)
  <1>1. gen \in Generator /\ gen.start = 0 /\ IsTaintMap(memTaintMap, Addresses, Mark)
    BY DEF TypeInv, TypeOK, Generator
  <1>2. CASE ~Observed(args, n)
    BY <1>1, <1>2, EndEffect
  <1>3. CASE Observed(args, n)
    <2>1. n \in Nat \ {0} /\ start \in Nat /\ bytes \subseteq Addresses
      BY <1>3, EndEffect
    <2>2. \/ /\ memTaintMap' = [a \in DOMAIN memTaintMap \cup bytes |->
                   IF a \in bytes THEN {g[a - start].current} ELSE memTaintMap[a]]
             /\ gen' = g[n]
          \/ /\ memTaintMap' = Put(memTaintMap, bytes, {gen.current})
             /\ gen' = nextTaintMark(gen)
      BY <1>3, EndEffect
    <2>3. \A k \in 0 .. n : g[k] \in Generator /\ g[k].start = 0
      BY <1>1, <2>1, GeneratedRecursion, GeneratedMarks
    <2> HIDE DEF g, start, n
    <2>4. \A a \in bytes : a - start \in 0 .. n
      BY <2>1 DEF Bytes
    <2>5. \A a \in bytes : g[a - start].current \in Mark
      BY <2>3, <2>4 DEF Generator
    <2>6. gen' \in Generator /\ gen'.start = 0
      BY <1>1, <2>1, <2>2, <2>3, NextMark DEF Generator
    <2>7. gen.current \in Mark
      BY <1>1 DEF Generator
    <2> HIDE DEF bytes
    <2>8. /\ DOMAIN memTaintMap' = DOMAIN memTaintMap \cup bytes
          /\ \A a \in bytes : \E m \in Mark : memTaintMap'[a] = {m}
          /\ \A a \in DOMAIN memTaintMap \ bytes : memTaintMap'[a] = memTaintMap[a]
          /\ memTaintMap' = [a \in DOMAIN memTaintMap' |-> memTaintMap'[a]]
      <3>1. CASE /\ memTaintMap' = [a \in DOMAIN memTaintMap \cup bytes |->
                       IF a \in bytes THEN {g[a - start].current} ELSE memTaintMap[a]]
        BY <2>5, <3>1
      <3>2. CASE memTaintMap' = Put(memTaintMap, bytes, {gen.current})
        BY <2>7, <3>2 DEF Put
      <3> QED  BY <2>2, <3>1, <3>2
    <2>9. IsTaintMap(memTaintMap', Addresses, Mark)
      <3>1. \A a \in DOMAIN memTaintMap' : a \in Addresses /\ memTaintMap'[a] \in SUBSET Mark
        BY <1>1, <2>1, <2>8 DEF IsTaintMap
      <3> QED  BY <2>8, <3>1 DEF IsTaintMap
    <2>10. \A a : MarksOf(memTaintMap, a) # {} => MarksOf(memTaintMap', a) # {}
      BY <2>8 DEF MarksOf
    <2> QED  BY <2>6, <2>8, <2>9, <2>10 DEF bytes, n, start
  <1> QED  BY <1>2, <1>3

LEMMA TypeInit == NetworkInit => TypeInv
  <1> SUFFICES ASSUME NetworkInit PROVE TypeInv
    OBVIOUS
  <1>1. \A S : NoEntries \in [DOMAIN NoEntries -> S] /\ DOMAIN NoEntries = {}
    BY DEF NoEntries
  <1>2. 0 \in Mark
    BY MarksAssumption DEF Mark
  <1>3. TypeOK
    BY <1>1, <1>2 DEF NetworkInit, Init, TypeOK, IsTaintMap
  <1>4. CallsInv
    BY DEF NetworkInit, Init, CallsInv
  <1> QED  BY <1>3, <1>4 DEF NetworkInit, Init, TypeInv, Silent

\* An answer of the kernel to a call.
LEMMA AnswerTypes ==
    ASSUME TypeInv, NEW t \in Threads, NEW r \in Int, Kernel(t, r),
           pendingSyscalls[t].num = "open" => r \in FDs \cup {-1},
           pendingSyscalls[t].num = "read" => r \in 0 .. pendingSyscalls[t].buf.size \cup {-1}
    PROVE  /\ ret' \in [Threads -> Int \cup {None}]
           /\ ret'[t] = r /\ r # None /\ \A u \in Threads : u # t => ret'[u] = ret[u]
           /\ CallsInv'
           /\ UNCHANGED <<pendingSyscalls, activeFileDescriptors, memTaintMap, gen, last>>
  <1>1. ret \in [Threads -> Int \cup {None}] /\ r # None
    BY SourcesAssumption DEF TypeInv, TypeOK
  <1>2. /\ ret' = [ret EXCEPT ![t] = r] /\ pendingSyscalls[t] # None
        /\ UNCHANGED <<pendingSyscalls, activeFileDescriptors, memTaintMap, gen, last>>
    BY DEF Kernel, monitor
  <1>3. /\ ret' \in [Threads -> Int \cup {None}]
        /\ ret'[t] = r /\ \A u \in Threads : u # t => ret'[u] = ret[u]
    BY <1>1, <1>2
  <1>4. CallsInv'
    BY <1>2, <1>3 DEF TypeInv, CallsInv
  <1> QED  BY <1>1, <1>2, <1>3, <1>4

\* What the calls of the kernel do, with the results they have.
LEMMA KernelEffect ==
    ASSUME TypeInv, NEW t \in Threads
    PROVE  LET call == pendingSyscalls[t] IN
           /\ Answers(t) => \E r \in {-1, 0} :
                 Kernel(t, r) /\ UNCHANGED system /\ (r = 0 => call.num = "send")
           /\ Describes(t) => \E fd \in FDs \ DOMAIN kernel, what \in Paths \cup Peers \cup {None} :
                 /\ Kernel(t, fd) /\ kernel' = Put(kernel, {fd}, what) /\ UNCHANGED content
                 /\ opened' = IF call.num = "open" THEN opened \cup {fd} ELSE opened
                 /\ call.num \in {"open", "dup", "socket", "accept"}
                 /\ call.num = "open" => what = call.path /\ what \in Paths
           /\ KernelCloses(t) =>
                 /\ call.num = "close" /\ call.fd \in DOMAIN kernel /\ Kernel(t, 0)
                 /\ kernel' = Erase(kernel, {call.fd}) /\ opened' = opened \ {call.fd}
                 /\ UNCHANGED content
           /\ KernelConnects(t) =>
                 /\ call.num = "connect" /\ call.fd \in FDs /\ call.host \in Peers
                 /\ kernel[call.fd] = None /\ Kernel(t, 0)
                 /\ kernel' = Put(kernel, {call.fd}, call.host) /\ UNCHANGED <<opened, content>>
           /\ Fills(t) => \E n \in 0 .. call.buf.size, from \in Paths \cup Peers :
                 /\ call.buf \in Buffers
                 /\ Kernel(t, n) /\ UNCHANGED <<kernel, opened>>
                 /\ content' = [a \in Addresses |->
                                  IF a \in Bytes(call.buf.start, n)
                                  THEN [from |-> from, opened |-> call.fd \in opened] ELSE content[a]]
                 /\ call.num \in {"read", "recv", "recvfrom", "recvmsg"}
                 /\ IF call.num = "read" THEN call.fd \in DOMAIN kernel /\ from = kernel[call.fd]
                    ELSE from \in Peers
  <1> DEFINE call == pendingSyscalls[t]
  <1>1. call # None => call \in Calls
    BY DEF TypeInv, CallsInv
  <1>2. ASSUME Describes(t)
        PROVE  \E fd \in FDs \ DOMAIN kernel, what \in Paths \cup Peers \cup {None} :
                 /\ Kernel(t, fd) /\ kernel' = Put(kernel, {fd}, what) /\ UNCHANGED content
                 /\ opened' = IF call.num = "open" THEN opened \cup {fd} ELSE opened
                 /\ call.num \in {"open", "dup", "socket", "accept"}
                 /\ call.num = "open" => what = call.path /\ what \in Paths
    <2>1. PICK what \in Paths \cup Peers \cup {None} :
             KernelDescribes(t, what) /\ (call.num = "open" => what = call.path)
      BY <1>2 DEF Describes
    <2> DEFINE fd == Lowest(FreeFDs)
    <2>2. fd \in FDs \ DOMAIN kernel
      BY <2>1, LowestFree DEF KernelDescribes
    <2>3. call.num = "open" => call.path \in Paths
      BY <1>1, <1>2, CallFields DEF Describes
    <2> QED  BY <1>2, <2>1, <2>2, <2>3 DEF KernelDescribes, Describes
  <1>3. KernelConnects(t) => call.fd \in FDs /\ call.host \in Peers
    BY <1>1, CallFields DEF KernelConnects
  <1>4. ASSUME Fills(t)
        PROVE  \E n \in 0 .. call.buf.size, from \in Paths \cup Peers :
                 /\ call.buf \in Buffers
                 /\ Kernel(t, n) /\ UNCHANGED <<kernel, opened>>
                 /\ content' = [a \in Addresses |->
                                  IF a \in Bytes(call.buf.start, n)
                                  THEN [from |-> from, opened |-> call.fd \in opened] ELSE content[a]]
                 /\ call.num \in {"read", "recv", "recvfrom", "recvmsg"}
                 /\ IF call.num = "read" THEN call.fd \in DOMAIN kernel /\ from = kernel[call.fd]
                    ELSE from \in Peers
    <2>1. call.buf \in Buffers
      BY <1>1, <1>4, CallFields DEF Fills
    <2> QED  BY <1>4, <2>1 DEF Fills, KernelFills
  <1> QED  BY <1>2, <1>3, <1>4 DEF Answers, KernelCloses, KernelConnects

LEMMA TypeNext == TypeInv /\ [NetworkNext]_allVars => TypeInv'
  <1> SUFFICES ASSUME TypeInv, [NetworkNext]_allVars PROVE TypeInv'
    OBVIOUS
  <1> USE DEF TypeInv
  <1>1. CASE UNCHANGED allVars
    <2>1. TypeOK' /\ gen'.start = 0
      BY <1>1 DEF allVars, vars, system, TypeOK
    <2>2. CallsInv' /\ Silent'
      BY <1>1 DEF allVars, vars, network, CallsInv, Silent
    <2> QED  BY <2>1, <2>2
  <1>2. ASSUME NEW t \in Threads, endSocketcall(t) PROVE TypeInv'
    <2> DEFINE args == pendingSyscalls[t]
    <2>1. SyscallEnds(t) /\ args \in Calls /\ args # None /\ ret[t] # None
      BY <1>2, EndEffect DEF endSocketcall, SyscallEnds, CallsInv
    <2>2. /\ pendingSyscalls' = [pendingSyscalls EXCEPT ![t] = None]
          /\ ret' = [ret EXCEPT ![t] = None] /\ UNCHANGED system
          /\ activeFileDescriptors' = CASE args.num = "open" -> openCallback(args, ret[t])
                                        [] args.num = "close" -> closeCallback(args, ret[t])
                                        [] OTHER -> activeFileDescriptors
      BY <2>1 DEF SyscallEnds
    <2>3. CallsInv'
      BY <2>2 DEF CallsInv, TypeOK
    <2>4. Silent'
      BY <1>2, EndEffect DEF Silent
    <2>5. /\ args.num = "open" => args.path \in Paths
          /\ args.num = "open" => ret[t] \in FDs \cup {-1}
      BY <2>1, CallFields DEF CallsInv
    <2> HIDE DEF args
    <2>6. /\ DOMAIN activeFileDescriptors' \subseteq FDs
          /\ activeFileDescriptors' \in [DOMAIN activeFileDescriptors' -> Paths]
      <3>1. CASE args.num = "open"
        BY <2>2, <2>5, <3>1 DEF openCallback, Put, TypeOK
      <3>2. CASE args.num = "close"
        BY <2>2, <3>2 DEF closeCallback, Erase, TypeOK
      <3>3. CASE args.num # "open" /\ args.num # "close"
        BY <2>2, <3>3 DEF TypeOK
      <3> QED  BY <3>1, <3>2, <3>3
    <2>7. IsTaintMap(memTaintMap', Addresses, Mark) /\ gen' \in Generator /\ gen'.start = 0
      BY <1>2, EndMarks
    <2>8. TypeOK'
      BY <2>2, <2>6, <2>7 DEF TypeOK, system, Generator
    <2> QED  BY <2>3, <2>4, <2>7, <2>8
  <1>3. ASSUME NEW t \in Threads, NEW request \in Calls, beginSyscall(t, request), UNCHANGED network
        PROVE  TypeInv'
    <2>1. CallsInv'
      BY <1>3 DEF beginSyscall, CallsInv
    <2>2. TypeOK' /\ gen'.start = 0
      BY <1>3 DEF beginSyscall, system, TypeOK
    <2>3. Silent'
      BY <1>3 DEF Silent, network
    <2> QED  BY <2>1, <2>2, <2>3
  <1>4. ASSUME NEW t \in Threads, NEW r \in Int, Kernel(t, r),
               pendingSyscalls[t].num = "open" => r \in FDs \cup {-1},
               pendingSyscalls[t].num = "read" => r \in 0 .. pendingSyscalls[t].buf.size \cup {-1},
               DOMAIN kernel' \subseteq FDs, kernel' \in [DOMAIN kernel' -> Paths \cup Peers \cup {None}],
               opened' \subseteq DOMAIN kernel',
               content' \in [Addresses -> [from : Paths \cup Peers, opened : BOOLEAN] \cup {None}],
               UNCHANGED network
        PROVE  TypeInv'
    <2>1. /\ ret' \in [Threads -> Int \cup {None}] /\ CallsInv'
          /\ UNCHANGED <<pendingSyscalls, activeFileDescriptors, memTaintMap, gen, last>>
      BY <1>4, AnswerTypes
    <2>2. Silent'
      BY <1>4 DEF Silent, network
    <2>3. TypeOK'
      BY <1>4, <2>1 DEF TypeOK
    <2> QED  BY <2>1, <2>2, <2>3
  <1>5. ASSUME NEW t \in Threads, Answers(t), UNCHANGED network PROVE TypeInv'
    <2>1. PICK r \in {-1, 0} : Kernel(t, r) /\ UNCHANGED system /\ (r = 0 => pendingSyscalls[t].num = "send")
      BY <1>5, KernelEffect
    <2>2. UNCHANGED <<kernel, opened, content>> /\ r \in Int
      BY <2>1 DEF system
    <2> QED  BY <1>4, <1>5, <2>1, <2>2 DEF TypeOK
  <1>6. ASSUME NEW t \in Threads, Describes(t), UNCHANGED network PROVE TypeInv'
    <2>1. PICK fd \in FDs \ DOMAIN kernel, what \in Paths \cup Peers \cup {None} :
                 /\ Kernel(t, fd) /\ kernel' = Put(kernel, {fd}, what) /\ UNCHANGED content
                 /\ opened' = IF pendingSyscalls[t].num = "open" THEN opened \cup {fd} ELSE opened
                 /\ pendingSyscalls[t].num \in {"open", "dup", "socket", "accept"}
      BY <1>6, KernelEffect
    <2>2. /\ DOMAIN kernel' = DOMAIN kernel \cup {fd}
          /\ kernel' \in [DOMAIN kernel' -> Paths \cup Peers \cup {None}]
      BY <2>1 DEF Put, TypeOK
    <2>3. fd \in Int
      BY SourcesAssumption
    <2>4. opened' \subseteq DOMAIN kernel' /\ DOMAIN kernel' \subseteq FDs
      BY <2>1, <2>2 DEF TypeOK
    <2> QED  BY <1>4, <1>6, <2>1, <2>2, <2>3, <2>4 DEF TypeOK
  <1>7. ASSUME NEW t \in Threads, KernelCloses(t), UNCHANGED network PROVE TypeInv'
    <2> DEFINE call == pendingSyscalls[t]
    <2>1. /\ call.num = "close" /\ Kernel(t, 0)
          /\ kernel' = Erase(kernel, {call.fd}) /\ opened' = opened \ {call.fd}
          /\ UNCHANGED content
      BY <1>7, KernelEffect
    <2>2. /\ DOMAIN kernel' = DOMAIN kernel \ {call.fd}
          /\ kernel' \in [DOMAIN kernel' -> Paths \cup Peers \cup {None}]
      BY <2>1 DEF Erase, TypeOK
    <2>3. /\ DOMAIN kernel' \subseteq FDs /\ opened' \subseteq DOMAIN kernel'
          /\ content' \in [Addresses -> [from : Paths \cup Peers, opened : BOOLEAN] \cup {None}]
      BY <2>1, <2>2 DEF TypeOK
    <2>4. call.num # "open" /\ call.num # "read" /\ 0 \in Int
      BY <2>1
    <2> QED  BY <1>4, <1>7, <2>1, <2>2, <2>3, <2>4
  <1>8. ASSUME NEW t \in Threads, KernelConnects(t), UNCHANGED network PROVE TypeInv'
    <2> DEFINE call == pendingSyscalls[t]
    <2>1. /\ call.num = "connect" /\ call.fd \in FDs /\ call.host \in Peers /\ Kernel(t, 0)
          /\ kernel' = Put(kernel, {call.fd}, call.host) /\ UNCHANGED <<opened, content>>
      BY <1>8, KernelEffect
    <2>2. /\ DOMAIN kernel' = DOMAIN kernel \cup {call.fd}
          /\ kernel' \in [DOMAIN kernel' -> Paths \cup Peers \cup {None}]
      BY <2>1 DEF Put, TypeOK
    <2>3. /\ DOMAIN kernel' \subseteq FDs /\ opened' \subseteq DOMAIN kernel'
          /\ content' \in [Addresses -> [from : Paths \cup Peers, opened : BOOLEAN] \cup {None}]
      BY <2>1, <2>2 DEF TypeOK
    <2>4. call.num # "open" /\ call.num # "read" /\ 0 \in Int
      BY <2>1
    <2> QED  BY <1>4, <1>8, <2>1, <2>2, <2>3, <2>4
  <1>9. ASSUME NEW t \in Threads, Fills(t), UNCHANGED network PROVE TypeInv'
    <2> DEFINE call == pendingSyscalls[t]
    <2>1. PICK n \in 0 .. call.buf.size, from \in Paths \cup Peers :
             /\ Kernel(t, n) /\ UNCHANGED <<kernel, opened>>
             /\ content' = [a \in Addresses |->
                              IF a \in Bytes(call.buf.start, n)
                              THEN [from |-> from, opened |-> call.fd \in opened] ELSE content[a]]
             /\ call.num \in {"read", "recv", "recvfrom", "recvmsg"}
      BY <1>9, KernelEffect
    <2>2. content' \in [Addresses -> [from : Paths \cup Peers, opened : BOOLEAN] \cup {None}]
      <3>1. \A a \in Addresses : content'[a] \in [from : Paths \cup Peers, opened : BOOLEAN] \cup {None}
        BY <2>1 DEF TypeOK
      <3> QED  BY <2>1, <3>1
    <2>3. n \in Int
      OBVIOUS
    <2> QED  BY <1>4, <1>9, <2>1, <2>2, <2>3 DEF TypeOK
  <1> QED  BY <1>1, <1>2, <1>3, <1>5, <1>6, <1>7, <1>8, <1>9, StepsOfCalls

\* Files, sockets, the monitors and the generator keep their types, for any number of
\* threads whose system calls overlap, any files and hosts and any number of marks.
THEOREM TypeCorrect == NetworkSpec => []TypeOK
  <1>1. TypeInv => TypeOK
    BY DEF TypeInv
  <1> QED  BY <1>1, TypeInit, TypeNext, PTL DEF NetworkSpec

------------------------------------------------------------------------------
(* Granularities.                                                           *)

\* The marks of a read that has just been marked.
LEMMA EndGranularity ==
    ASSUME TypeInv, NEW t \in Threads, endSocketcall(t), Observed(pendingSyscalls[t], ret[t])
    PROVE  GranularityKept'
  <1> DEFINE args == pendingSyscalls[t]
             n == ret[t]
             start == args.buf.start
             bytes == Bytes(start, n)
             path == activeFileDescriptors[args.fd]
             g == Generated(gen, n)
             used == {memTaintMap'[a] : a \in bytes}
  <1>1. n \in Nat \ {0} /\ start \in Nat /\ last' = [start |-> start, size |-> n, path |-> path]
    BY EndEffect
  <1>2. \/ /\ Granularity[path] = "PerByte"
           /\ memTaintMap' = [a \in DOMAIN memTaintMap \cup bytes |->
                 IF a \in bytes THEN {g[a - start].current} ELSE memTaintMap[a]]
        \/ /\ Granularity[path] = "PerRead"
           /\ memTaintMap' = Put(memTaintMap, bytes, {gen.current})
    BY EndEffect
  <1>3. \A a \in bytes : \E m \in Mark : memTaintMap'[a] = {m}
    BY EndMarks
  <1>4. gen \in Generator /\ gen.start = 0
    BY DEF TypeInv, TypeOK, Generator
  <1> HIDE DEF n, start, path, g
  <1>5. bytes = start .. (start + n - 1) /\ start \in bytes
    BY <1>1 DEF Bytes
  <1>6. \A marks \in used : Cardinality(marks) = 1
    <2>1. ASSUME NEW marks \in used PROVE \E m : marks = {m}
      BY <1>3
    <2>2. \A m : Cardinality({m}) = 1
      BY FS_Singleton
    <2> HIDE DEF used
    <2> QED  BY <2>1, <2>2
  <1>7. Granularity[path] = "PerRead" => Cardinality(used) = 1
    <2> SUFFICES ASSUME Granularity[path] = "PerRead" PROVE Cardinality(used) = 1
      OBVIOUS
    <2>1. \A a \in bytes : memTaintMap'[a] = {gen.current}
      BY <1>2 DEF Put
    <2>2. used = {{gen.current}}
      BY <1>5, <2>1
    <2> QED  BY <2>2, FS_Singleton
  <1>8. Granularity[path] # "PerRead" =>
           Cardinality(used) = IF n < NUMBER_OF_TAINT_MARKS THEN n ELSE NUMBER_OF_TAINT_MARKS
    <2> SUFFICES ASSUME Granularity[path] # "PerRead"
                 PROVE  Cardinality(used) = IF n < NUMBER_OF_TAINT_MARKS THEN n ELSE NUMBER_OF_TAINT_MARKS
      OBVIOUS
    <2>1. \A a \in bytes : memTaintMap'[a] = {g[a - start].current}
      BY <1>2
    <2>2. \A k \in 0 .. (n - 1) : start + k \in bytes /\ (start + k) - start = k
      BY <1>1, <1>5
    <2>3. \A a \in bytes : a - start \in 0 .. (n - 1)
      BY <1>1, <1>5
    <2>4. used = {{g[k].current} : k \in 0 .. (n - 1)}
      <3>1. ASSUME NEW a \in bytes PROVE memTaintMap'[a] \in {{g[k].current} : k \in 0 .. (n - 1)}
        BY <2>1, <2>3
      <3>2. ASSUME NEW k \in 0 .. (n - 1) PROVE {g[k].current} \in used
        <4>1. memTaintMap'[start + k] = {g[k].current}
          BY <2>1, <2>2
        <4> QED  BY <2>2, <4>1
      <3> QED  BY <3>1, <3>2
    <2> QED  BY <1>1, <1>4, <2>4, MarksOfRead DEF g
  <1> HIDE DEF used, bytes
  <1>9. /\ \A marks \in used : Cardinality(marks) = 1
        /\ Cardinality(used) = IF Granularity[path] = "PerRead" THEN 1
                               ELSE IF n < NUMBER_OF_TAINT_MARKS THEN n ELSE NUMBER_OF_TAINT_MARKS
    BY <1>6, <1>7, <1>8
  <1>10. last'.start = start /\ last'.size = n /\ last'.path = path
    BY <1>1
  <1>11. used = {memTaintMap'[a] : a \in Bytes(last'.start, last'.size)}
    BY <1>10 DEF used, bytes
  <1> QED  BY <1>9, <1>10, <1>11 DEF GranularityKept

\* Only the end of a call changes marks.
LEMMA MarksUnchanged ==
    ASSUME TypeInv, [NetworkNext]_allVars
    PROVE  \/ \E t \in Threads : endSocketcall(t)
           \/ UNCHANGED memTaintMap /\ last' \in {last, None}
  <1>1. CASE UNCHANGED allVars
    BY <1>1 DEF allVars, vars
  <1>2. CASE NetworkNext
    BY <1>2, StepsOfCalls, KernelEffect DEF beginSyscall, Kernel, monitor
  <1> QED  BY <1>1, <1>2

\* After every read of a source a mark of its own is on each byte, as far as there are
\* marks, or one on all of them, as its granularity says, for any size of the read, any
\* number of marks and any position of the generator, also where other threads are in
\* the middle of calls.
THEOREM GranularityAlways == NetworkSpec => []GranularityKept
  <1>1. NetworkInit => GranularityKept
    BY DEF NetworkInit, Init, GranularityKept
  <1>2. TypeInv /\ GranularityKept /\ [NetworkNext]_allVars => GranularityKept'
    <2> SUFFICES ASSUME TypeInv, GranularityKept, [NetworkNext]_allVars PROVE GranularityKept'
      OBVIOUS
    <2>1. CASE UNCHANGED memTaintMap /\ last' \in {last, None}
      BY <2>1 DEF GranularityKept
    <2>2. ASSUME NEW t \in Threads, endSocketcall(t) PROVE GranularityKept'
      <3>1. CASE Observed(pendingSyscalls[t], ret[t])
        BY <2>2, <3>1, EndGranularity
      <3>2. CASE ~Observed(pendingSyscalls[t], ret[t])
        <4>1. UNCHANGED <<memTaintMap, last>>
          BY <2>2, <3>2, EndEffect
        <4> QED  BY <4>1 DEF GranularityKept
      <3> QED  BY <3>1, <3>2
    <2> QED  BY <2>1, <2>2, MarksUnchanged
  <1> QED  BY <1>1, <1>2, TypeInit, TypeNext, PTL DEF NetworkSpec

------------------------------------------------------------------------------
(* A program of one thread, whose system calls do not overlap.              *)

OneThread == \A t, u \in Threads : t = u

\* What PathMonitor will know when the call thread t has made is over.
Known(t) ==
    CASE ret[t] # None /\ pendingSyscalls[t].num = "open" -> openCallback(pendingSyscalls[t], ret[t])
      [] ret[t] # None /\ pendingSyscalls[t].num = "close" -> closeCallback(pendingSyscalls[t], ret[t])
      [] OTHER -> activeFileDescriptors

OpenFiles == [fd \in opened |-> kernel[fd]]

\* Thread t has read the byte a and has not come to the end of the call.
JustRead(t, a) ==
    /\ ret[t] # None /\ pendingSyscalls[t].num = "read"
    /\ a \in Bytes(pendingSyscalls[t].buf.start, ret[t])

\* A descriptor that open returned stands for a file, and once the call it is in the
\* middle of is over the monitor knows which.
FilesKnown ==
    /\ \A fd \in opened : kernel[fd] \in Paths
    /\ \A t \in Threads : Known(t) = OpenFiles

\* What has just been read is from the file of the descriptor; whatever else is from a
\* source has marks.
DataKnown ==
    /\ \A t \in Threads : \A a \in Addresses : JustRead(t, a) =>
          LET fd == pendingSyscalls[t].fd
          IN content[a] = [from |-> kernel[fd], opened |-> fd \in opened]
    /\ \A a \in Addresses :
          content[a] # None /\ content[a].from \in DOMAIN Granularity /\ content[a].opened =>
             MarksOf(memTaintMap, a) # {} \/ \E t \in Threads : JustRead(t, a)

\* The last read is remembered until the next call begins.
LastKnown == last # None => Quiet /\ OnlySourceData

FilesInv == FilesKnown /\ DataKnown /\ LastKnown

LEMMA FilesInit == NetworkInit => FilesInv
  <1> SUFFICES ASSUME NetworkInit PROVE FilesInv
    OBVIOUS
  <1>1. \A t \in Threads : ret[t] = None /\ Known(t) = NoEntries
    BY DEF NetworkInit, Init, Known
  <1>2. OpenFiles = NoEntries /\ opened = {}
    BY DEF NetworkInit, Init, OpenFiles, NoEntries
  <1>3. \A a \in Addresses : content[a] = None
    BY DEF NetworkInit, Init
  <1>4. last = None
    BY DEF NetworkInit, Init
  <1> QED  BY <1>1, <1>2, <1>3, <1>4 DEF FilesInv, FilesKnown, DataKnown, LastKnown, JustRead

LEMMA BeginFiles ==
    ASSUME TypeInv, FilesInv, OneThread, NEW t \in Threads, NEW request \in Calls,
           beginSyscall(t, request)
    PROVE  FilesInv'
  <1>1. /\ pendingSyscalls[t] = None /\ last' = None
        /\ UNCHANGED <<kernel, opened, content, ret, activeFileDescriptors, memTaintMap>>
    BY DEF beginSyscall, system
  <1>2. \A u \in Threads : ret[u] = None
    BY <1>1 DEF TypeInv, CallsInv, OneThread
  <1>3. \A u \in Threads : Known(u) = activeFileDescriptors /\ Known(u)' = activeFileDescriptors
    BY <1>1, <1>2 DEF Known
  <1>4. FilesKnown'
    BY <1>1, <1>3 DEF FilesInv, FilesKnown, OpenFiles
  <1>5. \A u \in Threads : \A a : ~JustRead(u, a) /\ ~JustRead(u, a)'
    BY <1>1, <1>2 DEF JustRead
  <1>6. DataKnown'
    BY <1>1, <1>5 DEF FilesInv, DataKnown
  <1> QED  BY <1>1, <1>4, <1>6 DEF FilesInv, LastKnown

\* What an answer of the kernel has to keep.
LEMMA AnswerFiles ==
    ASSUME TypeInv, FilesInv, OneThread, NEW t \in Threads, NEW r \in Int, Kernel(t, r),
           \A fd \in opened' : kernel'[fd] \in Paths,
           Known(t)' = OpenFiles',
           \A a \in Addresses : JustRead(t, a)' =>
              content'[a] = [from |-> kernel'[pendingSyscalls[t].fd],
                             opened |-> pendingSyscalls[t].fd \in opened'],
           \A a \in Addresses : \/ content'[a] = content[a]
                                \/ content'[a].from \notin DOMAIN Granularity
                                \/ JustRead(t, a)'
    PROVE  FilesInv'
  <1>1. /\ ret[t] = None /\ pendingSyscalls[t] # None
        /\ UNCHANGED <<pendingSyscalls, activeFileDescriptors, memTaintMap, last>>
    BY DEF Kernel, monitor
  <1>2. \A u \in Threads : u = t
    BY DEF OneThread
  <1>3. FilesKnown'
    BY <1>2 DEF FilesKnown
  <1>4. \A u \in Threads : \A a : ~JustRead(u, a)
    BY <1>1, <1>2 DEF JustRead
  <1>5. DataKnown'
    <2>1. ASSUME NEW u \in Threads, NEW a \in Addresses, JustRead(u, a)'
          PROVE  content'[a] = [from |-> kernel'[pendingSyscalls'[u].fd],
                                opened |-> pendingSyscalls'[u].fd \in opened']
      BY <1>1, <1>2, <2>1
    <2>2. ASSUME NEW a \in Addresses, content'[a] # None, content'[a].from \in DOMAIN Granularity,
                 content'[a].opened
          PROVE  MarksOf(memTaintMap', a) # {} \/ \E u \in Threads : JustRead(u, a)'
      BY <1>1, <1>4, <2>2 DEF FilesInv, DataKnown
    <2> QED  BY <2>1, <2>2 DEF DataKnown
  <1>6. last' = None
    BY <1>1 DEF FilesInv, LastKnown, Quiet
  <1> QED  BY <1>3, <1>5, <1>6 DEF FilesInv, LastKnown

\* Before the kernel has answered, the monitor knows the open files.
LEMMA BeforeAnswer ==
    ASSUME FilesInv, NEW t \in Threads, NEW r, Kernel(t, r), TypeInv
    PROVE  /\ activeFileDescriptors = OpenFiles
           /\ pendingSyscalls[t] \in Calls
           /\ UNCHANGED <<pendingSyscalls, activeFileDescriptors>>
           /\ ret'[t] = r
  <1>1. Known(t) = activeFileDescriptors
    BY DEF Known, Kernel
  <1>2. ret'[t] = r
    BY DEF Kernel, TypeInv, TypeOK
  <1> QED  BY <1>1, <1>2 DEF FilesInv, FilesKnown, Kernel, TypeInv, CallsInv, monitor

LEMMA KernelFiles ==
    ASSUME TypeInv, FilesInv, OneThread, NEW t \in Threads,
           Answers(t) \/ Describes(t) \/ KernelCloses(t) \/ KernelConnects(t) \/ Fills(t)
    PROVE  FilesInv'
  <1> DEFINE call == pendingSyscalls[t]
  <1>1. CASE Answers(t)
    <2>1. PICK r \in {-1, 0} : Kernel(t, r) /\ UNCHANGED system /\ (r = 0 => call.num = "send")
      BY <1>1, KernelEffect
    <2>2. /\ activeFileDescriptors = OpenFiles /\ call \in Calls
          /\ UNCHANGED <<pendingSyscalls, activeFileDescriptors, kernel, opened, content>>
          /\ ret'[t] = r
      BY <2>1, BeforeAnswer DEF system
    <2>3. Known(t)' = OpenFiles'
      BY <2>1, <2>2 DEF Known, OpenFiles, openCallback, closeCallback
    <2>4. \A a : ~JustRead(t, a)'
      <3>1. CASE call.num = "read"
        <4>1. call.buf.start \in Nat
          BY <2>2, <3>1, CallFields, SourcesAssumption
        <4>2. r = -1
          BY <2>1, <3>1
        <4> HIDE DEF call
        <4>3. Bytes(call.buf.start, r) = {}
          BY <4>1, <4>2 DEF Bytes
        <4> QED  BY <2>2, <4>3 DEF JustRead, call
      <3>2. CASE call.num # "read"
        BY <2>2, <3>2 DEF JustRead
      <3> QED  BY <3>1, <3>2
    <2>5. \A fd \in opened' : kernel'[fd] \in Paths
      BY <2>2 DEF FilesInv, FilesKnown
    <2>6. r \in Int
      OBVIOUS
    <2> QED  BY <2>1, <2>2, <2>3, <2>4, <2>5, <2>6, AnswerFiles
  <1>2. CASE Describes(t)
    <2>1. PICK fd \in FDs \ DOMAIN kernel, what \in Paths \cup Peers \cup {None} :
             /\ Kernel(t, fd) /\ kernel' = Put(kernel, {fd}, what) /\ UNCHANGED content
             /\ opened' = IF call.num = "open" THEN opened \cup {fd} ELSE opened
             /\ call.num \in {"open", "dup", "socket", "accept"}
             /\ call.num = "open" => what = call.path /\ what \in Paths
      BY <1>2, KernelEffect
    <2>2. /\ activeFileDescriptors = OpenFiles /\ call \in Calls
          /\ UNCHANGED <<pendingSyscalls, activeFileDescriptors>> /\ ret'[t] = fd
      BY <2>1, BeforeAnswer
    <2>3. fd \in Int /\ fd # -1 /\ fd # None /\ fd \notin opened
      BY SourcesAssumption DEF TypeInv, TypeOK
    <2>4. /\ kernel'[fd] = what /\ \A x \in opened : kernel'[x] = kernel[x]
      BY <2>1, <2>3 DEF Put, TypeInv, TypeOK
    <2>5. \A x \in opened' : kernel'[x] \in Paths
      BY <2>1, <2>4 DEF FilesInv, FilesKnown
    <2>6. Known(t)' = OpenFiles'
      <3>1. CASE call.num = "open"
        <4>1. Known(t)' = Put(activeFileDescriptors, {fd}, call.path)
          BY <2>2, <2>3, <3>1 DEF Known, openCallback
        <4> QED  BY <2>1, <2>2, <2>4, <3>1, <4>1 DEF OpenFiles, Put
      <3>2. CASE call.num # "open"
        <4>1. Known(t)' = activeFileDescriptors
          BY <2>1, <2>2, <3>2 DEF Known
        <4> QED  BY <2>1, <2>2, <2>4, <3>2, <4>1 DEF OpenFiles
      <3> QED  BY <3>1, <3>2
    <2>7. \A a : ~JustRead(t, a)'
      BY <2>1, <2>2 DEF JustRead
    <2> QED  BY <2>1, <2>2, <2>3, <2>5, <2>6, <2>7, AnswerFiles
  <1>3. CASE KernelCloses(t)
    <2>1. /\ call.num = "close" /\ call.fd \in DOMAIN kernel /\ Kernel(t, 0)
          /\ kernel' = Erase(kernel, {call.fd}) /\ opened' = opened \ {call.fd}
          /\ UNCHANGED content
      BY <1>3, KernelEffect
    <2>2. /\ activeFileDescriptors = OpenFiles /\ call \in Calls
          /\ UNCHANGED <<pendingSyscalls, activeFileDescriptors>> /\ ret'[t] = 0
      BY <2>1, BeforeAnswer
    <2>3. \A x \in opened' : x \in opened /\ kernel'[x] = kernel[x]
      BY <2>1 DEF Erase, TypeInv, TypeOK
    <2>4. \A x \in opened' : kernel'[x] \in Paths
      BY <2>3 DEF FilesInv, FilesKnown
    <2>5. Known(t)' = OpenFiles'
      <3>1. 0 # None /\ 0 # -1
        BY SourcesAssumption
      <3>2. Known(t)' = Erase(activeFileDescriptors, {call.fd})
        BY <2>1, <2>2, <3>1 DEF Known, closeCallback
      <3> QED  BY <2>1, <2>2, <2>3, <3>2 DEF OpenFiles, Erase
    <2>6. \A a : ~JustRead(t, a)'
      BY <2>1, <2>2 DEF JustRead
    <2>7. 0 \in Int
      OBVIOUS
    <2> QED  BY <2>1, <2>2, <2>4, <2>5, <2>6, <2>7, AnswerFiles
  <1>4. CASE KernelConnects(t)
    <2>1. /\ call.num = "connect" /\ kernel[call.fd] = None /\ Kernel(t, 0)
          /\ kernel' = Put(kernel, {call.fd}, call.host) /\ UNCHANGED <<opened, content>>
      BY <1>4, KernelEffect
    <2>2. /\ activeFileDescriptors = OpenFiles /\ call \in Calls
          /\ UNCHANGED <<pendingSyscalls, activeFileDescriptors>> /\ ret'[t] = 0
      BY <2>1, BeforeAnswer
    <2>3. call.fd \notin opened
      BY <2>1, SourcesAssumption DEF FilesInv, FilesKnown
    <2>4. \A x \in opened : kernel'[x] = kernel[x]
      BY <2>1, <2>3 DEF Put, TypeInv, TypeOK
    <2>5. \A x \in opened' : kernel'[x] \in Paths
      BY <2>1, <2>4 DEF FilesInv, FilesKnown
    <2>6. Known(t)' = OpenFiles'
      <3>1. Known(t)' = activeFileDescriptors
        BY <2>1, <2>2 DEF Known
      <3> QED  BY <2>1, <2>2, <2>4, <3>1 DEF OpenFiles
    <2>7. \A a : ~JustRead(t, a)'
      BY <2>1, <2>2 DEF JustRead
    <2>8. 0 \in Int
      OBVIOUS
    <2> QED  BY <2>1, <2>2, <2>5, <2>6, <2>7, <2>8, AnswerFiles
  <1>5. CASE Fills(t)
    <2>1. PICK n \in 0 .. call.buf.size, from \in Paths \cup Peers :
             /\ Kernel(t, n) /\ UNCHANGED <<kernel, opened>>
             /\ content' = [a \in Addresses |->
                              IF a \in Bytes(call.buf.start, n)
                              THEN [from |-> from, opened |-> call.fd \in opened] ELSE content[a]]
             /\ call.num \in {"read", "recv", "recvfrom", "recvmsg"}
             /\ IF call.num = "read" THEN call.fd \in DOMAIN kernel /\ from = kernel[call.fd]
                ELSE from \in Peers
      BY <1>5, KernelEffect
    <2>2. /\ activeFileDescriptors = OpenFiles /\ call \in Calls
          /\ UNCHANGED <<pendingSyscalls, activeFileDescriptors>> /\ ret'[t] = n
      BY <2>1, BeforeAnswer
    <2>3. \A x \in opened' : kernel'[x] \in Paths
      BY <2>1 DEF FilesInv, FilesKnown
    <2>4. Known(t)' = OpenFiles'
      <3>1. Known(t)' = activeFileDescriptors
        BY <2>1, <2>2 DEF Known
      <3> QED  BY <2>1, <2>2, <3>1 DEF OpenFiles
    <2>5. n \in Int /\ n # None
      BY SourcesAssumption
    <2>6. \A a \in Addresses : JustRead(t, a)' <=> call.num = "read" /\ a \in Bytes(call.buf.start, n)
      BY <2>2, <2>5 DEF JustRead
    <2>7. \A a \in Addresses : JustRead(t, a)' =>
             content'[a] = [from |-> kernel'[call.fd], opened |-> call.fd \in opened']
      BY <2>1, <2>6
    <2>8. \A a \in Addresses : \/ content'[a] = content[a]
                               \/ content'[a].from \notin DOMAIN Granularity
                               \/ JustRead(t, a)'
      <3>1. from \in Peers => from \notin DOMAIN Granularity
        BY SourcesAssumption
      <3> QED  BY <2>1, <2>6, <3>1
    <2> QED  BY <2>1, <2>3, <2>4, <2>5, <2>7, <2>8, AnswerFiles
  <1> QED  BY <1>1, <1>2, <1>3, <1>4, <1>5

\* The observers bring the monitor level with the kernel, and mark what was read.
LEMMA EndFiles ==
    ASSUME TypeInv, FilesInv, OneThread, NEW t \in Threads, endSocketcall(t)
    PROVE  FilesInv'
  <1> DEFINE args == pendingSyscalls[t]
             n == ret[t]
             bytes == Bytes(args.buf.start, n)
  <1>1. /\ n # None /\ UNCHANGED <<kernel, opened, content>>
        /\ activeFileDescriptors' = CASE args.num = "open" -> openCallback(args, n)
                                      [] args.num = "close" -> closeCallback(args, n)
                                      [] OTHER -> activeFileDescriptors
        /\ pendingSyscalls' = [pendingSyscalls EXCEPT ![t] = None]
        /\ ret' = [ret EXCEPT ![t] = None]
    BY DEF endSocketcall, SyscallEnds, system
  <1>2. /\ \A u \in Threads : u = t
        /\ \A u \in Threads : pendingSyscalls'[u] = None /\ ret'[u] = None
    BY <1>1 DEF OneThread, TypeInv, TypeOK
  <1>3. activeFileDescriptors' = Known(t) /\ Known(t) = OpenFiles
    BY <1>1 DEF Known, FilesInv, FilesKnown
  <1>4. FilesKnown'
    <2>1. \A u \in Threads : Known(u)' = activeFileDescriptors'
      BY <1>2 DEF Known
    <2>2. OpenFiles' = OpenFiles /\ \A fd \in opened' : kernel'[fd] \in Paths
      BY <1>1 DEF OpenFiles, FilesInv, FilesKnown
    <2> QED  BY <1>3, <2>1, <2>2 DEF FilesKnown
  <1>5. ASSUME args.num = "read"
        PROVE  /\ activeFileDescriptors = OpenFiles /\ n \in Int
               /\ \A a \in bytes : n > 0
               /\ \A a \in Addresses \cap bytes :
                     content[a] = [from |-> kernel[args.fd], opened |-> args.fd \in opened]
    <2>1. activeFileDescriptors = OpenFiles
      BY <1>3, <1>5 DEF Known
    <2>2. n \in Int /\ args \in Calls
      BY EndEffect
    <2>3. args.buf.start \in Nat
      BY <1>5, <2>2, CallFields, SourcesAssumption
    <2>4. \A a \in Addresses \cap bytes : JustRead(t, a)
      BY <1>1, <1>5 DEF JustRead
    <2>5. \A a \in Addresses \cap bytes :
             content[a] = [from |-> kernel[args.fd], opened |-> args.fd \in opened]
      BY <2>4 DEF FilesInv, DataKnown
    <2> HIDE DEF n, args
    <2>6. \A a \in bytes : n > 0
      BY <2>2, <2>3 DEF Bytes
    <2> QED  BY <2>1, <2>2, <2>5, <2>6
  <1>6. DataKnown'
    <2>1. \A u \in Threads : \A a : ~JustRead(u, a)'
      BY <1>2 DEF JustRead
    <2>2. ASSUME NEW a \in Addresses, content[a] # None, content[a].from \in DOMAIN Granularity,
                 content[a].opened
          PROVE  MarksOf(memTaintMap', a) # {}
      <3>1. CASE MarksOf(memTaintMap, a) # {}
        BY <3>1, EndMarks
      <3>2. CASE JustRead(t, a)
        <4>1. args.num = "read" /\ a \in bytes
          BY <3>2 DEF JustRead
        <4>2. args.fd \in opened /\ kernel[args.fd] \in DOMAIN Granularity
          <5>1. content[a] = [from |-> kernel[args.fd], opened |-> args.fd \in opened]
            BY <1>5, <4>1
          <5>2. content[a].from = kernel[args.fd] /\ content[a].opened = (args.fd \in opened)
            BY <5>1
          <5> QED  BY <2>2, <5>2
        <4>3. Observed(args, n)
          BY <1>5, <4>1, <4>2 DEF Observed, OpenFiles
        <4>4. a \in DOMAIN memTaintMap' /\ \E m \in Mark : memTaintMap'[a] = {m}
          BY <4>1, <4>3, EndMarks
        <4> QED  BY <4>4 DEF MarksOf
      <3> QED  BY <1>2, <2>2, <3>1, <3>2 DEF FilesInv, DataKnown
    <2> QED  BY <1>1, <2>1, <2>2 DEF DataKnown
  <1>7. LastKnown'
    <2>1. CASE Observed(args, n)
      <3>1. /\ last' = [start |-> args.buf.start, size |-> n, path |-> activeFileDescriptors[args.fd]]
            /\ bytes \subseteq Addresses
        BY <2>1, EndEffect
      <3>2. args.num = "read" /\ args.fd \in DOMAIN activeFileDescriptors
        BY <2>1 DEF Observed
      <3>3. activeFileDescriptors[args.fd] = kernel[args.fd]
        BY <1>5, <3>2 DEF OpenFiles
      <3>4. \A a \in bytes : content'[a].from = last'.path
        BY <1>1, <1>5, <3>1, <3>2, <3>3
      <3>5. Bytes(last'.start, last'.size) = bytes
        BY <3>1
      <3> QED  BY <1>2, <3>4, <3>5 DEF LastKnown, Quiet, OnlySourceData
    <2>2. CASE ~Observed(args, n)
      <3>1. last' = last
        BY <2>2, EndEffect
      <3>2. args # None
        BY <1>1 DEF TypeInv, CallsInv
      <3> QED  BY <3>1, <3>2 DEF FilesInv, LastKnown, Quiet
    <2> QED  BY <2>1, <2>2
  <1> QED  BY <1>4, <1>6, <1>7 DEF FilesInv

LEMMA FilesNext == OneThread /\ TypeInv /\ FilesInv /\ [NetworkNext]_allVars => FilesInv'
  <1> SUFFICES ASSUME OneThread, TypeInv, FilesInv, [NetworkNext]_allVars PROVE FilesInv'
    OBVIOUS
  <1>1. CASE UNCHANGED allVars
    <2>1. UNCHANGED <<kernel, opened, content, pendingSyscalls, ret, activeFileDescriptors,
                      memTaintMap, last>>
      BY <1>1 DEF allVars, vars, system
    <2>2. \A t \in Threads : Known(t)' = Known(t) /\ \A a : JustRead(t, a)' <=> JustRead(t, a)
      BY <2>1 DEF Known, JustRead, openCallback, closeCallback
    <2>3. FilesKnown'
      BY <2>1, <2>2 DEF FilesInv, FilesKnown, OpenFiles
    <2>4. DataKnown'
      BY <2>1, <2>2 DEF FilesInv, DataKnown
    <2>5. LastKnown'
      BY <2>1 DEF FilesInv, LastKnown, Quiet, OnlySourceData
    <2> QED  BY <2>3, <2>4, <2>5 DEF FilesInv
  <1>2. CASE NetworkNext
    BY <1>2, StepsOfCalls, BeginFiles, KernelFiles, EndFiles
  <1> QED  BY <1>1, <1>2

LEMMA FilesProperties ==
    TypeInv /\ FilesInv => DescriptorsAgree /\ SourceDataMarked /\ OnlySourceData
  <1> SUFFICES ASSUME TypeInv, FilesInv PROVE DescriptorsAgree /\ SourceDataMarked /\ OnlySourceData
    OBVIOUS
  <1>1. ASSUME Quiet, NEW t \in Threads PROVE ret[t] = None
    BY <1>1 DEF Quiet, TypeInv, CallsInv
  <1>2. DescriptorsAgree
    <2> SUFFICES ASSUME Quiet PROVE activeFileDescriptors = OpenFiles
      BY DEF DescriptorsAgree, OpenFiles
    <2>1. PICK t \in Threads : TRUE
      BY SourcesAssumption
    <2>2. Known(t) = activeFileDescriptors
      BY <1>1 DEF Known
    <2> QED  BY <2>2 DEF FilesInv, FilesKnown
  <1>3. SourceDataMarked
    BY <1>1 DEF SourceDataMarked, FilesInv, DataKnown, JustRead
  <1>4. OnlySourceData
    BY DEF FilesInv, LastKnown, OnlySourceData
  <1> QED  BY <1>2, <1>3, <1>4

\* Where calls do not overlap, PathMonitor knows between them just the descriptors that
\* open has returned and that are still open, each with its file, whatever descriptors
\* dup and sockets take in between and whatever calls fail.
THEOREM DescriptorsAlways == OneThread => (NetworkSpec => []DescriptorsAgree)
  <1> SUFFICES ASSUME OneThread PROVE NetworkSpec => []DescriptorsAgree
    OBVIOUS
  <1>1. TypeInv /\ FilesInv /\ [NetworkNext]_allVars => FilesInv'
    BY FilesNext
  <1> QED  BY <1>1, TypeInit, TypeNext, FilesInit, FilesProperties, PTL DEF NetworkSpec

\* Where calls do not overlap, no byte that came from a source by a descriptor of open is
\* without marks between calls.
THEOREM SourceDataAlways == OneThread => (NetworkSpec => []SourceDataMarked)
  <1> SUFFICES ASSUME OneThread PROVE NetworkSpec => []SourceDataMarked
    OBVIOUS
  <1>1. TypeInv /\ FilesInv /\ [NetworkNext]_allVars => FilesInv'
    BY FilesNext
  <1> QED  BY <1>1, TypeInit, TypeNext, FilesInit, FilesProperties, PTL DEF NetworkSpec

\* Where calls do not overlap, nothing is marked as data of a source that the kernel has
\* not filled from that file.
THEOREM OnlySourceDataAlways == OneThread => (NetworkSpec => []OnlySourceData)
  <1> SUFFICES ASSUME OneThread PROVE NetworkSpec => []OnlySourceData
    OBVIOUS
  <1>1. TypeInv /\ FilesInv /\ [NetworkNext]_allVars => FilesInv'
    BY FilesNext
  <1> QED  BY <1>1, TypeInit, TypeNext, FilesInit, FilesProperties, PTL DEF NetworkSpec
==============================================================================
