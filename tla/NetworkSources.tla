--------------------------- MODULE NetworkSources ----------------------------
(****************************************************************************)
(* Network connections as taint sources, beside files: NetworkMonitor       *)
(* observes socketcall, read and close of the same SyscallMonitor to know   *)
(* which socket is connected to a host that is a source, and                *)
(* NetworkTaintSource marks what is received from it.                       *)
(*                                                                          *)
(* The kernel's table is that of FileSources, so that files and sockets     *)
(* take each other's numbers.  socketcall's first argument is the call, and *)
(* the calls are told apart by it here.                                     *)
(****************************************************************************)
EXTENDS FileSources

CONSTANTS
    HostGranularity,  \* the hosts of the configuration -> "PerByte" or "PerRead"
    Everything        \* the configurations: {TRUE} for "*", {FALSE} for hosts

ASSUME HostsAssumption == DOMAIN HostGranularity \subseteq Peers /\ Everything \subseteq BOOLEAN

SocketRequests ==
    [num : {"socket"} \cap Syscalls]
      \cup [num : {"accept", "send"} \cap Syscalls, fd : FDs]
      \cup [num : {"connect"} \cap Syscalls, fd : FDs, host : Peers]
      \cup [num : {"recv", "recvmsg"} \cap Syscalls, fd : FDs, buf : Buffers]
      \* host is what the address argument holds when the call is over, None if the
      \* program has passed no address
      \cup [num : {"recvfrom"} \cap Syscalls, fd : FDs, buf : Buffers, host : Peers \cup {None}]

VARIABLES
    observeEverything,
    addressObservers,  \* host -> how its data is marked
    socketToAddress,   \* map<uint32_t, NetworkAddress>
    tool               \* "runs", or "stopped" after abort or a crash

network == <<observeEverything, addressObservers, socketToAddress, tool>>
allVars == <<vars, network>>

\* With "*" the callback goes to allObserver, which nothing calls; addressObservers
\* stays empty.
NetworkInit ==
    /\ Init
    /\ observeEverything \in Everything
    /\ addressObservers = IF observeEverything THEN NoEntries ELSE HostGranularity
    /\ socketToAddress = NoEntries
    /\ tool = "runs"

------------------------------------------------------------------------------
(* The kernel. *)

\* What the new socket of a call leads to: nothing yet, or whoever has connected.
SocketOf(call) ==
    CASE call.num = "socket" -> {None}
      [] call.num = "accept" -> {peer \in Peers : kernel[call.fd] = None}
      [] OTHER -> {}

KernelMakesSocket(t) ==
    /\ pendingSyscalls[t] # None
    /\ \E peer \in SocketOf(pendingSyscalls[t]) : KernelDescribes(t, peer)

KernelConnects(t) ==
    /\ pendingSyscalls[t] # None /\ pendingSyscalls[t].num = "connect"
    /\ kernel[pendingSyscalls[t].fd] = None
    /\ Kernel(t, 0)
    /\ kernel' = Put(kernel, {pendingSyscalls[t].fd}, pendingSyscalls[t].host)
    /\ UNCHANGED <<opened, content>>

\* recv is for sockets with a peer; the others receive from anybody, whom recvfrom
\* returns in the address.
KernelReceives(t) ==
    LET call == pendingSyscalls[t] IN
    /\ call # None /\ call.num \in {"recv", "recvfrom", "recvmsg"}
    /\ \E peer \in Peers :
          /\ kernel[call.fd] = peer \/ (kernel[call.fd] = None /\ call.num # "recv")
          /\ call.num = "recvfrom" => call.host \in {peer, None}
          /\ KernelFills(t, peer)

KernelSends(t) ==
    /\ pendingSyscalls[t] # None /\ pendingSyscalls[t].num = "send"
    /\ Kernel(t, 0) /\ UNCHANGED system

------------------------------------------------------------------------------
(* The observers. *)

\* connect and recvfrom record a socket whose host is observed, if everything is.
Recorded(args) ==
    IF args.num \in {"connect", "recvfrom"} /\ args.host \in DOMAIN addressObservers
          /\ observeEverything
    THEN Put(socketToAddress, {args.fd}, args.host) ELSE socketToAddress

\* recv and recvfrom go on to notifyForRead, if the socket is recorded or everything is
\* observed; read does if the socket is recorded.
Notifies(args, result) ==
    \/ /\ args.num \in {"recv", "recvfrom"}
       /\ args.fd \in DOMAIN Recorded(args) \/ observeEverything
    \/ /\ args.num = "read" /\ result # -1 /\ args.fd \in DOMAIN socketToAddress

\* operator[] gives a socket that is not recorded the address 0.0.0.0:0.
Address(args) == IF args.fd \in DOMAIN Recorded(args) THEN Recorded(args)[args.fd] ELSE None

\* The tool stops: recvmsg is aborted on as a call that is not handled, recvfrom reads
\* the address through the pointer it was given, and notifyForRead uses what find
\* returns without a look, the end of the map where there is no observer.
Stops(args, result) ==
    \/ args.num = "recvmsg"
    \/ args.num = "recvfrom" /\ args.host = None
    \/ Notifies(args, result) /\ Address(args) \notin DOMAIN addressObservers

networkReadCallbackPerByte(taint, start, n) == pathSourceReadCallbackPerByte(taint, start, n)
networkReadCallbackPerRead(taint, start, n) == pathSourceReadCallbackPerRead(taint, start, n)

notifyForNetworkRead(taint, args, result) ==
    IF ~Notifies(args, result) \/ Stops(args, result) THEN taint
    ELSE IF addressObservers[Address(args)] = "PerByte"
    THEN networkReadCallbackPerByte(taint, args.buf.start, result)
    ELSE networkReadCallbackPerRead(taint, args.buf.start, result)

closeNetworkCallback(args, result) ==
    IF result = -1 THEN socketToAddress ELSE Erase(socketToAddress, {args.fd})

\* The observers of PathMonitor and then those of NetworkMonitor.
endSocketcall(t) ==
    LET args == pendingSyscalls[t]
        result == ret[t]
    IN
    /\ SyscallEnds(t)
    /\ LET taint == notifyForNetworkRead(notifyForRead(args, result), args, result)
       IN memTaintMap' = taint.mem /\ gen' = taint.gen
    /\ socketToAddress' =
          IF args.num = "close" THEN closeNetworkCallback(args, result) ELSE Recorded(args)
    /\ tool' = IF Stops(args, result) THEN "stopped" ELSE tool
    /\ UNCHANGED <<observeEverything, addressObservers>>

NetworkNext ==
    /\ tool = "runs"
    /\ \E t \in Threads :
          \/ endSocketcall(t)
          \/ /\ \/ \E request \in Requests \cup SocketRequests : beginSyscall(t, request)
                \/ KernelFails(t) \/ KernelOpens(t) \/ KernelCloses(t) \/ KernelReads(t)
                \/ KernelMakesSocket(t) \/ KernelConnects(t) \/ KernelReceives(t)
                \/ KernelSends(t)
             /\ UNCHANGED network

NetworkSpec == NetworkInit /\ [][NetworkNext]_allVars

------------------------------------------------------------------------------
(* Properties. *)

\* Dytan lets users "taint data originating from a network connection" (README):
\* between system calls every byte that was last filled from a host of the
\* configuration has marks.
NetworkDataMarked ==
    Quiet /\ tool = "runs" => \A a \in Addresses :
       content[a] # None /\ content[a].from \in DOMAIN HostGranularity =>
          MarksOf(memTaintMap, a) # {}
==============================================================================
