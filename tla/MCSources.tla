----------------------------- MODULE MCSources -------------------------------
(****************************************************************************)
(* A file of each granularity and one that is no source, a host that is one,*)
(* two descriptors, so that descriptors run out and files, copies and       *)
(* sockets take each other's numbers, and buffers that overlap.             *)
(****************************************************************************)
EXTENDS NetworkSources, TLC

MCGranularity == "bytes" :> "PerByte" @@ "whole" :> "PerRead"
MCHostGranularity == "host" :> "PerRead"
MCBuffers == {[start |-> 0, size |-> 2], [start |-> 1, size |-> 1]}
==============================================================================
