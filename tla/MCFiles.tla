------------------------------ MODULE MCFiles --------------------------------
(****************************************************************************)
(* A file of each granularity and one that is no source, two descriptors,   *)
(* so that descriptors run out and are used again, and buffers that overlap.*)
(****************************************************************************)
EXTENDS FileSources, TLC

MCGranularity == "bytes" :> "PerByte" @@ "whole" :> "PerRead"
MCBuffers == {[start |-> 0, size |-> 3], [start |-> 1, size |-> 1]}
==============================================================================
