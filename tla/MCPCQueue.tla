----------------------------- MODULE MCPCQueue ------------------------------
(* Instance of PCQueue for TLC: threads and values are model values.       *)
EXTENDS PCQueue
=============================================================================
