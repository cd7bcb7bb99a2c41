------------------------------ MODULE MCServer ------------------------------
(* Instances of Server for TLC.  Pool objects and the threads of one pool  *)
(* are interchangeable, so the safety runs use their permutations.  One    *)
(* client sends two sentences and may change its configuration between     *)
(* them, the other sends one sentence.                                     *)
EXTENDS Server, TLC

CONSTANTS c1, c2

PoolSymmetry == Permutations(ConnRequests) \cup Permutations(Requests)
                \cup Permutations(Decoders)

TwoClients == {c1, c2}
TwoAndOne == (c1 :> 2) @@ (c2 :> 1)
OneEach == (c1 :> 1) @@ (c2 :> 1)
OneAndNone == (c1 :> 1) @@ (c2 :> 0)
=============================================================================
