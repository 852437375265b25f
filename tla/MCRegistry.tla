----------------------------- MODULE MCRegistry -----------------------------
(* Two nodes that hash to the same host, and two addresses.                 *)
EXTENDS Registry, TLC

CONSTANTS n1, n2

MCPeers == <<n1, n2>>
MCStartHost == (n1 :> 0) @@ (n2 :> 0)
Symmetry == Permutations(Conns) \cup Permutations(Invites)
=============================================================================
