------------------------------ MODULE MCPeerUp ------------------------------
(* Two other members, and enough faults for a failed deletion to meet a     *)
(* restart.                                                                 *)
EXTENDS PeerUp

CONSTANTS a1, a2
=============================================================================
