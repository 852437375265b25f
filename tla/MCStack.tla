------------------------------ MODULE MCStack -------------------------------
(* Two application tasks and two ephemeral ports; an application listens on *)
(* one of them, or on port 0.                                               *)
EXTENDS Stack

CONSTANTS c1, c2

MCSymmetry == Permutations({c1, c2})
=============================================================================
