--------------------------- MODULE MCControlPlane ---------------------------
(* Any two disturbances, in any order, around one running peer; one runtime *)
(* is started again after an error.                                         *)
EXTENDS ControlPlane, TLC

\* The changes of other peers are alike; used where only invariants are checked.
Symmetry == Permutations(Tasks)
=============================================================================
