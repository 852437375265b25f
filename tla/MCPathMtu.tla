----------------------------- MODULE MCPathMtu ------------------------------
(* A search range of twelve sizes above the safe one, with a step and a     *)
(* gain in the proportion of the code's. Capacities lie below, between and  *)
(* above the sizes probed; peer maxima below the safe size, inside the      *)
(* range and above it. Two migrations allow a return to the first path.     *)
EXTENDS PathMtu
=============================================================================
