---------------------------- MODULE MCHandshake -----------------------------
(* One probe retry per connect() and one reconnect attempt reach every      *)
(* branch; eight session ids and nine ephemerals are more than the system   *)
(* ever has in use at a time.                                               *)
EXTENDS Handshake
=============================================================================
