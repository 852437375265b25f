--------------------------- MODULE MCReplayWindow ---------------------------
(* Three words of three bits: every shift by whole words, by bits within a  *)
(* word and by both happens, and sequences pass the whole window.           *)
EXTENDS ReplayWindow

CONSTANT MaxSequence
MCSequences == 1 .. MaxSequence
=============================================================================
