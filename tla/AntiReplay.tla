----------------------------- MODULE AntiReplay -----------------------------
(***************************************************************************)
(* What the replay check of a session promises: a sequence number is       *)
(* handed up at most once, and it is refused only when it was handed up    *)
(* before or lies WindowSize or more behind the highest one handed up.     *)
(* The specification keeps the whole history; the code keeps a bitmap of   *)
(* fixed size (module ReplayWindow).                                       *)
(***************************************************************************)
EXTENDS Integers

CONSTANTS WindowSize,   \* REPLAY_WINDOW_SIZE
          Sequences     \* the sequence numbers packets may carry

VARIABLES highest,      \* highest sequence handed up, NoSequence before the first
          delivered,    \* history: how often each sequence was handed up
          verdict       \* the last packet and whether it was handed up

vars == <<highest, delivered, verdict>>

NoSequence == -1
Verdicts == [seq : Sequences, ok : BOOLEAN]
NoVerdict == [seq |-> NoSequence, ok |-> TRUE]

TypeOK ==
  /\ highest \in Sequences \cup {NoSequence}
  /\ delivered \in [Sequences -> Nat]
  /\ verdict \in Verdicts \cup {NoVerdict}

Init ==
  /\ highest = NoSequence
  /\ delivered = [s \in Sequences |-> 0]
  /\ verdict = NoVerdict

InWindow(s) == highest - s < WindowSize

HandUp(s) ==
  /\ delivered[s] = 0
  /\ highest = NoSequence \/ InWindow(s)
  /\ highest' = IF s > highest THEN s ELSE highest
  /\ delivered' = [delivered EXCEPT ![s] = @ + 1]
  /\ verdict' = [seq |-> s, ok |-> TRUE]

Refuse(s) ==
  /\ highest # NoSequence
  /\ delivered[s] > 0 \/ ~InWindow(s)
  /\ verdict' = [seq |-> s, ok |-> FALSE]
  /\ UNCHANGED <<highest, delivered>>

Next == \E s \in Sequences : HandUp(s) \/ Refuse(s)

Spec == Init /\ [][Next]_vars
=============================================================================
