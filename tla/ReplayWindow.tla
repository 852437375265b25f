---------------------------- MODULE ReplayWindow ----------------------------
(***************************************************************************)
(* The replay window of an active session (vela-core, ReplayWindow): the   *)
(* highest accepted sequence and a bitmap of Words words of WordBits bits, *)
(* bit d of the bitmap standing for the sequence highest - d.              *)
(*                                                                         *)
(* The bitmap is kept word by word, as the code does, so that the carry    *)
(* between words in shift_left is part of the model. `delivered' and       *)
(* `verdict' are history variables: they record what `accept' returned.    *)
(***************************************************************************)
EXTENDS Integers

CONSTANTS WordBits,     \* u64::BITS
          Words,        \* REPLAY_WORDS
          Sequences     \* the sequence numbers packets may carry

ASSUME ReplayAssumption ==
  /\ WordBits \in Nat \ {0}
  /\ Words \in Nat \ {0}
  /\ Sequences \subseteq Nat

VARIABLES highest, bits, delivered, verdict

vars == <<highest, bits, delivered, verdict>>

WindowSize == Words * WordBits
WordIndex == 0 .. Words - 1
BitIndex == 0 .. WordBits - 1

NoSequence == -1
Verdicts == [seq : Sequences, ok : BOOLEAN]
NoVerdict == [seq |-> NoSequence, ok |-> TRUE]

ZeroWord == [j \in BitIndex |-> FALSE]
ZeroBits == [i \in WordIndex |-> ZeroWord]

(* w << k and w >> k on one machine word *)
Shl(w, k) == [j \in BitIndex |-> j >= k /\ w[j - k]]
Shr(w, k) == [j \in BitIndex |-> j + k < WordBits /\ w[j + k]]

(* Mutant: no carry from the next lower word *)
ShiftedWordNoCarry(b, i, wordShift, bitShift) == Shl(b[i - wordShift], bitShift)

(* The word the loop of shift_left leaves at index i *)
ShiftedWord(b, i, wordShift, bitShift) ==
  [j \in BitIndex |->
     \/ Shl(b[i - wordShift], bitShift)[j]
     \/ /\ bitShift # 0
        /\ i > wordShift
        /\ Shr(b[i - wordShift - 1], WordBits - bitShift)[j]]

(* Mutant: the words below the shift keep their old bits *)
ShiftLeftKeepsLow(b, shift) ==
  IF shift >= WindowSize
    THEN ZeroBits
    ELSE LET wordShift == shift \div WordBits
             bitShift  == shift % WordBits
         IN  [i \in WordIndex |->
                IF i >= wordShift THEN ShiftedWord(b, i, wordShift, bitShift) ELSE b[i]]

ShiftLeft(b, shift) ==
  IF shift >= WindowSize
    THEN ZeroBits
    ELSE LET wordShift == shift \div WordBits
             bitShift  == shift % WordBits
         IN  [i \in WordIndex |->
                IF i >= wordShift
                  THEN ShiftedWord(b, i, wordShift, bitShift)
                  ELSE ZeroWord]

SetBit(b, i, j) == [b EXCEPT ![i][j] = TRUE]

TypeOK ==
  /\ highest \in Sequences \cup {NoSequence}
  /\ bits \in [WordIndex -> [BitIndex -> BOOLEAN]]
  /\ delivered \in [Sequences -> Nat]
  /\ verdict \in Verdicts \cup {NoVerdict}

Init ==
  /\ highest = NoSequence
  /\ bits = ZeroBits
  /\ delivered = [s \in Sequences |-> 0]
  /\ verdict = NoVerdict

Accept(s) ==
  /\ delivered' = [delivered EXCEPT ![s] = @ + 1]
  /\ verdict' = [seq |-> s, ok |-> TRUE]

Reject(s) ==
  /\ verdict' = [seq |-> s, ok |-> FALSE]
  /\ UNCHANGED <<highest, bits, delivered>>

AcceptFirst(s) ==
  /\ highest = NoSequence
  /\ highest' = s
  /\ bits' = [bits EXCEPT ![0] = [j \in BitIndex |-> j = 0]]
  /\ Accept(s)

(* Mutant: highest is set to the next expected sequence *)
AcceptNewerExpectsNext(s) ==
  /\ highest # NoSequence
  /\ s > highest
  /\ bits' = SetBit(ShiftLeft(bits, s - highest), 0, 0)
  /\ highest' = s + 1
  /\ Accept(s)

AcceptNewer(s) ==
  /\ highest # NoSequence
  /\ s > highest
  /\ bits' = SetBit(ShiftLeft(bits, s - highest), 0, 0)
  /\ highest' = s
  /\ Accept(s)

(* The word and bit that stand for a sequence at this distance *)
WordOf(distance) == distance \div WordBits
BitOf(distance) == distance % WordBits

AcceptOlder(s) ==
  /\ highest # NoSequence
  /\ s <= highest
  /\ highest - s < WindowSize
  /\ ~bits[WordOf(highest - s)][BitOf(highest - s)]
  /\ bits' = SetBit(bits, WordOf(highest - s), BitOf(highest - s))
  /\ UNCHANGED highest
  /\ Accept(s)

(* Mutant: the window is one sequence too short *)
RejectTooOldEarly(s) ==
  /\ highest # NoSequence
  /\ s <= highest
  /\ highest - s >= WindowSize - 1
  /\ Reject(s)

RejectTooOld(s) ==
  /\ highest # NoSequence
  /\ s <= highest
  /\ highest - s >= WindowSize
  /\ Reject(s)

RejectReplay(s) ==
  /\ highest # NoSequence
  /\ s <= highest
  /\ highest - s < WindowSize
  /\ bits[WordOf(highest - s)][BitOf(highest - s)]
  /\ Reject(s)

Next ==
  \E s \in Sequences :
    \/ AcceptFirst(s)
    \/ AcceptNewer(s)
    \/ AcceptOlder(s)
    \/ RejectTooOld(s)
    \/ RejectReplay(s)

Spec == Init /\ [][Next]_vars

-----------------------------------------------------------------------------
(* No packet of a session reaches the IP layer twice: `accept' returns true *)
(* at most once for every sequence number, whatever the order of arrival.   *)
AtMostOnce == \A s \in Sequences : delivered[s] <= 1

(* Reordering inside the window loses nothing: `accept' refuses only a      *)
(* sequence that it accepted before or that is a whole window behind.       *)
NoFalseDrop ==
  ~verdict.ok => \/ delivered[verdict.seq] > 0
                 \/ highest - verdict.seq >= WindowSize

(* The bitmap is exact: bit d is set just when sequence highest - d was     *)
(* accepted. This is what shift_left must preserve across word boundaries.  *)
BitmapExact ==
  highest # NoSequence =>
    \A i \in WordIndex, j \in BitIndex :
      bits[i][j] <=> LET s == highest - (i * WordBits + j)
                     IN  s \in Sequences /\ delivered[s] > 0

(* The bitmap implements the history-keeping window of AntiReplay.          *)
Abstract == INSTANCE AntiReplay
              WITH WindowSize <- WindowSize, Sequences <- Sequences,
                   highest <- highest, delivered <- delivered, verdict <- verdict
ImplementsAntiReplay == Abstract!Spec
=============================================================================
