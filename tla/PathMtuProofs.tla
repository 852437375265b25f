---------------------------- MODULE PathMtuProofs ----------------------------
(***************************************************************************)
(* Proofs about path MTU discovery, for every set of paths, every range,   *)
(* step and gain, and every behaviour of the network.                      *)
(*                                                                         *)
(* PathSound rests on the nonces: the only probe that carries the pending  *)
(* nonce is the pending one (Nonces). SearchTight rests on the upper bound *)
(* never falling below what the path and the peers allow unless an answer  *)
(* was late (UpperReaches), and on the search not stopping while there is  *)
(* something to gain (StopsClose).                                         *)
(***************************************************************************)
EXTENDS PathMtu, TLAPS

Nonces ==
  /\ \A m \in sent : m.nonce <= nonce
  /\ pending # NoProbe =>
       /\ pending.nonce <= nonce
       /\ \A m \in sent : m.nonce = pending.nonce => m.target = pending.target

UpperReaches ==
  ~lossy => Least(Least(capacity[path], peerMax), Maximum) <= upper

StopsClose == Ended => upper <= confirmed + MinGain

IInv ==
  /\ TypeOK
  /\ InBounds
  /\ PathSound
  /\ Nonces
  /\ UpperReaches
  /\ StopsClose

-----------------------------------------------------------------------------
(* Least is the lesser of two numbers. *)
LEMMA LeastIs ==
  ASSUME NEW a \in Nat, NEW b \in Nat
  PROVE  /\ Least(a, b) \in Nat
         /\ Least(a, b) <= a
         /\ Least(a, b) <= b
         /\ Least(a, b) = a \/ Least(a, b) = b
BY DEF Least

(* safe_virtual_mtu is a size within the configured maximum, and the first  *)
(* size probed lies above it whenever there is one.                         *)
LEMMA StartingPoint ==
  /\ SafeMtu \in Nat \ {0}
  /\ SafeMtu <= Maximum
  /\ FirstTarget \in Nat
  /\ FirstTarget = NoTarget => SafeMtu = Maximum
  /\ FirstTarget # NoTarget => FirstTarget > SafeMtu /\ FirstTarget <= Maximum
BY MtuAssumption DEF SafeMtu, FirstTarget, Least, NoTarget

(* next_mtu_probe returns a size strictly above what is confirmed and not   *)
(* above the upper bound, and nothing only when the gain is too small.      *)
LEMMA NextProbeIs ==
  ASSUME NEW low \in Nat, NEW high \in Nat
  PROVE  LET t == NextProbe(low, high)
         IN  /\ t \in Nat
             /\ t # NoTarget => t > low /\ t <= high
             /\ t = NoTarget => high <= low + MinGain
<1>1. CASE high <= low + MinGain
  BY <1>1, MtuAssumption DEF NextProbe, NoTarget
<1>2. CASE ~(high <= low + MinGain)
  <2> DEFINE h == (high - low) \div 2
  <2>1. high > low
    BY <1>2, MtuAssumption
  <2>2. h \in Nat /\ 2 * h <= high - low /\ high - low <= (2 * h) + 1
    BY <2>1
  <2>3. NextProbe(low, high) = IF h = 0 THEN NoTarget ELSE low + h
    BY <1>2 DEF NextProbe
  <2> HIDE DEF h
  <2> QED
    BY <1>2, <2>1, <2>2, <2>3, MtuAssumption DEF NoTarget
<1> QED
  BY <1>1, <1>2

-----------------------------------------------------------------------------
(* A poll that starts a probe keeps the nonces apart, whatever its size.    *)
LEMMA StartNonces ==
  ASSUME TypeOK, Nonces, NEW t \in Nat \ {0}, Start(t)
  PROVE  /\ Nonces'
         /\ pending' \in Probe
         /\ pending' # NoProbe
         /\ pending'.target = t
         /\ next' = NoTarget
         /\ sent' \subseteq [path : Paths, target : Nat \ {0}, nonce : Nat \ {0}]
         /\ nonce' \in Nat
<1>1. /\ nonce' = nonce + 1
      /\ pending' = [target |-> t, nonce |-> nonce + 1, failures |-> 0]
      /\ next' = NoTarget
      /\ sent' = sent \cup {[path |-> path, target |-> t, nonce |-> nonce + 1]}
  BY DEF Start
<1>2. nonce \in Nat /\ path \in Paths
      /\ sent \subseteq [path : Paths, target : Nat \ {0}, nonce : Nat \ {0}]
  BY DEF TypeOK
<1>3. pending' \in Probe /\ pending'.target = t /\ pending'.nonce = nonce + 1
  BY <1>1, <1>2, MtuAssumption DEF Probe
<1>4. pending' # NoProbe
  BY <1>2, <1>3 DEF NoProbe
<1>5. sent' \subseteq [path : Paths, target : Nat \ {0}, nonce : Nat \ {0}]
  BY <1>1, <1>2
<1>6. ASSUME NEW m \in sent'
      PROVE  m.nonce <= nonce' /\ (m.nonce = pending'.nonce => m.target = t)
  <2>1. CASE m \in sent
    <3>1. m.nonce <= nonce /\ m.nonce \in Nat
      BY <1>2, <2>1 DEF Nonces
    <3> QED
      BY <1>1, <1>2, <1>3, <3>1
  <2>2. CASE m = [path |-> path, target |-> t, nonce |-> nonce + 1]
    BY <1>1, <1>2, <2>2
  <2> QED
    BY <1>1, <1>6, <2>1, <2>2
<1> QED
  BY <1>1, <1>2, <1>3, <1>4, <1>5, <1>6 DEF Nonces

(* A pending probe is a proper one. *)
LEMMA PendingIs ==
  ASSUME TypeOK, pending # NoProbe
  PROVE  /\ pending \in Probe
         /\ pending.target \in Nat \ {0}
         /\ pending.nonce \in Nat \ {0}
         /\ pending.failures \in 0 .. MaxFailures - 1
BY DEF TypeOK, Probe

(* Initially the search is at its starting point. *)
LEMMA InitIInv == Init => IInv
<1> SUFFICES ASSUME Init PROVE IInv
  OBVIOUS
<1>1. TypeOK
  <2>1. confirmed \in Nat \ {0} /\ upper \in Nat \ {0} /\ next \in Nat /\ nonce \in Nat
        /\ migrations \in 0 .. MaxMigrations
    BY StartingPoint, MtuAssumption DEF Init
  <2>2. candidate \in Candidate \cup {NoCandidate} /\ pending \in Probe \cup {NoProbe}
    BY DEF Init
  <2>3. lossy \in BOOLEAN /\ sent \subseteq [path : Paths, target : Nat \ {0}, nonce : Nat \ {0}]
    BY Zenon DEF Init
  <2> QED
    BY <2>1, <2>2, <2>3, Zenon DEF Init, TypeOK
<1>2. InBounds /\ PathSound /\ StopsClose
  BY StartingPoint, MtuAssumption DEF Init, InBounds, PathSound, StopsClose, Ended
<1>3. Nonces
  BY DEF Init, Nonces
<1>4. UpperReaches
  BY <1>1, MtuAssumption DEF Init, UpperReaches, Least, TypeOK
<1> QED
  BY <1>1, <1>2, <1>3, <1>4 DEF IInv

(* Sending the first or the next probe keeps the invariant. *)
LEMMA PollStartInv ==
  ASSUME IInv, PollStart
  PROVE  IInv'
<1> USE DEF PollStart
<1>1. next \in Nat \ {0} /\ TypeOK /\ Nonces
  BY DEF IInv, TypeOK, NoTarget
<1>2. /\ Nonces' /\ pending' \in Probe /\ pending' # NoProbe /\ pending'.target = next
      /\ next' = NoTarget
      /\ sent' \subseteq [path : Paths, target : Nat \ {0}, nonce : Nat \ {0}]
      /\ nonce' \in Nat
  BY <1>1, StartNonces
<1>3. TypeOK'
  BY <1>1, <1>2 DEF TypeOK, NoTarget
<1>4. InBounds'
  BY <1>2 DEF IInv, InBounds
<1>5. PathSound' /\ UpperReaches'
  BY DEF IInv, PathSound, UpperReaches
<1>6. StopsClose'
  BY <1>2 DEF StopsClose, Ended
<1> QED
  BY <1>2, <1>3, <1>4, <1>5, <1>6 DEF IInv

(* Repeating a probe keeps the invariant. *)
LEMMA PollRetryInv ==
  ASSUME IInv, PollRetry
  PROVE  IInv'
<1> USE DEF PollRetry, TimedOut
<1>1. TypeOK /\ pending \in Probe /\ pending.failures \in 0 .. MaxFailures - 1
      /\ pending.target \in Nat \ {0} /\ pending.nonce \in Nat \ {0}
  BY PendingIs DEF IInv
<1>2. pending' = [target |-> pending.target, nonce |-> pending.nonce,
                  failures |-> pending.failures + 1]
  OBVIOUS
<1>3. pending' \in Probe /\ pending' # NoProbe
      /\ pending'.target = pending.target /\ pending'.nonce = pending.nonce
  BY <1>1, <1>2, MtuAssumption DEF Probe, NoProbe
<1>4. TypeOK'
  BY <1>1, <1>3 DEF TypeOK
<1>5. InBounds' /\ PathSound' /\ Nonces' /\ StopsClose'
  BY <1>3 DEF IInv, InBounds, PathSound, Nonces, StopsClose, Ended
<1>6. UpperReaches'
  BY Zenon DEF IInv, UpperReaches
<1> QED
  BY <1>4, <1>5, <1>6 DEF IInv

(* Giving up on a size keeps the invariant: the upper bound falls below a   *)
(* size that failed, which the path cannot carry unless an answer was late. *)
LEMMA PollGiveUpInv ==
  ASSUME IInv, PollGiveUp
  PROVE  IInv'
<1> DEFINE t == NextProbe(confirmed, upper')
<1>1. TypeOK /\ Nonces /\ pending # NoProbe /\ pending.target \in Nat \ {0}
  BY PendingIs DEF IInv, PollGiveUp, TimedOut
<1>2. /\ upper' = Least(upper, pending.target - 1)
      /\ lossy' = (lossy \/ pending.target <= capacity[path])
      /\ UNCHANGED <<capacity, peerMax, path, candidate, confirmed, migrations>>
      /\ IF t # NoTarget
           THEN Start(t)
           ELSE pending' = NoProbe /\ next' = NoTarget /\ UNCHANGED <<sent, nonce>>
  BY DEF PollGiveUp, TimedOut
<1>3. /\ confirmed \in Nat \ {0} /\ upper \in Nat \ {0} /\ confirmed <= upper
      /\ upper <= Maximum /\ pending.target > confirmed
  BY <1>1 DEF IInv, TypeOK, InBounds
<1>4. upper' \in Nat \ {0} /\ confirmed <= upper' /\ upper' <= upper
  BY <1>1, <1>2, <1>3 DEF Least
<1>5. /\ t \in Nat
      /\ t # NoTarget => t > confirmed /\ t <= upper'
      /\ t = NoTarget => upper' <= confirmed + MinGain
  BY Zenon, <1>3, <1>4, NextProbeIs
<1> HIDE DEF t
<1>6. /\ Nonces' /\ next' = NoTarget /\ nonce' \in Nat
      /\ sent' \subseteq [path : Paths, target : Nat \ {0}, nonce : Nat \ {0}]
      /\ pending' \in Probe \cup {NoProbe}
      /\ pending' # NoProbe => pending'.target > confirmed /\ pending'.target <= upper'
      /\ pending' = NoProbe => upper' <= confirmed + MinGain
  <2>1. CASE t # NoTarget
    <3>1. t \in Nat \ {0} /\ Start(t)
      BY <1>2, <1>5, <2>1 DEF NoTarget
    <3>2. /\ Nonces' /\ pending' \in Probe /\ pending' # NoProbe /\ pending'.target = t
          /\ next' = NoTarget
          /\ sent' \subseteq [path : Paths, target : Nat \ {0}, nonce : Nat \ {0}]
          /\ nonce' \in Nat
      BY <1>1, <3>1, StartNonces
    <3> QED
      BY <1>5, <2>1, <3>2
  <2>2. CASE t = NoTarget
    <3>1. pending' = NoProbe /\ next' = NoTarget /\ sent' = sent /\ nonce' = nonce
      BY <1>2, <2>2
    <3>2. Nonces'
      BY <1>1, <3>1 DEF Nonces
    <3> QED
      BY <1>1, <1>5, <2>2, <3>1, <3>2 DEF TypeOK
  <2> QED
    BY <2>1, <2>2
<1>7. UpperReaches'
  <2> DEFINE c == capacity[path]
  <2> SUFFICES ASSUME ~lossy' PROVE Least(Least(c, peerMax), Maximum) <= upper'
    BY <1>2 DEF UpperReaches
  <2>1. ~lossy /\ ~(pending.target <= c)
    BY Zenon, <1>2
  <2>2. c \in Nat /\ peerMax \in Nat
    BY Zenon, <1>1, MtuAssumption DEF TypeOK
  <2>3. Least(Least(c, peerMax), Maximum) <= upper
    BY <2>1 DEF IInv, UpperReaches
  <2> HIDE DEF c
  <2> QED
    BY <1>1, <1>2, <1>3, <2>1, <2>2, <2>3, MtuAssumption DEF Least
<1>8. TypeOK'
  BY <1>1, <1>2, <1>4, <1>6 DEF TypeOK, NoTarget
<1>9. InBounds' /\ PathSound' /\ StopsClose'
  BY <1>2, <1>3, <1>4, <1>6, MtuAssumption DEF IInv, InBounds, PathSound, StopsClose, Ended
<1> QED
  BY <1>6, <1>7, <1>8, <1>9 DEF IInv

-----------------------------------------------------------------------------
(* A probe that answers has the pending size, and the path carried it.      *)
LEMMA AnswerIs ==
  ASSUME IInv, NEW m \in sent, m.target <= capacity[m.path], Answers(m)
  PROVE  /\ pending.target \in Nat \ {0}
         /\ pending.target <= capacity[path]
         /\ pending.target > confirmed
         /\ pending.target <= upper
<1>1. pending.target \in Nat \ {0}
  BY PendingIs DEF IInv, Answers
<1>2. m.target = pending.target
  BY DEF IInv, Nonces, Answers
<1> QED
  BY <1>1, <1>2 DEF IInv, InBounds, Answers

(* An acknowledgement that clamps to the peer's maximum keeps the invariant *)
(* even where that maximum lies below the safe size.                        *)
LEMMA AcknowledgeClampedInv ==
  ASSUME IInv, NEW m \in sent, m.target <= capacity[m.path], AcknowledgeClamped(m)
  PROVE  IInv'
<1>1. /\ Answers(m) /\ peerMax < pending.target
      /\ upper' = Least(upper, peerMax)
      /\ confirmed' = Least(peerMax, upper')
      /\ next' = NoTarget /\ pending' = NoProbe
      /\ UNCHANGED <<capacity, peerMax, path, candidate, sent, nonce, lossy, migrations>>
  BY DEF AcknowledgeClamped
<1>2. /\ pending.target \in Nat \ {0}
      /\ pending.target <= capacity[path]
      /\ pending.target <= upper
  BY <1>1, AnswerIs
<1>3. /\ TypeOK /\ peerMax \in Nat \ {0} /\ upper \in Nat \ {0} /\ capacity[path] \in Nat
      /\ upper <= Maximum
  BY Zenon, MtuAssumption DEF IInv, TypeOK, InBounds
<1>4. upper' = peerMax /\ confirmed' = peerMax
  BY <1>1, <1>2, <1>3 DEF Least
<1>5. TypeOK'
  BY <1>1, <1>3, <1>4 DEF TypeOK, NoTarget
<1>6. InBounds' /\ PathSound' /\ StopsClose'
  <2>1. InBounds'
    BY <1>1, <1>2, <1>3, <1>4, MtuAssumption DEF InBounds
  <2>2. PathSound'
    BY <1>1, <1>2, <1>3, <1>4 DEF PathSound
  <2>3. StopsClose'
    BY <1>3, <1>4, MtuAssumption DEF StopsClose
  <2> QED
    BY <2>1, <2>2, <2>3
<1>7. Nonces'
  BY <1>1 DEF IInv, Nonces
<1>8. UpperReaches'
  BY <1>1, <1>3, <1>4, MtuAssumption DEF UpperReaches, Least
<1> QED
  BY <1>5, <1>6, <1>7, <1>8 DEF IInv

(* An acknowledged size becomes the confirmed one.                          *)
LEMMA AcknowledgeInv ==
  ASSUME IInv, NEW m \in sent, m.target <= capacity[m.path], Acknowledge(m)
  PROVE  IInv'
<1>1. /\ Answers(m) /\ peerMax >= pending.target
      /\ confirmed' = IF pending.target > confirmed THEN pending.target ELSE confirmed
      /\ next' = IF confirmed' < upper THEN Least(confirmed' + Step, upper) ELSE NoTarget
      /\ pending' = NoProbe
      /\ UNCHANGED <<capacity, peerMax, path, candidate, upper, sent, nonce, lossy, migrations>>
  BY DEF Acknowledge
<1>2. /\ pending.target \in Nat \ {0}
      /\ pending.target <= capacity[path]
      /\ pending.target > confirmed
      /\ pending.target <= upper
  BY <1>1, AnswerIs
<1>3. /\ TypeOK /\ upper \in Nat \ {0} /\ upper <= Maximum
  BY DEF IInv, TypeOK, InBounds
<1>4. confirmed' = pending.target
  BY <1>1, <1>2
<1>5. /\ next' \in Nat
      /\ next' = NoTarget => confirmed' = upper
      /\ next' # NoTarget => next' > confirmed' /\ next' <= upper
  BY <1>1, <1>2, <1>3, <1>4, MtuAssumption DEF Least, NoTarget
<1>6. TypeOK'
  BY <1>1, <1>2, <1>3, <1>4, <1>5 DEF TypeOK
<1>7. InBounds' /\ PathSound' /\ StopsClose'
  BY <1>1, <1>2, <1>3, <1>4, <1>5, MtuAssumption DEF InBounds, PathSound, StopsClose, Ended
<1>8. Nonces' /\ UpperReaches'
  BY <1>1 DEF IInv, Nonces, UpperReaches
<1> QED
  BY <1>6, <1>7, <1>8 DEF IInv

-----------------------------------------------------------------------------
(* Counting a packet of another source leaves the search alone.             *)
LEMMA ObserveDataInv ==
  ASSUME IInv, NEW s \in Paths, NEW w \in BOOLEAN, ObserveData(s, w)
  PROVE  IInv'
<1>1. Count(s, w) \in Nat \ {0}
  BY MtuAssumption DEF IInv, TypeOK, Count, Candidate
<1>2. candidate' \in Candidate
  BY <1>1, MtuAssumption DEF ObserveData, Candidate
<1>3. UNCHANGED <<capacity, peerMax, path, confirmed, upper, next, pending, sent, nonce,
                  lossy, migrations>>
  BY DEF ObserveData, mtu
<1>4. TypeOK'
  BY <1>2, <1>3 DEF IInv, TypeOK
<1> QED
  BY <1>3, <1>4
     DEF IInv, InBounds, PathSound, Nonces, UpperReaches, StopsClose, Ended

(* A migration brings the search back to its starting point, with no probe  *)
(* of the old path left that could answer.                                  *)
LEMMA MigrateInv ==
  ASSUME IInv, NEW s \in Paths, NEW w \in BOOLEAN, Migrate(s, w)
  PROVE  IInv'
<1>1. /\ candidate' = NoCandidate /\ path' = s
      /\ confirmed' = SafeMtu /\ upper' = Maximum /\ next' = FirstTarget
      /\ pending' = NoProbe /\ lossy' = FALSE
      /\ UNCHANGED <<capacity, peerMax, sent, nonce>>
  BY DEF Migrate
<1>2. migrations' \in 0 .. MaxMigrations
  BY MtuAssumption DEF Migrate, IInv, TypeOK
<1>3. lossy' \in BOOLEAN
  BY Zenon, <1>1
<1>4. TypeOK'
  BY <1>1, <1>2, <1>3, StartingPoint, MtuAssumption DEF IInv, TypeOK
<1>5. InBounds' /\ PathSound' /\ StopsClose'
  BY <1>1, StartingPoint, MtuAssumption DEF InBounds, PathSound, StopsClose, Ended
<1>6. Nonces'
  BY <1>1 DEF IInv, Nonces
<1>7. UpperReaches'
  BY <1>1, <1>4, MtuAssumption DEF UpperReaches, Least, TypeOK
<1> QED
  BY <1>4, <1>5, <1>6, <1>7 DEF IInv

-----------------------------------------------------------------------------
(* The inductive invariant holds in every reachable state.                  *)
THEOREM Invariance == Spec => []IInv
<1>1. Init => IInv
  BY InitIInv
<1>2. IInv /\ [Next]_vars => IInv'
  <2> SUFFICES ASSUME IInv, [Next]_vars PROVE IInv'
    OBVIOUS
  <2>1. CASE Poll
    BY <2>1, PollStartInv, PollRetryInv, PollGiveUpInv DEF Poll
  <2>2. CASE Receive
    BY <2>2, AcknowledgeClampedInv, AcknowledgeInv DEF Receive
  <2>3. CASE Data
    BY <2>3, ObserveDataInv, MigrateInv DEF Data
  <2>4. CASE UNCHANGED vars
    BY <2>4 DEF vars, mtu, IInv, TypeOK, InBounds, PathSound, Nonces, UpperReaches,
                StopsClose, Ended
  <2> QED
    BY <2>1, <2>2, <2>3, <2>4 DEF Next
<1> QED
  BY <1>1, <1>2, PTL DEF Spec

(* Type correctness of the search and of the migration counter.             *)
THEOREM TypeCorrect == Spec => []TypeOK
<1>1. IInv => TypeOK
  BY DEF IInv
<1> QED
  BY <1>1, Invariance, PTL

(* poll_probe and acknowledge keep the search within its bounds.            *)
THEOREM SearchInBounds == Spec => []InBounds
<1>1. IInv => InBounds
  BY DEF IInv
<1> QED
  BY <1>1, Invariance, PTL

(* A size beyond the safe one was carried by the path in use, whatever      *)
(* acknowledgements were late and however often the session migrated.       *)
THEOREM ConfirmedIsCarried == Spec => []PathSound
<1>1. IInv => PathSound
  BY DEF IInv
<1> QED
  BY <1>1, Invariance, PTL

(* With every answer in time the search ends within the minimal gain of the *)
(* best size.                                                               *)
THEOREM FindsTheBest == Spec => []SearchTight
<1>1. IInv => SearchTight
  <2> SUFFICES ASSUME IInv, Ended, ~lossy
               PROVE  Least(Least(capacity[path], peerMax), Maximum) <= confirmed + MinGain
    BY DEF SearchTight
  <2>1. /\ Least(Least(capacity[path], peerMax), Maximum) <= upper
        /\ upper <= confirmed + MinGain
    BY DEF IInv, UpperReaches, StopsClose
  <2>2. /\ Least(Least(capacity[path], peerMax), Maximum) \in Nat
        /\ upper \in Nat /\ confirmed + MinGain \in Nat
    <3>1. capacity[path] \in Nat /\ peerMax \in Nat /\ upper \in Nat /\ confirmed \in Nat
      BY Zenon, MtuAssumption DEF IInv, TypeOK
    <3>2. Least(capacity[path], peerMax) \in Nat
      BY <3>1, LeastIs
    <3>3. Least(Least(capacity[path], peerMax), Maximum) \in Nat
      BY <3>2, LeastIs, MtuAssumption
    <3> QED
      BY <3>1, <3>3, MtuAssumption
  <2> QED
    BY <2>1, <2>2
<1> QED
  BY <1>1, Invariance, PTL
=============================================================================
