------------------------------ MODULE PathMtu -------------------------------
(***************************************************************************)
(* Path MTU discovery of an active session (vela-core, PathMtuState and    *)
(* mtu_loop) together with the path migration that resets it               *)
(* (confirm_path_migration, observe_data_source).                          *)
(*                                                                         *)
(* A probe that fits the path reaches the peer, which acknowledges it with *)
(* its own maximum to where the probe came from. An acknowledgement may    *)
(* arrive at any later time or never, so `sent' keeps every probe; a       *)
(* second copy of one packet is the business of the replay window.         *)
(***************************************************************************)
EXTENDS Integers

CONSTANTS Paths,
          Base,           \* DEFAULT_VIRTUAL_MTU
          Maximum,        \* config.virtual_mtu
          Step,           \* MTU_PROBE_STEP
          MinGain,        \* MTU_PROBE_MIN_GAIN
          MaxFailures,    \* MTU_PROBE_MAX_FAILURES
          Confirmations,  \* PATH_MIGRATION_CONFIRMATIONS
          Capacities,     \* what a network path may be able to carry
          PeerMaxima,     \* config.virtual_mtu of the peer
          MaxMigrations

ASSUME MtuAssumption ==
  /\ Base \in Nat \ {0}
  /\ Maximum \in Nat \ {0}
  /\ Step \in Nat \ {0}
  /\ MinGain \in Nat \ {0}
  /\ MaxFailures \in Nat \ {0}
  /\ Confirmations \in Nat \ {0}
  /\ Capacities \subseteq Nat
  /\ PeerMaxima \subseteq Nat \ {0}
  /\ MaxMigrations \in Nat

VARIABLES
  capacity,    \* of each path, unknown to the node
  peerMax,     \* the maximum the peer advertises
  path,        \* session.path
  candidate,   \* session.pending_path
  confirmed, upper, next, pending,   \* session.path_mtu
  sent,        \* every probe sent in this session
  nonce,       \* the last nonce drawn
  lossy,       \* history: on this path an answer that was due did not come in time
  migrations

mtu == <<confirmed, upper, next, pending>>
vars == <<capacity, peerMax, path, candidate, mtu, sent, nonce, lossy, migrations>>

NoTarget == 0
NoProbe == [target |-> NoTarget, nonce |-> 0, failures |-> 0]
Probe == [target : Nat \ {0}, nonce : Nat \ {0}, failures : 0 .. MaxFailures - 1]
Candidate == [path : Paths, confirmations : 1 .. Confirmations]
NoCandidate == [confirmations |-> 0]

Least(a, b) == IF a <= b THEN a ELSE b

(* safe_virtual_mtu *)
SafeMtu == Least(Maximum, Base)

TypeOK ==
  /\ capacity \in [Paths -> Capacities]
  /\ peerMax \in PeerMaxima
  /\ path \in Paths
  /\ candidate \in Candidate \cup {NoCandidate}
  /\ confirmed \in Nat \ {0}
  /\ upper \in Nat \ {0}
  /\ next \in Nat
  /\ pending \in Probe \cup {NoProbe}
  /\ sent \subseteq [path : Paths, target : Nat \ {0}, nonce : Nat \ {0}]
  /\ nonce \in Nat
  /\ lossy \in BOOLEAN
  /\ migrations \in 0 .. MaxMigrations

(* PathMtuState::new *)
FirstTarget == IF SafeMtu < Maximum THEN Least(SafeMtu + Step, Maximum) ELSE NoTarget

Init ==
  /\ capacity \in [Paths -> Capacities]
  /\ peerMax \in PeerMaxima
  /\ path \in Paths
  /\ candidate = NoCandidate
  /\ confirmed = SafeMtu
  /\ upper = Maximum
  /\ next = FirstTarget
  /\ pending = NoProbe
  /\ sent = {}
  /\ nonce = 0
  /\ lossy = FALSE
  /\ migrations = 0

-----------------------------------------------------------------------------
(* poll_probe, called from the ticks of mtu_loop *)

(* next_mtu_probe: bisect, unless there is too little to gain *)
NextProbe(low, high) ==
  IF high <= low + MinGain \/ (high - low) \div 2 = 0
    THEN NoTarget
    ELSE low + ((high - low) \div 2)

(* Draw a nonce and send a probe of size t *)
Start(t) ==
  /\ nonce' = nonce + 1
  /\ pending' = [target |-> t, nonce |-> nonce + 1, failures |-> 0]
  /\ next' = NoTarget
  /\ sent' = sent \cup {[path |-> path, target |-> t, nonce |-> nonce + 1]}

PollStart ==
  /\ pending = NoProbe
  /\ next # NoTarget
  /\ Start(next)
  /\ UNCHANGED <<capacity, peerMax, path, candidate, confirmed, upper, lossy, migrations>>

(* MTU_PROBE_TIMEOUT has passed for the pending probe. When the path        *)
(* carries it, an answer was lost or is late.                               *)
TimedOut ==
  /\ pending # NoProbe
  /\ lossy' = (lossy \/ pending.target <= capacity[path])

(* Mutant: the retry does not count the failure *)
PollRetryUncounted ==
  /\ TimedOut
  /\ pending.failures + 1 < MaxFailures
  /\ UNCHANGED <<capacity, peerMax, path, candidate, mtu, sent, nonce, migrations>>

(* Mutant: one failure too many *)
PollRetryOnceMore ==
  /\ TimedOut
  /\ pending.failures + 1 <= MaxFailures
  /\ pending' = [target |-> pending.target, nonce |-> pending.nonce,
                 failures |-> pending.failures + 1]
  /\ UNCHANGED <<capacity, peerMax, path, candidate, confirmed, upper, next, sent, nonce,
                 migrations>>

(* The retry repeats size and nonce *)
PollRetry ==
  /\ TimedOut
  /\ pending.failures + 1 < MaxFailures
  /\ pending' = [target |-> pending.target, nonce |-> pending.nonce,
                 failures |-> pending.failures + 1]
  /\ UNCHANGED <<capacity, peerMax, path, candidate, confirmed, upper, next, sent, nonce,
                 migrations>>

(* Mutant: the search stops at the first size that fails *)
PollGiveUpForGood ==
  /\ TimedOut
  /\ pending.failures + 1 >= MaxFailures
  /\ upper' = Least(upper, pending.target - 1)
  /\ pending' = NoProbe
  /\ next' = NoTarget
  /\ UNCHANGED <<capacity, peerMax, path, candidate, confirmed, sent, nonce, migrations>>

(* The last failure lowers the upper bound; the same call sends the next    *)
(* probe. *)
PollGiveUp ==
  /\ TimedOut
  /\ pending.failures + 1 >= MaxFailures
  /\ upper' = Least(upper, pending.target - 1)
  /\ LET t == NextProbe(confirmed, upper')
     IN  IF t # NoTarget
           THEN Start(t)
           ELSE pending' = NoProbe /\ next' = NoTarget /\ UNCHANGED <<sent, nonce>>
  /\ UNCHANGED <<capacity, peerMax, path, candidate, confirmed, migrations>>

-----------------------------------------------------------------------------
(* MtuProbeAck: from the active path and with the pending nonce only *)

(* Mutant: the nonce is not compared *)
AnswersAnyNonce(m) ==
  /\ pending # NoProbe
  /\ m.path = path

Answers(m) ==
  /\ pending # NoProbe
  /\ m.path = path
  /\ m.nonce = pending.nonce

(* The probe exceeds the peer's configuration: clamp to what it advertised *)
AcknowledgeClamped(m) ==
  /\ Answers(m)
  /\ peerMax < pending.target
  /\ upper' = Least(upper, peerMax)
  /\ confirmed' = Least(peerMax, upper')
  /\ next' = NoTarget
  /\ pending' = NoProbe
  /\ UNCHANGED <<capacity, peerMax, path, candidate, sent, nonce, lossy, migrations>>

(* Mutant: the next size may exceed the upper bound *)
AcknowledgeUncapped(m) ==
  /\ Answers(m)
  /\ peerMax >= pending.target
  /\ confirmed' = IF pending.target > confirmed THEN pending.target ELSE confirmed
  /\ next' = IF confirmed' < upper THEN confirmed' + Step ELSE NoTarget
  /\ pending' = NoProbe
  /\ UNCHANGED <<capacity, peerMax, path, candidate, upper, sent, nonce, lossy, migrations>>

Acknowledge(m) ==
  /\ Answers(m)
  /\ peerMax >= pending.target
  /\ confirmed' = IF pending.target > confirmed THEN pending.target ELSE confirmed
  /\ next' = IF confirmed' < upper THEN Least(confirmed' + Step, upper) ELSE NoTarget
  /\ pending' = NoProbe
  /\ UNCHANGED <<capacity, peerMax, path, candidate, upper, sent, nonce, lossy, migrations>>

-----------------------------------------------------------------------------
(* Data from another source *)

(* confirm_path_migration: consecutive packets from one new source count    *)
(* while they follow each other within PATH_MIGRATION_WINDOW.               *)
Count(source, inWindow) ==
  IF candidate # NoCandidate /\ candidate.path = source /\ inWindow
    THEN candidate.confirmations + 1
    ELSE 1

ObserveData(source, inWindow) ==
  /\ source # path
  /\ migrations < MaxMigrations
  /\ Count(source, inWindow) < Confirmations
  /\ candidate' = [path |-> source, confirmations |-> Count(source, inWindow)]
  /\ UNCHANGED <<capacity, peerMax, path, mtu, sent, nonce, lossy, migrations>>

(* The session moves to the new source and the search starts anew *)
Migrate(source, inWindow) ==
  /\ source # path
  /\ migrations < MaxMigrations
  /\ Count(source, inWindow) >= Confirmations
  /\ candidate' = NoCandidate
  /\ path' = source
  /\ confirmed' = SafeMtu
  /\ upper' = Maximum
  /\ next' = FirstTarget
  /\ pending' = NoProbe
  /\ lossy' = FALSE
  /\ migrations' = migrations + 1
  /\ UNCHANGED <<capacity, peerMax, sent, nonce>>

Poll == PollStart \/ PollRetry \/ PollGiveUp

Receive ==
  \E m \in sent :
    /\ m.target <= capacity[m.path]
    /\ AcknowledgeClamped(m) \/ Acknowledge(m)

Data ==
  \E source \in Paths, inWindow \in BOOLEAN :
    ObserveData(source, inWindow) \/ Migrate(source, inWindow)

Next == Poll \/ Receive \/ Data

Spec == Init /\ [][Next]_vars

(* mtu_loop ticks every MTU_PROBE_INTERVAL; nothing is assumed of the       *)
(* network or of the peer.                                                  *)
FairSpec == Spec /\ WF_vars(Poll)

-----------------------------------------------------------------------------
Ended == next = NoTarget /\ pending = NoProbe

(* The search stays between its bounds: the next and the pending size lie   *)
(* above what is confirmed and not above what may still work, so no probe   *)
(* is wasted and none exceeds the configured maximum.                       *)
InBounds ==
  /\ confirmed <= upper
  /\ upper <= Maximum
  /\ next # NoTarget => next > confirmed /\ next <= upper
  /\ pending # NoProbe => pending.target > confirmed /\ pending.target <= upper

(* What is confirmed beyond the safe size was carried by the path in use    *)
(* and is allowed by the peer: late acknowledgements, retries and           *)
(* migrations never leave a size of another path behind.                    *)
PathSound ==
  confirmed > SafeMtu => confirmed <= capacity[path] /\ confirmed <= peerMax

(* When every answer came in time, the search ends within                   *)
(* MTU_PROBE_MIN_GAIN of the best size the path and both peers allow.       *)
SearchTight ==
  Ended /\ ~lossy => Least(Least(capacity[path], peerMax), Maximum) <= confirmed + MinGain

(* The search ends, whatever is lost, once the path stays the same.         *)
SearchEnds == <>[]Ended
=============================================================================
