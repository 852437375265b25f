-------------------------- MODULE HandshakeProofs ---------------------------
(***************************************************************************)
(* Theorems about the session handshake, for every set of session ids and  *)
(* ephemerals and every bound on faults and retries.                       *)
(*                                                                         *)
(* SharedSessionIsCurrent is not inductive. What carries it is that an     *)
(* ephemeral ties whoever has seen it to one incarnation of the node that  *)
(* made it: as long as the initiator holds h, every copy of h in flight or *)
(* in the responder's session names the initiator's present incarnation    *)
(* (InitiatorEpoch), and likewise for the responder's r (ResponderEpoch).  *)
(***************************************************************************)
EXTENDS Handshake, TLAPS

HoldsEphemeral(h) ==
  h # 0 /\ h \in {attempt[1].hs, attempt[1].payload, active[1].h}

InitiatorEpoch ==
  \A h \in Keys : HoldsEphemeral(h) =>
    /\ \A m \in InFlight : m.type = "hs1" /\ m.h = h => m.inc = inc[1]
    /\ active[2].h = h => active[2].inc = inc[1]

ResponderEpoch ==
  active[2] # NoSession =>
    /\ \A m \in InFlight : m.type = "hs2" /\ m.r = active[2].r => m.inc = inc[2]
    /\ active[1].r = active[2].r => active[1].inc = inc[2]

(* Noise state comes with its payload, and never beside a live session *)
AttemptShape ==
  /\ \A n \in Nodes : attempt[n].hs # 0 => attempt[n].payload = attempt[n].hs
  /\ attempt[1].hs # 0 => active[1] = NoSession

IInv ==
  /\ TypeOK
  /\ AttemptShape
  /\ OneInitiator
  /\ InitiatorEpoch
  /\ ResponderEpoch

-----------------------------------------------------------------------------
(* What is in flight after a send and after a removal *)

(* Datagrams in flight are messages. *)
LEMMA DatagramType ==
  ASSUME NEW q \in [Nodes -> Seq(Message)]
  PROVE  Datagrams(q) \subseteq Message
BY DEF Datagrams

(* Membership in Datagrams, spelled out. *)
LEMMA InDatagrams ==
  ASSUME NEW q, NEW d
  PROVE  d \in Datagrams(q) <=> \E k \in Nodes : \E i \in 1 .. Len(q[k]) : d = q[k][i]
BY DEF Datagrams

(* A send adds its message and nothing else. *)
LEMMA SendDatagrams ==
  ASSUME NEW q \in [Nodes -> Seq(Message)], NEW n \in Nodes, NEW m \in Message
  PROVE  /\ Send(q, n, m) \in [Nodes -> Seq(Message)]
         /\ Datagrams(Send(q, n, m)) \subseteq Datagrams(q) \cup {m}
<1>1. Send(q, n, m) \in [Nodes -> Seq(Message)]
  BY DEF Send
<1>2. ASSUME NEW k \in Nodes, NEW i \in 1 .. Len(Send(q, n, m)[k])
      PROVE  Send(q, n, m)[k][i] \in Datagrams(q) \cup {m}
  <2>1. CASE k # n
    BY <1>2, <2>1 DEF Send, Datagrams
  <2>2. CASE k = n
    <3>1. Send(q, n, m)[k] = Append(q[n], m)
      BY <2>2 DEF Send
    <3>2. /\ q[n] \in Seq(Message)
          /\ Len(Append(q[n], m)) = Len(q[n]) + 1
          /\ Append(q[n], m)[Len(q[n]) + 1] = m
          /\ \A j \in 1 .. Len(q[n]) : Append(q[n], m)[j] = q[n][j]
      OBVIOUS
    <3>3. CASE i = Len(q[n]) + 1
      BY <3>1, <3>2, <3>3
    <3>4. CASE i \in 1 .. Len(q[n])
      BY <3>1, <3>2, <3>4 DEF Datagrams
    <3> QED
      BY <1>2, <3>1, <3>2, <3>3, <3>4
  <2> QED
    BY <2>1, <2>2
<1>3. ASSUME NEW d \in Datagrams(Send(q, n, m))
      PROVE  d \in Datagrams(q) \cup {m}
  BY SMTT(60), <1>2, InDatagrams
<1> QED
  BY <1>1, <1>3

(* Taking a datagram out adds nothing. *)
LEMMA WithoutDatagrams ==
  ASSUME NEW q \in [Nodes -> Seq(Message)], NEW k \in Nodes, NEW i \in 1 .. Len(q[k]),
         NEW rest, rest = [q EXCEPT ![k] = Without(@, i)]
  PROVE  /\ rest \in [Nodes -> Seq(Message)]
         /\ Datagrams(rest) \subseteq Datagrams(q)
<1>1. /\ Without(q[k], i) \in Seq(Message)
      /\ Len(Without(q[k], i)) = Len(q[k]) - 1
      /\ \A j \in 1 .. Len(q[k]) - 1 : Without(q[k], i)[j] \in {q[k][j], q[k][j + 1]}
  <2>1. Len(q[k]) - 1 \in Nat
    OBVIOUS
  <2>2. Without(q[k], i) \in [1 .. Len(q[k]) - 1 -> Message]
    BY <2>1 DEF Without
  <2> QED
    BY <2>1, <2>2 DEF Without
<1>2. rest \in [Nodes -> Seq(Message)]
  BY <1>1
<1>3. ASSUME NEW n \in Nodes, NEW j \in 1 .. Len(rest[n])
      PROVE  rest[n][j] \in Datagrams(q)
  <2>1. CASE n # k
    BY <1>3, <2>1 DEF Datagrams
  <2>2. CASE n = k
    <3>1. rest[n] = Without(q[k], i)
      BY <2>2
    <3>2. j \in 1 .. Len(q[k]) /\ j + 1 \in 1 .. Len(q[k])
      BY <1>1, <1>3, <3>1
    <3>3. q[k][j] \in Datagrams(q) /\ q[k][j + 1] \in Datagrams(q)
      BY <3>2 DEF Datagrams
    <3> QED
      BY SMTT(60), <1>1, <3>1, <3>2, <3>3
  <2> QED
    BY <2>1, <2>2
<1>4. ASSUME NEW d \in Datagrams(rest)
      PROVE  d \in Datagrams(q)
  <2>1. PICK n \in Nodes : \E j \in 1 .. Len(rest[n]) : d = rest[n][j]
    BY <1>4 DEF Datagrams
  <2> QED
    BY <1>3, <2>1
<1> QED
  BY Zenon, <1>2, <1>4

-----------------------------------------------------------------------------
(* A step that adds at most probes and answers to the network and changes   *)
(* sessions and attempts only by dropping them                              *)
Calm ==
  /\ \A m \in InFlight' : m \in InFlight \/ m.type \in {"probe", "response"}
  /\ \A n \in Nodes :
       /\ active'[n] \in {active[n], NoSession}
       /\ \/ attempt'[n] = attempt[n]
          \/ attempt'[n].hs = 0 /\ attempt'[n].payload \in {0, attempt[n].payload}
       /\ inc'[n] = inc[n] \/ (active'[n] = NoSession /\ attempt'[n] = NoAttempt)

(* Such a step preserves the invariant. *)
LEMMA CalmStep ==
  ASSUME IInv, TypeOK', Calm
  PROVE  IInv'
<1> USE DEF Nodes
<1>1. AttemptShape'
  BY DEF IInv, AttemptShape, Calm
<1>2. OneInitiator'
  BY DEF IInv, OneInitiator, Calm, Peer
<1>3. InitiatorEpoch'
  BY DEF IInv, InitiatorEpoch, HoldsEphemeral, Calm, NoSession, NoAttempt
<1>4. ResponderEpoch'
  <2>1. active[2] # NoSession => active[2].r # 0
    BY HandshakeAssumption DEF IInv, TypeOK, Session
  <2> QED
    BY <2>1 DEF IInv, ResponderEpoch, Calm, NoSession
<1> QED
  BY <1>1, <1>2, <1>3, <1>4 DEF IInv
-----------------------------------------------------------------------------
(* One lemma per action *)

(* Fresh identifiers are in their sets, and nothing else has them. *)
LEMMA Fresh ==
  /\ FreshSids \subseteq Sids
  /\ \A x \in FreshKeys :
       /\ x \in Keys
       /\ \A n \in Nodes : /\ x # active[n].h /\ x # active[n].r
                           /\ x # attempt[n].hs /\ x # attempt[n].payload
       /\ \A m \in InFlight : x # m.h /\ x # m.r
BY DEF FreshSids, FreshKeys, Least, KeysInUse

(* connect() stores a new attempt and puts a probe in flight. *)
LEMMA BeginConnectEffect ==
  ASSUME TypeOK, NEW n \in Nodes, BeginConnect(n)
  PROVE  /\ attempt' \in [Nodes -> Attempt \cup {NoAttempt}]
         /\ conn' \in [Nodes -> Conn \cup {NoConn}]
         /\ net' \in [Nodes -> Seq(Message)]
         /\ \A m \in InFlight' : m \in InFlight \/ m.type \in {"probe", "response"}
         /\ \A k \in Nodes : attempt'[k] = attempt[k] \/
                             (attempt'[k].hs = 0 /\ attempt'[k].payload = 0)
<1>1. PICK s \in FreshSids :
        /\ attempt' = [attempt EXCEPT ![n] = NewAttempt(s)]
        /\ conn' = [conn EXCEPT ![n] = [sid |-> s, probes |-> MaxProbes]]
        /\ net' = Send(net, n, Probe(n, s))
  BY Zenon DEF BeginConnect
<1>2. s \in Sids
  BY Fresh
<1>3. Probe(n, s) \in Message /\ Probe(n, s).type = "probe"
  BY <1>2 DEF Probe, Message
<1>4. /\ net' \in [Nodes -> Seq(Message)]
      /\ Datagrams(net') \subseteq Datagrams(net) \cup {Probe(n, s)}
  BY Zenon, <1>1, <1>3, SendDatagrams DEF TypeOK
<1>5. NewAttempt(s) \in Attempt /\ NewAttempt(s).hs = 0 /\ NewAttempt(s).payload = 0
  BY <1>2 DEF NewAttempt, Attempt
<1>6. [sid |-> s, probes |-> MaxProbes] \in Conn
  BY <1>2, HandshakeAssumption DEF Conn
<1> QED
  BY Zenon, <1>1, <1>3, <1>4, <1>5, <1>6 DEF TypeOK, InFlight

(* The other node is a node. *)
LEMMA PeerNode ==
  \A n \in Nodes : Peer(n) \in Nodes /\ Peer(n) # n /\ Peer(Peer(n)) = n
BY DEF Nodes, Peer

(* A reset ReconnectState is one. *)
LEMMA NoReconnectType == NoReconnect \in Reconnect
BY HandshakeAssumption DEF NoReconnect, Reconnect

(* A reconnect request is a ReconnectState. *)
LEMMA RequestType ==
  ASSUME NEW rc \in Reconnect
  PROVE  Requested(rc) \in Reconnect /\ [rc EXCEPT !.attempts = 0] \in Reconnect
<1>1. 0 \in 0 .. MaxReconnect
  BY HandshakeAssumption
<1> QED
  BY <1>1 DEF Requested, Reconnect

(* schedule_reconnect keeps the types of what it touches. *)
LEMMA ScheduleType ==
  ASSUME TypeOK, NEW n \in Nodes, NEW rc \in Reconnect, Schedule(n, rc)
  PROVE  /\ reconnect' \in [Nodes -> Reconnect]
         /\ signal' \in [Nodes -> Nat \cup {NoSignal}]
<1>1. [rc EXCEPT !.running = TRUE] \in Reconnect
  BY Zenon DEF Reconnect
<1>2. CASE rc.requested /\ ~rc.running /\ rc.attempts < MaxReconnect
  <2>1. /\ reconnect' = [reconnect EXCEPT ![n] = [rc EXCEPT !.running = TRUE]]
        /\ signal' = [signal EXCEPT ![Peer(n)] = inc[n]]
    BY <1>2 DEF Schedule, RequestConnection
  <2>2. inc[n] \in Nat
    BY DEF TypeOK
  <2> QED
    BY Zenon, <1>1, <2>1, <2>2 DEF TypeOK
<1>3. CASE ~(rc.requested /\ ~rc.running /\ rc.attempts < MaxReconnect)
  BY Zenon, <1>3 DEF Schedule, TypeOK
<1> QED
  BY <1>2, <1>3

(* A packet that makes send_ip connect adds an attempt without Noise state. *)
LEMMA SendIpInv ==
  ASSUME IInv, NEW n \in Nodes, SendIp(n)
  PROVE  IInv'
<1>1. TypeOK
  BY DEF IInv
<1>2. BeginConnect(n)
  BY DEF SendIp
<1>3. TypeOK'
  BY SMTT(60), <1>1, <1>2, BeginConnectEffect DEF SendIp, RequestConnection, TypeOK, Nodes, Peer
<1>4. Calm
  BY <1>1, <1>2, BeginConnectEffect DEF SendIp, Calm
<1> QED
  BY SMTT(60), <1>3, <1>4, CalmStep

(* A ConnectSignal with a new record takes the session with the old record. *)
LEMMA ReceiveSignalInv ==
  ASSUME IInv, NEW n \in Nodes, ReceiveSignal(n)
  PROVE  IInv'
<1> USE DEF IInv
<1>1. CASE signal[n] # known[n]
  <2>1. BeginConnect(n)
    BY <1>1 DEF ReceiveSignal
  <2>2. TypeOK'
    BY ZenonT(40), <1>1, <2>1, BeginConnectEffect, NoReconnectType DEF ReceiveSignal, TypeOK
  <2>3. Calm
    BY SMTT(60), <1>1, <2>1, BeginConnectEffect DEF ReceiveSignal, Calm, TypeOK
  <2> QED
    BY SMTT(60), <2>2, <2>3, CalmStep
<1>2. CASE signal[n] = known[n] /\ active[n] # NoSession
  <2>1. TypeOK'
    BY <1>2 DEF ReceiveSignal, TypeOK
  <2>2. Calm
    BY <1>2 DEF ReceiveSignal, Calm, TypeOK, InFlight
  <2> QED
    BY SMTT(60), <2>1, <2>2, CalmStep
<1>3. CASE signal[n] = known[n] /\ active[n] = NoSession
  <2>1. BeginConnect(n)
    BY <1>3 DEF ReceiveSignal
  <2>2. TypeOK'
    BY <1>3, <2>1, BeginConnectEffect DEF ReceiveSignal, TypeOK, Nodes, Peer
  <2>3. Calm
    BY SMTT(60), <1>3, <2>1, BeginConnectEffect DEF ReceiveSignal, Calm, TypeOK
  <2> QED
    BY SMTT(60), <2>2, <2>3, CalmStep
<1> QED
  BY <1>1, <1>2, <1>3
(* The probe retry of connect() only adds a probe. *)
LEMMA ReProbeInv ==
  ASSUME IInv, NEW n \in Nodes, ReProbe(n)
  PROVE  IInv'
<1> DEFINE m == Probe(n, conn[n].sid)
<1>1. TypeOK
  BY DEF IInv
<1>2. conn[n] \in Conn /\ conn[n].probes \in 1 .. MaxProbes
  BY <1>1, HandshakeAssumption DEF ReProbe, MayReProbe, TypeOK, Conn
<1>3. m \in Message /\ m.type = "probe"
  BY <1>2 DEF Probe, Message, Conn
<1>4. net' = Send(net, n, m)
  BY DEF ReProbe
<1> HIDE DEF m
<1>5. net' \in [Nodes -> Seq(Message)] /\ Datagrams(net') \subseteq Datagrams(net) \cup {m}
  BY Zenon, <1>1, <1>3, <1>4, SendDatagrams DEF TypeOK
<1>6. [conn[n] EXCEPT !.probes = @ - 1] \in Conn
  <2>1. conn[n].probes - 1 \in 0 .. MaxProbes
    BY <1>2, HandshakeAssumption
  <2> QED
    BY <1>2, <2>1 DEF Conn
<1>7. TypeOK'
  BY <1>1, <1>5, <1>6 DEF ReProbe, TypeOK
<1>8. Calm
  BY <1>3, <1>5 DEF ReProbe, Calm, InFlight
<1> QED
  BY SMTT(60), <1>7, <1>8, CalmStep

(* A counted fault stays within the bound. *)
LEMMA ChargeType ==
  ASSUME TypeOK, NEW kind, Charge(kind) \/ Fault(kind)
  PROVE  faults' \in 0 .. MaxFaults
<1>1. CASE faults' = faults
  BY <1>1 DEF TypeOK
<1>2. CASE Fault(kind)
  BY <1>2, HandshakeAssumption DEF TypeOK, Fault
<1> QED
  BY <1>1, <1>2 DEF Charge

(* The deadline of connect() only clears its own attempt. *)
LEMMA ConnectTimeoutInv ==
  ASSUME IInv, NEW n \in Nodes, ConnectTimeout(n)
  PROVE  IInv'
<1>1. faults' \in 0 .. MaxFaults
  BY ChargeType DEF ConnectTimeout, IInv
<1>2. TypeOK'
  BY <1>1 DEF ConnectTimeout, TypeOK, IInv
<1>3. \A k \in Nodes : attempt'[k] \in {attempt[k], NoAttempt}
  BY DEF ConnectTimeout, TypeOK, IInv
<1>4. Calm
  BY <1>3 DEF ConnectTimeout, Calm, InFlight, NoAttempt
<1> QED
  BY SMTT(60), <1>2, <1>4, CalmStep

(* The end of the reconnect loop touches no session. *)
LEMMA ReconnectStopInv ==
  ASSUME IInv, NEW n \in Nodes, ReconnectStop(n)
  PROVE  IInv'
<1>1. [reconnect[n] EXCEPT !.running = FALSE] \in Reconnect
  BY Zenon DEF IInv, TypeOK, Reconnect
<1>2. TypeOK'
  BY <1>1 DEF ReconnectStop, TypeOK, IInv
<1>3. Calm
  BY DEF ReconnectStop, Calm, InFlight
<1> QED
  BY SMTT(60), <1>2, <1>3, CalmStep

(* A reconnect attempt stays within MAX_RECONNECT_ATTEMPTS. *)
LEMMA ReconnectTryInv ==
  ASSUME IInv, NEW n \in Nodes, ReconnectTry(n)
  PROVE  IInv'
<1>1. TypeOK /\ BeginConnect(n)
  BY DEF IInv, ReconnectTry
<1>2. reconnect[n] \in Reconnect /\ reconnect[n].attempts < MaxReconnect
  BY <1>1 DEF ReconnectTry, TypeOK
<1>3. [reconnect[n] EXCEPT !.attempts = @ + 1] \in Reconnect
  BY <1>2, HandshakeAssumption DEF Reconnect
<1>4. TypeOK'
  BY <1>1, <1>3, BeginConnectEffect DEF ReconnectTry, TypeOK
<1>5. Calm
  BY <1>1, BeginConnectEffect DEF ReconnectTry, Calm
<1> QED
  BY SMTT(60), <1>4, <1>5, CalmStep

(* A lost datagram takes nothing else with it. *)
LEMMA LoseInv ==
  ASSUME IInv, NEW k \in Nodes, NEW i \in 1 .. Len(net[k]), Lose(k, i)
  PROVE  IInv'
<1>1. /\ net' \in [Nodes -> Seq(Message)]
      /\ Datagrams(net') \subseteq Datagrams(net)
  BY Zenon, WithoutDatagrams DEF Lose, IInv, TypeOK
<1>2. faults' \in 0 .. MaxFaults
  BY ChargeType DEF Lose, IInv
<1>3. TypeOK'
  BY SMTT(60), <1>1, <1>2 DEF Lose, TypeOK, IInv
<1>4. Calm
  BY Zenon, <1>1 DEF Lose, Calm, InFlight
<1> QED
  BY SMTT(60), <1>3, <1>4, CalmStep

(* invalidate_session on a dead or failed session preserves the invariant. *)
LEMMA DropSessionInv ==
  ASSUME IInv, NEW n \in Nodes, DropSession(n)
  PROVE  IInv'
<1> DEFINE rc == Requested(reconnect[n])
<1>1. faults' \in 0 .. MaxFaults
  BY ChargeType DEF DropSession, IInv
<1>2. rc \in Reconnect
  BY Zenon, RequestType DEF IInv, TypeOK
<1>3. Schedule(n, rc)
  BY DEF DropSession
<1> HIDE DEF rc
<1>4. /\ reconnect' \in [Nodes -> Reconnect]
      /\ signal' \in [Nodes -> Nat \cup {NoSignal}]
  BY <1>2, <1>3, ScheduleType DEF IInv
<1>5. TypeOK'
  BY Zenon, <1>1, <1>4 DEF DropSession, TypeOK, IInv
<1>6. \A k \in Nodes : /\ active'[k] \in {active[k], NoSession}
                       /\ attempt'[k] \in {attempt[k], NoAttempt}
  BY DEF DropSession, IInv, TypeOK
<1>7. Calm
  BY <1>6 DEF DropSession, Calm, InFlight, NoAttempt
<1> QED
  BY SMTT(60), <1>5, <1>7, CalmStep

(* A restart forgets every ephemeral, so nothing ties the new process. *)
LEMMA RestartInv ==
  ASSUME IInv, NEW n \in Nodes, Restart(n)
  PROVE  IInv'
<1>1. faults' \in 0 .. MaxFaults
  BY ChargeType DEF Restart, IInv
<1>2. inc[Peer(n)] \in Nat /\ inc[n] + 1 \in Nat
  BY PeerNode DEF IInv, TypeOK
<1>3. TypeOK'
  <2>1. net' \in [Nodes -> Seq(Message)] /\ conn' \in [Nodes -> Conn \cup {NoConn}]
    BY DEF Restart, TypeOK, IInv
  <2>2. /\ inc' \in [Nodes -> Nat] /\ known' \in [Nodes -> Nat]
        /\ signal' \in [Nodes -> Nat \cup {NoSignal}]
        /\ applying' \in [Nodes -> Nat \cup {NoSignal}]
    BY <1>2 DEF Restart, TypeOK, IInv
  <2>3. /\ active' \in [Nodes -> Session \cup {NoSession}]
        /\ attempt' \in [Nodes -> Attempt \cup {NoAttempt}]
        /\ reconnect' \in [Nodes -> Reconnect]
    BY NoReconnectType DEF Restart, TypeOK, IInv
  <2> QED
    BY <1>1, <2>1, <2>2, <2>3 DEF TypeOK
<1>4. /\ active'[n] = NoSession /\ attempt'[n] = NoAttempt
      /\ \A k \in Nodes \ {n} : /\ active'[k] = active[k] /\ attempt'[k] = attempt[k]
                                /\ inc'[k] = inc[k]
  BY DEF Restart, IInv, TypeOK
<1>5. Calm
  BY <1>4 DEF Restart, Calm, InFlight, NoAttempt
<1> QED
  BY SMTT(60), <1>3, <1>5, CalmStep

(* The first half of apply_snapshot cuts the session of the old incarnation. *)
LEMMA ApplyInvalidateInv ==
  ASSUME IInv, NEW n \in Nodes, ApplyInvalidate(n)
  PROVE  IInv'
<1> DEFINE rc == Requested(reconnect[n])
<1>1. rc \in Reconnect
  BY Zenon, RequestType DEF IInv, TypeOK
<1>2. reconnect' \in {reconnect, [reconnect EXCEPT ![n] = rc]}
  BY DEF ApplyInvalidate
<1> HIDE DEF rc
<1>3. reconnect' \in [Nodes -> Reconnect]
  BY <1>1, <1>2 DEF IInv, TypeOK
<1>4. inc[Peer(n)] \in Nat
  BY PeerNode DEF IInv, TypeOK
<1>5. TypeOK'
  BY ZenonT(40), <1>3, <1>4 DEF ApplyInvalidate, TypeOK, IInv
<1>6. /\ active'[n] = NoSession /\ attempt'[n] = NoAttempt
      /\ \A k \in Nodes \ {n} : active'[k] = active[k] /\ attempt'[k] = attempt[k]
  BY DEF ApplyInvalidate, IInv, TypeOK
<1>7. Calm
  BY <1>6 DEF ApplyInvalidate, Calm, InFlight, NoAttempt
<1> QED
  BY SMTT(60), <1>5, <1>7, CalmStep

(* The second half names the new incarnation and touches no session: one    *)
(* set up in between stays, and rests on what it holds, not on the record.  *)
LEMMA ApplyUpdateInv ==
  ASSUME IInv, NEW n \in Nodes, ApplyUpdate(n)
  PROVE  IInv'
<1> DEFINE rc == IF reconnect[n].requested THEN [reconnect[n] EXCEPT !.attempts = 0]
                                           ELSE reconnect[n]
<1>1. Schedule(n, rc)
  BY DEF ApplyUpdate
<1>2. rc \in Reconnect
  <2>1. reconnect[n] \in Reconnect
    BY DEF IInv, TypeOK
  <2> QED
    BY Zenon, <2>1, RequestType
<1> HIDE DEF rc
<1>3. /\ reconnect' \in [Nodes -> Reconnect]
      /\ signal' \in [Nodes -> Nat \cup {NoSignal}]
  BY <1>1, <1>2, ScheduleType DEF IInv
<1>4. applying[n] \in Nat
  BY DEF ApplyUpdate, IInv, TypeOK
<1>5. TypeOK'
  BY ZenonT(40), <1>3, <1>4 DEF ApplyUpdate, TypeOK, IInv
<1>6. Calm
  BY DEF ApplyUpdate, Calm, InFlight
<1> QED
  BY SMTT(60), <1>5, <1>6, CalmStep

(* A signal lost to a pending request touches no session. *)
LEMMA DiscardSignalInv ==
  ASSUME IInv, NEW n \in Nodes, DiscardSignal(n)
  PROVE  IInv'
<1>1. faults' \in 0 .. MaxFaults
  BY ChargeType DEF DiscardSignal, IInv
<1>2. TypeOK'
  BY <1>1 DEF DiscardSignal, TypeOK, IInv
<1>3. Calm
  BY DEF DiscardSignal, Calm, InFlight
<1> QED
  BY SMTT(60), <1>2, <1>3, CalmStep

-----------------------------------------------------------------------------
(* Steps of the initiator *)

(* The initiator sends a first handshake message with the ephemeral of its  *)
(* attempt, a fresh one or the one it holds, while it has no session.       *)
InitiatorSends(h) ==
  /\ active'[1] = NoSession
  /\ active'[2] = active[2]
  /\ attempt'[2] = attempt[2]
  /\ attempt'[1].hs = h
  /\ attempt'[1].payload = h
  /\ h \in FreshKeys \/ (h \in Keys /\ h = attempt[1].payload)
  /\ inc' = inc
  /\ \A m \in InFlight' :
       m \in InFlight \/ (m.type = "hs1" /\ m.from = 1 /\ m.h = h /\ m.inc = inc[1])

(* Such a step preserves the invariant. *)
LEMMA InitiatorSendsStep ==
  ASSUME IInv, TypeOK', NEW h, InitiatorSends(h)
  PROVE  IInv'
<1> USE DEF Nodes
<1>1. h \in Keys /\ h # 0
  BY Fresh, HandshakeAssumption DEF InitiatorSends
<1>2. AttemptShape'
  BY DEF IInv, AttemptShape, InitiatorSends
<1>3. OneInitiator'
  BY DEF IInv, OneInitiator, InitiatorSends, Peer
<1>4. InitiatorEpoch'
  <2> SUFFICES ASSUME NEW x \in Keys, HoldsEphemeral(x)'
               PROVE  /\ \A m \in InFlight' : m.type = "hs1" /\ m.h = x => m.inc = inc'[1]
                      /\ active'[2].h = x => active'[2].inc = inc'[1]
    BY DEF InitiatorEpoch
  <2>1. x = h
    BY <1>1, HandshakeAssumption DEF HoldsEphemeral, InitiatorSends, NoSession
  <2>2. CASE h \in FreshKeys
    BY <2>1, <2>2, Fresh DEF InitiatorSends
  <2>3. CASE h = attempt[1].payload
    <3>1. HoldsEphemeral(h)
      BY SMTT(60), <1>1, <2>3 DEF HoldsEphemeral
    <3> QED
      BY <1>1, <2>1, <3>1 DEF IInv, InitiatorEpoch, InitiatorSends
  <2> QED
    BY <2>2, <2>3 DEF InitiatorSends
<1>5. ResponderEpoch'
  <2>1. active[2] # NoSession => active[2].r # 0
    BY SMTT(60), HandshakeAssumption DEF IInv, TypeOK, Session
  <2> QED
    BY <2>1 DEF IInv, ResponderEpoch, InitiatorSends, NoSession
<1> QED
  BY <1>2, <1>3, <1>4, <1>5 DEF IInv

(* A first handshake message is a message. *)
LEMMA Handshake1Type ==
  ASSUME TypeOK, NEW s \in Sids, NEW h \in Keys
  PROVE  /\ Handshake1(1, s, h) \in Message
         /\ Handshake1(1, s, h).type = "hs1"
         /\ Handshake1(1, s, h).from = 1
         /\ Handshake1(1, s, h).h = h
         /\ Handshake1(1, s, h).inc = inc[1]
<1>1. inc[1] \in Nat
  BY DEF TypeOK, Nodes
<1> QED
  BY <1>1 DEF Handshake1, Message, Nodes

(* The rekey of the keepalive loop, its first handshake message included. *)
LEMMA RekeyInv ==
  ASSUME IInv, NEW n \in Nodes, Rekey(n)
  PROVE  IInv'
<1>1. TypeOK /\ faults' \in 0 .. MaxFaults
  BY ChargeType DEF Rekey, IInv
<1>2. CASE n = 1
  <2>1. CASE \E s \in FreshSids, h \in FreshKeys :
               /\ attempt' = [attempt EXCEPT ![1] = Initiated(s, h)]
               /\ net' = Send(net, 1, Handshake1(1, s, h))
    <3>1. PICK s \in FreshSids, h \in FreshKeys :
            /\ attempt' = [attempt EXCEPT ![1] = Initiated(s, h)]
            /\ net' = Send(net, 1, Handshake1(1, s, h))
      BY Zenon, <2>1
    <3>2. s \in Sids /\ h \in Keys
      BY Fresh
    <3> DEFINE m == Handshake1(1, s, h)
    <3>3. m \in Message /\ m.type = "hs1" /\ m.from = 1 /\ m.h = h /\ m.inc = inc[1]
      BY <1>1, <3>2, Handshake1Type
    <3> HIDE DEF m
    <3>4. net' \in [Nodes -> Seq(Message)] /\ Datagrams(net') \subseteq Datagrams(net) \cup {m}
      BY SMTT(60), <1>1, <3>1, <3>3, SendDatagrams DEF TypeOK, Nodes, m
    <3>5. TypeOK'
      BY SMTT(60), <1>1, <1>2, <3>1, <3>2, <3>4 DEF Rekey, TypeOK, Attempt, Initiated
    <3>6. InitiatorSends(h)
      BY SMTT(60), <1>1, <1>2, <3>1, <3>3, <3>4 DEF Rekey, InitiatorSends, InFlight, TypeOK, Nodes, Initiated
    <3> QED
      BY <3>5, <3>6, InitiatorSendsStep
  <2>2. CASE /\ \E s \in FreshSids : attempt' = [attempt EXCEPT ![1] = NewAttempt(s)]
             /\ UNCHANGED net
    <3>1. PICK s \in FreshSids : attempt' = [attempt EXCEPT ![1] = NewAttempt(s)]
      BY Zenon, <2>2
    <3>2. s \in Sids
      BY SMTT(60), Fresh
    <3>3. TypeOK'
      BY SMTT(60), <1>1, <1>2, <2>2, <3>1, <3>2 DEF Rekey, TypeOK, Attempt, NewAttempt
    <3>4. Calm
      BY <1>1, <1>2, <2>2, <3>1 DEF Rekey, Calm, InFlight, TypeOK, NewAttempt, Nodes
    <3> QED
      BY SMTT(60), <3>3, <3>4, CalmStep
  <2> QED
    BY <1>2, <2>1, <2>2 DEF Rekey, Peer
<1>3. CASE n = 2
  <2>1. /\ active' = [active EXCEPT ![2] = NoSession]
        /\ attempt' = [attempt EXCEPT ![2] = NoAttempt]
        /\ UNCHANGED <<inc, known, conn, reconnect, signal, applying, net>>
    BY <1>3 DEF Rekey, Peer
  <2>2. TypeOK'
    BY Zenon, <1>1, <2>1 DEF TypeOK
  <2>3. Calm
    BY <1>1, <2>1 DEF Calm, InFlight, TypeOK, NoAttempt, Nodes
  <2> QED
    BY SMTT(60), <2>2, <2>3, CalmStep
<1> QED
  BY <1>2, <1>3 DEF Nodes

(* start_initiator on the initiator, with its attempt or one taken from a   *)
(* probe, preserves the invariant.                                          *)
LEMMA StartInitiatorInv ==
  ASSUME IInv, NEW s \in Sids, NEW att, att \in {attempt[1], NewAttempt(s)},
         NEW rest \in [Nodes -> Seq(Message)], Datagrams(rest) \subseteq InFlight,
         NEW fault, StartInitiator(1, att, s, rest, fault),
         faults' \in 0 .. MaxFaults,
         UNCHANGED <<inc, known, active, conn, reconnect, signal, applying>>
  PROVE  IInv'
<1>1. TypeOK
  BY DEF IInv
<1>2. att \in Attempt \cup {NoAttempt} /\ (att.sid = s => att \in Attempt)
  BY SMTT(60), <1>1, HandshakeAssumption DEF TypeOK, NewAttempt, Attempt, NoAttempt, Nodes
<1>3. CASE attempt' = [attempt EXCEPT ![1] = att] /\ net' = rest
  <2>1. TypeOK'
    BY ZenonT(40), <1>1, <1>2, <1>3 DEF TypeOK
  <2>2. Calm
    BY SMTT(60), <1>1, <1>3 DEF Calm, InFlight, TypeOK, NewAttempt, Nodes
  <2> QED
    BY SMTT(60), <2>1, <2>2, CalmStep
<1>4. ASSUME NEW h \in Keys, active[1] = NoSession, att.sid = s,
             attempt' = [attempt EXCEPT ![1] = Initiated(s, h)],
             h \in FreshKeys \/ h = attempt[1].payload,
             net' = Send(rest, 1, Handshake1(1, s, h))
      PROVE  IInv'
  <2> DEFINE m == Handshake1(1, s, h)
  <2>1. m \in Message /\ m.type = "hs1" /\ m.from = 1 /\ m.h = h /\ m.inc = inc[1]
    BY SMTT(60), <1>1, Handshake1Type
  <2> HIDE DEF m
  <2>2. net' \in [Nodes -> Seq(Message)] /\ Datagrams(net') \subseteq InFlight \cup {m}
    BY <1>4, <2>1, SendDatagrams DEF Nodes, m
  <2>3. /\ Initiated(s, h) \in Attempt
        /\ Initiated(s, h).hs = h /\ Initiated(s, h).payload = h
    BY SMTT(60) DEF Attempt, Initiated
  <2>4. TypeOK'
    BY ZenonT(40), <1>1, <1>4, <2>2, <2>3 DEF TypeOK
  <2>5. InitiatorSends(h)
    <3>1. attempt'[1] = Initiated(s, h) /\ attempt'[2] = attempt[2]
      BY <1>1, <1>4 DEF TypeOK, Nodes
    <3> QED
      BY SMTT(60), <1>4, <2>1, <2>2, <2>3, <3>1 DEF InitiatorSends, InFlight
  <2> QED
    BY <2>4, <2>5, InitiatorSendsStep
<1>5. CASE /\ active[1] = NoSession /\ att.sid = s /\ att.hs # 0
           /\ attempt' = [attempt EXCEPT ![1] = att]
           /\ net' = Send(rest, 1, Handshake1(1, s, att.payload))
  <2>1. att = attempt[1] /\ att \in Attempt
    BY <1>2, <1>5 DEF NewAttempt
  <2>2. att.payload = att.hs /\ att.payload \in Keys
    BY <1>5, <2>1 DEF IInv, AttemptShape, Attempt, Nodes
  <2>3. att = Initiated(s, att.payload)
    BY <1>5, <2>1, <2>2 DEF Attempt, Initiated
  <2> QED
    BY Zenon, <1>4, <1>5, <2>1, <2>2, <2>3
<1>6. CASE /\ active[1] = NoSession /\ att.sid = s
           /\ \E h \in FreshKeys :
                /\ attempt' = [attempt EXCEPT ![1] = Initiated(s, h)]
                /\ net' = Send(rest, 1, Handshake1(1, s, h))
  BY Zenon, <1>4, <1>6, Fresh
<1> QED
  BY <1>3, <1>5, <1>6 DEF StartInitiator

(* A datagram in flight is a message between the two nodes.                 *)
LEMMA MessageIs ==
  ASSUME TypeOK, NEW m \in InFlight
  PROVE  m \in Message /\ m.sid \in Sids /\ m.from \in Nodes /\ Peer(m.from) \in Nodes
<1>1. m \in Message
  BY Zenon, DatagramType DEF TypeOK, InFlight
<1>2. m.sid \in Sids /\ m.from \in Nodes
  BY <1>1 DEF Message
<1> QED
  BY Zenon, <1>1, <1>2, PeerNode

(* A step that changes nothing but the network keeps the types.             *)
LEMMA NetworkOnly ==
  ASSUME TypeOK, net' \in [Nodes -> Seq(Message)], faults' \in 0 .. MaxFaults,
         UNCHANGED <<inc, known, active, attempt, conn, reconnect, signal, applying>>
  PROVE  TypeOK'
BY Zenon DEF TypeOK

(* establish installs a session of the right type and resets the rest.      *)
LEMMA EstablishType ==
  ASSUME TypeOK, NEW n \in Nodes, NEW s \in Sids, NEW h \in Keys, NEW r \in Keys,
         Establish(n, s, h, r), net' \in [Nodes -> Seq(Message)],
         faults' \in 0 .. MaxFaults, UNCHANGED <<inc, known, signal, applying>>
  PROVE  TypeOK'
<1> DEFINE new == [sid |-> s, h |-> h, r |-> r, inc |-> known[n]]
<1>1. new \in Session
  BY DEF Session, TypeOK
<1>2. /\ active' = [active EXCEPT ![n] = new]
      /\ attempt' = [attempt EXCEPT ![n] = NoAttempt]
      /\ conn' = [conn EXCEPT ![n] = NoConn]
      /\ reconnect' = [reconnect EXCEPT ![n] = NoReconnect]
  BY DEF Establish
<1> HIDE DEF new
<1> QED
  BY SMTT(60), <1>1, <1>2, NoReconnectType DEF TypeOK

(* handle_probe preserves the invariant. *)
LEMMA HandleProbeInv ==
  ASSUME IInv, NEW m \in InFlight, NEW n, n = Peer(m.from),
         NEW rest \in [Nodes -> Seq(Message)], Datagrams(rest) \subseteq InFlight,
         NEW fault, HandleProbe(n, m, rest, fault), faults' \in 0 .. MaxFaults
  PROVE  IInv'
<1>0. TypeOK
  BY DEF IInv
<1>1. TypeOK /\ m \in Message /\ m.sid \in Sids /\ m.from \in Nodes /\ n \in Nodes
  BY Zenon, <1>0, MessageIs
<1>2. CASE n < m.from /\ StartInitiator(n, AdoptProbe(n, m.sid), m.sid, rest, fault)
  <2>1. n = 1
    BY SMTT(60), <1>1, <1>2 DEF Nodes
  <2>2. AdoptProbe(1, m.sid) \in {attempt[1], NewAttempt(m.sid)}
    BY DEF AdoptProbe
  <2> QED
    BY <1>1, <1>2, <2>1, <2>2, StartInitiatorInv DEF HandleProbe
<1>3. CASE net' = Send(rest, n, ProbeResponse(n, m.sid)) /\ UNCHANGED attempt
  <2> DEFINE d == ProbeResponse(n, m.sid)
  <2>1. d \in Message /\ d.type = "response"
    BY <1>1 DEF ProbeResponse, Message
  <2> HIDE DEF d
  <2>2. net' \in [Nodes -> Seq(Message)] /\ Datagrams(net') \subseteq InFlight \cup {d}
    BY SMTT(60), <1>1, <1>3, <2>1, SendDatagrams DEF d
  <2>3. TypeOK'
    <3>1. UNCHANGED <<inc, known, active, attempt, conn, reconnect, signal, applying>>
      BY ZenonT(40), <1>3 DEF HandleProbe
    <3> QED
      BY Zenon, <1>1, <2>2, <3>1, NetworkOnly
  <2>4. Calm
    BY <1>3, <2>1, <2>2 DEF HandleProbe, Calm, InFlight
  <2> QED
    BY SMTT(60), <2>3, <2>4, CalmStep
<1>4. CASE net' = rest /\ UNCHANGED attempt
  <2>1. TypeOK'
    <3>1. UNCHANGED <<inc, known, active, attempt, conn, reconnect, signal, applying>>
      BY Zenon, <1>4 DEF HandleProbe
    <3>2. net' \in [Nodes -> Seq(Message)]
      BY Zenon, <1>4
    <3> QED
      BY Zenon, <1>1, <3>1, <3>2, NetworkOnly
  <2>2. Calm
    BY <1>4 DEF HandleProbe, Calm, InFlight
  <2> QED
    BY SMTT(60), <2>1, <2>2, CalmStep
<1> QED
  BY <1>2, <1>3, <1>4 DEF HandleProbe

(* handle_probe_response preserves the invariant. *)
LEMMA HandleProbeResponseInv ==
  ASSUME IInv, NEW m \in InFlight, NEW n, n = Peer(m.from),
         NEW rest \in [Nodes -> Seq(Message)], Datagrams(rest) \subseteq InFlight,
         NEW fault, HandleProbeResponse(n, m, rest, fault), faults' \in 0 .. MaxFaults
  PROVE  IInv'
<1>0. TypeOK
  BY DEF IInv
<1>1. TypeOK /\ m.sid \in Sids /\ m.from \in Nodes /\ n \in Nodes
  BY Zenon, <1>0, MessageIs
<1>2. n = 1
  BY <1>1 DEF HandleProbeResponse, Nodes
<1> QED
  BY <1>1, <1>2, StartInitiatorInv DEF HandleProbeResponse

-----------------------------------------------------------------------------
(* Establishing a session *)

(* The responder answers, clears its attempt and leaves the initiator's.    *)
LEMMA ResponderDone ==
  ASSUME AttemptShape, OneInitiator, active'[1] = active[1],
         attempt'[1] = attempt[1], attempt'[2] = NoAttempt,
         NEW d, d.type = "hs2", d.from = 2, InFlight' \subseteq InFlight \cup {d}
  PROVE  AttemptShape' /\ OneInitiator'
<1>1. attempt'[2].hs = 0
  BY DEF NoAttempt
<1>2. AttemptShape'
  BY <1>1 DEF AttemptShape, Nodes
<1>3. OneInitiator'
  BY SMTT(60), <1>1 DEF OneInitiator, Nodes
<1> QED
  BY SMTT(60), <1>2, <1>3

(* The responder's half of handle_handshake: a fresh r and the present record. *)
LEMMA HandleHandshake1Inv ==
  ASSUME IInv, NEW m \in InFlight, NEW n, n = Peer(m.from),
         NEW rest \in [Nodes -> Seq(Message)], Datagrams(rest) \subseteq InFlight,
         NEW fault, HandleHandshake1(n, m, rest, fault), faults' \in 0 .. MaxFaults
  PROVE  IInv'
<1>0. TypeOK
  BY DEF IInv
<1>1. TypeOK /\ m \in Message /\ m.from \in Nodes /\ n \in Nodes
  BY Zenon, <1>0, MessageIs
<1>2. m.type = "hs1" /\ m.sid \in Sids /\ m.h \in Keys
  BY <1>1 DEF HandleHandshake1, Message
<1>3. CASE net' = rest /\ UNCHANGED <<active, attempt, conn, reconnect>>
  <2>1. TypeOK'
    <3>1. UNCHANGED <<inc, known, active, attempt, conn, reconnect, signal, applying>>
      BY Zenon, <1>3 DEF HandleHandshake1
    <3>2. net' \in [Nodes -> Seq(Message)]
      BY Zenon, <1>3
    <3> QED
      BY Zenon, <1>1, <3>1, <3>2, NetworkOnly
  <2>2. Calm
    BY Zenon, <1>3 DEF HandleHandshake1, Calm, InFlight
  <2> QED
    BY SMTT(60), <2>1, <2>2, CalmStep
<1>4. ASSUME n > m.from, ValidContext(n, m), NEW r \in FreshKeys,
             net' = Send(rest, n, Handshake2(n, m.sid, m.h, r)),
             Establish(n, m.sid, m.h, r)
      PROVE  IInv'
  <2> USE DEF Nodes
  <2>1. n = 2 /\ r \in Keys /\ r # 0
    BY SMTT(60), <1>1, <1>4, Fresh, HandshakeAssumption
  <2> DEFINE d == Handshake2(2, m.sid, m.h, r)
  <2>2. /\ d \in Message /\ d.type = "hs2" /\ d.from = 2 /\ d.r = r /\ d.inc = inc[2]
    BY SMTT(60), <1>1, <1>2, <2>1 DEF Handshake2, Message, TypeOK
  <2> HIDE DEF d
  <2>3. net' \in [Nodes -> Seq(Message)] /\ InFlight' \subseteq InFlight \cup {d}
    BY SMTT(60), <1>4, <2>1, <2>2, SendDatagrams DEF d, InFlight
  <2> DEFINE new == [sid |-> m.sid, h |-> m.h, r |-> r, inc |-> known[2]]
  <2>4. /\ new \in Session /\ new.h = m.h /\ new.r = r /\ new.inc = known[2]
    BY SMTT(60), <1>1, <1>2, <2>1 DEF Session, TypeOK
  <2>5. /\ active' = [active EXCEPT ![2] = new]
        /\ attempt' = [attempt EXCEPT ![2] = NoAttempt]
        /\ conn' = [conn EXCEPT ![2] = NoConn]
        /\ reconnect' = [reconnect EXCEPT ![2] = NoReconnect]
        /\ UNCHANGED <<inc, known, signal, applying>>
    BY Zenon, <1>4, <2>1 DEF Establish, HandleHandshake1
  <2> HIDE DEF new
  <2>6. TypeOK'
    BY ZenonT(40), <1>1, <1>2, <1>4, <2>1, <2>3, <2>5, EstablishType
  <2>7. /\ active'[1] = active[1] /\ active'[2] = new
        /\ attempt'[1] = attempt[1] /\ attempt'[2] = NoAttempt
    BY <1>1, <2>5 DEF TypeOK
  <2>8. AttemptShape /\ OneInitiator
    BY SMTT(60) DEF IInv
  <2>9. AttemptShape' /\ OneInitiator'
    BY ZenonT(30), <2>2, <2>3, <2>7, <2>8, ResponderDone
  <2>10. InitiatorEpoch'
    <3>1. known[2] = m.inc
      BY SMTT(60), <1>4, <2>1 DEF ValidContext
    <3> QED
      BY SMTT(60), <1>2, <2>2, <2>3, <2>4, <2>5, <2>7, <3>1
      DEF IInv, InitiatorEpoch, HoldsEphemeral
  <2>11. ResponderEpoch'
    <3>1. /\ active'[2].r = r /\ active'[1].r # r /\ inc' = inc
          /\ \A e \in InFlight : e.r # r
      <4>1. active[1].r # r /\ \A e \in InFlight : e.r # r
        BY Fresh
      <4> QED
        BY Zenon, <2>4, <2>5, <2>7, <4>1
    <3>2. \A e \in InFlight' : e.type = "hs2" /\ e.r = r => e.inc = inc'[2]
      BY Zenon, <2>2, <2>3, <3>1
    <3> QED
      BY Zenon, <3>1, <3>2 DEF ResponderEpoch
  <2> QED
    BY SMTT(60), <2>6, <2>9, <2>10, <2>11 DEF IInv
<1> QED
  BY <1>3, <1>4 DEF HandleHandshake1

(* establish on the initiator clears its attempt and sends nothing. *)
LEMMA AttemptDone ==
  ASSUME AttemptShape, OneInitiator, attempt'[1] = NoAttempt, attempt'[2] = attempt[2],
         InFlight' \subseteq InFlight
  PROVE  AttemptShape' /\ OneInitiator'
<1>1. attempt'[1].hs = 0
  BY SMTT(60) DEF NoAttempt
<1>2. AttemptShape'
  BY ZenonT(40), <1>1 DEF AttemptShape, Nodes
<1>3. OneInitiator'
  BY <1>1 DEF OneInitiator, Nodes
<1> QED
  BY SMTT(60), <1>2, <1>3

(* An attempt with a session id is a proper one. *)
LEMMA AttemptWith ==
  ASSUME TypeOK, NEW n \in Nodes, NEW s \in Sids, attempt[n].sid = s
  PROVE  attempt[n] \in Attempt
BY HandshakeAssumption DEF TypeOK, NoAttempt

(* The initiator's half of handle_handshake: the response carries its own h. *)
LEMMA HandleHandshake2Inv ==
  ASSUME IInv, NEW m \in InFlight, NEW n, n = Peer(m.from),
         NEW rest \in [Nodes -> Seq(Message)], Datagrams(rest) \subseteq InFlight,
         HandleHandshake2(n, m, rest), faults' \in 0 .. MaxFaults
  PROVE  IInv'
<1> USE DEF Nodes
<1>0. TypeOK
  BY DEF IInv
<1>1. TypeOK /\ m \in Message /\ m.from \in Nodes /\ n \in Nodes
  BY ZenonT(40), <1>0, MessageIs
<1>2. m.type = "hs2" /\ m.sid \in Sids /\ m.h \in Keys /\ m.r \in Keys
  BY <1>1 DEF HandleHandshake2, Message
<1>3. /\ net' = rest /\ UNCHANGED <<inc, known, signal, applying>>
      /\ InFlight' \subseteq InFlight
  BY DEF HandleHandshake2, InFlight
<1>4. CASE UNCHANGED <<active, attempt, conn, reconnect>>
  <2>1. TypeOK'
    BY SMTT(60), <1>1, <1>3, <1>4 DEF TypeOK
  <2>2. Calm
    BY <1>3, <1>4 DEF Calm
  <2> QED
    BY SMTT(60), <2>1, <2>2, CalmStep
<1>5. CASE /\ n < m.from /\ attempt[n].sid = m.sid
           /\ attempt' = [attempt EXCEPT ![n].hs = 0]
           /\ UNCHANGED <<active, conn, reconnect>>
  <2>1. attempt[n] \in Attempt
    BY Zenon, <1>1, <1>2, <1>5, AttemptWith
  <2>2. [attempt[n] EXCEPT !.hs = 0] \in Attempt
    BY Zenon, <2>1 DEF Attempt
  <2>3. TypeOK'
    BY SMTT(60), <1>1, <1>3, <1>5, <2>2 DEF TypeOK
  <2>4. Calm
    BY SMTT(60), <1>1, <1>3, <1>5, <2>1 DEF Calm, TypeOK, Attempt
  <2> QED
    BY SMTT(60), <2>3, <2>4, CalmStep
<1>6. CASE /\ n < m.from /\ attempt[n].hs = m.h /\ ValidContext(n, m)
           /\ Establish(n, m.sid, m.h, m.r)
  <2>1. n = 1
    BY SMTT(60), <1>1, <1>6
  <2> DEFINE new == [sid |-> m.sid, h |-> m.h, r |-> m.r, inc |-> known[1]]
  <2>2. /\ new \in Session /\ new.h = m.h /\ new.r = m.r /\ new.inc = known[1]
    BY SMTT(60), <1>1, <1>2, <2>1 DEF Session, TypeOK
  <2>3. /\ active' = [active EXCEPT ![1] = new]
        /\ attempt' = [attempt EXCEPT ![1] = NoAttempt]
        /\ conn' = [conn EXCEPT ![1] = NoConn]
        /\ reconnect' = [reconnect EXCEPT ![1] = NoReconnect]
    BY Zenon, <1>6, <2>1 DEF Establish
  <2> HIDE DEF new
  <2>4. TypeOK'
    <3>1. net' \in [Nodes -> Seq(Message)]
      BY ZenonT(40), <1>3
    <3> QED
      BY Zenon, <1>1, <1>2, <1>3, <1>6, <3>1, EstablishType
  <2>5. /\ active'[1] = new /\ active'[2] = active[2]
        /\ attempt'[1] = NoAttempt /\ attempt'[2] = attempt[2]
    BY <1>1, <2>3 DEF TypeOK
  <2>0. AttemptShape /\ OneInitiator /\ InitiatorEpoch /\ ResponderEpoch
    BY SMTT(60) DEF IInv
  <2>6. AttemptShape' /\ OneInitiator'
    BY SMTT(60), <1>3, <2>0, <2>5, AttemptDone
  <2>9. InitiatorEpoch'
    <3>1. \A h \in Keys : HoldsEphemeral(h)' => HoldsEphemeral(h)
      <4>1. attempt'[1].hs = 0 /\ attempt'[1].payload = 0
        BY SMTT(60), <2>5 DEF NoAttempt
      <4>2. active'[1].h = attempt[1].hs
        BY SMTT(60), <1>6, <2>1, <2>2, <2>5
      <4> QED
        BY SMTT(60), <4>1, <4>2 DEF HoldsEphemeral
    <3>2. ASSUME NEW h \in Keys, HoldsEphemeral(h)'
          PROVE  /\ \A e \in InFlight' : e.type = "hs1" /\ e.h = h => e.inc = inc'[1]
                 /\ active'[2].h = h => active'[2].inc = inc'[1]
      <4>1. HoldsEphemeral(h) /\ inc' = inc
        BY Zenon, <1>3, <3>1, <3>2
      <4>2. /\ \A e \in InFlight : e.type = "hs1" /\ e.h = h => e.inc = inc[1]
            /\ active[2].h = h => active[2].inc = inc[1]
        BY Zenon, <2>0, <4>1 DEF InitiatorEpoch
      <4> QED
        BY Zenon, <1>3, <2>5, <4>1, <4>2
    <3> QED
      BY Zenon, <3>2 DEF InitiatorEpoch
  <2>10. ResponderEpoch'
    <3>1. known[1] = m.inc
      BY <1>6, <2>1 DEF ValidContext
    <3>2. ASSUME active'[2] # NoSession
          PROVE  /\ \A e \in InFlight' : e.type = "hs2" /\ e.r = active'[2].r => e.inc = inc'[2]
                 /\ active'[1].r = active'[2].r => active'[1].inc = inc'[2]
      <4>1. /\ \A e \in InFlight : e.type = "hs2" /\ e.r = active[2].r => e.inc = inc[2]
            /\ active'[2] = active[2] /\ inc' = inc
        BY Zenon, <1>3, <2>0, <2>5, <3>2 DEF ResponderEpoch
      <4>2. active'[1].r = m.r /\ active'[1].inc = m.inc
        BY Zenon, <2>2, <2>5, <3>1
      <4> QED
        BY Zenon, <1>2, <1>3, <4>1, <4>2
    <3> QED
      BY Zenon, <3>2 DEF ResponderEpoch
  <2> QED
    BY SMTT(60), <2>4, <2>6, <2>9, <2>10 DEF IInv
<1> QED
  BY SMTT(60), <1>4, <1>5, <1>6 DEF HandleHandshake2

(* Every delivery of the read loop preserves the invariant. *)
LEMMA DeliverInv ==
  ASSUME IInv, NEW k \in Nodes, NEW i \in 1 .. Len(net[k]), NEW fault, Deliver(k, i, fault)
  PROVE  IInv'
<1> DEFINE m    == net[k][i]
           n    == Peer(m.from)
           rest == IF fault = "duplicate" THEN net ELSE [net EXCEPT ![k] = Without(@, i)]
<1>1. faults' \in 0 .. MaxFaults
  BY SMTT(60), ChargeType DEF Deliver, IInv
<1>2. m \in InFlight
  BY DEF InFlight, Datagrams
<1>3. rest \in [Nodes -> Seq(Message)] /\ Datagrams(rest) \subseteq InFlight
  BY ZenonT(40), WithoutDatagrams DEF IInv, TypeOK, InFlight
<1>4. \/ HandleProbe(n, m, rest, fault)
      \/ HandleProbeResponse(n, m, rest, fault)
      \/ HandleHandshake1(n, m, rest, fault)
      \/ HandleHandshake2(n, m, rest)
  BY SMTT(60) DEF Deliver
<1> HIDE DEF m, rest
<1> QED
  BY ZenonT(40), <1>1, <1>2, <1>3, <1>4, HandleProbeInv, HandleProbeResponseInv,
     HandleHandshake1Inv, HandleHandshake2Inv

-----------------------------------------------------------------------------
(* The invariant holds initially. *)
LEMMA InitInv == Init => IInv
<1> SUFFICES ASSUME Init PROVE IInv
  OBVIOUS
<1>1. TypeOK
  BY HandshakeAssumption, NoReconnectType DEF Init, TypeOK
<1>2. InFlight = {}
  BY DEF Init, InFlight, Datagrams
<1> QED
  BY <1>1, <1>2, HandshakeAssumption
  DEF Init, IInv, AttemptShape, OneInitiator, InitiatorEpoch, ResponderEpoch,
      HoldsEphemeral, NoAttempt, NoSession, Nodes, Peer

(* Every step preserves the invariant. *)
LEMMA StepInv == IInv /\ [Next]_vars => IInv'
<1> SUFFICES ASSUME IInv, [Next]_vars PROVE IInv'
  OBVIOUS
<1>1. CASE Network
  BY SMTT(60), <1>1, LoseInv, DeliverInv DEF Network
<1>2. CASE \E n \in Nodes : Connecting(n)
  BY <1>2, SendIpInv, ReceiveSignalInv, ReProbeInv, ConnectTimeoutInv, ReconnectStopInv,
     ReconnectTryInv DEF Connecting
<1>3. CASE \E n \in Nodes : Maintenance(n)
  BY <1>3, DropSessionInv, RekeyInv, ApplyInvalidateInv, ApplyUpdateInv, DiscardSignalInv,
     RestartInv DEF Maintenance
<1>4. CASE UNCHANGED vars
  <2>1. TypeOK'
    BY SMTT(60), <1>4 DEF vars, IInv, TypeOK
  <2>2. Calm
    BY <1>4 DEF vars, Calm, InFlight
  <2> QED
    BY SMTT(60), <2>1, <2>2, CalmStep
<1> QED
  BY <1>1, <1>2, <1>3, <1>4 DEF Next

(* The strengthened invariant of the handshake is invariant. *)
THEOREM Invariance == Spec => []IInv
BY InitInv, StepInv, PTL DEF Spec

(* Types: sessions, attempts, retries, messages and faults stay in their    *)
(* sets, so the reconnect loop never exceeds its budget.                    *)
THEOREM TypeCorrect == Spec => []TypeOK
<1>1. IInv => TypeOK
  BY DEF IInv
<1> QED
  BY <1>1, Invariance, PTL

(* Only the lower node initiates, under any faults. *)
THEOREM SingleInitiator == Spec => []OneInitiator
<1>1. IInv => OneInitiator
  BY DEF IInv
<1> QED
  BY <1>1, Invariance, PTL

(* Two ends that share a session are the processes they take each other     *)
(* for: restarts, stale records and stale handshakes cannot mix.            *)
THEOREM SharedIsCurrent == Spec => []SharedSessionIsCurrent
<1>1. IInv => SharedSessionIsCurrent
  <2> SUFFICES ASSUME IInv, SameKey(active[1], active[2])
               PROVE  active[1].inc = inc[2] /\ active[2].inc = inc[1]
    BY SMTT(60) DEF SharedSessionIsCurrent, Nodes, Peer
  <2>1. active[1] \in Session /\ active[1].h \in Keys /\ active[1].h # 0
    BY SMTT(60), HandshakeAssumption DEF IInv, TypeOK, SameKey, Session, Nodes
  <2>2. active[2] # NoSession /\ active[1].r = active[2].r /\ active[1].h = active[2].h
    BY SMTT(60), <2>1 DEF SameKey, NoSession
  <2> QED
    BY SMTT(60), <2>1, <2>2 DEF IInv, InitiatorEpoch, ResponderEpoch, HoldsEphemeral
<1> QED
  BY <1>1, Invariance, PTL
(* A delivery never replaces the live session of the initiator: a response  *)
(* needs Noise state, which it has only while it has no session.            *)
LEMMA DeliverKeeps ==
  ASSUME IInv, NEW k \in Nodes, NEW i \in 1 .. Len(net[k]), NEW fault,
         Deliver(k, i, fault), active[1] # NoSession
  PROVE  active'[1] = active[1]
<1> DEFINE m    == net[k][i]
           n    == Peer(m.from)
           rest == IF fault = "duplicate" THEN net ELSE [net EXCEPT ![k] = Without(@, i)]
<1> USE DEF Nodes
<1>1. m \in InFlight
  BY DEF InFlight, Datagrams
<1>2. m.from \in Nodes /\ n \in Nodes
  BY ZenonT(40), <1>1, DatagramType, PeerNode DEF IInv, TypeOK, InFlight, Message
<1>3. \/ HandleProbe(n, m, rest, fault)
      \/ HandleProbeResponse(n, m, rest, fault)
      \/ HandleHandshake1(n, m, rest, fault)
      \/ HandleHandshake2(n, m, rest)
  BY SMTT(60) DEF Deliver
<1> HIDE DEF m, n, rest
<1>4. CASE HandleProbe(n, m, rest, fault) \/ HandleProbeResponse(n, m, rest, fault)
  BY SMTT(60), <1>4 DEF HandleProbe, HandleProbeResponse
<1>5. CASE HandleHandshake1(n, m, rest, fault)
  <2>1. CASE n > m.from
    <3>1. n = 2
      BY <1>2, <2>1
    <3> QED
      BY SMTT(60), <1>5, <3>1 DEF HandleHandshake1, Establish, IInv, TypeOK
  <2>2. CASE ~(n > m.from)
    BY <1>5, <2>2 DEF HandleHandshake1
  <2> QED
    BY SMTT(60), <2>1, <2>2
<1>6. CASE HandleHandshake2(n, m, rest)
  <2>1. attempt[1].hs = 0
    BY DEF IInv, AttemptShape
  <2>2. CASE n = 1
    BY <1>6, <2>1, <2>2 DEF HandleHandshake2
  <2>3. CASE n = 2
    BY <1>2, <1>6, <2>3 DEF HandleHandshake2
  <2> QED
    BY SMTT(60), <1>2, <2>2, <2>3
<1> QED
  BY SMTT(60), <1>3, <1>4, <1>5, <1>6

(* The initiator's session ends only by being dropped. *)
THEOREM SessionKept == Spec => InitiatorKeepsSession
<1> DEFINE Kept == active[1] # NoSession => active'[1] \in {active[1], NoSession}
<1>1. ASSUME IInv, [Next]_vars PROVE Kept
  <2> SUFFICES ASSUME active[1] # NoSession
               PROVE  active'[1] \in {active[1], NoSession}
    OBVIOUS
  <2>1. CASE Network
    BY SMTT(60), <1>1, <2>1, DeliverKeeps DEF Network, Lose
  <2>2. ASSUME NEW n \in Nodes, Connecting(n)
        PROVE  active'[1] \in {active[1], NoSession}
    BY SMTT(60), <1>1, <2>2 DEF IInv, TypeOK, Connecting, SendIp, ReceiveSignal, ReProbe, ConnectTimeout,
      ReconnectStop, ReconnectTry, Nodes
  <2>3. ASSUME NEW n \in Nodes, Maintenance(n)
        PROVE  active'[1] \in {active[1], NoSession}
    BY <1>1, <2>3 DEF IInv, TypeOK, Maintenance, DropSession, Rekey, ApplyInvalidate,
      ApplyUpdate, DiscardSignal, Restart, Nodes
  <2>4. CASE UNCHANGED vars
    BY <2>4 DEF vars
  <2> QED
    BY <1>1, <2>1, <2>2, <2>3, <2>4 DEF Next
<1> QED
  BY <1>1, Invariance, PTL DEF Spec, InitiatorKeepsSession
=============================================================================
