----------------------------- MODULE Handshake ------------------------------
(***************************************************************************)
(* Two Vela nodes setting up an encrypted session over a lossy datagram    *)
(* path (vela-core: connect, handle_probe, handle_probe_response,          *)
(* start_initiator, handle_handshake, establish, the keepalive loop and    *)
(* the reconnect loop).                                                    *)
(*                                                                         *)
(* Node identifiers are compared as in the code: the lower one initiates   *)
(* the Noise handshake, either one may probe. One read loop per node       *)
(* handles packets one at a time, so a handler is one action here; the     *)
(* interleaving of the read loop with the other tasks of one node is the   *)
(* subject of module PeerNode.                                             *)
(*                                                                         *)
(* Session identifiers and Noise ephemerals are random 64-bit or larger    *)
(* values. A fresh one is the least value that nothing in the system still *)
(* refers to, which keeps the state space finite without bounding the      *)
(* number of attempts.                                                     *)
(*                                                                         *)
(* Faults (a lost, duplicated or failed send, a timeout that fires while   *)
(* an answer is still on its way, a session dropped, rekeyed or restarted) *)
(* are counted and bounded by MaxFaults. Timers that are far longer than   *)
(* a round trip fire for free once the network is quiet.                   *)
(***************************************************************************)
EXTENDS Integers, Sequences, FiniteSets

CONSTANTS Sids,          \* session identifiers
          Keys,          \* Noise ephemerals
          MaxFaults,
          FaultKinds,    \* the kinds of fault that may happen
          MaxReconnect,  \* MAX_RECONNECT_ATTEMPTS
          MaxProbes,     \* probe rounds after the first until connect() times out
          Senders        \* the nodes whose applications send IP packets

Nodes == {1, 2}
Peer(n) == 3 - n
AllFaultKinds == {"loss", "duplicate", "reorder", "send", "early", "drop", "rekey", "restart",
                  "discard"}

ASSUME HandshakeAssumption ==
  /\ Sids \subseteq Nat \ {0}
  /\ Keys \subseteq Nat \ {0}
  /\ MaxFaults \in Nat
  /\ FaultKinds \subseteq AllFaultKinds
  /\ MaxReconnect \in Nat \ {0}
  /\ MaxProbes \in Nat
  /\ Senders \subseteq Nodes

VARIABLES
  inc,        \* incarnation of each node's running process
  known,      \* incarnation of the peer in each node's membership record
  active,     \* peer.active
  attempt,    \* peer.attempt
  conn,       \* the connect() call that holds peer.connect
  reconnect,  \* peer.reconnect
  signal,     \* a ConnectSignal waiting for the node: the incarnation it carries
  applying,   \* the incarnation in the snapshot that apply_snapshot is applying
  net,        \* datagrams in flight from each node, oldest first
  faults      \* faults so far

vars == <<inc, known, active, attempt, conn, reconnect, signal, applying, net, faults>>

NoSignal == -1
NoSession == [sid |-> 0, h |-> 0, r |-> 0, inc |-> 0]
NoAttempt == [sid |-> 0, hs |-> 0, payload |-> 0]
NoConn == [sid |-> 0, probes |-> 0]
NoReconnect == [requested |-> FALSE, running |-> FALSE, attempts |-> 0]

Session == [sid : Sids, h : Keys, r : Keys, inc : Nat]
Conn == [sid : Sids, probes : 0 .. MaxProbes]
Attempt == [sid : Sids, hs : Keys \cup {0}, payload : Keys \cup {0}]
Reconnect == [requested : BOOLEAN, running : BOOLEAN, attempts : 0 .. MaxReconnect]
Message ==
  [type : {"probe", "response"}, from : Nodes, sid : Sids, h : {0}, r : {0}, inc : {0}]
    \cup [type : {"hs1"}, from : Nodes, sid : Sids, h : Keys, r : {0}, inc : Nat]
    \cup [type : {"hs2"}, from : Nodes, sid : Sids, h : Keys, r : Keys, inc : Nat]

Probe(n, s)         == [type |-> "probe",    from |-> n, sid |-> s, h |-> 0, r |-> 0, inc |-> 0]
ProbeResponse(n, s) == [type |-> "response", from |-> n, sid |-> s, h |-> 0, r |-> 0, inc |-> 0]
Handshake1(n, s, h) == [type |-> "hs1", from |-> n, sid |-> s, h |-> h, r |-> 0, inc |-> inc[n]]
Handshake2(n, s, h, r) ==
  [type |-> "hs2", from |-> n, sid |-> s, h |-> h, r |-> r, inc |-> inc[n]]

TypeOK ==
  /\ inc \in [Nodes -> Nat]
  /\ known \in [Nodes -> Nat]
  /\ active \in [Nodes -> Session \cup {NoSession}]
  /\ attempt \in [Nodes -> Attempt \cup {NoAttempt}]
  /\ conn \in [Nodes -> Conn \cup {NoConn}]
  /\ reconnect \in [Nodes -> Reconnect]
  /\ signal \in [Nodes -> Nat \cup {NoSignal}]
  /\ applying \in [Nodes -> Nat \cup {NoSignal}]
  /\ net \in [Nodes -> Seq(Message)]
  /\ faults \in 0 .. MaxFaults

Init ==
  /\ inc = [n \in Nodes |-> 0]
  /\ known = [n \in Nodes |-> 0]
  /\ active = [n \in Nodes |-> NoSession]
  /\ attempt = [n \in Nodes |-> NoAttempt]
  /\ conn = [n \in Nodes |-> NoConn]
  /\ reconnect = [n \in Nodes |-> NoReconnect]
  /\ signal = [n \in Nodes |-> NoSignal]
  /\ applying = [n \in Nodes |-> NoSignal]
  /\ net = [n \in Nodes |-> <<>>]
  /\ faults = 0

-----------------------------------------------------------------------------
(* Randomness, faults and timers *)

Datagrams(q) == UNION {{q[k][i] : i \in 1 .. Len(q[k])} : k \in Nodes}
InFlight == Datagrams(net)

SidsInUse ==
  {active[n].sid : n \in Nodes} \cup {attempt[n].sid : n \in Nodes}
    \cup {conn[n].sid : n \in Nodes} \cup {m.sid : m \in InFlight}

KeysInUse ==
  {active[n].h : n \in Nodes} \cup {active[n].r : n \in Nodes}
    \cup {attempt[n].hs : n \in Nodes} \cup {attempt[n].payload : n \in Nodes}
    \cup {m.h : m \in InFlight} \cup {m.r : m \in InFlight}

Least(S) == {x \in S : \A y \in S : x <= y}

FreshSids == Least(Sids \ SidsInUse)
FreshKeys == Least(Keys \ KeysInUse)

Fault(kind) ==
  /\ kind \in FaultKinds
  /\ faults < MaxFaults
  /\ faults' = faults + 1

Quiet == \A n \in Nodes : net[n] = <<>>

(* A step that is itself a fault, or a timer that fires before it is due,   *)
(* counts as one. *)
Charge(kind) == IF kind = "none" THEN UNCHANGED faults ELSE Fault(kind)

-----------------------------------------------------------------------------
(* A send appends to the datagrams in flight; q is what is in flight before *)
Send(q, n, m) == [q EXCEPT ![n] = Append(@, m)]

(* connect(): store a new attempt and probe; peer.connect is held meanwhile *)

NewAttempt(s) == [sid |-> s, hs |-> 0, payload |-> 0]
Initiated(s, h) == [sid |-> s, hs |-> h, payload |-> h]

BeginConnect(n) ==
  \E s \in FreshSids :
    /\ attempt' = [attempt EXCEPT ![n] = NewAttempt(s)]
    /\ conn' = [conn EXCEPT ![n] = [sid |-> s, probes |-> MaxProbes]]
    /\ net' = Send(net, n, Probe(n, s))

(* The event asks the coordinator to look the peer up, which makes it send  *)
(* a ConnectSignal with this node's record to the peer.                     *)
RequestConnection(n) == signal' = [signal EXCEPT ![Peer(n)] = inc[n]]

(* send_ip without a session and without an attempt queues the packet and   *)
(* spawns connect. *)
SendIp(n) ==
  /\ n \in Senders
  /\ active[n] = NoSession
  /\ attempt[n] = NoAttempt
  /\ conn[n] = NoConn
  /\ BeginConnect(n)
  /\ RequestConnection(n)
  /\ UNCHANGED <<inc, applying, known, active, reconnect, faults>>

(* The runtime handles a ConnectSignal: register_peer with the record it    *)
(* carries, then connect. A changed record replaces the whole PeerState.    *)
ReceiveSignal(n) ==
  /\ signal[n] # NoSignal /\ applying[n] = NoSignal
  /\ signal' = [signal EXCEPT ![n] = NoSignal]
  /\ known' = [known EXCEPT ![n] = signal[n]]
  /\ \/ /\ signal[n] # known[n]
        /\ active' = [active EXCEPT ![n] = NoSession]
        /\ reconnect' = [reconnect EXCEPT ![n] = NoReconnect]
        /\ BeginConnect(n)
     \/ /\ signal[n] = known[n]
        /\ active[n] # NoSession
        /\ UNCHANGED <<active, attempt, conn, reconnect, net>>
     \/ /\ signal[n] = known[n]
        /\ active[n] = NoSession
        /\ conn[n] = NoConn
        /\ BeginConnect(n)
        /\ UNCHANGED <<active, reconnect>>
  /\ UNCHANGED <<inc, applying, faults>>

(* The probe retry of connect, one second after the last round, unless a    *)
(* remote probe replaced the attempt. *)
MayReProbe(n) == conn[n].probes > 0 /\ attempt[n].sid = conn[n].sid

ReProbe(n) ==
  /\ conn[n] # NoConn
  /\ MayReProbe(n)
  /\ Quiet
  /\ conn' = [conn EXCEPT ![n].probes = @ - 1]
  /\ net' = Send(net, n, Probe(n, conn[n].sid))
  /\ UNCHANGED <<inc, applying, known, active, attempt, reconnect, signal, faults>>

(* The deadline of connect(): it clears the attempt only if it is its own *)
ConnectTimeout(n) ==
  /\ conn[n] # NoConn
  /\ Charge(IF ~Quiet \/ MayReProbe(n) THEN "early" ELSE "none")
  /\ conn' = [conn EXCEPT ![n] = NoConn]
  /\ attempt' = IF attempt[n].sid = conn[n].sid
                  THEN [attempt EXCEPT ![n] = NoAttempt]
                  ELSE attempt
  /\ UNCHANGED <<inc, applying, known, active, reconnect, signal, net>>

-----------------------------------------------------------------------------
(* The reconnect loop *)

(* invalidate_session(true) asks for a reconnect with the full budget *)
Requested(rc) == [requested |-> TRUE, running |-> rc.running, attempts |-> 0]

(* schedule_reconnect with rc as the new value of peer.reconnect *)
Schedule(n, rc) ==
  IF rc.requested /\ ~rc.running /\ rc.attempts < MaxReconnect
    THEN /\ reconnect' = [reconnect EXCEPT ![n] = [rc EXCEPT !.running = TRUE]]
         /\ RequestConnection(n)
    ELSE /\ reconnect' = [reconnect EXCEPT ![n] = rc]
         /\ UNCHANGED signal

ReconnectStop(n) ==
  /\ reconnect[n].running
  /\ conn[n] = NoConn
  /\ ~reconnect[n].requested \/ reconnect[n].attempts >= MaxReconnect
  /\ reconnect' = [reconnect EXCEPT ![n].running = FALSE]
  /\ UNCHANGED <<inc, applying, known, active, attempt, conn, signal, net, faults>>

(* Mutant: the loop forgets to give up after MAX_RECONNECT_ATTEMPTS *)
ReconnectTryUnbounded(n) ==
  /\ reconnect[n].running
  /\ reconnect[n].requested
  /\ conn[n] = NoConn
  /\ reconnect' = [reconnect EXCEPT ![n].attempts = @ + 1]
  /\ BeginConnect(n)
  /\ UNCHANGED <<inc, applying, known, active, signal, faults>>

(* The loop runs only while no session is active: establish stops it *)
ReconnectTry(n) ==
  /\ reconnect[n].running
  /\ reconnect[n].requested
  /\ reconnect[n].attempts < MaxReconnect
  /\ conn[n] = NoConn
  /\ reconnect' = [reconnect EXCEPT ![n].attempts = @ + 1]
  /\ BeginConnect(n)
  /\ UNCHANGED <<inc, applying, known, active, signal, faults>>

-----------------------------------------------------------------------------
(* Packet handlers. `rest' is what is in flight without the packet, or with *)
(* it when the network keeps a copy; `fault' names the fault of this        *)
(* delivery, "send" when a send of the handler fails.                       *)

(* Mutant: a handshake starts although a session is active *)
StartInitiatorAlways(n, att, s, rest, fault) ==
  \E h \in IF att.hs = 0 THEN FreshKeys ELSE {att.payload} :
    IF att.sid = s /\ fault # "send"
      THEN /\ attempt' = [attempt EXCEPT ![n] = Initiated(s, h)]
           /\ net' = Send(rest, n, Handshake1(n, s, h))
      ELSE /\ attempt' = [attempt EXCEPT ![n] = att]
           /\ net' = rest

(* start_initiator for session s with att as the attempt: resend the stored *)
(* payload, or create a Noise handshake; a failed send leaves the attempt.  *)
(* That a resend within 250 ms is skipped is a loss of the resent packet.   *)
StartInitiator(n, att, s, rest, fault) ==
  LET ready == active[n] = NoSession /\ att.sid = s
  IN  \/ /\ ~ready \/ fault = "send"
         /\ attempt' = [attempt EXCEPT ![n] = att]
         /\ net' = rest
      \/ /\ ready /\ fault # "send"
         /\ att.hs # 0
         /\ attempt' = [attempt EXCEPT ![n] = att]
         /\ net' = Send(rest, n, Handshake1(n, s, att.payload))
      \/ /\ ready /\ fault # "send"
         /\ att.hs = 0
         /\ \E h \in FreshKeys :
              /\ attempt' = [attempt EXCEPT ![n] = Initiated(s, h)]
              /\ net' = Send(rest, n, Handshake1(n, s, h))

(* A remote probe replaces an attempt that has no handshake yet *)
AdoptProbe(n, s) ==
  IF attempt[n].hs = 0 /\ attempt[n].sid # s THEN NewAttempt(s) ELSE attempt[n]

(* Mutant: whoever receives a probe initiates *)
HandleProbeAnyInitiator(n, m, rest, fault) ==
  /\ m.type = "probe"
  /\ StartInitiator(n, AdoptProbe(n, m.sid), m.sid, rest, fault)
  /\ UNCHANGED <<inc, applying, known, active, conn, reconnect, signal>>

(* Every probe is answered first. The answer of the lower node is left out, *)
(* since all that the higher one does with it is to note the candidate as   *)
(* reachable. *)
HandleProbe(n, m, rest, fault) ==
  /\ m.type = "probe"
  /\ \/ /\ n < m.from
        /\ StartInitiator(n, AdoptProbe(n, m.sid), m.sid, rest, fault)
     \/ /\ n > m.from
        /\ fault # "send"
        /\ net' = Send(rest, n, ProbeResponse(n, m.sid))
        /\ UNCHANGED attempt
     \/ /\ fault = "send"
        /\ net' = rest
        /\ UNCHANGED attempt
  /\ UNCHANGED <<inc, applying, known, active, conn, reconnect, signal>>

HandleProbeResponse(n, m, rest, fault) ==
  /\ m.type = "response"
  /\ n < m.from
  /\ StartInitiator(n, attempt[n], m.sid, rest, fault)
  /\ UNCHANGED <<inc, applying, known, active, conn, reconnect, signal>>

(* invalidate_session(false) if a session is active, then establish with    *)
(* the peer record in use, which wakes a waiting connect(): it finds the    *)
(* session and returns. *)
Establish(n, s, h, r) ==
  /\ active' = [active EXCEPT ![n] = [sid |-> s, h |-> h, r |-> r, inc |-> known[n]]]
  /\ attempt' = [attempt EXCEPT ![n] = NoAttempt]
  /\ conn' = [conn EXCEPT ![n] = NoConn]
  /\ reconnect' = [reconnect EXCEPT ![n] = NoReconnect]

(* Mutant: the incarnation in the Noise payload is not compared *)
AnyContext(n, m) == TRUE

(* validate_handshake_context, for the part of it that can differ between   *)
(* honest peers: the incarnation in the Noise payload                       *)
ValidContext(n, m) == m.inc = known[n]

(* Role 1: the responder answers, then switches to the new session *)
HandleHandshake1(n, m, rest, fault) ==
  /\ m.type = "hs1"
  /\ \/ /\ active[n].sid # m.sid
        /\ n > m.from
        /\ ValidContext(n, m)
        /\ fault # "send"
        /\ \E r \in FreshKeys :
             /\ net' = Send(rest, n, Handshake2(n, m.sid, m.h, r))
             /\ Establish(n, m.sid, m.h, r)
     \/ /\ \/ active[n].sid = m.sid
           \/ n < m.from
           \/ ~ValidContext(n, m)
           \/ fault = "send"
        /\ net' = rest
        /\ UNCHANGED <<active, attempt, conn, reconnect>>
  /\ UNCHANGED <<inc, applying, known, signal>>

(* Role 2: the initiator state is taken out of the attempt before the       *)
(* response is checked. *)
HandleHandshake2(n, m, rest) ==
  /\ m.type = "hs2"
  /\ \/ /\ active[n].sid # m.sid
        /\ n < m.from
        /\ attempt[n].sid = m.sid
        /\ attempt[n].hs # 0
        /\ IF attempt[n].hs = m.h /\ ValidContext(n, m)
             THEN Establish(n, m.sid, m.h, m.r)
             ELSE /\ attempt' = [attempt EXCEPT ![n].hs = 0]
                  /\ UNCHANGED <<active, conn, reconnect>>
     \/ /\ \/ active[n].sid = m.sid
           \/ n > m.from
           \/ attempt[n].sid # m.sid
           \/ attempt[n].hs = 0
        /\ UNCHANGED <<active, attempt, conn, reconnect>>
  /\ net' = rest
  /\ UNCHANGED <<inc, applying, known, signal>>

Without(q, i) == [j \in 1 .. Len(q) - 1 |-> IF j < i THEN q[j] ELSE q[j + 1]]

(* The network hands over the i-th oldest datagram of node k *)
Deliver(k, i, fault) ==
  LET m    == net[k][i]
      n    == Peer(m.from)
      rest == IF fault = "duplicate" THEN net ELSE [net EXCEPT ![k] = Without(@, i)]
  IN  /\ (i > 1) <=> (fault = "reorder")
      /\ Charge(fault)
      /\ \/ HandleProbe(n, m, rest, fault)
         \/ HandleProbeResponse(n, m, rest, fault)
         \/ HandleHandshake1(n, m, rest, fault)
         \/ HandleHandshake2(n, m, rest) /\ fault # "send"

Lose(k, i) ==
  /\ Fault("loss")
  /\ net' = [net EXCEPT ![k] = Without(@, i)]
  /\ UNCHANGED <<inc, applying, known, active, attempt, conn, reconnect, signal>>

-----------------------------------------------------------------------------
(* The keepalive loop, failed sends, membership changes and restarts *)

SameKey(a, b) == a # NoSession /\ a.sid = b.sid /\ a.h = b.h /\ a.r = b.r

(* Mutant: the keepalive loop never finds a session dead *)
DropSessionOnSendErrorOnly(n) ==
  /\ active[n] # NoSession
  /\ Fault("drop")
  /\ active' = [active EXCEPT ![n] = NoSession]
  /\ attempt' = [attempt EXCEPT ![n] = NoAttempt]
  /\ Schedule(n, Requested(reconnect[n]))
  /\ UNCHANGED <<inc, applying, known, conn, net>>

(* invalidate_session(true) then schedule_reconnect: nothing was received   *)
(* for three keepalive intervals, or a data send failed. Keepalives and     *)
(* their acks arrive only while the peer holds the same session.            *)
DropSession(n) ==
  /\ active[n] # NoSession
  /\ Charge(IF ~Quiet \/ SameKey(active[n], active[Peer(n)]) THEN "drop" ELSE "none")
  /\ active' = [active EXCEPT ![n] = NoSession]
  /\ attempt' = [attempt EXCEPT ![n] = NoAttempt]
  /\ Schedule(n, Requested(reconnect[n]))
  /\ UNCHANGED <<inc, applying, known, conn, net>>

(* The keepalive loop drops a session that is an hour old or carried 1 GiB; *)
(* the lower node starts a handshake on the old path, without connect().    *)
Rekey(n) ==
  /\ active[n] # NoSession
  /\ active' = [active EXCEPT ![n] = NoSession]
  /\ \/ /\ n < Peer(n)
        /\ \E s \in FreshSids, h \in FreshKeys :
             /\ attempt' = [attempt EXCEPT ![n] = Initiated(s, h)]
             /\ net' = Send(net, n, Handshake1(n, s, h))
     \/ /\ n < Peer(n)   \* the send failed
        /\ \E s \in FreshSids : attempt' = [attempt EXCEPT ![n] = NewAttempt(s)]
        /\ UNCHANGED net
     \/ /\ n > Peer(n)
        /\ attempt' = [attempt EXCEPT ![n] = NoAttempt]
        /\ UNCHANGED net
  /\ Fault("rekey")
  /\ UNCHANGED <<inc, applying, known, conn, reconnect, signal>>

(* apply_snapshot with a new incarnation of the peer: invalidate_session,   *)
(* and after it update_info and schedule_reconnect. Packets and timers come *)
(* in between. The control channel is ordered, so a ConnectSignal sent      *)
(* earlier is handled first. Clearing the attempt wakes a connect() that    *)
(* owned it: Err(Superseded).                                               *)
ApplyInvalidate(n) ==
  /\ known[n] # inc[Peer(n)]
  /\ signal[n] = NoSignal /\ applying[n] = NoSignal
  /\ applying' = [applying EXCEPT ![n] = inc[Peer(n)]]
  /\ reconnect' = IF active[n] # NoSession \/ attempt[n] # NoAttempt
                    THEN [reconnect EXCEPT ![n] = Requested(@)]
                    ELSE reconnect
  /\ active' = [active EXCEPT ![n] = NoSession]
  /\ attempt' = [attempt EXCEPT ![n] = NoAttempt]
  /\ conn' = IF attempt[n].sid = conn[n].sid THEN [conn EXCEPT ![n] = NoConn] ELSE conn
  /\ UNCHANGED <<inc, known, signal, net, faults>>

ApplyUpdate(n) ==
  /\ applying[n] # NoSignal
  /\ known' = [known EXCEPT ![n] = applying[n]]
  /\ applying' = [applying EXCEPT ![n] = NoSignal]
  /\ Schedule(n, IF reconnect[n].requested THEN [reconnect[n] EXCEPT !.attempts = 0]
                                           ELSE reconnect[n])
  /\ UNCHANGED <<inc, active, attempt, conn, net, faults>>

(* list_peers and lookup_peer drop the ConnectSignals that arrive while     *)
(* they wait for their answer *)
DiscardSignal(n) ==
  /\ signal[n] # NoSignal
  /\ Fault("discard")
  /\ signal' = [signal EXCEPT ![n] = NoSignal]
  /\ UNCHANGED <<inc, known, active, attempt, conn, reconnect, applying, net>>

(* The process restarts under the next incarnation with a fresh snapshot *)
Restart(n) ==
  /\ Fault("restart")
  /\ inc' = [inc EXCEPT ![n] = @ + 1]
  /\ known' = [known EXCEPT ![n] = inc[Peer(n)]]
  /\ active' = [active EXCEPT ![n] = NoSession]
  /\ attempt' = [attempt EXCEPT ![n] = NoAttempt]
  /\ conn' = [conn EXCEPT ![n] = NoConn]
  /\ reconnect' = [reconnect EXCEPT ![n] = NoReconnect]
  /\ signal' = [signal EXCEPT ![n] = NoSignal]
  /\ applying' = [applying EXCEPT ![n] = NoSignal]
  /\ UNCHANGED net

Connecting(n) ==
  \/ SendIp(n)
  \/ ReceiveSignal(n)
  \/ ReProbe(n)
  \/ ConnectTimeout(n)
  \/ ReconnectStop(n)
  \/ ReconnectTry(n)

Maintenance(n) ==
  \/ DropSession(n)
  \/ Rekey(n)
  \/ ApplyInvalidate(n)
  \/ ApplyUpdate(n)
  \/ DiscardSignal(n)
  \/ Restart(n)

Network ==
  \E k \in Nodes : \E i \in 1 .. Len(net[k]) :
    \/ Lose(k, i)
    \/ \E fault \in {"none", "duplicate", "reorder", "send"} : Deliver(k, i, fault)

Next == Network \/ \E n \in Nodes : Connecting(n) \/ Maintenance(n)

(* Packets arrive, an apply goes on, an attempt makes its next step: another *)
(* packet, another probe, or its deadline, which is absolute (peer.connect  *)
(* is a fair mutex).  The runtime's loop comes back to its signals after    *)
(* every apply and every request; what a request drops is DiscardSignal, a  *)
(* fault, and no fairness undoes a fault.  Hence strong fairness of what    *)
(* waits for the mutex or the loop.                                         *)
Fairness ==
  /\ \A n \in Nodes :
       /\ WF_vars(net[n] # <<>> /\ Deliver(n, 1, "none"))
       /\ SF_vars(ReceiveSignal(n))
       /\ SF_vars(SendIp(n) \/ ReProbe(n) \/ ConnectTimeout(n) \/ ReconnectTry(n) \/ ReconnectStop(n))
       /\ SF_vars(DropSession(n))
       /\ WF_vars(ApplyInvalidate(n) \/ ApplyUpdate(n))

Spec == Init /\ [][Next]_vars
FairSpec == Spec /\ Fairness

-----------------------------------------------------------------------------
(* Only the lower node ever holds Noise initiator state or sends a first    *)
(* handshake message, whoever probed first: simultaneous opens cannot leave *)
(* two initiators answering each other.                                     *)
OneInitiator ==
  /\ \A n \in Nodes : attempt[n].hs # 0 => n < Peer(n)
  /\ \A m \in InFlight : /\ m.type = "hs1" => m.from = 1
                         /\ m.type = "hs2" => m.from = 2

(* When both ends hold the same session, each is bound to the process that  *)
(* the other really is, not to one that ran before a restart: stale         *)
(* handshakes and stale records cannot complete a session between them.     *)
SharedSessionIsCurrent ==
  SameKey(active[1], active[2]) =>
    \A n \in Nodes : active[n].inc = inc[Peer(n)]

(* The initiator never swaps a live session for another one: late probes,   *)
(* answers and handshake responses leave it alone until it is dropped. (The *)
(* responder does swap, on any new first handshake message.)                *)
InitiatorKeepsSession ==
  [][active[1] # NoSession => active'[1] \in {active[1], NoSession}]_vars

(* Once faults stop, two nodes that want to talk end up sharing one session *)
(* and keep it, whatever lost, duplicated, reordered, early or half-open    *)
(* state the faults left behind.                                            *)
Converges == <>[]SameKey(active[1], active[2])

(* An attempt does not outlive the connection timeout it was given: when    *)
(* nothing is in flight and no connect(), session, signal or reconnect loop *)
(* is left that could finish or clear it, no attempt remains.               *)
Idle ==
  /\ Quiet
  /\ \A n \in Nodes : /\ conn[n] = NoConn
                      /\ active[n] = NoSession
                      /\ signal[n] = NoSignal
                      /\ ~reconnect[n].running

AttemptsEnd == Idle => \A n \in Nodes : attempt[n] = NoAttempt
=============================================================================
