------------------------------- MODULE Stack --------------------------------
(***************************************************************************)
(* The userspace IP stack (vela-stack): one task owns the smoltcp sockets, *)
(* applications send it commands and wait for the answer. An iteration of  *)
(* the task handles one command, one event of the node, or polls smoltcp;  *)
(* then complete_pending answers the calls that wait for a socket.         *)
(*                                                                         *)
(* smoltcp is external: a poll hands it the queued packets, each of which  *)
(* moves one socket the way TCP does, or moves none, and its timers; no    *)
(* other timer changes the state of a socket. A socket's receive buffer is *)
(* the number of segments in it; its send buffer has room or not, and a    *)
(* send may leave some. A poll comes when packets wait and when the delay  *)
(* smoltcp asks for is over. Nothing is ever removed from the tables of    *)
(* the stack, so a call on a socket the stack gave out always finds it,    *)
(* and an id (a counter of 64 bits) or a handle is the number of those     *)
(* before it, plus one.                                                    *)
(***************************************************************************)
EXTENDS Integers, Sequences, FiniteSetsExt, TLC

CONSTANTS Callers,      \* concurrent application tasks
          Gone,         \* the receiving end of a call that was dropped
          None,         \* no pending call
          PortStart,    \* EPHEMERAL_PORT_START
          PortEnd,      \* EPHEMERAL_PORT_END
          ListenPorts,  \* ports an application listens on
          RxLimit,      \* DEVICE_QUEUE_LIMIT
          MaxSegments,  \* segments a receive buffer holds
          MaxCalls,     \* calls in a behaviour
          MaxPackets    \* packets from the network in a behaviour

ASSUME StackAssumption ==
  /\ {Gone, None} \cap Callers = {} /\ Gone # None
  /\ PortStart \in Nat \ {0} /\ PortEnd \in Nat /\ PortStart <= PortEnd
  /\ ListenPorts \subseteq Nat
  /\ RxLimit \in Nat \ {0} /\ MaxSegments \in Nat \ {0}
  /\ MaxCalls \in Nat /\ MaxPackets \in Nat

VARIABLES app,        \* the call each application task waits for
          cmds,       \* the command channel
          tcp,        \* TcpState of each stream id
          lst,        \* ListenerState of each listener id
          dgm,        \* UdpState, RawState and IcmpState of each id
          sock,       \* the smoltcp sockets
          held,       \* streams the application has a handle of
          next_port,
          rx,         \* packets in the device's receive queue
          up,         \* the task runs
          calls, packets, \* so far
          skipped     \* history: sockets a poll took past Established

vars == <<app, cmds, tcp, lst, dgm, sock, held, next_port, rx, up, calls, packets, skipped>>

-----------------------------------------------------------------------------
(* smoltcp (external) *)

Socket(st, port) ==
  [st |-> st, port |-> port, dialled |-> st = "synsent", rx |-> 0, room |-> TRUE]

can_send(k) == k.st \in {"established", "closewait"} /\ k.room
may_recv(k) == k.st \in {"established", "finwait"} \/ k.rx > 0
can_recv(k) == k.rx > 0

close(k) ==
  [k EXCEPT !.st = CASE @ \in {"listen", "synsent"} -> "closed"
                     [] @ \in {"synrcvd", "established"} -> "finwait"
                     [] @ = "closewait" -> "lastack"
                     [] OTHER -> @]

To(k, S) == {[k EXCEPT !.st = st] : st \in S}
Data(ks) == ks \cup {[k EXCEPT !.rx = @ + 1] : k \in {j \in ks : j.rx < MaxSegments}}
Acked(k) == {[k EXCEPT !.room = TRUE]}

(* What a packet can make of a socket. Data may come with the ACK that ends *)
(* the handshake and with a FIN; there is no simultaneous open.             *)
After(k) ==
  CASE k.st = "listen"      -> To(k, {"synrcvd"})
    [] k.st = "synrcvd"     -> To(k, {"listen"}) \cup Data(To(k, {"established", "closewait"}))
    [] k.st = "synsent"     -> To(k, {"established", "closed"})
    [] k.st = "established" -> To(k, {"closed"}) \cup Data(To(k, {"established", "closewait"})) \cup Acked(k)
    [] k.st = "finwait"     -> To(k, {"closed"}) \cup Data(To(k, {"finwait", "timewait"})) \cup Acked(k)
    [] k.st = "closewait"   -> To(k, {"closed"}) \cup Acked(k)
    [] k.st \in {"lastack", "timewait"} -> To(k, {"closed"})
    [] k.st = "datagram"    -> Data({k})
    [] OTHER                -> {}

Packet(sk) == {sk} \cup UNION {{[sk EXCEPT ![h] = k] : k \in After(sk[h])} : h \in DOMAIN sk}

(* The timer of TIME-WAIT                                                   *)
Timers(sk) ==
  {[h \in DOMAIN sk |-> IF h \in over THEN [sk[h] EXCEPT !.st = "closed"] ELSE sk[h]] :
     over \in SUBSET {h \in DOMAIN sk : sk[h].st = "timewait"}}

Polled == LET P[n \in 0 .. RxLimit] ==
                IF n = 0 THEN {sock} ELSE UNION {Packet(sk) : sk \in P[n - 1]}
          IN UNION {Timers(sk) : sk \in P[rx]}

-----------------------------------------------------------------------------
(* The state an iteration works on: a record s of these variables           *)
Now == [app |-> app, tcp |-> tcp, lst |-> lst, dgm |-> dgm, sock |-> sock, held |-> held]

Idle == [op |-> "none", id |-> 0, port |-> 0]
Reply(s, c) == IF c \in {None, Gone} THEN s ELSE [s EXCEPT !.app[c] = Idle]
Give(s, c, i) == IF c \in {None, Gone} THEN s ELSE [Reply(s, c) EXCEPT !.held = @ \cup {i}]

NewId(s) == Cardinality(DOMAIN s.tcp \cup DOMAIN s.lst \cup DOMAIN s.dgm) + 1
NewHandle(s) == Len(s.sock) + 1
NewTcp(h, c) == [h |-> h, connect |-> c, send |-> None, recv |-> None]

CompleteConnect(s, i) ==
  LET t == s.tcp[i] IN
    IF t.connect = None \/ s.sock[t.h].st # "established" THEN s
    ELSE [Give(s, t.connect, i) EXCEPT !.tcp[i].connect = None]

(* Sockets that a pending send goes to; it fills the buffers of some        *)
Sending(s) == {s.tcp[i].h : i \in {j \in DOMAIN s.tcp : s.tcp[j].send # None}}

CompleteSend(s, i, full) ==
  LET t == s.tcp[i] IN
    IF t.send = None \/ ~can_send(s.sock[t.h]) THEN s
    ELSE [Reply(s, t.send) EXCEPT !.tcp[i].send = None, !.sock[t.h].room = t.h \notin full]

(* The end of the stream is an answer too                                   *)
CompleteRecvData(s, i) ==
  LET t == s.tcp[i] IN
    IF t.recv = None \/ ~can_recv(s.sock[t.h]) THEN s
    ELSE [Reply(s, t.recv) EXCEPT !.tcp[i].recv = None, !.sock[t.h].rx = @ - 1]

CompleteRecv(s, i) ==
  LET t == s.tcp[i] IN
    IF t.recv # None /\ ~may_recv(s.sock[t.h])
    THEN [Reply(s, t.recv) EXCEPT !.tcp[i].recv = None]
    ELSE CompleteRecvData(s, i)

(* Mutant: only a pending accept() takes the connection                     *)
CompleteAcceptOnDemand(s, l) ==
  LET e == s.lst[l]
      i == NewId(s)
  IN IF s.sock[e.h].st # "established" \/ e.accept = None THEN s
     ELSE [Give(s, e.accept, i) EXCEPT
            !.sock = Append(@, Socket("listen", e.port)),
            !.tcp = @ @@ (i :> NewTcp(e.h, None)),
            !.lst[l].h = NewHandle(s), !.lst[l].accept = None]

(* An established listener socket becomes a stream of its own; a new socket *)
(* listens in its place                                                     *)
CompleteAccept(s, l) ==
  LET e == s.lst[l]
      i == NewId(s)
      new == [s EXCEPT !.sock = Append(@, Socket("listen", e.port)),
                       !.tcp = @ @@ (i :> NewTcp(e.h, None)),
                       !.lst[l].h = NewHandle(s)]
  IN IF s.sock[e.h].st # "established" THEN s
     ELSE IF e.accept = None THEN [new EXCEPT !.lst[l].accepted = Append(@, i)]
     ELSE [Give(new, e.accept, i) EXCEPT !.lst[l].accept = None]

CompleteDatagram(s, d) ==
  LET e == s.dgm[d] IN
    IF e.recv = None \/ ~can_recv(s.sock[e.h]) THEN s
    ELSE [Reply(s, e.recv) EXCEPT !.dgm[d].recv = None, !.sock[e.h].rx = @ - 1]

complete_pending(s, full) ==
  LET Stream(i, x) == CompleteRecv(CompleteSend(CompleteConnect(x, i), i, full), i)
      Accept(l, x) == CompleteAccept(x, l)
      Datagram(d, x) == CompleteDatagram(x, d)
      streams == FoldSet(Stream, s, DOMAIN s.tcp)
      accepts == FoldSet(Accept, streams, DOMAIN s.lst)
  IN FoldSet(Datagram, accepts, DOMAIN s.dgm)

(* The rest of an iteration, from the state s its first half leaves         *)
Complete(s) ==
  \E full \in SUBSET Sending(s) :
    LET e == complete_pending(s, full) IN
      /\ app' = e.app /\ tcp' = e.tcp /\ lst' = e.lst /\ dgm' = e.dgm
      /\ sock' = e.sock /\ held' = e.held
      /\ UNCHANGED <<up, calls>>
Iterate(s) == Complete(s) /\ UNCHANGED skipped

(* The task ends and its tables with it: what waits is told the stack is    *)
(* closed, and the handles that are left are of no use                      *)
Ends ==
  /\ up' = FALSE
  /\ app' = [c \in Callers |-> Idle] /\ cmds' = <<>> /\ rx' = 0
  /\ tcp' = <<>> /\ lst' = <<>> /\ dgm' = <<>> /\ sock' = <<>> /\ held' = {}
  /\ skipped' = {}
  /\ UNCHANGED <<next_port, calls>>

-----------------------------------------------------------------------------
(* The handles an application has, and what it can ask through them         *)

StackCalls ==
  {[Idle EXCEPT !.op = op] : op \in {"inject", "shutdown", "dial", "bind"}}
    \cup {[op |-> "listen", id |-> 0, port |-> q] : q \in ListenPorts}
On(ids, ops) == {[op |-> op, id |-> i, port |-> 0] : op \in ops, i \in ids}
StreamCalls == On(held, {"send", "recv", "close"})
ListenerCalls == On(DOMAIN lst, {"accept"})
DatagramCalls == On(DOMAIN dgm, {"sendto", "recvfrom"})

Call(c) ==
  /\ up /\ app[c] = Idle /\ calls < MaxCalls
  /\ \E m \in StackCalls \cup StreamCalls \cup ListenerCalls \cup DatagramCalls :
       /\ app' = [app EXCEPT ![c] = m]
       /\ cmds' = Append(cmds, [c |-> c, m |-> m])
  /\ calls' = calls + 1
  /\ UNCHANGED <<tcp, lst, dgm, sock, held, next_port, rx, up, packets, skipped>>

(* An application drops the future it awaits: its command stays where it is *)
Drop(c, d) == IF d = c THEN Gone ELSE d

Cancel(c) ==
  /\ up /\ app[c] # Idle
  /\ app' = [app EXCEPT ![c] = Idle]
  /\ cmds' = [k \in DOMAIN cmds |-> [cmds[k] EXCEPT !.c = Drop(c, @)]]
  /\ tcp' = [i \in DOMAIN tcp |-> [tcp[i] EXCEPT !.connect = Drop(c, @), !.send = Drop(c, @),
                                                !.recv = Drop(c, @)]]
  /\ lst' = [l \in DOMAIN lst |-> [lst[l] EXCEPT !.accept = Drop(c, @)]]
  /\ dgm' = [d \in DOMAIN dgm |-> [dgm[d] EXCEPT !.recv = Drop(c, @)]]
  /\ UNCHANGED <<sock, held, next_port, rx, up, calls, packets, skipped>>

-----------------------------------------------------------------------------
(* handle_command *)

Command(op) == up /\ cmds # <<>> /\ Head(cmds).m.op = op /\ cmds' = Tail(cmds)
From == Head(cmds).c
Target == Head(cmds).m.id

push_rx_one_more == IF rx <= RxLimit THEN rx + 1 ELSE rx
push_rx == IF rx < RxLimit THEN rx + 1 ELSE rx

HandleShutdown == Command("shutdown") /\ Ends /\ UNCHANGED packets

HandleInject ==
  /\ Command("inject")
  /\ rx' = push_rx
  /\ Iterate(Reply(Now, From))
  /\ UNCHANGED <<next_port, packets>>

PortUsedByListener(q) == \E l \in DOMAIN lst : lst[l].port = q
PortUsed(q) ==
  \/ \E l \in DOMAIN lst : lst[l].port = q
  \/ \E i \in DOMAIN tcp : sock[tcp[i].h].st # "closed" /\ sock[tcp[i].h].port = q

(* The candidates in the order they are tried                               *)
PortCount == PortEnd - PortStart + 1
Nth(n) == PortStart + ((next_port - PortStart + n) % PortCount)
Tries == {n \in 0 .. (PortCount - 1) : ~PortUsed(Nth(n))}

(* DialTcp: no free port, an endpoint smoltcp refuses, or a socket that     *)
(* starts to connect                                                        *)
HandleDial ==
  /\ Command("dial")
  /\ IF Tries = {}
     THEN Iterate(Reply(Now, From)) /\ UNCHANGED next_port
     ELSE /\ next_port' = Nth(Min(Tries) + 1)
          /\ \/ Iterate(Reply(Now, From))
             \/ Iterate([Now EXCEPT
                  !.sock = Append(@, Socket("synsent", Nth(Min(Tries)))),
                  !.tcp = @ @@ (NewId(Now) :> NewTcp(NewHandle(Now), From))])
  /\ UNCHANGED <<rx, packets>>

(* ListenTcp: smoltcp refuses port 0                                        *)
HandleListen ==
  /\ Command("listen")
  /\ LET q == Head(cmds).m.port
     IN \/ q = 0 /\ Iterate(Reply(Now, From))
        \/ /\ q # 0
           /\ Iterate([Reply(Now, From) EXCEPT
                !.sock = Append(@, Socket("listen", q)),
                !.lst = @ @@ (NewId(Now) :> [h |-> NewHandle(Now), port |-> q,
                                             accept |-> None, accepted |-> <<>>])])
  /\ UNCHANGED <<next_port, rx, packets>>

(* BindUdp, BindRaw and BindIcmp: smoltcp may refuse the endpoint           *)
HandleBind ==
  /\ Command("bind")
  /\ \/ Iterate(Reply(Now, From))
     \/ Iterate([Reply(Now, From) EXCEPT
          !.sock = Append(@, Socket("datagram", 0)),
          !.dgm = @ @@ (NewId(Now) :> [h |-> NewHandle(Now), recv |-> None])])
  /\ UNCHANGED <<next_port, rx, packets>>

(* A call on a socket that already has one of its kind pending is refused;  *)
(* otherwise it is pending, and complete_pending, which follows within the  *)
(* iteration, answers it as the handler would have.                         *)

TcpSend(s, c, i) ==
  IF s.tcp[i].send # None THEN Reply(s, c) ELSE [s EXCEPT !.tcp[i].send = c]

TcpRecvReplaces(s, c, i) == [s EXCEPT !.tcp[i].recv = c]
TcpRecv(s, c, i) ==
  IF s.tcp[i].recv # None THEN Reply(s, c) ELSE [s EXCEPT !.tcp[i].recv = c]

TcpShutdown(s, c, i) ==
  [Reply(s, c) EXCEPT !.sock[s.tcp[i].h] = close(@)]

TcpAccept(s, c, l) ==
  IF s.lst[l].accept # None THEN Reply(s, c)
  ELSE IF s.lst[l].accepted = <<>> THEN [s EXCEPT !.lst[l].accept = c]
  ELSE [Give(s, c, Head(s.lst[l].accepted)) EXCEPT !.lst[l].accepted = Tail(@)]

(* UdpRecv, RawRecv and IcmpRecv                                            *)
DatagramRecv(s, c, d) ==
  IF s.dgm[d].recv # None THEN Reply(s, c) ELSE [s EXCEPT !.dgm[d].recv = c]

HandleCall ==
  /\ \/ Command("send")     /\ Iterate(TcpSend(Now, From, Target))
     \/ Command("recv")     /\ Iterate(TcpRecv(Now, From, Target))
     \/ Command("close")    /\ Iterate(TcpShutdown(Now, From, Target))
     \/ Command("accept")   /\ Iterate(TcpAccept(Now, From, Target))
     \/ Command("recvfrom") /\ Iterate(DatagramRecv(Now, From, Target))
     \/ Command("sendto")   /\ Iterate(Reply(Now, From))
  /\ UNCHANGED <<next_port, rx, packets>>

-----------------------------------------------------------------------------
(* The other two arms of run() *)

IpPacket ==
  /\ up /\ packets < MaxPackets
  /\ packets' = packets + 1
  /\ rx' = push_rx
  /\ Iterate(Now)
  /\ UNCHANGED <<cmds, next_port>>

(* TransportFailed, or the node has no more events                          *)
NodeFails ==
  /\ up /\ packets < MaxPackets
  /\ packets' = packets + 1
  /\ Ends

(* A connection counts as open in these states and in Established           *)
Opening == {"listen", "synsent", "synrcvd"}

Poll ==
  /\ up
  /\ rx' = 0
  /\ \E sk \in Polled :
       /\ Complete([Now EXCEPT !.sock = sk])
       /\ skipped' = skipped \cup {h \in DOMAIN sk : /\ sock[h].st \in Opening
                                                    /\ sk[h].st \notin Opening \cup {"established"}}
  /\ UNCHANGED <<cmds, next_port, packets>>

Init ==
  /\ app = [c \in Callers |-> Idle] /\ cmds = <<>>
  /\ tcp = <<>> /\ lst = <<>> /\ dgm = <<>> /\ sock = <<>> /\ held = {}
  /\ next_port = PortStart /\ rx = 0 /\ up = TRUE
  /\ calls = 0 /\ packets = 0 /\ skipped = {}

Next ==
  \/ \E c \in Callers : Call(c) \/ Cancel(c)
  \/ HandleShutdown \/ HandleInject \/ HandleDial \/ HandleListen \/ HandleBind
  \/ HandleCall \/ IpPacket \/ NodeFails \/ Poll

Spec == Init /\ [][Next]_vars

-----------------------------------------------------------------------------
Slot == Callers \cup {Gone, None}

(* The tables, with the device's queue within DEVICE_QUEUE_LIMIT            *)
TypeOK ==
  /\ rx \in 0 .. RxLimit /\ next_port \in PortStart .. PortEnd /\ up \in BOOLEAN
  /\ \A i \in DOMAIN tcp : /\ tcp[i].h \in DOMAIN sock
                           /\ {tcp[i].connect, tcp[i].send, tcp[i].recv} \subseteq Slot
  /\ \A l \in DOMAIN lst : lst[l].h \in DOMAIN sock /\ lst[l].accept \in Slot
  /\ \A d \in DOMAIN dgm : dgm[d].h \in DOMAIN sock /\ dgm[d].recv \in Slot
  /\ held \subseteq DOMAIN tcp

(* While the task runs, the answer to every call an application waits for   *)
(* is to come from exactly one place: the command channel or one pending    *)
(* operation. No response is dropped, whoever else uses the socket, and     *)
(* none is kept for a caller that no longer waits.                          *)
Places(c) ==
  Cardinality({k \in DOMAIN cmds : cmds[k].c = c})
    + Cardinality({i \in DOMAIN tcp : tcp[i].connect = c})
    + Cardinality({i \in DOMAIN tcp : tcp[i].send = c})
    + Cardinality({i \in DOMAIN tcp : tcp[i].recv = c})
    + Cardinality({l \in DOMAIN lst : lst[l].accept = c})
    + Cardinality({d \in DOMAIN dgm : dgm[d].recv = c})
CallsHeld ==
  up => \A c \in Callers : Places(c) = IF app[c] = Idle THEN 0 ELSE 1

(* Between two iterations no operation is pending that complete_pending     *)
(* could have answered: no receive with data or the end of the stream       *)
(* before it, no send with room. A dial or a listener misses its connection *)
(* exactly when one poll takes the socket past Established (the peer closes *)
(* at once, or refuses the dial): complete_pending looks for Established    *)
(* alone, so such a dial is never answered and such a listener accepts      *)
(* nothing any more; no other dial or listener is ever left like that.      *)
Missed == {h \in {tcp[i].h : i \in {j \in DOMAIN tcp : tcp[j].connect # None}}
                    \cup {lst[l].h : l \in DOMAIN lst} : sock[h].st \notin Opening}
NoneOverlooked ==
  up =>
    /\ \A i \in DOMAIN tcp :
         LET k == sock[tcp[i].h] IN
           /\ tcp[i].send # None => ~can_send(k)
           /\ tcp[i].recv # None => k.rx = 0 /\ may_recv(k)
    /\ \A d \in DOMAIN dgm : dgm[d].recv # None => sock[dgm[d].h].rx = 0
    /\ \A l \in DOMAIN lst : lst[l].accept # None => lst[l].accepted = <<>>
    /\ Missed = skipped

(* Every socket has one owner, through any sequence of dials, accepts and   *)
(* wrap-arounds of the port counter: it belongs to exactly one stream,      *)
(* listener or datagram socket, no connection is accepted twice or while an *)
(* application has it, no two open connections were dialled from the same   *)
(* port, and none from the port of a listener that was there before it      *)
(* (ids grow).                                                              *)
Handles ==
  [i \in DOMAIN tcp |-> tcp[i].h] @@ [l \in DOMAIN lst |-> lst[l].h]
    @@ [d \in DOMAIN dgm |-> dgm[d].h]
Open(h) == sock[h].dialled /\ sock[h].st # "closed"
OneOwner ==
  /\ \A h \in DOMAIN sock : \E i \in DOMAIN Handles : Handles[i] = h
  /\ \A i, j \in DOMAIN Handles : Handles[i] = Handles[j] => i = j
  /\ \A l, m \in DOMAIN lst :
       \A j \in DOMAIN lst[l].accepted, k \in DOMAIN lst[m].accepted :
         /\ lst[l].accepted[j] \notin held
         /\ lst[l].accepted[j] = lst[m].accepted[k] => l = m /\ j = k
  /\ \A g, h \in DOMAIN sock :
       (Open(g) /\ Open(h) /\ sock[g].port = sock[h].port) => g = h
  /\ \A i \in DOMAIN tcp, l \in DOMAIN lst :
       (Open(tcp[i].h) /\ sock[tcp[i].h].port = lst[l].port) => i < l
=============================================================================
