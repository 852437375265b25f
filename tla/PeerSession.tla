---------------------------- MODULE PeerSession -----------------------------
(***************************************************************************)
(* The tasks that make, use and lose the sessions of a node's peers:       *)
(* send_ip and send_ip_batch with the queue of packets waiting for a       *)
(* session, connect(), the end of a handshake (establish, flush_queue),    *)
(* the reconnect loops and the keepalive loop. What the peers say to each  *)
(* other is the subject of module Handshake; here a handshake simply ends  *)
(* well, against the record that was read when it arrived.                 *)
(***************************************************************************)
EXTENDS PeerStore

NoPacket == [dst |-> None, big |-> FALSE]
SendIdle == [pc |-> "idle", pkt |-> NoPacket, id |-> None, o |-> 0, want |-> FALSE,
             batch |-> FALSE, sid |-> 0, had |-> FALSE, gone |-> 0]
ReadIdle == [pc |-> "idle", o |-> 0, sid |-> 0, exp |-> NoInfo, pkt |-> NoPacket,
             had |-> FALSE, gone |-> 0]
KeepIdle == [pc |-> "idle", o |-> 0, had |-> FALSE, again |-> FALSE, gone |-> 0]
NoConn == [sid |-> 0, by |-> 0]

-----------------------------------------------------------------------------
(* send_ip: the route is read under one lock and the peer under another;    *)
(* send_ip_batch reads both under both locks. A big packet is one that the  *)
(* interface allows and a new session's path MTU does not.                  *)

SendRoute(dst) ==
  /\ snd.pc = "idle" /\ Op("send")
  /\ routes[dst] # None
  /\ snd' = [SendIdle EXCEPT !.pc = "lookup", !.pkt = [dst |-> dst, big |-> FALSE],
                             !.id = routes[dst]]
  /\ UNCHANGED <<hs1, store, ctl, rdr, kil, calls, conn, loops, data>>

should_connect(o) == ~Had(o) /\ obj[o].attempt = 0

SendLookup ==
  /\ snd.pc = "lookup"
  /\ snd' = IF peers[snd.id] = 0 THEN SendIdle
            ELSE [snd EXCEPT !.pc = "prepare", !.o = peers[snd.id],
                             !.want = should_connect(peers[snd.id])]
  /\ UNCHANGED <<hs1, store, ctl, rdr, kil, calls, conn, loops, data, ops>>

send_ip_batch(dst, big) ==
  /\ snd.pc = "idle" /\ Op(IF big THEN "big" ELSE "batch")
  /\ routes[dst] # None
  /\ LET o == peers[routes[dst]] IN
       snd' = IF o = 0 THEN SendIdle
              ELSE [SendIdle EXCEPT !.pc = "prepare", !.pkt = [dst |-> dst, big |-> big],
                                    !.id = routes[dst], !.o = o, !.batch = TRUE,
                                    !.want = should_connect(o)]
  /\ UNCHANGED <<hs1, store, ctl, rdr, kil, calls, conn, loops, data>>

(* prepare_ip_packets: without a session the session lock is dropped before *)
(* the queue is locked; past the expiry the session is invalidated          *)
SendPrepare ==
  /\ snd.pc = "prepare"
  /\ IF expired
     THEN /\ TakeSession(snd.o)
          /\ snd' = [snd EXCEPT !.pc = "expired", !.had = Had(snd.o), !.gone = Taken(snd.o)]
     ELSE /\ snd' = IF ~Had(snd.o) THEN [snd EXCEPT !.pc = "push"]
                    ELSE IF snd.pkt.big THEN SendIdle
                    ELSE [snd EXCEPT !.pc = "wire", !.sid = obj[snd.o].active.sid]
          /\ UNCHANGED obj
  /\ UNCHANGED <<hs1, peers, routes, sessions, gen, expired, ctl, rdr, kil, calls, conn, loops,
                 data, ops>>

Push(ob, pkt) ==
  [ob EXCEPT !.queue = Append(@, [dst |-> pkt.dst, big |-> pkt.big,
                                  late |-> ob.active # NoSession])]

(* The caller that found neither session nor attempt spawns a connect()     *)
SpawnConnect(want) == calls' = IF want THEN [calls EXCEPT ![snd.id] = @ + 1] ELSE calls

SendPush ==
  /\ snd.pc = "push"
  /\ IF Len(obj[snd.o].queue) < QueueLimit
     THEN /\ obj' = [obj EXCEPT ![snd.o] = Push(@, snd.pkt)]
          /\ SpawnConnect(snd.want)
     ELSE UNCHANGED <<obj, calls>>
  /\ snd' = SendIdle
  /\ UNCHANGED <<hs1, peers, routes, sessions, gen, expired, ctl, rdr, kil, conn, loops,
                 data, ops>>

SendWire ==
  /\ snd.pc = "wire"
  /\ \/ SpawnConnect(snd.want) /\ snd' = SendIdle /\ UNCHANGED ops
     \/ Op("io") /\ snd' = [snd EXCEPT !.pc = "take"] /\ UNCHANGED calls
  /\ UNCHANGED <<hs1, store, ctl, rdr, kil, conn, loops, data>>

(* invalidate_session_if the session is still the one that failed; an I/O   *)
(* error schedules a reconnect, an expired snapshot does not. A batch       *)
(* spawns its connect() though the packet it prepared was not sent.         *)
SendTake ==
  /\ snd.pc = "take"
  /\ IF obj[snd.o].active.sid = snd.sid
     THEN /\ TakeSession(snd.o)
          /\ snd' = [snd EXCEPT !.pc = "settle", !.gone = snd.sid] /\ UNCHANGED <<calls, loops>>
     ELSE /\ ScheduleReconnect(snd.o, obj[snd.o])
          /\ SpawnConnect(snd.batch /\ snd.want)
          /\ snd' = SendIdle
  /\ UNCHANGED <<hs1, peers, routes, sessions, gen, expired, ctl, rdr, kil, conn, data, ops>>

SendSettle ==
  /\ snd.gone = 0
  /\ \/ /\ snd.pc = "settle"
        /\ ScheduleReconnect(snd.o, Settled(obj[snd.o], TRUE, TRUE))
        /\ SpawnConnect(snd.batch /\ snd.want)
     \/ /\ snd.pc = "expired"
        /\ obj' = [obj EXCEPT ![snd.o] = Settled(@, snd.had, TRUE)]
        /\ UNCHANGED <<calls, loops>>
  /\ snd' = SendIdle
  /\ UNCHANGED <<hs1, peers, routes, sessions, gen, expired, ctl, rdr, kil, conn, data, ops>>

Sending ==
  \/ \E dst \in Addrs : SendRoute(dst) \/ \E big \in BOOLEAN : send_ip_batch(dst, big)
  \/ SendLookup \/ SendPrepare \/ SendPush \/ SendWire \/ SendTake \/ SendSettle

-----------------------------------------------------------------------------
(* connect(), one at a time for each PeerState. It is called by a task that *)
(* send_ip spawned (by = 0) or by the reconnect loop of PeerState `by'.     *)

(* The top of reconnect_loop, where a failed call returns to as well        *)
MayRetryForever(ob) == ob.requested /\ ob.online
MayRetry(ob) == ob.requested /\ ob.online /\ ob.tries < MaxReconnect

Retry(ob, o, l) ==
  IF MayRetry(ob[o])
  THEN /\ obj' = [ob EXCEPT ![o].tries = @ + 1]
       /\ loops' = [l EXCEPT ![o]["go"] = @ + 1]
  ELSE /\ obj' = [ob EXCEPT ![o].running = FALSE]
       /\ loops' = l

ConnectReturns(ob, o, l, ok) ==
  IF o = 0 THEN obj' = ob /\ loops' = l
  ELSE IF ok THEN /\ obj' = [ob EXCEPT ![o].requested = FALSE, ![o].running = FALSE,
                                       ![o].tries = 0]
                  /\ loops' = l
  ELSE Retry(ob, o, l)

(* l and c: the loops and the spawned calls without this call               *)
ConnectBegin(i, by, l, c) ==
  LET o == peers[i] IN
  /\ calls' = c
  /\ \/ /\ o = 0 \/ expired
        /\ ConnectReturns(obj, by, l, FALSE) /\ UNCHANGED conn
     \/ /\ o # 0 /\ ~expired /\ conn[o] = NoConn /\ Had(o)
        /\ ConnectReturns(obj, by, l, TRUE) /\ UNCHANGED conn
     \/ /\ o # 0 /\ ~expired /\ conn[o] = NoConn /\ ~Had(o)
        /\ \E s \in FreshSids :
             /\ obj' = [obj EXCEPT ![o].attempt = s]
             /\ conn' = [conn EXCEPT ![o] = [sid |-> s, by |-> by]]
        /\ loops' = l
  /\ UNCHANGED <<hs1, peers, routes, sessions, gen, expired, ctl, rdr, snd, kil, data, ops>>

ConnectSpawned(i) ==
  calls[i] > 0 /\ ConnectBegin(i, 0, loops, [calls EXCEPT ![i] = @ - 1])

ConnectLoop(o) ==
  loops[o]["call"] > 0
    /\ ConnectBegin(obj[o].id, o, [loops EXCEPT ![o]["call"] = @ - 1], calls)

(* Ok when a session is up; otherwise the deadline or a lost attempt end it *)
ConnectEnd(o) ==
  /\ conn[o] # NoConn
  /\ conn' = [conn EXCEPT ![o] = NoConn]
  /\ ConnectReturns(IF ~Had(o) /\ obj[o].attempt = conn[o].sid
                    THEN [obj EXCEPT ![o].attempt = 0] ELSE obj,
                    conn[o].by, loops, Had(o))
  /\ UNCHANGED <<hs1, peers, routes, sessions, gen, expired, ctl, rdr, snd, kil, calls,
                 data, ops>>

-----------------------------------------------------------------------------
(* reconnect_loop *)

LoopTop(o) ==
  /\ loops[o]["top"] > 0
  /\ Retry(obj, o, [loops EXCEPT ![o]["top"] = @ - 1])
  /\ UNCHANGED <<hs1, peers, routes, sessions, gen, expired, ctl, rdr, snd, kil, calls,
                 conn, data, ops>>

(* After the delay: still online, and still the PeerState in the table      *)
LoopGo(o) ==
  /\ loops[o]["go"] > 0
  /\ IF obj[o].online /\ peers[obj[o].id] = o
     THEN loops' = [loops EXCEPT ![o]["go"] = @ - 1, ![o]["call"] = @ + 1] /\ UNCHANGED obj
     ELSE /\ obj' = [obj EXCEPT ![o].running = FALSE]
          /\ loops' = [loops EXCEPT ![o]["go"] = @ - 1]
  /\ UNCHANGED <<hs1, peers, routes, sessions, gen, expired, ctl, rdr, snd, kil, calls,
                 conn, data, ops>>

Connecting ==
  \/ \E i \in Ids : ConnectSpawned(i)
  \/ \E o \in Objs : ConnectLoop(o) \/ ConnectEnd(o) \/ LoopTop(o) \/ LoopGo(o)

-----------------------------------------------------------------------------
(* The end of a handshake in the read loop. The initiator's is the answer   *)
(* to its attempt. The responder's brings a session id of the peer's: a new *)
(* one, or that of a handshake it has answered before (the peer sends its   *)
(* message again, the network doubles or delays it); one for the session in *)
(* use is ignored.                                                          *)

Handshaken(i) ==
  /\ rdr.pc = "idle" /\ peers[i] # 0 /\ ~expired /\ ~obj[peers[i]].lapsed
  /\ \E s \in (IF i \in Initiates THEN {obj[peers[i]].attempt} ELSE FreshSids \cup {hs1[i]})
                \ {0, Taken(peers[i])} :
       /\ rdr' = [ReadIdle EXCEPT !.pc = IF Had(peers[i]) THEN "take" ELSE "active",
                                  !.o = peers[i], !.sid = s, !.exp = obj[peers[i]].info]
       /\ hs1' = IF i \in Initiates THEN hs1 ELSE [hs1 EXCEPT ![i] = s]
  /\ IF i \in Initiates THEN UNCHANGED ops ELSE Op("handshake")
  /\ UNCHANGED <<store, ctl, tasks, data>>

(* handle_handshake drops the session it replaces without a reconnect       *)
HandshakeTake ==
  /\ rdr.pc = "take"
  /\ TakeSession(rdr.o)
  /\ rdr' = [rdr EXCEPT !.pc = "settle", !.gone = Taken(rdr.o)]
  /\ UNCHANGED <<hs1, peers, routes, sessions, gen, expired, ctl, tasks, data, ops>>

HandshakeSettle ==
  /\ rdr.pc = "settle" /\ rdr.gone = 0
  /\ obj' = [obj EXCEPT ![rdr.o] = Settled(@, FALSE, FALSE)]
  /\ rdr' = [rdr EXCEPT !.pc = "active"]
  /\ UNCHANGED <<hs1, peers, routes, sessions, gen, expired, ctl, tasks, data, ops>>

(* establish: the session is stored if none is and the record is unchanged. *)
(* It is odd when the record is about to change or the PeerState has left;  *)
(* again, when a task that took a session of the same id before is about to *)
(* remove that id from the index.                                           *)
EstablishActive ==
  /\ rdr.pc = "active"
  /\ IF Had(rdr.o) \/ obj[rdr.o].info # rdr.exp
     THEN rdr' = ReadIdle /\ UNCHANGED obj
     ELSE /\ obj' = [obj EXCEPT
               ![rdr.o].active =
                 [sid |-> rdr.sid, info |-> rdr.exp, seen |-> {},
                  again |-> Removing(rdr.o, rdr.sid),
                  odd |-> ctl.o = rdr.o \/ ~InTable(rdr.o)],
               ![rdr.o].broke = FALSE]
          /\ rdr' = [rdr EXCEPT !.pc = "index"]
  /\ UNCHANGED <<hs1, peers, routes, sessions, gen, expired, ctl, tasks, data, ops>>

EstablishIndex ==
  /\ rdr.pc = "index"
  /\ sessions' = [sessions EXCEPT ![rdr.sid] = rdr.o]
  /\ obj' = [obj EXCEPT ![rdr.o].attempt = 0, ![rdr.o].requested = FALSE,
                        ![rdr.o].running = FALSE, ![rdr.o].tries = 0]
  /\ rdr' = [rdr EXCEPT !.pc = "flush"]
  /\ UNCHANGED <<hs1, peers, routes, gen, expired, ctl, tasks, data, ops>>

(* flush_queue and send_payload; the first error ends it                    *)
FlushedButLast(o) == Len(obj[o].queue) <= 1
Flushed(o) == obj[o].queue = <<>>

FlushPop ==
  /\ rdr.pc = "flush"
  /\ IF Flushed(rdr.o)
     THEN rdr' = ReadIdle /\ UNCHANGED obj
     ELSE LET p == Head(obj[rdr.o].queue) IN
          /\ obj' = [obj EXCEPT ![rdr.o].queue = Tail(@),
                                ![rdr.o].broke = routes[p.dst] # obj[rdr.o].id]
          /\ rdr' = IF routes[p.dst] # obj[rdr.o].id THEN ReadIdle
                    ELSE [rdr EXCEPT !.pc = "prepare", !.pkt = [dst |-> p.dst, big |-> p.big]]
  /\ UNCHANGED <<hs1, peers, routes, sessions, gen, expired, ctl, tasks, data, ops>>

FlushBreaks ==
  /\ obj' = [obj EXCEPT ![rdr.o].broke = TRUE]
  /\ rdr' = ReadIdle

(* prepare_ip_packets and send_to: a packet whose session has gone meanwhile *)
(* goes to the back of the queue                                            *)
FlushSend ==
  /\ rdr.pc = "prepare"
  /\ \/ /\ expired
        /\ TakeSession(rdr.o) /\ UNCHANGED ops
        /\ rdr' = [rdr EXCEPT !.pc = "lostsettle", !.had = Had(rdr.o), !.pkt = NoPacket,
                              !.gone = Taken(rdr.o)]
     \/ /\ ~expired /\ ~Had(rdr.o)
        /\ rdr' = [rdr EXCEPT !.pc = "push"] /\ UNCHANGED <<obj, ops>>
     \/ /\ ~expired /\ Had(rdr.o) /\ rdr.pkt.big
        /\ FlushBreaks /\ UNCHANGED ops
     \/ /\ ~expired /\ Had(rdr.o) /\ ~rdr.pkt.big
        /\ rdr' = [rdr EXCEPT !.pc = "flush", !.pkt = NoPacket]
        /\ UNCHANGED <<obj, ops>>
     \/ /\ ~expired /\ Had(rdr.o) /\ ~rdr.pkt.big
        /\ Op("io")
        /\ rdr' = [rdr EXCEPT !.pc = "lost", !.pkt = NoPacket, !.sid = obj[rdr.o].active.sid]
        /\ UNCHANGED obj
  /\ UNCHANGED <<hs1, peers, routes, sessions, gen, expired, ctl, tasks, data>>

FlushPush ==
  /\ rdr.pc = "push"
  /\ IF Len(obj[rdr.o].queue) < QueueLimit
     THEN /\ obj' = [obj EXCEPT ![rdr.o] = Push(@, rdr.pkt)]
          /\ rdr' = [rdr EXCEPT !.pc = "flush", !.pkt = NoPacket]
     ELSE FlushBreaks
  /\ UNCHANGED <<hs1, peers, routes, sessions, gen, expired, ctl, tasks, data, ops>>

FlushTake ==
  /\ rdr.pc = "lost"
  /\ IF obj[rdr.o].active.sid = rdr.sid
     THEN /\ TakeSession(rdr.o)
          /\ rdr' = [rdr EXCEPT !.pc = "lostsettle", !.had = TRUE, !.gone = rdr.sid]
     ELSE FlushBreaks
  /\ UNCHANGED <<hs1, peers, routes, sessions, gen, expired, ctl, tasks, data, ops>>

FlushSettle ==
  /\ rdr.pc = "lostsettle" /\ rdr.gone = 0
  /\ obj' = [obj EXCEPT ![rdr.o] = Settled(@, rdr.had, TRUE)]
  /\ rdr' = ReadIdle
  /\ UNCHANGED <<hs1, peers, routes, sessions, gen, expired, ctl, tasks, data, ops>>

Establishing ==
  \/ \E i \in Ids : Handshaken(i)
  \/ HandshakeTake \/ HandshakeSettle \/ EstablishActive \/ EstablishIndex
  \/ FlushPop \/ FlushSend \/ FlushPush \/ FlushTake \/ FlushSettle

-----------------------------------------------------------------------------
(* keepalive_loop: a silent session, or an expired membership, is           *)
(* invalidated; only the first schedules a reconnect                        *)

Lapsed(o) == expired \/ obj[o].lapsed

KeepaliveTake(i, dead) ==
  /\ kil.pc = "idle" /\ peers[i] # 0
  /\ IF dead THEN ~Lapsed(peers[i]) /\ Had(peers[i]) /\ Op("dead")
     ELSE /\ Lapsed(peers[i]) /\ UNCHANGED ops
          /\ Had(peers[i]) \/ obj[peers[i]].attempt # 0 \/ obj[peers[i]].queue # <<>>
  /\ TakeSession(peers[i])
  /\ kil' = [pc |-> "settle", o |-> peers[i], had |-> Had(peers[i]), again |-> dead,
             gone |-> Taken(peers[i])]
  /\ UNCHANGED <<hs1, peers, routes, sessions, gen, expired, ctl, rdr, snd, calls, conn, loops,
                 data>>

KeepaliveSettle ==
  /\ kil.pc = "settle" /\ kil.gone = 0
  /\ LET ob == Settled(obj[kil.o], kil.had, TRUE) IN
       IF kil.again THEN ScheduleReconnect(kil.o, ob)
       ELSE obj' = [obj EXCEPT ![kil.o] = ob] /\ UNCHANGED loops
  /\ kil' = KeepIdle
  /\ UNCHANGED <<hs1, peers, routes, sessions, gen, expired, ctl, rdr, snd, calls, conn,
                 data, ops>>

(* A session due for rekeying is taken; the initiator stores a new attempt  *)
Rekey(i) ==
  /\ kil.pc = "idle" /\ peers[i] # 0 /\ ~Lapsed(peers[i]) /\ Had(peers[i])
  /\ Op("rekey")
  /\ TakeSession(peers[i])
  /\ kil' = [KeepIdle EXCEPT !.pc = "rekey", !.o = peers[i], !.gone = Taken(peers[i])]
  /\ UNCHANGED <<hs1, peers, routes, sessions, gen, expired, ctl, rdr, snd, calls, conn, loops,
                 data>>

RekeyAttempt ==
  /\ kil.pc = "rekey" /\ kil.gone = 0
  /\ \E s \in IF obj[kil.o].id \in Initiates THEN FreshSids ELSE {0} :
       obj' = [obj EXCEPT ![kil.o].attempt = s]
  /\ kil' = KeepIdle
  /\ UNCHANGED <<hs1, peers, routes, sessions, gen, expired, ctl, rdr, snd, calls, conn,
                 loops, data, ops>>

(* The snapshot runs out before the next one comes                          *)
Expire ==
  /\ ~expired /\ Op("expire")
  /\ expired' = TRUE
  /\ UNCHANGED <<hs1, obj, peers, routes, sessions, gen, ctl, rdr, tasks, data>>

(* A peer's credential runs out                                             *)
Lapse(i) ==
  /\ peers[i] # 0 /\ ~obj[peers[i]].lapsed /\ Op("lapse")
  /\ obj' = [obj EXCEPT ![peers[i]].lapsed = TRUE]
  /\ UNCHANGED <<hs1, peers, routes, sessions, gen, expired, ctl, rdr, tasks, data>>

Keeping ==
  \/ \E i \in Ids, dead \in BOOLEAN : KeepaliveTake(i, dead)
  \/ \E i \in Ids : Rekey(i) \/ Lapse(i)
  \/ KeepaliveSettle \/ RekeyAttempt \/ Expire

SessionNext == Sending \/ Connecting \/ Establishing \/ Keeping
=============================================================================
