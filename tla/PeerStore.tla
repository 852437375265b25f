----------------------------- MODULE PeerStore ------------------------------
(***************************************************************************)
(* What the tasks of one Vela node share (vela-core: Inner and PeerState): *)
(* the table of peers, the host routes, the index of sessions, the state   *)
(* kept for each peer, and where each task stands. The tasks themselves    *)
(* are in Membership (snapshots and lookups), PeerSession (sending,        *)
(* connecting, establishing, reconnecting, keepalive) and DataPlane (the   *)
(* receive pipeline); PeerNode puts them together.                         *)
(*                                                                         *)
(* A PeerState is reached through an Arc and compared by pointer, so it    *)
(* has an identity of its own (Objs) apart from the node id it is for. One *)
(* step of a task is what the code does between two awaits on a lock that  *)
(* another task could take in between; locks that are taken one after the  *)
(* other with no observer in between share a step.                         *)
(*                                                                         *)
(* `odd', `again', `late' and `broke' are history: no guard reads them.    *)
(***************************************************************************)
EXTENDS Integers, Sequences, FiniteSets

CONSTANTS Ids,           \* remote node ids
          Initiates,     \* those towards which this node initiates the handshake
          Addrs,         \* virtual addresses
          None,          \* no id, no address
          Objs,          \* PeerState pointers
          Sids,          \* session ids
          Worlds,        \* what the coordinator's generations 1, 2, ... say
          QueueLimit,    \* per_peer_queue_limit
          MaxReconnect,  \* MAX_RECONNECT_ATTEMPTS
          DataLimit,     \* capacity of a data worker's channel
          PartSize,      \* DATA_DECRYPT_BATCH_SIZE
          MaxOps,        \* operations and faults in a behaviour
          Kinds          \* the kinds of them

AllKinds == {"snapshot", "register", "remove", "expire", "send", "batch", "big", "io", "dead",
             "rekey", "lapse", "handshake", "data", "duplicate", "control"}

ASSUME PeerStoreAssumption ==
  /\ Initiates \subseteq Ids
  /\ None \notin Ids \cup Addrs
  /\ Objs \subseteq Nat \ {0}
  /\ Sids \subseteq Nat \ {0}
  /\ QueueLimit \in Nat \ {0} /\ MaxReconnect \in Nat \ {0}
  /\ DataLimit \in Nat \ {0} /\ PartSize \in Nat \ {0}
  /\ MaxOps \in Nat
  /\ Kinds \subseteq AllKinds

VARIABLES
  obj,       \* the PeerStates
  peers,     \* Inner.peers: the PeerState of each id, 0 for none
  routes,    \* Inner.routes: the id each address leads to
  sessions,  \* Inner.sessions: the PeerState of each session id
  gen,       \* snapshot_generation
  expired,   \* now >= snapshot_expires_at
  ctl,       \* the task that applies snapshots and looked-up records
  snd,       \* the task that sends IP packets
  rdr,       \* the read loop: handshakes, establish, flush_queue
  hs1,       \* the id in the last handshake each peer initiated
  kil,       \* the keepalive loop
  calls,     \* connect() calls spawned for each id and not yet begun
  conn,      \* the connect() call holding each peer.connect
  loops,     \* reconnect_loop tasks of each PeerState
  inq,       \* the data worker's channel
  wrk,       \* the data worker and the decrypt workers it uses
  up,        \* IpPacket events handed to the runtime
  ops        \* operations and faults so far

store == <<obj, peers, routes, sessions, gen, expired>>
tasks == <<snd, kil, calls, conn, loops>>
data  == <<inq, wrk, up>>
vars  == <<store, ctl, rdr, hs1, tasks, data, ops>>

-----------------------------------------------------------------------------
NoInfo == [addr |-> None, inc |-> 0, cand |-> 0]
Info == [addr : Addrs, inc : Nat \ {0}, cand : Nat \ {0}]
NoSession == [sid |-> 0, info |-> NoInfo, odd |-> FALSE, again |-> FALSE, seen |-> {}]
Packet == [dst : Addrs, big : BOOLEAN]
Queued == [dst : Addrs, big : BOOLEAN, late : BOOLEAN]

NewPeer(i, info, online) ==
  [id |-> i, info |-> info, online |-> online, active |-> NoSession, attempt |-> 0,
   queue |-> <<>>, broke |-> FALSE, lapsed |-> FALSE,
   requested |-> FALSE, running |-> FALSE, tries |-> 0]
NoPeer == NewPeer(None, NoInfo, FALSE)

Op(kind) == /\ kind \in Kinds
            /\ ops < MaxOps
            /\ ops' = ops + 1

NoLoops == [pc \in {"top", "go", "call"} |-> 0]

Least(S) == {x \in S : \A y \in S : x <= y}

SidsInUse ==
  {obj[o].active.sid : o \in Objs} \cup {obj[o].attempt : o \in Objs}
    \cup {conn[o].sid : o \in Objs} \cup {s \in Sids : sessions[s] # 0} \cup {rdr.sid, snd.sid}
    \cup {hs1[i] : i \in Ids} \cup {ctl.gone, snd.gone, rdr.gone, kil.gone, wrk.gone}
    \cup {inq[k].sid : k \in DOMAIN inq} \cup {up[k].sid : k \in DOMAIN up}
    \cup {wrk.batch[k].sid : k \in DOMAIN wrk.batch}
FreshSids == Least(Sids \ SidsInUse)

ObjsInUse ==
  {peers[i] : i \in Ids} \cup {sessions[s] : s \in Sids}
    \cup {ctl.old[i] : i \in Ids} \cup {ctl.repl[i] : i \in Ids} \cup ctl.drops \cup {ctl.o}
    \cup {snd.o, rdr.o, kil.o, wrk.o} \cup {wrk.ctx[s] : s \in Sids}
    \cup {o \in Objs : conn[o].sid # 0 \/ loops[o] # NoLoops}
FreshObjs == Least(Objs \ ObjsInUse)

-----------------------------------------------------------------------------
(* invalidate_session: the session is taken under its lock; the index loses *)
(* it (remove_session); then the attempt and the queue are cleared and a    *)
(* reconnect is requested. Others run in between. In between a task has the *)
(* id it took in `gone' and the PeerState in `o'.                           *)

InTable(o) == \E i \in Ids : peers[i] = o

remove_session_of_peer(idx, o, sid) == [s \in Sids |-> IF idx[s] = o THEN 0 ELSE idx[s]]

remove_session(idx, o, sid) ==
  [s \in Sids |-> IF s = sid /\ idx[s] = o THEN 0 ELSE idx[s]]

Take(ob) == [ob EXCEPT !.active = NoSession]
TakeSession(o) == obj' = [obj EXCEPT ![o] = Take(@)]
Taken(o) == obj[o].active.sid

Unindex(t) == t.gone # 0 /\ sessions' = remove_session(sessions, t.o, t.gone)

RemoveSession ==
  /\ \/ Unindex(ctl) /\ ctl' = [ctl EXCEPT !.gone = 0] /\ UNCHANGED <<snd, rdr, kil, wrk>>
     \/ Unindex(snd) /\ snd' = [snd EXCEPT !.gone = 0] /\ UNCHANGED <<ctl, rdr, kil, wrk>>
     \/ Unindex(rdr) /\ rdr' = [rdr EXCEPT !.gone = 0] /\ UNCHANGED <<ctl, snd, kil, wrk>>
     \/ Unindex(kil) /\ kil' = [kil EXCEPT !.gone = 0] /\ UNCHANGED <<ctl, snd, rdr, wrk>>
     \/ Unindex(wrk) /\ wrk' = [wrk EXCEPT !.gone = 0] /\ UNCHANGED <<ctl, snd, rdr, kil>>
  /\ UNCHANGED <<obj, peers, routes, gen, expired, hs1, calls, conn, loops, inq, up, ops>>

(* A task is about to take session id s of PeerState o out of the index     *)
Removing(o, s) == \E t \in {ctl, snd, rdr, kil, wrk} : t.o = o /\ t.gone = s

Had(o) == obj[o].active # NoSession

Settled(ob, had, reconnect) ==
  [ob EXCEPT !.attempt = 0,
             !.queue = <<>>,
             !.broke = FALSE,
             !.requested = @ \/ (reconnect /\ (had \/ ob.attempt # 0)),
             !.tries = IF reconnect /\ (had \/ ob.attempt # 0) THEN 0 ELSE @]

(* schedule_reconnect: at most one loop as far as `running' tells           *)
CanSchedule(ob) ==
  ob.online /\ ob.requested /\ ~ob.running /\ ob.tries < MaxReconnect

(* ob: the PeerState o as the step leaves it otherwise                      *)
ScheduleReconnect(o, ob) ==
  /\ obj' = [obj EXCEPT ![o] = IF CanSchedule(ob) THEN [ob EXCEPT !.running = TRUE] ELSE ob]
  /\ loops' = IF CanSchedule(ob) THEN [loops EXCEPT ![o]["top"] = @ + 1] ELSE loops
=============================================================================
