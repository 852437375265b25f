---------------------------- MODULE ControlPlane ----------------------------
(***************************************************************************)
(* The control plane around one peer: the coordinator's registry and       *)
(* snapshot generation, its coalescing broadcaster, the WebSocket sessions *)
(* of the peer (handler, outbound queues, writer), the coordination client *)
(* with its queue of set-aside messages, and the runtime loop that applies *)
(* snapshots and hands them to the TUN route watcher.                      *)
(*                                                                         *)
(* What a snapshot says is reduced to a number: `ver' counts the changes   *)
(* of the stored peers, the settings and the online set, and a snapshot    *)
(* that holds every change up to the nth has ver = n. The code reads the   *)
(* online set, the peers, the settings and then the generation under       *)
(* separate locks. A content is dated by the first of these reads, so that *)
(* the number is a lower bound: parts of later changes may be in it. The   *)
(* generation is read in a later step. A content whose parts do not fit is *)
(* refused by NetworkSnapshot::validate (RecvInvalid).                     *)
(*                                                                         *)
(* The handlers of the other peers and of the administrator are Tasks. All *)
(* that comes from outside (their changes, ConnectSignals, new candidates, *)
(* lost connections, timeouts, failed reads) is limited to MaxEvents in    *)
(* all, of any kinds and in any order. The control queue of a session and  *)
(* the socket it is written to are one FIFO `wire': the writer always      *)
(* empties the control queue before it looks at the snapshot slot, so the  *)
(* order is the same.                                                      *)
(***************************************************************************)
EXTENDS Naturals, Sequences

CONSTANTS Tasks,        \* handlers that make changes for others
          Conns,        \* WebSocket connections of the peer
          MaxLives,     \* runtimes the supervisor starts
          MaxEvents,    \* disturbances from outside
          Kinds,        \* and the kinds of them
          WireCap,      \* messages a socket takes before the writer must wait
          None

ASSUME ControlPlaneAssumption ==
  /\ MaxLives \in Nat \ {0} /\ MaxEvents \in Nat /\ WireCap \in Nat
  /\ Conns # {}
  /\ None \notin Nat \cup Conns

VARIABLES
  ver, gen,         \* content of the registry, snapshot generation
  row,              \* the peer's stored incarnation and candidates
  task,             \* step of each Task
  pending, running, \* SnapshotBroadcastState
  loop, senders, draft,  \* the broadcaster, its senders and what it read
  sock, hand, online, leaked,  \* sessions of the peer at the server
  up, slot, wire,   \* requests, snapshot slot and messages of a session
  rt,               \* client and runtime
  events,
  asked, covered, told,  \* history: what broadcasts were asked for and said
  joined            \* history: the last record another peer added

registryVars == <<ver, gen, row, task>>
broadcastVars == <<pending, running, loop, senders, draft>>
sessionVars == <<sock, hand, online, leaked>>
channelVars == <<up, slot, wire>>
historyVars == <<asked, covered, told, joined>>
vars == <<registryVars, broadcastVars, sessionVars, channelVars, rt, events, historyVars>>

Newest(m, n) == IF m >= n THEN m ELSE n
Snapshot(g, v) == [gen |-> g, ver |-> v]
NoSnapshot == Snapshot(0, 0)

Message(kind, s) == [kind |-> kind, snap |-> s]
Request(kind, life, cand) == [kind |-> kind, life |-> life, cand |-> cand]

Idle == [pc |-> "read", kind |-> "none", need |-> FALSE,
         registered |-> FALSE, seen |-> 0]
Ended == [Idle EXCEPT !.pc = "ended"]
Served(h) == [Idle EXCEPT !.registered = h.registered]

\* A runtime that is not running; `lives' survives it.
Down(lives) ==
  [st |-> "down", why |-> "open", conn |-> None, repl |-> None, set |-> <<>>,
   applied |-> NoSnapshot, published |-> NoSnapshot, cand |-> 0, next |-> 0,
   since |-> 0, lives |-> lives]

\* The peer has registered on its first connection and all is delivered.
First == CHOOSE c \in Conns : TRUE

Init ==
  /\ ver = 1 /\ gen = 2
  /\ row = [life |-> 1, cand |-> 0]
  /\ task = [t \in Tasks |-> "idle"]
  /\ pending = FALSE /\ running = FALSE
  /\ loop = "stopped" /\ senders = {} /\ draft = 0
  /\ sock = [c \in Conns |-> IF c = First THEN "open" ELSE "none"]
  /\ hand = [c \in Conns |-> IF c = First THEN [Idle EXCEPT !.registered = TRUE] ELSE Ended]
  /\ online = [c \in Conns |-> c = First]
  /\ leaked = FALSE
  /\ up = [c \in Conns |-> <<>>]
  /\ slot = [c \in Conns |-> NoSnapshot]
  /\ wire = [c \in Conns |-> <<>>]
  /\ rt = [Down(1) EXCEPT !.st = "idle", !.why = "tick", !.conn = First,
                          !.applied = Snapshot(2, 1), !.published = Snapshot(2, 1)]
  /\ events = 0
  /\ asked = 1 /\ covered = 1
  /\ told = [c \in Conns |-> IF c = First THEN 1 ELSE 0]
  /\ joined = 0

-----------------------------------------------------------------------------
(* The coordinator: generation and broadcaster *)

\* Something comes from outside.
Event(kind) == kind \in Kinds /\ events < MaxEvents /\ events' = events + 1

\* A message to a connection that is gone is lost.
Queue(c, m) == IF sock[c] = "open" THEN Append(wire[c], m) ELSE wire[c]

bump_snapshot == gen' = gen + 1

(* Mutant: a request made while the broadcaster runs is taken for served *)
broadcast_snapshot_unless_running ==
  /\ pending' = (pending \/ ~running)
  /\ running' = TRUE
  /\ loop' = IF running THEN loop ELSE "sleep"
  /\ asked' = ver

\* Ask for a broadcast; start the broadcaster unless it runs.
broadcast_snapshot ==
  /\ pending' = TRUE
  /\ running' = TRUE
  /\ loop' = IF running THEN loop ELSE "sleep"
  /\ asked' = ver

\* After the interval the broadcaster takes the request, or stops. With a
\* request, broadcast_snapshot_now collects the senders and the online set
\* under one lock, then the peers and the settings.
BroadcastWake ==
  /\ loop = "sleep"
  /\ \/ /\ pending
        /\ senders' = {c \in Conns : online[c]}
        /\ draft' = ver
        /\ loop' = "send"
     \/ /\ ~pending
        /\ loop' = "stopped"
        /\ UNCHANGED <<senders, draft>>
  /\ running' = pending
  /\ pending' = FALSE
  /\ UNCHANGED <<registryVars, sessionVars, channelVars, rt, events, historyVars>>

(* Mutant: a failed broadcast is forgotten *)
BroadcastFailForgets ==
  /\ loop = "send" /\ Event("failure")
  /\ senders' = {} /\ draft' = 0
  /\ loop' = "check"
  /\ UNCHANGED <<registryVars, pending, running, sessionVars, channelVars, rt, historyVars>>

\* Loading failed: the request is put back.
BroadcastFail ==
  /\ loop = "send" /\ Event("failure")
  /\ pending' = TRUE
  /\ senders' = {} /\ draft' = 0
  /\ loop' = "check"
  /\ UNCHANGED <<registryVars, running, sessionVars, channelVars, rt, historyVars>>

\* The generation is read last; every sender's slot is replaced.
BroadcastSend ==
  /\ loop = "send"
  /\ LET to == {c \in senders : sock[c] = "open"}
     IN  /\ slot' = [c \in Conns |-> IF c \in to THEN Snapshot(gen, draft) ELSE slot[c]]
         /\ told' = [c \in Conns |-> IF c \in to THEN Newest(told[c], draft) ELSE told[c]]
  /\ covered' = draft
  /\ senders' = {} /\ draft' = 0
  /\ loop' = "check"
  /\ UNCHANGED <<registryVars, pending, running, sessionVars, up, wire, rt, events, asked, joined>>

\* Go on if another request came in, otherwise stop, under one lock.
BroadcastCheck ==
  /\ loop = "check"
  /\ loop' = IF pending THEN "sleep" ELSE "stopped"
  /\ running' = pending
  /\ UNCHANGED <<registryVars, pending, senders, draft, sessionVars, channelVars, rt, events, historyVars>>

-----------------------------------------------------------------------------
(* Changes made by other peers and by the administrator *)

StepTask(t, s) == task' = [task EXCEPT ![t] = s]

\* A setting or a peer is edited, or another peer registers: the row first.
TaskStore(t) ==
  /\ task[t] = "idle"
  /\ ver' = ver + 1
  /\ \E kind \in {"edit", "join"} :
       /\ Event(kind)
       /\ StepTask(t, kind)
       /\ joined' = IF kind = "join" THEN ver' ELSE joined
  /\ UNCHANGED <<gen, row, broadcastVars, sessionVars, channelVars, rt, asked, covered, told>>

\* The last session of another peer ends.
TaskLeave(t) ==
  /\ task[t] = "idle" /\ Event("leave")
  /\ ver' = ver + 1
  /\ StepTask(t, "leave")
  /\ UNCHANGED <<gen, row, broadcastVars, sessionVars, channelVars, rt, historyVars>>

TaskBump(t) ==
  /\ task[t] \in {"edit", "join", "leave"}
  /\ bump_snapshot
  /\ StepTask(t, IF task[t] = "join" THEN "online" ELSE "ask")
  /\ UNCHANGED <<ver, row, broadcastVars, sessionVars, channelVars, rt, events, historyVars>>

\* The other peer is online. No broadcast follows a RegisterOk that cannot be
\* queued.
TaskOnline(t) ==
  /\ task[t] = "online"
  /\ ver' = ver + 1
  /\ \/ StepTask(t, "ask") /\ events' = events
     \/ Event("unanswered") /\ StepTask(t, "idle")
  /\ UNCHANGED <<gen, row, broadcastVars, sessionVars, channelVars, rt, historyVars>>

TaskAsk(t) ==
  /\ task[t] = "ask"
  /\ broadcast_snapshot
  /\ StepTask(t, "idle")
  /\ UNCHANGED <<ver, gen, row, senders, draft, sessionVars, channelVars, rt, events, covered, told, joined>>

\* Another peer looks this one up: all its sessions get a ConnectSignal.
Signal ==
  /\ Event("signal")
  /\ wire' = [c \in Conns |-> IF online[c] THEN Queue(c, Message("signal", NoSnapshot))
                                           ELSE wire[c]]
  /\ UNCHANGED <<registryVars, broadcastVars, sessionVars, up, slot, rt, historyVars>>

-----------------------------------------------------------------------------
(* The sessions of the peer at the server: handle_socket, handle_message *)

SetHand(c, h) == hand' = [hand EXCEPT ![c] = h]
WasOnline == leaked \/ \E c \in Conns : online[c]

\* Register stores the row; UpdateCandidates stores the candidates.
HandleStore(c) ==
  /\ hand[c].pc = "read" /\ up[c] # <<>>
  /\ LET m == Head(up[c])
         new == IF m.kind = "register" THEN [life |-> m.life, cand |-> m.cand]
                                       ELSE [row EXCEPT !.cand = m.cand]
     IN  /\ m.kind \in {"register", "update"}
         /\ row' = new
         /\ ver' = IF new = row THEN ver ELSE ver + 1
         /\ SetHand(c, [hand[c] EXCEPT
              !.pc = IF m.kind = "register" \/ new # row THEN "bump" ELSE "load",
              !.kind = m.kind,
              !.need = (new # row)])
  /\ up' = [up EXCEPT ![c] = Tail(@)]
  /\ UNCHANGED <<gen, task, broadcastVars, sock, online, leaked, slot, wire, rt, events, historyVars>>

HandleBump(c) ==
  /\ hand[c].pc = "bump"
  /\ bump_snapshot
  /\ SetHand(c, [hand[c] EXCEPT !.pc = IF hand[c].kind = "register" THEN "online" ELSE "ask"])
  /\ UNCHANGED <<ver, row, task, broadcastVars, sock, online, leaked, channelVars, rt, events, historyVars>>

\* Register: the session joins the node's online sessions.
HandleOnline(c) ==
  /\ hand[c].pc = "online"
  /\ online' = [online EXCEPT ![c] = TRUE]
  /\ ver' = IF WasOnline THEN ver ELSE ver + 1
  /\ SetHand(c, [hand[c] EXCEPT !.pc = "load", !.need = hand[c].need \/ ~WasOnline])
  /\ UNCHANGED <<gen, row, task, broadcastVars, sock, leaked, channelVars, rt, events, historyVars>>

\* RequestSnapshot and ListPeers.
HandleQuery(c) ==
  /\ hand[c].pc = "read" /\ up[c] # <<>>
  /\ Head(up[c]).kind \in {"request", "list"}
  /\ up' = [up EXCEPT ![c] = Tail(@)]
  /\ \/ /\ Head(up[c]).kind = "request"
        /\ SetHand(c, [hand[c] EXCEPT !.pc = "load", !.kind = "request", !.need = FALSE])
        /\ wire' = wire
     \/ /\ Head(up[c]).kind = "list"
        /\ wire' = [wire EXCEPT ![c] = Queue(c, Message("list", NoSnapshot))]
        /\ hand' = hand
  /\ UNCHANGED <<registryVars, broadcastVars, sock, online, leaked, slot, rt, events, historyVars>>

\* online_peer_ids; load_peers and network_config in network_snapshot
HandleLoad(c) ==
  /\ hand[c].pc = "load"
  /\ SetHand(c, [hand[c] EXCEPT !.pc = "reply", !.seen = ver])
  /\ UNCHANGED <<registryVars, broadcastVars, sock, online, leaked, channelVars, rt, events, historyVars>>

ReplyKind(kind) == [register |-> "ok", update |-> "snap", request |-> "resp"][kind]

\* The generation is read and the answer queued.
HandleReply(c) ==
  /\ hand[c].pc = "reply"
  /\ wire' = [wire EXCEPT ![c] =
       Queue(c, Message(ReplyKind(hand[c].kind), Snapshot(gen, hand[c].seen)))]
  /\ told' = IF hand[c].kind = "register" /\ sock[c] = "open" THEN [told EXCEPT ![c] = Newest(@, hand[c].seen)] ELSE told
  /\ SetHand(c, [Idle EXCEPT
       !.pc = IF hand[c].kind = "register" /\ hand[c].need THEN "ask" ELSE "read",
       !.registered = hand[c].registered \/ hand[c].kind = "register"])
  /\ UNCHANGED <<registryVars, broadcastVars, sock, online, leaked, up, slot, rt, events, asked, covered, joined>>

\* The writer task has met the broken connection and is gone: the handler
\* returns ConnectionClosed. A Register that ends so never sets `registered',
\* though its session is already online.
HandleReplyFails(c) ==
  /\ hand[c].pc = "reply" /\ sock[c] = "broken"
  /\ SetHand(c, Served(hand[c]))
  /\ UNCHANGED <<registryVars, broadcastVars, sock, online, leaked, channelVars, rt, events, historyVars>>

HandleAsk(c) ==
  /\ hand[c].pc = "ask"
  /\ broadcast_snapshot
  /\ SetHand(c, IF sock[c] = "closing" THEN Ended ELSE Served(hand[c]))
  /\ UNCHANGED <<registryVars, senders, draft, sock, online, leaked, channelVars, rt, events, covered, told, joined>>

(* Mutant: the end of one session takes the node's others offline *)
HandleEndForgetsNode(c) ==
  /\ hand[c].pc = "read" /\ sock[c] = "broken"
  /\ ver' = IF hand[c].registered THEN ver + 1 ELSE ver
  /\ SetHand(c, IF hand[c].registered THEN [Idle EXCEPT !.pc = "bump", !.kind = "end"] ELSE Ended)
  /\ online' = [d \in Conns |-> FALSE]
  /\ sock' = [sock EXCEPT ![c] = "closing"]
  /\ up' = [up EXCEPT ![c] = <<>>]
  /\ UNCHANGED <<gen, row, task, broadcastVars, leaked, slot, wire, rt, events, historyVars>>

\* The read half ends: the session leaves the online set, and the node goes
\* offline with its last session.
HandleEnd(c) ==
  /\ hand[c].pc = "read" /\ sock[c] = "broken"
  /\ LET last == hand[c].registered /\ ~leaked /\ \A d \in Conns \ {c} : ~online[d]
     IN  /\ ver' = IF last THEN ver + 1 ELSE ver
         /\ hand' = [hand EXCEPT ![c] = IF last THEN [Idle EXCEPT !.pc = "bump", !.kind = "end"]
                                                ELSE Ended]
  /\ leaked' = (leaked \/ (online[c] /\ ~hand[c].registered))
  /\ online' = [online EXCEPT ![c] = FALSE]
  /\ sock' = [sock EXCEPT ![c] = "closing"]
  /\ up' = [up EXCEPT ![c] = <<>>]
  /\ UNCHANGED <<gen, row, task, broadcastVars, slot, wire, rt, events, historyVars>>

\* The writer task: the slot is looked at when the control queue is empty.
WriterSnapshot(c) ==
  /\ slot[c] # NoSnapshot /\ sock[c] = "open" /\ Len(wire[c]) < WireCap
  /\ wire' = [wire EXCEPT ![c] = Append(@, Message("snap", slot[c]))]
  /\ slot' = [slot EXCEPT ![c] = NoSnapshot]
  /\ UNCHANGED <<registryVars, broadcastVars, sessionVars, up, rt, events, historyVars>>

\* A connection without its contents.
Cut(cs) ==
  /\ sock' = [c \in Conns |-> IF c \in cs /\ sock[c] = "open" THEN "broken" ELSE sock[c]]
  /\ slot' = [c \in Conns |-> IF c \in cs THEN NoSnapshot ELSE slot[c]]
  /\ told' = [c \in Conns |-> IF c \in cs THEN 0 ELSE told[c]]

\* The network cuts a connection, or its heartbeat fails; what was under way
\* in either direction is lost.
Break(c) ==
  /\ sock[c] = "open" /\ Event("break")
  /\ Cut({c})
  /\ up' = [up EXCEPT ![c] = <<>>]
  /\ wire' = [wire EXCEPT ![c] = <<>>]
  /\ UNCHANGED <<registryVars, broadcastVars, hand, online, leaked, rt, asked, covered, joined>>

-----------------------------------------------------------------------------
(* The coordination client and the runtime loop *)

serverVars == <<registryVars, broadcastVars, hand, online, leaked, asked, covered, joined>>
Free(c) == /\ hand[c].pc = "ended" /\ sock[c] # "open" /\ c \notin senders
           /\ rt.conn # c /\ rt.repl # c
\* The connection the client is waiting on.
Current == IF rt.repl # None THEN rt.repl ELSE rt.conn
Ask(c, kind, life, cand) == up' = [up EXCEPT ![c] = Append(@, Request(kind, life, cand))]

\* connect_with_doh and the Register request on a fresh connection.
OpenOn(c, life, cand) ==
  /\ Free(c)
  /\ sock' = [sock EXCEPT ![c] = "open"]
  /\ hand' = [hand EXCEPT ![c] = Idle]
  /\ up' = [up EXCEPT ![c] = <<Request("register", life, cand)>>]
  /\ slot' = [slot EXCEPT ![c] = NoSnapshot]
  /\ wire' = [wire EXCEPT ![c] = <<>>]
  /\ told' = [told EXCEPT ![c] = 0]
  /\ UNCHANGED <<registryVars, broadcastVars, online, leaked, events, asked, covered, joined>>

\* The supervisor starts a runtime: a new node, a new incarnation.
Start(c) ==
  /\ rt.st = "down" /\ rt.lives < MaxLives
  /\ OpenOn(c, rt.lives + 1, rt.cand)
  /\ rt' = [Down(rt.lives + 1) EXCEPT !.st = "register", !.conn = c]

(* Mutant: a new connection only once the old one is seen closed *)
ReconnectWhenClosed(c) ==
  /\ rt.st = "offline" /\ sock[rt.conn] # "open"
  /\ OpenOn(c, rt.lives, rt.cand)
  /\ rt' = [rt EXCEPT !.st = "register", !.why = "reconnect", !.repl = c]

\* The reconnect timer fires: a second connection, used once it registered.
Reconnect(c) ==
  /\ rt.st = "offline"
  /\ OpenOn(c, rt.lives, rt.cand)
  /\ rt' = [rt EXCEPT !.st = "register", !.why = "reconnect", !.repl = c]

\* The client drops connections: the requests it sent may still be handled.
\* `left' are the messages of the connections it keeps.
Drop(cs, left) ==
  /\ Cut(cs)
  /\ wire' = [c \in Conns |-> IF c \in cs THEN <<>> ELSE left[c]]

\* The runtime ends with an error that is not retryable.
Die == /\ rt' = Down(rt.lives)
       /\ Drop({rt.conn, rt.repl}, wire)

\* request_snapshot, by a runtime that goes on as r with s set aside.
RequestSnapshot(r, c, s) ==
  /\ Ask(c, "request", r.lives, r.cand)
  /\ rt' = [r EXCEPT !.st = "snapshot", !.next = r.cand, !.since = ver, !.set = s]

\* refresh_candidates: unchanged candidates only ask for the snapshot.
StartRefresh(r, c, s) ==
  \/ events' = events /\ RequestSnapshot(r, c, s)
  \/ /\ Event("candidates")
     /\ Ask(c, "update", r.lives, r.cand + 1)
     /\ rt' = [r EXCEPT !.st = "update", !.next = r.cand + 1, !.since = ver, !.set = s]

\* VelaNode::apply_snapshot refuses only a smaller generation.
Acceptable(s) == s.gen >= rt.applied.gen

(* Mutant: the queue grows by every snapshot set aside *)
enqueue_pending_all(set, m) == Append(set, m)

\* One snapshot is kept among the messages set aside, in the place of the first.
enqueue_pending(set, m) ==
  IF m.kind = "snap" /\ \E i \in DOMAIN set : set[i].kind = "snap"
    THEN [i \in DOMAIN set |-> IF set[i].kind = "snap" THEN m ELSE set[i]]
    ELSE Append(set, m)

Rest(c) == [wire EXCEPT ![c] = Tail(@)]
Took(c) == wire' = Rest(c) /\ UNCHANGED <<sock, slot, told>>

\* register_with_incarnation: anything but RegisterOk is an error. A refresh
\* follows at once.
RecvRegister ==
  /\ rt.st = "register" /\ wire[Current] # <<>>
  /\ LET m == Head(wire[Current])
     IN  \/ /\ m.kind = "ok" /\ Acceptable(m.snap)
            /\ StartRefresh([rt EXCEPT !.conn = Current, !.repl = None, !.applied = m.snap],
                            Current, <<>>)
            /\ Drop({rt.conn} \ {Current}, Rest(Current))
         \/ /\ m.kind # "ok" \/ ~Acceptable(m.snap)
            /\ Die /\ UNCHANGED <<up, events>>
  /\ UNCHANGED serverVars

\* What follows a refresh: a started or reconnected runtime and one whose
\* snapshot had expired hand the applied snapshot to the route watcher, a
\* periodic refresh does not.
Refreshed(s) ==
  [rt EXCEPT !.st = IF rt.why = "open" THEN "list" ELSE "idle",
             !.applied = s, !.cand = rt.next, !.next = 0, !.since = 0,
             !.why = IF rt.why = "open" THEN "open" ELSE "tick",
             !.published = IF rt.why \in {"reconnect", "expired"} THEN s ELSE rt.published]

\* request_snapshot_inner. Changed settings in the answer of an expired
\* snapshot lead to a refresh; which snapshots change them is left open.
RecvSnapshotResponse ==
  /\ rt.st = "snapshot" /\ wire[rt.conn] # <<>>
  /\ LET m == Head(wire[rt.conn])
     IN  \/ /\ m.kind = "resp" /\ Acceptable(m.snap)
            /\ rt' = Refreshed(m.snap)
            /\ up' = IF rt.why = "open"
                       THEN [up EXCEPT ![rt.conn] = Append(@, Request("list", rt.lives, 0))]
                       ELSE up
            /\ Took(rt.conn) /\ events' = events
         \/ /\ m.kind = "resp" /\ Acceptable(m.snap)
            /\ rt.why = "expired"
            /\ StartRefresh([Refreshed(m.snap) EXCEPT !.why = "config"], rt.conn, rt.set)
            /\ Took(rt.conn)
         \/ /\ m.kind \in {"snap", "signal"}
            /\ rt' = [rt EXCEPT !.set = enqueue_pending(rt.set, m)]
            /\ Took(rt.conn) /\ UNCHANGED <<up, events>>
         \/ /\ m.kind \notin {"resp", "snap", "signal"} \/ (m.kind = "resp" /\ ~Acceptable(m.snap))
            /\ Die /\ UNCHANGED <<up, events>>
  /\ UNCHANGED serverVars

\* update_candidates_and_get_snapshot_inner: the first Snapshot is the answer.
RecvUpdateAnswer ==
  /\ rt.st = "update" /\ wire[rt.conn] # <<>>
  /\ LET m == Head(wire[rt.conn])
     IN  \/ /\ m.kind = "snap" /\ Acceptable(m.snap)
            /\ rt' = Refreshed(m.snap)
            /\ up' = IF rt.why = "open"
                       THEN [up EXCEPT ![rt.conn] = Append(@, Request("list", rt.lives, 0))]
                       ELSE up
            /\ Took(rt.conn)
         \/ /\ m.kind = "signal"
            /\ rt' = [rt EXCEPT !.set = Append(@, m)]
            /\ Took(rt.conn) /\ up' = up
         \/ /\ m.kind \notin {"snap", "signal"} \/ (m.kind = "snap" /\ ~Acceptable(m.snap))
            /\ Die /\ up' = up
  /\ UNCHANGED <<serverVars, events>>

\* list_peers_inner drops ConnectSignals. The first list of a runtime is
\* part of its start, which creates the watch with the applied snapshot.
RecvList ==
  /\ rt.st = "list" /\ wire[rt.conn] # <<>>
  /\ LET m == Head(wire[rt.conn])
     IN  \/ /\ m.kind = "list"
            /\ rt' = [rt EXCEPT !.st = "idle",
                                !.published = IF rt.why = "open" THEN rt.applied ELSE @,
                                !.why = "tick"]
            /\ Took(rt.conn)
         \/ /\ m.kind = "signal"
            /\ Took(rt.conn) /\ rt' = rt
         \/ /\ m.kind = "snap"
            /\ rt' = [rt EXCEPT !.set = enqueue_pending(rt.set, m)]
            /\ Took(rt.conn)
         \/ /\ m.kind \notin {"list", "signal", "snap"}
            /\ Die
  /\ UNCHANGED <<serverVars, up, events>>

\* run_loop handles one message: a Snapshot is applied and published, and
\* changed settings (any Snapshot may change them) lead to a refresh; a
\* ConnectSignal starts a connection.
HandleMessage(m, rest) ==
  LET r == [rt EXCEPT !.applied = m.snap, !.published = m.snap, !.set = rest]
  IN  \/ /\ m.kind = "snap"
         /\ \/ rt' = r /\ UNCHANGED <<up, events>>
            \/ StartRefresh([r EXCEPT !.why = "config"], rt.conn, rest)
      \/ /\ m.kind # "snap"
         /\ rt' = [rt EXCEPT !.set = rest] /\ UNCHANGED <<up, events>>

\* CoordinationClient::recv: messages set aside come first. A snapshot of a
\* smaller generation ends the runtime.
RecvIdle ==
  /\ rt.st = "idle" /\ rt.set \o wire[rt.conn] # <<>>
  /\ LET m == Head(rt.set \o wire[rt.conn])
     IN  IF m.kind = "snap" /\ ~Acceptable(m.snap)
           THEN Die /\ UNCHANGED <<up, events>>
           ELSE \/ /\ rt.set # <<>>
                   /\ HandleMessage(m, Tail(rt.set))
                   /\ UNCHANGED <<wire, sock, slot, told>>
                \/ /\ rt.set = <<>>
                   /\ HandleMessage(m, <<>>)
                   /\ Took(rt.conn)
  /\ UNCHANGED serverVars

\* The periodic refresh of the candidates.
Refresh ==
  /\ rt.st = "idle"
  /\ StartRefresh([rt EXCEPT !.why = "tick"], rt.conn, rt.set)
  /\ UNCHANGED <<serverVars, sock, slot, wire, told>>

\* SnapshotExpired: the forwarding loop met a snapshot past its expiry.
SnapshotExpired ==
  /\ rt.st = "idle" /\ Event("expired")
  /\ RequestSnapshot([rt EXCEPT !.why = "expired"], rt.conn, rt.set)
  /\ UNCHANGED <<serverVars, sock, slot, wire, told>>

\* The list of the dashboard, every few seconds; lookup_peer waits the same
\* way for its answer.
ListPeers ==
  /\ rt.st = "idle" /\ Event("list")
  /\ Ask(rt.conn, "list", rt.lives, 0)
  /\ rt' = [rt EXCEPT !.st = "list", !.why = "tick"]
  /\ UNCHANGED <<serverVars, sock, slot, wire, told>>

\* A snapshot whose parts were read around a change need not validate: one
\* online id without a record, or one address for two peers. The error is not
\* retryable.
RecvInvalid ==
  /\ \/ rt.st = "idle" /\ rt.set \o wire[rt.conn] # <<>>
        /\ Head(rt.set \o wire[rt.conn]).kind = "snap"
     \/ /\ rt.st \in {"register", "snapshot", "update"} /\ wire[Current] # <<>>
        /\ Head(wire[Current]).kind = [register |-> "ok", snapshot |-> "resp", update |-> "snap"][rt.st]
  /\ Event("invalid")
  /\ Die
  /\ UNCHANGED <<serverVars, up>>

Waiting == rt.st \in {"register", "snapshot", "update", "list"}

\* A retryable error: a starting runtime fails, a failed replacement is
\* dropped, a running one goes offline and keeps its old connection until
\* the replacement has registered.
Retryable ==
  \/ rt.why = "open" /\ Die
  \/ /\ rt.why # "open"
     /\ rt' = [rt EXCEPT !.st = "offline", !.why = "tick", !.repl = None,
                         !.next = 0, !.since = 0]
     /\ Drop({rt.repl}, wire)

(* Mutant: after a timeout the runtime goes on with the same connection *)
TimeoutKeepsConnection ==
  /\ Waiting /\ Event("timeout")
  /\ rt' = [rt EXCEPT !.st = "idle"]
  /\ UNCHANGED <<serverVars, sock, channelVars, told>>

\* A request is not answered in time.
Timeout ==
  /\ Waiting /\ Event("timeout")
  /\ Retryable
  /\ UNCHANGED <<serverVars, up>>

\* The client notices that its connection is gone.
SeeClosed ==
  /\ (Waiting \/ rt.st = "idle") /\ sock[Current] # "open"
  /\ Retryable
  /\ UNCHANGED <<serverVars, up, events>>

ClientRecv == RecvRegister \/ RecvSnapshotResponse \/ RecvUpdateAnswer \/ RecvList \/ RecvIdle

Broadcaster == BroadcastWake \/ BroadcastSend \/ BroadcastCheck
TaskGoesOn(t) == TaskBump(t) \/ TaskOnline(t) \/ TaskAsk(t)
Handler(c) ==
  \/ HandleStore(c) \/ HandleBump(c) \/ HandleOnline(c) \/ HandleQuery(c)
  \/ HandleLoad(c) \/ HandleReply(c) \/ HandleReplyFails(c) \/ HandleAsk(c) \/ HandleEnd(c)

Next ==
  \/ Broadcaster \/ BroadcastFail
  \/ \E t \in Tasks : TaskStore(t) \/ TaskLeave(t) \/ TaskGoesOn(t)
  \/ Signal
  \/ \E c \in Conns : Handler(c) \/ WriterSnapshot(c) \/ Break(c)
                      \/ Start(c) \/ Reconnect(c)
  \/ ClientRecv \/ Refresh \/ SnapshotExpired \/ ListPeers
  \/ RecvInvalid \/ Timeout \/ SeeClosed

Spec == Init /\ [][Next]_vars

(* Every task of the two processes goes on when it can; a started change is *)
(* finished, an interval that has elapsed is taken by select! in the end.   *)
Fairness ==
  /\ WF_vars(Broadcaster)
  /\ \A t \in Tasks : WF_vars(TaskGoesOn(t))
  /\ \A c \in Conns : WF_vars(Handler(c)) /\ WF_vars(WriterSnapshot(c))
  /\ WF_vars(\E c \in Conns : Start(c)) /\ WF_vars(\E c \in Conns : Reconnect(c))
  /\ WF_vars(ClientRecv) /\ SF_vars(Refresh) /\ WF_vars(SeeClosed)

FairSpec == Spec /\ Fairness

-----------------------------------------------------------------------------
Snapshots == [gen : Nat, ver : Nat]
Messages == [kind : {"ok", "snap", "resp", "list", "signal"}, snap : Snapshots]

(* Types of the registry, the broadcaster, the sessions and the runtime.    *)
TypeOK ==
  /\ ver \in Nat /\ gen \in Nat
  /\ row \in [life : 0 .. MaxLives, cand : 0 .. MaxEvents]
  /\ task \in [Tasks -> {"idle", "edit", "join", "leave", "online", "ask"}]
  /\ pending \in BOOLEAN /\ running \in BOOLEAN
  /\ loop \in {"stopped", "sleep", "send", "check"}
  /\ senders \subseteq Conns /\ draft \in Nat
  /\ sock \in [Conns -> {"none", "open", "broken", "closing"}]
  /\ online \in [Conns -> BOOLEAN] /\ leaked \in BOOLEAN
  /\ \A c \in Conns :
       /\ hand[c].pc \in {"read", "bump", "online", "load", "reply", "ask", "ended"}
       /\ slot[c] \in Snapshots
       /\ \A i \in DOMAIN wire[c] : wire[c][i] \in Messages
  /\ rt.st \in {"down", "register", "snapshot", "update", "list", "idle", "offline"}
  /\ rt.applied \in Snapshots /\ rt.published \in Snapshots
  /\ \A i, j \in DOMAIN rt.set : rt.set[i].kind = "snap" /\ rt.set[j].kind = "snap" => i = j
  /\ events \in 0 .. MaxEvents

(* A requested broadcast is never lost (broadcast_snapshot against           *)
(* snapshot_broadcast_loop): what was asked for has been read by a finished  *)
(* broadcast, or is being read, or the request is still pending with the     *)
(* broadcaster running.                                                      *)
NoLostBroadcast ==
  /\ pending => running
  /\ running <=> loop # "stopped"
  /\ \/ covered >= asked
     \/ pending
     \/ loop = "send" /\ draft >= asked

(* No connected session is left behind: a session whose registration was     *)
(* answered is in the online map until its handler ends, and what broadcasts *)
(* were asked for was pushed to it, was in its RegisterOk, or is on its way: *)
(* a session that came after the broadcaster collected its senders must have *)
(* read the registry itself.                                                 *)
NoSessionLeftBehind ==
  \A c \in Conns :
    (sock[c] = "open" /\ hand[c].registered) =>
      /\ online[c]
      /\ \/ told[c] >= asked
         \/ pending
         \/ loop = "send" /\ c \in senders

(* The answer to request_snapshot is not older than the request: requests    *)
(* and answers are matched only by their order on the connection, so a       *)
(* connection whose request timed out must not be used again.                *)
ResponseIsFresh ==
  (rt.st = "snapshot") =>
    \A i \in DOMAIN wire[rt.conn] :
      wire[rt.conn][i].kind = "resp" => wire[rt.conn][i].snap.ver >= rt.since

Converged == rt.applied.ver = ver
NoMoreLives == rt.st = "down" /\ rt.lives = MaxLives

(* Once the changes stop, the node works with the registry's present content *)
(* for good, though snapshots of the same generation may differ and older    *)
(* ones may arrive later (apply_snapshot accepts an equal generation) —      *)
(* unless its last runtime was ended by an error.                            *)
Converges == <>[](Converged \/ NoMoreLives)

Quiet ==
  /\ rt.st = "idle" /\ rt.set = <<>>
  /\ ~running
  /\ \A t \in Tasks : task[t] = "idle"
  /\ \A c \in Conns : /\ hand[c].pc \in {"read", "ended"}
                      /\ up[c] = <<>> /\ slot[c] = NoSnapshot /\ wire[c] = <<>>

(* The routes follow the snapshot ("installs one host route for every remote *)
(* peer record in that snapshot"): when nothing is left to be delivered, the *)
(* snapshot the route watcher was given has every other peer's record that   *)
(* the snapshot the node works with has.                                     *)
RoutesFollowSnapshot ==
  Quiet => ~(rt.published.ver < joined /\ joined <= rt.applied.ver)
=============================================================================
