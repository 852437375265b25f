------------------------- MODULE ControlPlaneProofs -------------------------
(***************************************************************************)
(* Theorems about ControlPlane for any number of handlers, connections and *)
(* events.                                                                 *)
(*                                                                         *)
(* NoLostBroadcast: a finished broadcast replaces what the last one        *)
(* covered by what it read, so the invariant must know that a broadcast    *)
(* under way has read everything asked for before it, or another request   *)
(* is pending (ReadsWhatWasAsked), and that nothing is asked for before it *)
(* is stored.                                                              *)
(*                                                                         *)
(* NoSessionLeftBehind: the danger is a session that goes online after the *)
(* broadcaster has collected its senders. Register joins the online map    *)
(* before it reads the registry for RegisterOk, so between the two the     *)
(* invariant follows the handler: an answer that is ready holds what was   *)
(* asked for, or a broadcast that counts the session among its senders is  *)
(* still to come.                                                          *)
(*                                                                         *)
(* The second half prepares ControlClientProofs: what the channels hold,   *)
(* and that every step of the coordinator keeps ClientInv.                 *)
(***************************************************************************)
EXTENDS ControlPlane, TLAPS

Types ==
  /\ ver \in Nat /\ draft \in Nat /\ asked \in Nat /\ covered \in Nat
  /\ pending \in BOOLEAN /\ running \in BOOLEAN

ReadsWhatWasAsked ==
  /\ asked <= ver
  /\ loop = "send" => pending \/ draft >= asked

Inv == Types /\ ReadsWhatWasAsked /\ NoLostBroadcast

\* What a step that does not touch the broadcaster does: the registry's
\* content may grow.
Apart ==
  /\ ver' \in {ver, ver + 1}
  /\ UNCHANGED <<broadcastVars, asked, covered>>

\* The handlers of others that store a change leave the broadcaster alone.
LEMMA TasksApart ==
  ASSUME NEW t \in Tasks, TaskStore(t) \/ TaskLeave(t) \/ TaskBump(t) \/ TaskOnline(t)
  PROVE  Apart
BY Zenon DEF TaskStore, TaskLeave, TaskBump, TaskOnline, Apart, broadcastVars, historyVars

\* So do the peer's own handlers that store its row or its online sessions.
LEMMA StoringApart ==
  ASSUME NEW c \in Conns,
         HandleStore(c) \/ HandleBump(c) \/ HandleOnline(c) \/ HandleEnd(c)
  PROVE  Apart
<1>1. CASE HandleStore(c)
  BY <1>1, Zenon DEF HandleStore, Apart, broadcastVars, historyVars
<1>2. CASE HandleBump(c)
  BY <1>2, Zenon DEF HandleBump, Apart, broadcastVars, historyVars
<1>3. CASE HandleOnline(c)
  BY <1>3, Zenon DEF HandleOnline, Apart, broadcastVars, historyVars
<1>4. CASE HandleEnd(c)
  BY <1>4, Zenon DEF HandleEnd, Apart, broadcastVars, historyVars
<1> QED
  BY <1>1, <1>2, <1>3, <1>4

\* So do the handlers that answer, the writer, and the network.
LEMMA SessionApart ==
  ASSUME NEW c \in Conns,
         \/ HandleQuery(c) \/ HandleLoad(c) \/ HandleReply(c) \/ HandleReplyFails(c)
         \/ WriterSnapshot(c) \/ Break(c)
  PROVE  Apart
BY Zenon DEF HandleQuery, HandleLoad, HandleReply, HandleReplyFails, WriterSnapshot, Break,
       Apart, registryVars, broadcastVars, historyVars

\* So does the client.
LEMMA ClientApart ==
  ASSUME \/ \E c \in Conns : Start(c) \/ Reconnect(c)
         \/ ClientRecv \/ Refresh \/ SnapshotExpired \/ ListPeers \/ RecvInvalid \/ Timeout \/ SeeClosed
  PROVE  Apart
BY Zenon DEF Start, Reconnect, OpenOn, ClientRecv, RecvRegister, RecvSnapshotResponse,
       RecvUpdateAnswer, RecvList, RecvIdle, Refresh, SnapshotExpired, ListPeers, RecvInvalid, Timeout, SeeClosed,
       serverVars, Apart, registryVars, broadcastVars

\* broadcast_snapshot: a request is pending and the broadcaster runs.
LEMMA AskStep ==
  ASSUME Inv, broadcast_snapshot, UNCHANGED <<ver, senders, draft, covered>>
  PROVE  Inv'
BY DEF Inv, Types, ReadsWhatWasAsked, NoLostBroadcast, broadcast_snapshot

\* The invariant holds initially.
LEMMA InvInit == Init => Inv
<1> SUFFICES ASSUME Init PROVE Inv
  OBVIOUS
<1>1. /\ ver = 1 /\ draft = 0 /\ asked = 1 /\ covered = 1
      /\ pending = FALSE /\ running = FALSE /\ loop = "stopped"
  BY Zenon DEF Init
<1>2. ver \in Nat /\ draft \in Nat /\ asked \in Nat /\ covered \in Nat
  BY <1>1
<1>3. asked <= ver /\ covered >= asked
  BY <1>1
<1>4. loop # "send" /\ loop = "stopped"
  BY <1>1
<1> QED
  BY <1>1, <1>2, <1>3, <1>4, Zenon DEF Inv, Types, ReadsWhatWasAsked, NoLostBroadcast

\* Every step keeps it.
LEMMA InvStep == Inv /\ [Next]_vars => Inv'
<1> SUFFICES ASSUME Inv, [Next]_vars PROVE Inv'
  OBVIOUS
<1>1. ASSUME Apart PROVE Inv'
  BY <1>1 DEF Apart, broadcastVars, Inv, Types, ReadsWhatWasAsked, NoLostBroadcast
<1>2. ASSUME NEW t \in Tasks, TaskStore(t) \/ TaskLeave(t) \/ TaskBump(t) \/ TaskOnline(t)
      PROVE  Inv'
  BY <1>1, <1>2, TasksApart
<1>3. CASE BroadcastWake
  BY <1>3, Zenon DEF BroadcastWake, registryVars, historyVars, Inv, Types, ReadsWhatWasAsked, NoLostBroadcast
<1>4. CASE BroadcastFail
  BY <1>4 DEF BroadcastFail, registryVars, historyVars, Inv, Types, ReadsWhatWasAsked, NoLostBroadcast
<1>5. CASE BroadcastSend
  BY <1>5 DEF BroadcastSend, registryVars, Inv, Types, ReadsWhatWasAsked, NoLostBroadcast
<1>6. CASE BroadcastCheck
  BY <1>6 DEF BroadcastCheck, registryVars, historyVars, Inv, Types, ReadsWhatWasAsked, NoLostBroadcast
<1>7. ASSUME NEW t \in Tasks, TaskAsk(t) PROVE Inv'
  <2>1. broadcast_snapshot /\ UNCHANGED <<ver, senders, draft, covered>>
    BY <1>7 DEF TaskAsk
  <2> QED
    BY <2>1, AskStep
<1>8. ASSUME NEW c \in Conns, HandleAsk(c) PROVE Inv'
  <2>1. broadcast_snapshot /\ UNCHANGED <<ver, senders, draft, covered>>
    BY <1>8 DEF HandleAsk, registryVars
  <2> QED
    BY <2>1, AskStep
<1>9. ASSUME NEW c \in Conns,
             HandleStore(c) \/ HandleBump(c) \/ HandleOnline(c) \/ HandleEnd(c)
      PROVE  Inv'
  BY <1>1, <1>9, StoringApart
<1>10. ASSUME NEW c \in Conns,
              \/ HandleQuery(c) \/ HandleLoad(c) \/ HandleReply(c) \/ HandleReplyFails(c)
              \/ WriterSnapshot(c) \/ Break(c)
       PROVE  Inv'
  BY <1>1, <1>10, SessionApart
<1>11. CASE Signal
  BY <1>1, <1>11, Zenon DEF Signal, Apart, registryVars, broadcastVars, historyVars
<1>12. ASSUME \/ \E c \in Conns : Start(c) \/ Reconnect(c)
              \/ ClientRecv \/ Refresh \/ SnapshotExpired \/ ListPeers \/ RecvInvalid \/ Timeout \/ SeeClosed
       PROVE  Inv'
  BY <1>1, <1>12, ClientApart
<1>13. CASE UNCHANGED vars
  <2>1. Apart
    BY <1>13, Zenon DEF vars, Apart, registryVars, broadcastVars, historyVars
  <2> QED
    BY <2>1, <1>1
<1> QED
  BY <1>2, <1>3, <1>4, <1>5, <1>6, <1>7, <1>8, <1>9, <1>10, <1>11, <1>12, <1>13, Zenon
     DEF Next, Broadcaster, TaskGoesOn, Handler

\* A requested broadcast is never lost, for any handlers and connections
\* (broadcast_snapshot against snapshot_broadcast_loop).
THEOREM BroadcastsAreNotLost == Spec => []NoLostBroadcast
<1>1. Inv => NoLostBroadcast
  BY DEF Inv
<1> QED
  BY <1>1, InvInit, InvStep, PTL DEF Spec

-----------------------------------------------------------------------------
(* What the sessions are told *)

Steps == {"read", "bump", "online", "load", "reply", "ask", "ended"}
Links == {"none", "open", "broken", "closing"}
Requests == {"none", "register", "update", "request", "end"}
Handlers == [pc : Steps, kind : Requests, need : BOOLEAN, registered : BOOLEAN, seen : Nat]

SessionTypes ==
  /\ hand \in [Conns -> Handlers]
  /\ told \in [Conns -> Nat]
  /\ sock \in [Conns -> Links]
  /\ online \in [Conns -> BOOLEAN]

Registering(c) == hand[c].kind = "register"
PushComing(c) == pending \/ (loop = "send" /\ c \in senders)

\* What the handler of a session owes to it at each of its steps.
SessionServed(c) ==
  /\ hand[c].pc \in {"load", "reply"} /\ Registering(c) => online[c]
  /\ (hand[c].pc = "reply" /\ Registering(c) /\ sock[c] = "open") =>
       told[c] >= asked \/ hand[c].seen >= asked \/ PushComing(c)
  /\ (sock[c] = "open" /\ hand[c].registered) =>
       online[c] /\ (told[c] >= asked \/ PushComing(c))

SessionInv == SessionTypes /\ \A c \in Conns : SessionServed(c)

\* The handlers and the sessions are left alone, or connections are lost.
Undisturbed ==
  /\ UNCHANGED <<hand, online, pending, loop, senders, asked>>
  /\ sock' \in [Conns -> Links] /\ told' \in [Conns -> Nat]
  /\ \A c \in Conns : sock'[c] = "open" => sock[c] = "open" /\ told'[c] = told[c]

\* Then every session keeps what it has.
LEMMA UndisturbedStep == SessionInv /\ Undisturbed => SessionInv'
BY DEF SessionInv, SessionTypes, SessionServed, Registering, PushComing, Undisturbed

\* Only connection c and its handler, which becomes h, change.
Only(c, h) ==
  /\ hand' = [hand EXCEPT ![c] = h]
  /\ h \in Handlers
  /\ UNCHANGED <<pending, loop, senders, asked>>
  /\ sock' \in [Conns -> Links] /\ told' \in [Conns -> Nat] /\ online' \in [Conns -> BOOLEAN]
  /\ \A d \in Conns \ {c} : sock'[d] = sock[d] /\ told'[d] = told[d] /\ online'[d] = online[d]

\* Then only that session has to be looked at.
LEMMA OnlyStep ==
  ASSUME NEW c \in Conns, NEW h, SessionInv, Only(c, h), SessionServed(c)'
  PROVE  SessionInv'
<1>1. SessionTypes'
  BY DEF SessionInv, SessionTypes, Only
<1>2. ASSUME NEW d \in Conns, d # c PROVE SessionServed(d)'
  BY <1>2 DEF SessionInv, SessionTypes, SessionServed, Registering, PushComing, Only
<1> QED
  BY <1>1, <1>2, Zenon DEF SessionInv

\* The fields of the handler records the actions build.
LEMMA IdleFields ==
  /\ Idle \in Handlers /\ Idle.pc = "read" /\ Idle.kind = "none" /\ ~Idle.registered
<1>2. Idle \in Handlers
  BY SMT DEF Idle, Handlers, Steps, Requests
<1>3. Idle.pc = "read" /\ Idle.kind = "none" /\ ~Idle.registered
  BY Zenon DEF Idle
<1> QED
  BY <1>2, <1>3, Zenon

\* A handler that ended.
LEMMA EndedFields ==
  Ended \in Handlers /\ Ended.pc = "ended" /\ ~Ended.registered
<1>1. ASSUME NEW h \in Handlers
      PROVE  LET n == [h EXCEPT !.pc = "ended"]
             IN  n \in Handlers /\ n.pc = "ended" /\ n.registered = h.registered
  BY DEF Handlers, Steps, Requests
<1> QED
  BY <1>1, IdleFields, Zenon DEF Ended

\* The last session of the node ended.
LEMMA LeavingFields ==
  LET n == [Idle EXCEPT !.pc = "bump", !.kind = "end"]
  IN  n \in Handlers /\ n.pc = "bump" /\ n.kind = "end" /\ ~n.registered
<1>1. ASSUME NEW h \in Handlers
      PROVE  LET n == [h EXCEPT !.pc = "bump", !.kind = "end"]
             IN  n \in Handlers /\ n.pc = "bump" /\ n.kind = "end" /\ n.registered = h.registered
  BY Zenon DEF Handlers, Steps, Requests
<1> QED
  BY <1>1, IdleFields, Zenon

\* A handler that is done with a request.
LEMMA ServedFields ==
  ASSUME NEW h \in Handlers
  PROVE  Served(h) \in Handlers /\ Served(h).pc = "read" /\ Served(h).registered = h.registered
BY IdleFields DEF Served, Handlers

-----------------------------------------------------------------------------
\* The broadcaster: with a request taken every online session is a sender,
\* and what is sent holds what was asked for, or another request is pending.
LEMMA BroadcasterStep ==
  ASSUME Inv, SessionInv, Broadcaster \/ BroadcastFail
  PROVE  SessionInv'
<1> USE DEF SessionInv, SessionTypes, SessionServed, Registering, PushComing, sessionVars, historyVars
<1>1. CASE BroadcastWake
  BY <1>1 DEF BroadcastWake
<1>2. CASE BroadcastFail
  BY <1>2 DEF BroadcastFail
<1>3. CASE BroadcastCheck
  BY <1>3 DEF BroadcastCheck
<1>4. CASE BroadcastSend
  <2>1. draft \in Nat /\ asked \in Nat /\ (pending \/ draft >= asked)
    BY <1>4 DEF Inv, Types, ReadsWhatWasAsked, BroadcastSend
  <2>2. UNCHANGED <<hand, online, sock, pending, asked>> /\ loop = "send"
    BY <1>4 DEF BroadcastSend
  <2>3. told' = [c \in Conns |-> IF c \in senders /\ sock[c] = "open"
                                   THEN Newest(told[c], draft) ELSE told[c]]
    BY <1>4 DEF BroadcastSend
  <2>4. told' \in [Conns -> Nat]
    BY <2>1, <2>3 DEF Newest
  <2>5. \A c \in Conns : /\ told'[c] >= told[c]
                         /\ c \in senders /\ sock[c] = "open" => told'[c] >= draft
    BY <2>1, <2>3 DEF Newest
  <2>6. ASSUME NEW c \in Conns PROVE SessionServed(c)'
    <3>1. told[c] \in Nat /\ told'[c] \in Nat
      BY <2>4
    <3> QED
      BY <2>1, <2>2, <2>5, <3>1
  <2> QED
    BY <2>2, <2>4, <2>6
<1> QED
  BY <1>1, <1>2, <1>3, <1>4 DEF Broadcaster

\* Others ask for a broadcast.
LEMMA TaskAskStep ==
  ASSUME SessionInv, NEW t \in Tasks, TaskAsk(t)
  PROVE  SessionInv'
BY DEF TaskAsk, broadcast_snapshot, sessionVars, SessionInv, SessionTypes, SessionServed,
       Registering, PushComing

\* The handler of the session asks for one.
LEMMA HandleAskStep ==
  ASSUME SessionInv, NEW c \in Conns, HandleAsk(c)
  PROVE  SessionInv'
<1> DEFINE h == IF sock[c] = "closing" THEN Ended ELSE Served(hand[c])
<1>1. hand[c] \in Handlers
  BY DEF SessionInv, SessionTypes
<1>2. /\ h \in Handlers /\ h.pc \notin {"load", "reply"}
      /\ h.registered => hand[c].registered
  BY <1>1, EndedFields, ServedFields
<1>3. /\ hand' = [hand EXCEPT ![c] = h] /\ pending'
      /\ UNCHANGED <<sock, online, told>>
  BY DEF HandleAsk, SetHand, broadcast_snapshot
<1> HIDE DEF h
<1> QED
  BY <1>2, <1>3 DEF SessionInv, SessionTypes, SessionServed, Registering, PushComing

\* Register and UpdateCandidates are taken from the connection.
LEMMA StoreStep ==
  ASSUME SessionInv, NEW c \in Conns, HandleStore(c)
  PROVE  SessionInv'
<1>1. hand[c] \in Handlers
  BY DEF SessionInv, SessionTypes
<1>2. PICK pc \in {"bump", "load"}, k \in {"register", "update"}, need \in BOOLEAN :
        /\ hand' = [hand EXCEPT ![c] = [hand[c] EXCEPT !.pc = pc, !.kind = k, !.need = need]]
        /\ pc = "load" => k = "update"
  <2> DEFINE m == Head(up[c])
             new == IF m.kind = "register" THEN [life |-> m.life, cand |-> m.cand]
                                           ELSE [row EXCEPT !.cand = m.cand]
             q == IF m.kind = "register" \/ new # row THEN "bump" ELSE "load"
  <2>1. /\ hand' = [hand EXCEPT ![c] =
                      [hand[c] EXCEPT !.pc = q, !.kind = m.kind, !.need = (new # row)]]
        /\ m.kind \in {"register", "update"}
    BY Zenon DEF HandleStore, SetHand
  <2>2. q \in {"bump", "load"} /\ (q = "load" => m.kind # "register")
    OBVIOUS
  <2>3. (new # row) \in BOOLEAN
    OBVIOUS
  <2> HIDE DEF q, m, new
  <2> QED
    BY <2>1, <2>2, <2>3, Zenon
<1> DEFINE h == [hand[c] EXCEPT !.pc = pc, !.kind = k, !.need = need]
<1>3. /\ h \in Handlers /\ h.pc = pc /\ h.kind = k
      /\ h.registered = hand[c].registered
  BY <1>1, Zenon DEF Handlers, Steps, Requests
<1>4. hand' = [hand EXCEPT ![c] = h]
  BY <1>2
<1>5. UNCHANGED <<sock, online, told, pending, loop, senders, asked>>
  BY Zenon DEF HandleStore, broadcastVars, historyVars
<1> HIDE DEF h
<1>6. Only(c, h)
  BY <1>3, <1>4, <1>5 DEF Only, SessionInv, SessionTypes
<1>7. hand'[c] = h
  BY <1>4 DEF SessionInv, SessionTypes
<1>8. SessionServed(c)'
  BY <1>2, <1>3, <1>5, <1>7 DEF SessionInv, SessionServed, Registering, PushComing
<1> QED
  BY <1>6, <1>8, OnlyStep

\* The generation is raised.
LEMMA BumpStep ==
  ASSUME SessionInv, NEW c \in Conns, HandleBump(c)
  PROVE  SessionInv'
<1>1. hand[c] \in Handlers
  BY DEF SessionInv, SessionTypes
<1> DEFINE q == IF hand[c].kind = "register" THEN "online" ELSE "ask"
           h == [hand[c] EXCEPT !.pc = q]
<1>2. q \in {"online", "ask"}
  OBVIOUS
<1>3. hand' = [hand EXCEPT ![c] = h]
  BY Zenon DEF HandleBump, SetHand
<1>4. UNCHANGED <<sock, online, told, pending, loop, senders, asked>>
  BY Zenon DEF HandleBump, broadcastVars, historyVars
<1> HIDE DEF q
<1>5. h \in Handlers /\ h.pc = q /\ h.registered = hand[c].registered
  BY <1>1, <1>2 DEF Handlers, Steps
<1> HIDE DEF h
<1>6. Only(c, h)
  BY <1>3, <1>4, <1>5 DEF Only, SessionInv, SessionTypes
<1>7. hand'[c] = h
  BY <1>3 DEF SessionInv, SessionTypes
<1>8. SessionServed(c)'
  BY <1>2, <1>4, <1>5, <1>7 DEF SessionInv, SessionServed, Registering, PushComing
<1> QED
  BY <1>6, <1>8, OnlyStep

\* The session joins the online map before the registry is read.
LEMMA OnlineStep ==
  ASSUME SessionInv, NEW c \in Conns, HandleOnline(c)
  PROVE  SessionInv'
<1>1. hand[c] \in Handlers
  BY DEF SessionInv, SessionTypes
<1> DEFINE need == hand[c].need \/ ~WasOnline
           h == [hand[c] EXCEPT !.pc = "load", !.need = need]
<1>2. need \in BOOLEAN
  OBVIOUS
<1>3. hand' = [hand EXCEPT ![c] = h] /\ online' = [online EXCEPT ![c] = TRUE]
  BY Zenon DEF HandleOnline, SetHand
<1>4. UNCHANGED <<sock, told, pending, loop, senders, asked>>
  BY Zenon DEF HandleOnline, broadcastVars, historyVars
<1> HIDE DEF need
<1>5. h \in Handlers /\ h.pc = "load" /\ h.registered = hand[c].registered
  BY <1>1, <1>2, Zenon DEF Handlers, Steps
<1> HIDE DEF h
<1>6. Only(c, h)
  BY <1>3, <1>4, <1>5 DEF Only, SessionInv, SessionTypes
<1>7. hand'[c] = h /\ online'[c]
  BY <1>3 DEF SessionInv, SessionTypes
<1>8. SessionServed(c)'
  BY <1>4, <1>5, <1>7 DEF SessionInv, SessionServed, Registering, PushComing
<1> QED
  BY <1>6, <1>8, OnlyStep

\* RequestSnapshot and ListPeers do not register.
LEMMA QueryStep ==
  ASSUME SessionInv, NEW c \in Conns, HandleQuery(c)
  PROVE  SessionInv'
<1>1. hand[c] \in Handlers
  BY DEF SessionInv, SessionTypes
<1> DEFINE h == [hand[c] EXCEPT !.pc = "load", !.kind = "request", !.need = FALSE]
<1>2. hand' = [hand EXCEPT ![c] = h] \/ hand' = hand
  BY Zenon DEF HandleQuery, SetHand
<1>3. UNCHANGED <<sock, online, told, pending, loop, senders, asked>>
  BY Zenon DEF HandleQuery, broadcastVars, historyVars
<1>4. /\ h \in Handlers /\ h.pc = "load" /\ h.kind = "request"
      /\ h.registered = hand[c].registered
  BY <1>1, Zenon DEF Handlers, Steps, Requests
<1> HIDE DEF h
<1>5. CASE hand' = hand
  <2>1. Undisturbed
    BY <1>3, <1>5 DEF Undisturbed, SessionInv, SessionTypes
  <2> QED
    BY <2>1, UndisturbedStep
<1>6. CASE hand' = [hand EXCEPT ![c] = h]
  <2>1. Only(c, h)
    BY <1>3, <1>4, <1>6 DEF Only, SessionInv, SessionTypes
  <2>2. hand'[c] = h
    BY <1>6 DEF SessionInv, SessionTypes
  <2>3. SessionServed(c)'
    BY <1>3, <1>4, <2>2 DEF SessionInv, SessionServed, Registering, PushComing
  <2> QED
    BY <2>1, <2>3, OnlyStep
<1> QED
  BY <1>2, <1>5, <1>6

\* The registry is read: all that was asked for before is in it.
LEMMA LoadStep ==
  ASSUME Inv, SessionInv, NEW c \in Conns, HandleLoad(c)
  PROVE  SessionInv'
<1>1. hand[c] \in Handlers /\ hand[c].pc = "load"
  BY DEF SessionInv, SessionTypes, HandleLoad
<1>2. ver \in Nat /\ asked \in Nat /\ ver >= asked
  BY DEF Inv, Types, ReadsWhatWasAsked
<1> DEFINE h == [hand[c] EXCEPT !.pc = "reply", !.seen = ver]
<1>3. hand' = [hand EXCEPT ![c] = h]
  BY Zenon DEF HandleLoad, SetHand
<1>4. UNCHANGED <<sock, online, told, pending, loop, senders, asked>>
  BY Zenon DEF HandleLoad, broadcastVars, historyVars
<1>5. /\ h \in Handlers /\ h.pc = "reply" /\ h.kind = hand[c].kind /\ h.seen = ver
      /\ h.registered = hand[c].registered
  BY <1>1, <1>2, Zenon DEF Handlers, Steps
<1> HIDE DEF h
<1>6. Only(c, h)
  BY <1>3, <1>4, <1>5 DEF Only, SessionInv, SessionTypes
<1>7. hand'[c] = h
  BY <1>3 DEF SessionInv, SessionTypes
<1>8. SessionServed(c)'
  BY <1>1, <1>2, <1>4, <1>5, <1>7 DEF SessionInv, SessionServed, Registering, PushComing
<1> QED
  BY <1>6, <1>8, OnlyStep

\* The answer is queued: the session knows what the handler has read.
LEMMA ReplyStep ==
  ASSUME Inv, SessionInv, NEW c \in Conns, HandleReply(c)
  PROVE  SessionInv'
<1>1. hand[c] \in Handlers /\ hand[c].pc = "reply" /\ told[c] \in Nat /\ hand[c].seen \in Nat
  BY DEF SessionInv, SessionTypes, HandleReply, Handlers
<1> DEFINE q == IF hand[c].kind = "register" /\ hand[c].need THEN "ask" ELSE "read"
           r == hand[c].registered \/ hand[c].kind = "register"
           h == [Idle EXCEPT !.pc = q, !.registered = r]
<1>2. hand' = [hand EXCEPT ![c] = h]
  BY Zenon DEF HandleReply, SetHand
<1>3. told' = IF hand[c].kind = "register" /\ sock[c] = "open"
                THEN [told EXCEPT ![c] = Newest(told[c], hand[c].seen)] ELSE told
  BY DEF HandleReply
<1>4. UNCHANGED <<sock, online, pending, loop, senders, asked>>
  BY Zenon DEF HandleReply, broadcastVars
<1>5. q \in Steps /\ q \notin {"load", "reply"} /\ r \in BOOLEAN
  BY DEF Steps
<1>6. h \in Handlers /\ h.pc = q /\ (h.registered <=> r)
  <2> HIDE DEF q, r
  <2> QED
    BY <1>5, IdleFields, Zenon DEF Handlers
<1>7. Newest(told[c], hand[c].seen) \in Nat
  BY <1>1 DEF Newest
<1>8. /\ told' \in [Conns -> Nat]
      /\ \A d \in Conns \ {c} : told'[d] = told[d]
      /\ told'[c] >= told[c]
      /\ hand[c].kind = "register" /\ sock[c] = "open" => told'[c] >= hand[c].seen
  BY <1>1, <1>3, <1>7 DEF Newest, SessionInv, SessionTypes
<1>9. asked \in Nat
  BY DEF Inv, Types
<1> HIDE DEF h, q
<1>10. Only(c, h)
  BY <1>2, <1>4, <1>6, <1>8, Zenon DEF Only, SessionInv, SessionTypes
<1>11. hand'[c] = h
  BY <1>2 DEF SessionInv, SessionTypes
<1>12. told'[c] \in Nat
  BY <1>8
<1>13. SessionServed(c)'
  BY <1>1, <1>4, <1>5, <1>6, <1>8, <1>9, <1>11, <1>12
     DEF SessionInv, SessionServed, Registering, PushComing
<1> QED
  BY <1>10, <1>13, OnlyStep

\* The answer cannot be queued: the connection is broken.
LEMMA ReplyFailsStep ==
  ASSUME SessionInv, NEW c \in Conns, HandleReplyFails(c)
  PROVE  SessionInv'
<1>1. hand[c] \in Handlers /\ sock[c] = "broken"
  BY DEF SessionInv, SessionTypes, HandleReplyFails
<1> DEFINE h == Served(hand[c])
<1>2. hand' = [hand EXCEPT ![c] = h]
  BY Zenon DEF HandleReplyFails, SetHand
<1>3. UNCHANGED <<sock, online, told, pending, loop, senders, asked>>
  BY Zenon DEF HandleReplyFails, broadcastVars, historyVars
<1>4. h \in Handlers /\ h.pc = "read"
  BY <1>1, ServedFields
<1> HIDE DEF h
<1>5. Only(c, h)
  BY <1>2, <1>3, <1>4 DEF Only, SessionInv, SessionTypes
<1>6. hand'[c] = h
  BY <1>2 DEF SessionInv, SessionTypes
<1>7. SessionServed(c)'
  BY <1>1, <1>3, <1>4, <1>6 DEF SessionServed, Registering, PushComing
<1> QED
  BY <1>5, <1>7, OnlyStep

\* The session ends and leaves the online map.
LEMMA EndStep ==
  ASSUME SessionInv, NEW c \in Conns, HandleEnd(c)
  PROVE  SessionInv'
<1>1. PICK h : /\ hand' = [hand EXCEPT ![c] = h]
               /\ h \in Handlers /\ h.pc \in {"bump", "ended"}
  <2> DEFINE last == hand[c].registered /\ ~leaked /\ \A d \in Conns \ {c} : ~online[d]
             h == IF last THEN [Idle EXCEPT !.pc = "bump", !.kind = "end"] ELSE Ended
  <2>1. hand' = [hand EXCEPT ![c] = h]
    BY Zenon DEF HandleEnd
  <2>2. h \in Handlers /\ h.pc \in {"bump", "ended"}
    BY LeavingFields, EndedFields, Zenon
  <2> HIDE DEF h
  <2> QED
    BY <2>1, <2>2, Zenon
<1>2. /\ online' = [online EXCEPT ![c] = FALSE] /\ sock' = [sock EXCEPT ![c] = "closing"]
      /\ UNCHANGED <<told, pending, loop, senders, asked>>
  BY Zenon DEF HandleEnd, broadcastVars, historyVars
<1>3. Only(c, h)
  BY <1>1, <1>2 DEF Only, Links, SessionInv, SessionTypes
<1>4. hand'[c] = h /\ sock'[c] = "closing"
  BY <1>1, <1>2 DEF SessionInv, SessionTypes
<1>5. SessionServed(c)'
  BY <1>1, <1>4 DEF SessionServed, Registering, PushComing
<1> QED
  BY <1>3, <1>5, OnlyStep

-----------------------------------------------------------------------------
\* The client opens a connection: its handler has nothing to answer yet.
LEMMA OpenStep ==
  ASSUME SessionInv, NEW c \in Conns, Start(c) \/ Reconnect(c)
  PROVE  SessionInv'
<1>1. /\ sock' = [sock EXCEPT ![c] = "open"] /\ hand' = [hand EXCEPT ![c] = Idle]
      /\ told' = [told EXCEPT ![c] = 0]
      /\ UNCHANGED <<online, pending, loop, senders, asked>>
  BY Zenon DEF Start, Reconnect, OpenOn, broadcastVars
<1>2. Only(c, Idle)
  BY <1>1, IdleFields DEF Only, Links, SessionInv, SessionTypes
<1>3. hand'[c] = Idle
  BY <1>1 DEF SessionInv, SessionTypes
<1>4. SessionServed(c)'
  BY <1>3, IdleFields DEF SessionServed, Registering, PushComing
<1> QED
  BY <1>2, <1>4, OnlyStep

\* A step that leaves the server alone and at most cuts connections.
LEMMA CutStep ==
  ASSUME SessionInv, UNCHANGED <<hand, online, pending, loop, senders, asked>>,
         UNCHANGED <<sock, told>> \/ \E cs : Cut(cs)
  PROVE  SessionInv'
<1>1. CASE UNCHANGED <<sock, told>>
  <2>1. Undisturbed
    BY <1>1 DEF Undisturbed, SessionInv, SessionTypes
  <2> QED
    BY <2>1, UndisturbedStep
<1>2. ASSUME NEW cs, Cut(cs) PROVE SessionInv'
  <2>1. sock' = [c \in Conns |-> IF c \in cs /\ sock[c] = "open" THEN "broken" ELSE sock[c]]
    BY <1>2, Zenon DEF Cut
  <2>2. told' = [c \in Conns |-> IF c \in cs THEN 0 ELSE told[c]]
    BY <1>2, Zenon DEF Cut
  <2>3. Undisturbed
    BY <2>1, <2>2 DEF Undisturbed, Links, SessionInv, SessionTypes
  <2> QED
    BY <2>3, UndisturbedStep
<1> QED
  BY <1>1, <1>2

\* What the client and the network do.
LEMMA ClientStep ==
  ASSUME SessionInv,
         ClientRecv \/ Refresh \/ SnapshotExpired \/ ListPeers \/ RecvInvalid \/ Timeout \/ SeeClosed \/ \E c \in Conns : Break(c)
  PROVE  SessionInv'
<1>1. UNCHANGED <<hand, online, pending, loop, senders, asked>>
  BY Zenon DEF ClientRecv, RecvRegister, RecvSnapshotResponse, RecvUpdateAnswer, RecvList,
     RecvIdle, Refresh, SnapshotExpired, ListPeers, RecvInvalid, Timeout, SeeClosed, Break, serverVars, broadcastVars
<1>2. Die => \E cs : Cut(cs)
  BY Zenon DEF Die, Drop
<1>3. Retryable => \E cs : Cut(cs)
  BY <1>2, Zenon DEF Retryable, Drop
<1>4. \A c : Took(c) => UNCHANGED <<sock, told>>
  BY Zenon DEF Took
<1>5. ClientRecv => UNCHANGED <<sock, told>> \/ \E cs : Cut(cs)
  <2>1. CASE RecvRegister
    BY <1>2, <2>1, Zenon DEF RecvRegister, Drop
  <2>2. CASE RecvSnapshotResponse
    BY <1>2, <1>4, <2>2, Zenon DEF RecvSnapshotResponse
  <2>3. CASE RecvUpdateAnswer
    BY <1>2, <1>4, <2>3, Zenon DEF RecvUpdateAnswer
  <2>4. CASE RecvList
    BY <1>2, <1>4, <2>4, Zenon DEF RecvList
  <2>5. CASE RecvIdle
    BY <1>2, <1>4, <2>5, Zenon DEF RecvIdle
  <2> QED
    BY <2>1, <2>2, <2>3, <2>4, <2>5, Zenon DEF ClientRecv
<1>6. Refresh \/ SnapshotExpired \/ ListPeers => UNCHANGED <<sock, told>>
  BY Zenon DEF Refresh, SnapshotExpired, ListPeers
<1>7. RecvInvalid \/ Timeout \/ SeeClosed => \E cs : Cut(cs)
  BY <1>2, <1>3, Zenon DEF RecvInvalid, Timeout, SeeClosed
<1>8. (\E c \in Conns : Break(c)) => \E cs : Cut(cs)
  BY Zenon DEF Break
<1> QED
  BY <1>1, <1>5, <1>6, <1>7, <1>8, CutStep, Zenon

\* The changes of others, ConnectSignals and the writer.
LEMMA ElsewhereStep ==
  ASSUME SessionInv,
         \/ \E t \in Tasks : TaskStore(t) \/ TaskLeave(t) \/ TaskBump(t) \/ TaskOnline(t)
         \/ Signal
         \/ \E c \in Conns : WriterSnapshot(c)
         \/ UNCHANGED vars
  PROVE  SessionInv'
<1>1. UNCHANGED <<hand, online, pending, loop, senders, asked, sock, told>>
  BY Zenon DEF TaskStore, TaskLeave, TaskBump, TaskOnline, Signal, WriterSnapshot, vars,
     broadcastVars, sessionVars, historyVars
<1> QED
  BY <1>1, CutStep, Zenon

-----------------------------------------------------------------------------
\* The first session knows all there is.
LEMMA SessionInit == Init => SessionInv
<1> SUFFICES ASSUME Init PROVE SessionInv
  OBVIOUS
<1> DEFINE h == [Idle EXCEPT !.registered = TRUE]
<1>1. /\ sock = [c \in Conns |-> IF c = First THEN "open" ELSE "none"]
      /\ hand = [c \in Conns |-> IF c = First THEN h ELSE Ended]
      /\ online = [c \in Conns |-> c = First]
      /\ told = [c \in Conns |-> IF c = First THEN 1 ELSE 0]
      /\ asked = 1
  BY Zenon DEF Init
<1>2. h \in Handlers /\ h.pc = "read"
  BY IdleFields, Zenon DEF Handlers
<1> HIDE DEF h
<1>3. hand \in [Conns -> Handlers]
  BY <1>1, <1>2, EndedFields
<1>4. told \in [Conns -> Nat] /\ sock \in [Conns -> Links]
  BY <1>1 DEF Links
<1>5. online \in [Conns -> BOOLEAN]
  BY <1>1, Zenon
<1>6. ASSUME NEW c \in Conns PROVE SessionServed(c)
  <2>1. CASE c = First
    <3>1. hand[c] = h /\ online[c]
      BY <1>1, <2>1, Zenon
    <3>2. told[c] >= asked
      BY <1>1, <2>1
    <3> QED
      BY <1>2, <3>1, <3>2 DEF SessionServed
  <2>2. CASE c # First
    <3>1. hand[c] = Ended
      BY <1>1, <2>2
    <3> QED
      BY <3>1, EndedFields DEF SessionServed
  <2> QED
    BY <2>1, <2>2
<1> QED
  BY <1>3, <1>4, <1>5, <1>6, Zenon DEF SessionInv, SessionTypes

\* Every step serves the sessions.
LEMMA SessionStep == Inv /\ SessionInv /\ [Next]_vars => SessionInv'
<1> SUFFICES ASSUME Inv, SessionInv, [Next]_vars PROVE SessionInv'
  OBVIOUS
<1>1. ASSUME NEW c \in Conns, Handler(c) PROVE SessionInv'
  BY <1>1, StoreStep, BumpStep, OnlineStep, QueryStep, LoadStep, ReplyStep, ReplyFailsStep,
     HandleAskStep, EndStep, Zenon DEF Handler
<1>2. ASSUME NEW t \in Tasks, TaskStore(t) \/ TaskLeave(t) \/ TaskGoesOn(t) PROVE SessionInv'
  BY <1>2, TaskAskStep, ElsewhereStep, Zenon DEF TaskGoesOn
<1> QED
  BY <1>1, <1>2, BroadcasterStep, OpenStep, ClientStep, ElsewhereStep, Zenon DEF Next

\* No connected session is left behind, for any handlers and connections
\* (broadcast_snapshot_now against the Register arm of handle_message).
THEOREM SessionsAreServed == Spec => []NoSessionLeftBehind
<1>1. SessionInv => NoSessionLeftBehind
  BY Zenon DEF SessionInv, SessionServed, PushComing, NoSessionLeftBehind
<1> QED
  BY <1>1, InvInit, InvStep, SessionInit, SessionStep, PTL DEF Spec

States == {"down", "register", "snapshot", "update", "list", "idle", "offline"}
Reasons == {"open", "tick", "reconnect", "config", "expired"}
Asks == [kind : {"register", "update", "request", "list"}, life : Nat, cand : Nat]
Runtimes ==
  [st : States, why : Reasons, conn : Conns \cup {None}, repl : Conns \cup {None},
   set : Seq(Messages), applied : Snapshots, published : Snapshots, cand : Nat,
   next : Nat, since : Nat, lives : Nat]

\* What a sequence of requests or messages holds.
Has(s, k) == \E i \in DOMAIN s : s[i].kind = k
Once(s, k) == \A i, j \in DOMAIN s : s[i].kind = k /\ s[j].kind = k => i = j
Fresh(s, v) == \A i \in DOMAIN s : s[i].kind = "resp" => s[i].snap.ver >= v
Past(s, v) == \A i \in DOMAIN s : s[i].snap.ver <= v
Within(s, n) == \A i \in DOMAIN s : s[i].life <= MaxLives /\ s[i].cand <= n

\* An element is added at the end.
LEMMA AppendElements ==
  ASSUME NEW S, NEW s \in Seq(S), NEW x \in S
  PROVE  /\ Append(s, x) \in Seq(S)
         /\ \A i \in DOMAIN Append(s, x) :
              \/ i \in DOMAIN s /\ Append(s, x)[i] = s[i]
              \/ i \notin DOMAIN s /\ i = Len(s) + 1 /\ Append(s, x)[i] = x
OBVIOUS

\* The first element is taken.
LEMMA TailElements ==
  ASSUME NEW S, NEW s \in Seq(S), s # <<>>
  PROVE  /\ Tail(s) \in Seq(S) /\ Head(s) \in S /\ 1 \in DOMAIN s /\ Head(s) = s[1]
         /\ \A i \in DOMAIN Tail(s) : i \in Nat /\ i + 1 \in DOMAIN s /\ i + 1 # 1 /\ Tail(s)[i] = s[i + 1]
OBVIOUS

\* What a longer sequence holds.
LEMMA AppendHolds ==
  ASSUME NEW S, NEW s \in Seq(S), NEW x \in S
  PROVE  /\ \A k : Has(Append(s, x), k) => Has(s, k) \/ x.kind = k
         /\ \A k : Once(s, k) /\ (~Has(s, k) \/ x.kind # k) => Once(Append(s, x), k)
         /\ \A v : Fresh(s, v) /\ (x.kind = "resp" => x.snap.ver >= v) => Fresh(Append(s, x), v)
         /\ \A v : Past(s, v) /\ x.snap.ver <= v => Past(Append(s, x), v)
         /\ \A n : Within(s, n) /\ x.life <= MaxLives /\ x.cand <= n => Within(Append(s, x), n)
<1> DEFINE t == Append(s, x)
<1>1. \A i \in DOMAIN t : \/ i \in DOMAIN s /\ t[i] = s[i]
                          \/ i \notin DOMAIN s /\ i = Len(s) + 1 /\ t[i] = x
  BY AppendElements
<1> HIDE DEF t
<1>2. \A k : Has(t, k) => Has(s, k) \/ x.kind = k
  BY <1>1, Zenon DEF Has
<1>3. \A k : Once(s, k) /\ (~Has(s, k) \/ x.kind # k) => Once(t, k)
  BY <1>1, Zenon DEF Has, Once
<1>4. \A v : Fresh(s, v) /\ (x.kind = "resp" => x.snap.ver >= v) => Fresh(t, v)
  BY <1>1, Zenon DEF Fresh
<1>5. \A v : Past(s, v) /\ x.snap.ver <= v => Past(t, v)
  BY <1>1, Zenon DEF Past
<1>6. \A n : Within(s, n) /\ x.life <= MaxLives /\ x.cand <= n => Within(t, n)
  BY <1>1, Zenon DEF Within
<1> QED
  BY <1>2, <1>3, <1>4, <1>5, <1>6, Zenon DEF t

\* What is left of a sequence.
LEMMA TailHolds ==
  ASSUME NEW S, NEW s \in Seq(S), s # <<>>
  PROVE  /\ \A k : Has(Tail(s), k) => Has(s, k)
         /\ \A k : Once(s, k) => Once(Tail(s), k)
         /\ \A k : Once(s, k) /\ Head(s).kind = k => ~Has(Tail(s), k)
         /\ \A v : Fresh(s, v) => Fresh(Tail(s), v)
         /\ \A v : Past(s, v) => Past(Tail(s), v) /\ Head(s).snap.ver <= v
         /\ \A n : Within(s, n) => Within(Tail(s), n)
<1> DEFINE t == Tail(s)
<1>1. \A i \in DOMAIN t : i \in Nat /\ i + 1 \in DOMAIN s /\ i + 1 # 1 /\ t[i] = s[i + 1]
  BY TailElements
<1>2. Head(s) = s[1] /\ 1 \in DOMAIN s
  BY TailElements
<1> HIDE DEF t
<1>3. \A k : Has(t, k) => Has(s, k)
  BY <1>1, Zenon DEF Has
<1>4. \A k : Once(s, k) => Once(t, k)
  <2>1. \A i, j \in Nat : i + 1 = j + 1 => i = j
    OBVIOUS
  <2>2. ASSUME NEW k, Once(s, k), NEW i \in DOMAIN t, NEW j \in DOMAIN t,
               t[i].kind = k, t[j].kind = k
        PROVE  i = j
    <3>1. /\ i \in Nat /\ i + 1 \in DOMAIN s /\ s[i + 1].kind = k
          /\ j \in Nat /\ j + 1 \in DOMAIN s /\ s[j + 1].kind = k
      BY <1>1, <2>2, Zenon
    <3>2. i + 1 = j + 1
      BY <2>2, <3>1, Zenon DEF Once
    <3> QED BY <2>1, <3>1, <3>2, Zenon
  <2> QED
    BY <2>2, Zenon DEF Once
<1>5. \A k : Once(s, k) /\ Head(s).kind = k => ~Has(t, k)
  BY <1>1, <1>2, Zenon DEF Once, Has
<1>6. \A v : Fresh(s, v) => Fresh(t, v)
  BY <1>1, Zenon DEF Fresh
<1>7. \A v : Past(s, v) => Past(t, v) /\ Head(s).snap.ver <= v
  BY <1>1, <1>2, Zenon DEF Past
<1>8. \A n : Within(s, n) => Within(t, n)
  BY <1>1, Zenon DEF Within
<1> QED
  BY <1>3, <1>4, <1>5, <1>6, <1>7, <1>8, Zenon DEF t

\* An empty sequence.
LEMMA EmptyHolds ==
  /\ \A S : <<>> \in Seq(S)
  /\ \A k : ~Has(<<>>, k) /\ Once(<<>>, k)
  /\ \A v : Fresh(<<>>, v) /\ Past(<<>>, v) /\ Within(<<>>, v)
<1>1. DOMAIN <<>> = {}
  OBVIOUS
<1>2. \A S : <<>> \in Seq(S)
  OBVIOUS
<1> QED
  BY <1>1, <1>2, Zenon DEF Has, Once, Fresh, Past, Within

\* A message that is set aside: the snapshots among them stay one.
LEMMA SetAside ==
  ASSUME NEW s \in Seq(Messages), NEW m \in Messages, Once(s, "snap")
  PROVE  /\ enqueue_pending(s, m) \in Seq(Messages)
         /\ Once(enqueue_pending(s, m), "snap")
         /\ \A v : Past(s, v) /\ m.snap.ver <= v => Past(enqueue_pending(s, m), v)
<1>1. CASE m.kind = "snap" /\ \E i \in DOMAIN s : s[i].kind = "snap"
  <2> DEFINE t == [i \in DOMAIN s |-> IF s[i].kind = "snap" THEN m ELSE s[i]]
  <2>1. enqueue_pending(s, m) = t
    BY <1>1, Zenon DEF enqueue_pending
  <2>2. t \in Seq(Messages)
    OBVIOUS
  <2>3. DOMAIN t = DOMAIN s /\ \A i \in DOMAIN s : t[i] = IF s[i].kind = "snap" THEN m ELSE s[i]
    OBVIOUS
  <2> HIDE DEF t
  <2>4. Once(t, "snap")
    BY <2>3, Zenon DEF Once
  <2>5. \A v : Past(s, v) /\ m.snap.ver <= v => Past(t, v)
    BY <2>3, Zenon DEF Past
  <2> QED
    BY <2>1, <2>2, <2>4, <2>5, Zenon
<1>2. CASE ~(m.kind = "snap" /\ \E i \in DOMAIN s : s[i].kind = "snap")
  <2>1. enqueue_pending(s, m) = Append(s, m)
    BY <1>2, Zenon DEF enqueue_pending
  <2>2. ~Has(s, "snap") \/ m.kind # "snap"
    BY <1>2, Zenon DEF Has
  <2>3. Append(s, m) \in Seq(Messages)
    OBVIOUS
  <2>4. Once(Append(s, m), "snap")
    BY <2>2, AppendHolds, Zenon
  <2>5. \A v : Past(s, v) /\ m.snap.ver <= v => Past(Append(s, m), v)
    BY AppendHolds, Zenon
  <2> QED
    BY <2>1, <2>3, <2>4, <2>5, Zenon
<1> QED
  BY <1>1, <1>2

-----------------------------------------------------------------------------
\* The runtime records the client builds.
Shape(r, st, conn, repl, set, applied, cand, next, since, lives) ==
  /\ r \in Runtimes
  /\ r.st = st /\ r.conn = conn /\ r.repl = repl /\ r.set = set /\ r.applied = applied
  /\ r.cand = cand /\ r.next = next /\ r.since = since /\ r.lives = lives

\* The empty snapshot and the snapshots the coordinator sends are snapshots.
LEMMA SnapshotTypes ==
  /\ NoSnapshot \in Snapshots /\ NoSnapshot.ver = 0
  /\ \A g, v \in Nat : Snapshot(g, v) \in Snapshots /\ Snapshot(g, v).ver = v
BY DEF NoSnapshot, Snapshot, Snapshots

\* A runtime that has not started.
LEMMA DownShape ==
  ASSUME NEW l \in Nat
  PROVE  Shape(Down(l), "down", None, None, <<>>, NoSnapshot, 0, 0, 0, l)
BY SnapshotTypes, EmptyHolds DEF Down, Shape, Runtimes, States, Reasons

\* A runtime that has just been started waits for RegisterOk.
LEMMA StartShape ==
  ASSUME NEW l \in Nat, NEW c \in Conns, NEW r, r = [Down(l) EXCEPT !.st = "register", !.conn = c]
  PROVE  Shape(r, "register", c, None, <<>>, NoSnapshot, 0, 0, 0, l)
<1>1. Shape(Down(l), "down", None, None, <<>>, NoSnapshot, 0, 0, 0, l)
  BY DownShape
<1> DEFINE d == Down(l)
<1> HIDE DEF d
<1>2. d \in Runtimes
  BY <1>1 DEF Shape, d
<1>3. r = [d EXCEPT !.st = "register", !.conn = c]
  BY DEF d
<1>4. Shape(r, "register", c, d.repl, d.set, d.applied, d.cand, d.next, d.since, d.lives)
  BY <1>2, <1>3, ZenonT(30) DEF Shape, Runtimes, States
<1> QED
  BY <1>1, <1>4 DEF Shape, d

\* The replacement connection.
LEMMA ReconnectShape ==
  ASSUME NEW h \in Runtimes, NEW c \in Conns, NEW r,
         r = [h EXCEPT !.st = "register", !.why = "reconnect", !.repl = c]
  PROVE  Shape(r, "register", h.conn, c, h.set, h.applied, h.cand, h.next, h.since, h.lives)
BY Zenon DEF Shape, Runtimes, States, Reasons

\* RegisterOk is taken over.
LEMMA AdoptShape ==
  ASSUME NEW h \in Runtimes, NEW c \in Conns, NEW a \in Snapshots, NEW r,
         r = [h EXCEPT !.conn = c, !.repl = None, !.applied = a]
  PROVE  Shape(r, h.st, c, None, h.set, a, h.cand, h.next, h.since, h.lives)
BY Zenon DEF Shape, Runtimes

\* A refresh is under way.
LEMMA RefreshShape ==
  ASSUME NEW h \in Runtimes, NEW st \in {"snapshot", "update"}, NEW n \in Nat, NEW v \in Nat,
         NEW s \in Seq(Messages), NEW r,
         r = [h EXCEPT !.st = st, !.next = n, !.since = v, !.set = s]
  PROVE  Shape(r, st, h.conn, h.repl, s, h.applied, h.cand, n, v, h.lives)
BY Zenon DEF Shape, Runtimes, States

\* It is over.
LEMMA RefreshedShape ==
  ASSUME rt \in Runtimes, NEW a \in Snapshots
  PROVE  \E st \in {"list", "idle"} :
           Shape(Refreshed(a), st, rt.conn, rt.repl, rt.set, a, rt.next, 0, 0, rt.lives)
<1> DEFINE st == IF rt.why = "open" THEN "list" ELSE "idle"
           why == IF rt.why = "open" THEN "open" ELSE "tick"
           pub == IF rt.why \in {"reconnect", "expired"} THEN a ELSE rt.published
           r == [rt EXCEPT !.st = st, !.applied = a, !.cand = rt.next, !.next = 0, !.since = 0,
                           !.why = why, !.published = pub]
<1>1. Refreshed(a) = r
  BY Zenon DEF Refreshed
<1>2. st \in {"list", "idle"} /\ why \in Reasons /\ pub \in Snapshots
  BY DEF Reasons, Runtimes
<1> HIDE DEF st, why, pub
<1>3. Shape(r, st, rt.conn, rt.repl, rt.set, a, rt.next, 0, 0, rt.lives)
  BY <1>2, Zenon DEF Shape, Runtimes, States
<1> QED
  BY <1>1, <1>2, <1>3

\* A message is set aside, or the next one set aside is taken.
LEMMA SetShape ==
  ASSUME NEW h \in Runtimes, NEW s \in Seq(Messages), NEW r, r = [h EXCEPT !.set = s]
  PROVE  Shape(r, h.st, h.conn, h.repl, s, h.applied, h.cand, h.next, h.since, h.lives)
BY DEF Shape, Runtimes

\* The list of peers has come.
LEMMA ListedShape ==
  ASSUME NEW h \in Runtimes, NEW p \in Snapshots, NEW r,
         r = [h EXCEPT !.st = "idle", !.published = p, !.why = "tick"]
  PROVE  Shape(r, "idle", h.conn, h.repl, h.set, h.applied, h.cand, h.next, h.since, h.lives)
BY Zenon DEF Shape, Runtimes, States, Reasons

\* The list of peers is asked for.
LEMMA ListingShape ==
  ASSUME NEW h \in Runtimes, NEW r, r = [h EXCEPT !.st = "list", !.why = "tick"]
  PROVE  Shape(r, "list", h.conn, h.repl, h.set, h.applied, h.cand, h.next, h.since, h.lives)
BY Zenon DEF Shape, Runtimes, States, Reasons

\* A snapshot is applied and published.
LEMMA AppliedShape ==
  ASSUME NEW h \in Runtimes, NEW a \in Snapshots, NEW s \in Seq(Messages), NEW r,
         r = [h EXCEPT !.applied = a, !.published = a, !.set = s]
  PROVE  Shape(r, h.st, h.conn, h.repl, s, a, h.cand, h.next, h.since, h.lives)
BY Zenon DEF Shape, Runtimes

\* The reason of the next refresh.
LEMMA WhyShape ==
  ASSUME NEW h \in Runtimes, NEW w \in Reasons, NEW r, r = [h EXCEPT !.why = w]
  PROVE  Shape(r, h.st, h.conn, h.repl, h.set, h.applied, h.cand, h.next, h.since, h.lives)
BY DEF Shape, Runtimes

\* The runtime is offline.
LEMMA OfflineShape ==
  ASSUME NEW h \in Runtimes, NEW r,
         r = [h EXCEPT !.st = "offline", !.why = "tick", !.repl = None, !.next = 0, !.since = 0]
  PROVE  Shape(r, "offline", h.conn, None, h.set, h.applied, h.cand, 0, 0, h.lives)
BY Zenon DEF Shape, Runtimes, States, Reasons

\* Messages of the coordinator.
LEMMA MessageType ==
  ASSUME NEW k \in {"ok", "snap", "resp", "list", "signal"}, NEW s \in Snapshots
  PROVE  Message(k, s) \in Messages /\ Message(k, s).kind = k /\ Message(k, s).snap = s
BY DEF Message, Messages

Jobs == {"idle", "edit", "join", "leave", "online", "ask"}
Rows == [life : 0 .. MaxLives, cand : 0 .. MaxEvents]

RegistryOK ==
  /\ gen \in Nat /\ row \in Rows /\ task \in [Tasks -> Jobs]
  /\ loop \in {"stopped", "sleep", "send", "check"} /\ senders \subseteq Conns
  /\ leaked \in BOOLEAN /\ events \in 0 .. MaxEvents
  /\ draft <= ver

RuntimeOK ==
  /\ rt \in Runtimes
  /\ rt.st # "down" => rt.conn \in Conns
  /\ rt.repl # None => rt.st = "register"
  /\ rt.lives <= MaxLives /\ rt.cand <= events /\ rt.next <= events /\ rt.since <= ver
  /\ rt.applied.ver <= ver /\ Past(rt.set, ver) /\ Once(rt.set, "snap")

ChannelsOK ==
  /\ up \in [Conns -> Seq(Asks)]
  /\ slot \in [Conns -> Snapshots]
  /\ wire \in [Conns -> Seq(Messages)]
  /\ \A c \in Conns :
       slot[c].ver <= ver /\ Past(wire[c], ver) /\ Within(up[c], events)

HandlersOK ==
  \A c \in Conns :
    /\ hand[c].pc \in {"load", "reply"} => hand[c].kind \in {"register", "update", "request"}
    /\ hand[c].pc = "online" => hand[c].kind = "register"
    /\ hand[c].seen <= ver

\* A request of the snapshot is under way on a connection once, or not at all.
Answering(c) == hand[c].pc \in {"load", "reply"} /\ hand[c].kind = "request"
NothingAsked(c) == ~Has(up[c], "request") /\ ~Answering(c) /\ ~Has(wire[c], "resp")
AskedOnce(c) ==
  /\ Once(up[c], "request") /\ Once(wire[c], "resp")
  /\ ~(Has(up[c], "request") /\ Answering(c))
  /\ ~(Has(up[c], "request") /\ Has(wire[c], "resp"))
  /\ ~(Answering(c) /\ Has(wire[c], "resp"))
  /\ Fresh(wire[c], rt.since)
  /\ (Answering(c) /\ hand[c].pc = "reply") => hand[c].seen >= rt.since

AskedOK ==
  /\ rt.st = "snapshot" => AskedOnce(rt.conn)
  /\ rt.st \in {"update", "list", "idle"} => NothingAsked(rt.conn)
  /\ rt.st = "register" => NothingAsked(Current)

\* The registry's content and the number of events only grow.
Grows == ver' \in Nat /\ ver' >= ver /\ events' \in 0 .. MaxEvents /\ events' >= events

\* A disturbance is counted.
LEMMA EventGrows ==
  ASSUME events \in 0 .. MaxEvents, NEW k, Event(k)
  PROVE  events' \in 0 .. MaxEvents /\ events' >= events
BY ControlPlaneAssumption DEF Event

\* A registry that grows makes what was past no less so.
LEMMA PastGrows ==
  ASSUME NEW s \in Seq(Messages), NEW v \in Nat, NEW w \in Nat, v <= w, Past(s, v)
  PROVE  Past(s, w)
<1> SUFFICES ASSUME NEW i \in DOMAIN s PROVE s[i].snap.ver <= w
  BY DEF Past
<1>1. s[i] \in Messages
  OBVIOUS
<1>2. s[i].snap.ver \in Nat
  BY <1>1 DEF Messages, Snapshots
<1>3. s[i].snap.ver <= v
  BY DEF Past
<1> HIDE <1>1
<1> QED
  BY <1>2, <1>3

\* More disturbances make a stored value no less possible.
LEMMA WithinGrows ==
  ASSUME NEW s \in Seq(Asks), NEW v \in Nat, NEW w \in Nat, v <= w, Within(s, v)
  PROVE  Within(s, w)
<1> SUFFICES ASSUME NEW i \in DOMAIN s PROVE s[i].life <= MaxLives /\ s[i].cand <= w
  BY DEF Within
<1>1. s[i] \in Asks
  OBVIOUS
<1>2. s[i].cand \in Nat
  BY <1>1 DEF Asks
<1>3. s[i].cand <= v /\ s[i].life <= MaxLives
  BY DEF Within
<1> QED
  BY <1>2, <1>3

-----------------------------------------------------------------------------
\* Every step lets the registry grow.
LEMMA GrowsStep ==
  ASSUME Inv, RegistryOK, [Next]_vars
  PROVE  Grows
<1>1. ver \in Nat /\ events \in Nat /\ events \in 0 .. MaxEvents
  BY ControlPlaneAssumption DEF Inv, Types, RegistryOK
<1>2. ver' \in {ver, ver + 1}
  <2>1. Apart => ver' \in {ver, ver + 1}
    BY Zenon DEF Apart
  <2>2. Broadcaster \/ BroadcastFail \/ Signal \/ UNCHANGED vars => ver' = ver
    BY Zenon DEF Broadcaster, BroadcastWake, BroadcastSend, BroadcastCheck, BroadcastFail, Signal,
       vars, registryVars
  <2>3. (\E t \in Tasks : TaskAsk(t)) \/ (\E c \in Conns : HandleAsk(c)) => ver' = ver
    BY Zenon DEF TaskAsk, HandleAsk, registryVars
  <2> QED
    BY <2>1, <2>2, <2>3, TasksApart, StoringApart, SessionApart, ClientApart, Zenon
       DEF Next, TaskGoesOn, Handler
<1>3. UNCHANGED events \/ \E k : Event(k)
  <2>1. Broadcaster \/ BroadcastFail \/ Signal \/ UNCHANGED vars => UNCHANGED events \/ \E k : Event(k)
    BY Zenon DEF Broadcaster, BroadcastWake, BroadcastSend, BroadcastCheck, BroadcastFail, Signal, vars
  <2>2. ASSUME NEW t \in Tasks, TaskStore(t) \/ TaskLeave(t) \/ TaskGoesOn(t)
        PROVE  UNCHANGED events \/ \E k : Event(k)
    BY <2>2, Zenon DEF TaskStore, TaskLeave, TaskGoesOn, TaskBump, TaskOnline, TaskAsk
  <2>3. ASSUME NEW c \in Conns, Handler(c) \/ WriterSnapshot(c) \/ Break(c) \/ Start(c) \/ Reconnect(c)
        PROVE  UNCHANGED events \/ \E k : Event(k)
    BY <2>3, Zenon DEF Handler, HandleStore, HandleBump, HandleOnline, HandleQuery, HandleLoad,
       HandleReply, HandleReplyFails, HandleAsk, HandleEnd, WriterSnapshot, Break, Start, Reconnect, OpenOn
  <2>4. \A r, c, s : StartRefresh(r, c, s) => UNCHANGED events \/ \E k : Event(k)
    BY Zenon DEF StartRefresh
  <2>5. RecvRegister \/ Refresh \/ SnapshotExpired \/ ListPeers \/ RecvInvalid \/ Timeout \/ SeeClosed \/ RecvSnapshotResponse \/ RecvUpdateAnswer \/ RecvList
          => UNCHANGED events \/ \E k : Event(k)
    BY <2>4, Zenon DEF RecvRegister, Refresh, SnapshotExpired, ListPeers, RecvInvalid, Timeout, SeeClosed, RecvSnapshotResponse, RecvUpdateAnswer,
       RecvList
  <2>6. RecvIdle => UNCHANGED events \/ \E k : Event(k)
    BY <2>4, Zenon DEF RecvIdle, HandleMessage
  <2> QED
    BY <2>1, <2>2, <2>3, <2>5, <2>6, Zenon DEF Next, ClientRecv
<1>4. events' \in 0 .. MaxEvents /\ events' >= events
  BY <1>1, <1>3, EventGrows
<1>5. ver' \in Nat /\ ver' >= ver
  BY <1>1, <1>2
<1> QED
  BY <1>4, <1>5 DEF Grows

-----------------------------------------------------------------------------
\* What the registry, the tasks and the broadcaster keep.

\* Register and UpdateCandidates store a row of a runtime that was started.
LEMMA RowStep ==
  ASSUME ChannelsOK, RegistryOK, NEW c \in Conns, HandleStore(c)
  PROVE  row' \in Rows
<1> DEFINE m == Head(up[c])
<1>1. up[c] \in Seq(Asks) /\ up[c] # <<>> /\ Within(up[c], events)
  BY DEF ChannelsOK, HandleStore
<1>2. m \in Asks /\ 1 \in DOMAIN up[c] /\ m = up[c][1]
  BY <1>1, TailElements
<1>3. row' = IF m.kind = "register" THEN [life |-> m.life, cand |-> m.cand]
                                    ELSE [row EXCEPT !.cand = m.cand]
  BY Zenon DEF HandleStore
<1> HIDE DEF m
<1>4. m.life <= MaxLives /\ m.cand <= events
  BY <1>1, <1>2 DEF Within
<1>5. m.life \in Nat /\ m.cand \in Nat
  BY <1>2 DEF Asks
<1>6. m.life \in 0 .. MaxLives /\ m.cand \in 0 .. MaxEvents
  BY <1>4, <1>5, ControlPlaneAssumption DEF RegistryOK
<1> QED
  BY <1>3, <1>6 DEF Rows, RegistryOK

\* Every step keeps what the registry, the tasks and the broadcaster hold.
LEMMA RegistryStep ==
  ASSUME Inv, RegistryOK, ChannelsOK, [Next]_vars
  PROVE  RegistryOK'
<1>1. Grows /\ draft \in Nat /\ ver \in Nat
  BY GrowsStep DEF Inv, Types
<1>2. gen' \in Nat
  <2>1. gen' \in {gen, gen + 1}
    BY ZenonT(60) DEF Next, Broadcaster, BroadcastWake, BroadcastSend, BroadcastCheck, BroadcastFail, Signal,
       vars,
       registryVars, TaskStore, TaskLeave, TaskGoesOn, TaskBump, TaskOnline, TaskAsk, bump_snapshot,
       Handler, HandleStore, HandleBump, HandleOnline, HandleQuery, HandleLoad, HandleReply,
       HandleReplyFails,
       HandleAsk, HandleEnd, WriterSnapshot, Break, Start, Reconnect, OpenOn, ClientRecv, RecvRegister, 
       RecvSnapshotResponse, RecvUpdateAnswer, RecvList, RecvIdle, Refresh, SnapshotExpired, ListPeers, RecvInvalid, Timeout, SeeClosed, serverVars
  <2> QED
    BY <2>1 DEF RegistryOK
<1>3. row' \in Rows
  <2>1. row' = row \/ \E c \in Conns : HandleStore(c)
    BY ZenonT(60) DEF Next, Broadcaster, BroadcastWake, BroadcastSend, BroadcastCheck, BroadcastFail, Signal,
       vars,
       registryVars, TaskStore, TaskLeave, TaskGoesOn, TaskBump, TaskOnline, TaskAsk,
       Handler, HandleBump, HandleOnline, HandleQuery, HandleLoad, HandleReply, HandleReplyFails,
       HandleAsk, HandleEnd, WriterSnapshot, Break, Start, Reconnect, OpenOn, ClientRecv, RecvRegister, 
       RecvSnapshotResponse, RecvUpdateAnswer, RecvList, RecvIdle, Refresh, SnapshotExpired, ListPeers, RecvInvalid, Timeout, SeeClosed, serverVars
  <2> QED
    BY <2>1, RowStep DEF RegistryOK
<1>4. task' \in [Tasks -> Jobs]
  <2>1. task' = task \/ \E t \in Tasks, j \in Jobs : task' = [task EXCEPT ![t] = j]
    <3>1. \A x : (\/ x = "idle" \/ x = "edit" \/ x = "join"
                  \/ x = "leave" \/ x = "online" \/ x = "ask") => x \in Jobs
      BY DEF Jobs
    <3>2. ASSUME NEW t \in Tasks, TaskStore(t) \/ TaskLeave(t) \/ TaskGoesOn(t)
          PROVE  \E j \in Jobs : task' = [task EXCEPT ![t] = j]
      <4>1. CASE TaskStore(t)
        BY <4>1, <3>1, Zenon DEF TaskStore, StepTask
      <4>2. CASE TaskLeave(t)
        BY <4>2, <3>1, Zenon DEF TaskLeave, StepTask
      <4>3. CASE TaskBump(t)
        BY <4>3, <3>1, Zenon DEF TaskBump, StepTask
      <4>4. CASE TaskOnline(t)
        BY <4>4, <3>1, Zenon DEF TaskOnline, StepTask
      <4>5. CASE TaskAsk(t)
        BY <4>5, <3>1, Zenon DEF TaskAsk, StepTask
      <4> QED
        BY <3>2, <4>1, <4>2, <4>3, <4>4, <4>5 DEF TaskGoesOn
    <3>3. task' = task \/ \E t \in Tasks : TaskStore(t) \/ TaskLeave(t) \/ TaskGoesOn(t)
      BY ZenonT(60) DEF Next, Broadcaster, BroadcastWake, BroadcastSend, BroadcastCheck, BroadcastFail, Signal,
         vars,
         registryVars, Handler, HandleStore, HandleBump, HandleOnline, HandleQuery, HandleLoad,
         HandleReply, HandleReplyFails,
         HandleAsk, HandleEnd, WriterSnapshot, Break, Start, Reconnect, OpenOn, ClientRecv, RecvRegister, 
         RecvSnapshotResponse, RecvUpdateAnswer, RecvList, RecvIdle, Refresh, SnapshotExpired, ListPeers, RecvInvalid, Timeout, SeeClosed, serverVars
    <3> QED
      BY <3>2, <3>3, Zenon
  <2> QED
    BY <2>1 DEF RegistryOK
<1>5. leaked' \in BOOLEAN
  <2>1. leaked' = leaked \/ leaked' \in BOOLEAN
    BY ZenonT(60) DEF Next, Broadcaster, BroadcastWake, BroadcastSend, BroadcastCheck, BroadcastFail, Signal,
       vars, sessionVars,
       registryVars, TaskStore, TaskLeave, TaskGoesOn, TaskBump, TaskOnline, TaskAsk,
       Handler, HandleStore, HandleBump, HandleOnline, HandleQuery, HandleLoad, HandleReply,
       HandleReplyFails,
       HandleAsk, HandleEnd, WriterSnapshot, Break, Start, Reconnect, OpenOn, ClientRecv, RecvRegister, 
       RecvSnapshotResponse, RecvUpdateAnswer, RecvList, RecvIdle, Refresh, SnapshotExpired, ListPeers, RecvInvalid, Timeout, SeeClosed, serverVars
  <2> QED
    BY <2>1 DEF RegistryOK
<1>6. /\ loop' \in {"stopped", "sleep", "send", "check"} /\ senders' \subseteq Conns
      /\ draft' <= ver'
  <2>1. ASSUME Apart PROVE UNCHANGED <<loop, senders, draft>>
    BY <2>1 DEF Apart, broadcastVars
  <2>2. CASE UNCHANGED <<loop, senders, draft>>
    BY <1>1, <2>2 DEF RegistryOK, Grows
  <2>3. CASE Broadcaster \/ BroadcastFail
    <3>1. ver <= ver' /\ draft <= ver /\ senders \subseteq Conns
      BY <1>1 DEF RegistryOK, Grows
    <3>2. CASE BroadcastWake
      BY <1>1, <3>1, <3>2 DEF BroadcastWake, registryVars, Grows
    <3>3. CASE BroadcastSend
      BY <1>1, <3>1, <3>3 DEF BroadcastSend, registryVars, Grows
    <3>4. CASE BroadcastCheck
      BY <1>1, <3>1, <3>4 DEF BroadcastCheck, registryVars, Grows
    <3>5. CASE BroadcastFail
      BY <1>1, <3>1, <3>5 DEF BroadcastFail, registryVars, Grows
    <3> QED BY <2>3, <3>2, <3>3, <3>4, <3>5, Zenon DEF Broadcaster
  <2>4. CASE broadcast_snapshot /\ UNCHANGED <<senders, draft>>
    BY <1>1, <2>4 DEF broadcast_snapshot, RegistryOK, Grows
  <2>5. (\E t \in Tasks : TaskAsk(t)) \/ (\E c \in Conns : HandleAsk(c)) =>
          broadcast_snapshot /\ UNCHANGED <<senders, draft>>
    BY Zenon DEF TaskAsk, HandleAsk
  <2>6. Signal \/ UNCHANGED vars => UNCHANGED <<loop, senders, draft>>
    BY Zenon DEF Signal, vars, broadcastVars
  <2> QED
    BY <2>1, <2>2, <2>3, <2>4, <2>5, <2>6, TasksApart, StoringApart, SessionApart, ClientApart, Zenon
       DEF Next, TaskGoesOn, Handler
<1> QED
  BY <1>1, <1>2, <1>3, <1>4, <1>5, <1>6 DEF RegistryOK, Grows

\* A runtime that does not move stays right.
LEMMA RuntimeKept ==
  ASSUME Inv, RegistryOK, RuntimeOK, Grows, rt' = rt
  PROVE  RuntimeOK'
<1>1. ver \in Nat /\ ver' \in Nat /\ ver <= ver' /\ events <= events' /\ events \in Nat /\ events' \in Nat
  BY ControlPlaneAssumption DEF Inv, Types, RegistryOK, Grows
<1>2. /\ rt.set \in Seq(Messages) /\ rt.cand \in Nat /\ rt.next \in Nat /\ rt.since \in Nat
      /\ rt.applied.ver \in Nat
  BY DEF RuntimeOK, Runtimes, Snapshots
<1>3. Past(rt.set, ver')
  BY <1>1, <1>2, PastGrows DEF RuntimeOK
<1>4. rt.cand <= events' /\ rt.next <= events' /\ rt.since <= ver' /\ rt.applied.ver <= ver'
  BY <1>1, <1>2, SMTT(30) DEF RuntimeOK
<1> QED
  BY <1>3, <1>4, Zenon DEF RuntimeOK

\* What a step may do to the requests and the messages of a connection.
UpMove(c) ==
  \/ up'[c] = up[c] \/ up'[c] = <<>> \/ (up[c] # <<>> /\ up'[c] = Tail(up[c]))
  \/ \E x \in Asks : /\ x.life <= MaxLives /\ x.cand <= events'
                     /\ up'[c] = Append(up[c], x) \/ up'[c] = Append(<<>>, x)

WireMove(c) ==
  \/ wire'[c] = wire[c] \/ wire'[c] = <<>> \/ (wire[c] # <<>> /\ wire'[c] = Tail(wire[c]))
  \/ \E m \in Messages : m.snap.ver <= ver /\ wire'[c] = Append(wire[c], m)

ChannelMoves ==
  /\ up' = [c \in Conns |-> up'[c]] /\ \A c \in Conns : UpMove(c)
  /\ wire' = [c \in Conns |-> wire'[c]] /\ \A c \in Conns : WireMove(c)
  /\ slot' = [c \in Conns |-> slot'[c]]
  /\ \A c \in Conns : slot'[c] = slot[c] \/ (slot'[c] \in Snapshots /\ slot'[c].ver <= ver)

\* Channels that change only in these ways hold what the registry has had.
LEMMA ChannelStep ==
  ASSUME Inv, RegistryOK, ChannelsOK, Grows, ChannelMoves
  PROVE  ChannelsOK'
<1>1. ver \in Nat /\ ver' \in Nat /\ ver <= ver' /\ events <= events' /\ events \in Nat /\ events' \in Nat
  BY ControlPlaneAssumption DEF Inv, Types, RegistryOK, Grows
<1>2. ASSUME NEW c \in Conns PROVE up'[c] \in Seq(Asks) /\ Within(up'[c], events')
  <2>1. up[c] \in Seq(Asks) /\ Within(up[c], events')
    BY <1>1, WithinGrows DEF ChannelsOK
  <2>2. CASE up'[c] = up[c] \/ up'[c] = <<>>
    BY <2>1, <2>2, EmptyHolds, Zenon
  <2>3. CASE up[c] # <<>> /\ up'[c] = Tail(up[c])
    <3>1. Tail(up[c]) \in Seq(Asks)
      BY <2>1, <2>3
    <3> QED
      BY <2>1, <2>3, <3>1, TailHolds, Zenon
  <2>4. ASSUME NEW x \in Asks, x.life <= MaxLives, x.cand <= events',
               up'[c] = Append(up[c], x) \/ up'[c] = Append(<<>>, x)
        PROVE  up'[c] \in Seq(Asks) /\ Within(up'[c], events')
    <3>1. \A s \in Seq(Asks) : Append(s, x) \in Seq(Asks)
      OBVIOUS
    <3>2. <<>> \in Seq(Asks) /\ Within(<<>>, events')
      BY EmptyHolds
    <3>3. \A s \in Seq(Asks) : Within(s, events') => Within(Append(s, x), events')
      BY <2>4, AppendHolds
    <3> QED
      BY <2>1, <2>4, <3>1, <3>2, <3>3, Zenon
  <2> QED
    BY <2>2, <2>3, <2>4, Zenon DEF ChannelMoves, UpMove
<1>3. ASSUME NEW c \in Conns PROVE wire'[c] \in Seq(Messages) /\ Past(wire'[c], ver')
  <2>1. wire[c] \in Seq(Messages) /\ Past(wire[c], ver)
    BY DEF ChannelsOK
  <2>2. CASE wire'[c] = wire[c] \/ wire'[c] = <<>>
    BY <1>1, <2>1, <2>2, EmptyHolds, PastGrows, Zenon
  <2>3. CASE wire[c] # <<>> /\ wire'[c] = Tail(wire[c])
    <3>1. Tail(wire[c]) \in Seq(Messages)
      BY <2>1, <2>3
    <3>2. Past(Tail(wire[c]), ver)
      BY <2>1, <2>3, TailHolds, Zenon
    <3> QED
      BY <1>1, <2>3, <3>1, <3>2, PastGrows, Zenon
  <2>4. ASSUME NEW m \in Messages, m.snap.ver <= ver, wire'[c] = Append(wire[c], m)
        PROVE  wire'[c] \in Seq(Messages) /\ Past(wire'[c], ver')
    <3>1. Append(wire[c], m) \in Seq(Messages)
      BY <2>1
    <3>2. Past(Append(wire[c], m), ver)
      BY <2>1, <2>4, AppendHolds
    <3> QED
      BY <1>1, <2>4, <3>1, <3>2, PastGrows, Zenon
  <2> QED
    BY <2>2, <2>3, <2>4, Zenon DEF ChannelMoves, WireMove
<1>4. ASSUME NEW c \in Conns PROVE slot'[c] \in Snapshots /\ slot'[c].ver <= ver'
  <2>1. slot'[c] \in Snapshots /\ slot'[c].ver <= ver
    BY Zenon DEF ChannelsOK, ChannelMoves
  <2>2. slot'[c].ver \in Nat
    BY <2>1 DEF Snapshots
  <2> QED
    BY <1>1, <2>1, <2>2
<1>5. up' \in [Conns -> Seq(Asks)]
  BY <1>2, Zenon DEF ChannelMoves
<1>6. wire' \in [Conns -> Seq(Messages)]
  BY <1>3, Zenon DEF ChannelMoves
<1>7. slot' \in [Conns -> Snapshots]
  BY <1>4, Zenon DEF ChannelMoves
<1> QED
  BY <1>2, <1>3, <1>4, <1>5, <1>6, <1>7, Zenon DEF ChannelsOK

\* What a step may do without adding a request of the snapshot or an answer.
UpQuiet(c) ==
  \/ up'[c] = up[c] \/ up'[c] = <<>> \/ (up[c] # <<>> /\ up'[c] = Tail(up[c]))
  \/ \E x \in Asks : x.kind # "request" /\ up'[c] = Append(up[c], x)
WireQuiet(c) ==
  \/ wire'[c] = wire[c] \/ wire'[c] = <<>> \/ (wire[c] # <<>> /\ wire'[c] = Tail(wire[c]))
  \/ \E m \in Messages : m.kind # "resp" /\ wire'[c] = Append(wire[c], m)
HandQuiet(c) == Answering(c)' => hand'[c] = hand[c]

\* Then no request of the snapshot is added to a connection.
LEMMA UpQuietHolds ==
  ASSUME NEW c \in Conns, ChannelsOK, UpQuiet(c)
  PROVE  /\ Has(up'[c], "request") => Has(up[c], "request")
         /\ Once(up[c], "request") => Once(up'[c], "request")
<1>1. up[c] \in Seq(Asks)
  BY DEF ChannelsOK
<1>2. CASE up'[c] = up[c] \/ up'[c] = <<>>
  BY <1>2, EmptyHolds, Zenon
<1>3. CASE up[c] # <<>> /\ up'[c] = Tail(up[c])
  <2> DEFINE t == Tail(up[c])
  <2>1. /\ \A k : Has(t, k) => Has(up[c], k)
        /\ \A k : Once(up[c], k) => Once(t, k)
    BY <1>1, <1>3, TailHolds
  <2> HIDE DEF t
  <2> QED
    BY <1>3, <2>1, Zenon DEF t
<1>4. ASSUME NEW x \in Asks, x.kind # "request", up'[c] = Append(up[c], x)
      PROVE  /\ Has(up'[c], "request") => Has(up[c], "request")
             /\ Once(up[c], "request") => Once(up'[c], "request")
  <2> DEFINE t == Append(up[c], x)
  <2>1. /\ \A k : Has(t, k) => Has(up[c], k) \/ x.kind = k
        /\ \A k : Once(up[c], k) /\ (~Has(up[c], k) \/ x.kind # k) => Once(t, k)
    BY <1>1, AppendHolds
  <2> HIDE DEF t
  <2> QED
    BY <1>4, <2>1, Zenon DEF t
<1> QED
  BY <1>2, <1>3, <1>4, Zenon DEF UpQuiet

\* Then no answer to one is added, and those there stay fresh.
LEMMA WireQuietHolds ==
  ASSUME NEW c \in Conns, ChannelsOK, WireQuiet(c)
  PROVE  /\ Has(wire'[c], "resp") => Has(wire[c], "resp")
         /\ Once(wire[c], "resp") => Once(wire'[c], "resp")
         /\ \A v : Fresh(wire[c], v) => Fresh(wire'[c], v)
<1>1. wire[c] \in Seq(Messages)
  BY DEF ChannelsOK
<1>2. CASE wire'[c] = wire[c] \/ wire'[c] = <<>>
  BY <1>2, EmptyHolds, Zenon
<1>3. CASE wire[c] # <<>> /\ wire'[c] = Tail(wire[c])
  <2> DEFINE t == Tail(wire[c])
  <2>1. /\ \A k : Has(t, k) => Has(wire[c], k)
        /\ \A k : Once(wire[c], k) => Once(t, k)
        /\ \A v : Fresh(wire[c], v) => Fresh(t, v)
    BY <1>1, <1>3, TailHolds
  <2> HIDE DEF t
  <2> QED
    BY <1>3, <2>1, Zenon DEF t
<1>4. ASSUME NEW m \in Messages, m.kind # "resp", wire'[c] = Append(wire[c], m)
      PROVE  /\ Has(wire'[c], "resp") => Has(wire[c], "resp")
             /\ Once(wire[c], "resp") => Once(wire'[c], "resp")
             /\ \A v : Fresh(wire[c], v) => Fresh(wire'[c], v)
  <2> DEFINE t == Append(wire[c], m)
  <2>1. /\ \A k : Has(t, k) => Has(wire[c], k) \/ m.kind = k
        /\ \A k : Once(wire[c], k) /\ (~Has(wire[c], k) \/ m.kind # k) => Once(t, k)
        /\ \A v : Fresh(wire[c], v) /\ (m.kind = "resp" => m.snap.ver >= v) => Fresh(t, v)
    BY <1>1, AppendHolds
  <2> HIDE DEF t
  <2> QED
    BY <1>4, <2>1, Zenon DEF t
<1> QED
  BY <1>2, <1>3, <1>4, Zenon DEF WireQuiet

Serves(c) ==
  /\ NothingAsked(c) => NothingAsked(c)'
  /\ AskedOnce(c) => AskedOnce(c)'

\* A quiet step keeps a request of the snapshot single.
LEMMA QuietServes ==
  ASSUME NEW c \in Conns, ChannelsOK, UpQuiet(c), WireQuiet(c), HandQuiet(c)
  PROVE  /\ NothingAsked(c) => NothingAsked(c)'
         /\ rt' = rt => Serves(c)
         /\ rt'.since = rt.since => Serves(c)
<1>1. Answering(c)' => Answering(c) /\ hand'[c] = hand[c]
  BY Zenon DEF HandQuiet, Answering
<1> QED
  BY <1>1, UpQuietHolds, WireQuietHolds, Zenon DEF Serves, NothingAsked, AskedOnce

\* A runtime that does not move keeps what it asked for, if the server does.
LEMMA ServedStep ==
  ASSUME RuntimeOK, AskedOK, rt' = rt, \A c \in Conns : Serves(c)
  PROVE  AskedOK'
<1>1. Current' = Current
  BY Zenon DEF Current
<1>2. rt.st # "down" => rt.conn \in Conns /\ Current \in Conns
  BY DEF Current, RuntimeOK, Runtimes
<1>3. rt.st \in {"register", "snapshot", "update", "list", "idle"} => rt.conn \in Conns /\ Current \in Conns
  BY <1>2
<1> USE DEF AskedOK
<1>4. CASE rt.st = "register"
  BY <1>1, <1>3, <1>4 DEF Serves
<1>5. CASE rt.st = "snapshot"
  BY <1>1, <1>3, <1>5 DEF Serves
<1>6. CASE rt.st \in {"update", "list", "idle"}
  BY <1>1, <1>3, <1>6 DEF Serves
<1>7. CASE rt.st \notin {"register", "snapshot", "update", "list", "idle"}
  BY <1>7
<1> QED
  BY <1>4, <1>5, <1>6, <1>7

ClientInv == RuntimeOK /\ ChannelsOK /\ HandlersOK /\ AskedOK
Context == Inv /\ SessionInv /\ RegistryOK /\ ClientInv /\ Grows

\* Steps that leave the runtime alone.
LEMMA ServerStep ==
  ASSUME Context, rt' = rt, ChannelMoves, \A c \in Conns : Serves(c), HandlersOK'
  PROVE  ClientInv'
<1>1. RuntimeOK'
  BY RuntimeKept, Zenon DEF Context, ClientInv
<1>2. ChannelsOK'
  BY ChannelStep, Zenon DEF Context, ClientInv
<1>3. AskedOK'
  BY ServedStep, Zenon DEF Context, ClientInv
<1> QED
  BY <1>1, <1>2, <1>3, Zenon DEF ClientInv

\* Handlers that do not move have read what was past already.
LEMMA HandlersKept ==
  ASSUME Context, hand' = hand
  PROVE  HandlersOK' /\ \A c \in Conns : HandQuiet(c)
<1>1. ver \in Nat /\ ver' \in Nat /\ ver <= ver'
  BY DEF Context, Inv, Types, Grows
<1>2. ASSUME NEW c \in Conns PROVE hand[c].seen <= ver'
  <2>1. hand[c].seen \in Nat /\ hand[c].seen <= ver
    BY DEF Context, SessionInv, SessionTypes, Handlers, ClientInv, HandlersOK
  <2> QED
    BY <1>1, <2>1
<1> QED
  BY <1>2, Zenon DEF HandlersOK, HandQuiet, Context, ClientInv

\* Channels that do not change.
LEMMA ChannelsKept ==
  ASSUME ChannelsOK
  PROVE  /\ up' = up => up' = [c \in Conns |-> up'[c]] /\ \A c \in Conns : UpMove(c) /\ UpQuiet(c)
         /\ wire' = wire => wire' = [c \in Conns |-> wire'[c]] /\ \A c \in Conns : WireMove(c) /\ WireQuiet(c)
         /\ slot' = slot => /\ slot' = [c \in Conns |-> slot'[c]]
                            /\ \A c \in Conns : \/ slot'[c] = slot[c]
                                                \/ slot'[c] \in Snapshots /\ slot'[c].ver <= ver
<1>1. up = [c \in Conns |-> up[c]] /\ wire = [c \in Conns |-> wire[c]] /\ slot = [c \in Conns |-> slot[c]]
  BY Zenon DEF ChannelsOK
<1> QED
  BY <1>1, Zenon DEF UpMove, UpQuiet, WireMove, WireQuiet

\* The steps of the others and of the broadcaster before it sends.
LEMMA AloofStep ==
  ASSUME Context, UNCHANGED <<rt, hand, up, wire, slot>>
  PROVE  ClientInv'
<1>1. ChannelsOK
  BY DEF Context, ClientInv
<1>2. ChannelMoves
  BY <1>1, ChannelsKept, Zenon DEF ChannelMoves
<1>3. HandlersOK' /\ \A c \in Conns : HandQuiet(c)
  BY HandlersKept, Zenon
<1>4. \A c \in Conns : Serves(c)
  BY <1>1, <1>3, ChannelsKept, QuietServes, Zenon
<1> QED
  BY <1>2, <1>3, <1>4, ServerStep, Zenon

\* The broadcaster puts what it read into the slots of its senders.
LEMMA BroadcastSendStep ==
  ASSUME Context, BroadcastSend
  PROVE  ClientInv'
<1>1. ChannelsOK
  BY DEF Context, ClientInv
<1>2. UNCHANGED <<rt, hand, up, wire>>
  BY Zenon DEF BroadcastSend, sessionVars
<1>3. gen \in Nat /\ draft \in Nat /\ draft <= ver
  BY DEF Context, Inv, Types, RegistryOK
<1>4. Snapshot(gen, draft) \in Snapshots /\ Snapshot(gen, draft).ver <= ver
  BY <1>3, SnapshotTypes
<1> DEFINE s == Snapshot(gen, draft)
<1>5. slot' = [c \in Conns |-> IF c \in {d \in senders : sock[d] = "open"} THEN s ELSE slot[c]]
  BY Zenon DEF BroadcastSend
<1> HIDE DEF s
<1>6. slot' = [c \in Conns |-> slot'[c]] /\ \A c \in Conns : slot'[c] = slot[c] \/ slot'[c] = s
  BY <1>5
<1>7. ChannelMoves
  BY <1>1, <1>2, <1>4, <1>6, ChannelsKept, Zenon DEF ChannelMoves, s
<1>8. HandlersOK' /\ \A c \in Conns : HandQuiet(c)
  BY <1>2, HandlersKept, Zenon
<1>9. \A c \in Conns : Serves(c)
  BY <1>1, <1>2, <1>8, ChannelsKept, QuietServes, Zenon
<1> QED
  BY <1>2, <1>7, <1>8, <1>9, ServerStep, Zenon

\* ConnectSignals to the sessions of the peer.
LEMMA SignalStep ==
  ASSUME Context, Signal
  PROVE  ClientInv'
<1>1. ChannelsOK /\ ver \in Nat
  BY DEF Context, ClientInv, Inv, Types
<1>2. UNCHANGED <<rt, hand, up, slot>>
  BY Zenon DEF Signal, sessionVars
<1> DEFINE m == Message("signal", NoSnapshot)
<1>3. m \in Messages /\ m.kind = "signal" /\ m.snap = NoSnapshot
  BY SnapshotTypes, MessageType
<1>4. m.snap.ver <= ver /\ m.kind # "resp"
  BY <1>1, <1>3, SnapshotTypes
<1>5. wire' = [c \in Conns |-> IF online[c] THEN Queue(c, m) ELSE wire[c]]
  BY Zenon DEF Signal
<1> HIDE DEF m
<1>6. /\ wire' = [c \in Conns |-> wire'[c]]
      /\ \A c \in Conns : wire'[c] = wire[c] \/ wire'[c] = Append(wire[c], m)
  BY <1>5, Zenon DEF Queue
<1>7. \A c \in Conns : WireMove(c) /\ WireQuiet(c)
  BY <1>3, <1>4, <1>6, Zenon DEF WireMove, WireQuiet
<1>8. ChannelMoves
  BY <1>1, <1>2, <1>6, <1>7, ChannelsKept, Zenon DEF ChannelMoves
<1>9. HandlersOK' /\ \A c \in Conns : HandQuiet(c)
  BY <1>2, HandlersKept, Zenon
<1>10. \A c \in Conns : Serves(c)
  BY <1>1, <1>2, <1>7, <1>9, ChannelsKept, QuietServes, Zenon
<1> QED
  BY <1>2, <1>8, <1>9, <1>10, ServerStep, Zenon

\* One connection's message queue grows by m.
LEMMA QueueMoves ==
  ASSUME ChannelsOK, NEW c \in Conns, NEW m \in Messages, m.snap.ver <= ver,
         wire' = [wire EXCEPT ![c] = Queue(c, m)]
  PROVE  /\ wire' = [d \in Conns |-> wire'[d]] /\ \A d \in Conns : WireMove(d)
         /\ m.kind # "resp" => \A d \in Conns : WireQuiet(d)
         /\ \A d \in Conns \ {c} : wire'[d] = wire[d]
         /\ wire'[c] = wire[c] \/ wire'[c] = Append(wire[c], m)
<1>1. wire \in [Conns -> Seq(Messages)]
  BY DEF ChannelsOK
<1> DEFINE q == Queue(c, m)
<1>2. q = wire[c] \/ q = Append(wire[c], m)
  BY Zenon DEF Queue
<1> HIDE DEF q
<1>3. wire' = [wire EXCEPT ![c] = q]
  BY Zenon DEF q
<1>4. wire' = [d \in Conns |-> wire'[d]] /\ wire'[c] = q /\ \A d \in Conns \ {c} : wire'[d] = wire[d]
  BY <1>1, <1>3, Zenon
<1>5. \A d \in Conns : wire'[d] = wire[d] \/ wire'[d] = Append(wire[d], m)
  BY <1>2, <1>4, Zenon
<1> QED
  BY <1>2, <1>4, <1>5, Zenon DEF WireMove, WireQuiet

\* The writer takes the slot.
LEMMA WriterStep ==
  ASSUME Context, NEW c \in Conns, WriterSnapshot(c)
  PROVE  ClientInv'
<1>1. ChannelsOK /\ ver \in Nat
  BY DEF Context, ClientInv, Inv, Types
<1>2. UNCHANGED <<rt, hand, up>>
  BY Zenon DEF WriterSnapshot, sessionVars
<1>3. slot[c] \in Snapshots /\ slot[c].ver <= ver
  BY <1>1 DEF ChannelsOK
<1> DEFINE m == Message("snap", slot[c])
<1>4. m \in Messages /\ m.kind = "snap" /\ m.snap.ver <= ver
  BY <1>3, MessageType
<1>5. wire' = [wire EXCEPT ![c] = Queue(c, m)]
  BY Zenon DEF WriterSnapshot, Queue
<1>6. slot' = [slot EXCEPT ![c] = NoSnapshot]
  BY Zenon DEF WriterSnapshot
<1> HIDE DEF m
<1>7. /\ wire' = [d \in Conns |-> wire'[d]] /\ \A d \in Conns : WireMove(d)
      /\ \A d \in Conns : WireQuiet(d)
  BY <1>1, <1>4, <1>5, QueueMoves, Zenon
<1>8. /\ slot' = [d \in Conns |-> slot'[d]]
      /\ \A d \in Conns : slot'[d] = slot[d] \/ slot'[d] = NoSnapshot
  BY <1>1, <1>6, Zenon DEF ChannelsOK
<1>9. NoSnapshot \in Snapshots /\ NoSnapshot.ver <= ver
  BY <1>1, SnapshotTypes
<1>10. ChannelMoves
  BY <1>1, <1>2, <1>7, <1>8, <1>9, ChannelsKept, Zenon DEF ChannelMoves
<1>11. HandlersOK' /\ \A d \in Conns : HandQuiet(d)
  BY <1>2, HandlersKept, Zenon
<1>12. \A d \in Conns : Serves(d)
  BY <1>1, <1>2, <1>7, <1>11, ChannelsKept, QuietServes, Zenon
<1> QED
  BY <1>2, <1>10, <1>11, <1>12, ServerStep, Zenon

\* The network cuts a connection.
LEMMA BreakStep ==
  ASSUME Context, NEW c \in Conns, Break(c)
  PROVE  ClientInv'
<1>1. ChannelsOK /\ ver \in Nat
  BY DEF Context, ClientInv, Inv, Types
<1>2. UNCHANGED <<rt, hand>>
  BY Zenon DEF Break
<1>3. up' = [up EXCEPT ![c] = <<>>] /\ wire' = [wire EXCEPT ![c] = <<>>]
  BY Zenon DEF Break
<1>4. slot' = [d \in Conns |-> IF d \in {c} THEN NoSnapshot ELSE slot[d]]
  BY Zenon DEF Break, Cut
<1>5. /\ slot' = [d \in Conns |-> slot'[d]]
      /\ \A d \in Conns : slot'[d] = slot[d] \/ slot'[d] = NoSnapshot
  BY <1>4
<1>6. NoSnapshot \in Snapshots /\ NoSnapshot.ver <= ver
  BY <1>1, SnapshotTypes
<1>7. up' = [d \in Conns |-> up'[d]] /\ \A d \in Conns : up'[d] = up[d] \/ up'[d] = <<>>
  BY <1>1, <1>3, Zenon DEF ChannelsOK
<1>8. wire' = [d \in Conns |-> wire'[d]] /\ \A d \in Conns : wire'[d] = wire[d] \/ wire'[d] = <<>>
  BY <1>1, <1>3, Zenon DEF ChannelsOK
<1>9. ChannelMoves
  BY <1>5, <1>6, <1>7, <1>8, Zenon DEF ChannelMoves, UpMove, WireMove
<1>10. HandlersOK' /\ \A d \in Conns : HandQuiet(d)
  BY <1>2, HandlersKept, Zenon
<1>11. \A d \in Conns : UpQuiet(d) /\ WireQuiet(d)
  BY <1>7, <1>8, Zenon DEF UpQuiet, WireQuiet
<1>12. \A d \in Conns : Serves(d)
  BY <1>1, <1>2, <1>10, <1>11, QuietServes, Zenon
<1> QED
  BY <1>2, <1>9, <1>10, <1>12, ServerStep, Zenon

\* The handler of a connection moves on to h.
HandTo(c, h) == hand' = [hand EXCEPT ![c] = h] /\ h \in Handlers

\* What is known of a handler.
LEMMA HandOf ==
  ASSUME Context, NEW c \in Conns
  PROVE  /\ hand[c] \in Handlers /\ hand[c].seen \in Nat /\ hand[c].seen <= ver
         /\ hand \in [Conns -> Handlers] /\ ver \in Nat /\ ver' \in Nat /\ ver <= ver'
         /\ ChannelsOK /\ gen \in Nat
BY DEF Context, ClientInv, HandlersOK, SessionInv, SessionTypes, Handlers, Inv, Types, Grows, RegistryOK

\* Then the other handlers stay as they are.
LEMMA HandStep ==
  ASSUME Context, NEW c \in Conns, NEW h, HandTo(c, h), h.seen <= ver',
         h.pc \in {"load", "reply"} => h.kind \in {"register", "update", "request"},
         h.pc = "online" => h.kind = "register"
  PROVE  /\ HandlersOK'
         /\ hand'[c] = h /\ \A d \in Conns \ {c} : hand'[d] = hand[d] /\ HandQuiet(d)
<1>1. hand'[c] = h /\ \A d \in Conns \ {c} : hand'[d] = hand[d]
  BY HandOf DEF HandTo
<1>2. \A d \in Conns : hand[d].seen <= ver'
  <2> SUFFICES ASSUME NEW d \in Conns PROVE hand[d].seen <= ver'
    OBVIOUS
  <2>1. hand[d].seen \in Nat /\ hand[d].seen <= ver /\ ver \in Nat /\ ver' \in Nat /\ ver <= ver'
    BY HandOf
  <2> QED
    BY <2>1
<1>3. ASSUME NEW d \in Conns
      PROVE  /\ hand'[d].pc \in {"load", "reply"} => hand'[d].kind \in {"register", "update", "request"}
             /\ hand'[d].pc = "online" => hand'[d].kind = "register"
             /\ hand'[d].seen <= ver'
  <2>1. CASE d = c
    BY <1>1, <2>1
  <2>2. CASE d # c
    <3>1. hand'[d] = hand[d]
      BY <1>1, <2>2
    <3>2. /\ hand[d].pc \in {"load", "reply"} => hand[d].kind \in {"register", "update", "request"}
          /\ hand[d].pc = "online" => hand[d].kind = "register"
      BY DEF Context, ClientInv, HandlersOK
    <3> QED
      BY <1>2, <3>1, <3>2
  <2> QED
    BY <2>1, <2>2
<1>4. HandlersOK'
  BY <1>3, Zenon DEF HandlersOK
<1> QED
  BY <1>1, <1>4, Zenon DEF HandQuiet

\* A request is taken from the connection.
LEMMA TakesRequest ==
  ASSUME ChannelsOK, NEW c \in Conns, up[c] # <<>>, up' = [up EXCEPT ![c] = Tail(@)]
  PROVE  /\ up' = [d \in Conns |-> up'[d]] /\ \A d \in Conns : UpMove(d) /\ UpQuiet(d)
         /\ up'[c] = Tail(up[c]) /\ \A d \in Conns \ {c} : up'[d] = up[d]
<1>1. up \in [Conns -> Seq(Asks)]
  BY DEF ChannelsOK
<1> DEFINE t == Tail(up[c])
<1>2. up' = [up EXCEPT ![c] = t]
  BY Zenon
<1> HIDE DEF t
<1>3. up' = [d \in Conns |-> up'[d]] /\ up'[c] = t /\ \A d \in Conns \ {c} : up'[d] = up[d]
  BY <1>1, <1>2, Zenon
<1> QED
  BY <1>3, Zenon DEF UpMove, UpQuiet, t

\* A handler that is not answering a request of the snapshot afterwards, with
\* quiet channels.
LEMMA HandlerStep ==
  ASSUME Context, NEW c \in Conns, NEW h, HandTo(c, h), h.seen <= ver',
         h.pc \in {"load", "reply"} => h.kind \in {"register", "update"},
         h.pc = "online" => h.kind = "register",
         rt' = rt, ChannelMoves, \A d \in Conns : UpQuiet(d) /\ WireQuiet(d)
  PROVE  ClientInv'
<1>1. h.pc \in {"load", "reply"} => h.kind \in {"register", "update", "request"} /\ h.kind # "request"
  OBVIOUS
<1>2. HandlersOK' /\ hand'[c] = h /\ \A d \in Conns \ {c} : HandQuiet(d)
  BY <1>1, HandStep
<1>3. HandQuiet(c)
  BY <1>1, <1>2, Zenon DEF HandQuiet, Answering
<1>4. ChannelsOK
  BY HandOf
<1>5. \A d \in Conns : Serves(d)
  BY <1>2, <1>3, <1>4, QuietServes, Zenon
<1> QED
  BY <1>2, <1>5, ServerStep, Zenon

\* Register and UpdateCandidates, up to the stored row.
LEMMA StoreKeeps ==
  ASSUME Context, NEW c \in Conns, HandleStore(c)
  PROVE  ClientInv'
<1>1. /\ hand[c] \in Handlers /\ hand[c].seen \in Nat /\ hand[c].seen <= ver /\ ver \in Nat /\ ver' \in Nat
      /\ ver <= ver' /\ ChannelsOK
  BY HandOf
<1>2. PICK pc \in {"bump", "load"}, k \in {"register", "update"}, need \in BOOLEAN :
        hand' = [hand EXCEPT ![c] = [hand[c] EXCEPT !.pc = pc, !.kind = k, !.need = need]]
  <2> DEFINE m == Head(up[c])
             new == IF m.kind = "register" THEN [life |-> m.life, cand |-> m.cand]
                                           ELSE [row EXCEPT !.cand = m.cand]
             q == IF m.kind = "register" \/ new # row THEN "bump" ELSE "load"
  <2>1. /\ hand' = [hand EXCEPT ![c] =
                      [hand[c] EXCEPT !.pc = q, !.kind = m.kind, !.need = (new # row)]]
        /\ m.kind \in {"register", "update"}
    BY Zenon DEF HandleStore, SetHand
  <2>2. q \in {"bump", "load"} /\ (new # row) \in BOOLEAN
    OBVIOUS
  <2> HIDE DEF q, m, new
  <2> QED
    BY <2>1, <2>2, Zenon
<1> DEFINE h == [hand[c] EXCEPT !.pc = pc, !.kind = k, !.need = need]
<1>3. h \in Handlers /\ h.pc = pc /\ h.kind = k /\ h.seen = hand[c].seen
  BY <1>1, Zenon DEF Handlers, Steps, Requests
<1>4. hand' = [hand EXCEPT ![c] = h]
  BY <1>2
<1> HIDE DEF h
<1>5. HandTo(c, h) /\ h.seen <= ver'
  BY <1>1, <1>3, <1>4, SMTT(30) DEF HandTo
<1>6. h.pc # "online" /\ h.pc \in {"bump", "load"} /\ h.kind \in {"register", "update"}
  BY <1>3
<1>7. up[c] # <<>> /\ up' = [up EXCEPT ![c] = Tail(@)] /\ UNCHANGED <<rt, slot, wire>>
  BY Zenon DEF HandleStore
<1>8. ChannelMoves /\ \A d \in Conns : UpQuiet(d) /\ WireQuiet(d)
  BY <1>1, <1>7, TakesRequest, ChannelsKept, Zenon DEF ChannelMoves
<1> QED
  BY <1>5, <1>6, <1>7, <1>8, HandlerStep

\* The new generation.
LEMMA BumpKeeps ==
  ASSUME Context, NEW c \in Conns, HandleBump(c)
  PROVE  ClientInv'
<1>1. /\ hand[c] \in Handlers /\ hand[c].seen \in Nat /\ hand[c].seen <= ver /\ ver \in Nat /\ ver' \in Nat
      /\ ver <= ver' /\ ChannelsOK
  BY HandOf
<1> DEFINE q == IF hand[c].kind = "register" THEN "online" ELSE "ask"
           h == [hand[c] EXCEPT !.pc = q]
<1>2. q \in {"online", "ask"} /\ (q = "online" => hand[c].kind = "register")
  OBVIOUS
<1>3. hand' = [hand EXCEPT ![c] = h]
  BY Zenon DEF HandleBump, SetHand
<1>4. UNCHANGED <<rt, up, slot, wire>>
  BY Zenon DEF HandleBump, channelVars
<1> HIDE DEF q
<1>5. h \in Handlers /\ h.pc = q /\ h.kind = hand[c].kind /\ h.seen = hand[c].seen
  BY <1>1, <1>2 DEF Handlers, Steps
<1> HIDE DEF h
<1>6. HandTo(c, h) /\ h.seen <= ver'
  BY <1>1, <1>3, <1>5 DEF HandTo
<1>7. ChannelMoves /\ \A d \in Conns : UpQuiet(d) /\ WireQuiet(d)
  BY <1>1, <1>4, ChannelsKept, Zenon DEF ChannelMoves
<1> QED
  BY <1>2, <1>4, <1>5, <1>6, <1>7, HandlerStep

\* Register joins the online sessions.
LEMMA OnlineKeeps ==
  ASSUME Context, NEW c \in Conns, HandleOnline(c)
  PROVE  ClientInv'
<1>1. /\ hand[c] \in Handlers /\ hand[c].seen \in Nat /\ hand[c].seen <= ver /\ ver \in Nat /\ ver' \in Nat
      /\ ver <= ver' /\ ChannelsOK
  BY HandOf
<1> DEFINE need == hand[c].need \/ ~WasOnline
           h == [hand[c] EXCEPT !.pc = "load", !.need = need]
<1>2. need \in BOOLEAN /\ hand[c].kind = "register"
  BY DEF HandleOnline, Context, ClientInv, HandlersOK
<1>3. hand' = [hand EXCEPT ![c] = h]
  BY Zenon DEF HandleOnline, SetHand
<1>4. UNCHANGED <<rt, up, slot, wire>>
  BY Zenon DEF HandleOnline, channelVars
<1> HIDE DEF need
<1>5. h \in Handlers /\ h.pc = "load" /\ h.kind = hand[c].kind /\ h.seen = hand[c].seen
  BY <1>1, <1>2, Zenon DEF Handlers, Steps
<1> HIDE DEF h
<1>6. HandTo(c, h) /\ h.seen <= ver'
  BY <1>1, <1>3, <1>5 DEF HandTo
<1>7. ChannelMoves /\ \A d \in Conns : UpQuiet(d) /\ WireQuiet(d)
  BY <1>1, <1>4, ChannelsKept, Zenon DEF ChannelMoves
<1> QED
  BY <1>2, <1>4, <1>5, <1>6, <1>7, HandlerStep

\* A handler that is done.
LEMMA DoneFields ==
  /\ Idle.seen = 0 /\ Ended.seen = 0 /\ Ended.kind = "none"
  /\ \A h \in Handlers : Served(h).seen = 0
  /\ [Idle EXCEPT !.pc = "bump", !.kind = "end"].seen = 0
<1>1. Idle.seen = 0 /\ Idle.kind = "none"
  BY Zenon DEF Idle
<1>2. ASSUME NEW h \in Handlers
      PROVE  /\ [h EXCEPT !.pc = "ended"].seen = h.seen /\ [h EXCEPT !.pc = "ended"].kind = h.kind
             /\ [h EXCEPT !.pc = "bump", !.kind = "end"].seen = h.seen
             /\ \A r \in BOOLEAN : [h EXCEPT !.registered = r].seen = h.seen
  BY DEF Handlers
<1>3. \A h \in Handlers : h.registered \in BOOLEAN
  BY DEF Handlers
<1> QED
  BY <1>1, <1>2, <1>3, IdleFields, Zenon DEF Ended, Served

\* A handler that is done has answered, or the connection is lost.
LEMMA DoneStep ==
  ASSUME Context, NEW c \in Conns, NEW h, hand' = [hand EXCEPT ![c] = h], h \in Handlers,
         h.seen = 0, h.pc \in {"read", "bump", "ask", "ended"},
         UNCHANGED <<rt, slot, wire>>, up' = up \/ up' = [up EXCEPT ![c] = <<>>]
  PROVE  ClientInv'
<1>1. ver' \in Nat /\ ChannelsOK
  BY HandOf
<1>2. HandTo(c, h) /\ h.seen <= ver' /\ h.pc \notin {"load", "reply", "online"}
  BY <1>1 DEF HandTo
<1>3. up' = [d \in Conns |-> up'[d]] /\ \A d \in Conns : up'[d] = up[d] \/ up'[d] = <<>>
  BY <1>1 DEF ChannelsOK
<1>4. ChannelMoves /\ \A d \in Conns : UpQuiet(d) /\ WireQuiet(d)
  BY <1>1, <1>3, ChannelsKept, Zenon DEF ChannelMoves, UpMove, UpQuiet
<1> QED
  BY <1>2, <1>4, HandlerStep

\* The answer that cannot be sent, the broadcast, and the end of a session.
LEMMA DoneKeeps ==
  ASSUME Context, NEW c \in Conns, HandleReplyFails(c) \/ HandleAsk(c) \/ HandleEnd(c)
  PROVE  ClientInv'
<1>1. hand[c] \in Handlers
  BY HandOf
<1>2. CASE HandleReplyFails(c)
  <2>1. hand' = [hand EXCEPT ![c] = Served(hand[c])] /\ UNCHANGED <<rt, slot, wire, up>>
    BY <1>2, Zenon DEF HandleReplyFails, SetHand, channelVars
  <2>2. Served(hand[c]) \in Handlers /\ Served(hand[c]).seen = 0 /\ Served(hand[c]).pc = "read"
    BY <1>1, ServedFields, DoneFields, Zenon
  <2> QED
    BY <2>1, <2>2, DoneStep, Zenon
<1>3. CASE HandleAsk(c)
  <2> DEFINE h == IF sock[c] = "closing" THEN Ended ELSE Served(hand[c])
  <2>1. hand' = [hand EXCEPT ![c] = h] /\ UNCHANGED <<rt, slot, wire, up>>
    BY <1>3, Zenon DEF HandleAsk, SetHand, channelVars
  <2>2. h \in Handlers /\ h.seen = 0 /\ (h.pc = "read" \/ h.pc = "ended")
    BY <1>1, ServedFields, EndedFields, DoneFields, Zenon
  <2> HIDE DEF h
  <2> QED
    BY <2>1, <2>2, DoneStep, Zenon
<1>4. CASE HandleEnd(c)
  <2> DEFINE last == hand[c].registered /\ ~leaked /\ \A d \in Conns \ {c} : ~online[d]
             h == IF last THEN [Idle EXCEPT !.pc = "bump", !.kind = "end"] ELSE Ended
  <2>1. /\ hand' = [hand EXCEPT ![c] = h] /\ UNCHANGED <<rt, slot, wire>>
        /\ up' = [up EXCEPT ![c] = <<>>]
    BY <1>4, Zenon DEF HandleEnd
  <2>2. h \in Handlers /\ h.seen = 0 /\ (h.pc = "bump" \/ h.pc = "ended")
    BY <1>1, LeavingFields, EndedFields, DoneFields, Zenon
  <2> HIDE DEF h
  <2> QED
    BY <2>1, <2>2, DoneStep, Zenon
<1> QED
  BY <1>2, <1>3, <1>4

-----------------------------------------------------------------------------
\* The request of the snapshot on its way through the handler.

\* The handler reads the registry: not before the request was sent.
LEMMA LoadKeeps ==
  ASSUME Context, NEW c \in Conns, HandleLoad(c)
  PROVE  ClientInv'
<1>1. /\ hand[c] \in Handlers /\ hand[c].pc = "load" /\ ver \in Nat /\ ver' \in Nat /\ ver <= ver'
      /\ ChannelsOK
      /\ hand[c].kind \in {"register", "update", "request"}
  BY HandOf DEF HandleLoad, Context, ClientInv, HandlersOK
<1> DEFINE h == [hand[c] EXCEPT !.pc = "reply", !.seen = ver]
<1>2. hand' = [hand EXCEPT ![c] = h]
  BY Zenon DEF HandleLoad, SetHand
<1>3. UNCHANGED <<rt, up, slot, wire>>
  BY Zenon DEF HandleLoad, channelVars
<1>4. h \in Handlers /\ h.pc = "reply" /\ h.kind = hand[c].kind /\ h.seen = ver
  BY <1>1, Zenon DEF Handlers, Steps
<1> HIDE DEF h
<1>5. HandTo(c, h) /\ h.seen <= ver'
  BY <1>1, <1>2, <1>4 DEF HandTo
<1>6. HandlersOK' /\ hand'[c] = h /\ \A d \in Conns \ {c} : hand'[d] = hand[d] /\ HandQuiet(d)
  BY <1>1, <1>4, <1>5, HandStep
<1>7. ChannelMoves /\ \A d \in Conns : UpQuiet(d) /\ WireQuiet(d)
  BY <1>1, <1>3, ChannelsKept, Zenon DEF ChannelMoves
<1>8. rt.since <= ver
  BY DEF Context, ClientInv, RuntimeOK
<1>9. Answering(c)' <=> Answering(c)
  BY <1>1, <1>4, <1>6 DEF Answering
<1>10. hand'[c].seen >= rt'.since
  <2>1. rt.since \in Nat
    BY DEF Context, ClientInv, RuntimeOK, Runtimes
  <2>2. rt'.since = rt.since /\ hand'[c].seen = ver
    BY <1>3, <1>4, <1>6, Zenon
  <2> QED
    BY <1>1, <1>8, <2>1, <2>2
<1>11. Serves(c)
  BY <1>3, <1>9, <1>10, Zenon DEF Serves, NothingAsked, AskedOnce
<1>12. \A d \in Conns : Serves(d)
  BY <1>1, <1>3, <1>6, <1>7, <1>11, QuietServes, Zenon
<1> QED
  BY <1>3, <1>6, <1>7, <1>12, ServerStep, Zenon

\* RequestSnapshot moves from the connection to its handler.
LEMMA QueryKeeps ==
  ASSUME Context, NEW c \in Conns, HandleQuery(c)
  PROVE  ClientInv'
<1>1. /\ hand[c] \in Handlers /\ hand[c].seen \in Nat /\ hand[c].seen <= ver /\ ver \in Nat /\ ver' \in Nat
      /\ ver <= ver' /\ ChannelsOK
  BY HandOf
<1>2. /\ up[c] # <<>> /\ up' = [up EXCEPT ![c] = Tail(@)] /\ UNCHANGED <<rt, slot>>
      /\ hand[c].pc = "read"
  BY Zenon DEF HandleQuery
<1>3. /\ up' = [d \in Conns |-> up'[d]] /\ \A d \in Conns : UpMove(d) /\ UpQuiet(d)
      /\ up'[c] = Tail(up[c]) /\ \A d \in Conns \ {c} : up'[d] = up[d]
  BY <1>1, <1>2, TakesRequest, Zenon
<1>4. CASE /\ Head(up[c]).kind = "list" /\ hand' = hand
           /\ wire' = [wire EXCEPT ![c] = Queue(c, Message("list", NoSnapshot))]
  <2> DEFINE m == Message("list", NoSnapshot)
  <2>1. m \in Messages /\ m.kind = "list" /\ m.snap = NoSnapshot
    BY SnapshotTypes, MessageType
  <2>2. m.snap.ver <= ver /\ m.kind # "resp"
    BY <1>1, <2>1, SnapshotTypes
  <2>3. wire' = [wire EXCEPT ![c] = Queue(c, m)]
    BY <1>4
  <2> HIDE DEF m
  <2>4. wire' = [d \in Conns |-> wire'[d]] /\ \A d \in Conns : WireMove(d) /\ WireQuiet(d)
    BY <1>1, <2>1, <2>2, <2>3, QueueMoves, Zenon
  <2>5. HandlersOK' /\ \A d \in Conns : HandQuiet(d)
    BY <1>4, HandlersKept, Zenon
  <2>6. ChannelMoves
    BY <1>1, <1>2, <1>3, <2>4, ChannelsKept, Zenon DEF ChannelMoves
  <2>7. \A d \in Conns : Serves(d)
    BY <1>1, <1>2, <1>3, <2>4, <2>5, QuietServes, Zenon
  <2> QED
    BY <1>2, <2>5, <2>6, <2>7, ServerStep, Zenon
<1>5. CASE /\ Head(up[c]).kind = "request" /\ wire' = wire
           /\ hand' = [hand EXCEPT ![c] = [hand[c] EXCEPT !.pc = "load", !.kind = "request", !.need = FALSE]]
  <2> DEFINE h == [hand[c] EXCEPT !.pc = "load", !.kind = "request", !.need = FALSE]
  <2>1. h \in Handlers /\ h.pc = "load" /\ h.kind = "request" /\ h.seen = hand[c].seen
    BY <1>1, Zenon DEF Handlers, Steps, Requests
  <2>2. hand' = [hand EXCEPT ![c] = h]
    BY <1>5
  <2> HIDE DEF h
  <2>3. HandTo(c, h) /\ h.seen <= ver'
    BY <1>1, <2>1, <2>2 DEF HandTo
  <2>4. HandlersOK' /\ hand'[c] = h /\ \A d \in Conns \ {c} : hand'[d] = hand[d] /\ HandQuiet(d)
    BY <2>1, <2>3, HandStep
  <2>5. ChannelMoves /\ \A d \in Conns : WireQuiet(d)
    BY <1>1, <1>2, <1>3, <1>5, ChannelsKept, Zenon DEF ChannelMoves
  <2>6. Has(up[c], "request")
    <3>1. up[c] \in Seq(Asks)
      BY <1>1 DEF ChannelsOK
    <3>2. 1 \in DOMAIN up[c] /\ Head(up[c]) = up[c][1]
      BY <1>2, <3>1, TailElements
    <3> QED
      BY <1>5, <3>2, Zenon DEF Has
  <2>7. Once(up[c], "request") => ~Has(up'[c], "request")
    <3>1. up[c] \in Seq(Asks)
      BY <1>1 DEF ChannelsOK
    <3> QED
      BY <1>2, <1>3, <1>5, <3>1, TailHolds
  <2>8. Once(up[c], "request") => Once(up'[c], "request")
    BY <1>1, <1>3, UpQuietHolds, Zenon
  <2>9. hand'[c].pc # "reply"
    BY <2>1, <2>4
  <2>10. Serves(c)
    BY <1>2, <1>5, <2>6, <2>7, <2>8, <2>9, Zenon DEF Serves, NothingAsked, AskedOnce
  <2>11. \A d \in Conns : Serves(d)
    BY <1>1, <1>2, <1>3, <2>4, <2>5, <2>10, QuietServes, Zenon
  <2> QED
    BY <1>2, <2>4, <2>5, <2>11, ServerStep, Zenon
<1> QED
  BY <1>4, <1>5, Zenon DEF HandleQuery, SetHand

\* The answer moves from the handler to the connection.
LEMMA ReplyKeeps ==
  ASSUME Context, NEW c \in Conns, HandleReply(c)
  PROVE  ClientInv'
<1>1. /\ hand[c] \in Handlers /\ hand[c].seen \in Nat /\ hand[c].seen <= ver /\ ver \in Nat /\ ver' \in Nat
      /\ ver <= ver' /\ ChannelsOK /\ gen \in Nat
      /\ hand[c].pc = "reply" /\ hand[c].kind \in {"register", "update", "request"}
  BY HandOf DEF HandleReply, Context, ClientInv, HandlersOK
<1> DEFINE q == IF hand[c].kind = "register" /\ hand[c].need THEN "ask" ELSE "read"
           r == hand[c].registered \/ hand[c].kind = "register"
           h == [Idle EXCEPT !.pc = q, !.registered = r]
<1>2. hand' = [hand EXCEPT ![c] = h]
  BY Zenon DEF HandleReply, SetHand
<1>3. UNCHANGED <<rt, up, slot>>
  BY Zenon DEF HandleReply
<1>4. q \in {"ask", "read"} /\ r \in BOOLEAN
  OBVIOUS
<1>5. h \in Handlers /\ h.pc = q /\ h.seen = 0
  <2> HIDE DEF q, r
  <2> QED
    BY <1>4, IdleFields, DoneFields, Zenon DEF Handlers, Steps
<1> HIDE DEF h, q, r
<1>6. HandTo(c, h) /\ h.seen <= ver' /\ h.pc \notin {"load", "reply", "online"}
  BY <1>1, <1>2, <1>4, <1>5 DEF HandTo
<1>7. HandlersOK' /\ hand'[c] = h /\ \A d \in Conns \ {c} : hand'[d] = hand[d] /\ HandQuiet(d)
  BY <1>6, HandStep
<1> DEFINE k == ReplyKind(hand[c].kind)
           s == Snapshot(gen, hand[c].seen)
           m == Message(k, s)
<1>8. k \in {"ok", "snap", "resp"} /\ (k = "resp" <=> hand[c].kind = "request")
  BY <1>1 DEF ReplyKind
<1>9. s \in Snapshots /\ s.ver = hand[c].seen
  BY <1>1, SnapshotTypes
<1>10. wire' = [wire EXCEPT ![c] = Queue(c, m)]
  BY Zenon DEF HandleReply
<1>11. m \in Messages /\ m.kind = k /\ m.snap.ver = hand[c].seen
  <2> HIDE DEF k, s
  <2> QED
    BY <1>8, <1>9, MessageType
<1> HIDE DEF m, k, s
<1>12. /\ wire' = [d \in Conns |-> wire'[d]] /\ \A d \in Conns : WireMove(d)
       /\ m.kind # "resp" => \A d \in Conns : WireQuiet(d)
       /\ \A d \in Conns \ {c} : wire'[d] = wire[d]
       /\ wire'[c] = wire[c] \/ wire'[c] = Append(wire[c], m)
  BY <1>1, <1>10, <1>11, QueueMoves, Zenon
<1>13. ChannelMoves /\ \A d \in Conns : UpQuiet(d)
  BY <1>1, <1>3, <1>12, ChannelsKept, Zenon DEF ChannelMoves
<1>14. \A d \in Conns \ {c} : Serves(d)
  BY <1>1, <1>3, <1>7, <1>12, <1>13, QuietServes, Zenon DEF WireQuiet
<1>15. ~Answering(c)'
  BY <1>6, <1>7 DEF Answering
<1>16. CASE wire'[c] = wire[c] \/ m.kind # "resp"
  <2>1. WireQuiet(c)
    BY <1>12, <1>16, Zenon DEF WireQuiet
  <2>2. Serves(c)
    BY <1>1, <1>3, <1>13, <1>15, <2>1, QuietServes, Zenon DEF HandQuiet
  <2> QED
    BY <1>3, <1>7, <1>13, <1>14, <2>2, ServerStep, Zenon
<1>17. CASE wire'[c] = Append(wire[c], m) /\ m.kind = "resp"
  <2>1. Answering(c) /\ hand[c].pc = "reply"
    BY <1>1, <1>8, <1>11, <1>17 DEF Answering
  <2>2. wire[c] \in Seq(Messages)
    BY <1>1 DEF ChannelsOK
  <2>3. /\ Once(wire[c], "resp") /\ ~Has(wire[c], "resp") => Once(wire'[c], "resp")
        /\ \A v : Fresh(wire[c], v) /\ m.snap.ver >= v => Fresh(wire'[c], v)
    BY <1>11, <1>17, <2>2, AppendHolds, SMTT(30)
  <2>4. Serves(c)
    BY <1>3, <1>11, <1>15, <2>1, <2>3, Zenon DEF Serves, NothingAsked, AskedOnce
  <2> QED
    BY <1>3, <1>7, <1>13, <1>14, <2>4, ServerStep, Zenon
<1> QED
  BY <1>12, <1>16, <1>17
=============================================================================
