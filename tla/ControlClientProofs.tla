------------------------- MODULE ControlClientProofs -------------------------
(***************************************************************************)
(* The client's side of ControlPlane: the invariant ControlInv, and what   *)
(* follows from it for any number of handlers, connections and events.     *)
(*                                                                         *)
(* ResponseIsFresh: requests and answers are matched only by their order   *)
(* on the connection. So while the runtime waits for a snapshot its        *)
(* connection holds one request of it, as a request, in the handler or as  *)
(* an answer (AskedOnce), and in any other phase none (NothingAsked): the  *)
(* runtime must never start a request on a connection that still owes an   *)
(* answer. Every lemma "...Keeps" shows this for one action, ClientKeeps   *)
(* for all. That no answer is newer than the registry is part of it.       *)
(***************************************************************************)
EXTENDS ControlPlaneProofs

\* What the client takes from its connections, or drops with them.
Drained ==
  /\ wire' = [c \in Conns |-> wire'[c]] /\ \A c \in Conns : WireMove(c) /\ WireQuiet(c)
  /\ slot' = [c \in Conns |-> slot'[c]]
  /\ \A c \in Conns : slot'[c] = slot[c] \/ (slot'[c] \in Snapshots /\ slot'[c].ver <= ver)

\* What is known of the runtime.
LEMMA RuntimeOf ==
  ASSUME Context
  PROVE  /\ ver \in Nat /\ events \in Nat /\ ver' \in Nat /\ events' \in Nat /\ ver <= ver' /\ events <= events'
         /\ rt \in Runtimes /\ ChannelsOK
         /\ rt.set \in Seq(Messages) /\ rt.cand \in Nat /\ rt.next \in Nat /\ rt.since \in Nat
         /\ rt.lives \in Nat /\ rt.applied \in Snapshots /\ rt.published \in Snapshots
         /\ rt.applied.ver \in Nat
         /\ rt.lives <= MaxLives /\ rt.cand <= events /\ rt.next <= events /\ rt.since <= ver
         /\ rt.applied.ver <= ver /\ Past(rt.set, ver) /\ Once(rt.set, "snap")
         /\ rt.st # "down" => rt.conn \in Conns /\ Current \in Conns
         /\ rt.repl # None => rt.st = "register"
<1>1. /\ ver \in Nat /\ events \in Nat /\ ver' \in Nat /\ events' \in Nat /\ ver <= ver'
      /\ events <= events'
      /\ RuntimeOK /\ ChannelsOK
  BY ControlPlaneAssumption DEF Context, Inv, Types, RegistryOK, ClientInv, Grows
<1>2. rt \in Runtimes
  BY <1>1 DEF RuntimeOK
<1>3. /\ rt.set \in Seq(Messages) /\ rt.cand \in Nat /\ rt.next \in Nat /\ rt.since \in Nat
      /\ rt.lives \in Nat /\ rt.applied \in Snapshots /\ rt.published \in Snapshots
      /\ rt.conn \in Conns \cup {None} /\ rt.repl \in Conns \cup {None}
  BY <1>2 DEF Runtimes
<1>4. rt.applied.ver \in Nat
  BY <1>3 DEF Snapshots
<1>5. rt.st # "down" => rt.conn \in Conns /\ Current \in Conns
  BY <1>1, <1>3 DEF Current, RuntimeOK
<1> QED
  BY <1>1, <1>2, <1>3, <1>4, <1>5 DEF RuntimeOK

\* The fields of the new runtime.
LEMMA ShapeStep ==
  ASSUME NEW st, NEW conn, NEW repl, NEW set, NEW applied, NEW cand, NEW next, NEW since, NEW lives,
         Shape(rt', st, conn, repl, set, applied, cand, next, since, lives),
         st # "down" => conn \in Conns, repl # None => st = "register",
         lives <= MaxLives, cand <= events', next <= events', since <= ver', applied.ver <= ver',
         Past(set, ver'), Once(set, "snap")
  PROVE  RuntimeOK'
BY Zenon DEF Shape, RuntimeOK

\* The client takes one message.
LEMMA TookMoves ==
  ASSUME Context, NEW c \in Conns, wire[c] # <<>>, Took(c)
  PROVE  Drained /\ wire'[c] = Tail(wire[c])
<1>1. ChannelsOK
  BY RuntimeOf, SMTT(30)
<1> DEFINE t == Tail(wire[c])
<1>2. wire' = [wire EXCEPT ![c] = t] /\ slot' = slot
  BY Zenon DEF Took, Rest
<1> HIDE DEF t
<1>3. wire' = [d \in Conns |-> wire'[d]] /\ wire'[c] = t /\ \A d \in Conns \ {c} : wire'[d] = wire[d]
  BY <1>1, <1>2, Zenon DEF ChannelsOK
<1>4. \A d \in Conns : WireMove(d) /\ WireQuiet(d)
  BY <1>3, Zenon DEF WireMove, WireQuiet, t
<1> QED
  BY <1>1, <1>2, <1>3, <1>4, ChannelsKept, Zenon DEF Drained, t

\* The client drops connections with what they held.
LEMMA DropMoves ==
  ASSUME Context, NEW cs, NEW left, Drop(cs, left),
         left = wire \/ \E c \in Conns : wire[c] # <<>> /\ left = Rest(c)
  PROVE  Drained
<1>1. ChannelsOK /\ ver \in Nat
  BY RuntimeOf, SMTT(30)
<1>2. NoSnapshot \in Snapshots /\ NoSnapshot.ver <= ver
  BY <1>1, SnapshotTypes
<1>3. slot' = [c \in Conns |-> IF c \in cs THEN NoSnapshot ELSE slot[c]]
  BY Zenon DEF Drop, Cut
<1>4. /\ slot' = [d \in Conns |-> slot'[d]]
      /\ \A d \in Conns : slot'[d] = slot[d] \/ slot'[d] = NoSnapshot
  BY <1>3
<1>5. wire' = [c \in Conns |-> IF c \in cs THEN <<>> ELSE left[c]]
  BY Zenon DEF Drop
<1>6. wire' = [d \in Conns |-> wire'[d]] /\ \A d \in Conns : wire'[d] = left[d] \/ wire'[d] = <<>>
  BY <1>5
<1>7. \A d \in Conns : left[d] = wire[d] \/ (wire[d] # <<>> /\ left[d] = Tail(wire[d]))
  <2>1. ASSUME NEW c \in Conns, wire[c] # <<>>, left = Rest(c)
        PROVE  \A d \in Conns : left[d] = wire[d] \/ (wire[d] # <<>> /\ left[d] = Tail(wire[d]))
    <3> DEFINE t == Tail(wire[c])
    <3>1. left = [wire EXCEPT ![c] = t]
      BY <2>1, Zenon DEF Rest
    <3> HIDE DEF t
    <3>2. left[c] = t /\ \A d \in Conns \ {c} : left[d] = wire[d]
      BY <1>1, <3>1 DEF ChannelsOK
    <3> QED
      BY <2>1, <3>2, Zenon DEF t
  <2> QED
    BY <2>1, Zenon
<1>8. \A d \in Conns : WireMove(d) /\ WireQuiet(d)
  BY <1>6, <1>7, Zenon DEF WireMove, WireQuiet
<1> QED
  BY <1>2, <1>4, <1>6, <1>8, Zenon DEF Drained

\* The client leaves its connections alone.
LEMMA KeptDrained ==
  ASSUME Context, UNCHANGED <<wire, slot>>
  PROVE  Drained
<1>1. ChannelsOK
  BY RuntimeOf, SMTT(30)
<1> QED
  BY <1>1, ChannelsKept, Zenon DEF Drained

\* The client sends a request.
LEMMA AskMoves ==
  ASSUME Context, NEW c \in Conns, NEW x \in Asks, x.life <= MaxLives, x.cand <= events',
         up' = [up EXCEPT ![c] = Append(@, x)]
  PROVE  /\ up' = [d \in Conns |-> up'[d]] /\ \A d \in Conns : UpMove(d)
         /\ x.kind # "request" => \A d \in Conns : UpQuiet(d)
         /\ up'[c] = Append(up[c], x)
<1>1. ChannelsOK
  BY RuntimeOf, SMTT(30)
<1> DEFINE t == Append(up[c], x)
<1>2. up' = [up EXCEPT ![c] = t]
  BY Zenon
<1> HIDE DEF t
<1>3. up' = [d \in Conns |-> up'[d]] /\ up'[c] = t /\ \A d \in Conns \ {c} : up'[d] = up[d]
  BY <1>1, <1>2, Zenon DEF ChannelsOK
<1> QED
  BY <1>3, Zenon DEF UpMove, UpQuiet, t

\* Nothing new is asked on a connection.
LEMMA StillNothing ==
  ASSUME Context, NEW c \in Conns, hand' = hand, Drained, UpQuiet(c), NothingAsked(c)
  PROVE  NothingAsked(c)'
<1>1. ChannelsOK
  BY RuntimeOf, SMTT(30)
<1>2. HandQuiet(c)
  BY HandlersKept, Zenon
<1>3. WireQuiet(c)
  BY Zenon DEF Drained
<1> QED
  BY <1>1, <1>2, <1>3, QuietServes, Zenon

\* The runtime ends.
LEMMA DieKeeps ==
  ASSUME Context, Die, UNCHANGED <<up, hand>>
  PROVE  ClientInv'
<1>1. /\ rt' = Down(rt.lives) /\ rt.lives \in Nat /\ rt.lives <= MaxLives /\ ver' \in Nat
      /\ events' \in Nat /\ ChannelsOK
  BY RuntimeOf, SMTT(30) DEF Die
<1>2. Shape(rt', "down", None, None, <<>>, NoSnapshot, 0, 0, 0, rt.lives)
  BY <1>1, DownShape
<1>3. 0 <= events' /\ 0 <= ver' /\ NoSnapshot.ver <= ver'
  BY <1>1, SnapshotTypes
<1>4. Past(<<>>, ver') /\ Once(<<>>, "snap")
  BY EmptyHolds
<1>5. RuntimeOK'
  BY <1>1, <1>2, <1>3, <1>4, ShapeStep
<1>6. Drained
  BY DropMoves, Zenon DEF Die
<1>7. ChannelMoves
  BY <1>1, <1>6, ChannelsKept, Zenon DEF ChannelMoves, Drained
<1>8. ChannelsOK'
  BY <1>7, ChannelStep, Zenon DEF Context, ClientInv
<1>9. HandlersOK'
  BY HandlersKept, Zenon
<1>10. rt'.st = "down"
  BY <1>2, Zenon DEF Shape
<1>11. AskedOK'
  BY <1>10 DEF AskedOK
<1> QED
  BY <1>5, <1>8, <1>9, <1>11, Zenon DEF ClientInv

\* The runtime goes offline.
LEMMA RetryKeeps ==
  ASSUME Context, Retryable, UNCHANGED <<up, hand>>, Waiting \/ rt.st = "idle"
  PROVE  ClientInv'
<1>1. CASE Die
  BY <1>1, DieKeeps
<1>2. CASE ~Die
  <2>1. /\ rt' = [rt EXCEPT !.st = "offline", !.why = "tick", !.repl = None, !.next = 0, !.since = 0]
        /\ Drop({rt.repl}, wire)
    BY <1>2, Zenon DEF Retryable
  <2>2. /\ rt \in Runtimes /\ rt.lives <= MaxLives /\ rt.cand <= events' /\ 0 <= events' /\ 0 <= ver'
        /\ ChannelsOK
        /\ rt.applied.ver <= ver' /\ Once(rt.set, "snap")
    BY RuntimeOf, SMTT(30)
  <2>3. Past(rt.set, ver')
    BY RuntimeOf, PastGrows, SMTT(30)
  <2>4. rt.conn \in Conns
    BY RuntimeOf, SMTT(30) DEF Waiting
  <2>5. Shape(rt', "offline", rt.conn, None, rt.set, rt.applied, rt.cand, 0, 0, rt.lives)
    BY <2>1, <2>2, OfflineShape, Zenon
  <2>6. RuntimeOK'
    BY <2>2, <2>3, <2>4, <2>5, ShapeStep
  <2>7. Drained
    BY <2>1, DropMoves, Zenon
  <2>8. ChannelMoves
    BY <2>2, <2>7, ChannelsKept, Zenon DEF ChannelMoves, Drained
  <2>9. ChannelsOK'
    BY <2>8, ChannelStep, Zenon DEF Context, ClientInv
  <2>10. HandlersOK'
    BY HandlersKept, Zenon
  <2>11. rt'.st = "offline"
    BY <2>5, Zenon DEF Shape
  <2>12. AskedOK'
    BY <2>11 DEF AskedOK
  <2> QED
    BY <2>6, <2>9, <2>10, <2>12, Zenon DEF ClientInv
<1> QED
  BY <1>1, <1>2

\* A refresh starts on a connection that owes no answer any more.
LEMMA RefreshOn ==
  ASSUME Context, UNCHANGED <<ver, hand>>, Drained,
         NEW r \in Runtimes, NEW c \in Conns, NEW s \in Seq(Messages),
         RequestSnapshot(r, c, s) \/ StartRefresh(r, c, s),
         r.conn = c, r.repl = None, r.lives <= MaxLives, r.cand <= events, r.applied.ver <= ver,
         Past(s, ver), Once(s, "snap"),
         ~Has(up[c], "request"), ~Answering(c), ~Has(wire'[c], "resp")
  PROVE  ClientInv'
<1>1. /\ ver \in Nat /\ ver' = ver /\ events \in Nat /\ events' \in Nat /\ events <= events' /\ ChannelsOK
      /\ r.cand \in Nat /\ r.lives \in Nat /\ r.cand <= events'
  <2>1. r.cand \in Nat /\ r.lives \in Nat
    BY DEF Runtimes
  <2> QED
    BY <2>1, RuntimeOf, SMTT(30)
<1>2. ~Answering(c)' /\ ~Has(wire'[c], "resp") /\ Once(wire'[c], "resp") /\ Fresh(wire'[c], ver)
  <2>1. ~Answering(c)'
    BY Zenon DEF Answering
  <2>2. Once(wire'[c], "resp") /\ Fresh(wire'[c], ver)
    BY Zenon DEF Has, Once, Fresh
  <2> QED
    BY <2>1, <2>2
<1>3. HandlersOK'
  BY HandlersKept, Zenon
<1>4. up[c] \in Seq(Asks) /\ ~Has(up[c], "request") /\ Once(up[c], "request")
  BY <1>1, Zenon DEF ChannelsOK, Has, Once
<1>5. ASSUME NEW st \in {"snapshot", "update"}, NEW n \in Nat, n <= events',
             rt' = [r EXCEPT !.st = st, !.next = n, !.since = ver, !.set = s]
      PROVE  /\ RuntimeOK' /\ rt'.st = st /\ rt'.conn = c /\ rt'.since = ver
  <2>1. Shape(rt', st, r.conn, r.repl, s, r.applied, r.cand, n, ver, r.lives)
    BY <1>1, <1>5, RefreshShape, Zenon
  <2>2. RuntimeOK'
    BY <1>1, <1>5, <2>1, ShapeStep
  <2> QED
    BY <2>1, <2>2, Zenon DEF Shape
<1>6. CASE /\ Ask(c, "request", r.lives, r.cand)
           /\ rt' = [r EXCEPT !.st = "snapshot", !.next = r.cand, !.since = ver, !.set = s]
  <2>1. RuntimeOK' /\ rt'.st = "snapshot" /\ rt'.conn = c /\ rt'.since = ver
    BY <1>1, <1>5, <1>6, Zenon
  <2> DEFINE x == Request("request", r.lives, r.cand)
  <2>2. x \in Asks /\ x.kind = "request" /\ x.life <= MaxLives /\ x.cand <= events'
    <3>1. x \in Asks /\ x.kind = "request" /\ x.life = r.lives /\ x.cand = r.cand
      BY <1>1 DEF Request, Asks
    <3> HIDE DEF x
    <3> QED
      BY <1>1, <3>1
  <2>3. up' = [up EXCEPT ![c] = Append(@, x)]
    BY <1>6, Zenon DEF Ask
  <2> HIDE DEF x
  <2>4. /\ up' = [d \in Conns |-> up'[d]] /\ \A d \in Conns : UpMove(d)
        /\ up'[c] = Append(up[c], x)
    BY <2>2, <2>3, AskMoves, Zenon
  <2>5. ChannelsOK'
    BY <2>4, ChannelStep, Zenon DEF Context, ClientInv, ChannelMoves, Drained
  <2>6. Once(up'[c], "request")
    BY <1>4, <2>2, <2>4, AppendHolds
  <2>7. AskedOnce(c)'
    BY <1>2, <2>1, <2>6, Zenon DEF AskedOnce
  <2>8. AskedOK'
    BY <2>1, <2>7 DEF AskedOK
  <2> QED
    BY <1>3, <2>1, <2>5, <2>8, Zenon DEF ClientInv
<1>7. CASE /\ Event("candidates") /\ Ask(c, "update", r.lives, r.cand + 1)
           /\ rt' = [r EXCEPT !.st = "update", !.next = r.cand + 1, !.since = ver, !.set = s]
  <2>1. r.cand + 1 \in Nat /\ r.cand + 1 <= events'
    BY <1>1, <1>7 DEF Event
  <2>2. RuntimeOK' /\ rt'.st = "update" /\ rt'.conn = c
    BY <1>5, <1>7, <2>1, Zenon
  <2> DEFINE x == Request("update", r.lives, r.cand + 1)
  <2>3. x \in Asks /\ x.kind = "update" /\ x.life <= MaxLives /\ x.cand <= events'
    <3>1. x \in Asks /\ x.kind = "update" /\ x.life = r.lives /\ x.cand = r.cand + 1
      BY <1>1, <2>1 DEF Request, Asks
    <3> HIDE DEF x
    <3> QED
      BY <1>1, <2>1, <3>1
  <2>4. up' = [up EXCEPT ![c] = Append(@, x)]
    BY <1>7, Zenon DEF Ask
  <2> HIDE DEF x
  <2>5. x.kind # "request"
    BY <2>3
  <2>6. /\ up' = [d \in Conns |-> up'[d]] /\ \A d \in Conns : UpMove(d) /\ UpQuiet(d)
    BY <2>3, <2>4, <2>5, AskMoves, Zenon
  <2>7. ChannelsOK'
    BY <2>6, ChannelStep, Zenon DEF Context, ClientInv, ChannelMoves, Drained
  <2>8. ~Has(up'[c], "request")
    BY <1>1, <2>6, UpQuietHolds
  <2>9. NothingAsked(c)'
    BY <1>2, <2>8, Zenon DEF NothingAsked
  <2>10. AskedOK'
    BY <2>2, <2>9 DEF AskedOK
  <2> QED
    BY <1>3, <2>2, <2>7, <2>10, Zenon DEF ClientInv
<1> QED
  BY <1>6, <1>7, Zenon DEF StartRefresh, RequestSnapshot

\* A refresh starts on a connection on which nothing was asked.
LEMMA RefreshKeeps ==
  ASSUME Context, UNCHANGED <<ver, hand>>, Drained,
         NEW r \in Runtimes, NEW c \in Conns, NEW s \in Seq(Messages),
         RequestSnapshot(r, c, s) \/ StartRefresh(r, c, s),
         r.conn = c, r.repl = None, r.lives <= MaxLives, r.cand <= events, r.applied.ver <= ver,
         Past(s, ver), Once(s, "snap"), NothingAsked(c)
  PROVE  ClientInv'
<1>1. ChannelsOK
  BY RuntimeOf, SMTT(30)
<1>2. ~Has(wire'[c], "resp")
  BY <1>1, WireQuietHolds DEF Drained, NothingAsked
<1>3. ~Has(up[c], "request") /\ ~Answering(c)
  BY Zenon DEF NothingAsked
<1> QED
  BY <1>2, <1>3, RefreshOn, Zenon

\* The runtime opens a connection and asks to register on it.
LEMMA OpenKeeps ==
  ASSUME Context, NEW c \in Conns, NEW l \in Nat, NEW n \in Nat, OpenOn(c, l, n),
         l <= MaxLives, n <= events, RuntimeOK', rt'.st = "register", Current' = c
  PROVE  ClientInv'
<1>1. ChannelsOK /\ ver \in Nat /\ ver' \in Nat /\ n <= events'
  BY RuntimeOf, SMTT(30)
<1>2. /\ hand' = [hand EXCEPT ![c] = Idle]
      /\ up' = [up EXCEPT ![c] = <<Request("register", l, n)>>]
      /\ slot' = [slot EXCEPT ![c] = NoSnapshot]
      /\ wire' = [wire EXCEPT ![c] = <<>>]
  BY Zenon DEF OpenOn
<1> DEFINE x == Request("register", l, n)
<1>3. x \in Asks /\ x.kind = "register" /\ x.life = l /\ x.cand = n
  BY DEF Request, Asks
<1> HIDE DEF x
<1>4. up' = [up EXCEPT ![c] = Append(<<>>, x)]
  BY <1>2 DEF x
<1>5. /\ up' = [d \in Conns |-> up'[d]] /\ up'[c] = Append(<<>>, x)
      /\ \A d \in Conns \ {c} : up'[d] = up[d]
  BY <1>1, <1>4, Zenon DEF ChannelsOK
<1>6. \A d \in Conns : UpMove(d)
  BY <1>1, <1>3, <1>5, Zenon DEF UpMove
<1>7. /\ wire' = [d \in Conns |-> wire'[d]] /\ wire'[c] = <<>>
      /\ \A d \in Conns \ {c} : wire'[d] = wire[d]
  BY <1>1, <1>2, Zenon DEF ChannelsOK
<1>8. \A d \in Conns : WireMove(d)
  BY <1>7, Zenon DEF WireMove
<1>9. /\ slot' = [d \in Conns |-> slot'[d]]
      /\ \A d \in Conns : slot'[d] = slot[d] \/ slot'[d] = NoSnapshot
  BY <1>1, <1>2, Zenon DEF ChannelsOK
<1>10. NoSnapshot \in Snapshots /\ NoSnapshot.ver <= ver
  BY <1>1, SnapshotTypes
<1>11. ChannelMoves
  BY <1>5, <1>6, <1>7, <1>8, <1>9, <1>10, Zenon DEF ChannelMoves
<1>12. ChannelsOK'
  BY <1>11, ChannelStep, Zenon DEF Context, ClientInv
<1>13. HandTo(c, Idle) /\ Idle.seen <= ver' /\ Idle.pc \notin {"load", "reply", "online"}
  BY <1>1, <1>2, IdleFields, DoneFields DEF HandTo
<1>14. HandlersOK' /\ hand'[c] = Idle
  BY <1>13, HandStep
<1>15. ~Has(up'[c], "request")
  <2>1. <<>> \in Seq(Asks) /\ ~Has(<<>>, "request")
    BY EmptyHolds
  <2>2. x.kind # "request"
    BY <1>3
  <2>3. Has(Append(<<>>, x), "request") => Has(<<>>, "request") \/ x.kind = "request"
    BY <1>3, <2>1, AppendHolds, Zenon
  <2> QED
    BY <1>5, <2>1, <2>2, <2>3, Zenon
<1>16. NothingAsked(c)'
  BY <1>7, <1>13, <1>14, <1>15, EmptyHolds DEF NothingAsked, Answering
<1>17. AskedOK'
  BY <1>16 DEF AskedOK
<1> QED
  BY <1>12, <1>14, <1>17, Zenon DEF ClientInv

\* The supervisor starts a runtime.
LEMMA StartKeeps ==
  ASSUME Context, NEW c \in Conns, Start(c)
  PROVE  ClientInv'
<1>1. /\ rt.lives \in Nat /\ rt.cand \in Nat /\ rt.cand <= events /\ events' \in Nat /\ ver' \in Nat
      /\ rt.lives + 1 <= MaxLives /\ rt.lives + 1 \in Nat
  <2>1. rt.lives \in Nat /\ rt.cand \in Nat /\ rt.cand <= events /\ events' \in Nat /\ ver' \in Nat
    BY RuntimeOf, SMTT(30)
  <2>2. rt.lives < MaxLives
    BY Zenon DEF Start
  <2> QED BY <2>1, <2>2, ControlPlaneAssumption
<1>2. /\ OpenOn(c, rt.lives + 1, rt.cand)
      /\ rt' = [Down(rt.lives + 1) EXCEPT !.st = "register", !.conn = c]
  BY Zenon DEF Start
<1>3. Shape(rt', "register", c, None, <<>>, NoSnapshot, 0, 0, 0, rt.lives + 1)
  BY <1>1, <1>2, StartShape, Zenon
<1>4. 0 <= events' /\ 0 <= ver' /\ NoSnapshot.ver <= ver'
  BY <1>1, SnapshotTypes
<1>5. RuntimeOK'
  BY <1>1, <1>3, <1>4, EmptyHolds, ShapeStep
<1>6. rt'.st = "register" /\ Current' = c
  BY <1>3 DEF Shape, Current
<1> QED
  BY <1>1, <1>2, <1>5, <1>6, OpenKeeps

\* The runtime opens a second connection.
LEMMA ReconnectKeeps ==
  ASSUME Context, NEW c \in Conns, Reconnect(c)
  PROVE  ClientInv'
<1>1. /\ rt \in Runtimes /\ rt.lives \in Nat /\ rt.cand \in Nat /\ rt.cand <= events /\ rt.lives <= MaxLives
      /\ rt.cand <= events' /\ rt.next <= events' /\ rt.since <= ver' /\ rt.applied.ver <= ver'
      /\ Once(rt.set, "snap")
  BY RuntimeOf, SMTT(30)
<1>2. Past(rt.set, ver')
  BY RuntimeOf, PastGrows, SMTT(30)
<1>3. /\ OpenOn(c, rt.lives, rt.cand)
      /\ rt' = [rt EXCEPT !.st = "register", !.why = "reconnect", !.repl = c]
      /\ rt.st = "offline"
  BY Zenon DEF Reconnect
<1>4. Shape(rt', "register", rt.conn, c, rt.set, rt.applied, rt.cand, rt.next, rt.since, rt.lives)
  BY <1>1, <1>3, ReconnectShape, Zenon
<1>5. rt.conn \in Conns
  BY <1>3, RuntimeOf, SMTT(30)
<1>6. RuntimeOK'
  BY <1>1, <1>2, <1>4, <1>5, ShapeStep
<1>7. c # None
  BY ControlPlaneAssumption
<1>8. rt'.st = "register" /\ Current' = c
  BY <1>4, <1>7 DEF Shape, Current
<1> QED
  BY <1>1, <1>3, <1>6, <1>8, OpenKeeps

-----------------------------------------------------------------------------
\* The message at the head of a connection.
LEMMA HeadOf ==
  ASSUME Context, NEW c \in Conns, wire[c] # <<>>
  PROVE  /\ Head(wire[c]) \in Messages /\ Head(wire[c]).snap \in Snapshots
         /\ Head(wire[c]).snap.ver \in Nat /\ Head(wire[c]).snap.ver <= ver
<1>1. wire[c] \in Seq(Messages) /\ Past(wire[c], ver)
  BY RuntimeOf, SMTT(30) DEF ChannelsOK
<1>2. Head(wire[c]) \in Messages
  BY <1>1
<1>3. Head(wire[c]).snap.ver <= ver
  BY <1>1, TailHolds
<1>4. Head(wire[c]).snap \in Snapshots /\ Head(wire[c]).snap.ver \in Nat
  BY <1>2 DEF Messages, Snapshots
<1> QED
  BY <1>2, <1>3, <1>4

\* RegisterOk, on the first or on the second connection.
LEMMA RegisterKeeps ==
  ASSUME Context, RecvRegister
  PROVE  ClientInv'
<1>1. /\ rt.st = "register" /\ wire[Current] # <<>> /\ UNCHANGED <<ver, hand>>
  BY Zenon DEF RecvRegister, serverVars, registryVars
<1>2. /\ Current \in Conns /\ rt \in Runtimes /\ rt.lives <= MaxLives /\ rt.cand <= events /\ ver \in Nat
  BY <1>1, RuntimeOf, SMTT(30)
<1> DEFINE m == Head(wire[Current])
           a == m.snap
           r == [rt EXCEPT !.conn = Current, !.repl = None, !.applied = a]
<1>3. a \in Snapshots /\ a.ver <= ver
  BY <1>1, <1>2, HeadOf
<1>4. CASE Die /\ UNCHANGED <<up, events>>
  BY <1>1, <1>4, DieKeeps
<1>5. CASE /\ StartRefresh(r, Current, <<>>)
           /\ Drop({rt.conn} \ {Current}, Rest(Current))
  <2> HIDE DEF m, a
  <2>1. Shape(r, rt.st, Current, None, rt.set, a, rt.cand, rt.next, rt.since, rt.lives)
    BY <1>2, <1>3, AdoptShape, Zenon
  <2> HIDE DEF r
  <2>2. /\ r \in Runtimes /\ r.conn = Current /\ r.repl = None /\ r.lives <= MaxLives /\ r.cand <= events
        /\ r.applied.ver <= ver
    BY <1>2, <1>3, <2>1 DEF Shape
  <2>3. Drained
    BY <1>1, <1>2, <1>5, DropMoves, Zenon
  <2>4. NothingAsked(Current)
    BY <1>1 DEF Context, ClientInv, AskedOK
  <2>5. <<>> \in Seq(Messages) /\ Past(<<>>, ver) /\ Once(<<>>, "snap")
    BY EmptyHolds
  <2>6. PICK c \in Conns : c = Current
    BY <1>2
  <2>7. NothingAsked(c)
    BY <2>4, <2>6, Zenon
  <2> QED
    BY <1>1, <1>5, <2>2, <2>3, <2>5, <2>6, <2>7, RefreshKeeps, Zenon
<1> QED
  BY <1>4, <1>5, Zenon DEF RecvRegister

\* The runtime keeps its connection and its phase, or goes from one phase
\* without a request to another; the wire only shrinks.
LEMMA MoveKeeps ==
  ASSUME Context, UNCHANGED <<ver, hand>>, Drained, rt.st # "down", NEW c \in Conns, c = rt.conn,
         NEW st, NEW set, NEW applied, NEW cand, NEW next, NEW since,
         Shape(rt', st, rt.conn, rt.repl, set, applied, cand, next, since, rt.lives),
         rt.repl = None, st # "register", cand <= events', next <= events', since <= ver, applied.ver <= ver,
         Past(set, ver), Once(set, "snap"),
         up' = [d \in Conns |-> up'[d]] /\ \A d \in Conns : UpMove(d),
         \/ st \in {"update", "list", "idle"} /\ NothingAsked(c)'
         \/ st = "snapshot" /\ AskedOnce(c)'
  PROVE  ClientInv'
<1>1. RuntimeOK'
  <2>1. rt.lives <= MaxLives /\ ver' = ver
    BY RuntimeOf, SMTT(30)
  <2> QED
    BY <2>1, ShapeStep, SMTT(30)
<1>2. ChannelsOK'
  BY ChannelStep, Zenon DEF Context, ClientInv, ChannelMoves, Drained
<1>3. HandlersOK'
  BY HandlersKept, Zenon
<1>4. rt'.st = st /\ rt'.conn = rt.conn
  BY Zenon DEF Shape
<1>5. AskedOK'
  BY <1>4 DEF AskedOK
<1> QED
  BY <1>1, <1>2, <1>3, <1>5, Zenon DEF ClientInv

\* request_snapshot_inner
LEMMA ResponseKeeps ==
  ASSUME Context, RecvSnapshotResponse
  PROVE  ClientInv'
<1>1. /\ rt.st = "snapshot" /\ wire[rt.conn] # <<>> /\ UNCHANGED <<ver, hand>>
  BY Zenon DEF RecvSnapshotResponse, serverVars, registryVars
<1>2. PICK c \in Conns : c = rt.conn
  BY <1>1, RuntimeOf, SMTT(30)
<1>3. /\ rt \in Runtimes /\ rt.lives <= MaxLives /\ rt.cand <= events' /\ rt.next <= events' /\ ver \in Nat
      /\ rt.next <= events
      /\ rt.lives \in Nat /\ rt.next \in Nat /\ rt.since <= ver /\ rt.applied.ver <= ver /\ events' \in Nat
      /\ Past(rt.set, ver) /\ Once(rt.set, "snap") /\ rt.set \in Seq(Messages) /\ ChannelsOK
      /\ rt.repl = None /\ rt.st # "down"
  BY <1>1, RuntimeOf, SMTT(30)
<1> DEFINE m == Head(wire[c])
<1>4. m \in Messages /\ m.snap \in Snapshots /\ m.snap.ver <= ver
  BY <1>1, <1>2, HeadOf
<1>5. AskedOnce(c) /\ wire[c] \in Seq(Messages) /\ wire[c] # <<>>
  BY <1>1, <1>2, <1>3 DEF Context, ClientInv, AskedOK, ChannelsOK
<1>6. CASE Die /\ up' = up
  BY <1>1, <1>6, DieKeeps
<1>0. ASSUME m.kind = "resp", Took(c)
      PROVE  /\ Drained /\ ~Has(up[c], "request") /\ ~Answering(c) /\ ~Has(wire'[c], "resp")
  <2>1. Drained /\ wire'[c] = Tail(wire[c])
    BY <1>5, <1>0, TookMoves
  <2>2. Has(wire[c], "resp") /\ ~Has(wire'[c], "resp")
    <3>1. Once(wire[c], "resp")
      BY <1>5 DEF AskedOnce
    <3>2. ~Has(Tail(wire[c]), "resp")
      BY <1>5, <1>0, <3>1, TailHolds
    <3>3. 1 \in DOMAIN wire[c] /\ m = wire[c][1]
      BY <1>5, TailElements
    <3> QED
      BY <1>0, <2>1, <3>2, <3>3, Zenon DEF Has
  <2> QED
    BY <1>5, <2>1, <2>2, Zenon DEF AskedOnce
<1>7. CASE /\ m.kind = "resp" /\ rt' = Refreshed(m.snap) /\ Took(c)
           /\ up' = IF rt.why = "open"
                      THEN [up EXCEPT ![c] = Append(@, Request("list", rt.lives, 0))]
                      ELSE up
  <2>1. Drained /\ ~Has(up[c], "request") /\ ~Answering(c) /\ ~Has(wire'[c], "resp")
    BY <1>0, <1>7
  <2>2. PICK st \in {"list", "idle"} :
          Shape(rt', st, rt.conn, rt.repl, rt.set, m.snap, rt.next, 0, 0, rt.lives)
    BY <1>3, <1>4, <1>7, RefreshedShape
  <2> DEFINE x == Request("list", rt.lives, 0)
  <2>3. x \in Asks /\ x.kind = "list" /\ x.life = rt.lives /\ x.cand = 0
    BY <1>3 DEF Request, Asks
  <2>4. up' = up \/ up' = [up EXCEPT ![c] = Append(@, x)]
    BY <1>7, Zenon
  <2> HIDE DEF x
  <2>5. x.kind # "request" /\ x.life <= MaxLives /\ x.cand <= events'
    BY <1>3, <2>3
  <2>6. up' = [d \in Conns |-> up'[d]] /\ \A d \in Conns : UpMove(d) /\ UpQuiet(d)
    <3>1. CASE up' = up
      BY <1>3, <3>1, ChannelsKept, Zenon
    <3>2. CASE up' = [up EXCEPT ![c] = Append(@, x)]
      BY <2>3, <2>5, <3>2, AskMoves, Zenon
    <3> QED
      BY <2>4, <3>1, <3>2
  <2>7. ~Has(up'[c], "request")
    BY <1>3, <2>1, <2>6, UpQuietHolds
  <2>8. ~Answering(c)'
    BY <1>1, <2>1, Zenon DEF Answering
  <2>10. NothingAsked(c)'
    BY <2>1, <2>7, <2>8, Zenon DEF NothingAsked
  <2>11. 0 <= events' /\ 0 <= ver
    BY <1>3
  <2> HIDE DEF m
  <2> QED
    BY <1>1, <1>2, <1>3, <1>4, <2>1, <2>2, <2>6, <2>10, <2>11, MoveKeeps
<1>8. CASE rt' = [rt EXCEPT !.set = enqueue_pending(rt.set, m)] /\ Took(c) /\ up' = up
  <2>1. Drained
    BY <1>5, <1>8, TookMoves
  <2> DEFINE s == enqueue_pending(rt.set, m)
  <2>2. s \in Seq(Messages) /\ Once(s, "snap") /\ Past(s, ver)
    BY <1>3, <1>4, SetAside
  <2>3. rt' = [rt EXCEPT !.set = s]
    BY <1>8
  <2> HIDE DEF s, m
  <2>4. Shape(rt', rt.st, rt.conn, rt.repl, s, rt.applied, rt.cand, rt.next, rt.since, rt.lives)
    BY <1>3, <2>2, <2>3, SetShape
  <2>5. up' = [d \in Conns |-> up'[d]] /\ \A d \in Conns : UpMove(d) /\ UpQuiet(d)
    BY <1>3, <1>8, ChannelsKept, Zenon
  <2>6. rt'.since = rt.since
    BY <2>4, Zenon DEF Shape
  <2>7. HandQuiet(c) /\ WireQuiet(c)
    BY <1>1, <2>1, HandlersKept, Zenon DEF Drained
  <2>8. AskedOnce(c)'
    BY <1>3, <1>5, <2>5, <2>6, <2>7, QuietServes, Zenon DEF Serves
  <2>9. rt.st # "register"
    BY <1>1
  <2> QED
    BY <1>1, <1>2, <1>3, <2>1, <2>2, <2>4, <2>5, <2>8, <2>9, MoveKeeps
<1> DEFINE r == Refreshed(m.snap)
           q == [r EXCEPT !.why = "config"]
<1>9. CASE m.kind = "resp" /\ Took(c) /\ StartRefresh(q, c, rt.set)
  <2>1. Drained /\ ~Has(up[c], "request") /\ ~Answering(c) /\ ~Has(wire'[c], "resp")
    BY <1>0, <1>9
  <2>2. PICK st \in {"list", "idle"} :
          Shape(r, st, rt.conn, rt.repl, rt.set, m.snap, rt.next, 0, 0, rt.lives)
    BY <1>3, <1>4, RefreshedShape
  <2> HIDE DEF r, m
  <2>3. /\ r \in Runtimes /\ r.conn = rt.conn /\ r.repl = rt.repl /\ r.applied = m.snap
        /\ r.cand = rt.next /\ r.lives = rt.lives
    BY <2>2, Zenon DEF Shape
  <2>4. "config" \in Reasons
    BY DEF Reasons
  <2>5. Shape(q, r.st, r.conn, r.repl, r.set, r.applied, r.cand, r.next, r.since, r.lives)
    BY <2>3, <2>4, WhyShape
  <2> HIDE DEF q
  <2>6. /\ q \in Runtimes /\ q.conn = c /\ q.repl = None /\ q.lives <= MaxLives /\ q.cand <= events
        /\ q.applied.ver <= ver
    BY <1>2, <1>3, <1>4, <2>3, <2>5 DEF Shape
  <2> QED
    BY <1>1, <1>3, <1>9, <2>1, <2>6, RefreshOn
<1> QED
  BY <1>2, <1>6, <1>7, <1>8, <1>9, Zenon DEF RecvSnapshotResponse

\* update_candidates_and_get_snapshot_inner
LEMMA UpdateKeeps ==
  ASSUME Context, RecvUpdateAnswer
  PROVE  ClientInv'
<1>1. /\ rt.st = "update" /\ wire[rt.conn] # <<>> /\ UNCHANGED <<ver, hand, events>>
  BY Zenon DEF RecvUpdateAnswer, serverVars, registryVars
<1>2. PICK c \in Conns : c = rt.conn
  BY <1>1, RuntimeOf, SMTT(30)
<1>3. /\ rt \in Runtimes /\ rt.lives <= MaxLives /\ rt.cand <= events' /\ rt.next <= events' /\ ver \in Nat
      /\ rt.lives \in Nat /\ rt.next \in Nat /\ rt.since <= ver /\ rt.applied.ver <= ver /\ events' \in Nat
      /\ Past(rt.set, ver) /\ Once(rt.set, "snap") /\ rt.set \in Seq(Messages) /\ ChannelsOK
      /\ rt.repl = None /\ rt.st # "down" /\ rt.st # "register"
  BY <1>1, RuntimeOf, SMTT(30)
<1> DEFINE m == Head(wire[c])
<1>4. m \in Messages /\ m.snap \in Snapshots /\ m.snap.ver <= ver
  BY <1>1, <1>2, HeadOf
<1>5. NothingAsked(c) /\ wire[c] # <<>>
  BY <1>1, <1>2 DEF Context, ClientInv, AskedOK
<1>6. CASE Die /\ up' = up
  BY <1>1, <1>6, DieKeeps
<1>7. CASE /\ rt' = Refreshed(m.snap) /\ Took(c)
           /\ up' = IF rt.why = "open"
                      THEN [up EXCEPT ![c] = Append(@, Request("list", rt.lives, 0))]
                      ELSE up
  <2>1. Drained
    BY <1>5, <1>7, TookMoves
  <2>2. PICK st \in {"list", "idle"} :
          Shape(rt', st, rt.conn, rt.repl, rt.set, m.snap, rt.next, 0, 0, rt.lives)
    BY <1>3, <1>4, <1>7, RefreshedShape
  <2> DEFINE x == Request("list", rt.lives, 0)
  <2>3. x \in Asks /\ x.kind = "list" /\ x.life = rt.lives /\ x.cand = 0
    BY <1>3 DEF Request, Asks
  <2>4. up' = up \/ up' = [up EXCEPT ![c] = Append(@, x)]
    BY <1>7, Zenon
  <2> HIDE DEF x
  <2>5. x.kind # "request" /\ x.life <= MaxLives /\ x.cand <= events'
    BY <1>3, <2>3
  <2>6. up' = [d \in Conns |-> up'[d]] /\ \A d \in Conns : UpMove(d) /\ UpQuiet(d)
    <3>1. CASE up' = up
      BY <1>3, <3>1, ChannelsKept, Zenon
    <3>2. CASE up' = [up EXCEPT ![c] = Append(@, x)]
      BY <2>3, <2>5, <3>2, AskMoves, Zenon
    <3> QED
      BY <2>4, <3>1, <3>2
  <2>7. NothingAsked(c)'
    BY <1>1, <1>5, <2>1, <2>6, StillNothing, Zenon
  <2>8. 0 <= events' /\ 0 <= ver
    BY <1>3
  <2> HIDE DEF m
  <2> QED
    BY <1>1, <1>2, <1>3, <1>4, <2>1, <2>2, <2>6, <2>7, <2>8, MoveKeeps
<1>8. CASE rt' = [rt EXCEPT !.set = Append(@, m)] /\ m.kind = "signal" /\ Took(c) /\ up' = up
  <2>1. Drained
    BY <1>5, <1>8, TookMoves
  <2> DEFINE s == Append(rt.set, m)
  <2>2. s \in Seq(Messages) /\ Once(s, "snap") /\ Past(s, ver)
    BY <1>3, <1>4, <1>8, AppendHolds
  <2>3. rt' = [rt EXCEPT !.set = s]
    BY <1>8, Zenon
  <2> HIDE DEF s, m
  <2>4. Shape(rt', rt.st, rt.conn, rt.repl, s, rt.applied, rt.cand, rt.next, rt.since, rt.lives)
    BY <1>3, <2>2, <2>3, SetShape
  <2>5. up' = [d \in Conns |-> up'[d]] /\ \A d \in Conns : UpMove(d) /\ UpQuiet(d)
    BY <1>3, <1>8, ChannelsKept, Zenon
  <2>6. NothingAsked(c)'
    BY <1>1, <1>5, <2>1, <2>5, StillNothing, Zenon
  <2> QED
    BY <1>1, <1>2, <1>3, <2>1, <2>2, <2>4, <2>5, <2>6, MoveKeeps
<1> QED
  BY <1>2, <1>6, <1>7, <1>8, Zenon DEF RecvUpdateAnswer

\* list_peers_inner
LEMMA ListKeeps ==
  ASSUME Context, RecvList
  PROVE  ClientInv'
<1>1. /\ rt.st = "list" /\ wire[rt.conn] # <<>> /\ UNCHANGED <<ver, hand, events, up>>
  BY Zenon DEF RecvList, serverVars, registryVars
<1>2. PICK c \in Conns : c = rt.conn
  BY <1>1, RuntimeOf, SMTT(30)
<1>3. /\ rt \in Runtimes /\ rt.lives <= MaxLives /\ rt.cand <= events' /\ rt.next <= events' /\ ver \in Nat
      /\ rt.since <= ver /\ rt.applied.ver <= ver /\ rt.applied \in Snapshots /\ rt.published \in Snapshots
      /\ Past(rt.set, ver) /\ Once(rt.set, "snap") /\ rt.set \in Seq(Messages) /\ ChannelsOK
      /\ rt.repl = None /\ rt.st # "down" /\ rt.st # "register"
  BY <1>1, RuntimeOf, SMTT(30)
<1> DEFINE m == Head(wire[c])
<1>4. m \in Messages /\ m.snap \in Snapshots /\ m.snap.ver <= ver
  BY <1>1, <1>2, HeadOf
<1>5. NothingAsked(c) /\ wire[c] # <<>>
  BY <1>1, <1>2 DEF Context, ClientInv, AskedOK
<1>6. up' = [d \in Conns |-> up'[d]] /\ \A d \in Conns : UpMove(d) /\ UpQuiet(d)
  BY <1>1, <1>3, ChannelsKept, Zenon
<1>7. CASE Die
  BY <1>1, <1>7, DieKeeps
<1>8. ASSUME Took(c) PROVE Drained /\ NothingAsked(c)'
  <2>1. Drained
    BY <1>5, <1>8, TookMoves
  <2> QED
    BY <1>1, <1>5, <1>6, <2>1, StillNothing, Zenon
<1>9. CASE /\ Took(c)
           /\ rt' = [rt EXCEPT !.st = "idle", !.published = IF rt.why = "open" THEN rt.applied ELSE @,
                               !.why = "tick"]
  <2> DEFINE p == IF rt.why = "open" THEN rt.applied ELSE rt.published
  <2>1. p \in Snapshots
    BY <1>3
  <2>2. rt' = [rt EXCEPT !.st = "idle", !.published = p, !.why = "tick"]
    BY <1>9, Zenon
  <2> HIDE DEF p
  <2>3. Shape(rt', "idle", rt.conn, rt.repl, rt.set, rt.applied, rt.cand, rt.next, rt.since, rt.lives)
    BY <1>3, <2>1, <2>2, ListedShape, Zenon
  <2> QED
    BY <1>1, <1>2, <1>3, <1>6, <1>8, <1>9, <2>3, MoveKeeps
<1>10. CASE Took(c) /\ rt' = rt
  <2>1. Shape(rt', rt.st, rt.conn, rt.repl, rt.set, rt.applied, rt.cand, rt.next, rt.since, rt.lives)
    BY <1>3, <1>10, Zenon DEF Shape
  <2> QED
    BY <1>1, <1>2, <1>3, <1>6, <1>8, <1>10, <2>1, MoveKeeps
<1>11. CASE Took(c) /\ rt' = [rt EXCEPT !.set = enqueue_pending(rt.set, m)]
  <2> DEFINE s == enqueue_pending(rt.set, m)
  <2>1. s \in Seq(Messages) /\ Once(s, "snap") /\ Past(s, ver)
    BY <1>3, <1>4, SetAside, Zenon
  <2>2. rt' = [rt EXCEPT !.set = s]
    BY <1>11
  <2> HIDE DEF s, m
  <2>3. Shape(rt', rt.st, rt.conn, rt.repl, s, rt.applied, rt.cand, rt.next, rt.since, rt.lives)
    BY <1>3, <2>1, <2>2, SetShape
  <2> QED
    BY <1>1, <1>2, <1>3, <1>6, <1>8, <1>11, <2>1, <2>3, MoveKeeps
<1> QED
  BY <1>2, <1>7, <1>9, <1>10, <1>11, Zenon DEF RecvList

\* Messages set aside come first.
LEMMA FirstOf ==
  ASSUME NEW s \in Seq(Messages), NEW t \in Seq(Messages)
  PROVE  /\ s # <<>> => Head(s \o t) = Head(s)
         /\ s = <<>> => s \o t = t
OBVIOUS

\* run_loop handles one message.
LEMMA MessageKeeps ==
  ASSUME Context, UNCHANGED <<ver, hand>>, Drained, rt.st = "idle",
         NEW m \in Messages, m.snap.ver <= ver, NEW s \in Seq(Messages), Past(s, ver), Once(s, "snap"),
         HandleMessage(m, s)
  PROVE  ClientInv'
<1>1. PICK c \in Conns : c = rt.conn
  BY RuntimeOf, SMTT(30)
<1>2. /\ rt \in Runtimes /\ rt.lives <= MaxLives /\ rt.cand <= events /\ rt.cand <= events'
      /\ rt.next <= events'
      /\ rt.since <= ver /\ rt.applied.ver <= ver /\ ChannelsOK
      /\ rt.repl = None /\ rt.st # "down" /\ rt.st # "register"
  BY RuntimeOf, SMTT(30)
<1>3. m.snap \in Snapshots
  BY DEF Messages
<1>4. NothingAsked(c)
  BY <1>1 DEF Context, ClientInv, AskedOK
<1>5. ASSUME up' = up
      PROVE  /\ up' = [d \in Conns |-> up'[d]] /\ \A d \in Conns : UpMove(d) /\ UpQuiet(d)
             /\ NothingAsked(c)'
  <2>1. up' = [d \in Conns |-> up'[d]] /\ \A d \in Conns : UpMove(d) /\ UpQuiet(d)
    BY <1>2, <1>5, ChannelsKept, Zenon
  <2> QED
    BY <1>4, <2>1, StillNothing, Zenon
<1> DEFINE r == [rt EXCEPT !.applied = m.snap, !.published = m.snap, !.set = s]
           q == [r EXCEPT !.why = "config"]
<1>6. Shape(r, rt.st, rt.conn, rt.repl, s, m.snap, rt.cand, rt.next, rt.since, rt.lives)
  BY <1>2, <1>3, AppliedShape, Zenon
<1>7. CASE rt' = r /\ up' = up
  <2>1. Shape(rt', rt.st, rt.conn, rt.repl, s, m.snap, rt.cand, rt.next, rt.since, rt.lives)
    BY <1>6, <1>7, Zenon
  <2> HIDE DEF r
  <2> QED
    BY <1>1, <1>2, <1>5, <1>7, <2>1, MoveKeeps
<1>8. CASE rt' = [rt EXCEPT !.set = s] /\ up' = up
  <2>1. Shape(rt', rt.st, rt.conn, rt.repl, s, rt.applied, rt.cand, rt.next, rt.since, rt.lives)
    BY <1>2, <1>8, SetShape
  <2> HIDE DEF r
  <2> QED
    BY <1>1, <1>2, <1>5, <1>8, <2>1, MoveKeeps
<1>9. CASE StartRefresh(q, rt.conn, s)
  <2>1. r \in Runtimes
    BY <1>6, Zenon DEF Shape
  <2>2. /\ r.conn = rt.conn /\ r.repl = rt.repl /\ r.applied = m.snap /\ r.cand = rt.cand
        /\ r.lives = rt.lives
    BY <1>6, Zenon DEF Shape
  <2> HIDE DEF r
  <2>3. "config" \in Reasons
    BY DEF Reasons
  <2>4. Shape(q, r.st, r.conn, r.repl, r.set, r.applied, r.cand, r.next, r.since, r.lives)
    BY <2>1, <2>3, WhyShape
  <2> HIDE DEF q
  <2>5. /\ q \in Runtimes /\ q.conn = c /\ q.repl = None /\ q.lives <= MaxLives /\ q.cand <= events
        /\ q.applied.ver <= ver
    BY <1>1, <1>2, <2>2, <2>4 DEF Shape
  <2> QED
    BY <1>1, <1>4, <1>9, <2>5, RefreshKeeps
<1> QED
  BY <1>7, <1>8, <1>9, Zenon DEF HandleMessage

\* run_loop takes a message, first those set aside.
LEMMA IdleKeeps ==
  ASSUME Context, RecvIdle
  PROVE  ClientInv'
<1>1. /\ rt.st = "idle" /\ rt.set \o wire[rt.conn] # <<>> /\ UNCHANGED <<ver, hand>>
  BY Zenon DEF RecvIdle, serverVars, registryVars
<1>2. PICK c \in Conns : c = rt.conn
  BY <1>1, RuntimeOf, SMTT(30)
<1>3. /\ rt.set \in Seq(Messages) /\ Past(rt.set, ver) /\ Once(rt.set, "snap") /\ wire[c] \in Seq(Messages)
  BY RuntimeOf, SMTT(30) DEF ChannelsOK
<1> DEFINE m == Head(rt.set \o wire[c])
<1>4. CASE Die /\ UNCHANGED <<up, events>>
  BY <1>1, <1>4, DieKeeps
<1>5. CASE rt.set # <<>> /\ HandleMessage(m, Tail(rt.set)) /\ UNCHANGED <<wire, sock, slot, told>>
  <2>1. m = Head(rt.set)
    BY <1>3, <1>5, FirstOf, Zenon
  <2>2. m \in Messages /\ Tail(rt.set) \in Seq(Messages)
    BY <1>3, <1>5, <2>1, TailElements, Zenon
  <2>3. m.snap.ver <= ver /\ Past(Tail(rt.set), ver) /\ Once(Tail(rt.set), "snap")
    BY <1>3, <1>5, <2>1, TailHolds, Zenon
  <2>4. Drained
    BY <1>5, KeptDrained
  <2> HIDE DEF m
  <2> QED
    BY <1>1, <1>5, <2>2, <2>3, <2>4, MessageKeeps, Zenon
<1>6. CASE rt.set = <<>> /\ HandleMessage(m, <<>>) /\ Took(c)
  <2>1. m = Head(wire[c]) /\ wire[c] # <<>>
    BY <1>1, <1>2, <1>3, <1>6, FirstOf
  <2>2. m \in Messages /\ m.snap.ver <= ver
    BY <2>1, HeadOf, Zenon
  <2>3. <<>> \in Seq(Messages) /\ Past(<<>>, ver) /\ Once(<<>>, "snap")
    BY EmptyHolds
  <2>4. Drained
    BY <1>6, <2>1, TookMoves
  <2> HIDE DEF m
  <2> QED
    BY <1>1, <1>6, <2>2, <2>3, <2>4, MessageKeeps, Zenon
<1> QED
  BY <1>2, <1>4, <1>5, <1>6, Zenon DEF RecvIdle

\* The periodic refresh.
LEMMA PeriodicKeeps ==
  ASSUME Context, Refresh
  PROVE  ClientInv'
<1>1. /\ rt.st = "idle"
      /\ UNCHANGED <<ver, hand, wire, slot>> /\ StartRefresh([rt EXCEPT !.why = "tick"], rt.conn, rt.set)
  BY Zenon DEF Refresh, serverVars, registryVars
<1>2. PICK c \in Conns : c = rt.conn
  BY <1>1, RuntimeOf, SMTT(30)
<1>3. /\ rt \in Runtimes /\ rt.lives <= MaxLives /\ rt.cand <= events /\ rt.applied.ver <= ver
      /\ rt.repl = None /\ rt.set \in Seq(Messages) /\ Past(rt.set, ver) /\ Once(rt.set, "snap")
  BY <1>1, RuntimeOf, SMTT(30)
<1>4. NothingAsked(c)
  BY <1>1, <1>2 DEF Context, ClientInv, AskedOK
<1> DEFINE q == [rt EXCEPT !.why = "tick"]
<1>5. "tick" \in Reasons
  BY DEF Reasons
<1>6. Shape(q, rt.st, rt.conn, rt.repl, rt.set, rt.applied, rt.cand, rt.next, rt.since, rt.lives)
  BY <1>3, <1>5, WhyShape
<1>7. StartRefresh(q, rt.conn, rt.set)
  BY <1>1
<1> HIDE DEF q
<1>8. /\ q \in Runtimes /\ q.conn = c /\ q.repl = None /\ q.lives <= MaxLives /\ q.cand <= events
      /\ q.applied.ver <= ver
  BY <1>2, <1>3, <1>6 DEF Shape
<1>9. Drained
  BY <1>1, KeptDrained
<1> QED
  BY <1>1, <1>2, <1>3, <1>4, <1>7, <1>8, <1>9, RefreshKeeps

\* The request that follows an expired snapshot.
LEMMA ExpiredKeeps ==
  ASSUME Context, SnapshotExpired
  PROVE  ClientInv'
<1>1. /\ rt.st = "idle" /\ UNCHANGED <<ver, hand, wire, slot>>
      /\ RequestSnapshot([rt EXCEPT !.why = "expired"], rt.conn, rt.set)
  BY Zenon DEF SnapshotExpired, serverVars, registryVars
<1>2. PICK c \in Conns : c = rt.conn
  BY <1>1, RuntimeOf, SMTT(30)
<1>3. /\ rt \in Runtimes /\ rt.lives <= MaxLives /\ rt.cand <= events /\ rt.applied.ver <= ver
      /\ rt.repl = None /\ rt.set \in Seq(Messages) /\ Past(rt.set, ver) /\ Once(rt.set, "snap")
  BY <1>1, RuntimeOf, SMTT(30)
<1>4. NothingAsked(c)
  BY <1>1, <1>2 DEF Context, ClientInv, AskedOK
<1> DEFINE q == [rt EXCEPT !.why = "expired"]
<1>5. "expired" \in Reasons
  BY DEF Reasons
<1>6. Shape(q, rt.st, rt.conn, rt.repl, rt.set, rt.applied, rt.cand, rt.next, rt.since, rt.lives)
  BY <1>3, <1>5, WhyShape
<1>7. RequestSnapshot(q, rt.conn, rt.set)
  BY <1>1
<1> HIDE DEF q
<1>8. /\ q \in Runtimes /\ q.conn = c /\ q.repl = None /\ q.lives <= MaxLives /\ q.cand <= events
      /\ q.applied.ver <= ver
  BY <1>2, <1>3, <1>6 DEF Shape
<1>9. Drained
  BY <1>1, KeptDrained
<1> QED
  BY <1>1, <1>2, <1>3, <1>4, <1>7, <1>8, <1>9, RefreshKeeps

\* The list of peers is asked for.
LEMMA ListingKeeps ==
  ASSUME Context, ListPeers
  PROVE  ClientInv'
<1>1. /\ rt.st = "idle" /\ UNCHANGED <<ver, hand, wire, slot>>
      /\ Ask(rt.conn, "list", rt.lives, 0) /\ rt' = [rt EXCEPT !.st = "list", !.why = "tick"]
  BY Zenon DEF ListPeers, serverVars, registryVars
<1>2. PICK c \in Conns : c = rt.conn
  BY <1>1, RuntimeOf, SMTT(30)
<1>3. /\ rt \in Runtimes /\ rt.lives \in Nat /\ rt.lives <= MaxLives /\ rt.cand <= events'
      /\ rt.next <= events' /\ 0 <= events' /\ rt.since <= ver /\ rt.applied.ver <= ver
      /\ rt.repl = None /\ Past(rt.set, ver) /\ Once(rt.set, "snap") /\ rt.st # "down"
  BY <1>1, RuntimeOf, SMTT(30)
<1>4. NothingAsked(c)
  BY <1>1, <1>2 DEF Context, ClientInv, AskedOK
<1>5. Drained
  BY <1>1, KeptDrained
<1> DEFINE x == Request("list", rt.lives, 0)
<1>6. x \in Asks /\ x.kind = "list" /\ x.life = rt.lives /\ x.cand = 0
  BY <1>3 DEF Request, Asks
<1>7. up' = [up EXCEPT ![c] = Append(@, x)]
  BY <1>1, <1>2, Zenon DEF Ask
<1> HIDE DEF x
<1>8. x.kind # "request" /\ x.life <= MaxLives /\ x.cand <= events'
  BY <1>3, <1>6
<1>9. up' = [d \in Conns |-> up'[d]] /\ \A d \in Conns : UpMove(d) /\ UpQuiet(d)
  BY <1>6, <1>7, <1>8, AskMoves, Zenon
<1>10. NothingAsked(c)'
  BY <1>1, <1>4, <1>5, <1>9, StillNothing, Zenon
<1>11. Shape(rt', "list", rt.conn, rt.repl, rt.set, rt.applied, rt.cand, rt.next, rt.since, rt.lives)
  BY <1>1, <1>3, ListingShape, Zenon
<1> QED
  BY <1>1, <1>2, <1>3, <1>5, <1>9, <1>10, <1>11, MoveKeeps

\* A snapshot is refused.
LEMMA InvalidKeeps ==
  ASSUME Context, RecvInvalid
  PROVE  ClientInv'
<1>1. Die /\ UNCHANGED <<up, hand>>
  BY Zenon DEF RecvInvalid, serverVars
<1> QED
  BY <1>1, DieKeeps

\* A request without an answer, and a connection seen closed.
LEMMA LostKeeps ==
  ASSUME Context, Timeout \/ SeeClosed
  PROVE  ClientInv'
<1>1. Retryable /\ UNCHANGED <<up, hand>> /\ (Waiting \/ rt.st = "idle")
  BY Zenon DEF Timeout, SeeClosed, serverVars
<1> QED
  BY <1>1, RetryKeeps

-----------------------------------------------------------------------------
\* Every step keeps ClientInv.
LEMMA ClientKeeps ==
  ASSUME Context, [Next]_vars
  PROVE  ClientInv'
<1>1. CASE BroadcastWake \/ BroadcastCheck \/ BroadcastFail \/ UNCHANGED vars
  BY <1>1, AloofStep, Zenon DEF BroadcastWake, BroadcastCheck, BroadcastFail, vars, sessionVars, channelVars
<1>2. ASSUME NEW t \in Tasks, TaskStore(t) \/ TaskLeave(t) \/ TaskGoesOn(t) PROVE ClientInv'
  BY <1>2, AloofStep, Zenon
     DEF TaskStore, TaskLeave, TaskGoesOn, TaskBump, TaskOnline, TaskAsk, sessionVars, channelVars
<1>3. ASSUME NEW c \in Conns, Handler(c) PROVE ClientInv'
  BY <1>3, StoreKeeps, BumpKeeps, OnlineKeeps, QueryKeeps, LoadKeeps, ReplyKeeps, DoneKeeps,
     Zenon DEF Handler
<1>4. ASSUME NEW c \in Conns, WriterSnapshot(c) \/ Break(c) \/ Start(c) \/ Reconnect(c) PROVE ClientInv'
  BY <1>4, WriterStep, BreakStep, StartKeeps, ReconnectKeeps, Zenon
<1>5. CASE ClientRecv
  BY <1>5, RegisterKeeps, ResponseKeeps, UpdateKeeps, ListKeeps, IdleKeeps, Zenon DEF ClientRecv
<1> QED
  BY <1>1, <1>2, <1>3, <1>4, <1>5, BroadcastSendStep, SignalStep, PeriodicKeeps, ExpiredKeeps,
     ListingKeeps, InvalidKeeps, LostKeeps, Zenon
     DEF Next, Broadcaster

ControlInv == Inv /\ SessionInv /\ RegistryOK /\ ClientInv

\* The invariant is inductive.
LEMMA ControlStep == ControlInv /\ [Next]_vars => ControlInv'
<1> SUFFICES ASSUME ControlInv, [Next]_vars PROVE ControlInv'
  OBVIOUS
<1>1. Inv' /\ SessionInv'
  BY InvStep, SessionStep DEF ControlInv
<1>2. RegistryOK' /\ Grows
  BY RegistryStep, GrowsStep DEF ControlInv, ClientInv
<1>3. Context
  BY <1>2 DEF Context, ControlInv
<1>4. ClientInv'
  BY <1>3, ClientKeeps
<1> QED
  BY <1>1, <1>2, <1>4 DEF ControlInv

\* The runtime at the start works with the content the registry has.
LEMMA InitialRuntime ==
  ASSUME Init
  PROVE  /\ Shape(rt, "idle", First, None, <<>>, Snapshot(2, 1), 0, 0, 0, 1)
         /\ ver = 1 /\ rt.st = "idle" /\ rt.applied = Snapshot(2, 1)
<1>0. First \in Conns
  BY ControlPlaneAssumption, Zenon DEF First
<1> DEFINE d == Down(1)
           s == Snapshot(2, 1)
<1>1. Shape(d, "down", None, None, <<>>, NoSnapshot, 0, 0, 0, 1)
  BY DownShape
<1>2. rt = [d EXCEPT !.st = "idle", !.why = "tick", !.conn = First, !.applied = s, !.published = s]
  BY Zenon DEF Init
<1>3. s \in Snapshots
  BY SnapshotTypes
<1> HIDE DEF d, s
<1>4. d \in Runtimes
  BY <1>1, Zenon DEF Shape
<1>5. Shape(rt, "idle", First, d.repl, d.set, s, d.cand, d.next, d.since, d.lives)
  BY <1>0, <1>2, <1>3, <1>4, Zenon DEF Shape, Runtimes, States, Reasons
<1>6. Shape(rt, "idle", First, None, <<>>, Snapshot(2, 1), 0, 0, 0, 1)
  BY <1>1, <1>5 DEF Shape, s
<1>7. ver = 1
  BY Zenon DEF Init
<1> QED
  BY <1>6, <1>7, Zenon DEF Shape

\* The invariant holds at the start.
LEMMA ControlInit == Init => ControlInv
<1> SUFFICES ASSUME Init PROVE ControlInv
  OBVIOUS
<1>1. First \in Conns
  BY ControlPlaneAssumption, Zenon DEF First
<1>2. RegistryOK
  <2>1. /\ gen = 2 /\ row = [life |-> 1, cand |-> 0] /\ task = [t \in Tasks |-> "idle"] /\ loop = "stopped"
        /\ senders = {}
        /\ leaked = FALSE /\ events = 0 /\ draft = 0 /\ ver = 1
    BY Zenon DEF Init
  <2>2. row \in Rows
    BY <2>1, ControlPlaneAssumption DEF Rows
  <2>3. task \in [Tasks -> Jobs]
    BY <2>1 DEF Jobs
  <2>4. gen \in Nat /\ senders \subseteq Conns /\ events \in 0 .. MaxEvents /\ draft <= ver
    BY <2>1, ControlPlaneAssumption
  <2> QED
    BY <2>1, <2>2, <2>3, <2>4, Zenon DEF RegistryOK
<1>3. /\ up = [c \in Conns |-> <<>>] /\ slot = [c \in Conns |-> NoSnapshot] /\ wire = [c \in Conns |-> <<>>]
      /\ ver = 1 /\ events = 0
  BY Zenon DEF Init
<1>4. \A c \in Conns : up[c] = <<>> /\ wire[c] = <<>> /\ slot[c] = NoSnapshot
  BY <1>3
<1>5. NoSnapshot.ver <= ver /\ NoSnapshot \in Snapshots
  BY <1>3, SnapshotTypes
<1>6. ChannelsOK
  <2>1. up \in [Conns -> Seq(Asks)] /\ wire \in [Conns -> Seq(Messages)] /\ slot \in [Conns -> Snapshots]
    BY <1>3, <1>5, EmptyHolds
  <2> QED
    BY <1>4, <1>5, <2>1, EmptyHolds, Zenon DEF ChannelsOK
<1>7. \A c \in Conns : hand[c].pc \in {"read", "ended"} /\ hand[c].seen = 0
  <2> DEFINE h == [Idle EXCEPT !.registered = TRUE]
  <2>1. hand = [c \in Conns |-> IF c = First THEN h ELSE Ended]
    BY Zenon DEF Init
  <2>2. h.pc = "read" /\ h.seen = 0
    BY IdleFields, DoneFields DEF Handlers
  <2> HIDE DEF h
  <2> QED
    BY <2>1, <2>2, EndedFields, DoneFields
<1>8. HandlersOK
  BY <1>3, <1>7 DEF HandlersOK
<1>9. Shape(rt, "idle", First, None, <<>>, Snapshot(2, 1), 0, 0, 0, 1)
  BY InitialRuntime
<1>10. Snapshot(2, 1).ver = 1
  BY SnapshotTypes
<1>11. RuntimeOK
  <2>1. Past(<<>>, ver) /\ Once(<<>>, "snap")
    BY EmptyHolds
  <2> QED
    BY <1>1, <1>3, <1>9, <1>10, <2>1, ControlPlaneAssumption DEF Shape, RuntimeOK
<1>12. NothingAsked(First)
  BY <1>1, <1>4, <1>7, EmptyHolds DEF NothingAsked, Answering
<1>13. rt.st = "idle" /\ rt.conn = First
  BY <1>9, Zenon DEF Shape
<1>14. AskedOK
  BY <1>12, <1>13 DEF AskedOK
<1> QED
  BY <1>2, <1>6, <1>8, <1>11, <1>14, InvInit, SessionInit DEF ControlInv, ClientInv

\* The invariant the next two theorems rest on.
THEOREM ControlPlaneInvariant == Spec => []ControlInv
BY ControlInit, ControlStep, PTL DEF Spec

\* The answer to request_snapshot is not older than the request.
THEOREM ResponsesAreFresh == Spec => []ResponseIsFresh
<1>1. ControlInv => ResponseIsFresh
  BY Zenon DEF ControlInv, ClientInv, AskedOK, AskedOnce, Fresh, ResponseIsFresh
<1> QED
  BY <1>1, ControlPlaneInvariant, PTL

\* Type correctness: the messages set aside (enqueue_pending) hold at most one
\* snapshot, however many arrive while a request is under way.
THEOREM ControlPlaneTypes == Spec => []TypeOK
<1>1. ASSUME ControlInv PROVE TypeOK
  <2>1. ver \in Nat /\ draft \in Nat /\ pending \in BOOLEAN /\ running \in BOOLEAN
    BY <1>1 DEF ControlInv, Inv, Types
  <2>2. /\ gen \in Nat /\ row \in [life : 0 .. MaxLives, cand : 0 .. MaxEvents]
        /\ task \in [Tasks -> {"idle", "edit", "join", "leave", "online", "ask"}]
        /\ loop \in {"stopped", "sleep", "send", "check"} /\ senders \subseteq Conns
        /\ leaked \in BOOLEAN /\ events \in 0 .. MaxEvents
    BY <1>1, Zenon DEF ControlInv, RegistryOK, Rows, Jobs
  <2>3. /\ sock \in [Conns -> {"none", "open", "broken", "closing"}] /\ online \in [Conns -> BOOLEAN]
    BY <1>1, Zenon DEF ControlInv, SessionInv, SessionTypes, Links
  <2>4. ASSUME NEW c \in Conns
        PROVE  /\ hand[c].pc \in {"read", "bump", "online", "load", "reply", "ask", "ended"}
               /\ slot[c] \in Snapshots
               /\ \A i \in DOMAIN wire[c] : wire[c][i] \in Messages
    <3>1. hand[c] \in Handlers /\ slot[c] \in Snapshots /\ wire[c] \in Seq(Messages)
      BY <1>1 DEF ControlInv, SessionInv, SessionTypes, ClientInv, ChannelsOK
    <3> QED
      BY <3>1 DEF Handlers, Steps
  <2>5. /\ rt.st \in {"down", "register", "snapshot", "update", "list", "idle", "offline"}
        /\ rt.applied \in Snapshots /\ rt.published \in Snapshots
    BY <1>1 DEF ControlInv, ClientInv, RuntimeOK, Runtimes, States
  <2>6. \A i, j \in DOMAIN rt.set : rt.set[i].kind = "snap" /\ rt.set[j].kind = "snap" => i = j
    BY <1>1, Zenon DEF ControlInv, ClientInv, RuntimeOK, Once
  <2> QED
    BY <2>1, <2>2, <2>3, <2>4, <2>5, <2>6, Zenon DEF TypeOK
<1> QED
  BY <1>1, ControlPlaneInvariant, PTL

=============================================================================
