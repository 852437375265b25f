----------------------------- MODULE Membership -----------------------------
(***************************************************************************)
(* The task that keeps the peer table: apply_snapshot, register_peer and   *)
(* remove_peer. The runtime calls them from its event loop, one at a time; *)
(* every other task of the node runs between their steps.                  *)
(*                                                                         *)
(* A world is what the coordinator's registry says at one generation:      *)
(* `members' (the record of each id), `online', and `bad', the ids whose   *)
(* credential does not verify. The node's own record is in every snapshot. *)
(***************************************************************************)
EXTENDS PeerStore

Idle == [pc |-> "idle", g |-> 0, todo |-> {}, old |-> [i \in Ids |-> 0],
         repl |-> [i \in Ids |-> 0], drops |-> {}, kicks |-> {}, o |-> 0, i |-> None,
         had |-> FALSE, gone |-> 0]

Members(g) == DOMAIN Worlds[g].members
NextInfo(i) == Worlds[ctl.g].members[i]

(* can_retain_session: same process and addresses, and the path in use (or, *)
(* with an attempt under way, the candidates) still listed.                 *)
can_retain_session_by_path(ob, next) ==
  \/ ob.info.cand = next.cand
  \/ IF ob.active # NoSession THEN ob.active.info.cand = next.cand ELSE ob.attempt = 0

can_retain_session(ob, next) ==
  /\ ob.info.inc = next.inc /\ ob.info.addr = next.addr
  /\ \/ ob.info.cand = next.cand
     \/ IF ob.active # NoSession THEN ob.active.info.cand = next.cand ELSE ob.attempt = 0

AddressesOf(table, ob) ==
  [addr \in Addrs |-> IF \E i \in Ids : table[i] # 0 /\ ob[table[i]].info.addr = addr
                   THEN CHOOSE i \in Ids : table[i] # 0 /\ ob[table[i]].info.addr = addr
                   ELSE None]

-----------------------------------------------------------------------------
(* apply_snapshot *)

ApplyBegin(g) ==
  /\ ctl.pc = "idle" /\ g >= gen
  /\ Op("snapshot")
  /\ ctl' = [Idle EXCEPT !.pc = "each", !.g = g, !.todo = Members(g), !.old = peers]
  /\ UNCHANGED <<hs1, store, rdr, tasks, data>>

(* A record that does not verify ends the call; what was updated stays.     *)
ApplyReject(i) ==
  /\ ctl.pc = "each" /\ i \in ctl.todo /\ i \in Worlds[ctl.g].bad
  /\ ctl' = Idle
  /\ UNCHANGED <<hs1, store, rdr, tasks, data, ops>>

ApplyNew(i) ==
  /\ ctl.pc = "each" /\ i \in ctl.todo /\ i \notin Worlds[ctl.g].bad
  /\ ctl.old[i] = 0
  /\ \E o \in FreshObjs :
       /\ obj' = [obj EXCEPT ![o] = NewPeer(i, NextInfo(i), i \in Worlds[ctl.g].online)]
       /\ ctl' = [ctl EXCEPT !.todo = @ \ {i}, !.repl[i] = o]
  /\ UNCHANGED <<hs1, peers, routes, sessions, gen, expired, rdr, tasks, data, ops>>

(* update_info and the online flag; a requested reconnect starts afresh     *)
UpdateRecord(o, i) ==
  LET on == i \in Worlds[ctl.g].online
      ob == [obj[o] EXCEPT !.info = NextInfo(i), !.online = on, !.lapsed = FALSE]
      kick == on /\ ob.requested
  IN /\ obj' = [obj EXCEPT ![o] = IF kick THEN [ob EXCEPT !.tries = 0] ELSE ob]
     /\ ctl' = [ctl EXCEPT !.pc = "each", !.todo = @ \ {i}, !.repl[i] = o, !.o = 0,
                           !.i = None, !.had = FALSE,
                           !.kicks = IF kick THEN @ \cup {o} ELSE @]

ApplyOld(i) ==
  /\ ctl.pc = "each" /\ i \in ctl.todo /\ i \notin Worlds[ctl.g].bad
  /\ ctl.old[i] # 0
  /\ LET o == ctl.old[i] IN
       IF can_retain_session(obj[o], NextInfo(i))
       THEN UpdateRecord(o, i)
       ELSE /\ TakeSession(o)
            /\ ctl' = [ctl EXCEPT !.pc = "settle", !.o = o, !.i = i, !.had = Had(o),
                                  !.gone = Taken(o)]
  /\ UNCHANGED <<hs1, peers, routes, sessions, gen, expired, rdr, tasks, data, ops>>

ApplySettle ==
  /\ ctl.pc = "settle" /\ ctl.gone = 0
  /\ obj' = [obj EXCEPT ![ctl.o] = Settled(@, ctl.had, TRUE)]
  /\ ctl' = [ctl EXCEPT !.pc = "update"]
  /\ UNCHANGED <<hs1, peers, routes, sessions, gen, expired, rdr, tasks, data, ops>>

ApplyUpdate ==
  /\ ctl.pc = "update"
  /\ UpdateRecord(ctl.o, ctl.i)
  /\ UNCHANGED <<hs1, peers, routes, sessions, gen, expired, rdr, tasks, data, ops>>

(* Routes and table are replaced under both locks                           *)
ApplySwap ==
  /\ ctl.pc = "each" /\ ctl.todo = {}
  /\ routes' = AddressesOf(ctl.repl, obj)
  /\ peers' = ctl.repl
  /\ gen' = ctl.g /\ expired' = FALSE
  /\ ctl' = [ctl EXCEPT !.pc = "drop", !.old = [i \in Ids |-> 0],
                        !.repl = [i \in Ids |-> 0],
                        !.drops = {peers[i] : i \in {j \in Ids : peers[j] # 0 /\ ctl.repl[j] = 0}}]
  /\ UNCHANGED <<hs1, obj, sessions, rdr, tasks, data, ops>>

(* The peers that are gone are switched off and lose their sessions         *)
ApplyDrop ==
  /\ ctl.pc = "drop"
  /\ \E o \in ctl.drops :
       /\ obj' = [obj EXCEPT ![o] = Take([@ EXCEPT !.online = FALSE, !.requested = FALSE])]
       /\ ctl' = [ctl EXCEPT !.pc = "dropped", !.drops = @ \ {o}, !.o = o, !.gone = Taken(o)]
  /\ UNCHANGED <<hs1, peers, routes, sessions, gen, expired, rdr, tasks, data, ops>>

ApplyDropped ==
  /\ ctl.pc = "dropped" /\ ctl.gone = 0
  /\ obj' = [obj EXCEPT ![ctl.o] = Settled(@, FALSE, FALSE)]
  /\ ctl' = [ctl EXCEPT !.pc = "drop", !.o = 0]
  /\ UNCHANGED <<hs1, peers, routes, sessions, gen, expired, rdr, tasks, data, ops>>

ApplyKick ==
  /\ ctl.pc = "drop" /\ ctl.drops = {}
  /\ IF ctl.kicks = {}
     THEN ctl' = Idle /\ UNCHANGED <<obj, loops>>
     ELSE \E o \in ctl.kicks :
            /\ ScheduleReconnect(o, obj[o])
            /\ ctl' = [ctl EXCEPT !.kicks = @ \ {o}]
  /\ UNCHANGED <<hs1, peers, routes, sessions, gen, expired, rdr, data, ops,
                 snd, kil, calls, conn>>

-----------------------------------------------------------------------------
(* register_peer with the record of generation g (a lookup or a signal)     *)

RegisterSame(g, i) ==
  /\ ctl.pc = "idle" /\ Op("register") /\ i \in Members(g) \ Worlds[g].bad /\ g >= gen
  /\ peers[i] # 0 /\ obj[peers[i]].info = Worlds[g].members[i]
  /\ obj' = [obj EXCEPT ![peers[i]].online = TRUE]
  /\ UNCHANGED <<hs1, peers, routes, sessions, gen, expired, ctl, rdr, tasks, data>>

RoutesWith(i, p, info) ==
  [addr \in Addrs |-> IF addr = info.addr THEN i
                      ELSE IF p # 0 /\ addr = obj[p].info.addr THEN None
                      ELSE routes[addr]]

(* The record replaces the previous one and its routes in one step; then    *)
(* the previous PeerState is switched off                                   *)
RegisterPeer(g, i) ==
  /\ ctl.pc = "idle" /\ Op("register") /\ i \in Members(g) \ Worlds[g].bad /\ g >= gen
  /\ LET info == Worlds[g].members[i]
         p == peers[i]
     IN /\ p # 0 => obj[p].info # info
        /\ \E o \in FreshObjs :
             /\ obj' = [obj EXCEPT ![o] = NewPeer(i, info, TRUE)]
             /\ peers' = [peers EXCEPT ![i] = o]
        /\ routes' = RoutesWith(i, p, info)
        /\ ctl' = IF p = 0 THEN Idle ELSE [Idle EXCEPT !.pc = "drop", !.drops = {p}]
  /\ UNCHANGED <<hs1, sessions, gen, expired, rdr, tasks, data>>

(* remove_peer, under peer.connect                                          *)
RemovePeer(i) ==
  /\ ctl.pc = "idle" /\ peers[i] # 0 /\ conn[peers[i]].sid = 0
  /\ Op("remove")
  /\ peers' = [peers EXCEPT ![i] = 0]
  /\ routes' = [routes EXCEPT ![obj[peers[i]].info.addr] = None]
  /\ ctl' = [Idle EXCEPT !.pc = "drop", !.drops = {peers[i]}]
  /\ UNCHANGED <<hs1, obj, sessions, gen, expired, rdr, tasks, data>>

MembershipNext ==
  \/ \E g \in DOMAIN Worlds : ApplyBegin(g)
  \/ \E i \in Ids : ApplyReject(i) \/ ApplyNew(i) \/ ApplyOld(i) \/ RemovePeer(i)
  \/ ApplySettle \/ ApplyUpdate \/ ApplySwap \/ ApplyDrop \/ ApplyDropped \/ ApplyKick
  \/ \E g \in DOMAIN Worlds, i \in Ids : RegisterSame(g, i) \/ RegisterPeer(g, i)
=============================================================================
