------------------------- MODULE RegistryMapProofs --------------------------
(***************************************************************************)
(* MapsAccountedFor, SharedAddressOnlyByRace and TypeOK of Registry        *)
(* for any peers, connections and size of the network, over any number of  *)
(* restarts.                                                               *)
(*                                                                         *)
(* The maps (MapInv) follow a registration from its row to the online map, *)
(* the addresses (AddrInv) follow one from the query that found it to the  *)
(* row; both need the shape of the handlers' records and the types, so     *)
(* that the invariant of the theorems is RegistryInv.                      *)
(***************************************************************************)
EXTENDS RegistryProofs

-----------------------------------------------------------------------------
(* Types of the handlers, of the table and of the rest *)

\* The steps of a handler, by what they may do to its record.
LEMMA HandlerCases ==
  ASSUME NEW c \in Conns, Handler(c)
  PROVE  \/ \E n \in Nodes : RegisterCredential(c, n) \/ \E i \in Invites : RegisterInvite(c, n, i)
         \/ UpdateCandidates(c) \/ RequestSnapshot(c) \/ RuntimeStatus(c)
         \/ load_peer(c) \/ allocate_virtual_ipv4(c) \/ update_peer(c)
         \/ HandlerBump(c) \/ HandlerBumped(c) \/ GoOnline(c)
         \/ Reply(c) \/ ReplyFails(c) \/ End(c)
BY Zenon DEF Handler

\* Every step leaves the handlers' records well formed.
LEMMA HandNext == HandInv /\ RowsInv /\ [Next]_vars => HandInv'
<1> SUFFICES ASSUME HandInv, RowsInv, [Next]_vars PROVE HandInv'
  OBVIOUS
<1>1. CASE UNCHANGED hand
  BY <1>1 DEF HandInv
<1>2. CASE Open
  <2>1. hand' = [c \in Conns |-> Idle(None)]
    BY <1>2, Zenon DEF Open
  <2>2. Idle(None) \in HandType /\ Shape(Idle(None))
    BY IdleIs, Zenon DEF Someone
  <2> QED BY <2>1, <2>2 DEF HandInv
<1>3. ASSUME NEW c \in Conns, Handler(c) PROVE HandInv'
  <2>1. \/ \E p, k, n, r, a : Becomes(c, p, k, n, r, a)
        \/ UNCHANGED hand
    <3>1. CASE RuntimeStatus(c)
      BY <3>1, Zenon DEF RuntimeStatus
    <3>2. CASE \E n \in Nodes : RegisterCredential(c, n) \/ \E i \in Invites : RegisterInvite(c, n, i)
      BY <3>2, RegisterTo, Zenon
    <3>3. CASE load_peer(c)
      BY <3>3, LoadTo, Zenon
    <3>4. CASE allocate_virtual_ipv4(c)
      BY <3>4, AllocTo, Zenon
    <3>5. CASE UpdateCandidates(c) \/ RequestSnapshot(c)
      BY <3>5, UpdateTo, RequestTo, Zenon
    <3>6. CASE update_peer(c)
      BY <3>6, StoreTo, Zenon
    <3>7. CASE HandlerBump(c) \/ HandlerBumped(c)
      BY <3>7, BumpTo, BumpedTo, Zenon
    <3>8. CASE GoOnline(c) \/ Reply(c)
      BY <3>8, OnlineTo, ReplyTo, Zenon
    <3>9. CASE ReplyFails(c) \/ End(c)
      BY <3>9, ReplyFailsTo, EndTo, Zenon
    <3> QED BY <1>3, HandlerCases, <3>1, <3>2, <3>3, <3>4, <3>5, <3>6, <3>7, <3>8, <3>9, Zenon
  <2> QED BY <2>1, <1>1, Zenon DEF Becomes
<1>4. CASE Tick \/ AdminHandler \/ (\E i \in Invites : consume_download_token(i)) \/ UNCHANGED vars
  <2>1. UNCHANGED hand
    BY <1>4, Zenon DEF Tick, AdminHandler, login, logout, reset_password, create_invite,
       delete_invite, admin_invites, RemovePeer, update_network_config, AdminBump, AdminBumped,
       disconnect_peer, consume_download_token, vars
  <2> QED BY <2>1, <1>1
<1> QED BY <1>2, <1>3, <1>4, Zenon DEF Next

\* A row of the table is not None.
LEMMA RowIsThere ==
  ASSUME NEW a \in 1 .. Hosts, NEW v \in BOOLEAN
  PROVE  Row(a, v) \in RowType /\ Row(a, v) # None /\ Row(a, v).addr = a /\ Row(a, v).revoked = v
<1>1. Row(a, v) \in RowType /\ Row(a, v).addr = a /\ Row(a, v).revoked = v
  BY RegistryAssumption DEF Row, RowType
<1>2. RowType \subseteq [addr : Nat, revoked : BOOLEAN]
  BY DEF RowType
<1> QED BY <1>1, <1>2, PeersAssumption

\* update_peer stores a live row with the address in hand.
LEMMA StoreRows ==
  ASSUME RowsInv, HandInv, NEW c \in Conns, update_peer(c)
  PROVE  /\ rows' \in Tables
         /\ rows'[hand[c].node] # None /\ rows'[hand[c].node].addr = hand[c].addr
         /\ rows'[hand[c].node].revoked = FALSE
         /\ \A m \in Nodes \ {hand[c].node} : rows'[m] = rows[m]
<1> DEFINE n == hand[c].node
           a == hand[c].addr
<1>1. rows' = [rows EXCEPT ![n] = Row(a, FALSE)]
  BY Zenon DEF update_peer
<1>2. n \in Nodes /\ a \in 1 .. Hosts
  BY StoreTo, Zenon
<1> HIDE DEF n, a
<1>3. Row(a, FALSE) \in RowType /\ Row(a, FALSE) # None /\ Row(a, FALSE).addr = a
      /\ Row(a, FALSE).revoked = FALSE
  BY <1>2, RowIsThere, Zenon
<1>4. rows' \in Tables /\ rows'[n] = Row(a, FALSE) /\ \A m \in Nodes \ {n} : rows'[m] = rows[m]
  BY <1>1, <1>2, <1>3, Zenon DEF RowsInv, Tables
<1> QED BY <1>3, <1>4, Zenon DEF n, a

\* RemovePeer: the row is marked or gone, the others stay.
LEMMA RemoveRows ==
  ASSUME RowsInv, NEW n \in Nodes, NEW kind \in {"revoke", "delete"}, RemovePeer(n, kind)
  PROVE  /\ rows' \in Tables
         /\ rows'[n] # None => rows[n] # None /\ rows'[n].addr = rows[n].addr
         /\ \A m \in Nodes \ {n} : rows'[m] = rows[m]
<1>1. \/ Live(n) /\ rows' = [rows EXCEPT ![n].revoked = TRUE]
      \/ rows' = [rows EXCEPT ![n] = None]
  BY Zenon DEF RemovePeer
<1>2. CASE Live(n) /\ rows' = [rows EXCEPT ![n].revoked = TRUE]
  <2>1. rows[n] # None /\ rows[n] \in RowType
    BY <1>2 DEF Live, RowsInv, Tables
  <2> DEFINE r == rows[n]
             s == [r EXCEPT !.revoked = TRUE]
  <2>2. rows' = [rows EXCEPT ![n] = s]
    BY <1>2, Zenon
  <2>3. s \in RowType /\ s.addr = rows[n].addr
    BY <2>1, Zenon DEF RowType
  <2> HIDE DEF s
  <2> QED BY <2>1, <2>2, <2>3 DEF RowsInv, Tables
<1>3. CASE rows' = [rows EXCEPT ![n] = None]
  BY <1>3 DEF RowsInv, Tables
<1> QED BY <1>1, <1>2, <1>3

\* The table keeps its type, with addresses in the network while the server
\* runs.
LEMMA RowsNext == RowsInv /\ HandInv /\ GenInv /\ [Next]_vars => RowsInv'
<1> SUFFICES ASSUME RowsInv, HandInv, GenInv, [Next]_vars PROVE RowsInv'
  OBVIOUS
<1>1. ASSUME UNCHANGED rows, admin'.hash = admin.hash PROVE RowsInv'
  BY <1>1 DEF RowsInv, Running
<1>2. CASE Open
  <2>1. migrate_virtual_ipv4(rows).ok /\ rows' = migrate_virtual_ipv4(rows).table
    BY <1>2, Zenon DEF Open
  <2>2. rows \in Tables
    BY DEF RowsInv
  <2> QED BY <2>1, <2>2, MigrationSeparates DEF RowsInv
<1>3. ASSUME NEW c \in Conns, Handler(c) PROVE RowsInv'
  <2>1. CASE update_peer(c)
    <3>1. hand[c].node \in Nodes /\ hand[c].addr \in 1 .. Hosts
      BY <2>1, StoreTo, Zenon
    <3>2. Running' <=> Running
      BY <2>1, Zenon DEF update_peer, quiet, Running
    <3> QED BY <2>1, <3>1, <3>2, StoreRows, Zenon DEF RowsInv
  <2>2. update_peer(c) \/ (UNCHANGED rows /\ UNCHANGED admin)
    BY <1>3, Zenon DEF Handler, RegisterCredential, RegisterInvite, UpdateCandidates,
       RequestSnapshot, RuntimeStatus, load_peer, allocate_virtual_ipv4, HandlerBump,
       HandlerBumped, bump_snapshot, publish_generation, GoOnline, Reply, ReplyFails, End,
       tables, quiet
  <2> QED BY <2>1, <2>2, <1>1
<1>4. ASSUME NEW n \in Nodes, NEW kind \in {"revoke", "delete"}, RemovePeer(n, kind) PROVE RowsInv'
  <2>1. Running' <=> Running
    BY <1>4, Zenon DEF RemovePeer, Running
  <2> QED BY <1>4, <2>1, RemoveRows DEF RowsInv
<1>5. CASE login \/ logout \/ reset_password
  <2>1. UNCHANGED rows
    BY <1>5, Zenon DEF login, logout, reset_password, tables
  <2>2. admin'.hash = admin.hash
    BY <1>5 DEF login, logout, reset_password, GenInv, AdminType
  <2> QED BY <2>1, <2>2, <1>1
<1>6. CASE Tick \/ AdminHandler \/ (\E i \in Invites : consume_download_token(i)) \/ UNCHANGED vars
  <2>1. \/ UNCHANGED rows /\ UNCHANGED admin
        \/ login \/ logout \/ reset_password
        \/ \E n \in Nodes, kind \in {"revoke", "delete"} : RemovePeer(n, kind)
    BY <1>6, Zenon DEF Tick, AdminHandler, create_invite, delete_invite, admin_invites,
       update_network_config, AdminBump, AdminBumped, bump_snapshot, publish_generation,
       disconnect_peer, consume_download_token, quiet, tables, vars
  <2> QED BY <2>1, <1>1, <1>4, <1>5
<1> QED BY <1>2, <1>3, <1>6, Zenon DEF Next

AdmType == [pc : {"idle", "bump", "bumped", "disconnect"},
            kind : {"none", "revoke", "delete", "config"}, node : Someone]

\* The rest of the types; a request that removes a peer names it.
RestInv ==
  /\ holder \in {None, Admin} \cup Conns
  /\ online \in [Nodes -> SUBSET Conns] /\ status \in [Nodes -> SUBSET Conns]
  /\ adm \in AdmType
  /\ adm.pc = "disconnect" => adm.node \in Nodes
  /\ adm.kind \in {"revoke", "delete"} => adm.node \in Nodes
  /\ adm.kind \in {"none", "config"} => adm.node = None
  /\ adm.pc \in {"bump", "bumped"} => adm.kind # "none"
  /\ creds \subseteq Nodes
  /\ ops \in 0 .. MaxOps /\ now \in 0 .. MaxTime

\* A request counts.
LEMMA OpCounts ==
  ASSUME ops \in 0 .. MaxOps, NEW kind, Op(kind)
  PROVE  ops' \in 0 .. MaxOps
BY RegistryAssumption DEF Op

\* Every step keeps them.
LEMMA RestNext == RestInv /\ HandInv /\ [Next]_vars => RestInv'
<1> SUFFICES ASSUME RestInv, HandInv, [Next]_vars PROVE RestInv'
  OBVIOUS
<1>t. ops \in 0 .. MaxOps
  BY DEF RestInv
<1>1. ASSUME UNCHANGED <<holder, online, status, adm, creds, now>>, ops' \in 0 .. MaxOps
      PROVE  RestInv'
  BY <1>1 DEF RestInv
<1>2. CASE Open
  <2>1. /\ holder' = None /\ online' = [n \in Nodes |-> {}] /\ status' = [n \in Nodes |-> {}]
        /\ adm' = AdminIdle /\ UNCHANGED <<creds, now>>
    BY <1>2, Zenon DEF Open
  <2>2. ops' \in 0 .. MaxOps
    <3>1. ops' = ops \/ Op("restart")
      BY <1>2, Zenon DEF Open
    <3> QED BY <3>1, <1>t, OpCounts
  <2>3. adm' \in AdmType /\ adm'.pc = "idle" /\ adm'.kind = "none" /\ adm'.node = None
    BY <2>1 DEF AdminIdle, AdmType, Someone
  <2> QED BY <2>1, <2>2, <2>3 DEF RestInv
<1>3. ASSUME NEW c \in Conns, Handler(c) PROVE RestInv'
  <2>1. ops' \in 0 .. MaxOps
    <3>1. ops' = ops \/ \E kind : Op(kind)
      BY <1>3, Zenon DEF Handler, RegisterCredential, RegisterInvite, UpdateCandidates,
         RequestSnapshot, RuntimeStatus, load_peer, allocate_virtual_ipv4, update_peer, HandlerBump,
         HandlerBumped, bump_snapshot, publish_generation, GoOnline, Reply, ReplyFails, End
    <3> QED BY <3>1, <1>t, OpCounts
  <2>2. CASE HandlerBump(c)
    <3>1. holder' = c /\ UNCHANGED <<online, status, adm, creds, now>>
      BY <2>2, Zenon DEF HandlerBump, bump_snapshot, memory
    <3> QED BY <2>1, <3>1 DEF RestInv
  <2>3. CASE HandlerBumped(c)
    <3>1. holder' = None /\ UNCHANGED <<online, status, adm, creds, now>>
      BY <2>3, Zenon DEF HandlerBumped, publish_generation
    <3> QED BY <2>1, <3>1 DEF RestInv
  <2>4. CASE GoOnline(c)
    <3>1. online' = [online EXCEPT ![hand[c].node] = @ \cup {c}]
          /\ UNCHANGED <<holder, status, adm, creds, now>>
      BY <2>4, Zenon DEF GoOnline, quiet
    <3>2. online' \in [Nodes -> SUBSET Conns]
      BY <3>1, Zenon DEF RestInv
    <3> QED BY <2>1, <3>1, <3>2 DEF RestInv
  <2>5. CASE RuntimeStatus(c)
    <3>1. status' = [status EXCEPT ![hand[c].reg] = @ \cup {c}]
          /\ UNCHANGED <<holder, online, adm, creds, now>>
      BY <2>5, Zenon DEF RuntimeStatus, quiet
    <3>2. status' \in [Nodes -> SUBSET Conns]
      BY <3>1, Zenon DEF RestInv
    <3> QED BY <2>1, <3>1, <3>2 DEF RestInv
  <2>6. CASE End(c)
    <3> DEFINE n == hand[c].reg
    <3>1. /\ online' = [m \in Nodes |-> IF m = n THEN online[m] \ {c} ELSE online[m]]
          /\ status' = [m \in Nodes |-> IF m = n THEN status[m] \ {c} ELSE status[m]]
          /\ UNCHANGED <<holder, adm, creds, now>>
      BY <2>6, Zenon DEF End, quiet
    <3> HIDE DEF n
    <3>2. online' \in [Nodes -> SUBSET Conns] /\ status' \in [Nodes -> SUBSET Conns]
      BY <3>1 DEF RestInv
    <3> QED BY <2>1, <3>1, <3>2 DEF RestInv
  <2>7. CASE Reply(c)
    <3>1. creds' = (IF hand[c].kind = "register" THEN creds \cup {hand[c].node} ELSE creds)
          /\ UNCHANGED <<holder, online, status, adm, now>>
      BY <2>7, Zenon DEF Reply, memory
    <3>2. creds' \subseteq Nodes
      BY <3>1, <2>7, ReplyTo, Zenon DEF RestInv
    <3> QED BY <2>1, <3>1, <3>2 DEF RestInv
  <2>8. \/ HandlerBump(c) \/ HandlerBumped(c) \/ GoOnline(c) \/ RuntimeStatus(c) \/ End(c) \/ Reply(c)
        \/ UNCHANGED <<holder, online, status, adm, creds, now>>
    BY <1>3, Zenon DEF Handler, RegisterCredential, RegisterInvite, UpdateCandidates,
         RequestSnapshot, load_peer, allocate_virtual_ipv4, update_peer, ReplyFails, memory, quiet
  <2> QED BY <2>1, <2>2, <2>3, <2>4, <2>5, <2>6, <2>7, <2>8, <1>1
<1>4. CASE AdminHandler
  <2>1. ops' \in 0 .. MaxOps
    <3>1. ops' = ops \/ \E kind : Op(kind)
      BY <1>4, Zenon DEF AdminHandler, login, logout, reset_password, create_invite,
         delete_invite, admin_invites, RemovePeer, update_network_config, AdminBump, AdminBumped,
         bump_snapshot, publish_generation, disconnect_peer, AdminOp
    <3> QED BY <3>1, <1>t, OpCounts
  <2>2. ASSUME NEW n \in Nodes, NEW kind \in {"revoke", "delete"}, RemovePeer(n, kind) PROVE RestInv'
    <3>1. adm' = [pc |-> "bump", kind |-> kind, node |-> n]
          /\ UNCHANGED <<holder, online, status, creds, now>>
      BY <2>2, Zenon DEF RemovePeer, memory
    <3>2. adm' \in AdmType /\ adm'.pc = "bump" /\ adm'.kind = kind /\ adm'.node = n
      BY <3>1 DEF AdmType, Someone
    <3> QED BY <2>1, <3>1, <3>2 DEF RestInv
  <2>3. CASE update_network_config
    <3> DEFINE i == AdminIdle
    <3>1. adm' = [i EXCEPT !.pc = "bump", !.kind = "config"]
          /\ UNCHANGED <<holder, online, status, creds, now>>
      BY <2>3, Zenon DEF update_network_config
    <3>2. i \in AdmType /\ i.node = None
      BY DEF AdminIdle, AdmType, Someone
    <3> HIDE DEF i
    <3>3. adm' \in AdmType /\ adm'.pc = "bump" /\ adm'.kind = "config" /\ adm'.node = None
      BY <3>1, <3>2, Zenon DEF AdmType
    <3> QED BY <2>1, <3>1, <3>3 DEF RestInv
  <2>4. CASE AdminBump
    <3>1. adm.pc = "bump" /\ adm' = [adm EXCEPT !.pc = "bumped"] /\ holder' = Admin
          /\ UNCHANGED <<online, status, creds, now>>
      BY <2>4, Zenon DEF AdminBump, bump_snapshot, memory
    <3>2. adm' \in AdmType /\ adm'.pc = "bumped" /\ adm'.kind = adm.kind /\ adm'.node = adm.node
      BY <3>1 DEF RestInv, AdmType
    <3> QED BY <2>1, <3>1, <3>2 DEF RestInv
  <2>5. CASE AdminBumped
    <3>1. /\ adm.pc = "bumped" /\ holder' = None /\ UNCHANGED <<online, status, creds, now>>
          /\ adm' = IF adm.kind = "config" THEN AdminIdle ELSE [adm EXCEPT !.pc = "disconnect"]
      BY <2>5, Zenon DEF AdminBumped, publish_generation
    <3>2. CASE adm.kind = "config"
      <4>1. adm' \in AdmType /\ adm'.pc = "idle" /\ adm'.kind = "none" /\ adm'.node = None
        BY <3>1, <3>2 DEF AdminIdle, AdmType, Someone
      <4> QED BY <2>1, <3>1, <4>1 DEF RestInv
    <3>3. CASE adm.kind # "config"
      <4>1. adm' = [adm EXCEPT !.pc = "disconnect"]
        BY <3>1, <3>3
      <4>2. adm' \in AdmType /\ adm'.pc = "disconnect" /\ adm'.kind = adm.kind /\ adm'.node = adm.node
        BY <4>1 DEF RestInv, AdmType
      <4>3. adm.kind \in {"revoke", "delete"}
        BY <3>1, <3>3 DEF RestInv, AdmType
      <4> QED BY <2>1, <3>1, <4>2, <4>3 DEF RestInv
    <3> QED BY <3>2, <3>3
  <2>6. CASE disconnect_peer
    <3>1. /\ online' = [online EXCEPT ![adm.node] = {}] /\ adm' = AdminIdle
          /\ UNCHANGED <<holder, status, creds, now>>
      BY <2>6, Zenon DEF disconnect_peer
    <3>2. adm' \in AdmType /\ adm'.pc = "idle" /\ adm'.kind = "none" /\ adm'.node = None
      BY <3>1 DEF AdminIdle, AdmType, Someone
    <3>3. online' \in [Nodes -> SUBSET Conns]
      BY <3>1, Zenon DEF RestInv
    <3> QED BY <2>1, <3>1, <3>2, <3>3 DEF RestInv
  <2>7. \/ \E n \in Nodes, kind \in {"revoke", "delete"} : RemovePeer(n, kind)
        \/ update_network_config \/ AdminBump \/ AdminBumped \/ disconnect_peer
        \/ UNCHANGED <<holder, online, status, adm, creds, now>>
    BY <1>4, Zenon DEF AdminHandler, login, logout, reset_password, create_invite,
         delete_invite, admin_invites, memory, quiet
  <2> QED BY <2>1, <2>2, <2>3, <2>4, <2>5, <2>6, <2>7, <1>1
<1>5. CASE Tick
  <2>1. now < MaxTime /\ now' = now + 1 /\ UNCHANGED <<holder, online, status, adm, creds, ops>>
    BY <1>5, Zenon DEF Tick, memory
  <2>2. now' \in 0 .. MaxTime
    BY <2>1, RegistryAssumption DEF RestInv
  <2> QED BY <2>1, <2>2 DEF RestInv
<1>6. ASSUME NEW i \in Invites, consume_download_token(i) PROVE RestInv'
  <2>1. UNCHANGED <<holder, online, status, adm, creds, now>> /\ Op("download")
    BY <1>6, Zenon DEF consume_download_token, memory, quiet
  <2> QED BY <2>1, <1>1, <1>t, OpCounts
<1>7. CASE UNCHANGED vars
  <2>1. UNCHANGED <<holder, online, status, adm, creds, now, ops>>
    BY <1>7, Zenon DEF vars, memory
  <2> QED BY <2>1, <1>1, <1>t
<1> QED BY <1>2, <1>3, <1>4, <1>5, <1>6, <1>7, Zenon DEF Next

-----------------------------------------------------------------------------
(* The maps in memory *)

\* The nodes the end of a connection does not take offline.
LeftInv == left \in [Conns -> SUBSET Nodes]

\* What Reply and ReplyFails make of them.
LEMMA LeftTo ==
  ASSUME LeftInv, HandInv, NEW c \in Conns, Reply(c) \/ ReplyFails(c)
  PROVE  /\ LeftInv' /\ \A d \in Conns \ {c} : left'[d] = left[d]
         /\ \A m \in Nodes : m \in left[c] \/ hand[c].reg = m \/ Registering(c, m) =>
              m \in left'[c] \/ hand'[c].reg = m
<1> DEFINE h == hand[c]
           S == IF Reply(c) THEN (left[c] \cup ({h.reg} \ {None})) \ {h.node}
                            ELSE left[c] \cup ({h.node} \ {h.reg})
<1>1. /\ h.kind = "register" => left' = [left EXCEPT ![c] = S]
      /\ h.kind # "register" => left' = left
  <2>1. CASE Reply(c)
    BY <2>1 DEF Reply
  <2>2. CASE ReplyFails(c) /\ ~Reply(c)
    BY <2>2 DEF ReplyFails
  <2> QED BY <2>1, <2>2
<1>2. h.reg \in Someone /\ h.pc = "reply" /\ (h.kind = "register" => h.node \in Nodes)
  BY DEF HandInv, HandType, Shape, Reply, ReplyFails, Query, At
<1>3. \/ Reply(c) /\ h.kind = "register" /\ hand'[c].reg = h.node
      \/ ~Reply(c) /\ h.kind = "register" /\ hand'[c].reg = h.reg
      \/ h.kind # "register" /\ hand'[c].reg = h.reg
  BY ReplyTo, ReplyFailsTo, Zenon DEF Becomes, Is
<1>4. CASE h.kind # "register"
  BY <1>1, <1>3, <1>4 DEF LeftInv, Registering
<1>5. CASE h.kind = "register"
  <2>1. S \in SUBSET Nodes
    BY <1>2, <1>5 DEF LeftInv, Someone
  <2>2. \A m \in Nodes : m \in left[c] \/ h.reg = m \/ h.node = m => m \in S \/ hand'[c].reg = m
    BY <1>2, <1>3, <1>5, RegistryAssumption
  <2> HIDE DEF S
  <2>3. LeftInv' /\ left'[c] = S /\ \A d \in Conns \ {c} : left'[d] = left[d]
    BY <1>1, <1>5, <2>1 DEF LeftInv
  <2> QED BY <2>2, <2>3, Zenon DEF Registering
<1> QED BY <1>4, <1>5

\* Every step keeps them nodes.
LEMMA LeftNext == LeftInv /\ HandInv /\ [Next]_vars => LeftInv'
<1> SUFFICES ASSUME LeftInv, HandInv, [Next]_vars PROVE LeftInv'
  OBVIOUS
<1>1. CASE Open
  <2>1. left' = [c \in Conns |-> {}]
    BY <1>1, Zenon DEF Open
  <2> QED BY <2>1 DEF LeftInv
<1>2. ASSUME NEW c \in Conns, Reply(c) \/ ReplyFails(c) PROVE LeftInv'
  BY <1>2, LeftTo, Zenon
<1>3. ASSUME NEW c \in Conns, Handler(c) PROVE Reply(c) \/ ReplyFails(c) \/ UNCHANGED left
  BY <1>3, Zenon DEF Handler, RegisterCredential, RegisterInvite, UpdateCandidates,
     RequestSnapshot, RuntimeStatus, load_peer, allocate_virtual_ipv4, update_peer, HandlerBump,
     HandlerBumped, bump_snapshot, publish_generation, GoOnline, End, history
<1>4. CASE Tick \/ AdminHandler \/ (\E i \in Invites : consume_download_token(i)) \/ UNCHANGED vars
  <2>1. UNCHANGED left
    BY <1>4, Zenon DEF Tick, AdminHandler, login, logout, reset_password, create_invite,
       delete_invite, admin_invites, RemovePeer, update_network_config, AdminBump, AdminBumped,
       bump_snapshot, publish_generation, disconnect_peer, consume_download_token, history, vars
  <2> QED BY <2>1 DEF LeftInv
<1> QED BY <1>1, <1>2, <1>3, <1>4 DEF Next, LeftInv

\* Who takes the node of an entry out of the map, or that nobody does.
Kept(c, n) == hand[c].reg = n \/ n \in left[c]

\* MapsAccountedFor, and the registrations on their way to the online map.
MapInv ==
  \A n \in Nodes :
    /\ \A c \in online[n] : Kept(c, n) \/ Registering(c, n)
    /\ \A c \in status[n] : Kept(c, n)
    /\ \A c \in online[n] : Live(n) \/ RemovingNow(n) \/ <<c, n>> \in overlapped
    /\ \A c \in Conns : StoredRow(c, n) => Live(n) \/ <<c, n>> \in overlapped

MapSame == UNCHANGED <<rows, online, status, adm, overlapped>>

\* A handler that moves while the maps stay: it keeps what it stands for in
\* them, and stores no row.
LEMMA MapMove ==
  ASSUME MapInv, RestInv, MapSame, NEW c \in Conns,
         NEW p, NEW k, NEW n, NEW r, NEW a, Becomes(c, p, k, n, r, a),
         \A d \in Conns \ {c} : left'[d] = left[d],
         \A m \in Nodes : Kept(c, m) \/ Registering(c, m) => r = m \/ m \in left'[c],
         k = "register" /\ p \in {"bump", "bumped", "online"} => StoredRow(c, n)
  PROVE  MapInv'
<1>1. /\ \A d \in Conns \ {c} : hand'[d] = hand[d]
      /\ hand'[c].pc = p /\ hand'[c].kind = k /\ hand'[c].node = n /\ hand'[c].reg = r
  BY Zenon DEF Becomes, Is
<1>2. \A m \in Nodes : online[m] \subseteq Conns /\ status[m] \subseteq Conns
  BY DEF RestInv
<1>3. \A m \in Nodes : (Live(m)' <=> Live(m)) /\ (RemovingNow(m)' <=> RemovingNow(m))
  BY Zenon DEF MapSame, Live, RemovingNow
<1>4. ASSUME NEW m \in Nodes, NEW d \in Conns, Kept(d, m) \/ Registering(d, m)
      PROVE  Kept(d, m)' \/ (d # c /\ Registering(d, m) /\ Registering(d, m)')
  <2>1. CASE d = c
    BY <2>1, <1>1, <1>4 DEF Kept
  <2>2. CASE d # c
    BY <2>2, <1>1, <1>4 DEF Kept, Registering
  <2> QED BY <2>1, <2>2
<1>5. ASSUME NEW m \in Nodes, NEW d \in Conns, Kept(d, m) PROVE Kept(d, m)'
  BY <1>1, <1>5 DEF Kept
<1>6. ASSUME NEW m \in Nodes, NEW d \in Conns, StoredRow(d, m)'
      PROVE  Live(m) \/ <<d, m>> \in overlapped
  <2>1. StoredRow(d, m)
    BY <1>1, <1>6 DEF StoredRow
  <2> QED BY <2>1 DEF MapInv
<1>7. ASSUME NEW m \in Nodes
      PROVE  /\ \A d \in online[m] : Kept(d, m)' \/ Registering(d, m)'
             /\ \A d \in status[m] : Kept(d, m)'
  BY <1>2, <1>4, <1>5, Zenon DEF MapInv
<1>8. \A m \in Nodes : \A d \in online[m] : Live(m) \/ RemovingNow(m) \/ <<d, m>> \in overlapped
  BY DEF MapInv
<1> QED BY <1>3, <1>6, <1>7, <1>8 DEF MapInv, MapSame

\* Such a handler with the node it had registered, before its reply.
LEMMA MapStay ==
  ASSUME MapInv, RestInv, MapSame, UNCHANGED left, NEW c \in Conns,
         hand[c].pc # "reply", NEW p, NEW k, NEW n, NEW a, Becomes(c, p, k, n, hand[c].reg, a),
         k = "register" /\ p \in {"bump", "bumped", "online"} => StoredRow(c, n)
  PROVE  MapInv'
<1>1. \A m \in Nodes : Kept(c, m) \/ Registering(c, m) => hand[c].reg = m \/ m \in left'[c]
  BY DEF Kept, Registering
<1> QED BY <1>1, MapMove, Zenon

\* Every step of a handler keeps the maps.
LEMMA MapHandler ==
  ASSUME MapInv, RestInv, HandInv, RowsInv, LeftInv, NEW c \in Conns, Handler(c)
  PROVE  MapInv'
<1>h. hand[c] \in HandType /\ Shape(hand[c])
  BY DEF HandInv
<1>o. \A m \in Nodes : online[m] \subseteq Conns /\ status[m] \subseteq Conns
  BY DEF RestInv
<1>1. ASSUME NEW n \in Nodes,
             RegisterCredential(c, n) \/ \E i \in Invites : RegisterInvite(c, n, i)
      PROVE  MapInv'
  <2>1. MapSame /\ UNCHANGED left /\ hand[c].pc = "idle"
    BY <1>1, Zenon DEF RegisterCredential, RegisterInvite, MapSame, tables, memory, quiet, history,
       Query, At
  <2>2. Becomes(c, "load", "register", n, hand[c].reg, None)
    BY <1>1, RegisterTo, Zenon
  <2> QED BY <2>1, <2>2, MapStay, Zenon
<1>2. CASE UpdateCandidates(c)
  <2>1. MapSame /\ UNCHANGED left /\ hand[c].pc = "idle"
    BY <1>2, Zenon DEF UpdateCandidates, MapSame, tables, memory, quiet, history, Query, At
  <2>2. Becomes(c, "load", "update", hand[c].reg, hand[c].reg, None)
    BY <1>2, UpdateTo, Zenon
  <2> QED BY <2>1, <2>2, MapStay, Zenon
<1>3. CASE RequestSnapshot(c)
  <2>1. MapSame /\ UNCHANGED left /\ hand[c].pc = "idle"
    BY <1>3, Zenon DEF RequestSnapshot, MapSame, tables, memory, quiet, history, At
  <2>2. Becomes(c, "reply", "request", None, hand[c].reg, None)
    BY <1>3, RequestTo, Zenon
  <2> QED BY <2>1, <2>2, MapStay, Zenon
<1>4. CASE RuntimeStatus(c)
  <2>1. /\ UNCHANGED <<rows, online, adm, overlapped, hand, left>> /\ hand[c].reg # None
        /\ status' = [status EXCEPT ![hand[c].reg] = @ \cup {c}]
    BY <1>4, Zenon DEF RuntimeStatus, tables, quiet, history
  <2>2. ASSUME NEW m \in Nodes, NEW d \in status'[m] PROVE Kept(d, m)
    BY <2>1, <2>2 DEF MapInv, RestInv, Kept
  <2> QED BY <2>1, <2>2 DEF MapInv, Live, RemovingNow, Registering, StoredRow, Kept
<1>5. CASE load_peer(c)
  <2>1. MapSame /\ UNCHANGED left /\ hand[c].pc = "load"
    BY <1>5, Zenon DEF load_peer, MapSame, tables, memory, quiet, history, Query, At
  <2> QED BY <1>5, <2>1, LoadTo, MapStay, Zenon
<1>6. CASE allocate_virtual_ipv4(c)
  <2>1. MapSame /\ UNCHANGED left /\ hand[c].pc = "alloc"
    BY <1>6, Zenon DEF allocate_virtual_ipv4, MapSame, tables, memory, quiet, history, Query, At
  <2> QED BY <1>6, <2>1, AllocTo, MapStay, Zenon
<1>7. CASE update_peer(c)
  <2>1. UNCHANGED <<online, status, adm, overlapped, left>> /\ hand[c].pc = "store"
    BY <1>7, Zenon DEF update_peer, memory, quiet, Query, At
  <2>n. PICK n \in Nodes : n = hand[c].node
    BY <1>7, StoreTo, Zenon
  <2>2. n \in Nodes /\ Live(n)' /\ \A m \in Nodes : Live(m) => Live(m)'
    <3>2. /\ rows'[n] # None /\ rows'[n].revoked = FALSE
          /\ \A m \in Nodes \ {n} : rows'[m] = rows[m]
      BY <1>7, <2>n, StoreRows, Zenon
    <3>3. Live(n)'
      BY <3>2 DEF Live
    <3>4. \A m \in Nodes \ {n} : Live(m) => Live(m)'
      BY <3>2, Zenon DEF Live
    <3> QED BY <3>3, <3>4
  <2>3. PICK p \in {"bump", "reply"} :
          /\ Becomes(c, p, hand[c].kind, hand[c].node, hand[c].reg, None)
          /\ p = "reply" => hand[c].kind = "update"
    BY <1>7, StoreTo, Zenon
  <2>4. /\ \A d \in Conns \ {c} : hand'[d] = hand[d]
        /\ hand'[c].pc = p /\ hand'[c].kind = hand[c].kind /\ hand'[c].node = n
        /\ hand'[c].reg = hand[c].reg
    BY <2>3, <2>n, Zenon DEF Becomes, Is
  <2>5. ASSUME NEW m \in Nodes, NEW d \in Conns
        PROVE  /\ Kept(d, m) => Kept(d, m)'
               /\ Registering(d, m) => Registering(d, m)'
    BY <2>1, <2>4 DEF Kept, Registering
  <2>6. ASSUME NEW m \in Nodes
        PROVE  /\ \A d \in online[m] : Kept(d, m)' \/ Registering(d, m)'
               /\ \A d \in status[m] : Kept(d, m)'
    BY <2>5, <1>o, Zenon DEF MapInv
  <2>8. ASSUME NEW m \in Nodes, NEW d \in Conns, StoredRow(d, m)'
        PROVE  Live(m)' \/ <<d, m>> \in overlapped
    <3>1. CASE d = c
      BY <3>1, <2>8, <2>2, <2>4 DEF StoredRow
    <3>2. CASE d # c
      BY <3>2, <2>8, <2>2, <2>4 DEF StoredRow, MapInv
    <3> QED BY <3>1, <3>2
  <2>9. \A m \in Nodes : \A d \in online[m] : Live(m)' \/ RemovingNow(m)' \/ <<d, m>> \in overlapped
    BY <2>1, <2>2 DEF MapInv, RemovingNow
  <2> QED BY <2>1, <2>6, <2>8, <2>9 DEF MapInv
<1>8. CASE HandlerBump(c)
  <2>1. MapSame /\ UNCHANGED left
    BY <1>8, Zenon DEF HandlerBump, bump_snapshot, MapSame, memory, history
  <2>2. hand[c].pc = "bump" /\ Becomes(c, "bumped", hand[c].kind, hand[c].node, hand[c].reg, None)
    BY <1>8, BumpTo, Zenon
  <2>3. hand[c].pc # "reply" /\ (hand[c].kind = "register" => StoredRow(c, hand[c].node))
    BY <2>2 DEF StoredRow
  <2> QED BY <2>1, <2>2, <2>3, MapStay, Zenon
<1>9. CASE HandlerBumped(c)
  <2>1. MapSame /\ UNCHANGED left
    BY <1>9, Zenon DEF HandlerBumped, publish_generation, MapSame, tables, history
  <2>2. hand[c].pc = "bumped"
    BY <1>9, BumpedTo, Zenon
  <2>3. hand[c].kind = "end" => hand[c].reg = None
    BY <1>h DEF Shape
  <2>4. hand[c].pc # "reply" /\ (hand[c].kind = "register" => StoredRow(c, hand[c].node))
    BY <2>2 DEF StoredRow
  <2>5. \/ hand[c].kind = "register" /\ Becomes(c, "online", "register", hand[c].node, hand[c].reg, None)
        \/ Becomes(c, "idle", "none", None, hand[c].reg, None)
        \/ Becomes(c, "ended", "none", None, hand[c].reg, None)
    BY <1>9, <2>3, BumpedTo, Zenon
  <2> QED BY <2>1, <2>4, <2>5, MapStay, Zenon
<1>10. CASE GoOnline(c)
  <2>n. PICK n \in Nodes : n = hand[c].node
    BY <1>10, OnlineTo, Zenon
  <2>1. /\ UNCHANGED <<rows, status, adm, overlapped, left>>
        /\ online' = [online EXCEPT ![n] = @ \cup {c}]
    BY <1>10, <2>n, Zenon DEF GoOnline, tables, quiet, history
  <2>2. /\ hand[c].pc = "online" /\ hand[c].kind = "register"
        /\ Becomes(c, "reply", "register", n, hand[c].reg, None)
    BY <1>10, <2>n, OnlineTo, Zenon
  <2>3. /\ \A d \in Conns \ {c} : hand'[d] = hand[d]
        /\ hand'[c].pc = "reply" /\ hand'[c].kind = "register" /\ hand'[c].node = n
        /\ hand'[c].reg = hand[c].reg
    BY <2>2, Zenon DEF Becomes, Is
  <2>4. Live(n) \/ <<c, n>> \in overlapped
    BY <2>2, <2>n DEF MapInv, StoredRow
  <2>5. \A m \in Nodes : ~Registering(c, m)
    BY <2>2 DEF Registering
  <2>6. ASSUME NEW m \in Nodes, NEW d \in Conns
        PROVE  /\ Kept(d, m) => Kept(d, m)'
               /\ Registering(d, m) => Registering(d, m)'
    <3>1. Kept(d, m) => Kept(d, m)'
      BY <2>1, <2>3 DEF Kept
    <3>2. Registering(d, m) => Registering(d, m)'
      BY <2>3, <2>5 DEF Registering
    <3> QED BY <3>1, <3>2
  <2>7. \A m \in Nodes : online'[m] = (IF m = n THEN online[m] \cup {c} ELSE online[m])
    BY <2>1, Zenon DEF RestInv
  <2>8. Registering(c, n)'
    BY <2>3 DEF Registering
  <2>12. \A m \in Nodes : (Live(m)' <=> Live(m)) /\ (RemovingNow(m)' <=> RemovingNow(m))
    BY <2>1, Zenon DEF Live, RemovingNow
  <2>9. ASSUME NEW m \in Nodes, NEW d \in online'[m]
        PROVE  /\ Kept(d, m)' \/ Registering(d, m)'
               /\ Live(m) \/ RemovingNow(m) \/ <<d, m>> \in overlapped
    <3>1. CASE d \in online[m]
      BY <3>1, <2>6, <1>o, Zenon DEF MapInv
    <3>2. CASE d = c /\ m = n
      BY <3>2, <2>4, <2>8, Zenon
    <3> QED BY <3>1, <3>2, <2>7, <2>9
  <2>10. ASSUME NEW m \in Nodes, NEW d \in status[m] PROVE Kept(d, m)'
    BY <2>6, <1>o, Zenon DEF MapInv
  <2>11. ASSUME NEW m \in Nodes, NEW d \in Conns, StoredRow(d, m)'
         PROVE  Live(m) \/ <<d, m>> \in overlapped
    <3>1. d # c
      BY <2>3, <2>11 DEF StoredRow
    <3> QED BY <3>1, <2>3, <2>11 DEF StoredRow, MapInv
  <2> QED BY <2>1, <2>9, <2>10, <2>11, <2>12 DEF MapInv
<1>11. CASE Reply(c) \/ ReplyFails(c)
  <2>1. MapSame
    BY <1>11, Zenon DEF Reply, ReplyFails, MapSame, tables, memory, quiet
  <2>2. PICK r : Becomes(c, "idle", "none", None, r, None)
    BY <1>11, ReplyTo, ReplyFailsTo, Zenon
  <2>3. hand'[c].reg = r
    BY <2>2, Zenon DEF Becomes, Is
  <2>4. /\ \A d \in Conns \ {c} : left'[d] = left[d]
        /\ \A m \in Nodes : Kept(c, m) \/ Registering(c, m) => r = m \/ m \in left'[c]
    BY <1>11, <2>3, LeftTo, Zenon DEF Kept
  <2> QED BY <2>1, <2>2, <2>4, MapMove, Zenon
<1>12. CASE End(c)
  <2> DEFINE n == hand[c].reg
  <2>1. /\ UNCHANGED <<rows, adm, overlapped, left>>
        /\ online' = [m \in Nodes |-> IF m = n THEN online[m] \ {c} ELSE online[m]]
        /\ status' = [m \in Nodes |-> IF m = n THEN status[m] \ {c} ELSE status[m]]
    BY <1>12, Zenon DEF End, tables, quiet, history
  <2>2. hand[c].pc = "idle"
    BY <1>12, EndTo, Zenon
  <2>3. /\ \A d \in Conns \ {c} : hand'[d] = hand[d]
        /\ ~(hand'[c].kind = "register" /\ hand'[c].pc \in {"bump", "bumped", "online"})
    BY <1>12, EndTo DEF Becomes, Is
  <2>4. \A m \in Nodes : /\ online'[m] = (IF m = n THEN online[m] \ {c} ELSE online[m])
                         /\ status'[m] = (IF m = n THEN status[m] \ {c} ELSE status[m])
    BY <2>1
  <2>5. ASSUME NEW m \in Nodes, NEW d \in Conns, d = c => m # n
        PROVE  /\ Kept(d, m) => Kept(d, m)'
               /\ Registering(d, m) => Registering(d, m)'
    <3>1. CASE d = c
      BY <3>1, <2>1, <2>2, <2>5 DEF Kept, Registering
    <3>2. CASE d # c
      BY <3>2, <2>1, <2>3 DEF Kept, Registering
    <3> QED BY <3>1, <3>2
  <2> HIDE DEF n
  <2>6. ASSUME NEW m \in Nodes, NEW d \in online'[m]
        PROVE  /\ Kept(d, m)' \/ Registering(d, m)'
               /\ Live(m) \/ RemovingNow(m) \/ <<d, m>> \in overlapped
    <3>1. d \in online[m] /\ d \in Conns /\ (d = c => m # n)
      BY <2>4, <2>6, <1>o, Zenon
    <3> QED BY <3>1, <2>5, Zenon DEF MapInv
  <2>7. ASSUME NEW m \in Nodes, NEW d \in status'[m] PROVE Kept(d, m)'
    <3>1. d \in status[m] /\ d \in Conns /\ (d = c => m # n)
      BY <2>4, <2>7, <1>o, Zenon
    <3> QED BY <3>1, <2>5, Zenon DEF MapInv
  <2>8. ASSUME NEW m \in Nodes, NEW d \in Conns, StoredRow(d, m)'
        PROVE  Live(m) \/ <<d, m>> \in overlapped
    <3>1. d # c
      BY <2>3, <2>8 DEF StoredRow
    <3> QED BY <3>1, <2>3, <2>8 DEF StoredRow, MapInv
  <2>9. \A m \in Nodes : (Live(m)' <=> Live(m)) /\ (RemovingNow(m)' <=> RemovingNow(m))
    BY <2>1, Zenon DEF Live, RemovingNow
  <2> QED BY <2>1, <2>6, <2>7, <2>8, <2>9 DEF MapInv
<1> QED BY HandlerCases, <1>1, <1>2, <1>3, <1>4, <1>5, <1>6, <1>7, <1>8, <1>9, <1>10, <1>11, <1>12

\* Every step keeps the maps.
LEMMA MapNext == MapInv /\ RestInv /\ HandInv /\ RowsInv /\ LeftInv /\ [Next]_vars => MapInv'
<1> SUFFICES ASSUME MapInv, RestInv, HandInv, RowsInv, LeftInv, [Next]_vars PROVE MapInv'
  OBVIOUS
<1>1. ASSUME UNCHANGED <<rows, online, status, overlapped, hand, left>>,
             \A n \in Nodes : RemovingNow(n) => RemovingNow(n)'
      PROVE  MapInv'
  BY <1>1 DEF MapInv, Live, Registering, StoredRow, Kept
<1>2. CASE Open
  <2>1. /\ hand' = [c \in Conns |-> Idle(None)]
        /\ online' = [n \in Nodes |-> {}] /\ status' = [n \in Nodes |-> {}]
    BY <1>2, Zenon DEF Open
  <2>2. \A c \in Conns : hand'[c].pc = "idle"
    BY <2>1, IdleIs, Zenon DEF Someone, Is
  <2> QED BY <2>1, <2>2 DEF MapInv, StoredRow
<1>3. ASSUME NEW c \in Conns, Handler(c) PROVE MapInv'
  BY <1>3, MapHandler
<1>4. ASSUME NEW n \in Nodes, NEW kind \in {"revoke", "delete"}, RemovePeer(n, kind) PROVE MapInv'
  <2>1. /\ UNCHANGED <<online, status, hand, left>>
        /\ adm.pc = "idle" /\ adm' = [pc |-> "bump", kind |-> kind, node |-> n]
        /\ overlapped' = overlapped \cup
             {<<c, n>> : c \in {d \in Conns : StoredRow(d, n)}}
    BY <1>4, Zenon DEF RemovePeer, memory, AdminOp
  <2>2. \A m \in Nodes \ {n} : Live(m)' <=> Live(m)
    BY <1>4, RemoveRows DEF Live
  <2>3. RemovingNow(n)' /\ \A m \in Nodes : ~RemovingNow(m)
    BY <2>1 DEF RemovingNow
  <2>4. \A c \in Conns : StoredRow(c, n) => <<c, n>> \in overlapped'
    BY <2>1
  <2>5. ASSUME NEW m \in Nodes
        PROVE  /\ \A c \in online'[m] : Live(m)' \/ RemovingNow(m)' \/ <<c, m>> \in overlapped'
               /\ \A c \in Conns : StoredRow(c, m)' => Live(m)' \/ <<c, m>> \in overlapped'
    <3>1. CASE m = n
      BY <3>1, <2>1, <2>3, <2>4 DEF StoredRow
    <3>2. CASE m # n
      <4>1. Live(m)' <=> Live(m)
        BY <3>2, <2>2
      <4>2. \A c \in online[m] : Live(m) \/ <<c, m>> \in overlapped
        BY <2>3 DEF MapInv
      <4>3. \A c \in Conns : StoredRow(c, m) => Live(m) \/ <<c, m>> \in overlapped
        BY DEF MapInv
      <4>4. overlapped \subseteq overlapped'
        BY <2>1
      <4>5. \A c \in Conns : StoredRow(c, m)' <=> StoredRow(c, m)
        BY <2>1, Zenon DEF StoredRow
      <4> QED BY <4>1, <4>2, <4>3, <4>4, <4>5, <2>1
    <3> QED BY <3>1, <3>2
  <2>6. ASSUME NEW m \in Nodes
        PROVE  /\ \A c \in online'[m] : Kept(c, m)' \/ Registering(c, m)'
               /\ \A c \in status'[m] : Kept(c, m)'
    BY <2>1 DEF MapInv, Registering, Kept
  <2> QED BY <2>5, <2>6 DEF MapInv
<1>5. CASE AdminBump
  <2>1. UNCHANGED <<rows, online, status, overlapped, hand, left>> /\ adm' = [adm EXCEPT !.pc = "bumped"]
    BY <1>5, Zenon DEF AdminBump, bump_snapshot, memory, history
  <2>2. \A n \in Nodes : RemovingNow(n) => RemovingNow(n)'
    BY <2>1 DEF RemovingNow, RestInv, AdmType
  <2> QED BY <2>1, <2>2, <1>1
<1>6. CASE AdminBumped
  <2>1. /\ UNCHANGED <<rows, online, status, overlapped, hand, left>>
        /\ adm' = IF adm.kind = "config" THEN AdminIdle ELSE [adm EXCEPT !.pc = "disconnect"]
    BY <1>6, Zenon DEF AdminBumped, publish_generation, tables, history
  <2>2. ASSUME NEW n \in Nodes, RemovingNow(n) PROVE RemovingNow(n)'
    <3>1. adm.kind # "config"
      BY <2>2, RegistryAssumption DEF RemovingNow, RestInv
    <3>2. adm' = [adm EXCEPT !.pc = "disconnect"]
      BY <2>1, <3>1
    <3> QED BY <2>2, <3>2 DEF RemovingNow, RestInv, AdmType
  <2> QED BY <2>1, <2>2, <1>1
<1>7. CASE disconnect_peer
  <2>1. /\ UNCHANGED <<rows, status, overlapped, hand, left>> /\ adm.pc = "disconnect"
        /\ online' = [online EXCEPT ![adm.node] = {}]
    BY <1>7, Zenon DEF disconnect_peer, tables, history
  <2>2. adm.node \in Nodes
    BY <2>1 DEF RestInv
  <2>3. \A n \in Nodes : online'[n] = (IF n = adm.node THEN {} ELSE online[n])
    BY <2>1, <2>2 DEF RestInv
  <2>4. \A n \in Nodes \ {adm.node} : ~RemovingNow(n)
    BY DEF RemovingNow
  <2>5. ASSUME NEW n \in Nodes
        PROVE  /\ \A c \in online'[n] : Live(n)' \/ RemovingNow(n)' \/ <<c, n>> \in overlapped'
               /\ \A c \in online'[n] : Kept(c, n)' \/ Registering(c, n)'
    <3>1. CASE n = adm.node
      BY <3>1, <2>3
    <3>2. CASE n # adm.node
      <4>1. online'[n] = online[n] /\ ~RemovingNow(n)
        BY <3>2, <2>3, <2>4
      <4>2. Live(n)' <=> Live(n)
        BY <2>1, Zenon DEF Live
      <4>3. \A c \in online[n] : Live(n) \/ <<c, n>> \in overlapped
        BY <4>1 DEF MapInv
      <4>4. \A c \in online[n] : Kept(c, n) \/ Registering(c, n)
        BY DEF MapInv
      <4>5. \A c : (Registering(c, n)' <=> Registering(c, n)) /\ (Kept(c, n)' <=> Kept(c, n))
        BY <2>1, Zenon DEF Registering, Kept
      <4> QED BY <4>1, <4>2, <4>3, <4>4, <4>5, <2>1
    <3> QED BY <3>1, <3>2
  <2> QED BY <2>1, <2>5 DEF MapInv, Live, StoredRow, Kept
<1>8. CASE update_network_config
  <2>1. UNCHANGED <<rows, online, status, overlapped, hand, left>> /\ adm.pc = "idle"
    BY <1>8, Zenon DEF update_network_config, AdminOp, history
  <2> QED BY <2>1, <1>1 DEF RemovingNow
<1>9. CASE Tick \/ AdminHandler \/ (\E i \in Invites : consume_download_token(i)) \/ UNCHANGED vars
  <2>1. \/ UNCHANGED <<rows, online, status, overlapped, hand, left, adm>>
        \/ \E n \in Nodes, kind \in {"revoke", "delete"} : RemovePeer(n, kind)
        \/ AdminBump \/ AdminBumped \/ disconnect_peer \/ update_network_config
    BY <1>9, Zenon DEF Tick, AdminHandler, create_invite, delete_invite, admin_invites,
       login, logout, reset_password, consume_download_token, quiet, tables, memory, history, vars
  <2>2. CASE UNCHANGED <<rows, online, status, overlapped, hand, left, adm>>
    BY <2>2, <1>1 DEF RemovingNow
  <2> QED BY <2>1, <2>2, <1>4, <1>5, <1>6, <1>7, <1>8
<1> QED BY <1>2, <1>3, <1>9, Zenon DEF Next

-----------------------------------------------------------------------------
(* Shared addresses, and the theorems *)

\* Peer m is stored with address a.
StoredAt(m, a) == rows[m] # None /\ rows[m].addr = a

\* The address in the hands of handler c is another peer's only by a race.
InHandRaced(c) ==
  hand[c].addr # None =>
    \A m \in Nodes : m # hand[c].node /\ StoredAt(m, hand[c].addr) => {hand[c].node, m} \in raced

AddrInv == SharedAddressOnlyByRace /\ \A c \in Conns : InHandRaced(c)

\* A handler that moves with an address that is no other peer's, or raced.
LEMMA AddrMove ==
  ASSUME AddrInv, UNCHANGED <<rows, admin, raced>>, NEW c \in Conns,
         NEW p, NEW k, NEW n, NEW r, NEW a, Becomes(c, p, k, n, r, a),
         a # None => \A m \in Nodes : m # n /\ StoredAt(m, a) => {n, m} \in raced
  PROVE  AddrInv'
<1>1. /\ \A d \in Conns \ {c} : hand'[d] = hand[d]
      /\ hand'[c].node = n /\ hand'[c].addr = a
  BY Zenon DEF Becomes, Is
<1>2. SharedAddressOnlyByRace'
  BY DEF AddrInv, SharedAddressOnlyByRace, Running
<1>3. ASSUME NEW d \in Conns PROVE InHandRaced(d)'
  <2>1. CASE d = c
    BY <2>1, <1>1 DEF InHandRaced, StoredAt
  <2>2. CASE d # c
    BY <2>2, <1>1 DEF InHandRaced, StoredAt, AddrInv
  <2> QED BY <2>1, <2>2
<1> QED BY <1>2, <1>3 DEF AddrInv

\* The address of a peer's own row is shared only by a race.
LEMMA OwnAddress ==
  ASSUME AddrInv, Running, NEW n \in Nodes, Live(n)
  PROVE  \A m \in Nodes : m # n /\ StoredAt(m, rows[n].addr) => {n, m} \in raced
BY DEF AddrInv, SharedAddressOnlyByRace, Live, StoredAt

\* Every step of a handler keeps the addresses apart but for races.
LEMMA AddrHandler ==
  ASSUME AddrInv, RestInv, HandInv, RowsInv, NEW c \in Conns, Handler(c)
  PROVE  AddrInv'
<1>1. ASSUME UNCHANGED <<rows, admin, raced>>, NEW p, NEW k, NEW n, NEW r,
             Becomes(c, p, k, n, r, None)
      PROVE  AddrInv'
  BY <1>1, AddrMove
<1>2. ASSUME NEW n \in Nodes,
             RegisterCredential(c, n) \/ \E i \in Invites : RegisterInvite(c, n, i)
      PROVE  AddrInv'
  <2>1. UNCHANGED <<rows, admin, raced>>
    BY <1>2, Zenon DEF RegisterCredential, RegisterInvite, tables, quiet, history
  <2> QED BY <1>2, <2>1, <1>1, RegisterTo, Zenon
<1>3. CASE UpdateCandidates(c) \/ RequestSnapshot(c)
  <2>1. UNCHANGED <<rows, admin, raced>>
    BY <1>3, Zenon DEF UpdateCandidates, RequestSnapshot, tables, quiet, history
  <2> QED BY <1>3, <2>1, <1>1, UpdateTo, RequestTo, Zenon
<1>4. CASE RuntimeStatus(c)
  <2>1. UNCHANGED <<rows, admin, raced, hand>>
    BY <1>4, Zenon DEF RuntimeStatus, tables, quiet, history
  <2> QED BY <2>1 DEF AddrInv, InHandRaced, StoredAt, SharedAddressOnlyByRace, Running
<1>5. CASE load_peer(c)
  <2>1. UNCHANGED <<rows, admin, raced>>
    BY <1>5, Zenon DEF load_peer, tables, quiet, history
  <2>2. hand[c].node \in Nodes /\ Running
    BY <1>5, LoadTo, Zenon
  <2>3. Live(hand[c].node) =>
          \A m \in Nodes : m # hand[c].node /\ StoredAt(m, rows[hand[c].node].addr)
                             => {hand[c].node, m} \in raced
    BY <2>2, OwnAddress
  <2>4. \/ \E p, k, n, r : Becomes(c, p, k, n, r, None)
        \/ /\ Live(hand[c].node)
           /\ \E p, k, r : Becomes(c, p, k, hand[c].node, r, rows[hand[c].node].addr)
    BY <1>5, LoadTo, Zenon
  <2>5. ASSUME NEW p, NEW k, NEW r, Live(hand[c].node),
               Becomes(c, p, k, hand[c].node, r, rows[hand[c].node].addr)
        PROVE  AddrInv'
    BY <2>1, <2>3, <2>5, AddrMove, Zenon
  <2> QED BY <2>1, <2>4, <2>5, <1>1, Zenon
<1>6. CASE allocate_virtual_ipv4(c)
  <2>1. UNCHANGED <<rows, admin, raced>>
    BY <1>6, Zenon DEF allocate_virtual_ipv4, tables, quiet, history
  <2>2. CASE Becomes(c, "idle", "none", None, hand[c].reg, None)
    BY <2>1, <2>2, <1>1, Zenon
  <2>3. ASSUME NEW a \in 1 .. Hosts,
               Becomes(c, "store", "register", hand[c].node, hand[c].reg, a),
               hand[c].addr # None => a = hand[c].addr,
               hand[c].addr = None => a \notin Taken
        PROVE  AddrInv'
    <3>1. ASSUME NEW m \in Nodes, m # hand[c].node, StoredAt(m, a)
          PROVE  {hand[c].node, m} \in raced
      <4>1. CASE hand[c].addr # None
        BY <4>1, <2>3, <3>1 DEF AddrInv, InHandRaced
      <4>2. CASE hand[c].addr = None
        BY <4>2, <2>3, <3>1 DEF Taken, StoredAt
      <4> QED BY <4>1, <4>2
    <3> QED BY <2>1, <2>3, <3>1, AddrMove, Zenon
  <2> QED BY <1>6, <2>2, <2>3, AllocTo, Zenon
<1>7. CASE update_peer(c)
  <2>n. PICK n \in Nodes : n = hand[c].node
    BY <1>7, StoreTo, Zenon
  <2>a. PICK a \in 1 .. Hosts : a = hand[c].addr /\ a # None
    BY <1>7, StoreTo, Zenon
  <2>1. /\ UNCHANGED admin /\ raced' = raced \cup {{n, m} : m \in Choosing(c)}
    BY <1>7, <2>n, Zenon DEF update_peer, quiet
  <2>2. /\ StoredAt(n, a)' /\ rows'[n].addr = a /\ \A m \in Nodes \ {n} : rows'[m] = rows[m]
    BY <1>7, <2>n, <2>a, StoreRows, Zenon DEF StoredAt
  <2>3. hand'[c].addr = None /\ \A d \in Conns \ {c} : hand'[d] = hand[d]
    BY <1>7, StoreTo, Zenon DEF Becomes, Is
  <2>4. ASSUME NEW m \in Nodes, m # n, StoredAt(m, a)' PROVE {n, m} \in raced
    <3>1. StoredAt(m, a)
      BY <2>2, <2>4 DEF StoredAt
    <3> QED BY <2>4, <3>1, <2>n, <2>a DEF AddrInv, InHandRaced
  <2>5. SharedAddressOnlyByRace'
    <3> SUFFICES ASSUME NEW i \in Nodes, NEW j \in Nodes, Running, i # j,
                        rows'[i] # None, rows'[j] # None, rows'[i].addr = rows'[j].addr
                 PROVE  {i, j} \in raced'
      BY <2>1 DEF SharedAddressOnlyByRace, Running
    <3>1. CASE i = n
      BY <3>1, <2>1, <2>2, <2>4 DEF StoredAt
    <3>2. CASE j = n
      <4>1. {n, i} \in raced /\ {n, i} = {i, j}
        BY <3>2, <2>2, <2>4 DEF StoredAt
      <4> QED BY <4>1, <2>1, Zenon
    <3>3. CASE i # n /\ j # n
      BY <3>3, <2>1, <2>2 DEF AddrInv, SharedAddressOnlyByRace
    <3> QED BY <3>1, <3>2, <3>3
  <2>6. ASSUME NEW d \in Conns, hand'[d].addr # None,
               NEW m \in Nodes, m # hand'[d].node,
               rows'[m] # None, rows'[m].addr = hand'[d].addr
        PROVE  {hand'[d].node, m} \in raced'
    <3>1. d # c /\ hand'[d] = hand[d]
      BY <2>3, <2>6
    <3>2. CASE m = n
      <4>1. hand[d].node \in Choosing(c)
        BY <3>1, <2>6 DEF Choosing
      <4>2. {n, hand[d].node} \in raced'
        BY <4>1, <2>1
      <4>3. {n, hand[d].node} = {hand'[d].node, m}
        BY <3>1, <3>2
      <4> QED BY <4>2, <4>3
    <3>3. CASE m # n
      <4>1. StoredAt(m, hand[d].addr)
        BY <3>1, <3>3, <2>2, <2>6 DEF StoredAt
      <4>2. {hand[d].node, m} \in raced
        BY <4>1, <3>1, <2>6 DEF AddrInv, InHandRaced
      <4> QED BY <4>2, <3>1, <2>1
    <3> QED BY <3>2, <3>3
  <2> QED BY <2>5, <2>6 DEF AddrInv, InHandRaced, StoredAt
<1>8. CASE HandlerBump(c) \/ HandlerBumped(c)
  <2>1. UNCHANGED <<rows, admin, raced>>
    BY <1>8, Zenon DEF HandlerBump, HandlerBumped, bump_snapshot, publish_generation, tables, history
  <2> QED BY <1>8, <2>1, <1>1, BumpTo, BumpedTo, Zenon
<1>9. CASE GoOnline(c) \/ Reply(c)
  <2>1. UNCHANGED <<rows, admin, raced>>
    BY <1>9, Zenon DEF GoOnline, Reply, tables, quiet, history
  <2> QED BY <1>9, <2>1, <1>1, OnlineTo, ReplyTo, Zenon
<1>10. CASE ReplyFails(c)
  <2>1. UNCHANGED <<rows, admin, raced>>
    BY <1>10, Zenon DEF ReplyFails, tables, quiet, history
  <2> QED BY <1>10, <2>1, <1>1, ReplyFailsTo, Zenon
<1>11. CASE End(c)
  <2>1. UNCHANGED <<rows, admin, raced>>
    BY <1>11, Zenon DEF End, tables, quiet, history
  <2> QED BY <1>11, <2>1, <1>1, EndTo, Zenon
<1> QED BY HandlerCases, <1>2, <1>3, <1>4, <1>5, <1>6, <1>7, <1>8, <1>9, <1>10, <1>11

\* Every step does: the migration of a start leaves no address shared.
LEMMA AddrNext == AddrInv /\ RestInv /\ HandInv /\ RowsInv /\ GenInv /\ [Next]_vars => AddrInv'
<1> SUFFICES ASSUME AddrInv, RestInv, HandInv, RowsInv, GenInv, [Next]_vars PROVE AddrInv'
  OBVIOUS
<1>1. ASSUME UNCHANGED <<rows, raced, hand>>, admin'.hash = admin.hash PROVE AddrInv'
  BY <1>1 DEF AddrInv, InHandRaced, StoredAt, SharedAddressOnlyByRace, Running
<1>2. CASE Open
  <2>1. /\ migrate_virtual_ipv4(rows).ok /\ rows' = migrate_virtual_ipv4(rows).table
        /\ hand' = [c \in Conns |-> Idle(None)]
    BY <1>2, Zenon DEF Open
  <2>2. \A c \in Conns : hand'[c].addr = None
    BY <2>1, IdleIs, Zenon DEF Someone, Is
  <2>3. \A n, m \in Nodes : (n # m /\ rows'[n] # None /\ rows'[m] # None)
                              => rows'[n].addr # rows'[m].addr
    BY <2>1, MigrationSeparates DEF RowsInv
  <2> QED BY <2>2, <2>3 DEF AddrInv, InHandRaced, SharedAddressOnlyByRace
<1>3. ASSUME NEW c \in Conns, Handler(c) PROVE AddrInv'
  BY <1>3, AddrHandler
<1>4. ASSUME NEW n \in Nodes, NEW kind \in {"revoke", "delete"}, RemovePeer(n, kind) PROVE AddrInv'
  <2>1. UNCHANGED <<admin, raced, hand>>
    BY <1>4, Zenon DEF RemovePeer
  <2>2. \A m \in Nodes : rows'[m] # None => rows[m] # None /\ rows'[m].addr = rows[m].addr
    BY <1>4, RemoveRows
  <2> QED BY <2>1, <2>2 DEF AddrInv, InHandRaced, StoredAt, SharedAddressOnlyByRace, Running
<1>5. CASE login \/ logout \/ reset_password
  <2>1. UNCHANGED <<rows, raced, hand>>
    BY <1>5, Zenon DEF login, logout, reset_password, tables, history
  <2>2. admin'.hash = admin.hash
    BY <1>5 DEF login, logout, reset_password, GenInv, AdminType
  <2> QED BY <2>1, <2>2, <1>1
<1>6. CASE Tick \/ AdminHandler \/ (\E i \in Invites : consume_download_token(i)) \/ UNCHANGED vars
  <2>1. \/ UNCHANGED <<rows, raced, hand, admin>>
        \/ login \/ logout \/ reset_password
        \/ \E n \in Nodes, kind \in {"revoke", "delete"} : RemovePeer(n, kind)
    BY <1>6, Zenon DEF Tick, AdminHandler, create_invite, delete_invite, admin_invites,
       update_network_config, AdminBump, AdminBumped, bump_snapshot, publish_generation,
       disconnect_peer, consume_download_token, quiet, tables, history, vars
  <2> QED BY <2>1, <1>1, <1>4, <1>5
<1> QED BY <1>2, <1>3, <1>6, Zenon DEF Next

\* The strengthening of MapsAccountedFor, SharedAddressOnlyByRace and TypeOK.
RegistryInv == GenInv /\ RowsInv /\ HandInv /\ RestInv /\ LeftInv /\ MapInv /\ AddrInv

\* The invariant holds before the first start.
LEMMA RegistryInit == Init => RegistryInv
<1> SUFFICES ASSUME Init PROVE RegistryInv
  OBVIOUS
<1>1. RowsInv
  <2>1. Row(Outside, FALSE) \in RowType
    BY RegistryAssumption DEF Row, Outside, RowType
  <2>2. rows \in [Nodes -> {None, Row(Outside, FALSE)}] /\ admin.hash = None
    BY Zenon DEF Init
  <2> QED BY <2>1, <2>2, Zenon DEF RowsInv, Tables, Running
<1>2. hand = [c \in Conns |-> Idle(None)]
  BY DEF Init
<1>3. HandInv
  BY <1>2, IdleIs, Zenon DEF HandInv, Someone
<1>4. RestInv
  <2>1. adm \in AdmType /\ adm.pc = "idle" /\ adm.kind = "none" /\ adm.node = None
    BY DEF Init, AdminIdle, AdmType, Someone
  <2>2. /\ holder = None /\ online = [n \in Nodes |-> {}] /\ status = [n \in Nodes |-> {}]
        /\ creds = {n \in Nodes : rows[n] # None} /\ now = 0 /\ ops = 0
    BY DEF Init
  <2> QED BY <2>1, <2>2, RegistryAssumption DEF RestInv
<1>5. \A c \in Conns : hand[c].pc = "idle" /\ hand[c].addr = None
  BY <1>2, IdleIs, Zenon DEF Someone, Is
<1>6. MapInv
  <2>1. online = [n \in Nodes |-> {}] /\ status = [n \in Nodes |-> {}]
    BY DEF Init
  <2> QED BY <1>5, <2>1 DEF MapInv, StoredRow
<1>7. AddrInv
  <2>1. ~Running
    BY DEF Init, Running
  <2> QED BY <1>5, <2>1 DEF AddrInv, InHandRaced, SharedAddressOnlyByRace
<1>8. LeftInv
  BY DEF Init, LeftInv
<1> QED BY <1>1, <1>3, <1>4, <1>6, <1>7, <1>8, GenInit DEF RegistryInv

\* Every step keeps it.
LEMMA RegistryNext == RegistryInv /\ [Next]_vars => RegistryInv'
BY GenNext, RowsNext, HandNext, RestNext, LeftNext, MapNext, AddrNext DEF RegistryInv

(* Every entry of the maps in memory is accounted for, for any number of     *)
(* connections, peers and restarts: the end of its connection takes it out,  *)
(* or the connection registered another node after it or could not be sent   *)
(* RegisterOk; and a removed peer is online only until disconnect_peer, or   *)
(* because its removal fell between the row and the online map of this       *)
(* registration (the end of handle_socket, disconnect_peer, GoOnline).       *)
THEOREM MapsAreAccountedFor == Spec => []MapsAccountedFor
<1>1. RegistryInv => MapsAccountedFor
  BY Zenon DEF RegistryInv, MapInv, MapsAccountedFor, Kept
<1> QED BY <1>1, RegistryInit, RegistryNext, PTL DEF Spec

(* Two peers share an address only by a race of their registrations, for any *)
(* number of peers and any size of the network (load_peer,                   *)
(* allocate_virtual_ipv4, update_peer), and no longer than the next start.   *)
THEOREM AddressesAreApart == Spec => []SharedAddressOnlyByRace
<1>1. RegistryInv => SharedAddressOnlyByRace
  BY DEF RegistryInv, AddrInv
<1> QED BY <1>1, RegistryInit, RegistryNext, PTL DEF Spec

(* The tables, the memory and the handlers keep their types.                 *)
THEOREM RegistryTypes == Spec => []TypeOK
<1>1. RegistryInv => TypeOK
  <2> SUFFICES ASSUME RegistryInv PROVE TypeOK
    OBVIOUS
  <2>1. ASSUME NEW n \in Nodes
        PROVE  rows[n] \in {None} \cup [addr : (IF Running THEN 1 ELSE 0) .. Hosts, revoked : BOOLEAN]
    <3>1. CASE Running
      BY <3>1 DEF RegistryInv, RowsInv, Tables, RowType
    <3>2. CASE ~Running
      BY <3>2 DEF RegistryInv, RowsInv, Tables, RowType
    <3> QED BY <3>1, <3>2
  <2>2. \A c \in Conns :
          /\ hand[c].pc \in {"idle", "load", "alloc", "store", "bump", "bumped",
                             "online", "reply", "ended"}
          /\ hand[c].node \in Nodes \cup {None} /\ hand[c].reg \in Nodes \cup {None}
    BY DEF RegistryInv, HandInv, HandType, HandPcs, Someone
  <2>3. stored \in Nat /\ gen \in Nat /\ settings \in Nat /\ config \in Nat
    BY DEF RegistryInv, GenInv
  <2>4. /\ holder \in {None, Admin} \cup Conns
        /\ online \in [Nodes -> SUBSET Conns] /\ status \in [Nodes -> SUBSET Conns]
        /\ adm.pc \in {"idle", "bump", "bumped", "disconnect"}
        /\ creds \subseteq Nodes /\ left \in [Conns -> SUBSET Nodes]
        /\ ops \in 0 .. MaxOps /\ now \in 0 .. MaxTime
    BY DEF RegistryInv, RestInv, LeftInv, AdmType
  <2> QED BY <2>1, <2>2, <2>3, <2>4 DEF TypeOK
<1> QED BY <1>1, RegistryInit, RegistryNext, PTL DEF Spec
=============================================================================
