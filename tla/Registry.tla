------------------------------ MODULE Registry ------------------------------
(***************************************************************************)
(* The coordinator's registry: the SQLite tables (peers, invites, settings *)
(* and snapshot generation), the maps kept in memory (online sessions,     *)
(* runtime status, settings, admin sessions), the handlers of the peers'   *)
(* WebSocket connections and of the administrator's requests, and the      *)
(* restart of the server on the same database.                             *)
(*                                                                         *)
(* The database is behind one mutex, which every query takes anew: a       *)
(* handler is a sequence of queries and other handlers run in between.     *)
(* bump_snapshot writes the generation while it holds the mutex and        *)
(* publishes it afterwards, so it has two steps and `holder'. A peer's row *)
(* is its virtual address and the revoked flag; keys, candidates, names    *)
(* and last_seen are not told apart. The broadcast that follows a change   *)
(* is in ControlPlane. A request that is refused changes nothing here.     *)
(***************************************************************************)
EXTENDS Integers, Sequences, FiniteSets, FiniteSetsExt, Functions

CONSTANTS Peers,       \* node ids, in the order of the database's index
          Conns,       \* WebSocket connections during one life of the server
          Invites,
          Hosts,       \* VIRTUAL_IPV4_USABLE_HOSTS
          StartHost,   \* first host tried for a node: its hash modulo Hosts
          Ttl,         \* life of an invite
          SessionTtl,  \* SESSION_TTL_SECONDS
          MaxTime, MaxOps, Kinds,   \* bounds: clock, requests and their kinds
          None, Admin   \* no node, the administrator's request

Nodes == Range(Peers)

ASSUME RegistryAssumption ==
  /\ Hosts \in Nat \ {0} /\ Ttl \in Nat /\ SessionTtl \in Nat
  /\ MaxTime \in Nat /\ MaxOps \in Nat
  /\ None \notin Nodes \cup Conns \cup {Admin} \cup Nat

\* node_id is the primary key of the table of peers.
ASSUME PeersAssumption ==
  /\ Peers \in Seq(Nodes) /\ IsInjective(Peers)
  /\ StartHost \in [Nodes -> Nat]
  /\ None \notin [addr : Nat, revoked : BOOLEAN]

VARIABLES
  rows, invites, stored, settings,    \* the database
  holder,                             \* who is inside bump_snapshot
  gen, config, online, status,        \* the server's memory
  hand,                               \* handlers of the connections
  adm, admin,                         \* an admin request, AdminAuth
  creds,                              \* nodes that hold a credential
  now, ops,
  left,                               \* nodes registered on a connection whose
                                      \* end will not take them offline
  admitted, fetched, shown, handed, raced, overlapped   \* history

tables == <<rows, invites, stored, settings>>
memory == <<gen, config, online, status>>
history == <<left, admitted, fetched, shown, handed, raced, overlapped>>
vars == <<tables, holder, memory, hand, adm, admin, creds, now, ops, history>>

Row(addr, revoked) == [addr |-> addr, revoked |-> revoked]
Idle(reg) == [pc |-> "idle", kind |-> "none", node |-> None, reg |-> reg,
              addr |-> None]
AdminIdle == [pc |-> "idle", kind |-> "none", node |-> None]

\* An invite that was never created has no row.
InviteRow(made, expires) ==
  [made |-> made, expires |-> expires, used |-> FALSE, revoked |-> FALSE, download |-> FALSE]
NoInvite == InviteRow(FALSE, 0)

Outside == 0    \* an address of a network used before

\* A database of an older version: its addresses are outside the network.
\* Some invites have been made.
Init ==
  /\ rows \in [Nodes -> {None, Row(Outside, FALSE)}]
  /\ invites \in [Invites -> {NoInvite, InviteRow(TRUE, Ttl)}]
  /\ stored = 1 /\ settings = 0
  /\ holder = None
  /\ gen = 0 /\ config = 0
  /\ online = [n \in Nodes |-> {}] /\ status = [n \in Nodes |-> {}]
  /\ hand = [c \in Conns |-> Idle(None)]
  /\ adm = AdminIdle
  /\ admin = [file |-> 0, hash |-> None, expires |-> 0]
  /\ creds = {n \in Nodes : rows[n] # None}
  /\ now = 0 /\ ops = 0
  /\ left = [c \in Conns |-> {}]
  /\ admitted = [i \in Invites |-> 0] /\ fetched = [i \in Invites |-> 0]
  /\ shown = [i \in Invites |-> "none"]
  /\ handed = 0 /\ raced = {} /\ overlapped = {}

-----------------------------------------------------------------------------
(* Start on a database: schema, address migration, generation, settings *)

Running == admin.hash # None

\* A request of some kind comes in.
Op(kind) == Running /\ kind \in Kinds /\ ops < MaxOps /\ ops' = ops + 1

Host(n, offset) == 1 + ((StartHost[n] + offset) % Hosts)
FreeOffsets(n, used) == {o \in 0 .. (Hosts - 1) : Host(n, o) \notin used}

\* allocate_virtual_ipv4_from_used, and the same search in the table
allocate_virtual_ipv4_from_used(n, used) == Host(n, Min(FreeOffsets(n, used)))

(* Mutant: the network address itself counts as a host *)
virtual_ipv4_host_from_zero(addr) == addr \in 0 .. Hosts

virtual_ipv4_host(addr) == addr \in 1 .. Hosts

\* In the order of the node ids, an address outside the network or already
\* taken is replaced. It fails, as a whole, when no address is left.
MigratePeer(table, acc, n) ==
  IF table[n] = None THEN acc
  ELSE LET addr == table[n].addr
           keep == virtual_ipv4_host(addr) /\ addr \notin acc.used
           new == IF keep THEN addr ELSE allocate_virtual_ipv4_from_used(n, acc.used)
       IN  [ok |-> acc.ok /\ (keep \/ FreeOffsets(n, acc.used) # {}),
            used |-> acc.used \cup {new},
            table |-> [acc.table EXCEPT ![n] = Row(new, table[n].revoked)]]

migrate_virtual_ipv4(table) ==
  LET after[k \in 0 .. Len(Peers)] ==
        IF k = 0 THEN [ok |-> TRUE, used |-> {}, table |-> table]
                 ELSE MigratePeer(table, after[k - 1], Peers[k])
  IN  after[Len(Peers)]

\* open_with_admin_credentials_and_network_config. The first start creates
\* the credentials file; a restart drops every handler where it is.
Open ==
  /\ \/ ~Running /\ ops' = ops
     \/ Op("restart")
  /\ migrate_virtual_ipv4(rows).ok /\ rows' = migrate_virtual_ipv4(rows).table
  /\ raced' = {} /\ overlapped' = {}
  /\ gen' = stored /\ config' = settings
  /\ online' = [n \in Nodes |-> {}] /\ status' = [n \in Nodes |-> {}]
  /\ hand' = [c \in Conns |-> Idle(None)] /\ left' = [c \in Conns |-> {}]
  /\ adm' = AdminIdle /\ holder' = None
  /\ admin' = [admin EXCEPT !.hash = admin.file, !.expires = 0]
  /\ UNCHANGED <<invites, stored, settings, creds, now, admitted, fetched, shown, handed>>

Tick == /\ now < MaxTime /\ now' = now + 1
        /\ UNCHANGED <<tables, holder, memory, hand, adm, admin, creds, ops, history>>

-----------------------------------------------------------------------------
(* bump_snapshot: the generation is written, then published *)

Unlocked == holder = None

(* Mutant: the generation is published before it is written *)
bump_snapshot_in_memory(who) ==
  /\ Unlocked
  /\ gen' = gen + 1
  /\ holder' = who
  /\ UNCHANGED <<tables, config, online, status, creds, admin, now, ops, history>>

bump_snapshot(who) ==
  /\ Unlocked
  /\ stored' = gen + 1
  /\ holder' = who
  /\ UNCHANGED <<rows, invites, settings, memory, creds, admin, now, ops, history>>

publish_generation(who) ==
  /\ holder = who
  /\ gen' = stored
  /\ holder' = None
  /\ UNCHANGED <<tables, config, online, status, creds, admin, now, ops, history>>

-----------------------------------------------------------------------------
(* Messages of the peers: handle_socket and handle_message *)

SetHand(c, h) == hand' = [hand EXCEPT ![c] = h]
At(c, pc) == Running /\ hand[c].pc = pc
Query(c, pc) == At(c, pc) /\ Unlocked
quiet == <<adm, admin, creds, now>>

Live(n) == rows[n] # None /\ ~rows[n].revoked

(* Mutant: the used flag is not looked at *)
register_with_invite_again(i) ==
  /\ invites[i].made /\ ~invites[i].revoked /\ invites[i].expires >= now
  /\ invites' = [invites EXCEPT ![i].used = TRUE, ![i].download = TRUE]

\* The invite is checked and marked under one lock.
register_with_invite(i) ==
  /\ invites[i].made /\ ~invites[i].revoked /\ ~invites[i].used
  /\ invites[i].expires >= now
  /\ invites' = [invites EXCEPT ![i].used = TRUE, ![i].download = TRUE]

\* Register with an invite, also on a connection that has registered a node.
RegisterInvite(c, n, i) ==
  /\ Query(c, "idle") /\ Op("register")
  /\ register_with_invite(i)
  /\ admitted' = [admitted EXCEPT ![i] = @ + 1]
  /\ SetHand(c, [Idle(hand[c].reg) EXCEPT !.pc = "load", !.kind = "register", !.node = n])
  /\ UNCHANGED <<rows, stored, settings, holder, memory, quiet, left, fetched, shown, handed, raced, overlapped>>

\* Register with a credential: the row must not be revoked.
RegisterCredential(c, n) ==
  /\ Query(c, "idle") /\ Op("register")
  /\ n \in creds /\ Live(n)
  /\ SetHand(c, [Idle(hand[c].reg) EXCEPT !.pc = "load", !.kind = "register", !.node = n])
  /\ UNCHANGED <<tables, holder, memory, quiet, history>>

\* UpdateCandidates of a registered connection.
UpdateCandidates(c) ==
  /\ Query(c, "idle") /\ Op("update") /\ hand[c].reg # None
  /\ SetHand(c, [Idle(hand[c].reg) EXCEPT !.pc = "load", !.kind = "update", !.node = hand[c].reg])
  /\ UNCHANGED <<tables, holder, memory, quiet, history>>

\* load_peer finds rows that are not revoked; an update without one fails.
load_peer(c) ==
  /\ Query(c, "load")
  /\ LET h == hand[c]
         found == Live(h.node)
     IN  SetHand(c, CASE h.kind = "register" ->
                           [h EXCEPT !.pc = "alloc",
                                     !.addr = IF found THEN rows[h.node].addr ELSE None]
                      [] h.kind = "update" /\ found ->
                           [h EXCEPT !.pc = "store", !.addr = rows[h.node].addr]
                      [] OTHER -> Idle(h.reg))
  /\ UNCHANGED <<tables, holder, memory, quiet, ops, history>>

Taken == {rows[m].addr : m \in {k \in Nodes : rows[k] # None}}

(* Mutant: the addresses of revoked peers are given away *)
TakenByLive == {rows[m].addr : m \in {k \in Nodes : Live(k)}}

(* Mutant: allocation that looks at live rows only *)
allocate_virtual_ipv4_live(c) ==
  /\ Query(c, "alloc")
  /\ LET h == hand[c]
         free == FreeOffsets(h.node, TakenByLive)
     IN  SetHand(c, IF free = {} THEN Idle(h.reg)
                    ELSE [h EXCEPT !.pc = "store",
                                   !.addr = IF h.addr = None THEN Host(h.node, Min(free)) ELSE @])
  /\ UNCHANGED <<tables, holder, memory, quiet, ops, history>>

\* Searches the table even for a peer that has an address (the argument of
\* `or' is evaluated first); a full table fails the registration.
allocate_virtual_ipv4(c) ==
  /\ Query(c, "alloc")
  /\ LET h == hand[c]
         free == FreeOffsets(h.node, Taken)
     IN  SetHand(c, IF free = {} THEN Idle(h.reg)
                    ELSE [h EXCEPT !.pc = "store",
                                   !.addr = IF h.addr = None THEN Host(h.node, Min(free)) ELSE @])
  /\ UNCHANGED <<tables, holder, memory, quiet, ops, history>>

\* Nodes whose handlers have an address in hand that they are yet to store.
Choosing(c) == {hand[d].node : d \in {e \in Conns \ {c} : hand[e].addr # None}}

\* update_peer inserts or overwrites the row and clears its revoked flag;
\* with metadata and last_seen. Unchanged candidates lead to a reply only.
update_peer(c) ==
  /\ Query(c, "store")
  /\ LET h == hand[c]
     IN  /\ rows' = [rows EXCEPT ![h.node] = Row(h.addr, FALSE)]
         /\ raced' = raced \cup {{h.node, m} : m \in Choosing(c)}
         /\ \/ SetHand(c, [h EXCEPT !.pc = "bump", !.addr = None])
            \/ h.kind = "update" /\ SetHand(c, [h EXCEPT !.pc = "reply", !.addr = None])
  /\ UNCHANGED <<invites, stored, settings, holder, memory, quiet, ops, left, admitted, fetched, shown, handed, overlapped>>

HandlerBump(c) ==
  /\ Query(c, "bump")
  /\ bump_snapshot(c)
  /\ SetHand(c, [hand[c] EXCEPT !.pc = "bumped"])
  /\ UNCHANGED adm

\* A broadcast is all that is left of an update and of an ended session.
HandlerBumped(c) ==
  /\ At(c, "bumped")
  /\ publish_generation(c)
  /\ LET h == hand[c]
     IN  SetHand(c, CASE h.kind = "register" -> [h EXCEPT !.pc = "online"]
                      [] h.kind = "update" -> Idle(h.reg)
                      [] OTHER -> [Idle(None) EXCEPT !.pc = "ended"])
  /\ UNCHANGED adm

\* The session joins the online sessions of the node.
GoOnline(c) ==
  /\ At(c, "online")
  /\ online' = [online EXCEPT ![hand[c].node] = @ \cup {c}]
  /\ SetHand(c, [hand[c] EXCEPT !.pc = "reply"])
  /\ UNCHANGED <<tables, holder, gen, config, status, quiet, ops, history>>

RequestSnapshot(c) ==
  /\ At(c, "idle") /\ Op("request") /\ hand[c].reg # None
  /\ SetHand(c, [Idle(hand[c].reg) EXCEPT !.pc = "reply", !.kind = "request"])
  /\ UNCHANGED <<tables, holder, memory, quiet, history>>

\* The online ids, the rows and last the generation are read under locks of
\* their own; the answer is queued. A registration is complete and takes the
\* place of an earlier one of the connection, whose node stays online.
Reply(c) ==
  /\ Query(c, "reply")
  /\ handed' = IF gen > handed THEN gen ELSE handed
  /\ LET h == hand[c]
         done == h.kind = "register"
     IN  /\ SetHand(c, Idle(IF done THEN h.node ELSE h.reg))
         /\ creds' = IF done THEN creds \cup {h.node} ELSE creds
         /\ left' = IF done THEN [left EXCEPT ![c] = (@ \cup ({h.reg} \ {None})) \ {h.node}]
                            ELSE left
  /\ UNCHANGED <<tables, holder, memory, adm, admin, now, ops, admitted, fetched, shown, raced, overlapped>>

\* The writer task is gone: ConnectionClosed. The registration is not
\* remembered, though its session is online.
ReplyFails(c) ==
  /\ Query(c, "reply") /\ Op("close")
  /\ LET h == hand[c]
     IN  /\ SetHand(c, Idle(h.reg))
         /\ left' = IF h.kind = "register" THEN [left EXCEPT ![c] = @ \cup ({h.node} \ {h.reg})]
                                           ELSE left
  /\ UNCHANGED <<tables, holder, memory, quiet, admitted, fetched, shown, handed, raced, overlapped>>

\* RuntimeStatus
RuntimeStatus(c) ==
  /\ At(c, "idle") /\ Op("status") /\ hand[c].reg # None
  /\ status' = [status EXCEPT ![hand[c].reg] = @ \cup {c}]
  /\ UNCHANGED <<tables, holder, gen, config, online, hand, quiet, history>>

(* Mutant: the runtime status of an ended session stays *)
EndKeepsStatus(c) ==
  /\ At(c, "idle") /\ Op("close")
  /\ LET n == hand[c].reg
         last == n # None /\ online[n] = {c}
     IN  /\ online' = [m \in Nodes |-> IF m = n THEN online[m] \ {c} ELSE online[m]]
         /\ SetHand(c, IF last THEN [hand[c] EXCEPT !.pc = "bump", !.kind = "end", !.reg = None]
                               ELSE [hand[c] EXCEPT !.pc = "ended", !.reg = None])
  /\ UNCHANGED <<tables, holder, gen, config, status, quiet, history>>

\* The connection closes or its heartbeat fails.
End(c) ==
  /\ At(c, "idle") /\ Op("close")
  /\ LET n == hand[c].reg
         last == n # None /\ online[n] = {c}
     IN  /\ online' = [m \in Nodes |-> IF m = n THEN online[m] \ {c} ELSE online[m]]
         /\ status' = [m \in Nodes |-> IF m = n THEN status[m] \ {c} ELSE status[m]]
         /\ SetHand(c, IF last THEN [hand[c] EXCEPT !.pc = "bump", !.kind = "end", !.reg = None]
                               ELSE [hand[c] EXCEPT !.pc = "ended", !.reg = None])
  /\ UNCHANGED <<tables, holder, gen, config, quiet, history>>

-----------------------------------------------------------------------------
(* Requests of the administrator *)

\* require_admin: a session that has not expired
authorize == admin.expires > now
AdminOp(kind) == Op(kind) /\ authorize /\ adm.pc = "idle"

login ==
  /\ Running /\ ~authorize
  /\ admin' = [admin EXCEPT !.expires = now + SessionTtl]
  /\ UNCHANGED <<tables, holder, memory, hand, adm, creds, now, ops, history>>

logout ==
  /\ Running /\ authorize
  /\ admin' = [admin EXCEPT !.expires = 0]
  /\ UNCHANGED <<tables, holder, memory, hand, adm, creds, now, ops, history>>

\* The command line writes the file; the running server keeps its copy.
reset_password ==
  /\ Op("password")
  /\ admin' = [admin EXCEPT !.file = @ + 1]
  /\ UNCHANGED <<tables, holder, memory, hand, adm, creds, now, history>>

create_invite(i) ==
  /\ AdminOp("invite") /\ Unlocked /\ ~invites[i].made
  /\ invites' = [invites EXCEPT ![i] = InviteRow(TRUE, now + Ttl)]
  /\ UNCHANGED <<rows, stored, settings, holder, memory, hand, quiet, history>>

delete_invite(i) ==
  /\ AdminOp("invite") /\ Unlocked /\ invites[i].made
  /\ invites' = [invites EXCEPT ![i].revoked = TRUE, ![i].download = TRUE]
  /\ UNCHANGED <<rows, stored, settings, holder, memory, hand, quiet, history>>

InviteStatus(i) ==
  CASE invites[i].revoked -> "revoked"
    [] ~invites[i].revoked /\ invites[i].used -> "used"
    [] ~invites[i].revoked /\ ~invites[i].used /\ invites[i].expires <= now -> "expired"
    [] OTHER -> "pending"

admin_invites ==
  /\ AdminOp("list") /\ Unlocked
  /\ shown' = [i \in Invites |-> IF invites[i].made THEN InviteStatus(i) ELSE shown[i]]
  /\ UNCHANGED <<tables, holder, memory, hand, quiet, left, admitted, fetched, handed, raced, overlapped>>

\* download_cli: the token is consumed before the executable is read.
consume_download_token(i) ==
  /\ Op("download") /\ Unlocked
  /\ invites[i].made /\ ~invites[i].download /\ ~invites[i].revoked /\ ~invites[i].used
  /\ invites[i].expires > now
  /\ invites' = [invites EXCEPT ![i].download = TRUE]
  /\ fetched' = [fetched EXCEPT ![i] = @ + 1]
  /\ UNCHANGED <<rows, stored, settings, holder, memory, hand, quiet, left, admitted, shown, handed, raced, overlapped>>

\* A registration that has stored the row of its node and is not online yet.
StoredRow(c, n) ==
  /\ hand[c].node = n /\ hand[c].kind = "register"
  /\ hand[c].pc \in {"bump", "bumped", "online"}

\* revoke_peer_inner marks the row, delete_peer_inner removes it.
RemovePeer(n, kind) ==
  /\ AdminOp(kind) /\ Unlocked
  /\ \/ kind = "revoke" /\ Live(n) /\ rows' = [rows EXCEPT ![n].revoked = TRUE]
     \/ kind = "delete" /\ rows[n] # None /\ rows' = [rows EXCEPT ![n] = None]
  /\ adm' = [pc |-> "bump", kind |-> kind, node |-> n]
  /\ overlapped' = overlapped \cup {<<c, n>> : c \in {d \in Conns : StoredRow(d, n)}}
  /\ UNCHANGED <<invites, stored, settings, holder, memory, hand, admin, creds, now, left, admitted, fetched, shown, handed, raced>>

\* Settings are written and published under both locks.
update_network_config ==
  /\ AdminOp("config") /\ Unlocked
  /\ settings' = config + 1 /\ config' = config + 1
  /\ adm' = [AdminIdle EXCEPT !.pc = "bump", !.kind = "config"]
  /\ UNCHANGED <<rows, invites, stored, holder, gen, online, status, hand, admin, creds, now, history>>

AdminBump ==
  /\ adm.pc = "bump"
  /\ bump_snapshot(Admin)
  /\ adm' = [adm EXCEPT !.pc = "bumped"]
  /\ UNCHANGED hand

AdminBumped ==
  /\ adm.pc = "bumped"
  /\ publish_generation(Admin)
  /\ adm' = IF adm.kind = "config" THEN AdminIdle ELSE [adm EXCEPT !.pc = "disconnect"]
  /\ UNCHANGED hand

\* The sessions leave the online map and are sent Revoke.
disconnect_peer ==
  /\ adm.pc = "disconnect"
  /\ online' = [online EXCEPT ![adm.node] = {}]
  /\ adm' = AdminIdle
  /\ UNCHANGED <<tables, holder, gen, config, status, hand, admin, creds, now, ops, history>>

Handler(c) ==
  \/ \E n \in Nodes : RegisterCredential(c, n) \/ \E i \in Invites : RegisterInvite(c, n, i)
  \/ UpdateCandidates(c) \/ RequestSnapshot(c) \/ RuntimeStatus(c)
  \/ load_peer(c) \/ allocate_virtual_ipv4(c) \/ update_peer(c)
  \/ HandlerBump(c) \/ HandlerBumped(c) \/ GoOnline(c)
  \/ Reply(c) \/ ReplyFails(c) \/ End(c)

AdminHandler ==
  \/ login \/ logout \/ reset_password
  \/ \E i \in Invites : create_invite(i) \/ delete_invite(i)
  \/ admin_invites
  \/ \E n \in Nodes, kind \in {"revoke", "delete"} : RemovePeer(n, kind)
  \/ update_network_config \/ AdminBump \/ AdminBumped \/ disconnect_peer

Next ==
  \/ Open \/ Tick
  \/ \E c \in Conns : Handler(c)
  \/ AdminHandler
  \/ \E i \in Invites : consume_download_token(i)

Spec == Init /\ [][Next]_vars

-----------------------------------------------------------------------------
(* Types of the tables, the memory and the handlers.                        *)
TypeOK ==
  /\ \A n \in Nodes : rows[n] \in {None} \cup [addr : (IF Running THEN 1 ELSE 0) .. Hosts, revoked : BOOLEAN]
  /\ stored \in Nat /\ gen \in Nat /\ settings \in Nat /\ config \in Nat
  /\ holder \in {None, Admin} \cup Conns
  /\ online \in [Nodes -> SUBSET Conns] /\ status \in [Nodes -> SUBSET Conns]
  /\ \A c \in Conns :
       /\ hand[c].pc \in {"idle", "load", "alloc", "store", "bump", "bumped",
                          "online", "reply", "ended"}
       /\ hand[c].node \in Nodes \cup {None} /\ hand[c].reg \in Nodes \cup {None}
  /\ adm.pc \in {"idle", "bump", "bumped", "disconnect"}
  /\ creds \subseteq Nodes /\ left \in [Conns -> SUBSET Nodes]
  /\ ops \in 0 .. MaxOps /\ now \in 0 .. MaxTime

(* An invite admits one registration and serves one download, and neither    *)
(* after the administrator's list has shown it used or revoked               *)
(* (register_with_invite, consume_download_token, delete_invite), over       *)
(* concurrent registrations and restarts.                                    *)
InviteSpent ==
  [][\A i \in Invites :
       /\ admitted'[i] # admitted[i] =>
            admitted[i] = 0 /\ shown[i] \notin {"used", "revoked"}
       /\ fetched'[i] # fetched[i] =>
            /\ fetched[i] = 0 /\ admitted[i] = 0
            /\ shown[i] \notin {"used", "revoked", "expired"}]_vars

(* A restart takes back nothing that snapshots have said: no snapshot was    *)
(* handed out with a generation above the stored one, and the settings in    *)
(* use are the stored ones, whatever step a crash interrupts                 *)
(* (bump_snapshot writes before it publishes).                               *)
RestartTakesNothingBack ==
  /\ Running => /\ handed <= gen
                /\ gen <= stored
                /\ holder = None => gen = stored
                /\ config = settings
  /\ handed <= stored

RemovingNow(n) == adm.pc # "idle" /\ adm.node = n
Registering(c, n) == hand[c].node = n /\ hand[c].kind = "register" /\ hand[c].pc = "reply"

(* Every entry of the maps in memory is accounted for. An online entry or a  *)
(* runtime status is taken out by the end of its connection, or belongs to   *)
(* one whose RegisterOk is about to be queued, or is in `left': the          *)
(* connection registered another node after it, or RegisterOk could not be   *)
(* queued, and then nothing but a removal or a restart takes it out          *)
(* (GoOnline, disconnect_peer, the end of handle_socket). A node whose row   *)
(* is gone or revoked is online only while disconnect_peer is still to come, *)
(* or if its removal fell between the row and the online map of this very    *)
(* registration.                                                             *)
MapsAccountedFor ==
  \A n \in Nodes :
    /\ \A c \in online[n] : hand[c].reg = n \/ Registering(c, n) \/ n \in left[c]
    /\ \A c \in status[n] : hand[c].reg = n \/ n \in left[c]
    /\ \A c \in online[n] : Live(n) \/ RemovingNow(n) \/ <<c, n>> \in overlapped

(* Two stored peers, revoked ones included, share an address only when the   *)
(* handler of one had it in hand while the other stored it (load_peer,       *)
(* allocate_virtual_ipv4 and update_peer take the database lock separately); *)
(* a restart separates them again.                                           *)
SharedAddressOnlyByRace ==
  \A n, m \in Nodes :
    (Running /\ n # m /\ rows[n] # None /\ rows[m] # None /\ rows[n].addr = rows[m].addr)
      => {n, m} \in raced
=============================================================================
