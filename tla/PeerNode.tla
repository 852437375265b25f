------------------------------ MODULE PeerNode ------------------------------
(***************************************************************************)
(* One running Vela node: Membership, PeerSession and DataPlane over the   *)
(* state of PeerStore. The behaviours start in a node that has applied     *)
(* generation 1, has a session with one of its peers, and could not reach  *)
(* the others so far: their packets wait.                                  *)
(***************************************************************************)
EXTENDS Membership, PeerSession, DataPlane

CONSTANTS InitialPeers,  \* the PeerState of each member of generation 1
          Connected,     \* the member the node has a session with
          Waiting        \* packets that wait for a session with each of the others

PeerInfoSet == UNION {{Worlds[g].members[i] : i \in Members(g)} : g \in DOMAIN Worlds}
SessionSet == [sid : Sids, info : PeerInfoSet, odd : BOOLEAN, again : BOOLEAN,
               seen : SUBSET (1 .. MaxOps)] \cup {NoSession}

(* The types, with the limits the code enforces: queues within their        *)
(* capacity and no more reconnect attempts than MAX_RECONNECT_ATTEMPTS.     *)
TypeOK ==
  /\ \A o \in Objs :
       /\ obj[o].id \in Ids \cup {None} /\ obj[o].info \in PeerInfoSet \cup {NoInfo}
       /\ obj[o].active \in SessionSet /\ obj[o].attempt \in Sids \cup {0}
       /\ obj[o].queue \in Seq(Queued) /\ Len(obj[o].queue) <= QueueLimit
       /\ obj[o].tries \in 0 .. MaxReconnect
       /\ loops[o] \in [{"top", "go", "call"} -> Nat]
       /\ conn[o] \in [sid : Sids \cup {0}, by : Objs \cup {0}]
  /\ peers \in [Ids -> Objs \cup {0}]
  /\ routes \in [Addrs -> Ids \cup {None}]
  /\ sessions \in [Sids -> Objs \cup {0}]
  /\ gen \in DOMAIN Worlds /\ expired \in BOOLEAN /\ hs1 \in [Ids -> Sids \cup {0}]
  /\ calls \in [Ids -> Nat] /\ ops \in 0 .. MaxOps
  /\ Len(inq) <= DataLimit /\ Len(wrk.batch) <= DataLimit

Init ==
  /\ peers = InitialPeers
  /\ obj = [o \in Objs |->
       IF \E i \in Members(1) : peers[i] = o
       THEN LET i == CHOOSE j \in Members(1) : peers[j] = o
                new == NewPeer(i, Worlds[1].members[i], i \in Worlds[1].online)
            IN IF i # Connected
               THEN [new EXCEPT !.queue = [k \in 1 .. Waiting |->
                       [dst |-> new.info.addr, big |-> FALSE, late |-> FALSE]]]
               ELSE [new EXCEPT !.active = [sid |-> 1, info |-> new.info, odd |-> FALSE,
                                            again |-> FALSE, seen |-> {}]]
       ELSE NoPeer]
  /\ routes = AddressesOf(peers, obj)
  /\ sessions = [s \in Sids |-> IF s = 1 THEN peers[Connected] ELSE 0]
  /\ gen = 1 /\ expired = FALSE /\ hs1 = [i \in Ids |-> 0]
  /\ ctl = Idle /\ snd = SendIdle /\ rdr = ReadIdle /\ kil = KeepIdle
  /\ calls = [i \in Ids |-> 0] /\ conn = [o \in Objs |-> NoConn]
  /\ loops = [o \in Objs |-> NoLoops]
  /\ inq = <<>> /\ wrk = WorkIdle /\ up = <<>> /\ ops = 0

Next == MembershipNext \/ SessionNext \/ DataNext \/ RemoveSession
Spec == Init /\ [][Next]_vars

-----------------------------------------------------------------------------
(* "An address is never routed using a peer record from a different         *)
(* generation of the snapshot" (apply_snapshot): the address leads to a     *)
(* member of the table whose record has it.                                 *)
RoutesMatchRecords ==
  \A a \in Addrs :
    routes[a] # None => peers[routes[a]] # 0 /\ obj[peers[routes[a]]].info.addr = a

(* A live session is one with a member of the table, under the incarnation  *)
(* and the address of its current record, however snapshots, lookups and    *)
(* handshakes interleave. The exceptions are the sessions whose handshake   *)
(* ended between invalidate_session and update_info, or for a PeerState     *)
(* that had already left the table.                                         *)
SessionsOfMembers ==
  \A o \in Objs :
    LET s == obj[o].active IN
      (s # NoSession /\ ~s.odd) =>
        /\ s.info.inc = obj[o].info.inc /\ s.info.addr = obj[o].info.addr
        /\ InTable(o) \/ o \in ctl.drops

(* The index finds every live session as soon as establish has stored it,   *)
(* whatever other tasks remove. The exception is a session re-established   *)
(* under the id of one that a task had just taken and was yet to remove     *)
(* from the index: remove_session compares peer and id and takes the new    *)
(* entry for the old one; packets do not reach that session.                *)
SessionsIndexed ==
  \A o \in Objs :
    LET s == obj[o].active IN
      (s # NoSession /\ ~s.again /\ ~(rdr.o = o /\ rdr.pc = "index")) => sessions[s.sid] = o

(* Once a session is up and its flush is over, nothing waits in the queue.  *)
(* The exceptions: a packet whose sender had seen no session and queued it  *)
(* after the flush, and what is left behind a packet whose send failed.     *)
QueueDrains ==
  \A o \in Objs :
    (obj[o].active # NoSession /\ rdr.o # o /\ ~obj[o].broke) =>
      \A k \in DOMAIN obj[o].queue : obj[o].queue[k].late

(* What reaches the runtime is in the order of arrival and without a        *)
(* repetition, though decrypt workers finish in any order and sessions are  *)
(* replaced between lookup and commit.                                      *)
InOrder ==
  \A j, k \in DOMAIN up :
    j < k => up[j].at < up[k].at /\ <<up[j].sid, up[j].n>> # <<up[k].sid, up[k].n>>
=============================================================================
