----------------------------- MODULE DataPlane ------------------------------
(***************************************************************************)
(* The receive pipeline: the read loop hands data packets to the worker of *)
(* their session, the worker looks the sessions up, has the packets        *)
(* decrypted in parts by the decrypt workers, and commits what comes back  *)
(* under the sessions' locks, after which each packet is an event for the  *)
(* runtime. Sessions come and go at every step.                            *)
(*                                                                         *)
(* A packet has the session it is of, its sequence number n, and the time  *)
(* it arrived (`at'). The replay window is the set of numbers it accepted; *)
(* module ReplayWindow is about the bitmap behind it. One worker is        *)
(* modelled: the packets of a session never use two.                       *)
(***************************************************************************)
EXTENDS PeerStore, SequencesExt

WorkIdle == [pc |-> "idle", batch |-> <<>>, ctx |-> [s \in Sids |-> 0], parts |-> <<>>,
             o |-> 0, had |-> FALSE, gone |-> 0]

SidsOf(b) == {b[k].sid : k \in DOMAIN b}
Chunks(b) == (Len(b) + PartSize - 1) \div PartSize

-----------------------------------------------------------------------------
(* read_loop: a full channel drops the packet                               *)
Dispatch(p) ==
  /\ rdr.pc = "idle"
  /\ inq' = IF Len(inq) < DataLimit THEN Append(inq, p) ELSE inq
  /\ UNCHANGED <<hs1, store, ctl, rdr, tasks, wrk, up>>

ReceiveData ==
  /\ Op("data")
  /\ \E s \in Sids :
       /\ sessions[s] # 0 \/ \E o \in Objs : obj[o].active.sid = s
       /\ Dispatch([sid |-> s, n |-> ops + 1, at |-> ops + 1])

ReceiveDuplicate ==
  /\ Op("duplicate")
  /\ \E p \in {up[k] : k \in DOMAIN up} \cup {wrk.batch[k] : k \in DOMAIN wrk.batch} :
       Dispatch([p EXCEPT !.at = ops + 1])

(* handle_data: keepalives, pings and path probes, in the read loop. A      *)
(* session that is gone leaves the index, a lapsed peer loses its session,  *)
(* and its attempt and queue after that; otherwise the answer changes       *)
(* nothing here.                                                            *)
HandleControl(s) ==
  /\ rdr.pc = "idle" /\ ~expired /\ sessions[s] # 0 /\ Op("control")
  /\ LET o == sessions[s] IN
       \/ /\ obj[o].active.sid # s
          /\ sessions' = remove_session(sessions, o, s)
          /\ UNCHANGED <<obj, rdr>>
       \/ /\ obj[o].active.sid = s /\ obj[o].lapsed
          /\ TakeSession(o)
          /\ rdr' = [rdr EXCEPT !.pc = "lapsed", !.o = o, !.gone = s]
          /\ UNCHANGED sessions
  /\ UNCHANGED <<hs1, peers, routes, gen, expired, ctl, tasks, data>>

ControlSettle ==
  /\ rdr.pc = "lapsed" /\ rdr.gone = 0
  /\ obj' = [obj EXCEPT ![rdr.o] = Settled(@, FALSE, FALSE)]
  /\ rdr' = [rdr EXCEPT !.pc = "idle", !.o = 0]
  /\ UNCHANGED <<hs1, peers, routes, sessions, gen, expired, ctl, tasks, data, ops>>

-----------------------------------------------------------------------------
(* data_loop: recv_many; past the snapshot's expiry all of it is dropped    *)
WorkerTake ==
  /\ wrk.pc = "idle" /\ inq # <<>>
  /\ inq' = <<>>
  /\ wrk' = IF expired THEN WorkIdle ELSE [WorkIdle EXCEPT !.pc = "context", !.batch = inq]
  /\ UNCHANGED <<hs1, store, ctl, rdr, tasks, up, ops>>

(* data_decrypt_context_at: the PeerState that holds the session            *)
Context(s) == IF sessions[s] # 0 /\ obj[sessions[s]].active.sid = s THEN sessions[s] ELSE 0

WorkerLapsed(s) ==
  /\ wrk.pc = "context" /\ s \in SidsOf(wrk.batch)
  /\ sessions[s] # 0 /\ obj[sessions[s]].lapsed
  /\ TakeSession(sessions[s])
  /\ wrk' = [wrk EXCEPT !.pc = "lapsed", !.o = sessions[s], !.had = Had(sessions[s]),
                        !.gone = Taken(sessions[s]),
                        !.batch = SelectSeq(@, LAMBDA p : p.sid # s)]
  /\ UNCHANGED <<hs1, peers, routes, sessions, gen, expired, ctl, rdr, tasks, inq, up, ops>>

WorkerSettle ==
  /\ wrk.pc = "lapsed" /\ wrk.gone = 0
  /\ obj' = [obj EXCEPT ![wrk.o] = Settled(@, wrk.had, TRUE)]
  /\ wrk' = [wrk EXCEPT !.pc = "context", !.o = 0, !.had = FALSE]
  /\ UNCHANGED <<hs1, peers, routes, sessions, gen, expired, ctl, rdr, tasks, inq, up, ops>>

(* queue_data_decrypt_batch: packets of no session are dropped, the rest    *)
(* goes to the decrypt workers in parts                                     *)
WorkerContext ==
  /\ wrk.pc = "context"
  /\ \A s \in SidsOf(wrk.batch) : sessions[s] # 0 => ~obj[sessions[s]].lapsed
  /\ sessions' = [s \in Sids |-> IF s \in SidsOf(wrk.batch) THEN Context(s) ELSE sessions[s]]
  /\ LET b == SelectSeq(wrk.batch, LAMBDA p : Context(p.sid) # 0) IN
       wrk' = IF b = <<>> THEN WorkIdle
              ELSE [WorkIdle EXCEPT !.pc = "decrypt", !.batch = b,
                      !.ctx = [s \in Sids |-> IF s \in SidsOf(b) THEN Context(s) ELSE 0]]
  /\ UNCHANGED <<hs1, obj, peers, routes, gen, expired, ctl, rdr, tasks, inq, up, ops>>

(* data_decrypt_loop: the parts are done in any order                       *)
DecryptPart(k) ==
  /\ wrk.pc = "decrypt"
  /\ k \in 1 .. Chunks(wrk.batch) /\ \A j \in DOMAIN wrk.parts : wrk.parts[j] # k
  /\ wrk' = [wrk EXCEPT !.parts = Append(@, k)]
  /\ UNCHANGED <<hs1, store, ctl, rdr, tasks, inq, up, ops>>

Part(k) == SubSeq(wrk.batch, (k - 1) * PartSize + 1,
                  IF k * PartSize < Len(wrk.batch) THEN k * PartSize ELSE Len(wrk.batch))

(* finish_data_decrypt awaits the parts in the order they were dispatched   *)
decrypted_as_done == FlattenSeq([j \in DOMAIN wrk.parts |-> Part(wrk.parts[j])])
decrypted == FlattenSeq([k \in DOMAIN wrk.parts |-> Part(k)])

(* commit_ip_data_batch: the session must still be the one the packet came  *)
(* for, and its window accepts each number once                             *)
Accepted(b, k) ==
  LET o == wrk.ctx[b[k].sid] IN
    /\ obj[o].active.sid = b[k].sid
    /\ b[k].n \notin obj[o].active.seen
    /\ \A j \in 1 .. (k - 1) : <<b[j].sid, b[j].n>> # <<b[k].sid, b[k].n>>

WorkerCommit ==
  /\ wrk.pc = "decrypt" /\ Len(wrk.parts) = Chunks(wrk.batch)
  /\ LET b == decrypted
         kept == {k \in DOMAIN b : Accepted(b, k)}
     IN /\ obj' = [o \in Objs |->
                     [obj[o] EXCEPT !.active.seen = @ \cup
                        {b[k].n : k \in {j \in kept : wrk.ctx[b[j].sid] = o}}]]
        /\ wrk' = [WorkIdle EXCEPT !.pc = "emit",
                     !.batch = SelectSeq(b, LAMBDA p :
                                 \E k \in kept : b[k] = p)]
  /\ UNCHANGED <<hs1, peers, routes, sessions, gen, expired, ctl, rdr, tasks, inq, up, ops>>

(* emit: the event channel takes the packet, or it is dropped: the channel  *)
(* is full, or the address is no longer a local one                         *)
WorkerEmit ==
  /\ wrk.pc = "emit"
  /\ IF wrk.batch = <<>> THEN wrk' = WorkIdle /\ UNCHANGED up
     ELSE /\ wrk' = [wrk EXCEPT !.batch = Tail(@)]
          /\ up' = Append(up, Head(wrk.batch)) \/ up' = up
  /\ UNCHANGED <<hs1, store, ctl, rdr, tasks, inq, ops>>

DataNext ==
  \/ ReceiveData \/ ReceiveDuplicate \/ WorkerTake \/ ControlSettle \/ WorkerSettle \/ WorkerContext
  \/ WorkerCommit \/ WorkerEmit
  \/ \E s \in Sids : HandleControl(s) \/ WorkerLapsed(s)
  \/ \E k \in 1 .. DataLimit : DecryptPart(k)
=============================================================================
