------------------------------- MODULE PeerUp -------------------------------
(***************************************************************************)
(* `vela-cli peer up`: a supervisor opens the runtime of a peer under the  *)
(* lock of the state directory, keeps the host routes of the TUN interface *)
(* equal to the members of the snapshots the runtime publishes, and opens  *)
(* the runtime again when it ends. The leases outlive the runtime.         *)
(*                                                                         *)
(* One process; the coordinator is the membership `member`, which a        *)
(* runtime publishes with some delay. The doubling restart delay is the    *)
(* time between two steps and not kept. Faults (of the kernel, the TUN     *)
(* device, the network or the runtime) are bounded by MaxFaults.           *)
(***************************************************************************)
EXTENDS RouteLeases

CONSTANTS MaxFaults,   \* faults in a behaviour
          MaxChanges,  \* changes of the membership
          MaxPresses   \* times the user presses ctrl-C

ASSUME PeerUpAssumption ==
  MaxFaults \in Nat /\ MaxChanges \in Nat /\ MaxPresses \in Nat

VARIABLES pc,        \* where the supervisor is
          who,       \* the function it is in: run_peer_up, the restart loop
                     \* of run_tun_peer or run_tun_peer_once
          after,     \* where it goes once the runtime has ended
          desired,   \* addresses of the snapshot being applied
          rt,        \* the runtime task
          attended,  \* the supervisor holds the runtime's handle
          stop,      \* RuntimeHandle::stop left its permit
          snap,      \* snapshot in the runtime's watch channel
          fresh,     \* the supervisor has not seen it
          lock,      \* the state directory is locked
          endpoint,  \* control.json exists
          member,    \* addresses of the members at the coordinator
          sig,       \* ctrl-C: none, pending for a listener, or lost
          polled,    \* the ctrl-C future of run_tun_peer_once was polled
          faults, changes, presses  \* so far

task == <<rt, stop, snap, lock, endpoint>>
listener == <<sig, polled>>
env  == <<member, changes, presses>>
vars == <<routes, pc, who, after, desired, attended, fresh, listener, faults, task, env>>

Fault == faults < MaxFaults /\ faults' = faults + 1

Init ==
  /\ RoutesInit
  /\ pc = "open" /\ who = "boot" /\ after = "wait" /\ desired = {}
  /\ rt = "none" /\ attended = FALSE /\ stop = FALSE
  /\ member \in SUBSET Addrs
  /\ snap = {} /\ fresh = FALSE
  /\ lock = FALSE /\ endpoint = FALSE
  /\ sig = "none" /\ polled = FALSE
  /\ faults = 0 /\ changes = 0 /\ presses = 0

-----------------------------------------------------------------------------
(* ctrl-C. tokio::signal::ctrl_c() listens from its first poll on: a press  *)
(* is kept for the future that was polled, and a future dropped before it   *)
(* was asked again takes the press with it. Before the first listener a     *)
(* press ends the process, which is not modelled.                           *)

Listens ==
  \/ pc = "wait"
  \/ polled /\ pc \in {"select", "apply", "claim", "drop"}

Press ==
  /\ presses < MaxPresses /\ who # "boot" /\ sig # "pending" /\ pc # "exited"
  /\ presses' = presses + 1
  /\ sig' = IF Listens THEN "pending" ELSE "lost"
  /\ UNCHANGED <<routes, pc, who, after, desired, attended, fresh, polled, faults, task, member, changes>>

\* The future is dropped.
NotHeard == /\ sig' = IF sig = "pending" THEN "lost" ELSE sig
            /\ polled' = FALSE

-----------------------------------------------------------------------------
(* Opening the runtime *)

\* run_peer_up gives up; the restart loop waits and tries again.
Refused == pc' = IF who = "boot" THEN "done" ELSE "wait"

Acquire ==
  /\ pc = "open" /\ ~lock
  /\ lock' = TRUE /\ pc' = "opening"
  /\ UNCHANGED <<routes, who, after, desired, attended, fresh, listener, faults, env, rt, stop, snap, endpoint>>

AlreadyRunning ==
  /\ pc = "open" /\ lock
  /\ Refused
  /\ UNCHANGED <<routes, who, after, desired, attended, fresh, listener, faults, task, env>>

OpenFails ==
  /\ pc = "opening" /\ Fault
  /\ lock' = FALSE /\ Refused
  /\ UNCHANGED <<routes, who, after, desired, attended, fresh, listener, env, rt, stop, snap, endpoint>>

\* The control server writes control.json and keeps the lock until it has
\* removed the file again.
ControlUp   == endpoint' = TRUE /\ UNCHANGED lock
ControlDown == endpoint' = FALSE /\ lock' = FALSE

\* The peer registers, gets a snapshot and starts its node; the runtime task is
\* spawned.
Opened ==
  /\ pc = "opening"
  /\ rt' = "up" /\ stop' = FALSE /\ attended' = TRUE
  /\ snap' = member /\ fresh' = FALSE
  /\ ControlUp
  /\ pc' = IF who = "boot" THEN "setup" ELSE "apply"
  /\ UNCHANGED <<routes, who, after, desired, listener, faults, env>>

\* The TUN device, the route manager and the first MTU.
Setup ==
  /\ pc = "setup" /\ pc' = "apply"
  /\ UNCHANGED <<routes, who, after, desired, attended, fresh, listener, faults, task, env>>

SetupFails ==
  /\ pc = "setup" /\ Fault
  /\ pc' = "stop" /\ after' = "done"
  /\ UNCHANGED <<routes, who, desired, attended, fresh, listener, task, env>>

-----------------------------------------------------------------------------
(* apply_tun_snapshot *)

ApplyFailed ==
  /\ pc' = IF who = "boot" THEN "free" ELSE "stop"
  /\ after' = IF who = "boot" THEN "done" ELSE "wait"
  /\ NotHeard

ApplyBegins ==
  /\ pc = "apply"
  /\ desired' = snap /\ pc' = "claim"
  /\ UNCHANGED <<routes, who, after, attended, fresh, listener, faults, task, env>>

\* The snapshot is refused, or a local address cannot be added.
ApplyRefused ==
  /\ pc = "apply" /\ Fault
  /\ ApplyFailed
  /\ UNCHANGED <<routes, who, desired, attended, fresh, task, env>>

Claim(a) ==
  /\ pc = "claim" /\ a \in desired \ leases
  /\ Claimed(a)
  /\ UNCHANGED <<pc, who, after, desired, attended, fresh, listener, faults, task, env>>

ClaimExists(a) ==
  /\ pc = "claim" /\ a \in desired \ leases
  /\ a \in kernel /\ ClaimFails(a)
  /\ ApplyFailed
  /\ UNCHANGED <<who, desired, attended, fresh, faults, task, env>>

ClaimRefused(a) ==
  /\ pc = "claim" /\ a \in desired \ leases
  /\ Fault /\ ClaimFails(a)
  /\ ApplyFailed
  /\ UNCHANGED <<who, desired, attended, fresh, task, env>>

ClaimsDone ==
  /\ pc = "claim" /\ desired \subseteq leases
  /\ pc' = "drop"
  /\ UNCHANGED <<routes, who, after, desired, attended, fresh, listener, faults, task, env>>

\* A release that fails is not an error of the application.
Drop(a) ==
  /\ pc = "drop" /\ a \in leases \ desired
  /\ LeaseReleased(a) \/ LeaseMissing(a)
  /\ UNCHANGED <<pc, who, after, desired, attended, fresh, listener, faults, task, env>>

DropFails(a) ==
  /\ pc = "drop" /\ a \in leases \ desired
  /\ Fault /\ LeaseFails(a)
  /\ UNCHANGED <<pc, who, after, desired, attended, fresh, listener, task, env>>

\* A restart that takes the snapshot it applied to be the latest one.
ApplyDoneSeen ==
  /\ pc = "drop" /\ leases \subseteq desired
  /\ pc' = IF who = "once" THEN "select" ELSE "entry"
  /\ who' = "once" /\ desired' = {} /\ fresh' = FALSE
  /\ UNCHANGED <<routes, after, attended, listener, faults, task, env>>

\* The supervisor goes back to its select, or into run_tun_peer_once.
ApplyDone ==
  /\ pc = "drop" /\ leases \subseteq desired
  /\ pc' = IF who = "once" THEN "select" ELSE "entry"
  /\ who' = "once" /\ desired' = {}
  /\ UNCHANGED <<routes, after, attended, fresh, listener, faults, task, env>>

-----------------------------------------------------------------------------
(* run_tun_peer_once *)

Entry ==
  /\ pc = "entry" /\ pc' = "select"
  /\ UNCHANGED <<routes, who, after, desired, attended, fresh, listener, faults, task, env>>

\* set_mtu fails before anything waits for the runtime: the handle and the
\* task are dropped, the runtime goes on.
EntryFails ==
  /\ pc = "entry" /\ Fault
  /\ attended' = FALSE /\ fresh' = FALSE
  /\ pc' = "wait"
  /\ UNCHANGED <<routes, who, after, desired, listener, task, env>>

\* select! polls its branches in a random order and stops at one that is
\* ready, so others may come before the first poll of ctrl-C.
Polls ==
  /\ pc = "select" /\ ~polled /\ polled' = TRUE
  /\ UNCHANGED <<routes, pc, who, after, desired, attended, fresh, sig, faults, task, env>>

SeesSnapshot ==
  /\ pc = "select" /\ fresh
  /\ fresh' = FALSE /\ pc' = "apply"
  /\ UNCHANGED <<routes, who, after, desired, attended, listener, faults, task, env>>

\* The task's result, or one of its channels closed.
SeesRuntimeEnd ==
  /\ pc = "select" /\ rt = "none"
  /\ pc' = "wait" /\ attended' = FALSE /\ fresh' = FALSE /\ NotHeard
  /\ UNCHANGED <<routes, who, after, desired, faults, task, env>>

\* The TUN device fails to read, write or take a new MTU.
TunFails ==
  /\ pc = "select" /\ Fault
  /\ pc' = "stop" /\ after' = "wait" /\ NotHeard
  /\ UNCHANGED <<routes, who, desired, attended, fresh, task, env>>

CtrlC ==
  /\ pc = "select" /\ sig = "pending"
  /\ pc' = "stop" /\ after' = "free"
  /\ UNCHANGED <<routes, who, desired, attended, fresh, listener, faults, task, env>>


\* handle.stop()
Stop ==
  /\ pc = "stop"
  /\ stop' = TRUE /\ pc' = "join"
  /\ UNCHANGED <<routes, who, after, desired, attended, fresh, listener, faults, env, rt, snap, lock, endpoint>>

Joined ==
  /\ pc = "join" /\ rt = "none"
  /\ pc' = after /\ attended' = FALSE /\ fresh' = FALSE
  /\ desired' = {}
  /\ UNCHANGED <<routes, who, after, listener, faults, task, env>>

-----------------------------------------------------------------------------
(* run_tun_peer and the end of the process *)

Timer ==
  /\ pc = "wait"
  /\ pc' = "open" /\ who' = "retry" /\ NotHeard
  /\ UNCHANGED <<routes, after, desired, attended, fresh, faults, task, env>>

CtrlCWaiting ==
  /\ pc = "wait" /\ sig = "pending"
  /\ pc' = "free"
  /\ UNCHANGED <<routes, who, after, desired, attended, fresh, listener, faults, task, env>>

FreeOne(a) ==
  /\ pc = "free" /\ a \in leases
  /\ LeaseReleased(a) \/ LeaseMissing(a)
  /\ UNCHANGED <<pc, who, after, desired, attended, fresh, listener, faults, task, env>>

FreeFails(a) ==
  /\ pc = "free" /\ a \in leases
  /\ Fault /\ LeaseFails(a)
  /\ UNCHANGED <<pc, who, after, desired, attended, fresh, listener, task, env>>

FreeTimeout ==
  /\ pc = "free"
  /\ Fault /\ LeasesDropped
  /\ UNCHANGED <<pc, who, after, desired, attended, fresh, listener, task, env>>

\* run_peer_up stops the runtime after releasing the routes, run_tun_peer
\* before.
Freed ==
  /\ pc = "free" /\ leases = {}
  /\ pc' = IF who = "boot" THEN "stop" ELSE "done"
  /\ UNCHANGED <<routes, who, after, desired, attended, fresh, listener, faults, task, env>>

\* The Tokio runtime drops the tasks left; the control server of a runtime
\* among them removes control.json.
Exit ==
  /\ pc = "done" /\ pc' = "exited"
  /\ RoutesGone
  /\ rt' = "none" /\ ControlDown
  /\ UNCHANGED <<who, after, desired, attended, fresh, listener, faults, env, stop, snap>>

-----------------------------------------------------------------------------
(* The runtime task and its surroundings *)

sup == <<pc, who, after, desired, attended, listener>>

MemberChanges ==
  /\ changes < MaxChanges /\ pc # "exited"
  /\ member' \in SUBSET Addrs \ {member}
  /\ changes' = changes + 1
  /\ UNCHANGED <<routes, sup, fresh, faults, task, presses>>

\* A dropped receiver does not keep the runtime from publishing.
Publishes ==
  /\ rt = "up" /\ snap # member
  /\ snap' = member /\ fresh' = attended
  /\ UNCHANGED <<routes, sup, faults, env, rt, stop, lock, endpoint>>

RuntimeFails ==
  /\ rt = "up" /\ Fault
  /\ rt' = "closing"
  /\ UNCHANGED <<routes, sup, fresh, env, stop, snap, lock, endpoint>>

RuntimeStops ==
  /\ rt = "up" /\ stop
  /\ rt' = "closing" /\ stop' = FALSE
  /\ UNCHANGED <<routes, sup, fresh, faults, env, snap, lock, endpoint>>

\* A packet for the dropped receiver ends the runtime.
PacketForNobody ==
  /\ rt = "up" /\ ~attended
  /\ rt' = "closing"
  /\ UNCHANGED <<routes, sup, fresh, faults, env, stop, snap, lock, endpoint>>

\* The node is shut down, control.json removed and the lock released.
RuntimeEnds ==
  /\ rt = "closing"
  /\ rt' = "none" /\ stop' = FALSE
  /\ ControlDown
  /\ UNCHANGED <<routes, sup, fresh, faults, env, snap>>

Spawned(a) ==
  /\ SpawnedRelease(a)
  /\ UNCHANGED <<sup, fresh, faults, task, env>>

SpawnedFails(a) ==
  /\ Fault /\ SpawnedReleaseFails(a)
  /\ UNCHANGED <<sup, fresh, task, env>>

-----------------------------------------------------------------------------
(* Specification *)

SupervisorStep ==
  \/ Acquire \/ AlreadyRunning \/ Opened \/ Setup
  \/ ApplyBegins \/ ClaimsDone \/ ApplyDone
  \/ \E a \in Addrs : Claim(a) \/ ClaimExists(a) \/ Drop(a) \/ FreeOne(a)
  \/ Entry \/ Polls \/ SeesSnapshot \/ SeesRuntimeEnd
  \/ Stop \/ Joined \/ Timer \/ Freed \/ Exit

SupervisorFaults ==
  \/ OpenFails \/ SetupFails \/ ApplyRefused \/ EntryFails \/ TunFails \/ FreeTimeout
  \/ \E a \in Addrs : ClaimRefused(a) \/ DropFails(a) \/ FreeFails(a)

RuntimeStep == Publishes \/ RuntimeStops \/ RuntimeEnds

Surroundings ==
  \/ Press \/ MemberChanges \/ RuntimeFails \/ PacketForNobody
  \/ \E a \in Addrs : SpawnedFails(a)

Next ==
  \/ SupervisorStep \/ CtrlC \/ CtrlCWaiting \/ SupervisorFaults
  \/ RuntimeStep \/ (\E a \in Addrs : Spawned(a))
  \/ Surroundings

\* Tokio runs every ready task; select! picks among its ready branches at
\* random. Nothing is assumed of faults, of the user, of packets or of when
\* the runtime publishes.
Fairness ==
  /\ WF_vars(SupervisorStep) /\ WF_vars(CtrlC)
  /\ WF_vars(RuntimeStops) /\ WF_vars(RuntimeEnds)
  /\ \A a \in Addrs : WF_vars(Spawned(a))

Spec == Init /\ [][Next]_vars /\ Fairness

-----------------------------------------------------------------------------
(* Properties *)

\* A lease stands for a route: the manager counts it once and the kernel has
\* the route, over claims that fail half-way, restarts and releases that run
\* late. The one exception is a lease claimed while the release that Drop
\* spawned for an earlier lease of the address was waiting, and taken away by
\* it. An address counted without a lease is still to be released.
LeasesRouted ==
  \A a \in Addrs :
    /\ a \in leases \ crossed => owned[a] = 1 /\ a \in kernel
    /\ owned[a] > 0 => a \in leases \/ pending[a] > 0

\* The routes follow the snapshots over any restarts: once faults and changes
\* end, the interface has a host route for exactly the members of the snapshot
\* the runtime published last, or the process has ended. Three situations are
\* known to last: a runtime nobody attends keeps the state locked, a late
\* release took a leased route, or a route whose deletions failed makes every
\* claim of its address fail.
RoutesConverge ==
  <>[](\/ pc = "exited" \/ kernel = snap
       \/ rt # "none" /\ ~attended
       \/ crossed # {} \/ Stray # {})

=============================================================================
