---------------------------- MODULE RouteLeases -----------------------------
(***************************************************************************)
(* The host routes of a TUN interface (vela-tun, Linux): RouteManager      *)
(* counts the claims of an address under one lock, which it keeps while    *)
(* the kernel answers, so a claim or a release is one step. A RouteLease   *)
(* dropped before its release succeeded spawns another release of its      *)
(* address, which runs whenever the scheduler gets to it.                  *)
(*                                                                         *)
(* The kernel is external: adding a route that is there fails, deleting    *)
(* one that is not there fails, and any request may fail otherwise, a      *)
(* deletion before or after it took effect.                                *)
(***************************************************************************)
EXTENDS Integers, FiniteSets

CONSTANT Addrs        \* virtual addresses of the other members

VARIABLES owned,      \* RouteManager::owned, 0 for no entry
          kernel,     \* addresses with a host route on the interface
          leases,     \* addresses the supervisor holds a RouteLease of
          pending,    \* releases spawned by Drop that have not run
          crossed     \* leased addresses that such a release has taken away

routes == <<owned, kernel, leases, pending, crossed>>

RoutesInit ==
  /\ owned = [a \in Addrs |-> 0] /\ kernel = {}
  /\ leases = {} /\ crossed = {}
  /\ pending = [a \in Addrs |-> 0]

-----------------------------------------------------------------------------
(* RouteManager::claim_host_route *)

Claimed(a) ==
  /\ owned[a] = 0 => a \notin kernel
  /\ owned' = [owned EXCEPT ![a] = @ + 1]
  /\ kernel' = IF owned[a] = 0 THEN kernel \cup {a} ELSE kernel
  /\ leases' = leases \cup {a}
  /\ UNCHANGED <<pending, crossed>>

\* The entry inserted before the request is removed again.
ClaimFails(a) == owned[a] = 0 /\ UNCHANGED routes

-----------------------------------------------------------------------------
(* RouteManager::release *)

\* A release that keeps the count of a failed deletion.
ReleasedCountKept(a) ==
  IF a \in kernel THEN [owned EXCEPT ![a] = IF @ > 1 THEN @ - 1 ELSE 0] ELSE owned

\* The entry goes whatever the kernel answered.
ReleasedCount(a) == [owned EXCEPT ![a] = IF @ > 1 THEN @ - 1 ELSE 0]

\* The kernel is asked only for the last claim.
Deletes(a) == owned[a] <= 1

ReleaseOk(a) ==
  /\ Deletes(a) => a \in kernel
  /\ kernel' = IF Deletes(a) THEN kernel \ {a} ELSE kernel
  /\ owned' = ReleasedCount(a)

ReleaseMissing(a) ==
  /\ Deletes(a) /\ a \notin kernel
  /\ kernel' = kernel
  /\ owned' = ReleasedCount(a)

ReleaseFails(a) ==
  /\ Deletes(a)
  /\ kernel' \in {kernel, kernel \ {a}}
  /\ owned' = ReleasedCount(a)

-----------------------------------------------------------------------------
(* RouteLease *)

GiveUp(a) == leases' = leases \ {a} /\ crossed' = crossed \ {a}

Dropped(S) == [a \in Addrs |-> IF a \in S THEN pending[a] + 1 ELSE pending[a]]

\* release takes the lease; when it fails, the lease is dropped unreleased.
LeaseReleased(a) == GiveUp(a) /\ ReleaseOk(a) /\ UNCHANGED pending
LeaseMissing(a)  == GiveUp(a) /\ ReleaseMissing(a) /\ pending' = Dropped({a})
LeaseFails(a)    == GiveUp(a) /\ ReleaseFails(a) /\ pending' = Dropped({a})

\* The release a dropped lease left behind ignores its own result.
SpawnedRelease(a) ==
  /\ pending[a] > 0
  /\ pending' = [pending EXCEPT ![a] = @ - 1]
  /\ ReleaseOk(a) \/ ReleaseMissing(a)
  /\ crossed' = crossed \cup ({a} \cap leases)
  /\ UNCHANGED leases

SpawnedReleaseFails(a) ==
  /\ pending[a] > 0
  /\ pending' = [pending EXCEPT ![a] = @ - 1]
  /\ ReleaseFails(a)
  /\ crossed' = crossed \cup ({a} \cap leases)
  /\ UNCHANGED leases

\* The leases left when releasing them takes too long are dropped; the request
\* of the one being released may have reached the kernel.
LeasesDropped ==
  /\ leases # {}
  /\ kernel' \in {kernel} \cup {kernel \ {a} : a \in leases}
  /\ pending' = Dropped(leases)
  /\ leases' = {} /\ crossed' = {}
  /\ UNCHANGED owned

\* The interface goes away with the process, and its routes with it.
RoutesGone ==
  /\ owned' = [a \in Addrs |-> 0] /\ kernel' = {}
  /\ leases' = {} /\ crossed' = {}
  /\ pending' = [a \in Addrs |-> 0]

\* Routes on the interface that nobody will remove.
Stray == {a \in kernel : owned[a] = 0 /\ pending[a] = 0}
=============================================================================
