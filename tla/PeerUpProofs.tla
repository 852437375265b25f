---------------------------- MODULE PeerUpProofs ----------------------------
(***************************************************************************)
(* LeasesRouted of PeerUp for any set of addresses and any number of       *)
(* faults, membership changes and restarts.                                *)
(*                                                                         *)
(* LeasesRouted is not inductive: a claim of an address the manager still  *)
(* counts would count it twice. What excludes it is that an address is     *)
(* counted without a lease only after the leases were dropped on the way   *)
(* out (Ending), and that no way leads from there back to a claim          *)
(* (Control).                                                              *)
(***************************************************************************)
EXTENDS PeerUp, TLAPS

Types ==
  /\ owned \in [Addrs -> 0..1] /\ pending \in [Addrs -> Nat]
  /\ leases \subseteq Addrs /\ crossed \subseteq leases

\* Which function the supervisor is in at each place.
Control ==
  /\ after \in {"wait", "free", "done"}
  /\ pc = "setup" => who = "boot"
  /\ pc \in {"wait", "entry", "select"} => who # "boot"
  /\ pc \in {"stop", "join"} => (after = "done" <=> who = "boot")
  /\ pc = "free" /\ who = "boot" => after = "done"

Ending ==
  \/ pc \in {"free", "done", "exited"}
  \/ pc \in {"stop", "join"} /\ who = "boot"

CountedLeased == \A a \in Addrs : owned[a] > 0 /\ ~Ending => a \in leases

Inv == Types /\ Control /\ LeasesRouted /\ CountedLeased

\* Claiming an address the manager does not count gives a lease with a route
\* (claim_host_route).
LEMMA ClaimedStep ==
  ASSUME NEW a \in Addrs, Types, LeasesRouted, CountedLeased, ~Ending,
         a \notin leases, Claimed(a)
  PROVE  Types' /\ LeasesRouted' /\ (\A b \in Addrs : owned'[b] > 0 => owned[b] > 0 \/ b = a)
         /\ a \in leases' /\ leases \subseteq leases'
<1>1. owned[a] = 0
  BY DEF CountedLeased, Types
<1>2. /\ owned' = [owned EXCEPT ![a] = 1]
      /\ kernel' = kernel \cup {a} /\ leases' = leases \cup {a}
      /\ pending' = pending /\ crossed' = crossed
  BY <1>1 DEF Claimed, Types
<1>3. Types'
  BY <1>2 DEF Types
<1>4. LeasesRouted'
  BY <1>1, <1>2 DEF Types, LeasesRouted
<1> QED
  BY <1>2, <1>3, <1>4 DEF Types

\* Whatever the kernel answers, a release removes the last count and touches no
\* other address (RouteManager::release).
LEMMA ReleaseStep ==
  ASSUME NEW a \in Addrs, Types,
         ReleaseOk(a) \/ ReleaseMissing(a) \/ ReleaseFails(a)
  PROVE  /\ owned' = [owned EXCEPT ![a] = 0]
         /\ \A b \in Addrs : b # a => (b \in kernel' <=> b \in kernel)
<1>1. owned[a] \in 0..1
  BY DEF Types
<1>2. owned[a] <= 1 /\ ~(owned[a] > 1)
  BY <1>1
<1>3. ReleasedCount(a) = [owned EXCEPT ![a] = 0]
  BY <1>2, Zenon DEF ReleasedCount
<1> QED
  BY <1>2, <1>3 DEF ReleaseOk, ReleaseMissing, ReleaseFails, Deletes

\* A lease given up is no longer counted; a failed release leaves one more
\* release to run (RouteLease::release and Drop).
LEMMA LeaseStep ==
  ASSUME NEW a \in Addrs, Types, LeasesRouted, a \in leases,
         LeaseReleased(a) \/ LeaseMissing(a) \/ LeaseFails(a)
  PROVE  /\ Types' /\ LeasesRouted'
         /\ owned' = [owned EXCEPT ![a] = 0] /\ leases' = leases \ {a}
<1>1. /\ leases' = leases \ {a} /\ crossed' = crossed \ {a}
      /\ ReleaseOk(a) \/ ReleaseMissing(a) \/ ReleaseFails(a)
      /\ pending' = pending \/ pending' = Dropped({a})
  BY DEF LeaseReleased, LeaseMissing, LeaseFails, GiveUp
<1>2. /\ owned' = [owned EXCEPT ![a] = 0]
      /\ \A b \in Addrs : b # a => (b \in kernel' <=> b \in kernel)
  BY <1>1, ReleaseStep
<1>3. /\ pending' \in [Addrs -> Nat]
      /\ \A b \in Addrs : pending'[b] >= pending[b]
  <2>1. CASE pending' = pending
    BY <2>1 DEF Types
  <2>2. CASE pending' = Dropped({a})
    BY <2>2 DEF Dropped, Types
  <2> QED
    BY <1>1, <2>1, <2>2
<1>4. Types'
  <2>1. owned' \in [Addrs -> 0..1]
    BY <1>2 DEF Types
  <2>2. leases' \subseteq Addrs /\ crossed' \subseteq leases'
    BY <1>1 DEF Types
  <2> QED
    BY <2>1, <2>2, <1>3 DEF Types
<1>5. LeasesRouted'
  <2> SUFFICES ASSUME NEW b \in Addrs
               PROVE  /\ b \in leases' \ crossed' => owned'[b] = 1 /\ b \in kernel'
                      /\ owned'[b] > 0 => b \in leases' \/ pending'[b] > 0
    BY DEF LeasesRouted
  <2>1. CASE b = a
    BY <2>1, <1>1, <1>2 DEF Types
  <2>2. CASE b # a
    <3>1. owned'[b] = owned[b] /\ (b \in kernel' <=> b \in kernel)
      BY <2>2, <1>2 DEF Types
    <3>2. pending'[b] >= pending[b] /\ pending[b] \in Nat /\ pending'[b] \in Nat
      BY <1>3 DEF Types
    <3> QED
      BY <2>2, <3>1, <3>2, <1>1 DEF LeasesRouted
  <2> QED
    BY <2>1, <2>2
<1> QED
  BY <1>1, <1>2, <1>4, <1>5

\* A spawned release uncounts its address; if the address is leased again, that
\* lease becomes the exception (Drop for RouteLease).
LEMMA SpawnedStep ==
  ASSUME NEW a \in Addrs, Types, LeasesRouted,
         SpawnedRelease(a) \/ SpawnedReleaseFails(a)
  PROVE  /\ Types' /\ LeasesRouted'
         /\ owned' = [owned EXCEPT ![a] = 0] /\ leases' = leases
<1>1. /\ leases' = leases /\ crossed' = crossed \cup ({a} \cap leases)
      /\ ReleaseOk(a) \/ ReleaseMissing(a) \/ ReleaseFails(a)
      /\ pending[a] > 0 /\ pending' = [pending EXCEPT ![a] = @ - 1]
  BY DEF SpawnedRelease, SpawnedReleaseFails
<1>2. /\ owned' = [owned EXCEPT ![a] = 0]
      /\ \A b \in Addrs : b # a => (b \in kernel' <=> b \in kernel)
  BY <1>1, ReleaseStep
<1>3. /\ pending' \in [Addrs -> Nat]
      /\ \A b \in Addrs : b # a => pending'[b] = pending[b]
  BY <1>1 DEF Types
<1>4. Types'
  BY <1>1, <1>2, <1>3 DEF Types
<1>5. LeasesRouted'
  BY <1>1, <1>2, <1>3 DEF Types, LeasesRouted
<1> QED
  BY <1>1, <1>2, <1>4, <1>5

\* Leases dropped on a timeout leave a release to run for every counted address
\* (release_route_leases).
LEMMA DroppedStep ==
  ASSUME Types, LeasesRouted, LeasesDropped
  PROVE  Types' /\ LeasesRouted'
<1>1. /\ leases' = {} /\ crossed' = {} /\ owned' = owned
      /\ pending' = Dropped(leases)
  BY DEF LeasesDropped
<1>2. /\ pending' \in [Addrs -> Nat]
      /\ \A b \in Addrs : pending'[b] >= pending[b] /\ (b \in leases => pending'[b] > 0)
  BY <1>1 DEF Dropped, Types
<1>3. Types'
  BY <1>1, <1>2 DEF Types
<1>4. LeasesRouted'
  BY <1>1, <1>2 DEF Types, LeasesRouted
<1> QED
  BY <1>3, <1>4

\* The steps that leave the routes alone keep what is said of them.
LEMMA RoutesKept ==
  ASSUME Types, LeasesRouted, UNCHANGED routes
  PROVE  Types' /\ LeasesRouted'
BY DEF Types, LeasesRouted, routes

QuietSupervisor ==
  \/ Acquire \/ AlreadyRunning \/ OpenFails \/ Opened \/ Setup
  \/ SetupFails \/ ApplyBegins \/ ApplyRefused \/ ClaimsDone \/ ApplyDone
  \/ Entry \/ EntryFails \/ Polls \/ SeesSnapshot \/ SeesRuntimeEnd \/ TunFails
  \/ CtrlC \/ Stop \/ Joined \/ Timer \/ CtrlCWaiting \/ Freed
  \/ \E a \in Addrs : ClaimExists(a) \/ ClaimRefused(a)

QuietEnvironment ==
  \/ Press \/ MemberChanges \/ Publishes \/ RuntimeFails \/ RuntimeStops
  \/ PacketForNobody \/ RuntimeEnds

\* No step of the supervisor leads back from the way out (run_peer_up,
\* run_tun_peer, run_tun_peer_once).
LEMMA SupervisorQuiet ==
  ASSUME Control, QuietSupervisor
  PROVE  UNCHANGED routes /\ Control' /\ (Ending => Ending')
<1>1. CASE Acquire
  BY <1>1 DEF Acquire, Control, Ending
<1>2. CASE AlreadyRunning
  BY <1>2 DEF AlreadyRunning, Refused, Control, Ending
<1>3. CASE OpenFails
  BY <1>3 DEF OpenFails, Refused, Control, Ending
<1>4. CASE Opened
  BY <1>4 DEF Opened, Control, Ending
<1>5. CASE Setup
  BY <1>5 DEF Setup, Control, Ending
<1>6. CASE SetupFails
  BY <1>6 DEF SetupFails, Control, Ending
<1>7. CASE ApplyBegins
  BY <1>7 DEF ApplyBegins, Control, Ending
<1>8. CASE ApplyRefused
  BY <1>8 DEF ApplyRefused, ApplyFailed, Control, Ending
<1>9. CASE ClaimsDone
  BY <1>9 DEF ClaimsDone, Control, Ending
<1>10. CASE ApplyDone
  BY <1>10 DEF ApplyDone, Control, Ending
<1>11. CASE Entry
  BY <1>11 DEF Entry, Control, Ending
<1>12. CASE EntryFails
  BY <1>12 DEF EntryFails, Control, Ending
<1>13. CASE SeesSnapshot
  BY <1>13 DEF SeesSnapshot, Control, Ending
<1>14. CASE SeesRuntimeEnd
  BY <1>14 DEF SeesRuntimeEnd, Control, Ending
<1>15. CASE TunFails
  BY <1>15 DEF TunFails, Control, Ending
<1>16. CASE CtrlC
  BY <1>16 DEF CtrlC, Control, Ending
<1>17. CASE Stop
  BY <1>17 DEF Stop, Control, Ending
<1>18. CASE Joined
  BY <1>18 DEF Joined, Control, Ending
<1>19. CASE Timer
  BY <1>19 DEF Timer, Control, Ending
<1>20. CASE CtrlCWaiting
  BY <1>20 DEF CtrlCWaiting, Control, Ending
<1>21. CASE Freed
  BY <1>21 DEF Freed, Control, Ending
<1>22. CASE Polls
  BY <1>22 DEF Polls, Control, Ending
<1>23. ASSUME NEW a \in Addrs, ClaimExists(a) \/ ClaimRefused(a)
      PROVE  UNCHANGED routes /\ Control' /\ (Ending => Ending')
  BY <1>23 DEF ClaimExists, ClaimRefused, ClaimFails, ApplyFailed, Control, Ending
<1> QED
  BY <1>1, <1>2, <1>3, <1>4, <1>5, <1>6, <1>7, <1>8, <1>9, <1>10, <1>11, <1>12, <1>13, <1>14, <1>15, <1>16, <1>17, <1>18, <1>19, <1>20, <1>21, <1>22, <1>23 DEF QuietSupervisor

\* The steps of the runtime and of the surroundings leave the supervisor where
\* it is.
LEMMA EnvironmentQuiet ==
  ASSUME Control, QuietEnvironment
  PROVE  UNCHANGED routes /\ Control' /\ (Ending => Ending')
<1>1. UNCHANGED <<routes, pc, who, after>>
  BY DEF QuietEnvironment, Press, MemberChanges, Publishes, RuntimeFails, RuntimeStops, PacketForNobody, RuntimeEnds, sup
<1> QED
  BY <1>1 DEF Control, Ending

\* LeasesRouted and what it rests on hold initially.
LEMMA InvInit == Init => Inv
BY DEF Init, RoutesInit, Inv, Types, Control, LeasesRouted, CountedLeased, Ending

\* Every step keeps the invariant.
LEMMA InvStep == Inv /\ [Next]_vars => Inv'
<1> SUFFICES ASSUME Inv, [Next]_vars PROVE Inv'
  OBVIOUS
<1> USE DEF Inv
<1>1. ASSUME UNCHANGED routes, Control', Ending => Ending' PROVE Inv'
  <2>1. Types' /\ LeasesRouted'
    BY <1>1, RoutesKept
  <2>2. CountedLeased'
    BY <1>1 DEF CountedLeased, routes
  <2> QED
    BY <1>1, <2>1, <2>2
<1>2. CASE QuietSupervisor
  BY <1>1, <1>2, SupervisorQuiet
<1>3. CASE QuietEnvironment
  BY <1>1, <1>3, EnvironmentQuiet
<1>4. ASSUME NEW a \in Addrs, Claim(a) PROVE Inv'
  <2>1. Claimed(a) /\ a \notin leases /\ pc = "claim" /\ UNCHANGED <<pc, who, after>>
    BY <1>4 DEF Claim
  <2>2. ~Ending /\ Control'
    BY <2>1 DEF Ending, Control
  <2>3. /\ Types' /\ LeasesRouted' /\ a \in leases' /\ leases \subseteq leases'
        /\ \A b \in Addrs : owned'[b] > 0 => owned[b] > 0 \/ b = a
    BY <2>1, <2>2, ClaimedStep
  <2>4. CountedLeased'
    BY <2>2, <2>3 DEF CountedLeased
  <2> QED
    BY <2>2, <2>3, <2>4
<1>5. ASSUME NEW a \in Addrs, Drop(a) \/ DropFails(a) \/ FreeOne(a) \/ FreeFails(a) PROVE Inv'
  <2>1. /\ a \in leases /\ UNCHANGED <<pc, who, after>>
        /\ LeaseReleased(a) \/ LeaseMissing(a) \/ LeaseFails(a)
    BY <1>5 DEF Drop, DropFails, FreeOne, FreeFails
  <2>2. Types' /\ LeasesRouted' /\ owned' = [owned EXCEPT ![a] = 0] /\ leases' = leases \ {a}
    BY <2>1, LeaseStep
  <2>3. Control' /\ (Ending => Ending')
    BY <2>1 DEF Control, Ending
  <2>4. CountedLeased'
    BY <2>2, <2>3 DEF CountedLeased, Types
  <2> QED
    BY <2>2, <2>3, <2>4
<1>6. ASSUME NEW a \in Addrs, Spawned(a) \/ SpawnedFails(a) PROVE Inv'
  <2>1. /\ UNCHANGED <<pc, who, after>>
        /\ SpawnedRelease(a) \/ SpawnedReleaseFails(a)
    BY <1>6 DEF Spawned, SpawnedFails, sup
  <2>2. Types' /\ LeasesRouted' /\ owned' = [owned EXCEPT ![a] = 0] /\ leases' = leases
    BY <2>1, SpawnedStep
  <2>3. Control' /\ (Ending => Ending')
    BY <2>1 DEF Control, Ending
  <2>4. CountedLeased'
    BY <2>2, <2>3 DEF CountedLeased, Types
  <2> QED
    BY <2>2, <2>3, <2>4
<1>7. CASE FreeTimeout
  <2>1. LeasesDropped /\ pc = "free" /\ UNCHANGED <<pc, who, after>>
    BY <1>7 DEF FreeTimeout
  <2>2. Control' /\ Ending'
    BY <2>1 DEF Control, Ending
  <2>3. Types' /\ LeasesRouted'
    BY <2>1, DroppedStep
  <2> QED
    BY <2>2, <2>3 DEF CountedLeased
<1>8. CASE Exit
  <2>1. RoutesGone /\ pc' = "exited" /\ UNCHANGED <<who, after>>
    BY <1>8 DEF Exit
  <2>2. Control' /\ Ending'
    BY <2>1 DEF Control, Ending
  <2>3. Types' /\ LeasesRouted'
    BY <2>1 DEF RoutesGone, Types, LeasesRouted
  <2> QED
    BY <2>2, <2>3 DEF CountedLeased
<1>9. CASE UNCHANGED vars
  <2>1. UNCHANGED <<routes, pc, who, after>>
    BY <1>9 DEF vars
  <2> QED
    BY <2>1, <1>1 DEF Control, Ending
<1> QED
  BY <1>2, <1>3, <1>4, <1>5, <1>6, <1>7, <1>8, <1>9, Zenon
     DEF Next, SupervisorStep, SupervisorFaults, RuntimeStep, Surroundings,
         QuietSupervisor, QuietEnvironment

\* The leases of the supervisor stand for routes, for any membership and any
\* number of faults and restarts (claim_host_route, RouteLease, run_tun_peer).
THEOREM LeasesStandForRoutes == Spec => []LeasesRouted
<1>1. Inv => LeasesRouted
  BY DEF Inv
<1> QED
  BY <1>1, InvInit, InvStep, PTL DEF Spec
=============================================================================
