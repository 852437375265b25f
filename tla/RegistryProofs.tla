--------------------------- MODULE RegistryProofs ---------------------------
(***************************************************************************)
(* RestartTakesNothingBack and InviteSpent of Registry for any peers,      *)
(* connections, invites and lifetimes, over any number of restarts.        *)
(*                                                                         *)
(* The generation (GenInv): a request of the administrator is under way    *)
(* only while the server runs, and whoever is inside bump_snapshot holds   *)
(* the lock, so that nobody reads a generation ahead of the stored one.    *)
(* The invites (InviteRecorded): what happened to an invite (admission,    *)
(* download, what the list showed) is recorded in flags of its row that no *)
(* step clears, and an invite without a row has no history.                *)
(*                                                                         *)
(* Then the lemmas RegistryMapProofs builds on. That the migration of a    *)
(* start leaves no address shared is shown by induction over the peers it  *)
(* visits (MigrationSeparates); the induction itself rests on the least    *)
(* member of a set of numbers (LeastNumber, UpTo). What each step of a     *)
(* handler makes of its record is spelt out, with the fields that go       *)
(* together (Shape).                                                       *)
(***************************************************************************)
EXTENDS Registry, WellFoundedInduction, TLAPS

AdminType == [file : Nat, hash : Nat \cup {None}, expires : Nat]

GenInv ==
  /\ gen \in Nat /\ stored \in Nat /\ handed \in Nat /\ config \in Nat /\ settings \in Nat
  /\ now \in Nat /\ admin \in AdminType
  /\ adm.pc # "idle" => Running
  /\ RestartTakesNothingBack

\* A step that leaves the generation, the settings and the start alone.
GenApart ==
  /\ UNCHANGED <<gen, stored, handed, config, settings, holder>>
  /\ now' \in Nat /\ admin' \in AdminType /\ admin'.hash = admin.hash
  /\ adm'.pc # "idle" => Running

-----------------------------------------------------------------------------
\* A step apart from the generation keeps the invariant.
LEMMA GenApartStep == GenInv /\ GenApart => GenInv'
BY DEF GenInv, GenApart, RestartTakesNothingBack, Running

\* The first half of bump_snapshot keeps it: the next generation is stored.
LEMMA BumpStep ==
  ASSUME NEW who, who # None, GenInv, Running, bump_snapshot(who)
  PROVE  GenInv'
BY DEF GenInv, RestartTakesNothingBack, Running, bump_snapshot, Unlocked, memory, history

\* So does the second half: the stored generation is published.
LEMMA PublishStep ==
  ASSUME NEW who, GenInv, Running, publish_generation(who)
  PROVE  GenInv'
BY DEF GenInv, RestartTakesNothingBack, Running, publish_generation, tables, history

\* The invariant holds before the first start.
LEMMA GenInit == Init => GenInv
BY DEF Init, GenInv, RestartTakesNothingBack, Running, AdminIdle, AdminType

\* Every step stores a generation before it hands it out.
LEMMA GenNext == GenInv /\ [Next]_vars => GenInv'
<1> USE RegistryAssumption
<1> SUFFICES ASSUME GenInv, [Next]_vars PROVE GenInv'
  OBVIOUS
<1>t. /\ now \in Nat /\ admin \in AdminType /\ (adm.pc # "idle" => Running)
  BY DEF GenInv
<1>1. CASE Open
  <2>1. admin' \in AdminType
    <3>1. admin' = [[admin EXCEPT !.hash = admin.file] EXCEPT !.expires = 0]
      BY <1>1, Zenon DEF Open
    <3>2. [admin EXCEPT !.hash = admin.file] \in AdminType
      BY <1>t DEF AdminType
    <3> QED BY <3>1, <3>2, Zenon DEF AdminType
  <2>2. adm'.pc = "idle"
    BY <1>1 DEF Open, AdminIdle
  <2>3. /\ gen' = stored /\ config' = settings /\ holder' = None
        /\ UNCHANGED <<stored, settings, handed, now>>
    BY <1>1, Zenon DEF Open
  <2> QED BY <2>1, <2>2, <2>3 DEF GenInv, RestartTakesNothingBack, Running
<1>2. CASE Tick
  <2>1. GenApart
    BY <1>2, <1>t DEF Tick, GenApart, tables, memory, history
  <2> QED BY <2>1, GenApartStep
<1>3. ASSUME NEW c \in Conns, HandlerBump(c) PROVE GenInv'
  <2>1. Running /\ bump_snapshot(c)
    BY <1>3 DEF HandlerBump, Query, At
  <2>2. c # None
    OBVIOUS
  <2> QED BY <2>1, <2>2, BumpStep
<1>4. ASSUME NEW c \in Conns, HandlerBumped(c) PROVE GenInv'
  <2>1. Running /\ publish_generation(c)
    BY <1>4 DEF HandlerBumped, At
  <2> QED BY <2>1, PublishStep
<1>5. ASSUME NEW c \in Conns, Reply(c) PROVE GenInv'
  BY <1>5 DEF Reply, Query, At, Unlocked, GenInv, RestartTakesNothingBack, Running,
              tables, memory
<1>6. CASE AdminBump
  <2>1. Running /\ bump_snapshot(Admin)
    BY <1>6, <1>t DEF AdminBump
  <2>2. Admin # None
    OBVIOUS
  <2> QED BY <2>1, <2>2, BumpStep
<1>7. CASE AdminBumped
  <2>1. Running /\ publish_generation(Admin)
    BY <1>7, <1>t DEF AdminBumped
  <2> QED BY <2>1, PublishStep
<1>8. CASE update_network_config
  BY <1>8 DEF update_network_config, AdminOp, Op, Running, GenInv, RestartTakesNothingBack,
              history
<1>9. ASSUME NEW c \in Conns, Handler(c) PROVE GenInv'
  <2>1. \/ HandlerBump(c) \/ HandlerBumped(c) \/ Reply(c)
        \/ UNCHANGED <<gen, stored, handed, config, settings, holder, now, admin, adm>>
    BY <1>9, Zenon DEF Handler, RegisterCredential, RegisterInvite, UpdateCandidates,
       RequestSnapshot, RuntimeStatus, load_peer, allocate_virtual_ipv4, update_peer,
       GoOnline, ReplyFails, End, tables, memory, history, quiet
  <2>2. CASE UNCHANGED <<gen, stored, handed, config, settings, holder, now, admin, adm>>
    <3>1. GenApart
      BY <2>2, <1>t DEF GenApart
    <3> QED BY <3>1, GenApartStep
  <2> QED BY <2>1, <2>2, <1>3, <1>4, <1>5
<1>10. CASE AdminHandler
  <2>1. CASE login
    <3>1. GenApart
      BY <2>1, <1>t DEF login, GenApart, AdminType, tables, memory, history
    <3> QED BY <3>1, GenApartStep
  <2>2. CASE logout
    <3>1. GenApart
      BY <2>2, <1>t DEF logout, GenApart, AdminType, tables, memory, history
    <3> QED BY <3>1, GenApartStep
  <2>3. CASE reset_password
    <3>1. GenApart
      BY <2>3, <1>t DEF reset_password, GenApart, AdminType, tables, memory, history
    <3> QED BY <3>1, GenApartStep
  <2>4. ASSUME NEW i \in Invites, create_invite(i) \/ delete_invite(i) PROVE GenInv'
    <3>1. UNCHANGED <<gen, stored, handed, config, settings, holder, now, admin, adm>>
      BY <2>4, Zenon DEF create_invite, delete_invite, memory, history, quiet
    <3>2. GenApart
      BY <3>1, <1>t DEF GenApart
    <3> QED BY <3>2, GenApartStep
  <2>5. CASE admin_invites
    <3>1. UNCHANGED <<gen, stored, handed, config, settings, holder, now, admin, adm>>
      BY <2>5, Zenon DEF admin_invites, tables, memory, quiet
    <3>2. GenApart
      BY <3>1, <1>t DEF GenApart
    <3> QED BY <3>2, GenApartStep
  <2>6. ASSUME NEW n \in Nodes, NEW kind \in {"revoke", "delete"}, RemovePeer(n, kind)
        PROVE  GenInv'
    <3>1. Running /\ UNCHANGED <<gen, stored, handed, config, settings, holder, now, admin>>
      BY <2>6, Zenon DEF RemovePeer, AdminOp, Op, memory
    <3>2. GenApart
      BY <3>1, <1>t DEF GenApart
    <3> QED BY <3>2, GenApartStep
  <2>7. CASE disconnect_peer
    <3>1. GenApart
      BY <2>7, <1>t DEF disconnect_peer, GenApart, AdminIdle, tables, history
    <3> QED BY <3>1, GenApartStep
  <2> QED BY <1>10, <2>1, <2>2, <2>3, <2>4, <2>5, <2>6, <2>7, <1>6, <1>7, <1>8 DEF AdminHandler
<1>11. ASSUME NEW i \in Invites, consume_download_token(i) PROVE GenInv'
  <2>1. UNCHANGED <<gen, stored, handed, config, settings, holder, now, admin, adm>>
    BY <1>11, Zenon DEF consume_download_token, memory, quiet
  <2>2. GenApart
    BY <2>1, <1>t DEF GenApart
  <2> QED BY <2>2, GenApartStep
<1>12. CASE UNCHANGED vars
  <2>1. GenApart
    BY <1>12, <1>t DEF vars, GenApart, tables, memory, history
  <2> QED BY <2>1, GenApartStep
<1> QED BY <1>1, <1>2, <1>9, <1>10, <1>11, <1>12, Zenon DEF Next

(* No restart takes back what a snapshot said, whatever step it interrupts:  *)
(* bump_snapshot stores the generation before anybody can read it, and       *)
(* update_network_config stores the settings with the ones in use.           *)
THEOREM NothingIsTakenBack == Spec => []RestartTakesNothingBack
<1>1. GenInv => RestartTakesNothingBack
  BY DEF GenInv
<1> QED BY <1>1, GenInit, GenNext, PTL DEF Spec

-----------------------------------------------------------------------------
InviteType == [made : BOOLEAN, expires : Nat, used : BOOLEAN, revoked : BOOLEAN,
               download : BOOLEAN]

\* What invite i records of its history.
Recorded(i) ==
  /\ admitted[i] # 0 => invites[i].used
  /\ fetched[i] # 0 => invites[i].download
  /\ invites[i].used => invites[i].download
  /\ shown[i] = "used" => invites[i].used
  /\ shown[i] = "revoked" => invites[i].revoked
  /\ shown[i] = "expired" => invites[i].expires <= now
  /\ ~invites[i].made => /\ admitted[i] = 0 /\ fetched[i] = 0 /\ shown[i] = "none"
                         /\ ~invites[i].used

InviteRecorded ==
  /\ now \in Nat
  /\ invites \in [Invites -> InviteType]
  /\ admitted \in [Invites -> Nat] /\ fetched \in [Invites -> Nat]
  /\ shown \in [Invites -> {"none", "used", "revoked", "expired", "pending"}]
  /\ \A i \in Invites : Recorded(i)

\* What InviteSpent says of one step.
SpentStep ==
  \A i \in Invites :
    /\ admitted'[i] # admitted[i] => admitted[i] = 0 /\ shown[i] \notin {"used", "revoked"}
    /\ fetched'[i] # fetched[i] =>
         /\ fetched[i] = 0 /\ admitted[i] = 0
         /\ shown[i] \notin {"used", "revoked", "expired"}

\* A step that leaves the invites alone; time does not go back.
InvitesApart ==
  /\ UNCHANGED <<invites, admitted, fetched, shown>>
  /\ now' \in Nat /\ now' >= now

\* Such a step keeps the record and spends nothing.
LEMMA InvitesApartStep == InviteRecorded /\ InvitesApart => InviteRecorded' /\ SpentStep
<1> SUFFICES ASSUME InviteRecorded, InvitesApart PROVE InviteRecorded' /\ SpentStep
  OBVIOUS
<1>1. SpentStep
  BY DEF SpentStep, InvitesApart
<1>2. ASSUME NEW i \in Invites PROVE Recorded(i)'
  <2>1. Recorded(i) /\ now \in Nat /\ invites[i].expires \in Nat
    BY DEF InviteRecorded, InviteType
  <2>2. shown[i] = "expired" => invites[i].expires <= now'
    BY <2>1 DEF InvitesApart, Recorded
  <2> QED BY <2>1, <2>2, Zenon DEF InvitesApart, Recorded
<1> QED BY <1>1, <1>2 DEF InviteRecorded, InvitesApart

\* The record holds before the first start: no invite has a history.
LEMMA InvitesInit == Init => InviteRecorded
<1> USE RegistryAssumption
<1> SUFFICES ASSUME Init PROVE InviteRecorded
  OBVIOUS
<1>1. /\ NoInvite \in InviteType /\ NoInvite.used = FALSE
      /\ InviteRow(TRUE, Ttl) \in InviteType /\ InviteRow(TRUE, Ttl).used = FALSE
  BY DEF NoInvite, InviteRow, InviteType
<1>3. /\ invites \in [Invites -> InviteType]
      /\ \A i \in Invites : ~invites[i].used
  BY <1>1, Zenon DEF Init
<1>4. /\ now = 0 /\ admitted = [i \in Invites |-> 0] /\ fetched = [i \in Invites |-> 0]
      /\ shown = [i \in Invites |-> "none"]
  BY DEF Init
<1> QED BY <1>3, <1>4 DEF InviteRecorded, Recorded

\* An invite i whose row, admissions and downloads change to ones that agree,
\* the other invites staying as they are, keeps the record.
LEMMA OneInvite ==
  ASSUME InviteRecorded, NEW i \in Invites, invites' \in [Invites -> InviteType],
         admitted' \in [Invites -> Nat], fetched' \in [Invites -> Nat],
         UNCHANGED <<shown, now>>, Recorded(i)',
         \A j \in Invites \ {i} : /\ invites'[j] = invites[j]
                                  /\ admitted'[j] = admitted[j] /\ fetched'[j] = fetched[j]
  PROVE  InviteRecorded'
<1>1. ASSUME NEW j \in Invites \ {i} PROVE Recorded(j)'
  BY <1>1 DEF InviteRecorded, Recorded
<1> QED BY <1>1 DEF InviteRecorded

\* A row with both flags of a spent invite.
LEMMA SpentRow ==
  ASSUME NEW i \in Invites, invites \in [Invites -> InviteType],
         invites' = [invites EXCEPT ![i].used = TRUE, ![i].download = TRUE]
  PROVE  /\ invites' \in [Invites -> InviteType]
         /\ invites'[i] = [made |-> invites[i].made, expires |-> invites[i].expires, used |-> TRUE,
                           revoked |-> invites[i].revoked, download |-> TRUE]
         /\ \A j \in Invites \ {i} : invites'[j] = invites[j]
<1>1. invites' \in [Invites -> InviteType]
  BY ZenonT(30) DEF InviteType
<1>2. invites'[i] = [made |-> invites[i].made, expires |-> invites[i].expires, used |-> TRUE,
                     revoked |-> invites[i].revoked, download |-> TRUE]
  BY ZenonT(30) DEF InviteType
<1>3. \A j \in Invites \ {i} : invites'[j] = invites[j]
  BY ZenonT(30)
<1> QED BY <1>1, <1>2, <1>3, Zenon

\* The same for the row of a deleted invite.
LEMMA DeletedRow ==
  ASSUME NEW i \in Invites, invites \in [Invites -> InviteType],
         invites' = [invites EXCEPT ![i].revoked = TRUE, ![i].download = TRUE]
  PROVE  /\ invites' \in [Invites -> InviteType]
         /\ invites'[i] = [made |-> invites[i].made, expires |-> invites[i].expires,
                           used |-> invites[i].used, revoked |-> TRUE, download |-> TRUE]
         /\ \A j \in Invites \ {i} : invites'[j] = invites[j]
<1>1. invites' \in [Invites -> InviteType]
  BY ZenonT(30) DEF InviteType
<1>2. invites'[i] = [made |-> invites[i].made, expires |-> invites[i].expires,
                     used |-> invites[i].used, revoked |-> TRUE, download |-> TRUE]
  BY ZenonT(30) DEF InviteType
<1>3. \A j \in Invites \ {i} : invites'[j] = invites[j]
  BY ZenonT(30)
<1> QED BY <1>1, <1>2, <1>3, Zenon

\* A registration spends the invite, which was not spent before.
LEMMA RegisterStep ==
  ASSUME InviteRecorded, NEW i \in Invites, register_with_invite(i),
         admitted' = [admitted EXCEPT ![i] = @ + 1], UNCHANGED <<fetched, shown, now>>
  PROVE  InviteRecorded' /\ SpentStep
<1>1. /\ invites[i].made /\ ~invites[i].revoked /\ ~invites[i].used /\ Recorded(i)
      /\ invites' = [invites EXCEPT ![i].used = TRUE, ![i].download = TRUE]
      /\ invites \in [Invites -> InviteType]
  BY DEF register_with_invite, InviteRecorded
<1>2. /\ invites' \in [Invites -> InviteType]
      /\ invites'[i] = [made |-> invites[i].made, expires |-> invites[i].expires, used |-> TRUE,
                        revoked |-> invites[i].revoked, download |-> TRUE]
      /\ \A j \in Invites \ {i} : invites'[j] = invites[j]
  BY <1>1, SpentRow, Zenon
<1>3. admitted' \in [Invites -> Nat] /\ \A j \in Invites \ {i} : admitted'[j] = admitted[j]
  BY DEF InviteRecorded
<1>4. Recorded(i)'
  BY <1>1, <1>2 DEF Recorded
<1>5. InviteRecorded'
  BY <1>2, <1>3, <1>4, OneInvite DEF InviteRecorded
<1>6. admitted[i] = 0 /\ shown[i] \notin {"used", "revoked"}
  BY <1>1 DEF Recorded
<1> QED BY <1>3, <1>5, <1>6 DEF SpentStep

\* A download consumes the token of an invite nothing has been done with.
LEMMA DownloadStep ==
  ASSUME InviteRecorded, NEW i \in Invites, consume_download_token(i)
  PROVE  InviteRecorded' /\ SpentStep
<1>1. /\ invites[i].made /\ ~invites[i].download /\ ~invites[i].revoked /\ ~invites[i].used
      /\ invites[i].expires > now /\ Recorded(i)
      /\ invites \in [Invites -> InviteType] /\ now \in Nat
  BY DEF consume_download_token, InviteRecorded
<1>2. /\ invites' = [invites EXCEPT ![i].download = TRUE]
      /\ fetched' = [fetched EXCEPT ![i] = @ + 1] /\ UNCHANGED <<admitted, shown, now>>
  BY DEF consume_download_token, quiet
<1>3. /\ invites' \in [Invites -> InviteType]
      /\ invites'[i] = [made |-> invites[i].made, expires |-> invites[i].expires,
                        used |-> invites[i].used, revoked |-> invites[i].revoked, download |-> TRUE]
      /\ \A j \in Invites \ {i} : invites'[j] = invites[j]
  BY <1>1, <1>2, Zenon DEF InviteType
<1>4. fetched' \in [Invites -> Nat] /\ \A j \in Invites \ {i} : fetched'[j] = fetched[j]
  BY <1>2 DEF InviteRecorded
<1>5. Recorded(i)'
  BY <1>1, <1>2, <1>3 DEF Recorded
<1>6. InviteRecorded'
  BY <1>2, <1>3, <1>4, <1>5, OneInvite, Zenon DEF InviteRecorded
<1>7. fetched[i] = 0 /\ admitted[i] = 0 /\ shown[i] \notin {"used", "revoked"}
  BY <1>1 DEF Recorded
<1>8. shown[i] # "expired"
  <2>1. invites[i].expires \in Nat
    BY <1>1 DEF InviteType
  <2> QED BY <1>1, <2>1 DEF Recorded
<1> QED BY <1>2, <1>4, <1>6, <1>7, <1>8 DEF SpentStep

\* Creating, deleting and listing invites keep the record.
LEMMA ListStep ==
  ASSUME InviteRecorded,
         admin_invites \/ \E i \in Invites : create_invite(i) \/ delete_invite(i)
  PROVE  InviteRecorded' /\ SpentStep
<1> USE RegistryAssumption
<1>t. now \in Nat /\ invites \in [Invites -> InviteType]
  BY DEF InviteRecorded
<1>1. SpentStep
  <2>1. UNCHANGED <<admitted, fetched>>
    BY Zenon DEF admin_invites, create_invite, delete_invite, history
  <2> QED BY <2>1 DEF SpentStep
<1>2. CASE admin_invites
  <2>1. /\ shown' = [i \in Invites |-> IF invites[i].made THEN InviteStatus(i) ELSE shown[i]]
        /\ UNCHANGED <<invites, admitted, fetched, now>>
    BY <1>2 DEF admin_invites, tables, quiet
  <2>2. ASSUME NEW i \in Invites
        PROVE  /\ InviteStatus(i) \in {"used", "revoked", "expired", "pending"}
               /\ InviteStatus(i) = "used" => invites[i].used
               /\ InviteStatus(i) = "revoked" => invites[i].revoked
               /\ InviteStatus(i) = "expired" => invites[i].expires <= now
    BY DEF InviteStatus
  <2>3. ASSUME NEW i \in Invites PROVE Recorded(i)'
    BY <2>1, <2>2 DEF InviteRecorded, Recorded
  <2>4. shown' \in [Invites -> {"none", "used", "revoked", "expired", "pending"}]
    BY <2>1, <2>2 DEF InviteRecorded
  <2>5. /\ now' \in Nat /\ invites' \in [Invites -> InviteType]
        /\ admitted' \in [Invites -> Nat] /\ fetched' \in [Invites -> Nat]
    BY <2>1 DEF InviteRecorded
  <2> QED BY <1>1, <2>3, <2>4, <2>5 DEF InviteRecorded
<1>3. ASSUME NEW i \in Invites, create_invite(i) PROVE InviteRecorded'
  <2>1. /\ ~invites[i].made /\ invites' = [invites EXCEPT ![i] = InviteRow(TRUE, now + Ttl)]
        /\ UNCHANGED <<admitted, fetched, shown, now>>
    BY <1>3 DEF create_invite, quiet, history
  <2>2. InviteRow(TRUE, now + Ttl) \in InviteType
    BY <1>t DEF InviteRow, InviteType
  <2>3. Recorded(i) /\ admitted[i] = 0 /\ fetched[i] = 0 /\ shown[i] = "none"
    BY <2>1 DEF InviteRecorded, Recorded
  <2>4. /\ invites' \in [Invites -> InviteType] /\ invites'[i] = InviteRow(TRUE, now + Ttl)
        /\ \A j \in Invites \ {i} : invites'[j] = invites[j]
    BY <2>1, <2>2, <1>t, Zenon
  <2>5. Recorded(i)'
    BY <2>1, <2>3, <2>4 DEF Recorded, InviteRow
  <2> QED BY <2>1, <2>4, <2>5, OneInvite, Zenon DEF InviteRecorded
<1>4. ASSUME NEW i \in Invites, delete_invite(i) PROVE InviteRecorded'
  <2>1. /\ invites[i].made /\ invites' = [invites EXCEPT ![i].revoked = TRUE, ![i].download = TRUE]
        /\ UNCHANGED <<admitted, fetched, shown, now>>
    BY <1>4 DEF delete_invite, quiet, history
  <2>2. /\ invites' \in [Invites -> InviteType]
        /\ invites'[i] = [made |-> invites[i].made, expires |-> invites[i].expires,
                          used |-> invites[i].used, revoked |-> TRUE, download |-> TRUE]
        /\ \A j \in Invites \ {i} : invites'[j] = invites[j]
    BY <2>1, <1>t, DeletedRow, Zenon
  <2>3. Recorded(i)'
    BY <2>1, <2>2 DEF InviteRecorded, Recorded
  <2> QED BY <2>1, <2>2, <2>3, OneInvite DEF InviteRecorded
<1> QED BY <1>1, <1>2, <1>3, <1>4

\* Every step keeps the record and spends an invite at most once.
LEMMA InvitesNext == InviteRecorded /\ [Next]_vars => InviteRecorded' /\ SpentStep
<1> SUFFICES ASSUME InviteRecorded, [Next]_vars PROVE InviteRecorded' /\ SpentStep
  OBVIOUS
<1>t. now \in Nat
  BY DEF InviteRecorded
<1>1. CASE UNCHANGED <<invites, admitted, fetched, shown, now>>
  <2>1. InvitesApart
    BY <1>1, <1>t DEF InvitesApart
  <2> QED BY <2>1, InvitesApartStep
<1>2. CASE Tick
  <2>1. InvitesApart
    BY <1>2, <1>t DEF Tick, InvitesApart, tables, history
  <2> QED BY <2>1, InvitesApartStep
<1>3. CASE Open
  BY <1>3, <1>1, Zenon DEF Open
<1>4. ASSUME NEW c \in Conns, Handler(c) PROVE InviteRecorded' /\ SpentStep
  <2>1. ASSUME NEW n \in Nodes, NEW i \in Invites, RegisterInvite(c, n, i)
        PROVE  InviteRecorded' /\ SpentStep
    <3>1. /\ register_with_invite(i) /\ admitted' = [admitted EXCEPT ![i] = @ + 1]
          /\ UNCHANGED <<fetched, shown, now>>
      BY <2>1, Zenon DEF RegisterInvite, quiet
    <3> QED BY <3>1, RegisterStep, Zenon
  <2>2. \/ \E n \in Nodes, i \in Invites : RegisterInvite(c, n, i)
        \/ UNCHANGED <<invites, admitted, fetched, shown, now>>
    BY <1>4, Zenon DEF Handler, RegisterCredential, UpdateCandidates, RequestSnapshot,
       RuntimeStatus, load_peer, allocate_virtual_ipv4, update_peer, HandlerBump,
       HandlerBumped, bump_snapshot, publish_generation, GoOnline, Reply, ReplyFails, End,
       tables, history, quiet
  <2> QED BY <2>1, <2>2, <1>1
<1>5. CASE AdminHandler
  <2>1. \/ admin_invites \/ \E i \in Invites : create_invite(i) \/ delete_invite(i)
        \/ UNCHANGED <<invites, admitted, fetched, shown, now>>
    BY <1>5, Zenon DEF AdminHandler, login, logout, reset_password, RemovePeer,
       update_network_config, AdminBump, AdminBumped, bump_snapshot, publish_generation,
       disconnect_peer, tables, history
  <2> QED BY <2>1, <1>1, ListStep
<1>6. ASSUME NEW i \in Invites, consume_download_token(i) PROVE InviteRecorded' /\ SpentStep
  BY <1>6, DownloadStep
<1>7. CASE UNCHANGED vars
  BY <1>7, <1>1, Zenon DEF vars, tables, history
<1> QED BY <1>2, <1>3, <1>4, <1>5, <1>6, <1>7, Zenon DEF Next

(* An invite admits one registration and serves one download, and neither    *)
(* after the administrator has seen it used or revoked, for any number of    *)
(* connections and restarts (register_with_invite, consume_download_token,   *)
(* delete_invite): the flags that say so are never cleared.                  *)
THEOREM InvitesAreSpentOnce == Spec => InviteSpent
<1>1. InviteRecorded /\ [Next]_vars => [SpentStep]_vars
  BY InvitesNext, Zenon
<1> QED BY <1>1, InvitesInit, InvitesNext, PTL DEF Spec, InviteSpent, SpentStep

-----------------------------------------------------------------------------
(* The search for a free host, and the address migration of a start *)

\* A set of numbers that is not empty has a least member.
LEMMA LeastNumber ==
  ASSUME NEW S, S \subseteq Nat, S # {}
  PROVE  \E x \in S : \A y \in S : x <= y
<1>1. PICK x \in S : \A y \in S : ~(<<y, x>> \in OpToRel(<, Nat))
  BY NatLessThanWellFounded, WFMin, Zenon
<1>2. \A y \in S : ~(y < x)
  BY <1>1, Zenon DEF OpToRel
<1>3. \A y \in S : x <= y
  BY <1>2
<1> QED BY <1>3

\* Induction over the numbers below a bound.
LEMMA UpTo ==
  ASSUME NEW K \in Nat, NEW T, 0 \in T, \A k \in 0 .. (K - 1) : k \in T => k + 1 \in T
  PROVE  \A k \in 0 .. K : k \in T
<1> SUFFICES ASSUME NEW j \in 0 .. K, j \notin T PROVE FALSE
  OBVIOUS
<1> DEFINE S == (0 .. K) \ T
<1>1. PICK x \in S : \A y \in S : x <= y
  <2> SUFFICES S \subseteq Nat /\ S # {}
    BY LeastNumber, Zenon
  <2> QED OBVIOUS
<1>2. x \in 0 .. K /\ x # 0
  OBVIOUS
<1>3. x - 1 \in 0 .. (K - 1) /\ x - 1 \notin S
  BY <1>1, <1>2
<1> QED BY <1>2, <1>3

\* The search finds a host of the network that is not used.
LEMMA HostFree ==
  ASSUME NEW n \in Nodes, NEW used, FreeOffsets(n, used) # {}
  PROVE  /\ Host(n, Min(FreeOffsets(n, used))) \in 1 .. Hosts
         /\ Host(n, Min(FreeOffsets(n, used))) \notin used
<1> DEFINE free == FreeOffsets(n, used)
<1>1. PICK x \in free : \A y \in free : x <= y
  <2>1. free \subseteq Nat /\ free # {}
    BY DEF FreeOffsets
  <2> QED BY <2>1, LeastNumber, Zenon
<1>2. Min(free) \in free
  BY <1>1, Zenon DEF Min
<1>3. Min(free) \in Nat /\ Host(n, Min(free)) \notin used
  <2> HIDE DEF free
  <2>1. \A o \in free : o \in Nat /\ Host(n, o) \notin used
    BY DEF free, FreeOffsets
  <2> QED BY <2>1, <1>2
<1>4. ASSUME NEW o \in Nat PROVE Host(n, o) \in 1 .. Hosts
  <2>1. StartHost[n] + o \in Nat /\ Hosts \in Nat /\ Hosts > 0
    BY RegistryAssumption, PeersAssumption
  <2>2. ASSUME NEW a \in Nat, NEW b \in Nat, b > 0 PROVE 1 + (a % b) \in 1 .. b
    BY <2>2
  <2> QED BY <2>1, <2>2 DEF Host
<1> QED BY <1>3, <1>4

RowType == [addr : 0 .. Hosts, revoked : BOOLEAN]
Tables == [Nodes -> RowType \cup {None}]
After(table, f) ==
  f = [k \in 0 .. Len(Peers) |->
         IF k = 0 THEN [ok |-> TRUE, used |-> {}, table |-> table]
                  ELSE MigratePeer(table, f[k - 1], Peers[k])]

\* The migration visits the peers one after the other.
LEMMA MigrationIsDefined ==
  ASSUME NEW table
  PROVE  \E f : After(table, f) /\ migrate_virtual_ipv4(table) = f[Len(Peers)]
<1> DEFINE base == [ok |-> TRUE, used |-> {}, table |-> table]
           Upto(n, f) == f = [k \in 0 .. n |-> IF k = 0 THEN base
                                               ELSE MigratePeer(table, f[k - 1], Peers[k])]
           T == {n \in Nat : \E f : Upto(n, f)}
<1>0. Len(Peers) \in Nat
  BY PeersAssumption
<1>1. 0 \in T
  <2> DEFINE f == [k \in 0 .. 0 |-> base]
  <2> HIDE DEF base
  <2>1. f = [k \in 0 .. 0 |-> IF k = 0 THEN base ELSE MigratePeer(table, f[k - 1], Peers[k])]
    OBVIOUS
  <2> QED BY <2>1, Zenon
<1>2. ASSUME NEW n \in Nat, n \in T PROVE n + 1 \in T
  <2> HIDE DEF base
  <2>1. PICK f : f = [k \in 0 .. n |-> IF k = 0 THEN base
                                       ELSE MigratePeer(table, f[k - 1], Peers[k])]
    BY <1>2
  <2> DEFINE g == [k \in 0 .. n + 1 |->
                     IF k = n + 1 THEN MigratePeer(table, f[n], Peers[n + 1]) ELSE f[k]]
  <2>2. ASSUME NEW k \in 0 .. n + 1
        PROVE  g[k] = IF k = 0 THEN base ELSE MigratePeer(table, g[k - 1], Peers[k])
    <3>1. CASE k = n + 1
      BY <3>1
    <3>2. CASE k # n + 1
      <4>1. k \in 0 .. n
        BY <3>2
      <4>2. f[k] = IF k = 0 THEN base ELSE MigratePeer(table, f[k - 1], Peers[k])
        BY <2>1, <4>1
      <4>3. g[k] = f[k] /\ (k # 0 => g[k - 1] = f[k - 1])
        BY <3>2, <4>1
      <4> QED BY <4>1, <4>2, <4>3
    <3> QED BY <3>1, <3>2
  <2>3. Upto(n + 1, g)
    BY <2>2
  <2> HIDE DEF g
  <2> QED BY <2>3
<1>3. \A k \in 0 .. Len(Peers) : k \in T
  <2>1. \A k \in 0 .. (Len(Peers) - 1) : k \in T => k + 1 \in T
    BY <1>2, <1>0, Zenon
  <2> HIDE DEF T
  <2> QED BY <1>0, <1>1, <2>1, UpTo
<1>4. \E f : After(table, f)
  <2>1. Len(Peers) \in T
    <3> HIDE DEF T
    <3> QED BY <1>3, <1>0
  <2>2. PICK f : Upto(Len(Peers), f)
    BY <2>1
  <2>3. After(table, f)
    BY <2>2, Zenon DEF After
  <2> QED BY <2>3
<1> DEFINE F == CHOOSE f : After(table, f)
<1>5. After(table, F)
  BY <1>4, Zenon
<1>6. migrate_virtual_ipv4(table) = F[Len(Peers)]
  BY Zenon DEF migrate_virtual_ipv4, After
<1> HIDE DEF F
<1> QED BY <1>5, <1>6

Done(k) == {Peers[i] : i \in 1 .. k}

\* The table after the first k peers, when there were enough addresses.
Migrated(table, a, k) ==
  /\ a.used \subseteq 1 .. Hosts
  /\ a.table \in Tables
  /\ \A n \in Nodes \ Done(k) : a.table[n] = table[n]
  /\ \A n \in Done(k) : /\ a.table[n] = None <=> table[n] = None
                        /\ a.table[n] # None => a.table[n].addr \in a.used
                        /\ \A m \in Done(k) :
                             (n # m /\ a.table[n] # None /\ a.table[m] # None)
                               => a.table[n].addr # a.table[m].addr

\* One peer keeps its address or gets one that no earlier peer has.
LEMMA MigratePeerStep ==
  ASSUME NEW table \in Tables, NEW a, NEW k \in 1 .. Len(Peers),
         Migrated(table, a, k - 1), MigratePeer(table, a, Peers[k]).ok, a.ok \in BOOLEAN
  PROVE  a.ok /\ Migrated(table, MigratePeer(table, a, Peers[k]), k)
<1> DEFINE n == Peers[k]
           b == MigratePeer(table, a, n)
<1>1. n \in Nodes /\ Done(k - 1) \subseteq Nodes /\ Done(k) = Done(k - 1) \cup {n}
      /\ n \notin Done(k - 1)
  <2>1. \A i \in 1 .. Len(Peers) : Peers[i] \in Nodes
    BY PeersAssumption
  <2>2. \A i, j \in 1 .. Len(Peers) : Peers[i] = Peers[j] => i = j
    BY PeersAssumption DEF IsInjective
  <2>3. k - 1 \in 0 .. (Len(Peers) - 1) /\ 1 .. k = (1 .. (k - 1)) \cup {k}
    BY PeersAssumption
  <2> QED BY <2>1, <2>2, <2>3 DEF Done
<1>2. CASE table[n] = None
  <2>1. b = a
    BY <1>2 DEF MigratePeer
  <2> QED BY <2>1, <1>1, <1>2, SMTT(30) DEF Migrated
<1>3. CASE table[n] # None
  <2> DEFINE keep == virtual_ipv4_host(table[n].addr) /\ table[n].addr \notin a.used
             new == IF keep THEN table[n].addr ELSE allocate_virtual_ipv4_from_used(n, a.used)
  <2>1. b = [ok |-> a.ok /\ (keep \/ FreeOffsets(n, a.used) # {}),
             used |-> a.used \cup {new},
             table |-> [a.table EXCEPT ![n] = Row(new, table[n].revoked)]]
    BY <1>3, Zenon DEF MigratePeer
  <2>2. a.ok /\ (keep \/ FreeOffsets(n, a.used) # {})
    <3>2. b.ok
      OBVIOUS
    <3> HIDE DEF keep, new, b
    <3>1. b.ok = (a.ok /\ (keep \/ FreeOffsets(n, a.used) # {}))
      BY <2>1
    <3> QED BY <3>1, <3>2, Zenon
  <2>3. new \in 1 .. Hosts /\ new \notin a.used
    <3>1. CASE keep
      BY <3>1 DEF virtual_ipv4_host
    <3>2. CASE ~keep
      BY <3>2, <2>2, <1>1, HostFree DEF allocate_virtual_ipv4_from_used
    <3> QED BY <3>1, <3>2
  <2> HIDE DEF new, keep
  <2>4. table[n] \in RowType
    BY <1>1, <1>3 DEF Tables
  <2>5. Row(new, table[n].revoked) \in RowType /\ Row(new, table[n].revoked).addr = new
        /\ Row(new, table[n].revoked) # None
    <3>1. Row(new, table[n].revoked) \in RowType /\ Row(new, table[n].revoked).addr = new
      BY <2>3, <2>4, RegistryAssumption DEF Row, RowType
    <3>2. RowType \subseteq [addr : Nat, revoked : BOOLEAN]
      BY DEF RowType
    <3> QED BY <3>1, <3>2, PeersAssumption
  <2>6. /\ b.used = a.used \cup {new} /\ b.table \in Tables
        /\ b.table[n] = Row(new, table[n].revoked)
        /\ \A m \in Nodes \ {n} : b.table[m] = a.table[m]
    <3> HIDE DEF b, n
    <3>1. PICK row : row = Row(new, table[n].revoked)
      OBVIOUS
    <3>2. PICK t : t = [a.table EXCEPT ![n] = row]
      OBVIOUS
    <3>3. b.used = a.used \cup {new} /\ b.table = t
      BY <2>1, <3>1, <3>2
    <3>4. a.table \in Tables /\ row \in RowType
      BY <2>5, <3>1, Zenon DEF Migrated
    <3>5. t \in Tables /\ t[n] = row /\ \A m \in Nodes \ {n} : t[m] = a.table[m]
      BY <3>2, <3>4, <1>1 DEF Tables
    <3> QED BY <3>1, <3>3, <3>5
  <2> HIDE DEF b, n
  <2>7. b.used \subseteq 1 .. Hosts /\ b.table \in Tables
    BY <2>6, <2>3 DEF Migrated
  <2>8. \A m \in Nodes \ Done(k) : b.table[m] = table[m]
    BY <2>6, <1>1 DEF Migrated
  <2>9. \A m \in Done(k) : /\ b.table[m] = None <=> table[m] = None
                           /\ b.table[m] # None => b.table[m].addr \in b.used
    BY <2>6, <2>5, <1>1, <1>3 DEF Migrated
  <2>10. ASSUME NEW m \in Done(k), NEW p \in Done(k), m # p, b.table[m] # None, b.table[p] # None
         PROVE  b.table[m].addr # b.table[p].addr
    <3>1. b.table[n].addr = new /\ new \notin a.used
      BY <2>3, <2>5, <2>6, Zenon
    <3>2. \A q \in Done(k - 1) : q \in Nodes /\ q # n /\ b.table[q] = a.table[q]
      BY <2>6, <1>1, Zenon
    <3>3. \A q \in Done(k - 1) : a.table[q] # None => a.table[q].addr \in a.used
      BY Zenon DEF Migrated
    <3>4. m \in Done(k - 1) \cup {n} /\ p \in Done(k - 1) \cup {n}
      BY <2>10, <1>1, Zenon
    <3>5. CASE m = n
      BY <3>1, <3>2, <3>3, <3>4, <3>5, <2>10, Zenon
    <3>6. CASE p = n
      BY <3>1, <3>2, <3>3, <3>4, <3>6, <2>10, Zenon
    <3>7. CASE m \in Done(k - 1) /\ p \in Done(k - 1)
      BY <3>2, <3>7, <2>10, Zenon DEF Migrated
    <3> QED BY <3>4, <3>5, <3>6, <3>7, Zenon
  <2>11. Migrated(table, b, k)
    BY <2>7, <2>8, <2>9, <2>10 DEF Migrated
  <2> QED BY <2>2, <2>11 DEF b, n
<1> QED BY <1>2, <1>3

\* A migration that has failed on a row stays failed: the `?` of the row's
\* allocation returns from migrate_virtual_ipv4.
LEMMA MigratePeerOk ==
  ASSUME NEW table, NEW acc, NEW n, acc.ok \in BOOLEAN
  PROVE  /\ MigratePeer(table, acc, n).ok \in BOOLEAN
         /\ MigratePeer(table, acc, n).ok => acc.ok
<1>1. CASE table[n] = None
  <2>1. MigratePeer(table, acc, n) = acc
    BY <1>1, Zenon DEF MigratePeer
  <2> QED BY <2>1, Zenon
<1>2. CASE table[n] # None
  <2> DEFINE addr == table[n].addr
             keep == virtual_ipv4_host(addr) /\ addr \notin acc.used
             new == IF keep THEN addr ELSE allocate_virtual_ipv4_from_used(n, acc.used)
             ok == acc.ok /\ (keep \/ FreeOffsets(n, acc.used) # {})
             used == acc.used \cup {new}
             rest == [acc.table EXCEPT ![n] = Row(new, table[n].revoked)]
  <2>1. MigratePeer(table, acc, n) = [ok |-> ok, used |-> used, table |-> rest]
    BY <1>2, Zenon DEF MigratePeer
  <2>2. ok \in BOOLEAN /\ (ok => acc.ok)
    OBVIOUS
  <2> HIDE DEF ok, used, rest
  <2>3. MigratePeer(table, acc, n).ok = ok
    BY <2>1
  <2> QED BY <2>2, <2>3, Zenon
<1> QED BY <1>1, <1>2

\* The migration leaves no two rows with the same address, and every address
\* in the network.
LEMMA MigrationSeparates ==
  ASSUME NEW table \in Tables, migrate_virtual_ipv4(table).ok
  PROVE  LET after == migrate_virtual_ipv4(table).table
         IN  /\ after \in Tables
             /\ \A n \in Nodes : after[n] # None => after[n].addr \in 1 .. Hosts
             /\ \A n, m \in Nodes : (n # m /\ after[n] # None /\ after[m] # None)
                                      => after[n].addr # after[m].addr
<1> DEFINE K == Len(Peers)
<1>0. K \in Nat
  BY PeersAssumption
<1>1. PICK f : After(table, f) /\ migrate_virtual_ipv4(table) = f[K]
  BY MigrationIsDefined
<1> DEFINE T == {k \in 0 .. K : /\ f[k].ok \in BOOLEAN
                                /\ f[k].ok => Migrated(table, f[k], k)}
<1>2. f[0] = [ok |-> TRUE, used |-> {}, table |-> table]
  BY <1>0, <1>1 DEF After
<1>3. ASSUME NEW k \in 1 .. K PROVE f[k] = MigratePeer(table, f[k - 1], Peers[k])
  <2>1. k \in 0 .. K /\ k # 0
    BY <1>0
  <2>2. f = [j \in 0 .. K |->
               IF j = 0 THEN [ok |-> TRUE, used |-> {}, table |-> table]
                        ELSE MigratePeer(table, f[j - 1], Peers[j])]
    BY <1>1, Zenon DEF After
  <2>3. f[k] = IF k = 0 THEN [ok |-> TRUE, used |-> {}, table |-> table]
                        ELSE MigratePeer(table, f[k - 1], Peers[k])
    <3> HIDE DEF K
    <3> QED BY <2>1, <2>2, Zenon
  <2> QED BY <2>1, <2>3, Zenon
<1>4. 0 \in T
  <2>1. Done(0) = {}
    BY DEF Done
  <2>2. f[0].ok = TRUE /\ f[0].used = {} /\ f[0].table = table
    BY <1>2
  <2>3. Migrated(table, f[0], 0)
    BY <2>1, <2>2 DEF Migrated
  <2>4. 0 \in 0 .. K
    BY <1>0
  <2>5. f[0].ok \in BOOLEAN
    BY <2>2, Zenon
  <2> HIDE DEF K
  <2> QED BY <2>3, <2>4, <2>5, Zenon
<1>5. ASSUME NEW k \in 0 .. (K - 1), k \in T PROVE k + 1 \in T
  <2>1. k + 1 \in 1 .. K /\ (k + 1) - 1 = k /\ k + 1 \in 0 .. K
    BY <1>0
  <2>2. f[k + 1] = MigratePeer(table, f[k], Peers[k + 1])
    BY <2>1, <1>3
  <2>3. f[k].ok \in BOOLEAN /\ (f[k].ok => Migrated(table, f[k], k))
    BY <1>5
  <2>4. f[k + 1].ok \in BOOLEAN /\ (f[k + 1].ok => f[k].ok)
    <3> HIDE DEF T, K
    <3>1. PICK acc : acc = f[k]
      OBVIOUS
    <3>2. acc.ok \in BOOLEAN
      BY <3>1, <2>3, Zenon
    <3>3. /\ MigratePeer(table, acc, Peers[k + 1]).ok \in BOOLEAN
          /\ MigratePeer(table, acc, Peers[k + 1]).ok => acc.ok
      BY <3>2, MigratePeerOk
    <3> QED BY <3>1, <3>3, <2>2, Zenon
  <2>5. ASSUME f[k + 1].ok PROVE Migrated(table, f[k + 1], k + 1)
    <3>1. Migrated(table, f[k], (k + 1) - 1)
      BY <2>1, <2>3, <2>4, <2>5
    <3> QED BY <3>1, <2>1, <2>2, <2>3, <2>5, MigratePeerStep, Zenon
  <2> QED BY <2>1, <2>4, <2>5
<1>6. K \in T
  <2>1. \A k \in 0 .. (K - 1) : k \in T => k + 1 \in T
    BY <1>5
  <2> HIDE DEF T, K
  <2>2. \A k \in 0 .. K : k \in T
    BY <1>0, <1>4, <2>1, UpTo
  <2> QED BY <1>0, <2>2
<1>7. Migrated(table, f[K], K)
  BY <1>6, <1>1
<1>8. Done(K) = Nodes
  BY PeersAssumption DEF Done, Nodes, Range
<1> HIDE DEF K, T
<1>9. PICK a : a = f[K]
  OBVIOUS
<1>10. Migrated(table, a, K) /\ migrate_virtual_ipv4(table).table = a.table
  BY <1>1, <1>7, <1>9, Zenon
<1>11. PICK after : after = a.table
  OBVIOUS
<1>12. after \in Tables /\ a.used \subseteq 1 .. Hosts
  BY <1>10, <1>11, Zenon DEF Migrated
<1>13. \A n \in Nodes : after[n] # None => after[n].addr \in a.used
  BY <1>8, <1>10, <1>11, Zenon DEF Migrated
<1>14. \A n, m \in Nodes : (n # m /\ after[n] # None /\ after[m] # None)
                             => after[n].addr # after[m].addr
  BY <1>8, <1>10, <1>11, Zenon DEF Migrated
<1> QED BY <1>10, <1>11, <1>12, <1>13, <1>14, Zenon

-----------------------------------------------------------------------------
(* What each step of a handler makes of its record *)

HandPcs == {"idle", "load", "alloc", "store", "bump", "bumped", "online", "reply", "ended"}
HandKinds == {"none", "register", "update", "request", "end"}
Addresses == (1 .. Hosts) \cup {None}
Someone == Nodes \cup {None}
HandType == [pc : HandPcs, kind : HandKinds, node : Someone, reg : Someone,
             addr : Addresses]

\* What the fields of a handler say of each other.
Shape(h) ==
  /\ h.pc \in {"load", "store"} => h.kind \in {"register", "update"}
  /\ h.pc \in {"alloc", "online"} => h.kind = "register"
  /\ h.pc \in {"bump", "bumped"} => h.kind \in {"register", "update", "end"}
  /\ h.pc = "reply" => h.kind \in {"register", "update", "request"}
  /\ h.kind \in {"register", "update"} => h.node \in Nodes
  /\ h.kind = "end" => h.reg = None
  /\ h.addr # None => h.pc \in {"alloc", "store"}
  /\ h.pc = "store" => h.addr # None

RowsInv ==
  /\ rows \in Tables
  /\ Running => \A n \in Nodes : rows[n] # None => rows[n].addr \in 1 .. Hosts
HandInv == hand \in [Conns -> HandType] /\ \A c \in Conns : Shape(hand[c])

\* The fields of a handler's record.
Is(h, p, k, n, r, a) ==
  h.pc = p /\ h.kind = k /\ h.node = n /\ h.reg = r /\ h.addr = a

\* The handler of connection c gets to a record with these fields.
Becomes(c, p, k, n, r, a) ==
  /\ HandInv'
  /\ \A d \in Conns \ {c} : hand'[d] = hand[d]
  /\ Is(hand'[c], p, k, n, r, a)

\* A record g of the type and shape a handler may have.
LEMMA BecomesBy ==
  ASSUME HandInv, NEW c \in Conns, NEW g \in HandType, hand' = [hand EXCEPT ![c] = g],
         NEW p, NEW k, NEW n, NEW r, NEW a, Is(g, p, k, n, r, a), Shape(g)
  PROVE  Becomes(c, p, k, n, r, a)
<1>1. hand' \in [Conns -> HandType] /\ hand'[c] = g /\ \A d \in Conns \ {c} : hand'[d] = hand[d]
  BY DEF HandInv
<1>2. HandInv'
  BY <1>1 DEF HandInv
<1> QED BY <1>1, <1>2, Zenon DEF Becomes

\* The fields of an idle handler.
LEMMA IdleIs ==
  ASSUME NEW r \in Someone
  PROVE  Idle(r) \in HandType /\ Shape(Idle(r)) /\ Is(Idle(r), "idle", "none", None, r, None)
BY DEF Idle, HandType, Someone, Addresses, HandPcs, HandKinds, Shape, Is

\* A handler that is idle again.
LEMMA BecomesIdle ==
  ASSUME HandInv, NEW c \in Conns, NEW r \in Someone, SetHand(c, Idle(r))
  PROVE  Becomes(c, "idle", "none", None, r, None)
<1>1. hand' = [hand EXCEPT ![c] = Idle(r)]
  BY DEF SetHand
<1> QED BY <1>1, IdleIs, BecomesBy, Zenon

\* A live peer has a row with an address of the network.
LEMMA LiveRow ==
  ASSUME RowsInv, Running, NEW n \in Nodes, Live(n)
  PROVE  rows[n] # None /\ rows[n].addr \in 1 .. Hosts
BY DEF RowsInv, Live

\* None is no address.
LEMMA NoneAddress == None \notin 1 .. Hosts
BY RegistryAssumption

\* A registration starts with load_peer.
LEMMA RegisterTo ==
  ASSUME HandInv, NEW c \in Conns, NEW n \in Nodes,
         RegisterCredential(c, n) \/ \E i \in Invites : RegisterInvite(c, n, i)
  PROVE  Becomes(c, "load", "register", n, hand[c].reg, None)
<1> DEFINE r == hand[c].reg
           h == Idle(r)
           g == [h EXCEPT !.pc = "load", !.kind = "register", !.node = n]
<1>1. hand' = [hand EXCEPT ![c] = g]
  BY Zenon DEF RegisterCredential, RegisterInvite, SetHand
<1>r. r \in Someone
  BY DEF HandInv, HandType
<1> HIDE DEF r
<1>2. h \in HandType /\ Is(h, "idle", "none", None, r, None)
  BY <1>r, IdleIs, Zenon
<1> HIDE DEF h
<1>3. g.pc = "load" /\ g.kind = "register" /\ g.node = n /\ g.reg = r /\ g.addr = None
  BY <1>2 DEF HandType, Is
<1>5. g \in HandType
  BY <1>2, Zenon DEF HandType, Someone, HandPcs, HandKinds
<1> HIDE DEF g
<1>6. Shape(g) /\ Is(g, "load", "register", n, r, None)
  BY <1>3 DEF Shape, Is
<1> QED BY <1>1, <1>5, <1>6, BecomesBy, Zenon DEF r

\* So does an update of the candidates, for the registered node.
LEMMA UpdateTo ==
  ASSUME HandInv, NEW c \in Conns, UpdateCandidates(c)
  PROVE  hand[c].reg \in Nodes /\ Becomes(c, "load", "update", hand[c].reg, hand[c].reg, None)
<1> DEFINE r == hand[c].reg
           h == Idle(r)
           g == [h EXCEPT !.pc = "load", !.kind = "update", !.node = r]
<1>1. hand' = [hand EXCEPT ![c] = g]
  BY Zenon DEF UpdateCandidates, SetHand
<1>r. r \in Nodes
  BY DEF UpdateCandidates, HandInv, HandType, Someone
<1> HIDE DEF r
<1>2. h \in HandType /\ Is(h, "idle", "none", None, r, None)
  BY <1>r, IdleIs, Zenon DEF Someone
<1> HIDE DEF h
<1>3. g.pc = "load" /\ g.kind = "update" /\ g.node = r /\ g.reg = r /\ g.addr = None
  BY <1>2 DEF HandType, Is
<1>5. g \in HandType
  BY <1>2, <1>r, Zenon DEF HandType, Someone, HandPcs, HandKinds
<1> HIDE DEF g
<1>6. Shape(g) /\ Is(g, "load", "update", r, r, None)
  BY <1>r, <1>3 DEF Shape, Is
<1> QED BY <1>1, <1>r, <1>5, <1>6, BecomesBy, Zenon DEF r

\* RequestSnapshot leads to the reply.
LEMMA RequestTo ==
  ASSUME HandInv, NEW c \in Conns, RequestSnapshot(c)
  PROVE  hand[c].reg \in Nodes /\ Becomes(c, "reply", "request", None, hand[c].reg, None)
<1> DEFINE r == hand[c].reg
           h == Idle(r)
           g == [h EXCEPT !.pc = "reply", !.kind = "request"]
<1>1. hand' = [hand EXCEPT ![c] = g]
  BY Zenon DEF RequestSnapshot, SetHand
<1>r. r \in Nodes
  BY DEF RequestSnapshot, HandInv, HandType, Someone
<1> HIDE DEF r
<1>2. h \in HandType /\ Is(h, "idle", "none", None, r, None)
  BY <1>r, IdleIs, Zenon DEF Someone
<1> HIDE DEF h
<1>3. g.pc = "reply" /\ g.kind = "request" /\ g.node = None /\ g.reg = r /\ g.addr = None
  BY <1>2 DEF HandType, Is
<1>5. g \in HandType
  BY <1>2, Zenon DEF HandType, HandPcs, HandKinds
<1> HIDE DEF g
<1>6. Shape(g) /\ Is(g, "reply", "request", None, r, None)
  BY <1>3 DEF Shape, Is
<1> QED BY <1>1, <1>r, <1>5, <1>6, BecomesBy, Zenon DEF r

\* A handler with an address in hand.
LEMMA GetsAddress ==
  ASSUME HandInv, NEW c \in Conns, NEW p \in {"alloc", "store"}, NEW a \in Addresses,
         p = "store" => a # None, hand[c].kind = "update" => p = "store",
         hand[c].kind \in {"register", "update"},
         hand' = [hand EXCEPT ![c] = [hand[c] EXCEPT !.pc = p, !.addr = a]]
  PROVE  Becomes(c, p, hand[c].kind, hand[c].node, hand[c].reg, a)
<1> DEFINE h == hand[c]
           g == [h EXCEPT !.pc = p, !.addr = a]
<1>1. hand' = [hand EXCEPT ![c] = g]
  OBVIOUS
<1>2. h \in HandType /\ Shape(h) /\ h.kind \in {"register", "update"}
      /\ (h.kind = "update" => p = "store")
  BY DEF HandInv
<1> HIDE DEF h
<1>3. g.pc = p /\ g.kind = h.kind /\ g.node = h.node /\ g.reg = h.reg /\ g.addr = a
  BY <1>2 DEF HandType
<1>5. g \in HandType
  BY <1>2, Zenon DEF HandType, HandPcs
<1> HIDE DEF g
<1>6. Shape(g) /\ Is(g, p, h.kind, h.node, h.reg, a)
  BY <1>2, <1>3 DEF Shape, Is
<1>7. Becomes(c, p, h.kind, h.node, h.reg, a)
  BY <1>1, <1>5, <1>6, BecomesBy, Zenon
<1> QED BY <1>7, Zenon DEF h

\* A handler that goes on to its next step.
LEMMA GoesTo ==
  ASSUME HandInv, NEW c \in Conns, NEW p \in {"bumped", "online", "reply"},
         hand[c].kind \in {"register", "update", "end"}, hand[c].addr = None,
         p = "online" => hand[c].kind = "register", p = "reply" => hand[c].kind # "end",
         hand' = [hand EXCEPT ![c] = [hand[c] EXCEPT !.pc = p]]
  PROVE  Becomes(c, p, hand[c].kind, hand[c].node, hand[c].reg, None)
<1> DEFINE h == hand[c]
           g == [h EXCEPT !.pc = p]
<1>1. hand' = [hand EXCEPT ![c] = g]
  OBVIOUS
<1>2. h \in HandType /\ Shape(h) /\ h.kind \in {"register", "update", "end"} /\ h.addr = None
      /\ (p = "online" => h.kind = "register") /\ (p = "reply" => h.kind # "end")
  BY DEF HandInv
<1> HIDE DEF h
<1>3. g.pc = p /\ g.kind = h.kind /\ g.node = h.node /\ g.reg = h.reg /\ g.addr = None
  BY <1>2 DEF HandType
<1>5. g \in HandType
  BY <1>2 DEF HandType, HandPcs
<1> HIDE DEF g
<1>6. Shape(g) /\ Is(g, p, h.kind, h.node, h.reg, None)
  BY <1>2, <1>3 DEF Shape, Is
<1>7. Becomes(c, p, h.kind, h.node, h.reg, None)
  BY <1>1, <1>5, <1>6, BecomesBy, Zenon
<1> QED BY <1>7, Zenon DEF h

\* load_peer: a registration has the address of its row or none yet, an update
\* the address of its row; an update without a row is over.
LEMMA LoadTo ==
  ASSUME HandInv, RowsInv, NEW c \in Conns, load_peer(c)
  PROVE  /\ hand[c].node \in Nodes /\ Running
         /\ \/ /\ hand[c].kind = "register"
               /\ \/ ~Live(hand[c].node) /\ Becomes(c, "alloc", "register", hand[c].node, hand[c].reg, None)
                  \/ /\ Live(hand[c].node)
                     /\ Becomes(c, "alloc", "register", hand[c].node, hand[c].reg, rows[hand[c].node].addr)
            \/ /\ hand[c].kind = "update"
               /\ \/ Becomes(c, "idle", "none", None, hand[c].reg, None)
                  \/ /\ Live(hand[c].node)
                     /\ Becomes(c, "store", "update", hand[c].node, hand[c].reg, rows[hand[c].node].addr)
<1> DEFINE n == hand[c].node
           found == Live(n)
           addr == IF found THEN rows[n].addr ELSE None
<1>1. hand' = [hand EXCEPT ![c] = CASE hand[c].kind = "register" -> [hand[c] EXCEPT !.pc = "alloc", !.addr = addr]
                      [] hand[c].kind = "update" /\ found -> [hand[c] EXCEPT !.pc = "store", !.addr = rows[n].addr]
                      [] OTHER -> Idle(hand[c].reg)]
  BY Zenon DEF load_peer, SetHand
<1>2. hand[c].pc = "load" /\ Running /\ hand[c] \in HandType /\ Shape(hand[c])
  BY DEF load_peer, Query, At, HandInv
<1>3. hand[c].kind \in {"register", "update"} /\ n \in Nodes /\ hand[c].reg \in Someone
  BY <1>2 DEF Shape, HandType
<1>4. found => rows[n].addr \in 1 .. Hosts
  BY <1>2, <1>3, LiveRow
<1>5. addr \in Addresses
  BY <1>4 DEF Addresses
<1>6. CASE hand[c].kind = "register"
  <2>1. hand' = [hand EXCEPT ![c] = [hand[c] EXCEPT !.pc = "alloc", !.addr = addr]]
    <3> HIDE DEF addr, found, n
    <3> QED BY <1>1, <1>6
  <2>3. Becomes(c, "alloc", "register", n, hand[c].reg, addr)
    <3> HIDE DEF addr
    <3>1. Becomes(c, "alloc", hand[c].kind, hand[c].node, hand[c].reg, addr)
      BY <2>1, <1>3, <1>5, <1>6, GetsAddress, Zenon
    <3> QED BY <3>1, <1>6, Zenon
  <2> QED BY <1>2, <1>3, <1>6, <2>3, Zenon
<1>7. CASE hand[c].kind = "update" /\ found
  <2>1. hand' = [hand EXCEPT ![c] = [hand[c] EXCEPT !.pc = "store", !.addr = rows[n].addr]]
    <3> HIDE DEF found, n
    <3> QED BY <1>1, <1>7
  <2>2. rows[n].addr \in Addresses /\ rows[n].addr # None
    BY <1>4, <1>7, NoneAddress DEF Addresses
  <2>3. Becomes(c, "store", "update", n, hand[c].reg, rows[n].addr)
    <3>1. Becomes(c, "store", hand[c].kind, hand[c].node, hand[c].reg, rows[n].addr)
      BY <2>1, <2>2, <1>3, <1>7, GetsAddress, Zenon
    <3> QED BY <3>1, <1>7, Zenon
  <2> QED BY <1>2, <1>3, <1>7, <2>3, Zenon
<1>8. CASE hand[c].kind = "update" /\ ~found
  <2>1. SetHand(c, Idle(hand[c].reg))
    <3> HIDE DEF found, n
    <3> QED BY <1>1, <1>8 DEF SetHand
  <2>2. Becomes(c, "idle", "none", None, hand[c].reg, None)
    BY <2>1, <1>3, BecomesIdle, Zenon
  <2> QED BY <1>2, <1>3, <1>8, <2>2, Zenon
<1> QED BY <1>3, <1>6, <1>7, <1>8, Zenon

\* allocate_virtual_ipv4: the address in hand, a free one, or no registration.
LEMMA AllocTo ==
  ASSUME HandInv, NEW c \in Conns, allocate_virtual_ipv4(c)
  PROVE  /\ hand[c].kind = "register" /\ hand[c].node \in Nodes
         /\ \/ Becomes(c, "idle", "none", None, hand[c].reg, None)
            \/ \E a \in 1 .. Hosts :
                 /\ Becomes(c, "store", "register", hand[c].node, hand[c].reg, a)
                 /\ hand[c].addr # None => a = hand[c].addr
                 /\ hand[c].addr = None => a \notin Taken
<1> DEFINE free == FreeOffsets(hand[c].node, Taken)
           new == Host(hand[c].node, Min(free))
           a == IF hand[c].addr = None THEN new ELSE hand[c].addr
<1>1. hand' = [hand EXCEPT ![c] = IF free = {} THEN Idle(hand[c].reg)
                                  ELSE [hand[c] EXCEPT !.pc = "store", !.addr = a]]
  BY Zenon DEF allocate_virtual_ipv4, SetHand
<1>2. hand[c].pc = "alloc" /\ hand[c] \in HandType /\ Shape(hand[c])
  BY DEF allocate_virtual_ipv4, Query, At, HandInv
<1>3. hand[c].kind = "register" /\ hand[c].node \in Nodes /\ hand[c].reg \in Someone
      /\ hand[c].addr \in Addresses
  BY <1>2 DEF Shape, HandType
<1>4. CASE free = {}
  <2>1. SetHand(c, Idle(hand[c].reg))
    <3> HIDE DEF free, a
    <3> QED BY <1>1, <1>4 DEF SetHand
  <2> QED BY <1>3, <2>1, BecomesIdle, Zenon
<1>5. CASE free # {}
  <2>1. hand' = [hand EXCEPT ![c] = [hand[c] EXCEPT !.pc = "store", !.addr = a]]
    <3> HIDE DEF free, a
    <3> QED BY <1>1, <1>5, Zenon
  <2>2. new \in 1 .. Hosts /\ new \notin Taken
    BY <1>5, <1>3, HostFree
  <2> HIDE DEF new, free
  <2>3. /\ a \in 1 .. Hosts /\ a \in Addresses /\ a # None
        /\ (hand[c].addr # None => a = hand[c].addr) /\ (hand[c].addr = None => a \notin Taken)
    BY <2>2, <1>3, NoneAddress DEF Addresses
  <2> HIDE DEF a
  <2>4. Becomes(c, "store", hand[c].kind, hand[c].node, hand[c].reg, a)
    BY <2>1, <2>3, <1>3, GetsAddress, Zenon
  <2>5. Becomes(c, "store", "register", hand[c].node, hand[c].reg, a)
    BY <2>4, <1>3, Zenon
  <2> QED BY <1>3, <2>3, <2>5, Zenon
<1> QED BY <1>4, <1>5, Zenon

\* update_peer: the broadcast comes next, or only the reply.
LEMMA StoreTo ==
  ASSUME HandInv, NEW c \in Conns, update_peer(c)
  PROVE  /\ hand[c].kind \in {"register", "update"} /\ hand[c].node \in Nodes
         /\ hand[c].addr \in 1 .. Hosts /\ hand[c].addr # None
         /\ \E p \in {"bump", "reply"} :
              /\ Becomes(c, p, hand[c].kind, hand[c].node, hand[c].reg, None)
              /\ p = "reply" => hand[c].kind = "update"
<1>1. \E p \in {"bump", "reply"} :
        /\ hand' = [hand EXCEPT ![c] = [hand[c] EXCEPT !.pc = p, !.addr = None]]
        /\ p = "reply" => hand[c].kind = "update"
  <2>1. \/ hand' = [hand EXCEPT ![c] = [hand[c] EXCEPT !.pc = "bump", !.addr = None]]
        \/ /\ hand[c].kind = "update"
           /\ hand' = [hand EXCEPT ![c] = [hand[c] EXCEPT !.pc = "reply", !.addr = None]]
    BY Zenon DEF update_peer, SetHand
  <2> QED BY <2>1, Zenon
<1>2. hand[c].pc = "store" /\ hand[c] \in HandType /\ Shape(hand[c])
  BY DEF update_peer, Query, At, HandInv
<1>3. hand[c].kind \in {"register", "update"} /\ hand[c].node \in Nodes
      /\ hand[c].addr \in 1 .. Hosts /\ hand[c].addr # None
  BY <1>2 DEF Shape, HandType, Addresses
<1>4. PICK p \in {"bump", "reply"} :
        /\ hand' = [hand EXCEPT ![c] = [hand[c] EXCEPT !.pc = p, !.addr = None]]
        /\ p = "reply" => hand[c].kind = "update"
  BY <1>1, Zenon
<1> DEFINE h == hand[c]
           g == [h EXCEPT !.pc = p, !.addr = None]
<1>5. hand' = [hand EXCEPT ![c] = g]
  BY <1>4
<1>6. h \in HandType /\ Shape(h) /\ h.kind \in {"register", "update"}
      /\ (p = "reply" => h.kind = "update")
  BY <1>2, <1>3, <1>4
<1>7. Becomes(c, p, h.kind, h.node, h.reg, None)
  <2> HIDE DEF h
  <2>1. g.pc = p /\ g.kind = h.kind /\ g.node = h.node /\ g.reg = h.reg /\ g.addr = None
    BY <1>6 DEF HandType
  <2>3. g \in HandType
    BY <1>6, Zenon DEF HandType, HandPcs, Addresses
  <2> HIDE DEF g
  <2>4. Shape(g) /\ Is(g, p, h.kind, h.node, h.reg, None)
    BY <1>6, <2>1 DEF Shape, Is
  <2> QED BY <1>5, <2>3, <2>4, BecomesBy, Zenon
<1> QED BY <1>3, <1>4, <1>7, Zenon

\* The first half of bump_snapshot.
LEMMA BumpTo ==
  ASSUME HandInv, NEW c \in Conns, HandlerBump(c)
  PROVE  /\ hand[c].pc = "bump"
         /\ Becomes(c, "bumped", hand[c].kind, hand[c].node, hand[c].reg, None)
<1>1. hand' = [hand EXCEPT ![c] = [hand[c] EXCEPT !.pc = "bumped"]] /\ hand[c].pc = "bump"
  BY Zenon DEF HandlerBump, SetHand, Query, At
<1>2. hand[c].kind \in {"register", "update", "end"} /\ hand[c].addr = None
  BY <1>1 DEF HandInv, Shape
<1> QED BY <1>1, <1>2, GoesTo, Zenon

\* After the second half a registration goes online; an update and an end are
\* over.
LEMMA BumpedTo ==
  ASSUME HandInv, NEW c \in Conns, HandlerBumped(c)
  PROVE  /\ hand[c].pc = "bumped"
         /\ \/ /\ hand[c].kind = "register"
               /\ Becomes(c, "online", "register", hand[c].node, hand[c].reg, None)
            \/ hand[c].kind = "update" /\ Becomes(c, "idle", "none", None, hand[c].reg, None)
            \/ hand[c].kind = "end" /\ Becomes(c, "ended", "none", None, None, None)
<1>1. /\ hand' = [hand EXCEPT ![c] = CASE hand[c].kind = "register" -> [hand[c] EXCEPT !.pc = "online"]
                                    [] hand[c].kind = "update" -> Idle(hand[c].reg)
                                    [] OTHER -> [Idle(None) EXCEPT !.pc = "ended"]]
      /\ hand[c].pc = "bumped"
  BY Zenon DEF HandlerBumped, SetHand, At
<1>2. hand[c].kind \in {"register", "update", "end"} /\ hand[c].addr = None
  BY <1>1 DEF HandInv, Shape, HandType
<1>3. CASE hand[c].kind = "register"
  <2>1. hand' = [hand EXCEPT ![c] = [hand[c] EXCEPT !.pc = "online"]]
    BY <1>1, <1>3
  <2>2. Becomes(c, "online", hand[c].kind, hand[c].node, hand[c].reg, None)
    BY <2>1, <1>2, <1>3, GoesTo, Zenon
  <2> QED BY <1>1, <1>2, <1>3, <2>2, Zenon
<1>4. CASE hand[c].kind = "update"
  <2>1. SetHand(c, Idle(hand[c].reg))
    BY <1>1, <1>4 DEF SetHand
  <2>2. hand[c].reg \in Someone
    BY DEF HandInv, HandType
  <2> QED BY <1>1, <1>2, <1>4, <2>1, <2>2, BecomesIdle, Zenon
<1>5. CASE hand[c].kind = "end"
  <2> DEFINE h == Idle(None)
             g == [h EXCEPT !.pc = "ended"]
  <2>1. hand' = [hand EXCEPT ![c] = g]
    BY <1>1, <1>5
  <2>2. h \in HandType /\ Is(h, "idle", "none", None, None, None)
    BY IdleIs, Zenon DEF Someone
  <2> HIDE DEF h
  <2>3. g.pc = "ended" /\ g.kind = "none" /\ g.node = None /\ g.reg = None /\ g.addr = None
    BY <2>2 DEF HandType, Is
  <2>5. g \in HandType
    BY <2>2 DEF HandType, HandPcs
  <2> HIDE DEF g
  <2>6. Shape(g) /\ Is(g, "ended", "none", None, None, None)
    BY <2>3 DEF Shape, Is
  <2>7. Becomes(c, "ended", "none", None, None, None)
    BY <2>1, <2>5, <2>6, BecomesBy, Zenon
  <2> QED BY <1>1, <1>2, <1>5, <2>7, Zenon
<1> QED BY <1>2, <1>3, <1>4, <1>5, Zenon

\* A session that is online has its reply to come.
LEMMA OnlineTo ==
  ASSUME HandInv, NEW c \in Conns, GoOnline(c)
  PROVE  /\ hand[c].pc = "online" /\ hand[c].kind = "register" /\ hand[c].node \in Nodes
         /\ Becomes(c, "reply", "register", hand[c].node, hand[c].reg, None)
<1>1. hand' = [hand EXCEPT ![c] = [hand[c] EXCEPT !.pc = "reply"]] /\ hand[c].pc = "online"
  BY Zenon DEF GoOnline, SetHand, At
<1>2. hand[c].kind = "register" /\ hand[c].addr = None /\ hand[c].node \in Nodes
  BY <1>1 DEF HandInv, Shape
<1>3. Becomes(c, "reply", hand[c].kind, hand[c].node, hand[c].reg, None)
  BY <1>1, <1>2, GoesTo, Zenon
<1> QED BY <1>1, <1>2, <1>3, Zenon

\* The reply completes a registration.
LEMMA ReplyTo ==
  ASSUME HandInv, NEW c \in Conns, Reply(c)
  PROVE  /\ hand[c].pc = "reply"
         /\ \/ /\ hand[c].kind = "register" /\ hand[c].node \in Nodes
               /\ Becomes(c, "idle", "none", None, hand[c].node, None)
            \/ /\ hand[c].kind # "register"
               /\ Becomes(c, "idle", "none", None, hand[c].reg, None)
<1> DEFINE r == IF hand[c].kind = "register" THEN hand[c].node ELSE hand[c].reg
<1>1. SetHand(c, Idle(r)) /\ hand[c].pc = "reply"
  BY Zenon DEF Reply, Query, At
<1>2. hand[c].reg \in Someone /\ r \in Someone
      /\ (hand[c].kind = "register" => hand[c].node \in Nodes)
  BY <1>1 DEF HandInv, Shape, HandType, Someone
<1>3. Becomes(c, "idle", "none", None, r, None)
  <2> HIDE DEF r
  <2> QED BY <1>1, <1>2, BecomesIdle, Zenon
<1> QED BY <1>1, <1>2, <1>3, Zenon

\* A reply that cannot be queued leaves the connection with the node it had
\* registered before.
LEMMA ReplyFailsTo ==
  ASSUME HandInv, NEW c \in Conns, ReplyFails(c)
  PROVE  hand[c].pc = "reply" /\ Becomes(c, "idle", "none", None, hand[c].reg, None)
<1>1. SetHand(c, Idle(hand[c].reg)) /\ hand[c].pc = "reply"
  BY Zenon DEF ReplyFails, Query, At
<1>2. hand[c].reg \in Someone
  BY DEF HandInv, HandType
<1> QED BY <1>1, <1>2, BecomesIdle, Zenon

\* The end of a connection: a session that was the last of its node leads to a
\* new generation.
LEMMA EndTo ==
  ASSUME HandInv, NEW c \in Conns, End(c)
  PROVE  /\ hand[c].pc = "idle"
         /\ \/ Becomes(c, "bump", "end", hand[c].node, None, None)
            \/ Becomes(c, "ended", hand[c].kind, hand[c].node, None, None)
<1> DEFINE h == hand[c]
           last == hand[c].reg # None /\ online[hand[c].reg] = {c}
<1>1. hand' = [hand EXCEPT ![c] = IF last THEN [h EXCEPT !.pc = "bump", !.kind = "end", !.reg = None]
                                          ELSE [h EXCEPT !.pc = "ended", !.reg = None]]
  BY Zenon DEF End, SetHand
<1>2. h.pc = "idle" /\ h \in HandType /\ Shape(h)
  BY DEF End, At, HandInv
<1>3. h.addr = None
  BY <1>2 DEF Shape
<1>4. CASE last
  <2> DEFINE g == [h EXCEPT !.pc = "bump", !.kind = "end", !.reg = None]
  <2>1. hand' = [hand EXCEPT ![c] = g]
    <3> HIDE DEF last
    <3> QED BY <1>1, <1>4
  <2> HIDE DEF h
  <2>3. g.pc = "bump" /\ g.kind = "end" /\ g.node = h.node /\ g.reg = None /\ g.addr = None
    BY <1>2, <1>3 DEF HandType
  <2>5. g \in HandType
    BY <1>2, Zenon DEF HandType, HandPcs, HandKinds, Someone
  <2> HIDE DEF g
  <2>6. Shape(g) /\ Is(g, "bump", "end", h.node, None, None)
    BY <2>3 DEF Shape, Is
  <2>7. Becomes(c, "bump", "end", h.node, None, None)
    BY <2>1, <2>5, <2>6, BecomesBy, Zenon
  <2> QED BY <1>2, <2>7, Zenon DEF h
<1>5. CASE ~last
  <2> DEFINE g == [h EXCEPT !.pc = "ended", !.reg = None]
  <2>1. hand' = [hand EXCEPT ![c] = g]
    <3> HIDE DEF last
    <3> QED BY <1>1, <1>5
  <2> HIDE DEF h
  <2>3. g.pc = "ended" /\ g.kind = h.kind /\ g.node = h.node /\ g.reg = None /\ g.addr = None
    BY <1>2, <1>3 DEF HandType
  <2>5. g \in HandType
    BY <1>2, Zenon DEF HandType, HandPcs, Someone
  <2> HIDE DEF g
  <2>6. Shape(g) /\ Is(g, "ended", h.kind, h.node, None, None)
    BY <1>2, <2>3 DEF Shape, Is
  <2>7. Becomes(c, "ended", h.kind, h.node, None, None)
    BY <2>1, <2>5, <2>6, BecomesBy, Zenon
  <2> QED BY <1>2, <2>7, Zenon DEF h
<1> QED BY <1>4, <1>5, Zenon
=============================================================================
