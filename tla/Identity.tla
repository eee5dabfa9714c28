------------------------------ MODULE Identity ------------------------------
(***************************************************************************)
(* The identity handlers of the control plane and the transactions they    *)
(* append their events in: managed users, user groups, roles and grants    *)
(* through the CRUD kernel, SCIM provisioning, OIDC sign-in, first boot,   *)
(* and the store's own invalidations.  Callers run concurrently; each      *)
(* transaction is READ COMMITTED, so a statement sees the committed table  *)
(* under the caller's own writes, and waits for another transaction's      *)
(* uncommitted event on its stream, row or unique value.  An event whose   *)
(* type may reduce the administrators is appended under the last-admin     *)
(* advisory lock, between two counts.                                      *)
(***************************************************************************)
EXTENDS Directory

CONSTANTS Callers, NoCaller,
          Setup,            \* the history before the first call, in commit order
          MaxCalls          \* bound on the handler calls of a behaviour

VARIABLES table,    \* committed projections
          events,   \* committed events, by stream
          tx,       \* each caller's transaction
          lock,     \* holder of the last-admin advisory lock
          calls

vars == <<table, events, tx, lock, calls>>

NoWrites == [k \in {} |-> NoRow]
NoEvents == [s \in Streams |-> << >>]

\* A transaction has its batch and its place in it, the version it appends at,
\* the administrators it counted, and the rows and events it has not committed.
Idle == [pc |-> "idle", batch |-> << >>, pinned |-> FALSE, version |-> 0,
         at |-> 0, before |-> 0, writes |-> NoWrites, log |-> NoEvents]

Over(t, w) == [k \in Keys |-> IF k \in DOMAIN w THEN w[k] ELSE t[k]]
Changes(t, new) == [k \in {x \in Keys : t[x] # new[x]} |-> new[k]]

Extend(log, more) == [s \in Streams |-> log[s] \o more[s]]
OfStream(es, s) == SelectSeq(es, LAMBDA e : e.stream = s)

\* The history replayed in commit order, with the versions it gave.
Numbered == [i \in DOMAIN Setup |->
  [Setup[i] EXCEPT !.version = Len(OfStream(SubSeq(Setup, 1, i), Setup[i].stream))]]

SetupTable ==
  LET after[n \in 0 .. Len(Setup)] ==
        IF n = 0 THEN [k \in Keys |-> NoRow]
        ELSE LET before == after[n - 1] IN project(before, Numbered[n], FALSE).table
  IN after[Len(Setup)]
SetupEvents == [s \in Streams |-> OfStream(Numbered, s)]

\* The projectors accept the events of the set-up.
IsLog(log) == Len(log) \in Nat /\ log = [i \in 1 .. Len(log) |-> log[i]]
ASSUME SetupAssumption ==
  /\ IsTable(SetupTable) /\ MembersLive(SetupTable)
  /\ \A s \in Streams : IsLog(SetupEvents[s])

ASSUME CallersAssumption == NoCaller \notin Callers

Init ==
  /\ table = SetupTable
  /\ events = SetupEvents
  /\ tx = [c \in Callers |-> Idle]
  /\ lock = NoCaller
  /\ calls = 0

-----------------------------------------------------------------------------
(* What a transaction sees, and whom it waits for *)

View(c) == Over(table, tx[c].writes)
LogView(c) == Extend(events, tx[c].log)
Current(c) == tx[c].batch[tx[c].at + 1]
CurrentStreamVersion(c, s) == Len(LogView(c)[s])
Protected(e) == e.type \in lastAdminReductionEventTypes

\* Unique values an event's projector puts in an index, and those the row of a
\* stream has there.
Claims(e) ==
  CASE e.type \in {"UserCreated", "UserManagedUpdated", "SCIMGroupCreated", "SCIMGroupUpdated",
                    "UserGroupMetadataUpdated"} -> {e.arg}
    [] e.type \in {"OIDCIdentityLinked", "SCIMIdentityLinked"} -> {e.arg.id}
    [] e.type \in {"UserGroupCreated", "UserGroupUpdated", "RoleCreated", "RoleUpdated"} ->
         {e.arg.name}
    [] OTHER -> {}
Held(t, s) ==
  IF ~Live(t, s) THEN {}
  ELSE CASE s \in Users -> {t[s].email} \cup t[s].links
         [] s \in Groups -> {t[s]}
         [] s \in Roles -> {t[s].name}
         [] OTHER -> {}
SameTable(s, q) == \E tab \in {Users, UserGroups, SCIMGroups, Roles, Grants} : {s, q} \subseteq tab

\* An insert waits for an open transaction that has put an event on the stream,
\* has written a row the projector writes, or has put in or taken out a unique
\* value the projector puts in.
InsertWaitsFor(c) ==
  LET e == Current(c)
      new == project(View(c), [e EXCEPT !.version = tx[c].version + 1], FALSE).table
      rows == DOMAIN Changes(View(c), new)
  IN {q \in Callers \ {c} :
        \/ tx[q].log[e.stream] # << >>
        \/ DOMAIN tx[q].writes \cap rows # {}
        \/ \E s \in Streams \cap DOMAIN tx[q].writes :
             SameTable(e.stream, s) /\ Claims(e) \cap (Held(tx[q].writes, s) \cup Held(table, s)) # {}}

\* The foreign key of a grant waits for an open deletion of its role.
CommitWaitsFor(c) ==
  {q \in Callers \ {c} : \E g \in Grants \cap DOMAIN tx[c].writes :
     /\ tx[c].writes[g] # NoRow
     /\ tx[c].writes[g].role \in DOMAIN tx[q].writes
     /\ tx[q].writes[tx[c].writes[g].role] = NoRow}

WaitsFor(c) ==
  CASE tx[c].pc = "lock" -> {lock} \ {c, NoCaller}
    [] tx[c].pc = "insert" -> InsertWaitsFor(c)
    [] tx[c].pc = "commit" -> CommitWaitsFor(c)
    [] OTHER -> {}

-----------------------------------------------------------------------------
(* The append of a batch *)

Release(c) == lock' = IF lock = c THEN NoCaller ELSE lock

\* A refused append rolls back and returns its error to the caller.
Fail(c) ==
  /\ tx' = [tx EXCEPT ![c] = Idle]
  /\ Release(c)
  /\ UNCHANGED <<table, events, calls>>

\* appendPrepared: under the last-admin policy where the type asks for it.
Enter(e) == IF Protected(e) THEN "lock" ELSE "insert"

\* The version a batch is appended at.  A pinned batch compares it once with
\* the caller's; an unpinned one reads it for each event.
ReadVersion(c) ==
  /\ tx[c].pc = "read"
  /\ LET seen == CurrentStreamVersion(c, Current(c).stream)
     IN IF tx[c].pinned /\ seen # tx[c].version
        THEN Fail(c)
        ELSE /\ tx' = [tx EXCEPT ![c].pc = Enter(Current(c)), ![c].version = seen]
             /\ UNCHANGED <<table, events, lock, calls>>

\* Mutant: the two counts without the lock around them.
MutAcquireLastAdminMutationLock(c) ==
  /\ tx[c].pc = "lock"
  /\ tx' = [tx EXCEPT ![c].pc = "insert",
                      ![c].before = CountEnabledAdmins(View(c), LogView(c))]
  /\ UNCHANGED <<table, events, lock, calls>>

AcquireLastAdminMutationLock(c) ==
  /\ tx[c].pc = "lock" /\ WaitsFor(c) = {}
  /\ lock' = c
  /\ tx' = [tx EXCEPT ![c].pc = "insert",
                      ![c].before = CountEnabledAdmins(View(c), LogView(c))]
  /\ UNCHANGED <<table, events, calls>>

\* What follows an event: the next one, or the commit.
After(r) ==
  [r EXCEPT !.pc = IF r.at = Len(r.batch) THEN "commit"
                   ELSE IF r.pinned THEN Enter(r.batch[r.at + 1]) ELSE "read"]

\* The events_stream_version_key index: a taken version fails a pinned append
\* and starts an unpinned batch over.
VersionTaken(c) ==
  /\ tx[c].pc = "insert" /\ WaitsFor(c) = {}
  /\ tx[c].version # CurrentStreamVersion(c, Current(c).stream)
  /\ IF tx[c].pinned
     THEN Fail(c)
     ELSE /\ tx' = [tx EXCEPT ![c] = [Idle EXCEPT !.pc = "read", !.batch = tx[c].batch]]
          /\ Release(c)
          /\ UNCHANGED <<table, events, calls>>

InsertEvent(c) ==
  /\ tx[c].pc = "insert" /\ WaitsFor(c) = {}
  /\ tx[c].version = CurrentStreamVersion(c, Current(c).stream)
  /\ LET e == [Current(c) EXCEPT !.version = tx[c].version + 1]
         done == project(View(c), e, FALSE)
         next == [tx[c] EXCEPT !.at = tx[c].at + 1,
                    !.version = IF tx[c].pinned THEN tx[c].version + 1 ELSE tx[c].version,
                    !.writes = Changes(table, done.table),
                    !.log = [tx[c].log EXCEPT ![e.stream] = Append(tx[c].log[e.stream], e)]]
     IN IF ~done.ok
        THEN Fail(c)
        ELSE /\ tx' = [tx EXCEPT ![c] =
                         IF Protected(e) /\ tx[c].before > 0
                         THEN [next EXCEPT !.pc = "count"] ELSE After(next)]
             /\ UNCHANGED <<table, events, lock, calls>>

\* protectLastAdminMutation: no administrator left rolls the mutation back.
CountAfter(c) ==
  /\ tx[c].pc = "count"
  /\ IF CountEnabledAdmins(View(c), LogView(c)) = 0
     THEN Fail(c)
     ELSE /\ tx' = [tx EXCEPT ![c] = After(tx[c])]
          /\ UNCHANGED <<table, events, lock, calls>>

Commit(c) ==
  /\ tx[c].pc = "commit" /\ WaitsFor(c) = {}
  /\ IF ~RolesPresent(View(c))
     THEN Fail(c)
     ELSE /\ table' = View(c)
          /\ events' = LogView(c)
          /\ tx' = [tx EXCEPT ![c] = Idle]
          /\ Release(c)
          /\ UNCHANGED calls

\* Postgres aborts one of the transactions that wait for each other.
DeadlockVictim(c) ==
  /\ \E S \in SUBSET Callers : c \in S /\ \A p \in S : WaitsFor(p) \cap S # {}
  /\ Fail(c)

-----------------------------------------------------------------------------
(* The handlers *)

\* AppendEvent, AppendEvents, and their version-pinned forms.
Begin(c, request) ==
  /\ tx[c].pc = "idle" /\ calls < MaxCalls
  /\ tx' = [tx EXCEPT ![c] = request]
  /\ calls' = calls + 1
  /\ UNCHANGED <<table, events, lock>>

AppendEvents(c, batch) == Begin(c, [Idle EXCEPT !.pc = "read", !.batch = batch])
AppendEventsWithVersion(c, batch, version) ==
  Begin(c, [Idle EXCEPT !.pc = "read", !.batch = batch, !.pinned = TRUE, !.version = version])

Fresh(s) == events[s] = << >>
UserByEmail(u, email) == Live(table, u) /\ table[u].email = email
UserOIDCIdentityCount(u) == CountUserOIDCIdentities(table, u)
UserByOIDCIdentity(id) == {u \in Users : Live(table, u) /\ id \in table[u].links}
SCIMUser(u, id) == Live(table, u) /\ id \in table[u].links
SCIMGroup(g) == Live(table, g)

\* The CRUD kernel: a create takes the next version of its stream, an update and
\* a delete the version of the object the client last read.
create(c, e) == AppendEvents(c, <<e>>)
update(c, e) == Live(table, e.stream) /\ AppendEventsWithVersion(c, <<e>>, Len(events[e.stream]))
delete(c, e) == Live(table, e.stream) /\ AppendEventsWithVersion(c, <<e>>, Len(events[e.stream]))

userDomain(c) ==
  \E u \in Users :
    \/ \E email \in Emails : create(c, UserCreatedEvent(u, email))
    \/ \E email \in Emails : update(c, UserManagedUpdatedEvent(u, email))
    \/ delete(c, UserManagedDeletedEvent(u))

userGroupDomain(c) ==
  \E g \in UserGroups :
    \/ \E name \in GroupNames : create(c, UserGroupCreatedEvent(g, name, {}))
    \/ \E name \in GroupNames : update(c, UserGroupMetadataUpdatedEvent(g, name))
    \/ delete(c, UserGroupDeletedEvent(g))

roleDomain(c) ==
  \E r \in Roles :
    \/ \E role \in RoleRows : create(c, AuthorizationRoleCreatedEvent(r, role))
    \/ \E role \in RoleRows : update(c, AuthorizationRoleUpdatedEvent(r, role))
    \/ delete(c, AuthorizationRoleDeletedEvent(r))

grantDomain(c) ==
  \E g \in Grants :
    \/ \E grant \in GrantRows : create(c, AuthorizationGrantCreatedEvent(g, grant))
    \/ \E grant \in GrantRows : update(c, AuthorizationGrantUpdatedEvent(g, grant))
    \/ delete(c, AuthorizationGrantDeletedEvent(g))

createFirstBootUser(c) ==
  \E u \in Users, email \in Emails :
    /\ Fresh(u) /\ \A v \in Users : ~UserByEmail(v, email)
    /\ AppendEvents(c, <<UserCreatedEvent(u, email), BootstrapAdminRoleGrantedEvent(u)>>)

\* OIDC sign-in of an identity not linked yet, by a provider whose e-mail
\* assertions are not trusted for a user with another OIDC identity.
resolveUser(c) ==
  \E id \in OIDCIds, email \in Emails, u \in Users :
    /\ UserByOIDCIdentity(id) = {}
    /\ \/ /\ UserByEmail(u, email) /\ UserOIDCIdentityCount(u) = 0
          /\ AppendEventsWithVersion(c, <<OIDCIdentityLinkedEvent(u, id, email)>>, Len(events[u]))
       \/ /\ Fresh(u) /\ \A v \in Users : ~UserByEmail(v, email)
          /\ AppendEvents(c, <<UserCreatedEvent(u, email), OIDCIdentityLinkedEvent(u, id, email)>>)

createSCIMUser(c) ==
  \E id \in SCIMIds, email \in Emails, u \in Users :
    \/ /\ UserByEmail(u, email)
       /\ AppendEventsWithVersion(c, <<SCIMIdentityLinkedEvent(u, id, email)>>, Len(events[u]))
    \/ /\ Fresh(u) /\ \A v \in Users : ~UserByEmail(v, email)
       /\ AppendEvents(c, <<UserCreatedEvent(u, email), SCIMIdentityLinkedEvent(u, id, email)>>)

\* deleteSCIMUser reads the user and its version, then counts its links; the
\* count decides between a pinned unlink and an unlink with a deprovision.
\* replaceSCIMUser calls it for active=false, and only reads for active=true.
deleteSCIMUser(c) ==
  \E u \in Users, id \in SCIMIds :
    /\ SCIMUser(u, id)
    /\ Begin(c, [Idle EXCEPT !.pc = "links", !.version = Len(events[u]),
                             !.batch = <<SCIMIdentityUnlinkedEvent(u, id)>>])

\* Mutant: the unlink of one link of several takes the next version.
MutUserIdentityLinkCount(c) ==
  /\ tx[c].pc = "links"
  /\ LET unlink == tx[c].batch[1]
         u == unlink.stream
         links == IF Live(table, u) THEN CountUserIdentityLinks(table, u) ELSE 0
     IN tx' = [tx EXCEPT ![c] =
          IF links = 0 THEN Idle
          ELSE [Idle EXCEPT !.pc = "read",
                  !.batch = IF links > 1 THEN <<unlink>>
                            ELSE <<unlink, SCIMUserDeprovisionedEvent(u)>>]]
  /\ UNCHANGED <<table, events, lock, calls>>

UserIdentityLinkCount(c) ==
  /\ tx[c].pc = "links"
  /\ LET unlink == tx[c].batch[1]
         u == unlink.stream
         links == IF Live(table, u) THEN CountUserIdentityLinks(table, u) ELSE 0
     IN tx' = [tx EXCEPT ![c] =
          IF links = 0 THEN Idle
          ELSE IF links > 1 THEN [tx[c] EXCEPT !.pc = "read", !.pinned = TRUE]
          ELSE [Idle EXCEPT !.pc = "read",
                            !.batch = <<unlink, SCIMUserDeprovisionedEvent(u)>>]]
  /\ UNCHANGED <<table, events, lock, calls>>

createSCIMGroup(c) ==
  \E g \in SCIMGroups, id \in ExternalIds, us \in SUBSET Users :
    /\ Fresh(g)
    /\ AppendEvents(c, <<SCIMGroupCreatedEvent(g, id), SCIMGroupMembershipsReplacedEvent(g, us)>>)

replaceSCIMGroup(c) ==
  \E g \in SCIMGroups, id \in ExternalIds, us \in SUBSET Users :
    /\ SCIMGroup(g)
    /\ AppendEventsWithVersion(
         c, <<SCIMGroupUpdatedEvent(g, id), SCIMGroupMembershipsReplacedEvent(g, us)>>, Len(events[g]))

deleteSCIMGroup(c) ==
  \E g \in SCIMGroups :
    SCIMGroup(g) /\ AppendEventsWithVersion(c, <<SCIMGroupDeletedEvent(g)>>, Len(events[g]))

\* Events of the store's API that no handler of the control plane appends yet.
StoreCalls(c) ==
  \/ \E u \in Users : update(c, UserDisabledEvent(u))
  \/ \E u \in Users : update(c, RoleRevokedEvent(u))
  \/ \E u \in Users, id \in OIDCIds : update(c, OIDCIdentityUnlinkedEvent(u, id))
  \/ \E g \in UserGroups, name \in GroupNames, us \in SUBSET Users :
       update(c, UserGroupUpdatedEvent(g, name, us))

Handler(c) ==
  \/ userDomain(c) \/ userGroupDomain(c) \/ roleDomain(c) \/ grantDomain(c)
  \/ createFirstBootUser(c) \/ resolveUser(c)
  \/ createSCIMUser(c) \/ deleteSCIMUser(c)
  \/ createSCIMGroup(c) \/ replaceSCIMGroup(c) \/ deleteSCIMGroup(c)
  \/ StoreCalls(c)

Step(c) ==
  \/ UserIdentityLinkCount(c) \/ ReadVersion(c) \/ AcquireLastAdminMutationLock(c)
  \/ VersionTaken(c) \/ InsertEvent(c) \/ CountAfter(c) \/ Commit(c) \/ DeadlockVictim(c)

Next == \E c \in Callers : Handler(c) \/ Step(c)

Spec == Init /\ [][Next]_vars

-----------------------------------------------------------------------------
(* Properties *)

EnabledAdmins == CountEnabledAdmins(table, events)

(* Last-admin protection: no step takes the last enabled administrator away,   *)
(* whichever two reducing appends race and whether the role is held directly,  *)
(* through a group or since first boot (protectLastAdminMutation).             *)
LastAdminKept == [][EnabledAdmins > 0 => EnabledAdmins' > 0]_vars

(* SCIM deprovisioning: a user that loses a SCIM identity either keeps another *)
(* link or is removed with it; deleteSCIMUser's choice, made on two separate   *)
(* reads, never leaves a provisioned user without any link.                    *)
LastLinkDeprovisions ==
  [][\A u \in Users :
       Live(table, u) /\ Live(table', u) /\ table[u].links \cap SCIMIds # table'[u].links \cap SCIMIds
         => table'[u].links # {}]_vars

(* A SCIM membership names a user that exists: the memberships a delete or     *)
(* deprovision removes are not put back by a replacement that saw the user.    *)
SCIMMembersLive == MembersLive(table)

(* An event of the target's streams that its replay refuses: it claims a       *)
(* unique value that a stream replayed before it ended up with, or it names a  *)
(* member of a user group that is no user any more.                            *)
Spoilt(target) ==
  \E n \in 1 .. Len(Order) : \E i \in DOMAIN events[Order[n]] :
    LET e == events[Order[n]][i] IN
    /\ Order[n] \in target.streams
    /\ \/ \E m \in 1 .. n - 1 :
            SameTable(Order[m], Order[n]) /\ Claims(e) \cap Held(table, Order[m]) # {}
       \/ e.type \in {"UserGroupCreated", "UserGroupUpdated"} /\ \E u \in e.arg.members : ~Live(table, u)

RebuildTargets ==
  {UserRebuildTarget, SCIMGroupRebuildTarget, UserGroupRebuildTarget, AuthorizationRebuildTarget}

(* ES-2 as far as it holds: a rebuild of users, groups or authorization is     *)
(* refused exactly when the replay order puts a former owner of an address,    *)
(* identity, name or external id behind its present one, or a user group once  *)
(* had a member that is gone; any other rebuild, whatever was deleted since,   *)
(* gives back the tables as the live appends left them.                        *)
RebuildsExact ==
  \A target \in RebuildTargets :
    LET rebuilt == RebuildAll(table, events, target)
    IN rebuilt.ok = ~Spoilt(target) /\ rebuilt.table = table

(* ES-2, "Replay is 1:1": rebuilding a projection from its events in stream    *)
(* order reproduces it.                                                        *)
ReplayIsOneToOne ==
  \A target \in RebuildTargets :
    LET rebuilt == RebuildAll(table, events, target)
    IN rebuilt.ok /\ rebuilt.table = table
=============================================================================
