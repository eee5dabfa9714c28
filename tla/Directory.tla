------------------------------ MODULE Directory ------------------------------
(***************************************************************************)
(* The identity projections of the control plane: users with their OIDC    *)
(* and SCIM identities, SCIM groups, management-owned user groups, roles   *)
(* and grants.  A table maps every key to its row or to NoRow; the keys    *)
(* are the streams' own rows and the membership rows <<group, user>>.      *)
(* Each SQL statement of the projectors is an operator on a table, and     *)
(* each projector takes a table and an event to an outcome: the new table, *)
(* or a refusal that aborts the append.                                    *)
(*                                                                         *)
(* A row's projection_version always equals the version of its stream, so  *)
(* a statement guarded by the previous version finds its row exactly when  *)
(* the row exists; the version is left out of the rows.                    *)
(***************************************************************************)
EXTENDS Naturals, Sequences, FiniteSets

CONSTANTS Users, Emails,
          SCIMIds, OIDCIds,          \* external identities, each of a provider of its own
          SCIMGroups, UserGroups, Roles, Grants,
          ExternalIds, GroupNames, RoleNames,   \* unique values of a group or role
          NoRow,
          Order                      \* the streams in stream_id order

Groups == SCIMGroups \cup UserGroups
Streams == Users \cup Groups \cup Roles \cup Grants
Members == Groups \X Users
Keys == Streams \cup Members

UserRows == [email : Emails, disabled : BOOLEAN, links : SUBSET (SCIMIds \cup OIDCIds)]
RoleRows == [name : RoleNames, manage : BOOLEAN]
GrantRows == [principal : Users \cup Groups, role : Roles, global : BOOLEAN]

\* A SCIM group's row is its external id, a user group's row its name.  A stream
\* has one type; so has an external identity.
ASSUME DirectoryAssumption ==
  /\ NoRow \notin UserRows \cup RoleRows \cup GrantRows \cup ExternalIds \cup GroupNames \cup Members
  /\ {Order[n] : n \in 1 .. Len(Order)} = Streams
  /\ SCIMGroups \cap UserGroups = {}
  /\ Users \cap Groups = {}
  /\ Roles \cap (Users \cup Groups) = {}
  /\ Grants \cap (Users \cup Groups \cup Roles) = {}
  /\ Members \cap Streams = {}
  /\ SCIMIds \cap OIDCIds = {}
  /\ IsFiniteSet(Users)

Event(type, stream, arg) == [type |-> type, stream |-> stream, arg |-> arg, version |-> 0]

UserCreatedEvent(u, email) == Event("UserCreated", u, email)
UserManagedUpdatedEvent(u, email) == Event("UserManagedUpdated", u, email)
UserManagedDeletedEvent(u) == Event("UserManagedDeleted", u, NoRow)
BootstrapAdminRoleGrantedEvent(u) == Event("BootstrapAdminRoleGranted", u, NoRow)
OIDCIdentityLinkedEvent(u, id, email) ==
  Event("OIDCIdentityLinked", u, [id |-> id, email |-> email])
OIDCIdentityUnlinkedEvent(u, id) == Event("OIDCIdentityUnlinked", u, id)
SCIMIdentityLinkedEvent(u, id, email) ==
  Event("SCIMIdentityLinked", u, [id |-> id, email |-> email])
SCIMIdentityUnlinkedEvent(u, id) == Event("SCIMIdentityUnlinked", u, id)
SCIMUserDeprovisionedEvent(u) == Event("SCIMUserDeprovisioned", u, NoRow)
UserDisabledEvent(u) == Event("UserDisabled", u, NoRow)
RoleRevokedEvent(u) == Event("RoleRevoked", u, NoRow)       \* of the role "admin"
UserGroupCreatedEvent(g, name, us) ==
  Event("UserGroupCreated", g, [name |-> name, members |-> us])
UserGroupUpdatedEvent(g, name, us) ==
  Event("UserGroupUpdated", g, [name |-> name, members |-> us])
UserGroupMetadataUpdatedEvent(g, name) == Event("UserGroupMetadataUpdated", g, name)
UserGroupDeletedEvent(g) == Event("UserGroupDeleted", g, NoRow)
SCIMGroupCreatedEvent(g, id) == Event("SCIMGroupCreated", g, id)
SCIMGroupUpdatedEvent(g, id) == Event("SCIMGroupUpdated", g, id)
SCIMGroupMembershipsReplacedEvent(g, us) == Event("SCIMGroupMembershipsReplaced", g, us)
SCIMGroupDeletedEvent(g) == Event("SCIMGroupDeleted", g, NoRow)
AuthorizationRoleCreatedEvent(r, role) == Event("RoleCreated", r, role)
AuthorizationRoleUpdatedEvent(r, role) == Event("RoleUpdated", r, role)
AuthorizationRoleDeletedEvent(r) == Event("RoleDeleted", r, NoRow)
AuthorizationGrantCreatedEvent(g, grant) == Event("GrantCreated", g, grant)
AuthorizationGrantUpdatedEvent(g, grant) == Event("GrantUpdated", g, grant)
AuthorizationGrantDeletedEvent(g) == Event("GrantDeleted", g, NoRow)

Live(t, k) == t[k] # NoRow
IsTable(t) ==
  /\ t = [k \in Keys |-> t[k]]
  /\ \A u \in Users : Live(t, u) => t[u] \in UserRows
  /\ \A r \in Roles : Live(t, r) => t[r] \in RoleRows
  /\ \A g \in Grants : Live(t, g) => t[g] \in GrantRows
MembersLive(t) ==
  \A g \in SCIMGroups, u \in Users : Live(t, <<g, u>>) => Live(t, g) /\ Live(t, u)
Outcome(ok, t, new) == [ok |-> ok, table |-> IF ok THEN new ELSE t]

\* The members of a set of rows, deleted.
Without(t, ks) == [k \in Keys |-> IF k \in ks THEN NoRow ELSE t[k]]

-----------------------------------------------------------------------------
(* Users and their identities *)

GetUserByID(t, u) == Live(t, u)

\* users_email_key, and the primary keys of the two identity tables.
EmailFree(t, u, email) == \A v \in Users \ {u} : Live(t, v) => t[v].email # email
IdentityFree(t, id) == \A v \in Users : Live(t, v) => id \notin t[v].links

InsertUser(t, u, email) ==
  [t EXCEPT ![u] = [email |-> email, disabled |-> FALSE, links |-> {}]]
ReplaceManagedUser(t, u, email) == [t EXCEPT ![u].email = email]
DeleteManagedUser(t, u) == Without(t, {u})
DeleteUserProjectionAfterInvalidation(t, u) == Without(t, {u})
InvalidateUserSession(t, u, disable) ==
  [t EXCEPT ![u].disabled = t[u].disabled \/ disable]
InsertOIDCIdentity(t, u, id) == [t EXCEPT ![u].links = t[u].links \cup {id}]
DeleteOIDCIdentityForInvalidation(t, u, id) == [t EXCEPT ![u].links = t[u].links \ {id}]
InsertSCIMIdentity(t, u, id) == [t EXCEPT ![u].links = t[u].links \cup {id}]
DeleteSCIMIdentity(t, u, id) == [t EXCEPT ![u].links = t[u].links \ {id}]
CountUserOIDCIdentities(t, u) == Cardinality(t[u].links \cap OIDCIds)
CountUserIdentityLinks(t, u) == Cardinality(t[u].links)

DeleteManagedUserGroupMembershipsForUser(t, u) == Without(t, UserGroups \X {u})
DeleteSCIMGroupMembershipsForUser(t, u) == Without(t, SCIMGroups \X {u})

projectUserCreation(t, e) ==
  Outcome(e.version = 1 /\ ~Live(t, e.stream) /\ EmailFree(t, e.stream, e.arg),
          t, InsertUser(t, e.stream, e.arg))

\* The bootstrap role lives in the events alone; the projector checks its place.
projectBootstrapAdminRoleGrant(t, e) ==
  Outcome(e.version = 2 /\ GetUserByID(t, e.stream), t, t)

projectManagedUserUpdate(t, e) ==
  Outcome(e.version >= 2 /\ Live(t, e.stream) /\ EmailFree(t, e.stream, e.arg),
          t, ReplaceManagedUser(t, e.stream, e.arg))

\* The identities of a user go with its row; grants stay.
projectManagedUserDeletion(t, e) ==
  Outcome(e.version >= 2 /\ Live(t, e.stream), t,
          DeleteManagedUser(DeleteSCIMGroupMembershipsForUser(
            DeleteManagedUserGroupMembershipsForUser(t, e.stream), e.stream), e.stream))

projectOIDCIdentityLink(t, e) ==
  Outcome(/\ e.version > 1 /\ GetUserByID(t, e.stream)
          /\ t[e.stream].email = e.arg.email /\ IdentityFree(t, e.arg.id),
          t, InsertOIDCIdentity(t, e.stream, e.arg.id))

projectSCIMIdentityLinked(t, e) ==
  Outcome(/\ e.version > 1 /\ GetUserByID(t, e.stream)
          /\ t[e.stream].email = e.arg.email /\ IdentityFree(t, e.arg.id),
          t, InsertSCIMIdentity(t, e.stream, e.arg.id))

projectSCIMIdentityUnlinked(t, e) ==
  Outcome(e.version > 1 /\ GetUserByID(t, e.stream) /\ e.arg \in t[e.stream].links,
          t, DeleteSCIMIdentity(t, e.stream, e.arg))

\* Disable, role revocation, OIDC unlink and SCIM deprovision all advance the
\* session version; only the last removes the user, and only with no link left.
projectSessionInvalidation(t, e) ==
  LET u == e.stream
      kept == InvalidateUserSession(t, u, e.type = "UserDisabled")
  IN CASE e.type = "OIDCIdentityUnlinked" ->
            Outcome(e.version > 1 /\ GetUserByID(t, u) /\ e.arg \in t[u].links,
                    t, DeleteOIDCIdentityForInvalidation(kept, u, e.arg))
       [] e.type = "SCIMUserDeprovisioned" ->
            Outcome(e.version > 1 /\ GetUserByID(t, u) /\ CountUserIdentityLinks(t, u) = 0,
                    t, DeleteUserProjectionAfterInvalidation(
                         DeleteSCIMGroupMembershipsForUser(kept, u), u))
       [] OTHER -> Outcome(e.version > 1 /\ GetUserByID(t, u), t, kept)

-----------------------------------------------------------------------------
(* Groups *)

\* managed_user_groups_name_key and scim_groups_provider_external_key; the
\* groups have one SCIM provider.
GroupNameFree(t, g, name) == \A h \in UserGroups \ {g} : t[h] # name
ExternalIdFree(t, g, id) == \A h \in SCIMGroups \ {g} : t[h] # id

InsertManagedUserGroup(t, g, name) == [t EXCEPT ![g] = name]
ReplaceManagedUserGroup(t, g, name) == [t EXCEPT ![g] = name]
DeleteManagedUserGroupMembers(t, g) == Without(t, {g} \X Users)
DeleteManagedUserGroup(t, g) == Without(t, {g} \cup ({g} \X Users))
InsertManagedUserGroupMember(t, g, us) ==
  [k \in Keys |-> IF k \in {g} \X {u \in us : Live(t, u)} THEN k ELSE t[k]]

\* Every member must be a user, in a rebuild as well.
replaceUserGroupMembers(t, g, us) ==
  Outcome(\A u \in us : Live(t, u), t, InsertManagedUserGroupMember(t, g, us))

projectUserGroupCreated(t, e) ==
  IF e.version = 1 /\ ~Live(t, e.stream) /\ GroupNameFree(t, e.stream, e.arg.name)
  THEN replaceUserGroupMembers(
         InsertManagedUserGroup(t, e.stream, e.arg.name), e.stream, e.arg.members)
  ELSE Outcome(FALSE, t, t)

projectUserGroupUpdated(t, e) ==
  IF e.version >= 2 /\ Live(t, e.stream) /\ GroupNameFree(t, e.stream, e.arg.name)
  THEN replaceUserGroupMembers(
         DeleteManagedUserGroupMembers(ReplaceManagedUserGroup(t, e.stream, e.arg.name), e.stream),
         e.stream, e.arg.members)
  ELSE Outcome(FALSE, t, t)

projectUserGroupMetadataUpdated(t, e) ==
  Outcome(e.version >= 2 /\ Live(t, e.stream) /\ GroupNameFree(t, e.stream, e.arg),
          t, ReplaceManagedUserGroup(t, e.stream, e.arg))

projectUserGroupDeleted(t, e) ==
  Outcome(e.version >= 2 /\ Live(t, e.stream), t, DeleteManagedUserGroup(t, e.stream))

InsertSCIMGroup(t, g, id) == [t EXCEPT ![g] = id]
UpdateSCIMGroup(t, g, id) == [t EXCEPT ![g] = id]
DeleteSCIMGroupMembers(t, g) == Without(t, {g} \X Users)
DeleteSCIMGroup(t, g) == Without(t, {g} \cup ({g} \X Users))
InsertSCIMGroupMember(t, g, us) ==
  [k \in Keys |-> IF k \in {g} \X {u \in us : Live(t, u)} THEN k ELSE t[k]]

projectSCIMGroupCreated(t, e) ==
  Outcome(e.version = 1 /\ ~Live(t, e.stream) /\ ExternalIdFree(t, e.stream, e.arg),
          t, InsertSCIMGroup(t, e.stream, e.arg))

projectSCIMGroupUpdated(t, e) ==
  Outcome(e.version > 1 /\ Live(t, e.stream) /\ ExternalIdFree(t, e.stream, e.arg),
          t, UpdateSCIMGroup(t, e.stream, e.arg))

\* Mutant: a rebuild refuses a member deleted since, as a live append does.
MutSCIMGroupMembershipsReplaced(t, e, rebuild) ==
  Outcome(e.version > 1 /\ Live(t, e.stream) /\ \A u \in e.arg : Live(t, u),
          t, InsertSCIMGroupMember(DeleteSCIMGroupMembers(t, e.stream), e.stream, e.arg))

\* A member that is no user refuses a live append and is skipped in a rebuild.
projectSCIMGroupMembershipsReplaced(t, e, rebuild) ==
  Outcome(/\ e.version > 1 /\ Live(t, e.stream)
          /\ rebuild \/ \A u \in e.arg : Live(t, u),
          t, InsertSCIMGroupMember(DeleteSCIMGroupMembers(t, e.stream), e.stream, e.arg))

projectSCIMGroupDeleted(t, e) ==
  Outcome(e.version > 1 /\ Live(t, e.stream), t, DeleteSCIMGroup(t, e.stream))

-----------------------------------------------------------------------------
(* Roles and grants *)

GetAuthorizationRole(t, r) == Live(t, r)
AuthorizationPrincipalExists(t, p) == Live(t, p)
InsertAuthorizationRole(t, r, role) == [t EXCEPT ![r] = role]
ReplaceAuthorizationRole(t, r, role) == [t EXCEPT ![r] = role]
DeleteAuthorizationRole(t, r) == Without(t, {r})
InsertAuthorizationGrant(t, g, grant) == [t EXCEPT ![g] = grant]
ReplaceAuthorizationGrant(t, g, grant) == [t EXCEPT ![g] = grant]
DeleteAuthorizationGrant(t, g) == Without(t, {g})

\* authorization_roles_name_key
RoleNameFree(t, r, name) == \A s \in Roles \ {r} : Live(t, s) => t[s].name # name

projectAuthorizationRoleCreated(t, e) ==
  Outcome(e.version = 1 /\ ~Live(t, e.stream) /\ RoleNameFree(t, e.stream, e.arg.name),
          t, InsertAuthorizationRole(t, e.stream, e.arg))

projectAuthorizationRoleUpdated(t, e) ==
  Outcome(e.version >= 2 /\ Live(t, e.stream) /\ RoleNameFree(t, e.stream, e.arg.name),
          t, ReplaceAuthorizationRole(t, e.stream, e.arg))

projectAuthorizationRoleDeleted(t, e) ==
  Outcome(e.version >= 2 /\ Live(t, e.stream), t, DeleteAuthorizationRole(t, e.stream))

Grantable(t, grant, rebuild) ==
  \/ rebuild
  \/ GetAuthorizationRole(t, grant.role) /\ AuthorizationPrincipalExists(t, grant.principal)

projectAuthorizationGrantCreated(t, e, rebuild) ==
  Outcome(e.version = 1 /\ ~Live(t, e.stream) /\ Grantable(t, e.arg, rebuild),
          t, InsertAuthorizationGrant(t, e.stream, e.arg))

projectAuthorizationGrantUpdated(t, e, rebuild) ==
  Outcome(e.version >= 2 /\ Live(t, e.stream) /\ Grantable(t, e.arg, rebuild),
          t, ReplaceAuthorizationGrant(t, e.stream, e.arg))

projectAuthorizationGrantDeleted(t, e) ==
  Outcome(e.version >= 2 /\ Live(t, e.stream), t, DeleteAuthorizationGrant(t, e.stream))

\* authorization_grants_role_id_fkey, which Postgres checks at commit.
RolesPresent(t) == \A g \in Grants : Live(t, g) => Live(t, t[g].role)

-----------------------------------------------------------------------------
(* The registry, last-admin policy and rebuild *)

userEventDefinitions(t, e) ==
  CASE e.type = "UserCreated" -> projectUserCreation(t, e)
    [] e.type = "BootstrapAdminRoleGranted" -> projectBootstrapAdminRoleGrant(t, e)
    [] e.type = "UserManagedUpdated" -> projectManagedUserUpdate(t, e)
    [] e.type = "UserManagedDeleted" -> projectManagedUserDeletion(t, e)
    [] e.type = "OIDCIdentityLinked" -> projectOIDCIdentityLink(t, e)

scimUserEventDefinitions(t, e) ==
  CASE e.type = "SCIMIdentityLinked" -> projectSCIMIdentityLinked(t, e)
    [] e.type = "SCIMIdentityUnlinked" -> projectSCIMIdentityUnlinked(t, e)

sessionInvalidationEventTypes ==
  {"UserDisabled", "RoleRevoked", "OIDCIdentityUnlinked", "SCIMUserDeprovisioned"}

userGroupEventDefinitions(t, e) ==
  CASE e.type = "UserGroupCreated" -> projectUserGroupCreated(t, e)
    [] e.type = "UserGroupUpdated" -> projectUserGroupUpdated(t, e)
    [] e.type = "UserGroupMetadataUpdated" -> projectUserGroupMetadataUpdated(t, e)
    [] e.type = "UserGroupDeleted" -> projectUserGroupDeleted(t, e)

scimGroupEventDefinitions(t, e, rebuild) ==
  CASE e.type = "SCIMGroupCreated" -> projectSCIMGroupCreated(t, e)
    [] e.type = "SCIMGroupUpdated" -> projectSCIMGroupUpdated(t, e)
    [] e.type = "SCIMGroupMembershipsReplaced" ->
         projectSCIMGroupMembershipsReplaced(t, e, rebuild)
    [] e.type = "SCIMGroupDeleted" -> projectSCIMGroupDeleted(t, e)

authorizationEventDefinitions(t, e, rebuild) ==
  CASE e.type = "RoleCreated" -> projectAuthorizationRoleCreated(t, e)
    [] e.type = "RoleUpdated" -> projectAuthorizationRoleUpdated(t, e)
    [] e.type = "RoleDeleted" -> projectAuthorizationRoleDeleted(t, e)
    [] e.type = "GrantCreated" -> projectAuthorizationGrantCreated(t, e, rebuild)
    [] e.type = "GrantUpdated" -> projectAuthorizationGrantUpdated(t, e, rebuild)
    [] e.type = "GrantDeleted" -> projectAuthorizationGrantDeleted(t, e)

project(t, e, rebuild) ==
  CASE e.type \in sessionInvalidationEventTypes -> projectSessionInvalidation(t, e)
    [] e.type \in {"SCIMIdentityLinked", "SCIMIdentityUnlinked"} -> scimUserEventDefinitions(t, e)
    [] e.stream \in UserGroups -> userGroupEventDefinitions(t, e)
    [] e.stream \in SCIMGroups -> scimGroupEventDefinitions(t, e, rebuild)
    [] e.stream \in Roles \cup Grants -> authorizationEventDefinitions(t, e, rebuild)
    [] OTHER -> userEventDefinitions(t, e)

\* Mutant: replacing memberships is registered as unaffected.
MutLastAdminReductionEventTypes ==
  {"UserManagedDeleted", "UserDisabled", "RoleRevoked", "SCIMUserDeprovisioned",
   "UserGroupUpdated", "UserGroupDeleted", "SCIMGroupDeleted",
   "RoleUpdated", "RoleDeleted", "GrantUpdated", "GrantDeleted"}

\* Event types registered as lastAdminMayReduce.
lastAdminReductionEventTypes ==
  {"UserManagedDeleted", "UserDisabled", "RoleRevoked", "SCIMUserDeprovisioned",
   "UserGroupUpdated", "UserGroupDeleted",
   "SCIMGroupMembershipsReplaced", "SCIMGroupDeleted",
   "RoleUpdated", "RoleDeleted", "GrantUpdated", "GrantDeleted"}

\* An enabled user with a global grant of a managing role, of its own or of a
\* group of its, or with a bootstrap role not revoked since.
EnabledAdmin(t, log, u) ==
  /\ Live(t, u) /\ ~t[u].disabled
  /\ \/ \E g \in Grants :
          /\ Live(t, g) /\ t[g].global
          /\ Live(t, t[g].role) /\ t[t[g].role].manage
          /\ \/ t[g].principal = u
             \/ \E p \in Groups : t[g].principal = p /\ Live(t, <<p, u>>)
     \/ \E i \in DOMAIN log[u] :
          /\ log[u][i].type = "BootstrapAdminRoleGranted"
          /\ \A j \in DOMAIN log[u] : j > i => log[u][j].type # "RoleRevoked"

CountEnabledAdmins(t, log) == Cardinality({u \in Users : EnabledAdmin(t, log, u)})

\* The rebuild targets: the streams they replay and the tables they own.
UserRebuildTarget == [streams |-> Users, tables |-> Users]
SCIMGroupRebuildTarget == [streams |-> SCIMGroups, tables |-> SCIMGroups \cup (SCIMGroups \X Users)]
UserGroupRebuildTarget == [streams |-> UserGroups, tables |-> UserGroups \cup (UserGroups \X Users)]
AuthorizationRebuildTarget == [streams |-> Roles \cup Grants, tables |-> Roles \cup Grants]

replayEvent(done, e) == IF done.ok THEN project(done.table, e, TRUE) ELSE done

\* The events of a stream through the projectors, until one refuses.
replay(done, log) ==
  LET after[n \in 0 .. Len(log)] ==
        IF n = 0 THEN done ELSE replayEvent(after[n - 1], log[n])
  IN after[Len(log)]

\* ListEventsForReplayPage: ORDER BY stream_type, stream_id, stream_version
RebuildAll(t, log, target) ==
  LET rebuilt[n \in 0 .. Len(Order)] ==
        IF n = 0 THEN Outcome(TRUE, t, Without(t, target.tables))
        ELSE LET before == rebuilt[n - 1]
             IN IF Order[n] \in target.streams THEN replay(before, log[Order[n]]) ELSE before
      done == rebuilt[Len(Order)]
  IN Outcome(done.ok /\ RolesPresent(done.table), t, done.table)
=============================================================================
