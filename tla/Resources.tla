----------------------------- MODULE Resources -----------------------------
(***************************************************************************)
(* The management projections: actions, action sets, assignments,          *)
(* compliance policies, server settings, device groups, devices, API       *)
(* tokens, identity and SCIM providers, break-glass logins, inventories,   *)
(* and the users and user groups they refer to.  A table maps every stream *)
(* to its row or to NoRow.  Each SQL statement is an operator on a table,  *)
(* each projector takes a table and an event to an outcome (the new table, *)
(* or a refusal that aborts the append), and each read takes the scope of  *)
(* its caller.                                                             *)
(*                                                                         *)
(* A row holds its projection_version and the data the properties tell     *)
(* apart; an object whose data nothing refers to is its version alone.     *)
(***************************************************************************)
EXTENDS Integers, Sequences, FiniteSets

CONSTANTS Actions, ActionSets, Assignments, Policies, Settings,
          DeviceGroups, Devices, Inventories,
          Users, UserGroups, SCIMGroups,
          Tokens,                 \* API (personal access) tokens
          OIDCProviders, SCIMProviders,
          Logins,                 \* break-glass logins
          InventoryOf,            \* the inventory stream of a device
          NoUser, NoRow,
          Order                   \* the streams in the order a rebuild replays them

Streams == Actions \cup ActionSets \cup Assignments \cup Policies \cup Settings
             \cup DeviceGroups \cup Devices \cup Inventories \cup Users \cup UserGroups
             \cup Tokens \cup OIDCProviders \cup SCIMProviders \cup Logins

\* What an assignment may point at, and the data of the rows that are compared.
Targets == DeviceGroups \cup UserGroups \cup Users \cup Devices
TokenData == [subject : Users, revoked : BOOLEAN]
ProviderData == [bearer : Nat, disabled : BOOLEAN]
LoginData == [user : Users, consumed : BOOLEAN]
Rows(data) == [version : Nat, data : data]

\* A stream has one type.
ASSUME StreamTypesAssumption ==
  /\ ActionSets \cap Actions = {}
  /\ Assignments \cap (Actions \cup ActionSets) = {}
  /\ Policies \cap (Actions \cup ActionSets \cup Assignments) = {}
  /\ Settings \cap (Actions \cup ActionSets \cup Assignments \cup Policies) = {}
  /\ (DeviceGroups \cup Devices \cup Inventories \cup Users \cup UserGroups)
       \cap (Actions \cup ActionSets \cup Assignments \cup Policies \cup Settings) = {}
  /\ Devices \cap DeviceGroups = {}
  /\ Inventories \cap (DeviceGroups \cup Devices) = {}
  /\ Users \cap (DeviceGroups \cup Devices \cup Inventories) = {}
  /\ UserGroups \cap (DeviceGroups \cup Devices \cup Inventories \cup Users) = {}
  /\ (Tokens \cup OIDCProviders \cup SCIMProviders \cup Logins)
       \cap (Actions \cup ActionSets \cup Assignments \cup Policies \cup Settings
             \cup DeviceGroups \cup Devices \cup Inventories \cup Users \cup UserGroups) = {}
  /\ OIDCProviders \cap Tokens = {}
  /\ SCIMProviders \cap (Tokens \cup OIDCProviders) = {}
  /\ Logins \cap (Tokens \cup OIDCProviders \cup SCIMProviders) = {}

ASSUME ResourcesAssumption ==
  /\ InventoryOf \in [Devices -> Inventories]
  /\ NoUser \notin Streams
  /\ NoRow \notin Streams
  /\ NoRow \notin Rows(TokenData) \cup Rows(ProviderData) \cup Rows(LoginData)
                 \cup Rows([deleted : BOOLEAN])
  /\ {Order[i] : i \in DOMAIN Order} = Streams

Event(type, stream, arg) == [type |-> type, stream |-> stream, arg |-> arg, version |-> 0]

Row(v, data) == [version |-> v, data |-> data]
Live(t, k) == t[k] # NoRow
IsTable(t) ==
  /\ t = [k \in Streams |-> t[k]]
  /\ \A k \in Tokens : Live(t, k) => t[k] \in Rows(TokenData)
  /\ \A k \in SCIMProviders : Live(t, k) => t[k] \in Rows(ProviderData)
  /\ \A k \in Logins : Live(t, k) => t[k] \in Rows(LoginData)
  /\ \A k \in Assignments : Live(t, k) => t[k].data.target \in Targets
Outcome(ok, t, new) == [ok |-> ok, table |-> IF ok THEN new ELSE t]
Refused(t) == Outcome(FALSE, t, t)

\* INSERT ... ON CONFLICT DO NOTHING, and the UPDATE and DELETE that name the
\* version before the event's; each must affect one row.
Insert(t, e, data) ==
  Outcome(~Live(t, e.stream), t, [t EXCEPT ![e.stream] = Row(e.version, data)])
AtPrevious(t, e) == Live(t, e.stream) /\ t[e.stream].version = e.version - 1
Replace(t, e, data) ==
  Outcome(AtPrevious(t, e), t, [t EXCEPT ![e.stream] = Row(e.version, data)])
Delete(t, e) == Outcome(AtPrevious(t, e), t, [t EXCEPT ![e.stream] = NoRow])

\* A creation is the first event of its stream; a change is a later one.
First(t, e, outcome) == IF e.version = 1 THEN outcome ELSE Refused(t)
Later(t, e, outcome) == IF e.version > 1 THEN outcome ELSE Refused(t)

-----------------------------------------------------------------------------
(* Actions, action sets, assignments, policies and settings *)

ManagedActionCreatedEvent(a) == Event("ManagedActionCreated", a, NoRow)
ManagedActionUpdatedEvent(a) == Event("ManagedActionUpdated", a, NoRow)
ManagedActionDeletedEvent(a) == Event("ManagedActionDeleted", a, NoRow)
ManagedActionSetCreatedEvent(s) == Event("ManagedActionSetCreated", s, NoRow)
ManagedActionSetUpdatedEvent(s) == Event("ManagedActionSetUpdated", s, NoRow)
ManagedActionSetDeletedEvent(s) == Event("ManagedActionSetDeleted", s, NoRow)
AssignmentCreatedEvent(a, arg) == Event("AssignmentCreated", a, arg)
AssignmentDeletedEvent(a) == Event("AssignmentDeleted", a, NoRow)
CompliancePolicyCreatedEvent(p, rules) == Event("CompliancePolicyCreated", p, rules)
CompliancePolicyUpdatedEvent(p, rules) == Event("CompliancePolicyUpdated", p, rules)
CompliancePolicyDeletedEvent(p) == Event("CompliancePolicyDeleted", p, NoRow)
ServerSettingCreatedEvent(s) == Event("ServerSettingCreated", s, NoRow)
ServerSettingUpdatedEvent(s) == Event("ServerSettingUpdated", s, NoRow)
ServerSettingDeletedEvent(s) == Event("ServerSettingDeleted", s, NoRow)

InsertManagedAction(t, e) == Insert(t, e, NoRow)
ReplaceManagedAction(t, e) == Replace(t, e, NoRow)
DeleteManagedAction(t, e) == Delete(t, e)
InsertManagedActionSet(t, e) == Insert(t, e, NoRow)
ReplaceManagedActionSet(t, e) == Replace(t, e, NoRow)
DeleteManagedActionSet(t, e) == Delete(t, e)
InsertAssignment(t, e) == Insert(t, e, e.arg)
DeleteAssignment(t, e) == Delete(t, e)
InsertCompliancePolicy(t, e) == Insert(t, e, e.arg)
ReplaceCompliancePolicy(t, e) == Replace(t, e, e.arg)
DeleteCompliancePolicy(t, e) == Delete(t, e)
InsertServerSetting(t, e) == Insert(t, e, NoRow)
ReplaceServerSetting(t, e) == Replace(t, e, NoRow)
DeleteServerSetting(t, e) == Delete(t, e)

\* Mutant: a creation need not be the first event of its stream.
MutManagedActionCreate(t, e) == InsertManagedAction(t, e)
projectManagedActionCreate(t, e) == First(t, e, InsertManagedAction(t, e))
projectManagedActionUpdate(t, e) == Later(t, e, ReplaceManagedAction(t, e))
projectManagedActionDelete(t, e) == Later(t, e, DeleteManagedAction(t, e))
projectManagedActionSetCreate(t, e) == First(t, e, InsertManagedActionSet(t, e))
projectManagedActionSetUpdate(t, e) == Later(t, e, ReplaceManagedActionSet(t, e))
projectManagedActionSetDelete(t, e) == Later(t, e, DeleteManagedActionSet(t, e))

\* Mutant: the projector checks that the source of an assignment exists.
MutAssignmentCreate(t, e) ==
  IF ~Live(t, e.arg.source) THEN Refused(t) ELSE First(t, e, InsertAssignment(t, e))
projectAssignmentCreate(t, e) == First(t, e, InsertAssignment(t, e))
projectAssignmentDelete(t, e) == Later(t, e, DeleteAssignment(t, e))

projectCompliancePolicyCreate(t, e) == First(t, e, InsertCompliancePolicy(t, e))
projectCompliancePolicyUpdate(t, e) == Later(t, e, ReplaceCompliancePolicy(t, e))
projectCompliancePolicyDelete(t, e) == Later(t, e, DeleteCompliancePolicy(t, e))
projectServerSettingCreate(t, e) == First(t, e, InsertServerSetting(t, e))
projectServerSettingUpdate(t, e) == Later(t, e, ReplaceServerSetting(t, e))
projectServerSettingDelete(t, e) == Later(t, e, DeleteServerSetting(t, e))

-----------------------------------------------------------------------------
(* Device groups, devices and their inventories, users *)

DeviceGroupCreatedWithMembersEvent(g, ds) == Event("DeviceGroupCreated", g, ds)
DeviceGroupUpdatedWithMembersEvent(g, ds) == Event("DeviceGroupUpdated", g, ds)
DeviceGroupDeletedEvent(g) == Event("DeviceGroupDeleted", g, NoRow)
AgentOwnerUpdatedEvent(d) == Event("AgentOwnerUpdated", d, NoRow)
AgentDeletedEvent(d) == Event("AgentDeleted", d, NoRow)
InventorySnapshotEvent(i) == Event("InventorySnapshot", i, NoRow)
InventoryTombstoneEvent(i) == Event("InventoryTombstone", i, NoRow)
UserManagedDeletedEvent(u) == Event("UserManagedDeleted", u, NoRow)

InsertDeviceGroup(t, e) == Insert(t, e, e.arg)
ReplaceDeviceGroup(t, e) == Replace(t, e, e.arg)
DeleteDeviceGroup(t, e) == Delete(t, e)

\* An upsert that a row of a later version ignores.
Upsert(t, e, deleted) ==
  IF Live(t, e.stream) /\ t[e.stream].version >= e.version
  THEN Outcome(TRUE, t, t)
  ELSE Outcome(TRUE, t, [t EXCEPT ![e.stream] = Row(e.version, [deleted |-> deleted])])
UpsertInventorySnapshot(t, e) == Upsert(t, e, FALSE)
UpsertInventoryTombstone(t, e) == Upsert(t, e, TRUE)

projectDeviceGroupCreated(t, e) == First(t, e, InsertDeviceGroup(t, e))
projectDeviceGroupUpdated(t, e) == Later(t, e, ReplaceDeviceGroup(t, e))
projectDeviceGroupDeleted(t, e) == Later(t, e, DeleteDeviceGroup(t, e))
projectAgentEnrollment(t, e) == First(t, e, Insert(t, e, NoRow))
projectAgentOwnerUpdate(t, e) == Later(t, e, Replace(t, e, NoRow))
projectAgentDeletion(t, e) == Later(t, e, Delete(t, e))
projectInventorySnapshot(t, e) == UpsertInventorySnapshot(t, e)
projectInventoryTombstone(t, e) == UpsertInventoryTombstone(t, e)
projectUserCreation(t, e) == First(t, e, Insert(t, e, e.arg))   \* arg: the groups it is in
projectManagedUserDeletion(t, e) == Later(t, e, Delete(t, e))
projectUserGroupCreated(t, e) == First(t, e, Insert(t, e, NoRow))

-----------------------------------------------------------------------------
(* API tokens, providers and break-glass logins *)

PersonalAccessTokenMintedEvent(k, subject) ==
  Event("PersonalAccessTokenMinted", k, [subject |-> subject, revoked |-> FALSE])
PersonalAccessTokenRevokedEvent(k) == Event("PersonalAccessTokenRevoked", k, NoRow)
PersonalAccessTokenUpdatedEvent(k, arg) == Event("PersonalAccessTokenUpdated", k, arg)
PersonalAccessTokenDeletedEvent(k) == Event("PersonalAccessTokenDeleted", k, NoRow)
OIDCProviderConfigCreatedEvent(p, disabled) == Event("OIDCProviderCreated", p, disabled)
OIDCProviderConfigUpdatedEvent(p, disabled) == Event("OIDCProviderUpdated", p, disabled)
OIDCProviderConfigDeletedEvent(p) == Event("OIDCProviderDeleted", p, NoRow)
SCIMProviderCreatedEvent(p) == Event("SCIMProviderCreated", p, NoRow)
SCIMProviderTokenRotatedEvent(p) == Event("SCIMProviderTokenRotated", p, NoRow)
SCIMProviderDisabledEvent(p) == Event("SCIMProviderDisabled", p, NoRow)
SCIMProviderDeletedEvent(p) == Event("SCIMProviderDeleted", p, NoRow)
BootstrapLoginMintedEvent(l, u) == Event("BootstrapLoginMinted", l, u)
BootstrapLoginConsumedEvent(l) == Event("BootstrapLoginConsumed", l, NoRow)

InsertPersonalAccessToken(t, e) == Insert(t, e, e.arg)
ProjectPersonalAccessTokenRevocation(t, e) ==
  Outcome(~t[e.stream].data.revoked /\ t[e.stream].version < e.version, t,
          [t EXCEPT ![e.stream] = Row(e.version, [@.data EXCEPT !.revoked = TRUE])])
ReplacePersonalAccessTokenMetadata(t, e) ==
  Replace(t, e, [t[e.stream].data EXCEPT !.revoked = @ \/ e.arg.revoked])
DeletePersonalAccessTokenProjection(t, e) == Delete(t, e)

projectPersonalAccessTokenMint(t, e) == First(t, e, InsertPersonalAccessToken(t, e))
projectPersonalAccessTokenRevocation(t, e) ==
  IF ~AtPrevious(t, e) \/ t[e.stream].data.revoked THEN Refused(t)
  ELSE Later(t, e, ProjectPersonalAccessTokenRevocation(t, e))
projectPersonalAccessTokenUpdate(t, e) ==
  IF \/ ~AtPrevious(t, e)
     \/ t[e.stream].data.subject # e.arg.subject
     \/ t[e.stream].data.revoked /\ ~e.arg.revoked
  THEN Refused(t)
  ELSE Later(t, e, ReplacePersonalAccessTokenMetadata(t, e))
projectPersonalAccessTokenDelete(t, e) ==
  Later(t, e, DeletePersonalAccessTokenProjection(t, e))

InsertOIDCProviderConfig(t, e) == Insert(t, e, [disabled |-> e.arg])
ReplaceOIDCProviderConfig(t, e) == Replace(t, e, [disabled |-> e.arg])
DeleteOIDCProviderConfig(t, e) == Delete(t, e)
projectOIDCProviderConfigCreate(t, e) == First(t, e, InsertOIDCProviderConfig(t, e))
projectOIDCProviderConfigUpdate(t, e) == Later(t, e, ReplaceOIDCProviderConfig(t, e))
projectOIDCProviderConfigDelete(t, e) == Later(t, e, DeleteOIDCProviderConfig(t, e))

\* A bearer is named by the version it was minted at.
InsertSCIMProvider(t, e) == Insert(t, e, [bearer |-> e.version, disabled |-> FALSE])
RotateSCIMProviderToken(t, e) ==
  Replace(t, e, [t[e.stream].data EXCEPT !.bearer = e.version])
DisableSCIMProvider(t, e) == Replace(t, e, [t[e.stream].data EXCEPT !.disabled = TRUE])
DeleteSCIMProvider(t, e) == Delete(t, e)

\* A SCIM provider's slug may be created again after its deletion.
projectSCIMProviderCreated(t, e) == InsertSCIMProvider(t, e)
\* Only evaluated on a live row: the replaced bearer and the flag are the row's.
OnRow(t, e, outcome) == IF Live(t, e.stream) THEN outcome ELSE Refused(t)
projectSCIMProviderTokenRotated(t, e) ==
  Later(t, e, OnRow(t, e, RotateSCIMProviderToken(t, e)))
projectSCIMProviderDisabled(t, e) == Later(t, e, OnRow(t, e, DisableSCIMProvider(t, e)))
projectSCIMProviderDeleted(t, e) == Later(t, e, DeleteSCIMProvider(t, e))

InsertBootstrapLogin(t, e) == Insert(t, e, [user |-> e.arg, consumed |-> FALSE])
ConsumeBootstrapLogin(t, e) ==
  IF t[e.stream].data.consumed THEN Refused(t)
  ELSE Replace(t, e, [t[e.stream].data EXCEPT !.consumed = TRUE])
projectBootstrapLoginMint(t, e) ==
  IF ~Live(t, e.arg) THEN Refused(t) ELSE First(t, e, InsertBootstrapLogin(t, e))
projectBootstrapLoginConsume(t, e) ==
  IF ~AtPrevious(t, e) THEN Refused(t) ELSE Later(t, e, ConsumeBootstrapLogin(t, e))

\* The registry of projectors.  Enrollment, user and user-group creation are the
\* first events of rows this module only refers to.
actionEventDefinitions(t, e) ==
  CASE e.type = "ManagedActionCreated" -> projectManagedActionCreate(t, e)
    [] e.type = "ManagedActionUpdated" -> projectManagedActionUpdate(t, e)
    [] e.type = "ManagedActionDeleted" -> projectManagedActionDelete(t, e)

actionSetEventDefinitions(t, e) ==
  CASE e.type = "ManagedActionSetCreated" -> projectManagedActionSetCreate(t, e)
    [] e.type = "ManagedActionSetUpdated" -> projectManagedActionSetUpdate(t, e)
    [] e.type = "ManagedActionSetDeleted" -> projectManagedActionSetDelete(t, e)

assignmentEventDefinitions(t, e) ==
  CASE e.type = "AssignmentCreated" -> projectAssignmentCreate(t, e)
    [] e.type = "AssignmentDeleted" -> projectAssignmentDelete(t, e)

compliancePolicyEventDefinitions(t, e) ==
  CASE e.type = "CompliancePolicyCreated" -> projectCompliancePolicyCreate(t, e)
    [] e.type = "CompliancePolicyUpdated" -> projectCompliancePolicyUpdate(t, e)
    [] e.type = "CompliancePolicyDeleted" -> projectCompliancePolicyDelete(t, e)

serverSettingEventDefinitions(t, e) ==
  CASE e.type = "ServerSettingCreated" -> projectServerSettingCreate(t, e)
    [] e.type = "ServerSettingUpdated" -> projectServerSettingUpdate(t, e)
    [] e.type = "ServerSettingDeleted" -> projectServerSettingDelete(t, e)

deviceGroupEventDefinitions(t, e) ==
  CASE e.type = "DeviceGroupCreated" -> projectDeviceGroupCreated(t, e)
    [] e.type = "DeviceGroupUpdated" -> projectDeviceGroupUpdated(t, e)
    [] e.type = "DeviceGroupDeleted" -> projectDeviceGroupDeleted(t, e)

deviceEventDefinitions(t, e) ==
  CASE e.type = "AgentEnrolled" -> projectAgentEnrollment(t, e)
    [] e.type = "AgentOwnerUpdated" -> projectAgentOwnerUpdate(t, e)
    [] e.type = "AgentDeleted" -> projectAgentDeletion(t, e)

inventoryEventDefinitions(t, e) ==
  CASE e.type = "InventorySnapshot" -> projectInventorySnapshot(t, e)
    [] e.type = "InventoryTombstone" -> projectInventoryTombstone(t, e)

userEventDefinitions(t, e) ==
  CASE e.type = "UserCreated" -> projectUserCreation(t, e)
    [] e.type = "UserManagedDeleted" -> projectManagedUserDeletion(t, e)

userGroupEventDefinitions(t, e) == projectUserGroupCreated(t, e)

personalAccessTokenEventDefinitions(t, e) ==
  CASE e.type = "PersonalAccessTokenMinted" -> projectPersonalAccessTokenMint(t, e)
    [] e.type = "PersonalAccessTokenRevoked" -> projectPersonalAccessTokenRevocation(t, e)
    [] e.type = "PersonalAccessTokenUpdated" -> projectPersonalAccessTokenUpdate(t, e)
    [] e.type = "PersonalAccessTokenDeleted" -> projectPersonalAccessTokenDelete(t, e)

oidcProviderConfigEventDefinitions(t, e) ==
  CASE e.type = "OIDCProviderCreated" -> projectOIDCProviderConfigCreate(t, e)
    [] e.type = "OIDCProviderUpdated" -> projectOIDCProviderConfigUpdate(t, e)
    [] e.type = "OIDCProviderDeleted" -> projectOIDCProviderConfigDelete(t, e)

scimProviderEventDefinitions(t, e) ==
  CASE e.type = "SCIMProviderCreated" -> projectSCIMProviderCreated(t, e)
    [] e.type = "SCIMProviderTokenRotated" -> projectSCIMProviderTokenRotated(t, e)
    [] e.type = "SCIMProviderDisabled" -> projectSCIMProviderDisabled(t, e)
    [] e.type = "SCIMProviderDeleted" -> projectSCIMProviderDeleted(t, e)

bootstrapLoginEventDefinitions(t, e) ==
  CASE e.type = "BootstrapLoginMinted" -> projectBootstrapLoginMint(t, e)
    [] e.type = "BootstrapLoginConsumed" -> projectBootstrapLoginConsume(t, e)

project(t, e) ==
  CASE e.stream \in Actions -> actionEventDefinitions(t, e)
    [] e.stream \in ActionSets -> actionSetEventDefinitions(t, e)
    [] e.stream \in Assignments -> assignmentEventDefinitions(t, e)
    [] e.stream \in Policies -> compliancePolicyEventDefinitions(t, e)
    [] e.stream \in Settings -> serverSettingEventDefinitions(t, e)
    [] e.stream \in DeviceGroups -> deviceGroupEventDefinitions(t, e)
    [] e.stream \in Devices -> deviceEventDefinitions(t, e)
    [] e.stream \in Inventories -> inventoryEventDefinitions(t, e)
    [] e.stream \in Users -> userEventDefinitions(t, e)
    [] e.stream \in UserGroups -> userGroupEventDefinitions(t, e)
    [] e.stream \in Tokens -> personalAccessTokenEventDefinitions(t, e)
    [] e.stream \in OIDCProviders -> oidcProviderConfigEventDefinitions(t, e)
    [] e.stream \in SCIMProviders -> scimProviderEventDefinitions(t, e)
    [] e.stream \in Logins -> bootstrapLoginEventDefinitions(t, e)

-----------------------------------------------------------------------------
(* Scoped reads *)

\* What a request may touch: everything, or its groups and its own user.
Scope(global, dgs, ugs, self) == [global |-> global, dgs |-> dgs, ugs |-> ugs, self |-> self]
GlobalScope == Scope(TRUE, {}, {}, NoUser)

\* The EXISTS subqueries on group members.
InDeviceGroup(t, d, s) == \E g \in s.dgs \cap DeviceGroups : Live(t, g) /\ d \in t[g].data
MemberOf(t, u, groups) == Live(t, u) /\ t[u].data \cap groups # {}
InManagedGroup(t, u, s) == MemberOf(t, u, s.ugs \cap UserGroups)
InAnyGroup(t, u, s) == InManagedGroup(t, u, s) \/ MemberOf(t, u, s.ugs \cap SCIMGroups)

\* A definition is read through an assignment of it to a target in scope.
AssignedWithin(t, source, s) ==
  \E a \in Assignments :
    /\ Live(t, a) /\ t[a].data.source = source
    /\ LET to == t[a].data.target
       IN \/ to \in s.dgs \cup s.ugs \cup {s.self}
          \/ to \in Users /\ InManagedGroup(t, to, s)
          \/ to \in Devices /\ InDeviceGroup(t, to, s)

GetScopedManagedAction(t, a, s) == Live(t, a) /\ (s.global \/ AssignedWithin(t, a, s))
GetScopedManagedActionSet(t, a, s) == Live(t, a) /\ (s.global \/ AssignedWithin(t, a, s))
GetScopedAssignment(t, a, s) ==
  Live(t, a) /\ (s.global \/ t[a].data.target \in s.dgs \cup s.ugs \cup {s.self})
GetCompliancePolicy(t, p, s) == Live(t, p) /\ s.global
GetServerSetting(t, k) == Live(t, k)
GetScopedDeviceGroup(t, g, s) == Live(t, g) /\ (s.global \/ g \in s.dgs)
GetScopedDevice(t, d, s) == Live(t, d) /\ (s.global \/ InDeviceGroup(t, d, s))
GetScopedInventorySnapshot(t, d, s) ==
  LET i == InventoryOf[d]
  IN Live(t, i) /\ ~t[i].data.deleted /\ (s.global \/ InDeviceGroup(t, d, s))
GetScopedUserByID(t, u, s) == Live(t, u) /\ (s.global \/ u = s.self \/ InAnyGroup(t, u, s))
GetScopedManagedUserGroup(t, g, s) == Live(t, g) /\ (s.global \/ g \in s.ugs)
GetScopedPersonalAccessToken(t, k, s) ==
  /\ Live(t, k)
  /\ LET u == t[k].data.subject
     IN s.global \/ u = s.self \/ InAnyGroup(t, u, s)
GetOIDCProviderConfig(t, p) == Live(t, p)
GetSCIMProvider(t, p) == Live(t, p)

\* ORDER BY the identifier, LIMIT n.  (Device groups come in the order of their names, here
\* taken to be that of their identifiers.)
Rank == [k \in Streams |-> CHOOSE i \in DOMAIN Order : Order[i] = k]
Page(ks, n) == {k \in ks : Cardinality({j \in ks : Rank[j] < Rank[k]}) < n}

ListScopedManagedActions(t, s, n) ==
  Page({a \in Actions : Live(t, a) /\ (s.global \/ AssignedWithin(t, a, s))}, n)
ListScopedManagedActionSets(t, s, n) ==
  Page({a \in ActionSets : Live(t, a) /\ (s.global \/ AssignedWithin(t, a, s))}, n)
ListScopedAssignments(t, s, n) ==
  Page({a \in Assignments : Live(t, a) /\
          (s.global \/ t[a].data.target \in s.dgs \cup s.ugs \cup {s.self})}, n)
ListCompliancePolicies(t, s, n) == Page({p \in Policies : Live(t, p) /\ s.global}, n)
ListServerSettings(t, n) == Page({k \in Settings : Live(t, k)}, n)
ListScopedDeviceGroups(t, s, n) ==
  Page({g \in DeviceGroups : Live(t, g) /\ (s.global \/ g \in s.dgs)}, n)
ListScopedDevices(t, s, n) ==
  Page({d \in Devices : Live(t, d) /\ (s.global \/ InDeviceGroup(t, d, s))}, n)
ListScopedInventorySnapshots(t, s, n) ==
  Page({InventoryOf[d] : d \in {d \in Devices :
          /\ Live(t, InventoryOf[d]) /\ ~t[InventoryOf[d]].data.deleted
          /\ s.global \/ InDeviceGroup(t, d, s)}}, n)
ListScopedUsers(t, s, n) ==
  Page({u \in Users : Live(t, u) /\ (s.global \/ u = s.self \/ InAnyGroup(t, u, s))}, n)
ListScopedManagedUserGroups(t, s, n) ==
  Page({g \in UserGroups : Live(t, g) /\ (s.global \/ g \in s.ugs)}, n)
ListOIDCProviderConfigs(t, n) == Page({p \in OIDCProviders : Live(t, p)}, n)
ListSCIMProviders(t, n) == Page({p \in SCIMProviders : Live(t, p)}, n)

\* Mutant: the page forgets the tokens of a group's members.
MutListScopedPersonalAccessTokens(t, s, n) ==
  Page({k \in Tokens : Live(t, k) /\ (s.global \/ t[k].data.subject = s.self)}, n)
ListScopedPersonalAccessTokens(t, s, n) ==
  Page({k \in Tokens : Live(t, k) /\ (\/ s.global
                                      \/ t[k].data.subject = s.self
                                      \/ InAnyGroup(t, t[k].data.subject, s))}, n)

\* The streams whose events an audit page may show.  (The statement compares the identifier of a
\* stream with those of the scope, whatever the stream's type; identifiers of different things
\* differ, and an inventory has its device's.)
ListScopedAuditEvents(t, s) ==
  {k \in Streams :
     \/ s.global \/ k \in s.dgs \cup s.ugs \cup {s.self}
     \/ k \in Devices /\ InDeviceGroup(t, k, s)
     \/ \E d \in Devices : k = InventoryOf[d] /\ InDeviceGroup(t, d, s)
     \/ k \in Users /\ InManagedGroup(t, k, s)}

\* The store's reads, each through its statement.
ManagedActionByID(t, k, s) == GetScopedManagedAction(t, k, s)
ManagedActionSetByID(t, k, s) == GetScopedManagedActionSet(t, k, s)
AssignmentByID(t, k, s) == GetScopedAssignment(t, k, s)
CompliancePolicyByID(t, k, s) == GetCompliancePolicy(t, k, s)
ServerSettingByID(t, k) == GetServerSetting(t, k)
DeviceGroupByID(t, k, s) == GetScopedDeviceGroup(t, k, s)
ScopedDevice(t, k, s) == GetScopedDevice(t, k, s)
InventorySnapshotByID(t, k, s) ==
  \E d \in Devices : InventoryOf[d] = k /\ GetScopedInventorySnapshot(t, d, s)
ScopedUserByID(t, k, s) == GetScopedUserByID(t, k, s)
UserGroupByID(t, k, s) == GetScopedManagedUserGroup(t, k, s)
ScopedPersonalAccessTokenByID(t, k, s) == GetScopedPersonalAccessToken(t, k, s)
OIDCProviderConfigBySlug(t, k) == GetOIDCProviderConfig(t, k)
SCIMProviderMetadataBySlug(t, k) == GetSCIMProvider(t, k)

ByID(t, k, s) ==
  CASE k \in Actions -> ManagedActionByID(t, k, s)
    [] k \in ActionSets -> ManagedActionSetByID(t, k, s)
    [] k \in Assignments -> AssignmentByID(t, k, s)
    [] k \in Policies -> CompliancePolicyByID(t, k, s)
    [] k \in Settings -> ServerSettingByID(t, k)
    [] k \in DeviceGroups -> DeviceGroupByID(t, k, s)
    [] k \in Devices -> ScopedDevice(t, k, s)
    [] k \in Inventories -> InventorySnapshotByID(t, k, s)
    [] k \in Users -> ScopedUserByID(t, k, s)
    [] k \in UserGroups -> UserGroupByID(t, k, s)
    [] k \in Tokens -> ScopedPersonalAccessTokenByID(t, k, s)
    [] k \in OIDCProviders -> OIDCProviderConfigBySlug(t, k)
    [] k \in SCIMProviders -> SCIMProviderMetadataBySlug(t, k)

ListManagedActions(t, s, n) == ListScopedManagedActions(t, s, n)
ListManagedActionSets(t, s, n) == ListScopedManagedActionSets(t, s, n)
ListAssignments(t, s, n) == ListScopedAssignments(t, s, n)
ListDeviceGroups(t, s, n) == ListScopedDeviceGroups(t, s, n)
ListInventorySnapshots(t, s, n) == ListScopedInventorySnapshots(t, s, n)
ListUserGroups(t, s, n) == ListScopedManagedUserGroups(t, s, n)

\* A page of the objects of the kind of k.
ListOf(t, k, s, n) ==
  CASE k \in Actions -> ListManagedActions(t, s, n)
    [] k \in ActionSets -> ListManagedActionSets(t, s, n)
    [] k \in Assignments -> ListAssignments(t, s, n)
    [] k \in Policies -> ListCompliancePolicies(t, s, n)
    [] k \in Settings -> ListServerSettings(t, n)
    [] k \in DeviceGroups -> ListDeviceGroups(t, s, n)
    [] k \in Devices -> ListScopedDevices(t, s, n)
    [] k \in Inventories -> ListInventorySnapshots(t, s, n)
    [] k \in Users -> ListScopedUsers(t, s, n)
    [] k \in UserGroups -> ListUserGroups(t, s, n)
    [] k \in Tokens -> ListScopedPersonalAccessTokens(t, s, n)
    [] k \in OIDCProviders -> ListOIDCProviderConfigs(t, n)
    [] k \in SCIMProviders -> ListSCIMProviders(t, n)

\* The rebuild of the management tables: emptied, and every stream replayed, its
\* events in order.
\* The rows of Users, UserGroups, Devices and Logins are other targets' rows.
ManagedStreams == Streams \ (Users \cup UserGroups \cup Devices \cup Logins)
Managed(t) == [k \in ManagedStreams |-> t[k]]
replay(t, log) ==
  LET after[n \in 0 .. Len(log)] ==
        IF n = 0 THEN Outcome(TRUE, t, t)
        ELSE LET before == after[n - 1]
                 out == project(before.table, log[n])
             IN [ok |-> before.ok /\ out.ok, table |-> out.table]
  IN after[Len(log)]
RebuildAll(t, log) ==
  LET reset == [k \in Streams |-> IF k \in ManagedStreams THEN NoRow ELSE t[k]]
      rebuilt[n \in 0 .. Len(Order)] ==
        IF n = 0 THEN Outcome(TRUE, t, reset)
        ELSE LET before == rebuilt[n - 1]
                 out == IF Order[n] \in ManagedStreams THEN replay(before.table, log[Order[n]])
                        ELSE before
             IN [ok |-> before.ok /\ out.ok, table |-> out.table]
  IN rebuilt[Len(Order)]
=============================================================================
