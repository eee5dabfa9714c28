------------------------------- MODULE Access -------------------------------
(***************************************************************************)
(* Requests to the management plane and the sign-in services, running      *)
(* concurrently over the management projections.                           *)
(*                                                                         *)
(* A mutation through the CRUD kernel is authorized once, from the grants  *)
(* its subject holds then; it makes the reads its domain asks for, each    *)
(* against the rows of its moment; and it appends one event, at the next   *)
(* version for a creation and at the version the client names otherwise.   *)
(* The append is atomic (EventStore implements AtomicLog).  The kernel's   *)
(* get and list change nothing and are operators (get, list); the read     *)
(* that fills a mutation's answer is left out.                             *)
(***************************************************************************)
EXTENDS Resources

CONSTANTS Callers,          \* concurrent requests, each from an address of its own
          Subject,          \* the user each caller speaks for
          Grants,           \* the grants of the run: [principal, permissions, scope]
          GlobalOnly,       \* permissions a confined grant does not give
          Requests,         \* the kernel requests clients send: [op, id, arg, ahead], ahead
                            \* being the version they name, counted from the current
          Setup,            \* the events before the first request, in commit order
          StaticProviders,  \* identity providers of the process configuration
          States,           \* OIDC authorization states
          Executions,
          MaxChunks, MaxBytes, MaxChunkBytes, ChunkSizes,
          PageLimits,       \* the limits lists are asked with
          Addresses,        \* the addresses SCIM clients call from
          PerProvider,      \* failed SCIM bearers a provider's window admits
          PerProviderIP,    \* and the window of a provider and an address
          BucketCapacity,   \* windows the SCIM limiter keeps
          MaxCalls          \* bound on the calls of a behaviour

VARIABLES table,     \* committed projections
          events,    \* committed events, by stream
          granted,   \* the grants that stand
          call,      \* each caller's request
          states,    \* stored authorization states, with their provider
          sessions,  \* sessions started from each login and state
          outputs,   \* execution outputs
          failures,  \* current failures of the SCIM limiter
          calls

vars == <<table, events, granted, call, states, sessions, outputs, failures, calls>>
store == <<table, events>>
services == <<states, sessions, outputs, failures>>

Idle == [pc |-> "idle"]
Kinds == {Actions, ActionSets, Assignments, Policies, Settings, DeviceGroups, Devices,
          Inventories, Users, UserGroups, Tokens, OIDCProviders, SCIMProviders}
Buckets == SCIMProviders \cup (SCIMProviders \X Addresses)

OfStream(es, k) == SelectSeq(es, LAMBDA e : e.stream = k)
Numbered == [i \in DOMAIN Setup |->
  [Setup[i] EXCEPT !.version = Len(OfStream(SubSeq(Setup, 1, i), Setup[i].stream))]]

SetupTable == replay([k \in Streams |-> NoRow], Numbered).table
SetupEvents == [k \in Streams |-> OfStream(Numbered, k)]
IsLog(s) == Len(s) \in Nat /\ s = [i \in 1 .. Len(s) |-> s[i]]

\* The projectors accept the events of the set-up.
ASSUME SetupAssumption ==
  /\ IsTable(SetupTable)
  /\ \A k \in Streams : IsLog(SetupEvents[k])
  /\ \A i \in Inventories : SetupEvents[i] # <<>> => Live(SetupTable, i)

ASSUME AccessAssumption ==
  /\ Subject \in [Callers -> Users]
  /\ {"server_settings.manage", "identity_providers.manage", "scim_configuration.manage"}
       \subseteq GlobalOnly
  /\ Logins \cap States = {}
  /\ NoRow \notin [provider : OIDCProviders, stored : BOOLEAN]

\* The limiter refuses windows without room for a failure; every limit is a number.
ASSUME LimitsAssumption ==
  /\ IsFiniteSet(Callers)
  /\ PerProvider \in Nat \ {0} /\ PerProviderIP \in Nat \ {0} /\ BucketCapacity \in Nat
  /\ \A p, q \in SCIMProviders : \A a \in Addresses : p # <<q, a>>
  /\ MaxChunks \in Nat /\ MaxBytes \in Nat /\ ChunkSizes \subseteq Nat

\* The operations a domain registers a procedure for (those of users and user
\* groups that are missing here are Identity's), and what their requests carry.
procedures(id) ==
  CASE id \in Assignments -> {"create", "delete"}
    [] id \in Devices -> {"update", "delete"}
    [] id \in Users -> {"delete"}
    [] id \in UserGroups \cup Inventories \cup Logins -> {}
    [] OTHER -> {"create", "update", "delete"}

ASSUME RequestsAssumption ==
  \A r \in Requests :
    /\ r.id \in Streams /\ r.op \in procedures(r.id)
    /\ r.id \in Tokens /\ r.op # "delete" => r.arg \in TokenData
    /\ r.id \in Assignments /\ r.op = "create" => r.arg.target \in Targets

Init ==
  /\ table = SetupTable
  /\ events = SetupEvents
  /\ granted = Grants
  /\ call = [c \in Callers |-> Idle]
  /\ states = [s \in States |-> NoRow]
  /\ sessions = [l \in Logins \cup States |-> 0]
  /\ outputs = [x \in Executions |-> NoRow]
  /\ failures = [b \in Buckets |-> 0]
  /\ calls = 0

-----------------------------------------------------------------------------
(* The store *)

\* What a scope reaches of itself: its groups, their members, and their objects.
Reaches(t, s, k) ==
  \/ s.global
  \/ k \in s.dgs \cup s.ugs
  \/ k \in Devices /\ InDeviceGroup(t, k, s)
  \/ \E d \in Devices : k = InventoryOf[d] /\ InDeviceGroup(t, d, s)
  \/ k \in Users /\ (k = s.self \/ InAnyGroup(t, k, s))
  \/ /\ k \in Tokens /\ Live(t, k)
     /\ t[k].data.subject = s.self \/ InAnyGroup(t, t[k].data.subject, s)
  \/ /\ k \in Assignments /\ Live(t, k)
     /\ t[k].data.target \in s.dgs \cup s.ugs \cup {s.self}
Reached(t, s) == {k \in Streams : Reaches(t, s, k)}

\* What the requests of the kernel have reached since they were authorized.
Witnessed(t, q) ==
  [d \in Callers |->
     IF q[d].pc = "crud" THEN [q[d] EXCEPT !.reached = @ \cup Reached(t, q[d].scope)] ELSE q[d]]

Version(k) == Len(events[k])

\* AppendEvent, and AppendEventWithVersion at the version the caller names:
\* the event and its projection, or neither; the caller goes on at q.
Numbering(e) == [e EXCEPT !.version = Version(e.stream) + 1]
Appends(e) == project(table, Numbering(e)).ok
AppendEvent(e, q) ==
  /\ Appends(e)
  /\ table' = project(table, Numbering(e)).table
  /\ events' = [events EXCEPT ![e.stream] = Append(@, Numbering(e))]
  /\ call' = Witnessed(table', q)
AppendEventWithVersion(e, expected, q) ==
  /\ Version(e.stream) = expected
  /\ AppendEvent(e, q)

\* A call that ends without an effect: refused, not found, conflicting.
Ends(c) == call' = [call EXCEPT ![c] = Idle] /\ UNCHANGED store

Start(c) ==
  /\ call[c] = Idle /\ calls < MaxCalls
  /\ calls' = calls + 1

-----------------------------------------------------------------------------
(* Authorization *)

\* The grants of a user and of the groups the user is in.
ListResolvedAuthorizationGrants(u) ==
  {g \in granted : g.principal = u \/ g.principal \in table[u].data}

\* What grants give of a permission: a global grant absorbs the others, and a
\* confined one gives no global-only permission.
Resolve(grants, u, p) ==
  LET held == {g \in grants : p \in g.permissions /\ (g.scope.global \/ p \notin GlobalOnly)}
  IN [granted |-> held # {},
      reach |-> IF \E g \in held : g.scope.global THEN GlobalScope
                ELSE Scope(FALSE, UNION {g.scope.dgs : g \in held}, UNION {g.scope.ugs : g \in held},
                           IF \E g \in held : g.scope.self # NoUser THEN u ELSE NoUser)]
ResolveEffectiveAccess(u, p) ==
  IF Live(table, u) THEN Resolve(ListResolvedAuthorizationGrants(u), u, p) ELSE Resolve({}, u, p)
AuthorizeContext(u, p) == ResolveEffectiveAccess(u, p).granted

\* Which parts of a reach a kind of object takes.
DomainScope(relation, reach) ==
  CASE relation \in {"transitive", "assignment"} -> reach
    [] relation \in {"devicegroup", "device"} -> [reach EXCEPT !.ugs = {}]
    [] relation \in {"user", "usergroup", "owned"} -> [reach EXCEPT !.dgs = {}]
    [] relation = "global" -> [reach EXCEPT !.dgs = {}, !.ugs = {}]

AnyScope(s) == s.self # NoUser \/ s.dgs # {} \/ s.ugs # {}
scopeAllows(relation, op, id, s) ==
  \/ s.global
  \/ relation = "devicegroup" /\ id \in s.dgs
  \/ relation = "usergroup" /\ id \in s.ugs
  \/ relation = "user" /\ (s.self = id \/ (op # "create" /\ s.ugs # {}))
  \/ relation = "device" /\ op # "create" /\ s.dgs # {}
  \/ relation = "owned" /\ (s.self # NoUser \/ s.ugs # {})
  \/ relation = "transitive" /\ op \in {"get", "list"} /\ AnyScope(s)
  \/ relation = "assignment" /\ AnyScope(s)

-----------------------------------------------------------------------------
(* The domains.  A domain says which permission a request needs, how its     *)
(* objects relate to a scope, what it reads before it writes, and its event. *)

Domain(permission, relation, reads, event) ==
  [permission |-> permission, relation |-> relation, reads |-> reads, event |-> event]
Read(id, scope, want) == [id |-> id, scope |-> scope, want |-> want]
ByOp(r, created, updated, deleted) ==
  CASE r.op = "create" -> created [] r.op = "update" -> updated [] r.op = "delete" -> deleted
    [] OTHER -> NoRow

actionDomain(r) ==
  Domain("actions.manage", "transitive", <<>>,
    ByOp(r, ManagedActionCreatedEvent(r.id), ManagedActionUpdatedEvent(r.id),
            ManagedActionDeletedEvent(r.id)))
actionSetDomain(r) ==
  Domain("action_sets.manage", "transitive", <<>>,
    ByOp(r, ManagedActionSetCreatedEvent(r.id), ManagedActionSetUpdatedEvent(r.id),
            ManagedActionSetDeletedEvent(r.id)))
\* An assignment is created of a source to a target its creator can read.
validateAssignmentTargetScope(r, s) == Read(r.arg.target, s, "any")
assignmentDomain(r, s) ==
  Domain("actions.manage", "assignment",
    IF r.op = "create"
    THEN <<validateAssignmentTargetScope(r, s), Read(r.arg.source, s, "any")>> ELSE <<>>,
    IF r.op = "create" THEN AssignmentCreatedEvent(r.id, r.arg) ELSE AssignmentDeletedEvent(r.id))
compliancePolicyDomain(r) ==
  Domain("actions.manage", "global",
    IF r.op \notin {"create", "update"} THEN <<>>
    ELSE [i \in DOMAIN r.arg |-> Read(r.arg[i], GlobalScope, "any")],
    ByOp(r, CompliancePolicyCreatedEvent(r.id, r.arg), CompliancePolicyUpdatedEvent(r.id, r.arg),
            CompliancePolicyDeletedEvent(r.id)))
serverSettingDomain(r) ==
  Domain("server_settings.manage", "global", <<>>,
    ByOp(r, ServerSettingCreatedEvent(r.id), ServerSettingUpdatedEvent(r.id),
            ServerSettingDeletedEvent(r.id)))
deviceGroupDomain(r) ==
  Domain("devices.manage", "devicegroup", <<>>,
    ByOp(r, DeviceGroupCreatedWithMembersEvent(r.id, r.arg),
            DeviceGroupUpdatedWithMembersEvent(r.id, r.arg), DeviceGroupDeletedEvent(r.id)))
\* The deletion names the certificate of the device it read.
deviceDomain(r) ==
  Domain("devices.manage", "device",
    IF r.op = "delete" THEN <<Read(r.id, GlobalScope, "any")>> ELSE <<>>,
    IF r.op = "update" THEN AgentOwnerUpdatedEvent(r.id) ELSE AgentDeletedEvent(r.id))
\* Deletions of users who administer nothing: the last administrator's is Identity's.
userDomain(r) == Domain("users.manage", "user", <<>>, UserManagedDeletedEvent(r.id))
\* Changes of user groups are Identity's; inventories are read only.
userGroupDomain(r) == Domain("user_groups.manage", "usergroup", <<>>, NoRow)
inventoryDomain(r) == Domain("devices.manage", "device", <<>>, NoRow)
\* Executions and the audit log: read only, too, and read with the whole reach.
executionDomain == Domain("executions.read", "device", <<>>, NoRow)
auditDomain == Domain("audit.read", "owned", <<>>, NoRow)
apiTokenDomain(r, s) ==
  Domain("users.manage", "owned",
    CASE r.op = "create" -> <<Read(r.arg.subject, s, "any")>>
      [] r.op = "update" ->
           <<Read(r.arg.subject, s, "any"), Read(r.id, GlobalScope, "token")>>
      [] OTHER -> <<>>,
    ByOp(r, PersonalAccessTokenMintedEvent(r.id, r.arg.subject),
            PersonalAccessTokenUpdatedEvent(r.id, r.arg), PersonalAccessTokenDeletedEvent(r.id)))
identityProviderDomain(r) ==
  Domain("identity_providers.manage", "global", <<>>,
    ByOp(r, OIDCProviderConfigCreatedEvent(r.id, FALSE), OIDCProviderConfigUpdatedEvent(r.id, r.arg),
            OIDCProviderConfigDeletedEvent(r.id)))
\* An update rotates the bearer (arg TRUE) or disables the provider.
scimUpdateEvent(r) ==
  IF r.arg = TRUE THEN SCIMProviderTokenRotatedEvent(r.id) ELSE SCIMProviderDisabledEvent(r.id)
scimConfigurationDomain(r) ==
  Domain("scim_configuration.manage", "global",
    IF r.op = "update" THEN <<Read(r.id, GlobalScope, "enabled")>> ELSE <<>>,
    ByOp(r, SCIMProviderCreatedEvent(r.id), scimUpdateEvent(r), SCIMProviderDeletedEvent(r.id)))

managementDomains(r, s) ==
  CASE r.id \in Actions -> actionDomain(r)
    [] r.id \in ActionSets -> actionSetDomain(r)
    [] r.id \in Assignments -> assignmentDomain(r, s)
    [] r.id \in Policies -> compliancePolicyDomain(r)
    [] r.id \in Settings -> serverSettingDomain(r)
    [] r.id \in DeviceGroups -> deviceGroupDomain(r)
    [] r.id \in Devices -> deviceDomain(r)
    [] r.id \in Users -> userDomain(r)
    [] r.id \in UserGroups -> userGroupDomain(r)
    [] r.id \in Inventories -> inventoryDomain(r)
    [] r.id \in Tokens -> apiTokenDomain(r, s)
    [] r.id \in OIDCProviders -> identityProviderDomain(r)
    [] r.id \in SCIMProviders -> scimConfigurationDomain(r)

-----------------------------------------------------------------------------
(* The kernel *)

\* Mutant: a confined change does not read its target through the scope.
MutRequireScopedMutationTarget(d, r, s) == <<>>
requireScopedMutationTarget(d, r, s) ==
  IF \/ s.global \/ r.op = "create"
     \/ d.relation = "user" /\ s.self = r.id
     \/ d.relation \notin {"user", "device", "owned", "assignment"}
  THEN <<>> ELSE <<Read(r.id, s, "any")>>

ScopeOf(u, d) == DomainScope(d.relation, ResolveEffectiveAccess(u, d.permission).reach)

authorize(c) ==
  /\ Start(c)
  /\ \E r \in Requests :
       LET d == managementDomains(r, GlobalScope)
           s == ScopeOf(Subject[c], d)
       IN /\ AuthorizeContext(Subject[c], d.permission)
          /\ scopeAllows(d.relation, r.op, r.id, s)
          /\ call' = [call EXCEPT ![c] =
               [pc |-> "crud", request |-> r, scope |-> s,
                expected |-> Version(r.id) + r.ahead,
                todo |-> requireScopedMutationTarget(d, r, s) \o managementDomains(r, s).reads,
                reached |-> Reached(table, s)]]
  /\ UNCHANGED <<store, granted, services>>

\* What a read finds, and what the domain asks of the row.
Satisfied(q, read) ==
  /\ ByID(table, read.id, read.scope)
  /\ CASE read.want = "any" -> TRUE
       [] read.want = "enabled" -> ~table[read.id].data.disabled
       [] read.want = "token" ->
            LET row == table[read.id].data
            IN row.subject = q.request.arg.subject /\ (row.revoked => q.request.arg.revoked)

validateDomainMutationScope(c) ==
  /\ call[c].pc = "crud" /\ call[c].todo # <<>>
  /\ LET q == call[c]
     IN call' = [call EXCEPT ![c] =
          IF Satisfied(q, Head(q.todo)) THEN [q EXCEPT !.todo = Tail(q.todo)] ELSE Idle]
  /\ UNCHANGED <<store, granted, services, calls>>

\* create, update, delete: the append, or the store's refusal.
mutate(c) ==
  /\ call[c].pc = "crud" /\ call[c].todo = <<>>
  /\ LET r == call[c].request
         e == managementDomains(r, call[c].scope).event
         fits == Appends(e) /\ (r.op = "create" \/ Version(r.id) = call[c].expected)
     IN IF fits THEN AppendEvent(e, [call EXCEPT ![c] = Idle]) ELSE Ends(c)
  /\ UNCHANGED <<granted, services, calls>>

\* The kernel's reads.  A read of user u is authorized for the kind of k; a get
\* finds an object or does not, and a list is a page of n objects.
ReadDomain == [k \in UNION Kinds |->
  managementDomains([op |-> "get", id |-> k, arg |-> NoRow], GlobalScope)]
Reader(u, k) ==
  LET d == ReadDomain[k]
  IN [ok |-> AuthorizeContext(u, d.permission), relation |-> d.relation, scope |-> ScopeOf(u, d)]
get(r, k) == r.ok /\ scopeAllows(r.relation, "get", k, r.scope) /\ ByID(table, k, r.scope)
list(r, k, n) == IF r.ok THEN ListOf(table, k, r.scope, n) ELSE {}

GetScopedExecution(x, s) ==
  outputs[x] # NoRow /\ (s.global \/ InDeviceGroup(table, outputs[x].device, s))
ListScopedExecutions(s) ==
  {x \in Executions : outputs[x] # NoRow /\ (s.global \/ InDeviceGroup(table, outputs[x].device, s))}
ExecutionByID(x, s) == GetScopedExecution(x, s)
ListExecutions(s) == ListScopedExecutions(s)
ListAuditEvents(s) == ListScopedAuditEvents(table, s)

\* An administrator deletes a grant; requests it authorized go on.
GrantDeleted ==
  /\ calls < MaxCalls /\ calls' = calls + 1
  /\ \E g \in granted : granted' = granted \ {g}
  /\ UNCHANGED <<store, call, services>>

-----------------------------------------------------------------------------
(* API tokens, SCIM providers, inventories: read, then a pinned append *)

\* One call that appends an event at the version it names, or does nothing.
Pinned(c, e, version) ==
  IF Appends(e) /\ Version(e.stream) = version
  THEN AppendEvent(e, [call EXCEPT ![c] = Idle]) ELSE Ends(c)

MintPAT(c) ==
  /\ Start(c)
  /\ \E k \in Tokens, u \in Users :
       AppendEventWithVersion(PersonalAccessTokenMintedEvent(k, u), 0, call)
  /\ UNCHANGED <<granted, services>>

\* The reads that come before a pinned append, and what each continues with.
Pending(c, e, version) == call' = [call EXCEPT ![c] = [pc |-> "append", event |-> e, version |-> version]]
RevokePAT(c) ==
  /\ Start(c)
  /\ \E k \in Tokens :
       /\ Live(table, k) /\ ~table[k].data.revoked
       /\ Pending(c, PersonalAccessTokenRevokedEvent(k), table[k].version)
  /\ UNCHANGED <<store, granted, services>>
CreateSCIMProvider(c) ==
  /\ Start(c)
  /\ \E p \in SCIMProviders : AppendEventWithVersion(SCIMProviderCreatedEvent(p), 0, call)
  /\ UNCHANGED <<granted, services>>
EnabledProvider(p) == Live(table, p) /\ ~table[p].data.disabled
RotateSCIMProvider(c) ==
  /\ Start(c)
  /\ \E p \in SCIMProviders :
       EnabledProvider(p) /\ Pending(c, SCIMProviderTokenRotatedEvent(p), table[p].version)
  /\ UNCHANGED <<store, granted, services>>
DisableSCIMProviderCall(c) ==
  /\ Start(c)
  /\ \E p \in SCIMProviders :
       EnabledProvider(p) /\ Pending(c, SCIMProviderDisabledEvent(p), table[p].version)
  /\ UNCHANGED <<store, granted, services>>
AppendPending(c) ==
  /\ call[c].pc = "append"
  /\ Pinned(c, call[c].event, call[c].version)
  /\ UNCHANGED <<granted, services, calls>>

RecordInventory(c) ==
  /\ Start(c)
  /\ \E i \in Inventories :
       \E e \in {InventorySnapshotEvent(i), InventoryTombstoneEvent(i)} : AppendEvent(e, call)
  /\ UNCHANGED <<granted, services>>

-----------------------------------------------------------------------------
(* Sign-in: break-glass logins and OIDC *)

MintLogin(c) ==
  /\ Start(c)
  /\ \E l \in Logins, u \in Users :
       AppendEventWithVersion(BootstrapLoginMintedEvent(l, u), 0, call)
  /\ UNCHANGED <<granted, services>>

\* The login is read unspent; it is spent at that version; then a session starts.  (One that is
\* read expired is refused: a call that changes nothing.)
ConsumeLogin(c) ==
  /\ Start(c)
  /\ \E l \in Logins :
       /\ Live(table, l) /\ ~table[l].data.consumed
       /\ call' = [call EXCEPT ![c] = [pc |-> "spend", login |-> l, version |-> table[l].version,
                                       user |-> table[l].data.user]]
  /\ UNCHANGED <<store, granted, services>>
SessionFor(from, u) == [pc |-> "session", from |-> from, user |-> u]
SpendLogin(c) ==
  /\ call[c].pc = "spend"
  /\ LET q == call[c]
         e == BootstrapLoginConsumedEvent(q.login)
     IN IF Appends(e) /\ Version(q.login) = q.version
        THEN AppendEvent(e, [call EXCEPT ![c] = SessionFor(q.login, q.user)]) ELSE Ends(c)
  /\ UNCHANGED <<granted, services, calls>>
StartSession(c) ==
  /\ call[c].pc = "session"
  /\ sessions' = IF Live(table, call[c].user)
                 THEN [sessions EXCEPT ![call[c].from] = @ + 1] ELSE sessions
  /\ call' = [call EXCEPT ![c] = Idle]
  /\ UNCHANGED <<store, granted, states, outputs, failures, calls>>

\* A provider's row wins over the process configuration, also when it disables.
provider(p) == IF Live(table, p) THEN ~table[p].data.disabled ELSE p \in StaticProviders

\* Cleans up: the stored states the clock has left behind, any of them here.
DeleteExpiredOIDCLoginStates ==
  \E kept \in SUBSET States :
    states' = [s \in States |-> IF states[s] # NoRow /\ s \notin kept
                                THEN [states[s] EXCEPT !.stored = FALSE] ELSE states[s]]
StartOIDC(c) ==
  /\ Start(c)
  /\ \E p \in OIDCProviders :
       provider(p) /\ call' = [call EXCEPT ![c] = [pc |-> "bind", provider |-> p]]
  /\ DeleteExpiredOIDCLoginStates
  /\ UNCHANGED <<store, granted, sessions, outputs, failures>>
StoreOIDCLoginState(c) ==
  /\ call[c].pc = "bind"
  /\ \E s \in States :
       /\ states[s] = NoRow
       /\ states' = [states EXCEPT ![s] = [provider |-> call[c].provider, stored |-> TRUE]]
  /\ call' = [call EXCEPT ![c] = Idle]
  /\ UNCHANGED <<store, granted, sessions, outputs, failures, calls>>

\* Complete: the state is deleted and returned, unless it is gone; an expired
\* one ends the call.
Issued(s) == states[s] # NoRow /\ states[s].stored
\* Mutant: the state is returned and stays.
MutConsumeOIDCLoginState(s) == [states EXCEPT ![s].stored = TRUE]
ConsumedOIDCLoginState(s) == [states EXCEPT ![s].stored = FALSE]
CompleteOIDC(c) ==
  /\ Start(c)
  /\ \E s \in States, expired \in BOOLEAN :
       /\ Issued(s)
       /\ states' = ConsumedOIDCLoginState(s)
       /\ call' = [call EXCEPT ![c] =
            IF expired THEN Idle ELSE [pc |-> "exchange", state |-> s, provider |-> states[s].provider]]
  /\ UNCHANGED <<store, granted, sessions, outputs, failures>>
\* The provider is read again; its answer names a user (Identity), or is refused.
ExchangeOIDC(c) ==
  /\ call[c].pc = "exchange"
  /\ \/ call' = [call EXCEPT ![c] = Idle]
     \/ \E u \in Users : /\ provider(call[c].provider)
                         /\ call' = [call EXCEPT ![c] = SessionFor(call[c].state, u)]
  /\ UNCHANGED <<store, granted, services, calls>>

-----------------------------------------------------------------------------
(* SCIM bearers and their failure limiter; execution output *)

\* A bearer is named by the version that minted it; 0 is none.
Accepts(t, p, bearer) == Live(t, p) /\ ~t[p].data.disabled /\ t[p].data.bearer = bearer

\* The failures of each window that the clock has not yet left behind.
prune ==
  {kept \in [Buckets -> UNION {0..failures[b] : b \in Buckets}] :
     \A b \in Buckets : kept[b] <= failures[b]}
\* The limiter keeps a bucket per window with failures, and no more than it has
\* room for: a check that would need more room is refused.
Filled(f) == {b \in Buckets : f[b] > 0}
newBucketCount(f, p, a) == Cardinality({p, <<p, a>>} \ Filled(f))
HasRoom(f, p, a) == newBucketCount(f, p, a) + Cardinality(Filled(f)) <= BucketCapacity
Limit(b) == IF b \in SCIMProviders THEN PerProvider ELSE PerProviderIP
Check(f, p, a) == HasRoom(f, p, a) /\ \A b \in {p, <<p, a>>} : f[b] < Limit(b)
CheckSCIM(c) ==
  /\ Start(c)
  /\ \E p \in SCIMProviders, a \in Addresses : \E bearer \in 0..Version(p), kept \in prune :
       /\ failures' = kept
       /\ call' = IF Check(kept, p, a)
                  THEN [call EXCEPT ![c] = [pc |-> "compare", provider |-> p, address |-> a,
                                            bearer |-> bearer]]
                  ELSE call
  /\ UNCHANGED <<store, granted, states, sessions, outputs>>
\* The row read after the check decides; a rejection is recorded in both windows,
\* one after the other, where there is room.  No row is read from a store that is
\* down, and nothing is recorded.
RecordedIn(f, b) ==
  IF b \notin Filled(f) /\ Cardinality(Filled(f)) >= BucketCapacity THEN f
  ELSE [f EXCEPT ![b] = @ + 1]
RecordFailure(f, p, a) == RecordedIn(RecordedIn(f, p), <<p, a>>)
CompareSCIM(c) ==
  /\ call[c].pc = "compare"
  /\ \/ UNCHANGED failures
     \/ /\ ~Accepts(table, call[c].provider, call[c].bearer)
        /\ \E kept \in prune :
             failures' = RecordFailure(kept, call[c].provider, call[c].address)
  /\ call' = [call EXCEPT ![c] = Idle]
  /\ UNCHANGED <<store, granted, states, sessions, outputs, calls>>
\* One statement: the first binding, or the same one again.
BindExecutionOutputToDevice(c) ==
  /\ Start(c)
  /\ \E x \in Executions, d \in Devices :
       /\ outputs[x] = NoRow
       /\ outputs' = [outputs EXCEPT ![x] = [device |-> d, stored |-> <<>>, bytes |-> 0,
                                             truncated |-> FALSE]]
  /\ UNCHANGED <<store, granted, call, states, sessions, failures>>

\* Mutant: the size of the new chunk is not counted.
MutOverLimit(o, n) == n > MaxChunkBytes \/ o.bytes >= MaxBytes \/ Len(o.stored) >= MaxChunks
OverLimit(o, n) == n > MaxChunkBytes \/ o.bytes + n > MaxBytes \/ Len(o.stored) >= MaxChunks
\* A transaction that holds the row: a chunk, or the mark that ends the output.
AppendExecutionOutput(c) ==
  /\ Start(c)
  /\ \E x \in Executions, n \in ChunkSizes :
       /\ outputs[x] # NoRow /\ ~outputs[x].truncated
       /\ LET o == outputs[x]
          IN outputs' = [outputs EXCEPT ![x] =
               IF OverLimit(o, n) THEN [o EXCEPT !.truncated = TRUE]
               ELSE [o EXCEPT !.stored = Append(@, n), !.bytes = @ + n]]
  /\ UNCHANGED <<store, granted, call, states, sessions, failures>>

-----------------------------------------------------------------------------
Next ==
  \/ GrantDeleted
  \/ \E c \in Callers :
       \/ authorize(c) \/ validateDomainMutationScope(c) \/ mutate(c)
       \/ MintPAT(c) \/ RevokePAT(c)
       \/ CreateSCIMProvider(c) \/ RotateSCIMProvider(c) \/ DisableSCIMProviderCall(c)
       \/ AppendPending(c) \/ RecordInventory(c)
       \/ MintLogin(c) \/ ConsumeLogin(c) \/ SpendLogin(c) \/ StartSession(c)
       \/ StartOIDC(c) \/ StoreOIDCLoginState(c) \/ CompleteOIDC(c) \/ ExchangeOIDC(c)
       \/ CheckSCIM(c) \/ CompareSCIM(c)
       \/ BindExecutionOutputToDevice(c) \/ AppendExecutionOutput(c)

Spec == Init /\ [][Next]_vars

-----------------------------------------------------------------------------
(* Properties *)

\* The object whose reach decides a request: who a new token speaks for, where a
\* new assignment points, and otherwise the object itself.
Decisive(r) ==
  CASE r.op = "create" /\ r.id \in Tokens -> r.arg.subject
    [] r.op = "create" /\ r.id \in Assignments -> r.arg.target
    [] OTHER -> r.id

\* A request changes only what its scope reached at some moment between its
\* authorization and its append, whatever groups, members, owners and grants
\* change in between: authorize, requireScopedMutationTarget and validateScope
\* leave no confined caller a write outside its reach.
ConfinedWrites ==
  [][\A c \in Callers :
       (call[c].pc = "crud" /\ call'[c] = Idle /\ events' # events)
         => Decisive(call[c].request) \in call[c].reached]_vars

\* What ended stays ended: a deleted object's stream never has a row again
\* (a SCIM provider's slug may be created anew), a revoked token and a spent
\* login never work again, and neither does a bearer that was rotated away,
\* disabled or deleted with its provider - through every racing mint, update,
\* revocation, rotation and deletion.
NothingReturns ==
  [][/\ \A k \in Streams \ SCIMProviders :
          events[k] # <<>> /\ table[k] = NoRow => table'[k] = NoRow
     /\ \A k \in Tokens :
          Live(table, k) /\ table[k].data.revoked /\ Live(table', k) => table'[k].data.revoked
     /\ \A l \in Logins : Live(table, l) /\ table[l].data.consumed => table'[l].data.consumed
     /\ \A p \in SCIMProviders : \A b \in 1..Version(p) :
          ~Accepts(table, p, b) => ~Accepts(table', p, b)]_vars

\* A break-glass login, and an OIDC authorization state, starts at most one
\* session, whoever presents it how often and however the two calls interleave
\* (Consume spends before StartSession; Complete deletes the state it reads).
OneSessionPerLogin == \A l \in Logins \cup States : sessions[l] <= 1

\* Replaying the management streams into empty tables is accepted and gives the
\* rows the appends left: no projector depends on another stream's row, so an
\* assignment or policy whose action is gone by now replays as it was written.
ManagementReplays ==
  LET replayed == RebuildAll(table, events)
  IN replayed.ok /\ Managed(replayed.table) = Managed(table)

\* A page a caller gets of a kind of object holds the first n of exactly the
\* objects the caller can get by identifier: authorize, scopeAllows and the two
\* statements agree for every relation of objects to scopes.  The pages of
\* executions agree too, and an audit page shows no stream outside the scope.
\* Said of the moments between requests: a request in flight has committed nothing
\* that the reads could see and that would not be there without the request.
ListsMatchGets ==
  (\A c \in Callers : call[c] = Idle) => \A u \in {Subject[c] : c \in Callers} :
    /\ \A ks \in Kinds \ {{}} :
         LET any == CHOOSE k \in ks : TRUE
             r == Reader(u, any)
             found == {k \in ks : get(r, k)}
         IN \A n \in PageLimits : list(r, any, n) = Page(found, n)
    /\ LET s == ResolveEffectiveAccess(u, executionDomain.permission).reach
       IN ListExecutions(s) = {x \in Executions : ExecutionByID(x, s)}
    /\ LET s == ResolveEffectiveAccess(u, auditDomain.permission).reach
       IN ListAuditEvents(s) \subseteq Reached(table, s)

Total(chunks) ==
  LET sum[n \in 0 .. Len(chunks)] == IF n = 0 THEN 0 ELSE sum[n - 1] + chunks[n]
  IN sum[Len(chunks)]

\* What callers accumulate stays bounded.  The limiter checks before the comparison and
\* counts after it, so requests in flight pass the limit, each by at most one: a window never
\* holds more than the limit and the other callers, the limiter never more buckets than it
\* has room for.  The output of an execution stays within its byte and chunk limits, its byte
\* count is the sum of its chunks, and a truncated output never changes.
LimitsKept ==
  [][/\ \A b \in Buckets : failures'[b] < Limit(b) + Cardinality(Callers)
     /\ Cardinality(Filled(failures')) <= BucketCapacity
     /\ \A x \in Executions : outputs'[x] # NoRow =>
          /\ outputs'[x].bytes = Total(outputs'[x].stored)
          /\ outputs'[x].bytes <= MaxBytes /\ Len(outputs'[x].stored) <= MaxChunks
          /\ outputs[x] # NoRow /\ outputs[x].truncated => outputs'[x] = outputs[x]]_vars
=============================================================================
