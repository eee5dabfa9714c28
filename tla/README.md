# Verification of Power Manage

TLA+ models, TLC runs and TLAPS proofs for the code in this repository: the
control server (`server/`), the gateway, the agent and the SDK.  Every
definition is a translation of the code that `PROJECT.json` names for it
(`map`); what belongs to Postgres, the kernel or a native package tool is
modelled from how this code uses it and marked external.  The specification
documents (`docs/content/01-specs`) were read for intent, never as the source of
a definition.

## The system and its parts

Power Manage administers Linux devices.  A **control server** keeps everything
it knows as events in Postgres, and projects them into tables on the same
transaction; **agents** on the devices and **gateways** in front of them hold
certificates it issued and trust bundles it publishes; people use it through
sessions, under roles and grants; on the device an **SDK** changes files and
packages.

| Part | Code | Modules |
|---|---|---|
| Event store, rebuild | `store/store.go`, `rebuild.go` | `EventStore`, `AtomicLog` |
| Durable work queue | `store/work.go` | `WorkQueue` |
| Sessions | `auth/refresh.go`, `store/refresh_families.go`, `session_invalidation.go` | `Sessions` |
| Registration tokens | `pki/registration_tokens.go`, `store/registration_tokens.go`, `control/registration_token_domain.go` | `RegistrationTokens`, `TokenProjection` |
| CA rotation, issuance, agent and gateway clients | `pki/`, `store/ca_rotation.go`, `devices.go`, `gateways.go`, `agent/internal/enroll`, `server/internal/gateway` | `TrustRotation`, `CARotation`, `Fleet` |
| CRL issuance and distribution | `pki/crl.go`, `store/crl.go`, `control/crl.go` | `CRL` |
| Users, groups, roles, grants, SCIM, last administrator | `store/users.go`, `scim.go`, `authorization.go`, `last_admin.go`, `control/scim.go`, ... | `Identity`, `Directory` |
| Management API, sign-in, effective access, telemetry | `control/`, `auth/`, `authz/`, `store/` | `Access`, `Resources` |
| Files and credentials on the device | `sdk/fsafe`, `sdk/rollback`, agent credential store | `SafeFiles` |
| Packages on the device | `sdk/pkg` | `Packages` |

`PROJECT.json` lists every component with its status and every hazard at the
line where it bites.  How the parts rest on each other: `EventStore` shows that
an append is atomic, and every module that says "append" in one step relies on
that; `CRL` relies on the queue keeping an item until its handler succeeds, which
is `WorkQueue`; `TrustRotation` leaves to `CRL` the revocation that a projector
records when a certificate ends.

## Modules

### Event store: `EventStore`, `AtomicLog`, `TokenProjection`

`store.go` appends events in READ COMMITTED transactions: read the stream
version, insert the event under the unique key (stream, version), run the
projector on the same transaction, commit.  `EventStore` has one step per SQL
statement, so transactions interleave where Postgres lets them.  `pc[w]` is the
statement writer `w` executes next; `staged[w]` is what its open transaction has
inserted, each event with the row its projector left; `events` and `row` are the
committed tables.  The five append functions are the five request modes.
`rebuild.go` is a second transaction (`rb`), REPEATABLE READ, that resets the
rows, replays the log and commits.  The projector is a parameter; the runs give
it the registration-token projector of `TokenProjection`.

`AtomicLog` is what the store promises: a log and rows that change together by
whole appends.

### Work queue: `WorkQueue`

`rows`, `attempts` and `wait` are the `work_items` table; `wait` counts the
ticks until a row is due.  `AppendSource` is an append whose projector enqueues
work, `ReplaySource` the same projector in a rebuild.  The steps of `RunOnce` are
its statements: take the advisory lock, claim, run the handler, delete the row or
record the failure.  `LoseSession` takes transaction and lock away from a worker
whose handler keeps running; `Crash` ends both.

### Sessions: `Sessions`

`user`, `family` and `token` are the projections; `call[c]` is the RPC a caller
executes with what it has read so far.  `StartSession` and `Rotate` are split at
each database read and append.  A rotation that conflicts, and a token that is
already superseded, go to `revokeReplayed`: re-read, append, try again on
conflict.  An append whose answer is lost commits and returns an error.  User
invalidation, deletion and expiry happen at any time.  A request that names no
stored token changes nothing and is left out.

### Registration tokens: `RegistrationTokens`, `TokenProjection`

One token's stream and row, the clock, and callers that read, check and append
at the version they read, with the bounded retry of `waitForCASRetry`.  The
management API creates, updates and deletes the same token; an update is checked
against the row in one step and appended, at the version its client named, in a
later one.  `TokenProjection` has the events, the SQL statements, the projectors
and the reads with their validity checks.

### Trust: `TrustRotation`, `CARotation`, `Fleet`

`CARotation` is the rotation state of one certificate class as a value: the
phases `stable`, `trust`, `migrate`, `retire`, what each publishes and issues
from, the transition proofs, and the continuity checks by which agent and
gateway accept the next bundle.  Agent and gateway have their own copies of these
checks in the code, and here.  `Fleet` has the device and gateway rows, their
events and projectors.  `TrustRotation` composes them: `rot`, `row` and
`receipts` are the server; `file`, `pend` and `seal` the clients; `answer` the
response on its way.  Issuance holds the shared fences of both classes to its
commit and a transition its own class's fence exclusively, so a server call is
one action; the client's half is another, because the answer can be lost and the
client can restart in between.  A gateway's CRL evidence in a confirmation is
arbitrary.

### Revocation lists: `CRL`

`revoked`, `queued`, `crl`, `receipt` and `active` are tables, `job[w]` a work
handler, `latest` and `sub` the distributor's memory, `got` what a gateway has.
Every database access of a handler is a step; `Publish` and `Subscribe` are split
where they read before taking the mutex; the goroutine of a subscription is
modelled with its wake, flush and one-place channel.  Handlers fail, or lose
their session and run on beside the next claimant (`LoseSession`); streams end
and the control process restarts.  `CurrentCRLs` reads the lists of all roots in
one step; each list only grows, and a later one is sent again.

### Identity: `Identity`, `Directory`

`Directory` has the projections as values: an operator per SQL statement, a
projector per event type, the keys that are unique across streams (addresses,
external identities, role names, user-group names, external ids of SCIM groups),
and `RebuildAll` with the rebuild targets, a recursive function over the streams
in the order of their identifiers and over their events.  `Identity` has the handlers and runs
their transactions statement by statement: a transaction sees the committed table
and streams under its own writes and events (`View`, `LogView`), waits for another
transaction's uncommitted event on its stream, row or unique value, and takes the
last-administrator lock, between two counts, for the event types the code names.
A row's version equals its stream's, so it is left out of the rows.

### Management plane: `Access`, `Resources`

`Resources` has the management projections like `Directory`, and every scoped
read.  `Access` has the requests: a mutation through the CRUD kernel is
authorized, makes its domain's checks and appends in three steps, between which
other callers' requests commit; API tokens, SCIM providers and bearers, one-time
and OIDC logins, inventories, execution output and the SCIM failure limiter (a
window per provider, one per provider and address, both pruned by the clock, in
one bounded table) have their own actions.  Get, list and the composition of grants into a scope
(`ResolveEffectiveAccess`) are operators.

### Device SDK: `SafeFiles`, `Packages`

`SafeFiles` runs each file operation as a series of system calls (direct backend)
or commands (escalated backend).  `dir` is what programs see and `durable` what
was last synced; a crash keeps either for each entry and tears file data that was
not synced.  A policy transaction is snapshot, candidate, validate, swap, reload
and, on failure, the compensations of `sdk/rollback`.  `Packages` runs each
method of the five package managers as the commands its backend issues, over an
abstract host; a command exits with any code its caller tells apart, among them the
one a query reads as "there is none", is signalled, or does not start, before or
after its effect.

## Runs

| Run | Instance | Shows |
|---|---|---|
| `appends` | 2 writers, 2 streams, 2 calls each, 1 rebuild | `ImplementsAtomicLog`: every transaction is one atomic append or nothing, and a rebuild reproduces the rows or aborts; `PinnedAppendsAtExpected` |
| `appends_return` | batches in opposite lock orders, 1 rebuild | `AppendReturns`: every append call returns |
| `workqueue` | 2 workers, 2 rows, 3 attempts, 2 losses | `NothingDropped`, `RunsBounded`, `NotResurrected`, `RetriesBackOff`, `WorkSettles` |
| `sessions` | 1 user, 1 family, 2 callers, 4 tokens | `OneActiveToken`, `OneWinner`, `ReplayRevokes`, `RevokedByReplay`, `SessionVersionKept` |
| `registration_tokens` | 2 callers, limits 0 to 2, 4 versions | `EveryGrantClaimed`, `UsesWithinLimit`, `KillSwitch`, `ContentionIsProgress` |
| `trust_rotation` | 1 agent, 1 gateway, 2 roots, 1 rotation, 2 certificates each | `LeavesFollowIssuer`, `InstalledTrust`, `TrustCoversLeaves` |
| `crl` | 2 sources, 2 roots, 2 workers, 1 stream, 1 fault (a failed handler, a lost session, an ended stream or a restart) | `ReceiptMeansListed`, `NoWorkLost`, `ListsOnlyGrow`, `RevocationsArrive` |
| `crl_missed` | 1 source, 1 worker, 2 streams, no fault | expected violation of `RevocationsArrive` |
| `identity` | 2 callers, 3 users, 2 administrators, 2 SCIM links, 2 SCIM groups, 2 user groups, 2 roles, 2 calls | `LastAdminKept`, `LastLinkDeprovisions`, `SCIMMembersLive`, `RebuildsExact` |
| `identity_replay` | as `identity` | expected violation of `ReplayIsOneToOne` |
| `access` | an administrator and a confined manager, 1 or 2 objects of each kind, 3 calls | `ConfinedWrites`, `ListsMatchGets`, `NothingReturns`, `ManagementReplays`, `OneSessionPerLogin`, `LimitsKept` |
| `sdk` | 2 callers; 11 paths, 24 calls, 2 faults, 1 crash; 5 hosts, 2 packages, 5 tools | `FilesWhole`, `CredentialsKept`, `FailedCallsKeepTarget`, `ProtectedKept`, `AnswersTrue`, `PinsSettle` |

**Bounds.**  Two actors are enough for every conflict of appends: each one
conflicts with the last committed one.  Four tokens are the fewest with which a
session replay can lose all its revocation attempts to rotations.  Four versions
of a registration token let both callers conflict on every attempt.  Two rows let
one starve the other, and the retry limit lets the delay reach its cap.  One
rotation, of either class, with two certificates per identity, reaches every
phase, the abort, a renewal in each phase and the replay of a lost answer; two
classes are always present.  In `identity` the set-up makes two administrators, one
of them through a SCIM group, so that each of two calls can remove one; a call may
touch several streams.  Two addresses, names and external ids, and an identifier
before and one behind those of the set-up, let one call give a unique value up and
the other take it on either side of it in the replay order.  In `access` three
calls let two requests overlap with a
third change of owners, groups or grants between their steps; `ListsMatchGets` is
stated between requests, when the reads decide alone.  In `sdk` the two surfaces
share no state, so a behaviour exercises one, chosen at its start; each caller
makes one call, against every call of the other.  Every bound is a constant with a
comment in the module that declares it.

**Symmetry** is used over callers only, and in no run with a liveness property.

**Fairness.**  `appends_return`: an open transaction goes on, Postgres resolves
deadlocks, and no new call or failure is required.  `workqueue`: some worker keeps
calling `RunOnce` (an assumption on the deployment: no code outside the tests
does at this commit), a started `RunOnce` continues (its context is detached and its
handler has a timeout), time passes; losses and crashes are finite.  `crl`: the
queue's workers keep running handlers, the subscription goroutine and the
gateway's receive loop keep running, and a gateway reconnects; faults are finite.
No other run uses fairness.

**Deadlock** is checked in the runs of sessions, registration tokens and the work
queue.  The others stop when their bounded calls are used up.

## Findings

* **A list can be missed by an open stream** (`crl_missed`).  `Subscribe` reads
  the durable lists and puts them into `d.latest` (`control/crl.go:107`) although
  the newest may not be published yet.  The `Publish` of that list then returns
  early (`control/crl.go:186`) and enqueues it to nobody: a stream that was open
  before gets it only with the next change.  `012-gateway.md:81` says that control
  pushes the list "on connect and on every change".  With one stream
  (`crl`) the property holds through failures and restarts: the missed stream is
  always another one than the one that subscribes.
* **A rebuild can be refused** (`identity_replay`).  Events are replayed in the
  order of streams (`store/rebuild.go:63`), while e-mail addresses
  (`016_oidc.sql:13`), role names (`021_authorization.sql:11`), external ids of SCIM
  groups (`018_scim.sql:48`) and user-group names (`023_management_identity.sql:20`)
  are unique over all of them: a value that one object gave up, or was deleted with,
  and an object with a smaller identifier took is inserted twice during the replay.
  The rebuild of user groups is also refused once a past member was deleted
  (`store/user_groups.go:487`).  `005-event-store.md:102` says that replay is 1:1.
  `RebuildsExact` says what is left of it: these are the only rebuilds of users,
  groups and authorization that are refused, and every other one reproduces the
  tables exactly.  `ManagementReplays` says the same, without exception, of the
  management projections it names.

## Observations

Met while modelling and described here without a run of their own; where a
property would be affected, it says exactly what it leaves out.

*Server.*
* A worker whose database session was cut is still in its handler when the freed
  row is claimed again, so "two workers never process the same row"
  (`005-event-store.md:219`) holds for workers with live sessions (theorem
  `SingleHandler`); afterwards `NothingDropped` and `RunsBounded` hold, and the
  properties of `CRL` hold with two handlers on one revocation.
* SCIM deprovisioning leaves the membership rows of managed user groups.  Rebuilds of
  spent one-time logins, which read user rows, are not among the replay properties.
* A confined caller's creation of an assignment that leaves its reach before the
  answer is read commits, and answers that nothing was found.
* The last-administrator check compares two counts and lets a change pass when
  there was no administrator before it; `LastAdminKept` says the same.
* The SCIM limiter checks before and counts after the comparison; `LimitsKept`
  bounds what requests in flight add: less than one failure for each.
* `BeginTrust` does not compare the roots of the two certificate classes, agents
  do; the model gives each class its own copy of the roots and compares none.
* After a lost renewal answer and a restart the agent renews with a new sealing key
  (`agent/internal/enroll/client.go:254`), and the replay check of the server
  (`pki/renewal.go:95`) refuses it until an operator forces a renewal.
  `TrustRotation` has this behaviour, and no liveness is claimed of renewal.
* A fence holds one pooled connection while the action inside it needs another.
* `UserDisabled`, `RoleRevoked`, `OIDCIdentityUnlinked` and `UserGroupUpdated`
  events, inventories, telemetry and the work queue have no caller outside the
  tests at this commit; they are modelled as their functions are written.

*SDK.*
* The escalated write scripts sync nothing, so `FilesWhole` claims a crash only for
  the direct backend.  Temporary and candidate files that a crash or a killed
  script leaves are not tracked.
* `WriteFile` with an owner publishes before it changes the owner, and so reports an
  error for a file it has replaced; a directory whose owner cannot be set stays.
  [SDK-16] (`004-sdk-core.md:153`) asks for a rollback.  `FailedCallsKeepTarget`
  leaves both out, and says "alone" because a policy transaction may restore a
  snapshot that another caller's transaction has overtaken.  It compares the kind and
  the content of the target: a restored policy file gets the mode of its surface, not
  the one it had.
* Exit code 1 is how most queries say "there is none", and also how dnf, pacman,
  flatpak and rpm report ordinary failures.  A query that fails so is read as an empty
  answer (`dnf.go:230`, `522`, `571`, `pacman.go:144`, `171`, `243`, `428`, `458`,
  `flatpak.go:161`, `274`, `412`): nothing installed, nothing pinned, no updates, and
  `Autoremove` of pacman finds no orphans.  `dnf_test.go:378` expects an empty set of a
  failed `versionlock list`; [SDK-15] (`004-sdk-core.md:148`) says "A query failure is
  always distinguishable from an empty result".  `RunTool` has this failure;
  `AnswersTrue` and `PinsSettle` leave out the calls that met it, and only them.
* zypper and flatpak list pins through a probe whose code for "absent" is -1
  (`zypper.go:546`, `563`, `flatpak.go:536`, `553`), the exit code of a child that
  was ended by a signal: such a query answers "not pinned", against [SDK-15] as well.
  `AnswersTrue` and `PinsSettle` leave out exactly that.
* apt counts a package that was removed and not purged as installed, except in
  `List`; `AnswersTrue` leaves these methods out on hosts with such a package.
* pacman's pins are a rewritten file: overlapping calls lose updates, and a `tee`
  that is cut off truncates it.  `PinsSettle` claims neither, nor the undoing of a
  command that was cut off after its effect or of a failed compensation.
* Whether a held package counts as upgradable is left to the tool; the
  restriction of `HasUpdates` to security updates and output beyond the capture
  limit are not modelled.

## Proofs

Checked by TLAPS for every value of the constants allowed by the named
assumptions of the modules: `NoRow` and the like are not values, bounds are
natural numbers, the event store's projector maps rows to rows or refuses, the
two classes of identities and the types of streams are disjoint, a request of the
management API names an operation its domain registers and carries what its
decoder lets through, the three permissions over server-wide
configuration are among those that no grant may scope, the windows of the SCIM
limiter admit at least one failure and its callers are finitely many, and the
initial log of `Access` is one its projectors accept.  TLC evaluates every
assumption on the run's instance.

* `EventStoreProofs`: `IInv` adds to the properties what an open transaction may
  rely on: its staged events extend the committed streams
  without gap and each was projected from its predecessor's row; no key is held by
  two transactions, so nobody else moves a stream it has touched; a pinned
  transaction that holds a key found the stream at the expected version; the
  rebuild's rows are the replay of what it has read so far and the rows it has
  locked are at the version of its snapshot.  From it: types, contiguous versions,
  projection = replay, rebuilds that change no row, pinned appends, publication
  before durability, and the refinement of `AtomicLog`.  The projector is arbitrary,
  but reads the row of its own stream only: values unique across streams are the
  matter of `Directory` and `RebuildsExact`, and no theorem here says that a rebuild
  is accepted.  Contiguous versions, projection = replay, unchanged rows and
  publication are proved and not run a second time: `ImplementsAtomicLog` is the
  run's question.
* `WorkQueueProofs`: the invariant ties a worker's stage to its row (a row that a
  live session has claimed is in the table, a positive result is recorded in
  `succeeded`, the runs of a row are covered by its attempts, the losses and a claim
  in progress).  From it: `NothingDropped`, `RunsBounded`, `NotResurrected`, and
  that handlers with live sessions never overlap.
* `SessionsProofs`: the invariant relates what a call has read to the tables: the
  version it saw is at most the family's; if they are equal the rest of what it saw
  is current; if the version moved past a token seen as active, that token is
  spent.  From it: `OneActiveToken`, `SessionVersionKept`, `RevokedByReplay`,
  `ReplayRevokes`, `OneWinner`.
* `CRLProofs`: the invariant says of each handler what its reads still mean: a list
  waiting for its swap either names the next sequence and contains all that is
  listed, or its sequence is spent; what it is about to record is on the stored
  list.  `JobFrame` shows that the steps of others keep this.  From it:
  `ReceiptMeansListed`, `NoWorkLost`, `ListsOnlyGrow`, for any sources, roots,
  workers and streams.

* `RegistrationTokensProofs`: the invariant says what the row means (it is at the
  version of its stream, passes every check of its readers and its uses count the
  Consumed events), that a finished Disable is in the row or the row is gone, and
  how far the stream has moved under a call: by at least one event per attempt.
  The last is what `ContentionIsProgress` needs; the first makes an append at the
  version that was read a check of everything that was read.  From it:
  `EveryGrantClaimed`, `UsesWithinLimit`, `KillSwitch`, `ContentionIsProgress`.
* `TrustRotationProofs`: the three properties speak of clients, while a transition
  looks only at rows and receipts.  `ReceiptOK` closes the gap: a receipt for the
  certificate a row has now was given by a client that holds this certificate, has
  no answer on its way, and so still holds the bundle it reported.  `Covers` then
  says which bundles a live client may hold, be sent or be sent again by a replay
  in a phase, and `Issuers` which roots have issued the live leaves.  From
  it: `LeavesFollowIssuer`, `InstalledTrust`, `TrustCoversLeaves`, for any fleet
  and any number of rotations, aborts and certificates.
* `AccessProofs`: first the invariant and what the projectors, the appends, the
  domains and the scopes do, then the actions and the theorems.  The invariant says of a request under way that the object
  which decides it is one its scope has reached, or one it has still to read
  through its scope (`CrudOK`); of a login or state with a session, started or
  still owed, that it is spent and that one caller at most owes it (`SessionsOK`);
  of the table, that each projector changes its own stream's row only (`Frame`) and
  creates one at version 1 only.  From it: `OneSessionPerLogin`, `ConfinedWrites`,
  `NothingReturns`.  `ListsMatchGets` needs of it only the shape of the table: `ListsTheorem`
  compares, domain by domain, what authorization, scope and the two statements find.
  `LimitsKept` has an invariant of its own: a window that is full is over its limit by
  fewer failures than there are callers not comparing a bearer for it (`LimiterOK`), and
  the byte count of an output is the sum of its chunks (`OutputsOK`, with the partial
  sums of a sequence as a recursive function).

* `IdentityProofs`: a transaction reads and writes over a committed table that
  others change under it, so the invariant (`IInv`, the theorem `TransactionsInv`)
  speaks of `Over(table, writes)`, what the transaction sees now.  This is a
  well-formed table whose SCIM members are live; a user row that differs in it has
  an event of the transaction; and without the lock of the last-administrator
  guard it is `Mild`: it takes away no user, group, member, role or grant that is
  there, disables nobody and changes no SCIM membership.  Open transactions are
  `Apart`: none writes a row or appends to a stream of another.  `InsertOK` shows this
  for an event inserted by the transaction itself, projector by projector;
  `CommitOther` for the commit of another: two sets of writes, apart, of which one
  is mild since only one transaction holds the lock, can be put on top of each
  other.  From it `SCIMMembersLive`.
  For `LastLinkDeprovisions` the invariant adds what `deleteSCIMUser` still knows: as
  long as the user's stream is at the version it has read, the user is there with
  more than one link.  For `LastAdminKept`, `AdminInv` adds that every transaction
  sees an administrator, except between the insert of a guarded event and the
  second count: there the lock keeps everyone else's writes mild, and the count
  refuses the commit.  `LastAdminStays` starts from a store with an administrator.
  From one without, a step can take the last away (TLC finds ten states): a
  reduction that counted none does not count again, and a grant of the role, which
  takes no lock, commits in between.  Assumed are disjoint kinds of keys, finitely
  many users, an `Order` that lists the streams, a `NoCaller` that is no caller and
  a `Setup` whose table is well-formed with live members
  (`DirectoryAssumption`, `CallersAssumption`, `SetupAssumption`).

**Only model-checked.**  Liveness (`AppendReturns`, `WorkSettles`,
`RevocationsArrive`), since the prover does not handle fairness.  What a recursive
function or a fold over a log computes for every input, since its induction is out
of the prover's reach: `RetriesBackOff` with the delay function, the replays
`ManagementReplays` and `RebuildsExact`.  The properties of `SafeFiles` and
`Packages`, which have no theorems.

## Not modelled

* Cryptography, X.509, JWT, JSON and protobuf encoding, sealing and signatures;
  string validation; the fields of requests and answers that no rule looks at.  They
  keep no state that steps can disturb.
* The content of certificates beyond serial and issuer, their validity times, and
  the CRL baseline that a published bundle carries.
* The agent's legacy answers without bundles (`storeLegacyEnrollment`,
  `replaceLegacyRenewal`): this server always sends bundles.
* The agent's renewal loop and local relay, and process wiring: they decide when a
  modelled call happens, and the models let it happen at any time.
* The sessions that hold the advisory locks of fences, and a lock lost with its
  session; the connection pool, whose size is configuration.  What a call reads just
  before its fence, or in two fenced calls one after the other (the gateway's two
  confirmations, the trust snapshot of a control receipt), is read in the one step of
  the call.
* The order of a page: device groups come by name, here as everything in the order of
  identifiers; an audit page is the set of streams it shows.
* The expiry of a one-time login, which refuses a call that then changes nothing.
* A second revocation event about a certificate already revoked: its work item ends
  without a list, as the comment in `CRL` explains.
* The failure ladder of the public procedures (`auth/ratelimit.go`), which has the
  structure of the modelled SCIM limiter; the answer delay against enumeration.
* The SCIM filter and patch syntax; the read that fills a mutation's answer.
* Process groups and capture buffers of command execution; argument building and
  output parsing of the package managers beyond what they find.
* Architecture guards, test harness and generated code other than the SQL
  statements, which are modelled as operators on tables.
