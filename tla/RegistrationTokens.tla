------------------------- MODULE RegistrationTokens -------------------------
(***************************************************************************)
(* One registration token and the service that admits enrollments with it  *)
(* (pki/registration_tokens.go), over the projectors of TokenProjection    *)
(* and the version-pinned append that EventStore implements.  Callers read *)
(* the row, decide, and append at the version they read; a conflict sends  *)
(* them back to the read.  The management API creates, updates and deletes *)
(* the same token.  A token string that does not parse, or whose secret    *)
(* does not match, is rejected without any effect and is left out.         *)
(***************************************************************************)
EXTENDS TokenProjection

CONSTANTS
  Callers,       \* concurrent Consume and Disable calls
  CasAttempts,   \* maxRegistrationCASAttempts
  UseLimits,     \* max_uses a mint may ask for
  Updates,       \* what an update may ask for: [maxUses, expiresAt, disabled]
  DNSLists,      \* the DNS names a mint may ask for
  MaxVersion,    \* bound: events on the token's stream
  MaxTime        \* bound: the clock

Times == 0 .. MaxTime + 1   \* 0 is the zero time; the last expiry is never reached
Purposes == {"agent", "gateway"}
TokenRows ==
  [version : Nat, purpose : Purposes, dnsNames : DNSLists \cup {<<>>}, maxUses : Nat,
   uses : Nat, expiresAt : Times, disabled : BOOLEAN]

ASSUME TokensAssumption ==
  /\ CasAttempts \in Nat \ {0} /\ MaxVersion \in Nat /\ MaxTime \in Nat
  /\ UseLimits \subseteq Nat
  /\ Updates \subseteq [maxUses : Nat, expiresAt : Times, disabled : BOOLEAN]
  /\ NoRow \notin TokenRows /\ Refused \notin TokenRows /\ NoRow # Refused

VARIABLES
  version,    \* version of the token's stream
  row,        \* the projected token, or NoRow
  now,        \* the clock
  call,       \* what each caller is doing
  admin,      \* the management update under way
  consumed,   \* history: Consumed events
  granted,    \* history: grants returned
  lost,       \* history: Consumed events whose commit was not answered
  killed      \* history: a Disable returned nil

vars == <<version, row, now, call, admin, consumed, granted, lost, killed>>

Ended == {"idle", "exhausted"}   \* returned; returned for too many conflicts

\* A call that has ended; since is the stream version at its first read.
Done(ending) ==
  [op |-> "none", purpose |-> "none", pc |-> ending, seen |-> 0, attempt |-> 0, since |-> 0]
NoUpdate == [expected |-> 0, event |-> Refused]

Return(c) == call' = [call EXCEPT ![c] = Done("idle")]

Init ==
  /\ version = 0 /\ row = NoRow /\ now = 0
  /\ call = [c \in Callers |-> Done("idle")] /\ admin = NoUpdate
  /\ consumed = 0 /\ granted = 0 /\ lost = 0 /\ killed = FALSE

\* The event is appended at the next version and projected with it.
AppendEventWithVersion(event) ==
  LET projected == registrationTokenEventDefinitions(row, event, version + 1)
  IN  /\ version < MaxVersion
      /\ event # Refused /\ projected # Refused
      /\ row' = projected
      /\ version' = version + 1

-----------------------------------------------------------------------------
registrationTokenMintedEvent(purpose, limit, expiry, dnsNames) ==
  CASE purpose = "agent" /\ dnsNames = <<>> -> RegistrationTokenMintedEvent(limit, expiry)
    [] purpose = "gateway" /\ dnsNames # <<>> ->
         GatewayRegistrationTokenMintedEvent(limit, expiry, dnsNames)
    [] OTHER -> Refused

Mint(purpose, limit, expiry, dnsNames) ==
  /\ expiry > now
  /\ version = 0
  /\ AppendEventWithVersion(registrationTokenMintedEvent(purpose, limit, expiry, dnsNames))
  /\ UNCHANGED <<now, call, admin, consumed, granted, lost, killed>>

\* Consume and Disable start with a read.
Start(c, op, purpose) ==
  /\ call[c].pc \in Ended
  /\ version > 0
  /\ call' = [call EXCEPT ![c] = [op |-> op, purpose |-> purpose, pc |-> "read", seen |-> 0,
                                  attempt |-> 0, since |-> version]]
  /\ UNCHANGED <<version, row, now, admin, consumed, granted, lost, killed>>

\* The checks of Consume on the row it read, the kill switch first.
Admits(state, purpose) ==
  /\ state # NoRow
  /\ ~state.disabled
  /\ now < state.expiresAt
  /\ state.uses < state.maxUses
  /\ state.purpose = purpose

ReadForConsume(c) ==
  /\ call[c].op = "consume" /\ call[c].pc = "read"
  /\ LET state == RegistrationToken(row)
     IN  IF state # Refused /\ Admits(state, call[c].purpose)
         THEN call' = [call EXCEPT ![c].pc = "append", ![c].seen = state.version]
         ELSE Return(c)
  /\ UNCHANGED <<version, row, now, admin, consumed, granted, lost, killed>>

\* Disable of a token that is disabled already is done; a missing or unreadable one fails.
ReadForDisable(c) ==
  /\ call[c].op = "disable" /\ call[c].pc = "read"
  /\ LET state == RegistrationToken(row)
     IN  IF state \in {NoRow, Refused} THEN Return(c) /\ UNCHANGED killed
         ELSE IF state.disabled THEN Return(c) /\ killed' = TRUE
         ELSE /\ call' = [call EXCEPT ![c].pc = "append", ![c].seen = state.version]
              /\ UNCHANGED killed
  /\ UNCHANGED <<version, row, now, admin, consumed, granted, lost>>

\* Mutant: gives up an attempt early.
waitForCASRetryEarly(c) ==
  IF call[c].attempt + 2 >= CasAttempts
  THEN call' = [call EXCEPT ![c] = Done("exhausted")]
  ELSE call' = [call EXCEPT ![c].pc = "read", ![c].attempt = @ + 1]

\* A conflict: back to the read, up to the limit of attempts.
waitForCASRetry(c) ==
  IF call[c].attempt + 1 >= CasAttempts
  THEN call' = [call EXCEPT ![c] = Done("exhausted")]
  ELSE call' = [call EXCEPT ![c].pc = "read", ![c].attempt = @ + 1]

\* Mutant: a conflict is taken for a claimed use.
AppendConsumedLoosely(c) ==
  /\ call[c].op = "consume" /\ call[c].pc = "append"
  /\ \/ /\ call[c].seen = version
        /\ AppendEventWithVersion(RegistrationTokenConsumedEvent)
        /\ consumed' = consumed + 1
        /\ granted' = granted + 1 /\ Return(c)
     \/ /\ call[c].seen # version
        /\ granted' = granted + 1 /\ Return(c)
        /\ UNCHANGED <<version, row, consumed>>
  /\ UNCHANGED <<now, admin, lost, killed>>

\* The use is claimed at the version that was checked, or not at all; the
\* answer of the commit may be lost.
AppendConsumed(c) ==
  /\ call[c].op = "consume" /\ call[c].pc = "append"
  /\ \/ /\ call[c].seen = version
        /\ AppendEventWithVersion(RegistrationTokenConsumedEvent)
        /\ consumed' = consumed + 1
        /\ \/ granted' = granted + 1 /\ Return(c) /\ UNCHANGED lost
           \/ lost' = lost + 1 /\ Return(c) /\ UNCHANGED granted
     \/ /\ call[c].seen # version
        /\ waitForCASRetry(c)
        /\ UNCHANGED <<version, row, consumed, granted, lost>>
  /\ UNCHANGED <<now, admin, killed>>

\* Mutant: a conflict is taken for a finished Disable.
AppendDisabledLoosely(c) ==
  /\ call[c].op = "disable" /\ call[c].pc = "append"
  /\ \/ call[c].seen = version /\ AppendEventWithVersion(RegistrationTokenDisabledEvent)
     \/ call[c].seen # version /\ UNCHANGED <<version, row>>
  /\ Return(c) /\ killed' = TRUE
  /\ UNCHANGED <<now, admin, consumed, granted, lost>>

AppendDisabled(c) ==
  /\ call[c].op = "disable" /\ call[c].pc = "append"
  /\ \/ /\ call[c].seen = version
        /\ AppendEventWithVersion(RegistrationTokenDisabledEvent)
        /\ \/ Return(c) /\ killed' = TRUE
           \/ Return(c) /\ UNCHANGED killed
     \/ /\ call[c].seen # version
        /\ waitForCASRetry(c)
        /\ UNCHANGED <<version, row, killed>>
  /\ UNCHANGED <<now, admin, consumed, granted, lost>>

\* A read or an append fails, or the context ends.
Fail(c) ==
  /\ call[c].pc \notin Ended
  /\ Return(c)
  /\ UNCHANGED <<version, row, now, admin, consumed, granted, lost, killed>>

-----------------------------------------------------------------------------
\* The management API.  CreateRegistrationToken does not compare the expiry with the clock,
\* and appends at whatever version is next: the projector refuses all but the first.
ManagedCreate(purpose, limit, expiry, dnsNames) ==
  /\ AppendEventWithVersion(registrationTokenMintedEvent(purpose, limit, expiry, dnsNames))
  /\ UNCHANGED <<now, call, admin, consumed, granted, lost, killed>>

\* The update is checked against the row as it is read, and appended later at the version the
\* client named, which may be one that another call has yet to write.
updateEvent(current, update) ==
  IF \/ current \in {NoRow, Refused}
     \/ current.disabled /\ ~update.disabled
     \/ update.maxUses = 0 \/ update.maxUses < current.uses
  THEN Refused
  ELSE RegistrationTokenUpdatedEvent(update.maxUses, update.expiresAt, update.disabled)

ManagedUpdate(update, expected) ==
  LET event == updateEvent(RegistrationToken(row), update)
  IN  /\ admin = NoUpdate
      /\ event # Refused
      /\ admin' = [expected |-> expected, event |-> event]
      /\ UNCHANGED <<version, row, now, call, consumed, granted, lost, killed>>

AppendUpdate ==
  /\ admin # NoUpdate
  /\ admin' = NoUpdate
  /\ \/ admin.expected = version /\ AppendEventWithVersion(admin.event)
     \/ UNCHANGED <<version, row>>       \* a conflict, a refusal or a failure
  /\ UNCHANGED <<now, call, consumed, granted, lost, killed>>

\* DeleteRegistrationToken.
ManagedDelete ==
  /\ AppendEventWithVersion(RegistrationTokenDeletedEvent)
  /\ UNCHANGED <<now, call, admin, consumed, granted, lost, killed>>

Tick ==
  /\ now < MaxTime
  /\ now' = now + 1
  /\ UNCHANGED <<version, row, call, admin, consumed, granted, lost, killed>>

CallStep(c) ==
  \/ ReadForConsume(c) \/ ReadForDisable(c)
  \/ AppendConsumed(c) \/ AppendDisabled(c)

Next ==
  \/ \E limit \in UseLimits, expiry \in Times, purpose \in Purposes, dnsNames \in DNSLists :
       Mint(purpose, limit, expiry, dnsNames) \/ ManagedCreate(purpose, limit, expiry, dnsNames)
  \/ \E update \in Updates, expected \in {version, version + 1} : ManagedUpdate(update, expected)
  \/ AppendUpdate \/ ManagedDelete
  \/ \E c \in Callers :
       \/ CallStep(c) \/ Fail(c) \/ Start(c, "disable", "none")
       \/ \E purpose \in Purposes : Start(c, "consume", purpose)
  \/ Tick

Spec == Init /\ [][Next]_vars

-----------------------------------------------------------------------------
(* Properties *)

\* Every grant has a Consumed event of its own: racing calls never share one,
\* and a use is spent without a grant only when the answer of its commit was lost.
EveryGrantClaimed ==
  /\ consumed = granted + lost
  /\ row # NoRow => row.uses = consumed

\* A token is never used beyond its limit, also when an update lowers the limit while uses are
\* being claimed, so that no projected token ever fails the checks its readers make: admission,
\* the management read and the management list, where one bad row would fail the page.
UsesWithinLimit ==
  row # NoRow =>
    /\ row.uses <= row.maxUses
    /\ RegistrationToken(row) = row
    /\ RegistrationTokenMetadataByID(row) = row
    /\ ListRegistrationTokens({row}) = {row}

\* Once a Disable has returned nil no use is claimed any more, neither by a
\* call already past its checks nor after an update of the token.
KillSwitch == [][killed => consumed' = consumed]_vars

\* A call gives up for contention only after as many appends of others as it
\* made attempts: the limit is never hit on an idle token.
ContentionIsProgress ==
  [][\A c \in Callers :
       call[c].pc = "append" /\ call'[c].pc = "exhausted"
         => version - call[c].since >= CasAttempts]_vars
=============================================================================
