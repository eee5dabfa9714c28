----------------------- MODULE RegistrationTokensProofs ----------------------
(***************************************************************************)
(* The theorems about RegistrationTokens, for any callers, limits, updates *)
(* and number of attempts.  The invariant says what the row means (it is   *)
(* at the version of its stream, passes the checks of its readers and      *)
(* counts the Consumed events), that a finished Disable is in the row or   *)
(* the row is gone, and how far the stream has moved under a call: by at   *)
(* least one event for each of its attempts.                               *)
(***************************************************************************)
EXTENDS RegistrationTokens, TLAPS

Calls ==
  [op : {"none", "consume", "disable"}, purpose : Purposes \cup {"none"},
   pc : Ended \cup {"read", "append"}, seen : Nat, attempt : Nat, since : Nat]

\* Events a management update carries from its check to its append.
UpdateEvents ==
  [type : {"RegistrationTokenUpdated"}, maxUses : Nat, expiresAt : Times, disabled : BOOLEAN]

TypeOK ==
  /\ version \in Nat /\ now \in Nat
  /\ row \in TokenRows \cup {NoRow}
  /\ call \in [Callers -> Calls]
  /\ admin = NoUpdate \/ (admin.expected \in Nat /\ admin.event \in UpdateEvents)
  /\ consumed \in Nat /\ granted \in Nat /\ lost \in Nat /\ killed \in BOOLEAN

Valid(r) ==
  /\ validateRegistrationTokenMetadata(r.maxUses, r.expiresAt)
  /\ validateRegistrationTokenPurpose(r.purpose, r.dnsNames)
  /\ r.uses <= r.maxUses

\* The row is the projection of the whole stream.
RowOK ==
  /\ row # NoRow => row.version = version /\ version > 0 /\ Valid(row) /\ row.uses = consumed
  /\ version = 0 => consumed = 0

KilledOK == killed => version > 0 /\ (row # NoRow => row.disabled)

\* What a call has read is an earlier version, and each attempt saw a new one.
CallOK(c) ==
  /\ call[c].since <= version
  /\ call[c].pc = "read" => call[c].since + call[c].attempt <= version
  /\ call[c].pc = "append" =>
       call[c].since + call[c].attempt <= call[c].seen /\ call[c].seen <= version

IInv ==
  /\ TypeOK /\ RowOK /\ KilledOK
  /\ consumed = granted + lost
  /\ \A c \in Callers : CallOK(c)

-----------------------------------------------------------------------------
(* What an append does, by its event *)

\* A row is neither the absence of one nor a refusal.
LEMMA RowsAreValues == \A r \in TokenRows : r # NoRow /\ r # Refused
BY TokensAssumption, Zenon

\* The columns an append may set.
LEMMA RowColumns ==
  ASSUME NEW r \in TokenRows, NEW v \in Nat
  PROVE  /\ \A n \in Nat : [r EXCEPT !.version = v, !.uses = n] \in TokenRows
         /\ [r EXCEPT !.version = v, !.disabled = TRUE] \in TokenRows
         /\ \A n \in Nat, t \in Times, b \in BOOLEAN :
              [r EXCEPT !.version = v, !.maxUses = n, !.expiresAt = t, !.disabled = b] \in TokenRows
BY Zenon DEF TokenRows

\* A token is created once, as the first event of its stream, unused and valid.
LEMMA MintAppends ==
  ASSUME IInv, NEW purpose \in Purposes, NEW limit \in UseLimits, NEW expiry \in Times,
         NEW dnsNames \in DNSLists,
         AppendEventWithVersion(registrationTokenMintedEvent(purpose, limit, expiry, dnsNames))
  PROVE  /\ version = 0 /\ version' = 1
         /\ row' \in TokenRows /\ row'.version = 1 /\ row'.uses = 0 /\ Valid(row')
<1> DEFINE event == registrationTokenMintedEvent(purpose, limit, expiry, dnsNames)
<1>1. /\ event # Refused
      /\ registrationTokenEventDefinitions(row, event, version + 1) # Refused
      /\ row' = registrationTokenEventDefinitions(row, event, version + 1)
      /\ version' = version + 1 /\ version \in Nat
  BY Zenon DEF AppendEventWithVersion, IInv, TypeOK
<1>2. /\ event.maxUses = limit /\ event.expiresAt = expiry
      /\ \/ event.type = "RegistrationTokenMinted"
         \/ event.type = "GatewayRegistrationTokenMinted" /\ event.dnsNames = dnsNames
  BY <1>1, Zenon DEF registrationTokenMintedEvent, RegistrationTokenMintedEvent,
     GatewayRegistrationTokenMintedEvent, registrationTokenEvent
<1>3. row' = projectRegistrationTokenMint(row, event, version + 1)
  BY <1>1, <1>2, Zenon DEF registrationTokenEventDefinitions
<1>4. version = 0 /\ row = NoRow
  BY <1>1, <1>3 DEF projectRegistrationTokenMint, IInv, RowOK
<1> DEFINE gateway == event.type = "GatewayRegistrationTokenMinted"
           names == IF gateway THEN dnsNames ELSE <<>>
           new == [version |-> 1, purpose |-> IF gateway THEN "gateway" ELSE "agent",
                   dnsNames |-> names, maxUses |-> limit, uses |-> 0, expiresAt |-> expiry,
                   disabled |-> FALSE]
<1>5. new \in TokenRows
  BY TokensAssumption, Zenon DEF TokenRows, Purposes
<1>6. /\ version + 1 = 1
      /\ row' = validateRegistrationTokenProjectionResult(UpsertRegistrationToken(row, new), row, 1)
      /\ validateRegistrationTokenMetadata(limit, expiry)
      /\ validateRegistrationTokenPurpose(new.purpose, names)
  <2> HIDE DEF event
  <2> QED BY <1>1, <1>2, <1>3, <1>4, Zenon DEF projectRegistrationTokenMint
<1>7. /\ new.version = 1 /\ new.uses = 0 /\ new.maxUses = limit /\ new.expiresAt = expiry
      /\ new.dnsNames = names
  BY Zenon
<1> HIDE DEF new, names, gateway, event
<1>8. row' = new
  BY <1>4, <1>5, <1>6, RowsAreValues, Zenon
     DEF UpsertRegistrationToken, validateRegistrationTokenProjectionResult
<1> QED BY <1>1, <1>4, <1>5, <1>6, <1>7, <1>8, TokensAssumption
     DEF Valid, validateRegistrationTokenMetadata

\* A use is claimed on a row that has one left and is not disabled.
LEMMA ConsumeAppends ==
  ASSUME IInv, AppendEventWithVersion(RegistrationTokenConsumedEvent)
  PROVE  /\ version' = version + 1 /\ row # NoRow /\ ~row.disabled /\ row.uses < row.maxUses
         /\ row' = [row EXCEPT !.version = version + 1, !.uses = @ + 1]
<1>1. /\ version' = version + 1 /\ version \in Nat /\ row' # Refused
      /\ row' = projectRegistrationTokenConsume(row, version + 1)
  BY Zenon DEF AppendEventWithVersion, RegistrationTokenConsumedEvent, registrationTokenEvent,
     registrationTokenEventDefinitions, IInv, TypeOK
<1>2. row' = validateRegistrationTokenProjectionResult(
               ProjectRegistrationTokenConsume(row, version + 1), row, version + 1)
  BY <1>1, Zenon DEF projectRegistrationTokenConsume
<1>3. row # NoRow => row.version = version
  BY Zenon DEF IInv, RowOK
<1>4. ProjectRegistrationTokenConsume(row, version + 1) # Refused
  BY <1>1, <1>2, <1>3 DEF validateRegistrationTokenProjectionResult
<1> QED BY <1>1, <1>2, <1>4, Zenon
     DEF ProjectRegistrationTokenConsume, validateRegistrationTokenProjectionResult

\* An accepted disable marks the row, and only that.
LEMMA DisableAppends ==
  ASSUME IInv, AppendEventWithVersion(RegistrationTokenDisabledEvent)
  PROVE  /\ version' = version + 1 /\ row # NoRow
         /\ row' = [row EXCEPT !.version = version + 1, !.disabled = TRUE]
<1>1. /\ version' = version + 1 /\ version \in Nat /\ row' # Refused
      /\ row' = projectRegistrationTokenDisable(row, version + 1)
  BY Zenon DEF AppendEventWithVersion, RegistrationTokenDisabledEvent, registrationTokenEvent,
     registrationTokenEventDefinitions, IInv, TypeOK
<1>2. row' = validateRegistrationTokenProjectionResult(
               ProjectRegistrationTokenDisable(row, version + 1), row, version + 1)
  BY <1>1 DEF projectRegistrationTokenDisable
<1>3. row # NoRow => row.version = version
  BY DEF IInv, RowOK
<1>4. ProjectRegistrationTokenDisable(row, version + 1) # Refused
  BY <1>1, <1>2, <1>3 DEF validateRegistrationTokenProjectionResult
<1> QED BY <1>1, <1>2, <1>4, Zenon
     DEF ProjectRegistrationTokenDisable, validateRegistrationTokenProjectionResult

\* An update keeps the uses within the new limit and never enables a token.
LEMMA UpdateAppends ==
  ASSUME IInv, NEW event \in UpdateEvents, AppendEventWithVersion(event)
  PROVE  /\ version' = version + 1 /\ row # NoRow /\ row.uses <= event.maxUses
         /\ validateRegistrationTokenMetadata(event.maxUses, event.expiresAt)
         /\ row' = [row EXCEPT !.version = version + 1, !.maxUses = event.maxUses,
                               !.expiresAt = event.expiresAt, !.disabled = @ \/ event.disabled]
<1>0. event.type = "RegistrationTokenUpdated"
  BY Zenon DEF UpdateEvents
<1>1. /\ version' = version + 1 /\ version \in Nat /\ row' # Refused
      /\ row' = projectRegistrationTokenUpdate(row, event, version + 1)
  BY <1>0, Zenon DEF AppendEventWithVersion, registrationTokenEventDefinitions, IInv, TypeOK
<1>2. /\ row # NoRow /\ row.version = version
      /\ validateRegistrationTokenMetadata(event.maxUses, event.expiresAt)
      /\ ~(row.uses > event.maxUses)
      /\ row' = validateRegistrationTokenProjectionResult(
                  ReplaceRegistrationTokenMetadata(row, event, version + 1), row, version + 1)
  BY <1>1, Zenon DEF projectRegistrationTokenUpdate, IInv, RowOK
<1>3. ReplaceRegistrationTokenMetadata(row, event, version + 1) # Refused
  BY <1>1, <1>2 DEF validateRegistrationTokenProjectionResult
<1>4. row' = ReplaceRegistrationTokenMetadata(row, event, version + 1)
  BY <1>2, <1>3, Zenon DEF validateRegistrationTokenProjectionResult
<1> QED BY <1>1, <1>2, <1>3, <1>4, Zenon DEF ReplaceRegistrationTokenMetadata

\* An accepted deletion leaves no row.
LEMMA DeleteAppends ==
  ASSUME IInv, AppendEventWithVersion(RegistrationTokenDeletedEvent)
  PROVE  version' = version + 1 /\ row' = NoRow
BY Zenon DEF AppendEventWithVersion, RegistrationTokenDeletedEvent, registrationTokenEvent,
   registrationTokenEventDefinitions, projectRegistrationTokenDelete,
   DeleteRegistrationTokenProjection, IInv, TypeOK

-----------------------------------------------------------------------------
(* The invariant, one lemma per kind of step *)

\* Nothing is minted and nobody has called.
LEMMA InitInv == Init => IInv
<1> SUFFICES ASSUME Init PROVE IInv
  BY Zenon
<1>1. Done("idle") \in Calls
  BY Zenon DEF Done, Calls, Ended
<1>2. call \in [Callers -> Calls]
  BY <1>1, Zenon DEF Init
<1>3. \A c \in Callers : CallOK(c)
  BY DEF Init, CallOK, Done
<1>4. RowOK /\ KilledOK
  BY Zenon DEF Init, RowOK, KilledOK
<1>5. consumed = granted + lost
  BY DEF Init
<1>6. TypeOK
  BY <1>2, Zenon DEF Init, TypeOK
<1> QED BY <1>3, <1>4, <1>5, <1>6, Zenon DEF IInv

\* A call that returns, or starts over, is in order at any later version.
LEMMA OtherCalls ==
  ASSUME IInv, version' \in Nat, version' >= version, call' = call
  PROVE  /\ call' \in [Callers -> Calls]
         /\ \A c \in Callers : CallOK(c)'
BY DEF IInv, TypeOK, CallOK, Calls

\* A call that ends is an ended call, whatever was appended meanwhile.
LEMMA Returned ==
  ASSUME IInv, version' \in Nat, version' >= version, NEW c \in Callers,
         NEW ending \in Ended, call' = [call EXCEPT ![c] = Done(ending)]
  PROVE  /\ call' \in [Callers -> Calls]
         /\ \A d \in Callers : CallOK(d)'
<1>1. Done(ending) \in Calls
  BY Zenon DEF Done, Calls, Ended
<1>2. \A d \in Callers : CallOK(d)'
  BY <1>1 DEF IInv, TypeOK, CallOK, Calls, Done, Ended
<1> QED BY <1>1, <1>2, Zenon DEF IInv, TypeOK

\* A conflict means that another append came after the read.
LEMMA Retried ==
  ASSUME IInv, UNCHANGED version, NEW c \in Callers,
         call[c].pc = "append", call[c].seen # version, waitForCASRetry(c)
  PROVE  /\ call' \in [Callers -> Calls]
         /\ \A d \in Callers : CallOK(d)'
<1>1. CASE call' = [call EXCEPT ![c] = Done("exhausted")]
  <2>1. "exhausted" \in Ended /\ version' \in Nat /\ version' >= version
    BY DEF Ended, IInv, TypeOK
  <2> QED BY <1>1, <2>1, Returned, Zenon
<1>2. CASE call' = [call EXCEPT ![c].pc = "read", ![c].attempt = @ + 1]
  <2> DEFINE new == [call[c] EXCEPT !.pc = "read", !.attempt = @ + 1]
  <2>1. /\ call[c] \in Calls /\ call' = [call EXCEPT ![c] = new]
        /\ call[c].since + call[c].attempt <= call[c].seen /\ call[c].seen <= version
    BY <1>2, Zenon DEF IInv, TypeOK, CallOK
  <2>2. new \in Calls
    BY <2>1, call[c].attempt + 1 \in Nat DEF Calls
  <2>3. new.pc = "read" /\ new.since = call[c].since /\ new.attempt = call[c].attempt + 1
    BY <2>1, Zenon DEF Calls
  <2> HIDE DEF new
  <2>n. call[c].since \in Nat /\ call[c].attempt \in Nat /\ call[c].seen \in Nat /\ version \in Nat
    BY <2>1, Zenon DEF Calls, IInv, TypeOK
  <2>4. new.since + new.attempt <= version /\ new.since <= version
    BY <2>1, <2>3, <2>n
  <2>5. call' \in [Callers -> Calls] /\ call'[c] = new /\ \A d \in Callers \ {c} : call'[d] = call[d]
    BY <2>1, <2>2, Zenon DEF IInv, TypeOK
  <2> QED BY <2>3, <2>4, <2>5, Zenon DEF CallOK, IInv
<1> QED BY <1>1, <1>2, Zenon DEF waitForCASRetry

\* Mint and create: the first event, of a row that validates.
LEMMA MintInv ==
  ASSUME IInv, NEW purpose \in Purposes, NEW limit \in UseLimits, NEW expiry \in Times,
         NEW dnsNames \in DNSLists, ManagedCreate(purpose, limit, expiry, dnsNames)
  PROVE  IInv'
<1>1. /\ version = 0 /\ version' = 1
      /\ row' \in TokenRows /\ row'.version = 1 /\ row'.uses = 0 /\ Valid(row')
      /\ UNCHANGED <<now, call, admin, consumed, granted, lost, killed>>
  BY MintAppends, Zenon DEF ManagedCreate
<1>2. call' \in [Callers -> Calls] /\ \A c \in Callers : CallOK(c)'
  BY <1>1, OtherCalls
<1>3. consumed = 0 /\ ~killed
  BY <1>1 DEF IInv, RowOK, KilledOK
<1> QED BY <1>1, <1>2, <1>3 DEF IInv, TypeOK, RowOK, KilledOK, Valid

\* A consume or disable begins with nothing read.
LEMMA StartInv ==
  ASSUME IInv, NEW c \in Callers, NEW op \in {"consume", "disable"},
         NEW purpose \in Purposes \cup {"none"}, Start(c, op, purpose)
  PROVE  IInv'
<1> DEFINE new == [op |-> op, purpose |-> purpose, pc |-> "read", seen |-> 0,
                   attempt |-> 0, since |-> version]
<1>1. /\ UNCHANGED <<version, row, now, admin, consumed, granted, lost, killed>>
      /\ call' = [call EXCEPT ![c] = new]
  BY Zenon DEF Start
<1>2. new \in Calls
  BY Zenon DEF Calls, IInv, TypeOK
<1>3. call' \in [Callers -> Calls]
  BY <1>1, <1>2, Zenon DEF IInv, TypeOK
<1>4. \A d \in Callers : CallOK(d)'
  BY <1>1, <1>2 DEF IInv, TypeOK, CallOK, Calls
<1> QED BY <1>1, <1>3, <1>4, Zenon DEF IInv, TypeOK, RowOK, KilledOK, Valid

\* What a read of the row returns: the row, which is always valid.
LEMMA ReadsRow ==
  ASSUME IInv
  PROVE  RegistrationToken(row) = row
BY DEF IInv, RowOK, TypeOK, Valid, RegistrationToken, registrationTokenFromRow, TokenRows

\* What a caller reads is the current version.
LEMMA Reads ==
  ASSUME IInv, NEW c \in Callers, call[c].pc = "read", row # NoRow,
         UNCHANGED version,
         call' = [call EXCEPT ![c].pc = "append", ![c].seen = RegistrationToken(row).version]
  PROVE  /\ call' \in [Callers -> Calls]
         /\ \A d \in Callers : CallOK(d)'
<1>1. RegistrationToken(row).version = version
  BY ReadsRow, Zenon DEF IInv, RowOK
<1> DEFINE new == [call[c] EXCEPT !.pc = "append", !.seen = version]
<1>2. call[c] \in Calls /\ call' = [call EXCEPT ![c] = new] /\ call[c].since + call[c].attempt <= version
  BY <1>1, Zenon DEF IInv, TypeOK, CallOK
<1>3. new \in Calls
  BY <1>2, Zenon DEF Calls, IInv, TypeOK
<1>4. new.pc = "append" /\ new.since = call[c].since /\ new.attempt = call[c].attempt /\ new.seen = version
  BY <1>2, Zenon DEF Calls
<1>5. call' \in [Callers -> Calls] /\ call'[c] = new /\ \A d \in Callers \ {c} : call'[d] = call[d]
  BY <1>2, <1>3, Zenon DEF IInv, TypeOK
<1> HIDE DEF new
<1>6. call[c].since \in Nat /\ call[c].attempt \in Nat /\ version \in Nat
  BY <1>2, Zenon DEF Calls, IInv, TypeOK
<1>7. new.since + new.attempt <= new.seen /\ new.seen <= version /\ new.since <= version
  BY <1>2, <1>4, <1>6
<1>8. CallOK(c)'
  BY <1>4, <1>5, <1>7, Zenon DEF CallOK
<1>9. \A d \in Callers \ {c} : CallOK(d)'
  BY <1>5, Zenon DEF CallOK, IInv
<1> QED BY <1>5, <1>8, <1>9, Zenon

-----------------------------------------------------------------------------
\* The read and the checks of ConsumeRegistrationToken and DisableRegistrationToken.
LEMMA ReadInv ==
  ASSUME IInv, NEW c \in Callers, ReadForConsume(c) \/ ReadForDisable(c)
  PROVE  IInv'
<1>1. /\ call[c].pc = "read"
      /\ UNCHANGED <<version, row, now, admin, consumed, granted, lost>>
  BY Zenon DEF ReadForConsume, ReadForDisable
<1>2. /\ \/ Return(c)
         \/ /\ row # NoRow
            /\ call' = [call EXCEPT ![c].pc = "append", ![c].seen = RegistrationToken(row).version]
      /\ killed' = killed \/ (killed' = TRUE /\ row # NoRow /\ row.disabled)
  <2>1. CASE ReadForConsume(c)
    BY <2>1, ReadsRow, Zenon DEF ReadForConsume, Admits
  <2>2. CASE ReadForDisable(c)
    BY <2>2, ReadsRow, Zenon DEF ReadForDisable
  <2> QED BY <2>1, <2>2, Zenon
<1>3. call' \in [Callers -> Calls] /\ \A d \in Callers : CallOK(d)'
  <2>1. version' \in Nat /\ version' >= version /\ "idle" \in Ended
    BY <1>1 DEF IInv, TypeOK, Ended
  <2> QED BY <1>1, <1>2, <2>1, Returned, Reads, Zenon DEF Return
<1>4. KilledOK' /\ killed' \in BOOLEAN
  <2>1. CASE killed' = killed
    BY <1>1, <2>1, Zenon DEF IInv, TypeOK, KilledOK
  <2>2. CASE killed' = TRUE /\ row # NoRow /\ row.disabled
    BY <1>1, <2>2, Zenon DEF IInv, KilledOK, RowOK
  <2> QED BY <1>2, <2>1, <2>2, Zenon
<1>5. RowOK' /\ (consumed = granted + lost)'
  BY <1>1, Zenon DEF IInv, RowOK, Valid
<1> QED BY <1>1, <1>3, <1>4, <1>5, Zenon DEF IInv, TypeOK

\* The pinned append of a consume: a use is counted with the row it is taken from,
\* and none once the token is disabled.
LEMMA ConsumeInv ==
  ASSUME IInv, NEW c \in Callers, AppendConsumed(c)
  PROVE  IInv' /\ (killed => UNCHANGED consumed)
<1> "idle" \in Ended /\ "exhausted" \in Ended
  BY Zenon DEF Ended
<1>1. CASE /\ AppendEventWithVersion(RegistrationTokenConsumedEvent)
           /\ consumed' = consumed + 1 /\ Return(c)
           /\ \/ granted' = granted + 1 /\ UNCHANGED lost
              \/ lost' = lost + 1 /\ UNCHANGED granted
  <2>1. /\ version' = version + 1 /\ row # NoRow /\ ~row.disabled /\ row.uses < row.maxUses
        /\ row' = [row EXCEPT !.version = version + 1, !.uses = @ + 1]
    BY <1>1, ConsumeAppends, Zenon
  <2>2. row \in TokenRows /\ version \in Nat /\ row.version = version /\ Valid(row) /\ row.uses = consumed
    BY <2>1, Zenon DEF IInv, TypeOK, RowOK
  <2>3. row' \in TokenRows
    <3>1. row.uses + 1 \in Nat /\ version + 1 \in Nat
      BY <2>2 DEF TokenRows
    <3> QED BY <2>1, <2>2, <3>1, RowColumns, Zenon
  <2>4. /\ row'.version = version + 1 /\ row'.uses = row.uses + 1 /\ row'.maxUses = row.maxUses
        /\ row'.expiresAt = row.expiresAt /\ row'.purpose = row.purpose
        /\ row'.dnsNames = row.dnsNames
    BY <2>1, <2>2, Zenon DEF TokenRows
  <2>5. row.uses \in Nat /\ row.maxUses \in Nat
    BY <2>2, Zenon DEF TokenRows
  <2>6. Valid(row')
    BY <2>1, <2>2, <2>4, <2>5 DEF Valid
  <2>7. ~killed
    BY <2>1, Zenon DEF IInv, KilledOK
  <2>8. call' \in [Callers -> Calls] /\ \A d \in Callers : CallOK(d)'
    <3>1. version' \in Nat /\ version' >= version
      BY <2>1, <2>2
    <3> QED BY <1>1, <3>1, Returned, Zenon DEF Return
  <2>9. RowOK'
    BY <1>1, <2>1, <2>2, <2>4, <2>6 DEF RowOK
  <2>10. UNCHANGED <<now, admin, killed>>
    BY Zenon DEF AppendConsumed
  <2>11. (consumed = granted + lost)' /\ granted' \in Nat /\ lost' \in Nat /\ consumed' \in Nat
    BY <1>1 DEF IInv, TypeOK
  <2>12. TypeOK'
    BY <2>1, <2>2, <2>3, <2>8, <2>10, <2>11 DEF TypeOK, IInv
  <2>13. KilledOK'
    BY <2>7, <2>10, Zenon DEF KilledOK
  <2> QED BY <2>7, <2>8, <2>9, <2>11, <2>12, <2>13, Zenon DEF IInv
<1>2. CASE /\ call[c].pc = "append" /\ call[c].seen # version /\ waitForCASRetry(c)
           /\ UNCHANGED <<version, row, consumed, granted, lost>>
  <2>1. call' \in [Callers -> Calls] /\ \A d \in Callers : CallOK(d)'
    BY <1>2, Retried, Zenon
  <2>2. UNCHANGED <<now, admin, killed>>
    BY DEF AppendConsumed
  <2> QED BY <1>2, <2>1, <2>2, Zenon DEF IInv, TypeOK, RowOK, KilledOK, Valid
<1> QED BY <1>1, <1>2, Zenon DEF AppendConsumed

\* The pinned append of a disable.
LEMMA DisableInv ==
  ASSUME IInv, NEW c \in Callers, AppendDisabled(c)
  PROVE  IInv'
<1> "idle" \in Ended /\ "exhausted" \in Ended
  BY DEF Ended
<1>0. UNCHANGED <<now, admin, consumed, granted, lost>>
  BY Zenon DEF AppendDisabled
<1>1. CASE /\ AppendEventWithVersion(RegistrationTokenDisabledEvent) /\ Return(c)
           /\ killed' = TRUE \/ UNCHANGED killed
  <2>1. /\ version' = version + 1 /\ row # NoRow
        /\ row' = [row EXCEPT !.version = version + 1, !.disabled = TRUE]
    BY <1>1, DisableAppends, Zenon
  <2>2. row \in TokenRows /\ version \in Nat /\ row.version = version /\ Valid(row) /\ row.uses = consumed
    BY <2>1, Zenon DEF IInv, TypeOK, RowOK
  <2>3. row' \in TokenRows
    <3>1. version + 1 \in Nat
      BY <2>2
    <3> QED BY <2>1, <2>2, <3>1, RowColumns, Zenon
  <2>4. /\ row'.version = version + 1 /\ row'.uses = row.uses /\ row'.maxUses = row.maxUses
        /\ row'.expiresAt = row.expiresAt /\ row'.purpose = row.purpose
        /\ row'.dnsNames = row.dnsNames /\ row'.disabled
    BY <2>1, <2>2, Zenon DEF TokenRows
  <2>5. Valid(row')
    BY <2>2, <2>4, Zenon DEF Valid
  <2>6. call' \in [Callers -> Calls] /\ \A d \in Callers : CallOK(d)'
    <3>1. version' \in Nat /\ version' >= version
      BY <2>1, <2>2
    <3> QED BY <1>1, <3>1, Returned, Zenon DEF Return
  <2>7. RowOK'
    BY <1>0, <2>1, <2>2, <2>4, <2>5 DEF RowOK
  <2>8. KilledOK' /\ killed' \in BOOLEAN
    <3>1. version' > 0
      BY <2>1, <2>2
    <3> QED BY <1>1, <2>4, <3>1, Zenon DEF IInv, TypeOK, KilledOK
  <2>9. TypeOK'
    BY <1>0, <2>1, <2>2, <2>3, <2>6, <2>8 DEF TypeOK, IInv
  <2> QED BY <1>0, <2>6, <2>7, <2>8, <2>9, Zenon DEF IInv
<1>2. CASE /\ call[c].pc = "append" /\ call[c].seen # version /\ waitForCASRetry(c)
           /\ UNCHANGED <<version, row, killed>>
  <2>1. call' \in [Callers -> Calls] /\ \A d \in Callers : CallOK(d)'
    BY <1>2, Retried, Zenon
  <2> QED BY <1>0, <1>2, <2>1, Zenon DEF IInv, TypeOK, RowOK, KilledOK, Valid
<1> QED BY <1>1, <1>2, Zenon DEF AppendDisabled

\* An update checks the row and leaves an event that its append repeats the checks for.
LEMMA UpdateInv ==
  ASSUME IInv, NEW update \in Updates, NEW expected \in {version, version + 1},
         ManagedUpdate(update, expected)
  PROVE  IInv'
<1> DEFINE event == updateEvent(RegistrationToken(row), update)
<1>1. /\ event # Refused /\ admin' = [expected |-> expected, event |-> event]
      /\ UNCHANGED <<version, row, now, call, consumed, granted, lost, killed>>
  BY Zenon DEF ManagedUpdate
<1>2. event = [type |-> "RegistrationTokenUpdated", maxUses |-> update.maxUses,
               expiresAt |-> update.expiresAt, disabled |-> update.disabled]
  BY <1>1, Zenon DEF updateEvent, RegistrationTokenUpdatedEvent, registrationTokenEvent
<1> HIDE DEF event
<1>3. event \in UpdateEvents /\ expected \in Nat
  BY <1>2, TokensAssumption DEF UpdateEvents, IInv, TypeOK
<1>4. admin'.expected \in Nat /\ admin'.event \in UpdateEvents
  BY <1>1, <1>3, Zenon
<1>5. \A c \in Callers : CallOK(c)'
  BY <1>1, Zenon DEF CallOK, IInv
<1> QED BY <1>1, <1>4, <1>5, Zenon DEF IInv, TypeOK, RowOK, KilledOK, Valid

\* The append of the update: the uses made so far still fit the new limit.
LEMMA AppendUpdateInv == IInv /\ AppendUpdate => IInv'
<1> SUFFICES ASSUME IInv, AppendUpdate PROVE IInv'
  BY Zenon
<1>0. admin' = NoUpdate /\ UNCHANGED <<now, call, consumed, granted, lost, killed>>
  BY Zenon DEF AppendUpdate
<1>1. CASE AppendEventWithVersion(admin.event)
  <2> DEFINE event == admin.event
  <2>1. event \in UpdateEvents
    BY Zenon DEF AppendUpdate, IInv, TypeOK
  <2> HIDE DEF event
  <2>2. /\ version' = version + 1 /\ row # NoRow /\ row.uses <= event.maxUses
        /\ validateRegistrationTokenMetadata(event.maxUses, event.expiresAt)
        /\ row' = [row EXCEPT !.version = version + 1, !.maxUses = event.maxUses,
                              !.expiresAt = event.expiresAt, !.disabled = @ \/ event.disabled]
    BY <1>1, <2>1, UpdateAppends, Zenon DEF event
  <2>3. row \in TokenRows /\ version \in Nat /\ Valid(row) /\ row.uses = consumed
    BY <2>2, Zenon DEF IInv, TypeOK, RowOK
  <2>4. /\ version + 1 \in Nat /\ event.maxUses \in Nat /\ event.expiresAt \in Times
        /\ (row.disabled \/ event.disabled) \in BOOLEAN
    BY <2>1, <2>3 DEF TokenRows, UpdateEvents
  <2>5. row' \in TokenRows
    BY <2>2, <2>3, <2>4, RowColumns, Zenon
  <2>6. /\ row'.version = version + 1 /\ row'.uses = row.uses /\ row'.maxUses = event.maxUses
        /\ row'.expiresAt = event.expiresAt /\ row'.purpose = row.purpose
        /\ row'.dnsNames = row.dnsNames
        /\ row'.disabled = (row.disabled \/ event.disabled)
    BY <2>2, <2>3, Zenon DEF TokenRows
  <2>7. Valid(row')
    BY <2>2, <2>3, <2>6, Zenon DEF Valid
  <2>8. version' \in Nat /\ version' >= version /\ version' > 0
    BY <2>2, <2>3
  <2>9. call' \in [Callers -> Calls] /\ \A c \in Callers : CallOK(c)'
    BY <1>0, <2>8, OtherCalls, Zenon
  <2>10. RowOK'
    BY <1>0, <2>2, <2>3, <2>6, <2>7, <2>8 DEF RowOK
  <2>11. KilledOK'
    BY <1>0, <2>2, <2>6, <2>8, Zenon DEF IInv, KilledOK
  <2>12. TypeOK'
    BY <1>0, <2>5, <2>8, <2>9, Zenon DEF IInv, TypeOK, NoUpdate
  <2> QED BY <1>0, <2>9, <2>10, <2>11, <2>12, Zenon DEF IInv
<1>2. CASE UNCHANGED <<version, row>>
  <2>1. \A c \in Callers : CallOK(c)'
    BY <1>0, <1>2, Zenon DEF CallOK, IInv
  <2> QED BY <1>0, <1>2, <2>1, Zenon DEF IInv, TypeOK, RowOK, KilledOK, Valid, NoUpdate
<1> QED BY <1>1, <1>2, Zenon DEF AppendUpdate

\* The deletion by the management API.
LEMMA DeleteInv == IInv /\ ManagedDelete => IInv'
<1> SUFFICES ASSUME IInv, ManagedDelete PROVE IInv'
  OBVIOUS
<1>1. /\ version' = version + 1 /\ row' = NoRow
      /\ UNCHANGED <<now, call, admin, consumed, granted, lost, killed>>
  BY DeleteAppends, Zenon DEF ManagedDelete
<1>2. version' \in Nat /\ version' >= version /\ version' > 0
  BY <1>1 DEF IInv, TypeOK
<1>3. call' \in [Callers -> Calls] /\ \A c \in Callers : CallOK(c)'
  BY <1>1, <1>2, OtherCalls, Zenon
<1> QED BY <1>1, <1>2, <1>3 DEF IInv, TypeOK, RowOK, KilledOK

\* A call that fails leaves the token as it is.
LEMMA FailInv ==
  ASSUME IInv, NEW c \in Callers, Fail(c)
  PROVE  IInv'
<1>1. Return(c) /\ UNCHANGED <<version, row, now, admin, consumed, granted, lost, killed>>
  BY Zenon DEF Fail
<1>2. call' \in [Callers -> Calls] /\ \A d \in Callers : CallOK(d)'
  <2>1. version' \in Nat /\ version' >= version /\ "idle" \in Ended
    BY <1>1 DEF IInv, TypeOK, Ended
  <2> QED BY <1>1, <2>1, Returned, Zenon DEF Return
<1> QED BY <1>1, <1>2, Zenon DEF IInv, TypeOK, RowOK, KilledOK, Valid

\* Time and stuttering.
LEMMA TickInv == IInv /\ (Tick \/ UNCHANGED vars) => IInv'
<1> SUFFICES ASSUME IInv, Tick \/ UNCHANGED vars PROVE IInv'
  BY Zenon
<1>1. now' \in Nat /\ UNCHANGED <<version, row, call, admin, consumed, granted, lost, killed>>
  BY DEF Tick, vars, IInv, TypeOK
<1>2. \A c \in Callers : CallOK(c)'
  BY <1>1, Zenon DEF CallOK, IInv
<1> QED BY <1>1, <1>2, Zenon DEF IInv, TypeOK, RowOK, KilledOK, Valid

\* Every step.
LEMMA NextInv == IInv /\ [Next]_vars => IInv'
<1> SUFFICES ASSUME IInv, [Next]_vars PROVE IInv'
  BY Zenon
<1>1. ASSUME NEW limit \in UseLimits, NEW expiry \in Times, NEW purpose \in Purposes,
             NEW dnsNames \in DNSLists,
             \/ Mint(purpose, limit, expiry, dnsNames)
             \/ ManagedCreate(purpose, limit, expiry, dnsNames)
      PROVE  IInv'
  <2>1. ManagedCreate(purpose, limit, expiry, dnsNames)
    BY <1>1, Zenon DEF Mint, ManagedCreate
  <2> QED BY <2>1, MintInv, Zenon
<1>2. ASSUME NEW update \in Updates, NEW expected \in {version, version + 1},
             ManagedUpdate(update, expected)
      PROVE  IInv'
  BY <1>2, UpdateInv, Zenon
<1>3. ASSUME NEW c \in Callers, CallStep(c) \/ Fail(c) PROVE IInv'
  BY <1>3, ReadInv, ConsumeInv, DisableInv, FailInv, Zenon DEF CallStep
<1>4. ASSUME NEW c \in Callers,
             \/ Start(c, "disable", "none")
             \/ \E purpose \in Purposes : Start(c, "consume", purpose)
      PROVE  IInv'
  BY <1>4, StartInv, Zenon
<1> QED BY <1>1, <1>2, <1>3, <1>4, AppendUpdateInv, DeleteInv, TickInv, Zenon DEF Next

-----------------------------------------------------------------------------
(* Theorems *)

\* The row mirrors its stream in every reachable state: its version, its uses, its validity,
\* the finished Disable; and every attempt of a running call saw a newer version.
THEOREM Invariance == Spec => []IInv
<1>1. Init => IInv
  BY InitInv, Zenon
<1>2. IInv /\ [Next]_vars => IInv'
  BY NextInv, Zenon
<1> QED BY <1>1, <1>2, PTL DEF Spec

\* Consume hands out as many grants as it appends Consumed events, less those
\* whose answer was lost, and the row counts exactly those events, whatever
\* calls, updates and deletions interleave.
THEOREM GrantsAreClaimed == Spec => []EveryGrantClaimed
<1>1. IInv => EveryGrantClaimed
  BY Zenon DEF IInv, RowOK, EveryGrantClaimed
<1> QED BY <1>1, Invariance, PTL

\* A projected token passes the checks that its readers make and is within its limit,
\* also across an update that lowers the limit.
THEOREM LimitHolds == Spec => []UsesWithinLimit
<1>1. IInv => UsesWithinLimit
  <2> SUFFICES ASSUME IInv, row # NoRow PROVE UsesWithinLimit
    BY Zenon DEF UsesWithinLimit
  <2>1. /\ row.version > 0 /\ row.uses <= row.maxUses /\ row.uses \in 0 .. row.maxUses
        /\ Valid(row) /\ row \in TokenRows
    BY DEF IInv, TypeOK, RowOK, Valid, TokenRows
  <2>2. registrationTokenMetadataFromValues(row) = row /\ registrationTokenFromRow(row) = row
    BY <2>1, Zenon DEF Valid, registrationTokenMetadataFromValues, registrationTokenFromRow
  <2>3. ListRegistrationTokens({row}) = {row}
    BY <2>1, <2>2, RowsAreValues, Zenon DEF ListRegistrationTokens
  <2> QED BY <2>1, <2>2, <2>3, Zenon
       DEF UsesWithinLimit, RegistrationToken, RegistrationTokenMetadataByID
<1> QED BY <1>1, Invariance, PTL

\* After a Disable has returned nil no Consumed event is appended, by whichever path.
THEOREM DisableIsFinal == Spec => KillSwitch
<1>1. IInv /\ [Next]_vars => [killed => consumed' = consumed]_vars
  <2> SUFFICES ASSUME IInv, Next PROVE killed => consumed' = consumed
    BY Zenon
  <2>1. ASSUME NEW c \in Callers, AppendConsumed(c) PROVE killed => consumed' = consumed
    BY <2>1, ConsumeInv, Zenon
  <2> QED BY <2>1, Zenon DEF Next, Mint, ManagedCreate, ManagedUpdate, AppendUpdate, ManagedDelete,
       CallStep, ReadForConsume, ReadForDisable, AppendDisabled, Fail, Start, Tick
<1> QED BY <1>1, Invariance, PTL DEF Spec, KillSwitch

\* waitForCASRetry gives up only after CasAttempts appends of others.
THEOREM ContentionTheorem == Spec => ContentionIsProgress
<1> DEFINE Progress == \A c \in Callers :
             call[c].pc = "append" /\ call'[c].pc = "exhausted"
               => version - call[c].since >= CasAttempts
<1>1. IInv /\ [Next]_vars => [Progress]_vars
  <2> SUFFICES ASSUME IInv, Next, NEW c \in Callers,
                      call[c].pc = "append", call'[c].pc = "exhausted"
               PROVE  version - call[c].since >= CasAttempts
    BY Zenon
  <2>1. /\ waitForCASRetry(c) /\ call[c].seen # version
    <3>1. call \in [Callers -> Calls]
      BY Zenon DEF IInv, TypeOK
    <3>2. ASSUME NEW d \in Callers, d # c, CallStep(d) \/ Fail(d) PROVE call'[c] = call[c]
      BY <3>1, <3>2, Zenon DEF CallStep, Fail, Return, ReadForConsume, ReadForDisable, AppendConsumed,
         AppendDisabled, waitForCASRetry
    <3>3. ASSUME NEW d \in Callers, NEW op, NEW purpose, Start(d, op, purpose)
          PROVE  call'[c].pc # "exhausted"
      BY <3>1, <3>3, Zenon DEF Start
    <3>4. ASSUME Return(c) PROVE FALSE
      BY <3>1, <3>4, Zenon DEF Return, Done
    <3>5. ASSUME CallStep(c) \/ Fail(c) PROVE waitForCASRetry(c) /\ call[c].seen # version
      BY <3>4, <3>5, Zenon DEF CallStep, Fail, ReadForConsume, ReadForDisable, AppendConsumed,
         AppendDisabled
    <3>6. call' # call
      BY Zenon
    <3> QED BY <3>2, <3>3, <3>5, <3>6, Zenon DEF Next, Mint, ManagedCreate, ManagedUpdate,
         AppendUpdate, ManagedDelete, Tick
  <2>2. call[c].attempt + 1 >= CasAttempts
    <3>1. call \in [Callers -> Calls]
      BY DEF IInv, TypeOK
    <3>2. CASE call' = [call EXCEPT ![c].pc = "read", ![c].attempt = @ + 1]
      BY <3>1, <3>2, Zenon DEF Calls
    <3> QED BY <2>1, <3>2, Zenon DEF waitForCASRetry
  <2>3. /\ call[c].since + call[c].attempt <= call[c].seen /\ call[c].seen <= version
        /\ call[c].since \in Nat /\ call[c].attempt \in Nat /\ call[c].seen \in Nat
        /\ version \in Nat
    BY Zenon DEF IInv, TypeOK, CallOK, Calls
  <2> QED BY <2>1, <2>2, <2>3, TokensAssumption
<1> QED BY <1>1, Invariance, PTL DEF Spec, ContentionIsProgress
=============================================================================
