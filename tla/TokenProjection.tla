--------------------------- MODULE TokenProjection ---------------------------
(***************************************************************************)
(* Registration-token events, the projectors with the statements they run, *)
(* and the reads of the row (store/registration_tokens.go), as functions   *)
(* of the row.  The verifier hash and the owner never change an outcome    *)
(* and are left out.  A DNS name is a value that passes validGatewayDNSName.*)
(***************************************************************************)
EXTENDS Integers, Sequences, FiniteSets

CONSTANTS NoRow, Refused,
          MaxGatewayDNSNames   \* maxGatewayDNSNames

validateRegistrationTokenMetadata(maxUses, expiresAt) == maxUses > 0 /\ expiresAt # 0

validateRegistrationTokenPurpose(purpose, dnsNames) ==
  /\ purpose \in {"agent", "gateway"}
  /\ purpose = "agent" => dnsNames = <<>>
  /\ purpose = "gateway" =>
       /\ Len(dnsNames) \in 1 .. MaxGatewayDNSNames
       /\ \A i, j \in DOMAIN dnsNames : dnsNames[i] = dnsNames[j] => i = j
-----------------------------------------------------------------------------
(* Events: built whole, or refused *)

registrationTokenEvent(valid, event) == IF valid THEN event ELSE Refused

RegistrationTokenMintedEvent(maxUses, expiresAt) ==
  registrationTokenEvent(validateRegistrationTokenMetadata(maxUses, expiresAt),
    [type |-> "RegistrationTokenMinted", maxUses |-> maxUses, expiresAt |-> expiresAt])
GatewayRegistrationTokenMintedEvent(maxUses, expiresAt, dnsNames) ==
  registrationTokenEvent(
    /\ validateRegistrationTokenMetadata(maxUses, expiresAt)
    /\ validateRegistrationTokenPurpose("gateway", dnsNames),
    [type |-> "GatewayRegistrationTokenMinted", maxUses |-> maxUses, expiresAt |-> expiresAt,
     dnsNames |-> dnsNames])
RegistrationTokenConsumedEvent == registrationTokenEvent(TRUE, [type |-> "RegistrationTokenConsumed"])
RegistrationTokenDisabledEvent == registrationTokenEvent(TRUE, [type |-> "RegistrationTokenDisabled"])
RegistrationTokenUpdatedEvent(maxUses, expiresAt, disabled) ==
  registrationTokenEvent(validateRegistrationTokenMetadata(maxUses, expiresAt),
    [type |-> "RegistrationTokenUpdated", maxUses |-> maxUses, expiresAt |-> expiresAt,
     disabled |-> disabled])
RegistrationTokenDeletedEvent == registrationTokenEvent(TRUE, [type |-> "RegistrationTokenDeleted"])
-----------------------------------------------------------------------------
(* Statements: the row they leave, or Refused when they affect none *)

UpsertRegistrationToken(row, new) ==
  IF row = NoRow THEN new ELSE IF row.version < new.version THEN new ELSE Refused

ProjectRegistrationTokenConsume(row, version) ==
  IF row = NoRow THEN Refused
  ELSE IF row.version < version /\ ~row.disabled /\ row.uses < row.maxUses
       THEN [row EXCEPT !.version = version, !.uses = @ + 1]
       ELSE Refused

ProjectRegistrationTokenDisable(row, version) ==
  IF row = NoRow THEN Refused
  ELSE IF row.version < version /\ ~row.disabled
       THEN [row EXCEPT !.version = version, !.disabled = TRUE]
       ELSE Refused

\* Mutant: the uses made so far are not compared with the new limit.
ReplaceMetadataAnyLimit(row, event, version) ==
  IF row.version = version - 1
  THEN [row EXCEPT !.version = version, !.maxUses = event.maxUses,
                   !.expiresAt = event.expiresAt, !.disabled = @ \/ event.disabled]
  ELSE Refused
ReplaceRegistrationTokenMetadata(row, event, version) ==
  IF row.version = version - 1 /\ row.uses <= event.maxUses
  THEN [row EXCEPT !.version = version, !.maxUses = event.maxUses,
                   !.expiresAt = event.expiresAt, !.disabled = @ \/ event.disabled]
  ELSE Refused

DeleteRegistrationTokenProjection(row, version) ==
  IF row = NoRow THEN Refused ELSE IF row.version = version - 1 THEN NoRow ELSE Refused
-----------------------------------------------------------------------------
(* Projectors *)

\* A statement that affected no row is fine when the row already contains the event.
validateRegistrationTokenProjectionResult(result, row, version) ==
  IF result # Refused THEN result
  ELSE IF row = NoRow THEN Refused
  ELSE IF row.version >= version THEN row
  ELSE Refused

projectRegistrationTokenMint(row, event, version) ==
  LET gateway == event.type = "GatewayRegistrationTokenMinted"
      purpose == IF gateway THEN "gateway" ELSE "agent"
      dnsNames == IF gateway THEN event.dnsNames ELSE <<>>
      new == [version |-> version, purpose |-> purpose, dnsNames |-> dnsNames,
              maxUses |-> event.maxUses, uses |-> 0, expiresAt |-> event.expiresAt,
              disabled |-> FALSE]
  IN  IF /\ version = 1
         /\ validateRegistrationTokenMetadata(event.maxUses, event.expiresAt)
         /\ validateRegistrationTokenPurpose(purpose, dnsNames)
      THEN validateRegistrationTokenProjectionResult(UpsertRegistrationToken(row, new), row, version)
      ELSE Refused

projectRegistrationTokenConsume(row, version) ==
  IF version <= 1 THEN Refused
  ELSE validateRegistrationTokenProjectionResult(
         ProjectRegistrationTokenConsume(row, version), row, version)

projectRegistrationTokenDisable(row, version) ==
  IF version <= 1 THEN Refused
  ELSE validateRegistrationTokenProjectionResult(
         ProjectRegistrationTokenDisable(row, version), row, version)

\* Mutant: neither the projector nor its statement looks at the uses made so far.
projectUpdateAnyLimit(row, event, version) ==
  IF version <= 1 \/ row = NoRow THEN Refused
  ELSE validateRegistrationTokenProjectionResult(
         ReplaceMetadataAnyLimit(row, event, version), row, version)

projectRegistrationTokenUpdate(row, event, version) ==
  IF \/ version <= 1 \/ row = NoRow
     \/ ~validateRegistrationTokenMetadata(event.maxUses, event.expiresAt)
     \/ row.uses > event.maxUses
  THEN Refused
  ELSE validateRegistrationTokenProjectionResult(
         ReplaceRegistrationTokenMetadata(row, event, version), row, version)

projectRegistrationTokenDelete(row, version) ==
  IF version <= 1 THEN Refused ELSE DeleteRegistrationTokenProjection(row, version)

registrationTokenEventDefinitions(row, event, version) ==
  CASE event.type \in {"RegistrationTokenMinted", "GatewayRegistrationTokenMinted"} ->
         projectRegistrationTokenMint(row, event, version)
    [] event.type = "RegistrationTokenConsumed" -> projectRegistrationTokenConsume(row, version)
    [] event.type = "RegistrationTokenDisabled" -> projectRegistrationTokenDisable(row, version)
    [] event.type = "RegistrationTokenUpdated" -> projectRegistrationTokenUpdate(row, event, version)
    [] event.type = "RegistrationTokenDeleted" -> projectRegistrationTokenDelete(row, version)
-----------------------------------------------------------------------------
(* Reads: a row that does not validate is an error, not a token *)

registrationTokenFromRow(row) ==
  IF /\ row.version > 0
     /\ validateRegistrationTokenMetadata(row.maxUses, row.expiresAt)
     /\ validateRegistrationTokenPurpose(row.purpose, row.dnsNames)
     /\ row.uses \in 0 .. row.maxUses
  THEN row ELSE Refused
RegistrationToken(row) == IF row = NoRow THEN NoRow ELSE registrationTokenFromRow(row)

registrationTokenMetadataFromValues(row) ==
  IF /\ row.version > 0
     /\ validateRegistrationTokenMetadata(row.maxUses, row.expiresAt)
     /\ validateRegistrationTokenPurpose(row.purpose, row.dnsNames)
     /\ row.uses \in 0 .. row.maxUses
  THEN row ELSE Refused
RegistrationTokenMetadataByID(row) ==
  IF row = NoRow THEN NoRow ELSE registrationTokenMetadataFromValues(row)
\* One row that does not validate fails the whole page.
ListRegistrationTokens(rows) ==
  LET page == {registrationTokenMetadataFromValues(r) : r \in rows}
  IN  IF Refused \in page THEN Refused ELSE page
=============================================================================
