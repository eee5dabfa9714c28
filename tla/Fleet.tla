------------------------------- MODULE Fleet --------------------------------
(***************************************************************************)
(* The device and gateway rows of the control server as values: the        *)
(* lifecycle events, the statements that write a row, and the projectors   *)
(* that apply an event to it.  A row is                                    *)
(*     [cert, prev, state, at]                                             *)
(* the current certificate, the one it superseded, the lifecycle state and *)
(* the rotation states at the global position of the row's last event,     *)
(* which only a row that still answers retries needs: a revoked row has    *)
(* none.  A certificate is reduced to its serial and its issuing root.     *)
(*                                                                         *)
(* An operator that writes a row returns the set of rows it can leave: one *)
(* row, or none when it refuses and its transaction rolls back.  The       *)
(* revocation that a projector records for the certificate it ends is in   *)
(* module CRL.                                                             *)
(***************************************************************************)
CONSTANTS Absent,             \* no row, no file, no answer
          Deleted             \* the row of a deleted device

ASSUME RowAssumption == Absent # Deleted

Exists(r) == r \notin {Absent, Deleted}

-----------------------------------------------------------------------------
(* Events *)

AgentEnrolledEvent(cert) == [type |-> "AgentEnrolled", cert |-> cert]
AgentCertificateRenewedEvent(cert, superseded) ==
  [type |-> "AgentCertificateRenewed", cert |-> cert, superseded |-> superseded]
AgentCertificateRevokedEvent(cert) ==
  [type |-> "AgentCertificateRevoked", cert |-> cert]
AgentCertificateForceRenewalRequiredEvent(cert) ==
  [type |-> "AgentCertificateForceRenewalRequired", cert |-> cert]
AgentDeletedEvent(cert) == [type |-> "AgentDeleted", cert |-> cert]

GatewayEnrolledEvent(cert) == [type |-> "GatewayEnrolled", cert |-> cert]
GatewayCertificateRenewedEvent(cert, superseded) ==
  [type |-> "GatewayCertificateRenewed", cert |-> cert, superseded |-> superseded]
GatewayCertificateRevokedEvent(cert) ==
  [type |-> "GatewayCertificateRevoked", cert |-> cert]

\* A renewal names a certificate and another one that it supersedes.
validateAgentCertificateRenewal(e) == e.cert # e.superseded
validateGatewayRenewal(e) == e.cert # e.superseded

-----------------------------------------------------------------------------
(* Statements.  The WHERE clauses also compare the row's version with the  *)
(* event's: the append pins it, so the row read is the row written.        *)

Affected(matches, next) == IF matches THEN {next} ELSE {}

Position(state, at) == IF state = "revoked" THEN Absent ELSE at

\* ON CONFLICT DO NOTHING
UpsertDeviceEnrollment(r, e, at) ==
  Affected(~Exists(r),
           [cert |-> e.cert, prev |-> Absent, state |-> "active", at |-> at])

UpdateDeviceRenewal(r, e, at) ==
  Affected(Exists(r) /\ r.cert = e.superseded /\ r.state \in {"active", "force_renewal"},
           [cert |-> e.cert, prev |-> e.superseded, state |-> "active", at |-> at])

UpdateDeviceLifecycleState(r, e, state, allowForce, at) ==
  Affected(/\ Exists(r) /\ r.cert = e.cert
           /\ r.state = "active" \/ (allowForce /\ r.state = "force_renewal"),
           [r EXCEPT !.state = state, !.at = Position(state, at)])

UpdateDeviceOwner(r, at) ==
  Affected(Exists(r), [r EXCEPT !.at = Position(r.state, at)])

DeleteDeviceProjection(r) == Affected(Exists(r), Deleted)

UpsertGatewayEnrollment(r, e, at) ==
  Affected(~Exists(r),
           [cert |-> e.cert, prev |-> Absent, state |-> "active", at |-> at])

UpdateGatewayRenewal(r, e, at) ==
  Affected(Exists(r) /\ r.cert = e.superseded /\ r.state = "active",
           [r EXCEPT !.cert = e.cert, !.prev = e.superseded, !.at = at])

UpdateGatewayLifecycleState(r, e, at) ==
  Affected(Exists(r) /\ r.cert = e.cert /\ r.state = "active",
           [r EXCEPT !.state = "revoked", !.at = Position("revoked", at)])

-----------------------------------------------------------------------------
(* Projectors *)

projectAgentEnrollment(r, e, at) == UpsertDeviceEnrollment(r, e, at)

projectAgentCertificateRenewal(r, e, at) ==
  {next \in UpdateDeviceRenewal(r, e, at) : validateAgentCertificateRenewal(e)}

projectAgentLifecycleState(r, e, state, allowForce, at) ==
  UpdateDeviceLifecycleState(r, e, state, allowForce, at)

projectAgentCertificateRevocation(r, e, at) ==
  projectAgentLifecycleState(r, e, "revoked", TRUE, at)

projectAgentForceRenewal(r, e, at) ==
  projectAgentLifecycleState(r, e, "force_renewal", FALSE, at)

projectAgentOwnerUpdate(r, at) == UpdateDeviceOwner(r, at)

projectAgentDeletion(r, e) ==
  {next \in DeleteDeviceProjection(r) : r.cert = e.cert}

projectGatewayEnrollment(r, e, at) == UpsertGatewayEnrollment(r, e, at)

projectGatewayRenewal(r, e, at) ==
  {next \in UpdateGatewayRenewal(r, e, at) : validateGatewayRenewal(e)}

projectGatewayRevocation(r, e, at) == UpdateGatewayLifecycleState(r, e, at)
=============================================================================
