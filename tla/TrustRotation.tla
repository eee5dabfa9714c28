--------------------------- MODULE TrustRotation ----------------------------
(***************************************************************************)
(* The certificate authorities, the control server's identity rows and     *)
(* rotation state, and the agents and gateways that hold certificates and  *)
(* trust bundles, with the messages between them.                          *)
(*                                                                         *)
(* One action is one server call.  Enrollment and renewal hold the shared  *)
(* rotation fences of both classes to their commit and a transition holds  *)
(* its class's fence exclusively, so these are atomic towards each other;  *)
(* the client's half of the call is a separate step, because the answer    *)
(* can be lost and the client can restart in between.                      *)
(***************************************************************************)
EXTENDS CARotation, Fleet, FiniteSets

CONSTANTS Agents, Gateways,   \* identities: a re-enrolled host is a new one
          FirstRoot,          \* the configured authority of a class: the two
                              \* classes' roots are never compared
          MaxRotations,       \* bound: rotations begun, over both classes
          MaxAgentCerts, MaxGatewayCerts  \* bounds: certificates per identity

Classes == {"agent", "gateway"}
Certificates == [n : Nat, iss : Roots]
IdentityRows ==
  [cert : Certificates, prev : Certificates \cup {Absent},
   state : {"active", "force_renewal", "revoked"},
   at : [Classes -> CARotationStates] \cup {Absent}]

ASSUME TrustAssumption ==
  /\ Agents \cap Gateways = {} /\ FirstRoot \in Roots
  /\ MaxRotations \in Nat /\ MaxAgentCerts \in Nat /\ MaxGatewayCerts \in Nat
  /\ Absent \notin Certificates /\ {Absent, Deleted} \cap IdentityRows = {}

Ids == Agents \cup Gateways
ClassOf(k) == IF k \in Agents THEN "agent" ELSE "gateway"
Members(c) == IF c = "agent" THEN Agents ELSE Gateways
Opposite(c) == IF c = "agent" THEN "gateway" ELSE "agent"

VARIABLES
  rot,        \* control: durable rotation state of each class
  row,        \* control: the device or gateway row of an identity
  receipts,   \* control: adoption confirmation events
  file,       \* client: credential file (agent) or serving identity (gateway)
  pend,       \* client: classes whose confirmation is pending, with the file
  seal,       \* agent process: the renewal sealing key it remembers
  answer      \* the enrollment or renewal answer on its way to the client

vars == <<rot, row, receipts, file, pend, seal, answer>>

Init ==
  /\ rot = [c \in Classes |-> ConfiguredState(FirstRoot)]
  /\ row = [k \in Ids |-> Absent]
  /\ receipts = {}
  /\ file = [k \in Ids |-> Absent]
  /\ pend = [k \in Ids |-> {}]
  /\ seal = [a \in Agents |-> "none"]
  /\ answer = [k \in Ids |-> Absent]

Live(k) == Exists(row[k]) /\ row[k].state # "revoked"

-----------------------------------------------------------------------------
(* Issuance and renewal in the control server *)

\* The fences are held and Snapshot has selected the authority of the durable
\* state, so a certificate is issued by the root that state issues from.  (The
\* authority is selected in the process; no production code issues without the
\* fences.)
currentAuthority(c) == IssuingRoot(rot[c])

issueAgentCertificate(n) == [n |-> n, iss |-> currentAuthority("agent")]
issueGatewayCertificate(n) == [n |-> n, iss |-> currentAuthority("gateway")]

Bundles(states) == [c \in Classes |-> trustBundleFromSnapshot(states[c])]

Answer(k, cert, states) ==
  answer' = [answer EXCEPT ![k] = [cert |-> cert, bundle |-> Bundles(states)]]

\* One lifecycle event under the identity's lock, pinned to the version of the
\* row that was read under it: the row becomes what the projector leaves.
AppendEvent(k, projected) == \E next \in projected : row' = [row EXCEPT ![k] = next]

\* EnrollAgent and EnrollGateway, their registration token already consumed:
\* a new identity, certified by the issuing root of its class.
EnrollAgent(a) ==
  /\ row[a] = Absent /\ file[a] = Absent /\ answer[a] = Absent
  /\ LET cert == issueAgentCertificate(1)
     IN /\ AppendEvent(a, projectAgentEnrollment(row[a], AgentEnrolledEvent(cert), rot))
        /\ Answer(a, cert, rot)
  /\ UNCHANGED <<rot, receipts, file, pend, seal>>

EnrollGateway(g) ==
  /\ row[g] = Absent /\ file[g] = Absent /\ answer[g] = Absent
  /\ LET cert == issueGatewayCertificate(1)
     IN /\ AppendEvent(g, projectGatewayEnrollment(row[g], GatewayEnrolledEvent(cert), rot))
        /\ Answer(g, cert, rot)
  /\ UNCHANGED <<rot, receipts, file, pend, seal>>

\* The rotation states at the row's last event, which a committed certificate
\* was issued under.
CARotationStatesAtEvent(k) == row[k].at
snapshotsAtLifecycleEvent(k) == CARotationStatesAtEvent(k)

\* A retry presents the superseded certificate and is answered with the
\* committed one and the bundles of its own event.
Replay(k) ==
  LET states == snapshotsAtLifecycleEvent(k)
  IN /\ verifiedCertificateIssuerRoot(row[k].cert, DesiredRoots(states[ClassOf(k)]))
     /\ Answer(k, row[k].cert, states)
     /\ UNCHANGED row

\* Renew checks the credentials it holds, sends the pending confirmations first
\* and gives up when one is not acknowledged: a renewal is sent with none
\* pending.
Renewing(k) == file[k] # Absent /\ answer[k] = Absent /\ pend[k] = {}

RenewAgent(a) ==
  /\ Renewing(a) /\ validateStoredCredentialBundle(file[a])
  /\ LET key == IF seal[a] = "none" THEN "fresh" ELSE seal[a]
         current == Live(a) /\ file[a].cert = row[a].cert
         retry == /\ Live(a) /\ row[a].state = "active"
                  /\ file[a].cert = row[a].prev /\ key = "stored"
         cert == issueAgentCertificate(row[a].cert.n + 1)
     IN \/ /\ current /\ row[a].cert.n < MaxAgentCerts
           /\ AppendEvent(a, projectAgentCertificateRenewal(row[a],
                               AgentCertificateRenewedEvent(cert, file[a].cert), rot))
           /\ Answer(a, cert, rot)
           /\ seal' = [seal EXCEPT ![a] = "stored"]
        \/ /\ retry /\ Replay(a)
           /\ UNCHANGED seal
        \/ /\ ~current /\ ~retry
           /\ seal' = [seal EXCEPT ![a] = key]
           /\ UNCHANGED <<row, answer>>
  /\ UNCHANGED <<rot, receipts, file, pend>>

RenewGateway(g) ==
  /\ Renewing(g) /\ validateCurrentGatewayIdentity(file[g]) /\ Live(g)
  /\ LET cert == issueGatewayCertificate(row[g].cert.n + 1)
     IN \/ /\ file[g].cert = row[g].cert /\ row[g].cert.n < MaxGatewayCerts
           /\ AppendEvent(g, projectGatewayRenewal(row[g],
                               GatewayCertificateRenewedEvent(cert, file[g].cert), rot))
           /\ Answer(g, cert, rot)
        \/ file[g].cert = row[g].prev /\ Replay(g)
  /\ UNCHANGED <<rot, receipts, file, pend, seal>>

-----------------------------------------------------------------------------
(* Lifecycle operations of an administrator: each names the certificate it *)
(* read, and is refused when the row has another one.                      *)

appendAgentLifecycleEvent(a, nextState) ==
  /\ Exists(row[a])
  /\ row[a].state = "active" \/ (nextState = "revoked" /\ row[a].state = "force_renewal")
  /\ AppendEvent(a, IF nextState = "revoked"
       THEN projectAgentCertificateRevocation(row[a],
              AgentCertificateRevokedEvent(row[a].cert), rot)
       ELSE projectAgentForceRenewal(row[a],
              AgentCertificateForceRenewalRequiredEvent(row[a].cert), rot))

RevokeAgent(a) ==
  /\ appendAgentLifecycleEvent(a, "revoked")
  /\ UNCHANGED <<rot, receipts, file, pend, seal, answer>>

ForceRenewAgent(a) ==
  /\ appendAgentLifecycleEvent(a, "force_renewal")
  /\ UNCHANGED <<rot, receipts, file, pend, seal, answer>>

RevokeGateway(g) ==
  /\ Live(g)
  /\ AppendEvent(g, projectGatewayRevocation(row[g],
                      GatewayCertificateRevokedEvent(row[g].cert), rot))
  /\ UNCHANGED <<rot, receipts, file, pend, seal, answer>>

\* The device domain's delete: the row goes away, its certificate is revoked.
DeleteDevice(a) ==
  /\ Exists(row[a])
  /\ AppendEvent(a, projectAgentDeletion(row[a], AgentDeletedEvent(row[a].cert)))
  /\ UNCHANGED <<rot, receipts, file, pend, seal, answer>>

\* The device domain's update: an owner change is an event of the device
\* stream like the others, and moves the row's last event past the issuance it
\* still answers retries for.  (The owner itself is not modelled, so elsewhere
\* the change is invisible.)
ChangeDeviceOwner(a) ==
  /\ Live(a) /\ row[a].at # rot
  /\ AppendEvent(a, projectAgentOwnerUpdate(row[a], rot))
  /\ UNCHANGED <<rot, receipts, file, pend, seal, answer>>

-----------------------------------------------------------------------------
(* Adoption confirmations *)

LeafReceipt(k, cert, gen) ==
  [kind |-> "leaf", id |-> k, cert |-> cert, gen |-> gen]
ConsumerReceipt(k, cert, bundle) ==
  [kind |-> "consumer", id |-> k, cert |-> cert, bundle |-> bundle]
ControlReceipt(bundle) == [kind |-> "control", bundle |-> bundle]

\* The claims a client stores with its credentials and sends until they are
\* acknowledged: what it holds of a class, signed with its key.
pendingTrustRequest(a, c) ==
  [id |-> a, cert |-> file[a].cert, claimed |-> c, bundle |-> file[a].bundle[c]]
gatewayPendingRequest(g, c) ==
  [id |-> g, cert |-> file[g].cert, claimed |-> c, bundle |-> file[g].bundle[c]]

currentReporterCertificate(k, cert) == Live(k) /\ row[k].cert = cert

\* A claim is accepted from the current certificate of a live row, about the
\* bundle that is published now; a leaf claim also needs its own issuer in it.
validateTrustStateConfirmation(q) ==
  /\ currentReporterCertificate(q.id, q.cert)
  /\ q.bundle = trustBundleFromSnapshot(rot[q.claimed])
  /\ q.claimed = ClassOf(q.id) => verifiedLeafIssuer(q.cert, q.bundle.roots)

RecordValidatedTrustConfirmation(q) ==
  IF q.claimed = ClassOf(q.id) THEN LeafReceipt(q.id, q.cert, q.bundle.gen)
                               ELSE ConsumerReceipt(q.id, q.cert, q.bundle)

\* Recording is idempotent: the events are a set.
ConfirmTrustState(claims) ==
  receipts' = receipts \cup {RecordValidatedTrustConfirmation(q) : q \in claims}

\* One pending claim of an agent; the acknowledgement may be lost.  A rejected
\* claim changes nothing and stays pending.
ConfirmAgentTrustState(a, c) ==
  /\ file[a] # Absent /\ c \in pend[a]
  /\ validateTrustStateConfirmation(pendingTrustRequest(a, c))
  /\ ConfirmTrustState({pendingTrustRequest(a, c)})
  /\ \/ pend' = [pend EXCEPT ![a] = @ \ {c}]
     \/ UNCHANGED pend
  /\ UNCHANGED <<rot, row, file, seal, answer>>

\* A gateway sends all its claims, a request for each, and clears them only when
\* all are accepted.  (Here the server answers both in one step; an answer to the
\* second after other steps records the same receipts as two attempts do.)
\* Its claim about the agent class is also refused when the revocation list it
\* names is not between the required and the published one.
ConfirmGatewayTrustState(g) ==
  /\ file[g] # Absent /\ pend[g] # {}
  /\ LET claims == {gatewayPendingRequest(g, c) : c \in pend[g]}
         valid == {q \in claims : validateTrustStateConfirmation(q)}
     IN \E accepted \in {valid, {q \in valid : q.claimed = "gateway"}} :
          /\ ConfirmTrustState(accepted)
          /\ \/ accepted = claims /\ pend' = [pend EXCEPT ![g] = {}]
             \/ UNCHANGED pend
  /\ UNCHANGED <<rot, row, file, seal, answer>>

\* The receipt names the generation and revision of the snapshot it was made
\* from.  One that is recorded after a transition (the snapshot is read before
\* the fence is taken) names a state that never returns: it confirms nothing
\* that the receipt recorded at once would not.
ConfirmControlTrustState ==
  /\ receipts' = receipts \cup {ControlReceipt(trustBundleFromSnapshot(rot["gateway"]))}
  /\ UNCHANGED <<rot, row, file, pend, seal, answer>>

-----------------------------------------------------------------------------
(* The rotation operator *)

HasControlTrustConfirmation(bundle) == ControlReceipt(bundle) \in receipts

MutHasConsumerTrustState(k, bundle) ==
  \E r \in receipts : /\ r.kind = "consumer" /\ r.id = k /\ r.cert = row[k].cert
                      /\ r.bundle.gen = bundle.gen

HasConsumerTrustState(k, bundle) ==
  ConsumerReceipt(k, row[k].cert, bundle) \in receipts

ListActiveTrustConsumers(c) == {k \in Members(Opposite(c)) : Live(k)}

ActiveTrustConsumers(c) == ListActiveTrustConsumers(c)

requireConsumerConfirmations(c) ==
  LET bundle == trustBundleFromSnapshot(rot[c])
  IN /\ \A k \in ActiveTrustConsumers(c) : HasConsumerTrustState(k, bundle)
     /\ c = "gateway" => HasControlTrustConfirmation(bundle)

hasLeafTrustConfirmation(k, c) == LeafReceipt(k, row[k].cert, rot[c].gen) \in receipts

MutClassifyAnyIssuer(k, c) ==
  CASE row[k].state = "revoked" -> "revoked"
    [] row[k].state # "revoked" /\ hasLeafTrustConfirmation(k, c) -> "successor_confirmed"
    [] OTHER -> "current_issued"

MutClassifyUnconfirmed(k, c) ==
  CASE row[k].state = "revoked" -> "revoked"
    [] row[k].state # "revoked" /\ row[k].cert.iss = rot[c].succ -> "successor_confirmed"
    [] OTHER -> "current_issued"

\* The migration report counts a leaf as migrated when its stored certificate
\* is issued by the successor and that certificate has been confirmed.
classifyCAMigrationEntry(k, c) ==
  IF row[k].state = "revoked" THEN "revoked"
  ELSE IF row[k].cert.iss = rot[c].succ
       THEN IF hasLeafTrustConfirmation(k, c)
            THEN "successor_confirmed" ELSE "successor_issued"
       ELSE IF row[k].cert.iss = rot[c].cur
            THEN "current_issued" ELSE "invalid_issuer_signature"

ListCAMigrationReportEntries(c) == {k \in Members(c) : Exists(row[k])}

\* All pages of the report: the exclusive fence keeps certificates from being
\* issued between two of them.
CAMigrationReport(c) ==
  [k \in ListCAMigrationReportEntries(c) |-> classifyCAMigrationEntry(k, c)]

requireLeafMigration(c) ==
  LET report == CAMigrationReport(c)
  IN \A k \in DOMAIN report : report[k] \in {"successor_confirmed", "revoked"}

\* The event of the class's stream and its row; the stream's version is pinned.
projectCARotationState(c, next) == rot' = [rot EXCEPT ![c] = next]

Transition(c, next) ==
  /\ validateCARotationState(next)
  /\ projectCARotationState(c, next)
  /\ UNCHANGED <<row, receipts, file, pend, seal, answer>>

BeginTrust(c, root) ==
  /\ CanBegin(rot[c], root)
  /\ rot["agent"].gen + rot["gateway"].gen < 2 + MaxRotations
  /\ Transition(c, TrustState(rot[c], root))

Abort(c) == CanAbort(rot[c]) /\ Transition(c, AbortState(rot[c]))

Migrate(c) ==
  /\ CanMigrate(rot[c]) /\ requireConsumerConfirmations(c)
  /\ Transition(c, MigrateState(rot[c]))

Retire(c) ==
  /\ CanRetire(rot[c]) /\ requireLeafMigration(c)
  /\ Transition(c, RetireState(rot[c]))

Normalize(c) ==
  /\ CanNormalize(rot[c]) /\ requireConsumerConfirmations(c)
  /\ Transition(c, NormalState(rot[c]))

-----------------------------------------------------------------------------
(* The clients *)

\* A new agent stores its credentials with both confirmations pending.
AdoptAgentEnrollment(a) ==
  /\ answer[a] # Absent /\ file[a] = Absent
  /\ \A c \in Classes : storedTrustBundle(NoBundle, answer[a].bundle[c])
  /\ \E root \in selectIssuingRoot(answer[a].cert, answer[a].bundle["agent"]) :
       /\ validateEnrollmentResponse(answer[a].cert, root)
       /\ file' = [file EXCEPT ![a] = CredentialBundle(answer[a], root)]
  /\ pend' = [pend EXCEPT ![a] = Classes]
  /\ answer' = [answer EXCEPT ![a] = Absent]
  /\ UNCHANGED <<rot, row, receipts, seal>>

\* A new gateway publishes its identity with none.
AdoptGatewayEnrollment(g) ==
  /\ answer[g] # Absent /\ file[g] = Absent
  /\ \A c \in Classes : gatewayStoredTrustBundle(NoBundle, answer[g].bundle[c])
  /\ \E root \in RootSet(answer[g].bundle["gateway"].roots) :
       /\ validateGatewayEnrollmentResponse(answer[g].cert, root)
       /\ file' = [file EXCEPT ![g] = CredentialBundle(answer[g], root)]
  /\ answer' = [answer EXCEPT ![g] = Absent]
  /\ UNCHANGED <<rot, row, receipts, pend, seal>>

\* An answer is adopted when both bundles continue the stored ones.  A renewed
\* agent confirms its own class always, the other one only if that bundle
\* changed.
AdoptAgentRenewal(a) ==
  /\ answer[a] # Absent /\ file[a] # Absent
  /\ \A c \in Classes : storedTrustBundle(file[a].bundle[c], answer[a].bundle[c])
  /\ \E root \in selectIssuingRoot(answer[a].cert, answer[a].bundle["agent"]) :
       /\ validateEnrollmentResponse(answer[a].cert, root)
       /\ file' = [file EXCEPT ![a] = CredentialBundle(answer[a], root)]
  /\ pend' = [pend EXCEPT ![a] =
       {"agent"} \cup {c \in {"gateway"} :
          ~equalStoredTrustBundles(file[a].bundle[c], answer[a].bundle[c])}]
  /\ seal' = [seal EXCEPT ![a] = "none"]
  /\ answer' = [answer EXCEPT ![a] = Absent]
  /\ UNCHANGED <<rot, row, receipts>>

\* A renewed gateway confirms both classes.
AdoptGatewayRenewal(g) ==
  /\ answer[g] # Absent /\ file[g] # Absent
  /\ \A c \in Classes : gatewayStoredTrustBundle(file[g].bundle[c], answer[g].bundle[c])
  /\ \E root \in validateRenewedGatewayCertificate(answer[g].cert, answer[g].bundle["gateway"]) :
       file' = [file EXCEPT ![g] = CredentialBundle(answer[g], root)]
  /\ pend' = [pend EXCEPT ![g] = Classes]
  /\ answer' = [answer EXCEPT ![g] = Absent]
  /\ UNCHANGED <<rot, row, receipts, seal>>

\* The answer is lost on the way, or refused and dropped by the client.
LoseAnswer(k) ==
  /\ answer[k] # Absent
  /\ answer' = [answer EXCEPT ![k] = Absent]
  /\ UNCHANGED <<rot, row, receipts, file, pend, seal>>

\* An agent process restarts: its file survives, its memory does not.
RestartAgent(a) ==
  /\ seal[a] # "none" \/ answer[a] # Absent
  /\ seal' = [seal EXCEPT ![a] = "none"]
  /\ answer' = [answer EXCEPT ![a] = Absent]
  /\ UNCHANGED <<rot, row, receipts, file, pend>>

\* A gateway's identity lives in its process and goes with it; the row stays
\* until it is revoked, and the gateway enrolls as a new identity.
RestartGateway(g) ==
  /\ file[g] # Absent
  /\ file' = [file EXCEPT ![g] = Absent]
  /\ pend' = [pend EXCEPT ![g] = {}]
  /\ answer' = [answer EXCEPT ![g] = Absent]
  /\ UNCHANGED <<rot, row, receipts, seal>>

-----------------------------------------------------------------------------

Operator ==
  \E c \in Classes :
    \/ \E root \in Roots : BeginTrust(c, root)
    \/ Abort(c) \/ Migrate(c) \/ Retire(c) \/ Normalize(c)

AgentStep(a) ==
  \/ EnrollAgent(a) \/ RenewAgent(a)
  \/ AdoptAgentEnrollment(a) \/ AdoptAgentRenewal(a) \/ LoseAnswer(a) \/ RestartAgent(a)
  \/ \E c \in Classes : ConfirmAgentTrustState(a, c)
  \/ RevokeAgent(a) \/ ForceRenewAgent(a) \/ DeleteDevice(a) \/ ChangeDeviceOwner(a)

GatewayStep(g) ==
  \/ EnrollGateway(g) \/ RenewGateway(g)
  \/ AdoptGatewayEnrollment(g) \/ AdoptGatewayRenewal(g) \/ LoseAnswer(g) \/ RestartGateway(g)
  \/ ConfirmGatewayTrustState(g)
  \/ RevokeGateway(g)

Next ==
  \/ Operator
  \/ ConfirmControlTrustState
  \/ \E a \in Agents : AgentStep(a)
  \/ \E g \in Gateways : GatewayStep(g)

Spec == Init /\ [][Next]_vars

-----------------------------------------------------------------------------
(* Properties *)

\* Outside migrate, every live identity's current certificate is issued by the
\* root its class issues from: Retire (rotation.go) leaves no leaf of the
\* predecessor behind, and an abort never leaves one of the successor.
LeavesFollowIssuer ==
  \A c \in Classes : rot[c].phase # "migrate" =>
    \A k \in Members(c) : Live(k) => row[k].cert.iss = IssuingRoot(rot[c])

\* In stable and in migrate every live client of the opposite class that still
\* runs holds exactly the published bundle: the confirmations that
\* requireConsumerConfirmations counts stand for what clients have stored,
\* through lost answers, replays, restarts and renewals in between.
InstalledTrust ==
  \A c \in Classes : rot[c].phase \in {"stable", "migrate"} =>
    \A k \in ActiveTrustConsumers(c) :
      file[k] # Absent => file[k].bundle[c] = trustBundleFromSnapshot(rot[c])

\* Rotation never separates the fleet: whatever certificate a live leaf has in
\* its file, the bundle in the file of every live client of the other class
\* contains its issuer.
TrustCoversLeaves ==
  \A c \in Classes : \A l \in Members(c), k \in Members(Opposite(c)) :
    Live(l) /\ Live(k) /\ file[l] # Absent /\ file[k] # Absent =>
      file[l].cert.iss \in RootSet(file[k].bundle[c].roots)
=============================================================================
