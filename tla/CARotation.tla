----------------------------- MODULE CARotation -----------------------------
(***************************************************************************)
(* The durable CA rotation state of one certificate class, as a value: the *)
(* phase graph stable -> trust -> migrate -> retire -> stable (with the    *)
(* abort trust -> trust -> stable), what a phase publishes and issues      *)
(* from, and the continuity rule by which agents and gateways accept the   *)
(* next published bundle.  Certificates and transition proofs are reduced  *)
(* to the roots they name: a transition proof is a certificate for one     *)
(* root's key that another root has signed.                                *)
(***************************************************************************)
EXTENDS Naturals, Sequences

CONSTANTS Roots,      \* self-signed CA certificates
          NoRoot      \* an absent root

ASSUME RootsAssumption == NoRoot \notin Roots

\* The proof that <<current, successor>> is the order of the roots.
TransitionProof(current, successor) == <<current, successor>>
NoProof == <<NoRoot, NoRoot>>

\* A state holds the phase, the generation and revision of its bundle, the
\* current root, the successor with its transition proof and the discarded
\* successor of an abort.
\* Before the first rotation event of a class there is no row, and its
\* configured authority is generation 1, revision 1, stable.
ConfiguredState(root) ==
  [phase |-> "stable", gen |-> 1, rev |-> 1,
   cur |-> root, succ |-> NoRoot, disc |-> NoRoot, proof |-> NoProof]

CARotationStates ==
  [phase : {"stable", "trust", "migrate", "retire"}, gen : Nat, rev : Nat, cur : Roots,
   succ : Roots \cup {NoRoot}, disc : Roots \cup {NoRoot},
   proof : (Roots \cup {NoRoot}) \X (Roots \cup {NoRoot})]

\* What the store accepts as a durable state.
validateCARotationState(s) ==
  /\ s.gen >= 1 /\ s.rev >= 1
  /\ s.phase = "stable" => s.succ = NoRoot /\ s.disc = NoRoot /\ s.proof = NoProof
  /\ s.phase = "trust" => s.succ # NoRoot \/ s.disc # NoRoot
  /\ s.phase \in {"migrate", "retire"} => s.succ # NoRoot
  /\ s.phase = "migrate" => s.proof # NoProof

DesiredRoots(s) ==
  CASE s.phase = "retire" -> <<s.succ>>
    [] s.phase # "retire" /\ s.succ # NoRoot -> <<s.cur, s.succ>>
    [] OTHER -> <<s.cur>>

IssuingRoot(s) == IF s.phase \in {"migrate", "retire"} THEN s.succ ELSE s.cur

trustBundleFromSnapshot(s) ==
  [gen |-> s.gen, rev |-> s.rev, roots |-> DesiredRoots(s), proof |-> s.proof]

-----------------------------------------------------------------------------
(* The transitions the rotation manager commits, as functions of the state *)
(* it read under the exclusive fence.                                      *)

TrustState(s, root) ==
  [s EXCEPT !.phase = "trust", !.gen = @ + 1, !.rev = 1,
            !.succ = root, !.disc = NoRoot, !.proof = TransitionProof(s.cur, root)]

AbortState(s) == [s EXCEPT !.rev = @ + 1, !.succ = NoRoot, !.disc = s.succ,
                             !.proof = NoProof]

MigrateState(s) == [s EXCEPT !.phase = "migrate"]

RetireState(s) == [s EXCEPT !.phase = "retire", !.rev = @ + 1, !.proof = NoProof]

NormalState(s) ==
  [s EXCEPT !.phase = "stable", !.cur = IF s.phase = "retire" THEN s.succ ELSE @,
            !.succ = NoRoot, !.disc = NoRoot, !.proof = NoProof]

\* The operator hands over a self-signed successor that is another root than
\* the current one, its signer, and the proof the current root issued for it.
validateRotationSuccessor(current, successor, proof) ==
  /\ successor \in Roots /\ successor # current
  /\ proof = TransitionProof(current, successor)

CanBegin(s, root) ==
  s.phase = "stable" /\ validateRotationSuccessor(s.cur, root, TransitionProof(s.cur, root))
CanAbort(s) == s.phase = "trust" /\ s.succ # NoRoot
CanMigrate(s) == s.phase = "trust" /\ s.succ # NoRoot
CanRetire(s) == s.phase = "migrate"
CanNormalize(s) == \/ s.phase = "retire"
                   \/ s.phase = "trust" /\ s.disc # NoRoot

-----------------------------------------------------------------------------
(* Certificates and bundles *)

\* A certificate is its serial and issuer; a root verifies what it issued.
RootSet(roots) == {roots[i] : i \in DOMAIN roots}
verifiedLeafIssuer(cert, roots) == cert.iss \in RootSet(roots)
verifiedCertificateIssuerRoot(cert, roots) == verifiedLeafIssuer(cert, roots)

\* The root of the bundle that issued the certificate, if there is one.
selectIssuingRoot(cert, bundle) == {root \in RootSet(bundle.roots) : cert.iss = root}

equalStoredTrustBundles(b, n) == b = n

\* What a client without credentials holds.
NoBundle == [gen |-> 0, rev |-> 0, roots |-> <<>>, proof |-> NoProof]

\* A self-signed CA certificate, valid now.
parseContinuityRoot(root) == root \in Roots

\* The proof names the successor's key, which is a new one, and the current
\* root signed it: it shows one order of the two roots only.
validateTransitionProof(current, successor, proof) ==
  current # successor /\ proof = TransitionProof(current, successor)

\* One or two distinct roots; exactly two of them come with a proof.
IsBundle(n) ==
  /\ n.gen >= 1 /\ n.rev >= 1
  /\ Len(n.roots) \in 1..2
  /\ \A i \in 1..Len(n.roots) : parseContinuityRoot(n.roots[i])
  /\ Len(n.roots) = 1 => n.proof = NoProof
  /\ Len(n.roots) = 2 => validateTransitionProof(n.roots[1], n.roots[2], n.proof)

\* The continuity rule: may a client holding bundle b adopt bundle n?  A new
\* generation adds a root that the last root held vouches for; a new revision
\* prunes to one root already held; a version is never reused.
Continues(b, n) ==
  b.gen # 0 =>
    \/ equalStoredTrustBundles(b, n)
    \/ /\ n.gen > b.gen
       /\ Len(n.roots) = 2
       /\ n.roots[1] = b.roots[Len(b.roots)]
    \/ /\ n.gen = b.gen /\ n.rev > b.rev
       /\ Len(n.roots) = 1
       /\ n.roots[1] \in RootSet(b.roots)

validateTrustBundle(b, n) == IsBundle(n) /\ Continues(b, n)

storedTrustBundle(b, n) == validateTrustBundle(b, n)

\* The agent's credentials: its certificate, the root it keeps as certificate
\* authority, and a bundle per class.  The certificate is checked against that
\* authority, both bundles must stand by themselves, and the two authorities it
\* keeps must be roots of their bundles (the gateway one is the bundle's first).
CredentialBundle(answer, root) ==
  [cert |-> answer.cert, authority |-> root, bundle |-> answer.bundle]

validateEnrollmentResponse(cert, authority) ==
  parseContinuityRoot(authority) /\ cert.iss = authority

validateGatewayTrustAnchor(bundle) == parseContinuityRoot(bundle.roots[1])

validateCredentialContinuity(f) ==
  /\ \A c \in DOMAIN f.bundle : validateTrustBundle(NoBundle, f.bundle[c])
  /\ f.authority \in RootSet(f.bundle["agent"].roots)

validateStoredCredentialBundle(f) ==
  /\ parseContinuityRoot(f.authority) /\ f.cert.iss = f.authority
  /\ validateGatewayTrustAnchor(f.bundle["gateway"])
  /\ validateCredentialContinuity(f)

\* The gateway has the same rules in code of its own, for an identity that it
\* keeps in memory.
parseGatewayContinuityRoot(root) == parseContinuityRoot(root)
validateGatewayTransitionProof(current, successor, proof) ==
  current # successor /\ proof = TransitionProof(current, successor)

IsGatewayBundle(n) ==
  /\ n.gen >= 1 /\ n.rev >= 1
  /\ Len(n.roots) \in 1..2
  /\ \A i \in 1..Len(n.roots) : parseGatewayContinuityRoot(n.roots[i])
  /\ Len(n.roots) = 1 => n.proof = NoProof
  /\ Len(n.roots) = 2 => validateGatewayTransitionProof(n.roots[1], n.roots[2], n.proof)

validateGatewayTrustBundle(b, n) == IsGatewayBundle(n) /\ Continues(b, n)
gatewayStoredTrustBundle(b, n) == validateGatewayTrustBundle(b, n)

validateGatewayEnrollmentResponse(cert, authority) ==
  parseGatewayContinuityRoot(authority) /\ cert.iss = authority

validateCurrentGatewayIdentity(f) ==
  /\ validateGatewayEnrollmentResponse(f.cert, f.authority)
  /\ \A c \in DOMAIN f.bundle : validateGatewayTrustBundle(NoBundle, f.bundle[c])

\* The root of the published gateway bundle that issued the renewed certificate.
validateRenewedGatewayCertificate(cert, bundle) == selectIssuingRoot(cert, bundle)
=============================================================================
