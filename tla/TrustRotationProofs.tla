------------------------ MODULE TrustRotationProofs -------------------------
(***************************************************************************)
(* The theorems about TrustRotation, for any fleet and any number of       *)
(* rotations and certificates.  The invariant explains why the operator's  *)
(* receipts can be trusted: a receipt for the certificate that a row has   *)
(* now was given by a client that holds this certificate, has no answer on *)
(* its way, and so still holds the bundle it reported.  From this follows  *)
(* which bundles a live client can hold, be sent or be sent again in a     *)
(* phase (Covers), and which roots have issued the leaves (Issuers).       *)
(***************************************************************************)
EXTENDS TrustRotation, TLAPS

TypeOK ==
  /\ rot \in [Classes -> CARotationStates]
  /\ row \in [Ids -> IdentityRows \cup {Absent, Deleted}]
  /\ DOMAIN file = Ids /\ DOMAIN answer = Ids

\* What the phases have in common with the checks of validateCARotationState.
RotOK(s) ==
  /\ validateCARotationState(s)
  /\ s.phase = "retire" => s.proof = NoProof
  /\ s.phase = "trust" /\ s.disc # NoRoot => s.succ = NoRoot /\ s.proof = NoProof

\* The roots that have issued the certificates of live leaves.
Issuers(s) == IF s.phase = "migrate" THEN {s.cur, s.succ} ELSE {IssuingRoot(s)}

\* A bundle that a live client of the opposite class may have in a phase.
Covers(b, s) ==
  /\ s.phase \in {"stable", "migrate"} => b = trustBundleFromSnapshot(s)
  /\ s.phase = "trust" => s.cur \in RootSet(b.roots)
  /\ s.phase = "retire" => s.succ \in RootSet(b.roots)

RowOK(k) == Exists(row[k]) => row[k].prev # row[k].cert

\* A client that has not adopted its row's certificate lags behind.
Lags(k) == file[k] # Absent /\ file[k].cert # row[k].cert

AnswerOK(k) ==
  answer[k] # Absent /\ Exists(row[k]) =>
    answer[k].cert = row[k].cert /\ (file[k] # Absent => Lags(k))

HeldOK(k) ==
  LET c == Opposite(ClassOf(k))
  IN  Live(k) =>
        /\ file[k] # Absent => Covers(file[k].bundle[c], rot[c])
        /\ answer[k] # Absent => Covers(answer[k].bundle[c], rot[c])
        /\ Lags(k) => Covers(trustBundleFromSnapshot(row[k].at[c]), rot[c])

LeafOK(k) ==
  LET issuers == Issuers(rot[ClassOf(k)])
  IN  Live(k) => row[k].cert.iss \in issuers /\ (file[k] # Absent => file[k].cert.iss \in issuers)

IdOK(k) == RowOK(k) /\ AnswerOK(k) /\ HeldOK(k) /\ LeafOK(k)

\* A receipt for the current certificate says what the client still has.
ReceiptOK(r) ==
  r.kind \in {"leaf", "consumer"} =>
    /\ r.id \in Ids /\ row[r.id] # Absent
    /\ Exists(row[r.id]) => r.cert \in Certificates /\ r.cert.n <= row[r.id].cert.n
    /\ Exists(row[r.id]) /\ r.cert = row[r.id].cert =>
         /\ answer[r.id] = Absent
         /\ file[r.id] # Absent =>
              /\ file[r.id].cert = r.cert
              /\ r.kind = "consumer" => r.bundle = file[r.id].bundle[Opposite(ClassOf(r.id))]

IInv ==
  /\ TypeOK
  /\ \A c \in Classes : RotOK(rot[c])
  /\ \A k \in Ids : IdOK(k)
  /\ \A r \in receipts : ReceiptOK(r)

-----------------------------------------------------------------------------
(* Classes, bundles and roots *)

\* Agents and gateways are the two classes, each the consumer of the other.
LEMMA ClassFacts ==
  /\ \A c \in Classes : Opposite(c) \in Classes /\ Opposite(Opposite(c)) = c /\ Opposite(c) # c
  /\ \A k \in Ids : ClassOf(k) \in Classes /\ k \in Members(ClassOf(k))
  /\ \A c \in Classes : \A k \in Members(c) : k \in Ids /\ ClassOf(k) = c
  /\ \A a \in Agents : a \in Ids /\ ClassOf(a) = "agent"
  /\ \A g \in Gateways : g \in Ids /\ ClassOf(g) = "gateway"
BY TrustAssumption, Zenon DEF Classes, Opposite, ClassOf, Members, Ids

\* The roots of a bundle of one and of two.
LEMMA RootSets ==
  ASSUME NEW a, NEW b
  PROVE  RootSet(<<a>>) = {a} /\ RootSet(<<a, b>>) = {a, b}
<1>1. DOMAIN <<a>> = {1} /\ DOMAIN <<a, b>> = {1, 2}
  OBVIOUS
<1> QED BY <1>1 DEF RootSet

\* What a state publishes contains what it issues from, and a client that holds it is in order.
LEMMA Published ==
  ASSUME NEW s \in CARotationStates, RotOK(s)
  PROVE  /\ Covers(trustBundleFromSnapshot(s), s)
         /\ IssuingRoot(s) \in Issuers(s) /\ IssuingRoot(s) \in Roots
         /\ Issuers(s) \subseteq RootSet(trustBundleFromSnapshot(s).roots)
<1>1. trustBundleFromSnapshot(s).roots = DesiredRoots(s)
  BY Zenon DEF trustBundleFromSnapshot
<1>r. /\ RootSet(<<s.cur>>) = {s.cur} /\ RootSet(<<s.succ>>) = {s.succ}
      /\ RootSet(<<s.cur, s.succ>>) = {s.cur, s.succ}
  BY RootSets, Zenon
<1>s. s.cur \in Roots /\ (s.succ # NoRoot => s.succ \in Roots)
  BY Zenon DEF CARotationStates
<1>2. CASE s.phase = "stable"
  <2>1. DesiredRoots(s) = <<s.cur>>
    BY <1>2, Zenon DEF DesiredRoots, RotOK, validateCARotationState
  <2>2. RootSet(DesiredRoots(s)) = {s.cur} /\ IssuingRoot(s) = s.cur /\ Issuers(s) = {s.cur}
    BY <1>r, <1>2, <2>1, Zenon DEF IssuingRoot, Issuers
  <2> QED BY <1>1, <1>s, <1>2, <2>2, Zenon DEF Covers
<1>3. CASE s.phase = "trust"
  <2>1. s.cur \in RootSet(DesiredRoots(s))
    <3>1. CASE s.succ = NoRoot
      <4>1. DesiredRoots(s) = <<s.cur>>
        BY <1>3, <3>1, Zenon DEF DesiredRoots
      <4> QED BY <4>1, <1>r, Zenon
    <3>2. CASE s.succ # NoRoot
      <4>1. DesiredRoots(s) = <<s.cur, s.succ>>
        BY <1>3, <3>2, Zenon DEF DesiredRoots
      <4> QED BY <4>1, <1>r, Zenon
    <3> QED BY <3>1, <3>2, Zenon
  <2>2. IssuingRoot(s) = s.cur /\ Issuers(s) = {s.cur}
    BY <1>3, Zenon DEF IssuingRoot, Issuers
  <2> QED BY <1>1, <1>s, <1>3, <2>1, <2>2, Zenon DEF Covers
<1>4. CASE s.phase = "migrate"
  <2>1. DesiredRoots(s) = <<s.cur, s.succ>> /\ s.succ # NoRoot
    BY <1>4, Zenon DEF DesiredRoots, RotOK, validateCARotationState
  <2>2. /\ RootSet(DesiredRoots(s)) = {s.cur, s.succ}
        /\ IssuingRoot(s) = s.succ /\ Issuers(s) = {s.cur, s.succ}
    BY <1>r, <1>4, <2>1, Zenon DEF IssuingRoot, Issuers
  <2> QED BY <1>1, <1>s, <1>4, <2>1, <2>2, Zenon DEF Covers
<1>5. CASE s.phase = "retire"
  <2>1. DesiredRoots(s) = <<s.succ>> /\ s.succ # NoRoot
    BY <1>5, Zenon DEF DesiredRoots, RotOK, validateCARotationState
  <2>2. RootSet(DesiredRoots(s)) = {s.succ} /\ IssuingRoot(s) = s.succ /\ Issuers(s) = {s.succ}
    BY <1>r, <1>5, <2>1, Zenon DEF IssuingRoot, Issuers
  <2> QED BY <1>1, <1>s, <1>5, <2>1, <2>2, Zenon DEF Covers
<1> QED BY <1>2, <1>3, <1>4, <1>5, Zenon DEF CARotationStates

\* A row that exists is not absent.
LEMMA RowValues == \A r \in IdentityRows : Exists(r) /\ r # Absent
BY TrustAssumption, Zenon DEF Exists

\* Where a row exists, it and its certificate have their types.
LEMMA RowTypes ==
  ASSUME TypeOK, NEW k \in Ids, Exists(row[k])
  PROVE  row[k] \in IdentityRows /\ row[k].cert \in Certificates
BY Zenon DEF TypeOK, Exists, IdentityRows

-----------------------------------------------------------------------------
(* A step of one identity leaves the others alone *)

\* A step of one identity has to keep that identity and its receipts in order only.
LEMMA IdentityStep ==
  ASSUME IInv, NEW k \in Ids, UNCHANGED rot, TypeOK',
         \A j \in Ids \ {k} : row'[j] = row[j] /\ file'[j] = file[j] /\ answer'[j] = answer[j],
         IdOK(k)',
         \A r \in receipts' : r.kind \in {"leaf", "consumer"} =>
           (r.id # k /\ r \in receipts) \/ ReceiptOK(r)'
  PROVE  IInv'
<1>1. \A j \in Ids \ {k} : IdOK(j)'
  <2> SUFFICES ASSUME NEW j \in Ids \ {k} PROVE IdOK(j)'
    BY Zenon
  <2>1. IdOK(j)
    BY Zenon DEF IInv
  <2>2. row'[j] = row[j] /\ file'[j] = file[j] /\ answer'[j] = answer[j] /\ rot' = rot
    BY Zenon
  <2> QED BY ONLY <2>1, <2>2, Zenon DEF IdOK, RowOK, AnswerOK, HeldOK, LeafOK, Lags, Live
<1>2. \A r \in receipts' : ReceiptOK(r)'
  <2> SUFFICES ASSUME NEW r \in receipts', r.kind \in {"leaf", "consumer"},
                      r.id # k, r \in receipts
               PROVE  ReceiptOK(r)'
    BY Zenon DEF ReceiptOK
  <2>1. ReceiptOK(r) /\ r.id \in Ids \ {k}
    BY Zenon DEF IInv, ReceiptOK
  <2>2. /\ row'[r.id] = row[r.id] /\ file'[r.id] = file[r.id]
        /\ answer'[r.id] = answer[r.id]
    BY <2>1, Zenon
  <2> QED BY ONLY <2>1, <2>2, Zenon DEF ReceiptOK
<1>3. \A c \in Classes : RotOK(rot[c])'
  BY Zenon DEF IInv
<1> QED BY <1>1, <1>2, <1>3, Zenon DEF IInv

-----------------------------------------------------------------------------
(* The server's steps for one identity *)

\* The issuing root of a class, and the bundle that it publishes of another.
LEMMA Issued ==
  ASSUME IInv, NEW k \in Ids, NEW n \in Nat, NEW cert,
         cert = [n |-> n, iss |-> currentAuthority(ClassOf(k))]
  PROVE  /\ cert \in Certificates /\ cert.n = n /\ cert.iss \in Issuers(rot[ClassOf(k)])
         /\ LET c == Opposite(ClassOf(k))
            IN  /\ Bundles(rot)[c] = trustBundleFromSnapshot(rot[c])
                /\ Covers(trustBundleFromSnapshot(rot[c]), rot[c])
<1>1. ClassOf(k) \in Classes /\ Opposite(ClassOf(k)) \in Classes
  BY ClassFacts, Zenon
<1>2. \A c \in Classes : rot[c] \in CARotationStates /\ RotOK(rot[c])
  BY Zenon DEF IInv, TypeOK
<1> QED BY <1>1, <1>2, Published, Zenon DEF currentAuthority, Certificates, Bundles

\* The first certificate of an identity, and the answer that carries it.
LEMMA EnrollInv ==
  ASSUME IInv, NEW k \in Ids, NEW cert, cert = [n |-> 1, iss |-> currentAuthority(ClassOf(k))],
         row[k] = Absent, file[k] = Absent,
         row' = [row EXCEPT ![k] = [cert |-> cert, prev |-> Absent, state |-> "active", at |-> rot]],
         answer' = [answer EXCEPT ![k] = [cert |-> cert, bundle |-> Bundles(rot)]],
         UNCHANGED <<rot, receipts, file>>
  PROVE  IInv'
<1> DEFINE r == [cert |-> cert, prev |-> Absent, state |-> "active", at |-> rot]
           c == Opposite(ClassOf(k))
<1>1. /\ cert \in Certificates /\ cert.iss \in Issuers(rot[ClassOf(k)])
      /\ Bundles(rot)[c] = trustBundleFromSnapshot(rot[c])
      /\ Covers(trustBundleFromSnapshot(rot[c]), rot[c])
  BY Issued, 1 \in Nat
<1>2. r \in IdentityRows /\ Exists(r)
  <2>1. r \in IdentityRows
    BY <1>1, Zenon DEF IInv, TypeOK, IdentityRows
  <2> QED BY <2>1, RowValues, Zenon
<1>3. /\ r.cert = cert /\ r.prev = Absent /\ r.state = "active" /\ r.at = rot
  BY Zenon
<1> HIDE DEF r
<1>4. /\ row'[k] = r /\ file'[k] = Absent
      /\ answer'[k].cert = cert /\ answer'[k].bundle = Bundles(rot)
      /\ \A j \in Ids \ {k} : row'[j] = row[j] /\ file'[j] = file[j] /\ answer'[j] = answer[j]
  BY Zenon DEF IInv, TypeOK, r
<1>5. TypeOK'
  BY <1>2, Zenon DEF IInv, TypeOK, r
<1>6. RowOK(k)'
  BY <1>1, <1>2, <1>3, <1>4, TrustAssumption DEF RowOK
<1>7. IdOK(k)'
  <2>1. AnswerOK(k)' /\ LeafOK(k)'
    BY <1>1, <1>3, <1>4, Zenon DEF AnswerOK, LeafOK
  <2>2. HeldOK(k)'
    BY <1>1, <1>4, Zenon DEF HeldOK, Lags
  <2> QED BY <1>6, <2>1, <2>2, Zenon DEF IdOK
<1>8. \A x \in receipts' : x.kind \in {"leaf", "consumer"} => x.id # k /\ x \in receipts
  BY Zenon DEF IInv, ReceiptOK
<1> QED BY <1>4, <1>5, <1>7, <1>8, IdentityStep, Zenon

\* A new certificate has no receipts yet, and the client lags behind until it has the answer.
LEMMA RenewInv ==
  ASSUME IInv, NEW k \in Ids, NEW cert,
         cert = [n |-> row[k].cert.n + 1, iss |-> currentAuthority(ClassOf(k))],
         Live(k), file[k] # Absent, file[k].cert = row[k].cert, answer[k] = Absent,
         NEW r \in IdentityRows, r.cert = cert, r.prev = file[k].cert, r.state = "active",
         r.at = rot, row' = [row EXCEPT ![k] = r],
         answer' = [answer EXCEPT ![k] = [cert |-> cert, bundle |-> Bundles(rot)]],
         UNCHANGED <<rot, receipts, file>>
  PROVE  IInv'
<1> DEFINE c == Opposite(ClassOf(k))
<1>1. row[k].cert \in Certificates /\ Exists(row[k])
  BY RowTypes, Zenon DEF IInv, Live
<1>2. row[k].cert.n \in Nat /\ row[k].cert.n + 1 \in Nat
  BY <1>1 DEF Certificates
<1>3. /\ cert \in Certificates /\ cert.n = row[k].cert.n + 1 /\ cert.iss \in Issuers(rot[ClassOf(k)])
      /\ Bundles(rot)[c] = trustBundleFromSnapshot(rot[c])
      /\ Covers(trustBundleFromSnapshot(rot[c]), rot[c])
  BY <1>2, Issued, Zenon
<1>4. cert # row[k].cert
  BY <1>2, <1>3
<1>5. /\ row'[k] = r /\ file'[k] = file[k]
      /\ answer'[k].cert = cert /\ answer'[k].bundle = Bundles(rot)
      /\ \A j \in Ids \ {k} : row'[j] = row[j] /\ file'[j] = file[j] /\ answer'[j] = answer[j]
  BY Zenon DEF IInv, TypeOK
<1>6. TypeOK'
  BY Zenon DEF IInv, TypeOK
<1>7. IdOK(k) /\ Exists(r)
  BY RowValues, Zenon DEF IInv
<1>8. IdOK(k)'
  <2>1. RowOK(k)' /\ AnswerOK(k)'
    BY <1>4, <1>5, <1>7 DEF RowOK, AnswerOK, Lags
  <2>2. LeafOK(k)'
    BY <1>3, <1>5, <1>7, Zenon DEF IdOK, LeafOK
  <2>3. HeldOK(k)'
    BY <1>3, <1>5, <1>7, Zenon DEF IdOK, HeldOK
  <2> QED BY <2>1, <2>2, <2>3, Zenon DEF IdOK
<1>9. \A x \in receipts' : x.kind \in {"leaf", "consumer"} =>
        (x.id # k /\ x \in receipts) \/ ReceiptOK(x)'
  <2> SUFFICES ASSUME NEW x \in receipts, x.kind \in {"leaf", "consumer"}, x.id = k
               PROVE  ReceiptOK(x)'
    BY Zenon
  <2>1. ReceiptOK(x)
    BY Zenon DEF IInv
  <2>2. x.cert \in Certificates /\ x.cert.n <= row[k].cert.n
    BY <1>1, <2>1, Zenon DEF ReceiptOK
  <2>3. x.cert.n \in Nat /\ x.cert.n <= cert.n /\ x.cert # cert
    BY <1>2, <1>3, <2>2 DEF Certificates
  <2> QED BY <1>5, <1>7, <2>2, <2>3 DEF ReceiptOK, Exists
<1> QED BY <1>5, <1>6, <1>8, <1>9, IdentityStep, Zenon

\* The answer of a replay is that of the row's own event; there is no receipt for its certificate.
LEMMA ReplayInv ==
  ASSUME IInv, NEW k \in Ids, Live(k), file[k] # Absent, file[k].cert = row[k].prev, Replay(k),
         UNCHANGED <<rot, receipts, file>>
  PROVE  IInv'
<1> DEFINE c == Opposite(ClassOf(k))
<1>1. /\ row' = row
      /\ answer' = [answer EXCEPT ![k] = [cert |-> row[k].cert, bundle |-> Bundles(row[k].at)]]
  BY Zenon DEF Replay, Answer, snapshotsAtLifecycleEvent, CARotationStatesAtEvent
<1>2. /\ answer'[k].cert = row[k].cert /\ answer'[k].bundle = Bundles(row[k].at)
      /\ \A j \in Ids \ {k} : answer'[j] = answer[j]
  BY <1>1, Zenon DEF IInv, TypeOK
<1>3. Bundles(row[k].at)[c] = trustBundleFromSnapshot(row[k].at[c])
  BY ClassFacts, Zenon DEF Bundles
<1>4. Lags(k) /\ IdOK(k) /\ Exists(row[k])
  BY Zenon DEF IInv, IdOK, RowOK, Lags, Live
<1>5. TypeOK'
  BY <1>1, Zenon DEF IInv, TypeOK
<1>6. Live(k)' /\ Lags(k)'
  BY <1>1, <1>4, Zenon DEF Live, Lags
<1>7. IdOK(k)'
  <2>1. RowOK(k)' /\ AnswerOK(k)' /\ LeafOK(k)'
    BY <1>1, <1>2, <1>4, <1>6, Zenon DEF RowOK, AnswerOK, LeafOK, IdOK, Live
  <2>2. HeldOK(k)'
    BY <1>1, <1>2, <1>3, <1>4, <1>6, Zenon DEF HeldOK, IdOK
  <2> QED BY <2>1, <2>2, Zenon DEF IdOK
<1>8. \A x \in receipts' : x.kind \in {"leaf", "consumer"} =>
        (x.id # k /\ x \in receipts) \/ ReceiptOK(x)'
  <2> SUFFICES ASSUME NEW x \in receipts, x.kind \in {"leaf", "consumer"}, x.id = k
               PROVE  ReceiptOK(x)'
    BY Zenon
  <2>1. ReceiptOK(x)
    BY Zenon DEF IInv
  <2>2. x.cert # row[k].cert
    BY <1>4, <2>1, Zenon DEF ReceiptOK, Lags
  <2> QED BY <1>1, <2>1, <2>2, Zenon DEF ReceiptOK
<1> QED BY <1>1, <1>2, <1>5, <1>7, <1>8, IdentityStep, Zenon

\* An administrator's step keeps the certificates; a row that stays live is at the present position.
LEMMA LifecycleInv ==
  ASSUME IInv, NEW k \in Ids, Exists(row[k]), NEW r, row' = [row EXCEPT ![k] = r],
         \/ r = Deleted
         \/ /\ r \in IdentityRows /\ r.cert = row[k].cert /\ r.prev = row[k].prev
            /\ r.state # "revoked" => Live(k) /\ r.at = rot,
         UNCHANGED <<rot, receipts, file, answer>>
  PROVE  IInv'
<1> DEFINE c == Opposite(ClassOf(k))
<1>1. row'[k] = r /\ \A j \in Ids \ {k} : row'[j] = row[j]
  BY Zenon DEF IInv, TypeOK
<1>2. TypeOK'
  BY Zenon DEF IInv, TypeOK
<1>3. /\ Exists(r) => r \in IdentityRows /\ r.cert = row[k].cert /\ r.prev = row[k].prev
      /\ Live(k)' => Exists(r) /\ Live(k) /\ r.at = rot
      /\ r # Absent
  BY <1>1, RowValues, RowAssumption, Zenon DEF Live, Exists
<1>4. Covers(trustBundleFromSnapshot(rot[c]), rot[c])
  BY ClassFacts, Published, Zenon DEF IInv, TypeOK
<1>5. IdOK(k)'
  <2>1. RowOK(k)' /\ AnswerOK(k)'
    BY <1>1, <1>3 DEF IInv, IdOK, RowOK, AnswerOK, Lags
  <2>2. LeafOK(k)'
    BY <1>1, <1>3, Zenon DEF IInv, IdOK, LeafOK
  <2>3. HeldOK(k)'
    BY <1>1, <1>3, <1>4, Zenon DEF IInv, IdOK, HeldOK
  <2> QED BY <2>1, <2>2, <2>3, Zenon DEF IdOK
<1>6. \A x \in receipts' : x.kind \in {"leaf", "consumer"} =>
        (x.id # k /\ x \in receipts) \/ ReceiptOK(x)'
  <2> SUFFICES ASSUME NEW x \in receipts, x.kind \in {"leaf", "consumer"}, x.id = k
               PROVE  ReceiptOK(x)'
    BY Zenon
  <2>1. ReceiptOK(x)
    BY Zenon DEF IInv
  <2> QED BY <1>1, <1>3, <2>1 DEF ReceiptOK
<1> QED BY <1>1, <1>2, <1>5, <1>6, IdentityStep, Zenon

\* A claim is accepted only from a client that holds the row's certificate.
LEMMA ConfirmInv ==
  ASSUME IInv, NEW k \in Ids, file[k] # Absent, NEW claims, ConfirmTrustState(claims),
         \A q \in claims : /\ validateTrustStateConfirmation(q) /\ q.claimed \in Classes
                           /\ q.id = k /\ q.cert = file[k].cert
                           /\ q.bundle = file[k].bundle[q.claimed],
         UNCHANGED <<rot, row, file, answer>>
  PROVE  IInv'
<1>1. TypeOK' /\ IdOK(k)'
  BY Zenon DEF IInv, TypeOK, IdOK, RowOK, AnswerOK, HeldOK, LeafOK, Lags, Live
<1>2. ASSUME NEW q \in claims PROVE ReceiptOK(RecordValidatedTrustConfirmation(q))'
  <2> DEFINE x == RecordValidatedTrustConfirmation(q)
  <2>1. Exists(row[k]) /\ file[k].cert = row[k].cert
    BY <1>2, Zenon DEF validateTrustStateConfirmation, currentReporterCertificate, Live
  <2>2. answer[k] = Absent
    BY <2>1, Zenon DEF IInv, IdOK, AnswerOK, Lags
  <2>3. row[k].cert \in Certificates /\ row[k] # Absent
    BY <2>1, RowTypes, Zenon DEF IInv, Exists
  <2>4. row[k].cert.n <= row[k].cert.n
    BY <2>3 DEF Certificates
  <2>5. /\ x.id = k /\ x.cert = row[k].cert
        /\ x.kind = "consumer" => x.bundle = file[k].bundle[Opposite(ClassOf(k))]
    <3>1. CASE q.claimed = ClassOf(q.id)
      BY <1>2, <2>1, <3>1, Zenon DEF RecordValidatedTrustConfirmation, LeafReceipt
    <3>2. CASE q.claimed # ClassOf(q.id)
      <4>1. q.claimed = Opposite(ClassOf(k))
        BY <1>2, <3>2, ClassFacts, Zenon DEF Classes, Opposite
      <4> QED BY <1>2, <2>1, <3>2, <4>1, Zenon DEF RecordValidatedTrustConfirmation, ConsumerReceipt
    <3> QED BY <3>1, <3>2, Zenon
  <2> HIDE DEF x
  <2>6. ReceiptOK(x)'
    BY <2>1, <2>2, <2>3, <2>4, <2>5, Zenon DEF ReceiptOK
  <2> QED BY <2>6, Zenon DEF x
<1>3. \A x \in receipts' : ReceiptOK(x)'
  <2>1. \A x \in receipts : ReceiptOK(x)'
    BY Zenon DEF IInv, ReceiptOK
  <2> QED BY <1>2, <2>1, Zenon DEF ConfirmTrustState
<1> QED BY <1>1, <1>3, IdentityStep, Zenon

\* Adopting the answer ends the lag.
LEMMA AdoptInv ==
  ASSUME IInv, NEW k \in Ids, answer[k] # Absent, NEW root,
         file' = [file EXCEPT ![k] = CredentialBundle(answer[k], root)],
         answer' = [answer EXCEPT ![k] = Absent],
         UNCHANGED <<rot, row, receipts>>
  PROVE  IInv'
<1>1. /\ file'[k].cert = answer[k].cert /\ file'[k].bundle = answer[k].bundle
      /\ answer'[k] = Absent
      /\ \A j \in Ids \ {k} : file'[j] = file[j] /\ answer'[j] = answer[j]
  BY Zenon DEF IInv, TypeOK, CredentialBundle
<1>2. TypeOK'
  BY Zenon DEF IInv, TypeOK
<1>3. Exists(row[k]) => answer[k].cert = row[k].cert /\ ~Lags(k)'
  BY <1>1, Zenon DEF IInv, IdOK, AnswerOK, Lags
<1>4. IdOK(k)'
  <2>1. RowOK(k)' /\ AnswerOK(k)'
    BY <1>1, Zenon DEF IInv, IdOK, RowOK, AnswerOK
  <2>2. LeafOK(k)'
    BY <1>1, <1>3, Zenon DEF IInv, IdOK, LeafOK, Live
  <2>3. HeldOK(k)'
    BY <1>1, <1>3, Zenon DEF IInv, IdOK, HeldOK, Live
  <2> QED BY <2>1, <2>2, <2>3, Zenon DEF IdOK
<1>5. \A x \in receipts' : x.kind \in {"leaf", "consumer"} =>
        (x.id # k /\ x \in receipts) \/ ReceiptOK(x)'
  <2> SUFFICES ASSUME NEW x \in receipts, x.kind \in {"leaf", "consumer"}, x.id = k
               PROVE  ReceiptOK(x)'
    BY Zenon
  <2>1. ReceiptOK(x)
    BY Zenon DEF IInv
  <2>2. ~(Exists(row[k]) /\ x.cert = row[k].cert)
    BY <2>1, Zenon DEF ReceiptOK
  <2> QED BY <2>1, <2>2, Zenon DEF ReceiptOK
<1> QED BY <1>1, <1>2, <1>4, <1>5, IdentityStep, Zenon

\* Losing an answer, an identity or both.
LEMMA ForgetInv ==
  ASSUME IInv, NEW k \in Ids, DOMAIN file' = Ids, DOMAIN answer' = Ids,
         file'[k] \in {file[k], Absent}, answer'[k] \in {answer[k], Absent},
         file'[k] = file[k] \/ answer'[k] = Absent,
         \A j \in Ids \ {k} : file'[j] = file[j] /\ answer'[j] = answer[j],
         UNCHANGED <<rot, row, receipts>>
  PROVE  IInv'
<1>1. TypeOK'
  BY Zenon DEF IInv, TypeOK
<1>2. IdOK(k)'
  BY Zenon DEF IInv, IdOK, RowOK, AnswerOK, HeldOK, LeafOK, Lags, Live
<1>3. \A x \in receipts' : x.kind \in {"leaf", "consumer"} =>
        (x.id # k /\ x \in receipts) \/ ReceiptOK(x)'
  BY DEF IInv, ReceiptOK
<1> QED BY <1>1, <1>2, <1>3, IdentityStep, Zenon

-----------------------------------------------------------------------------
(* The operator's steps *)

\* A transition of one class: the live leaves and the bundles held must fit the next
\* state; rows, receipts and credentials stay.
LEMMA TransitionInv ==
  ASSUME IInv, NEW c \in Classes, NEW next \in CARotationStates, RotOK(next),
         Transition(c, next),
         \A k \in Members(c) : Live(k) =>
           /\ row[k].cert.iss \in Issuers(next)
           /\ file[k] # Absent => file[k].cert.iss \in Issuers(next),
         \A k \in Members(Opposite(c)) : Live(k) =>
           /\ file[k] # Absent => Covers(file[k].bundle[c], next)
           /\ answer[k] # Absent => Covers(answer[k].bundle[c], next)
           /\ Lags(k) => Covers(trustBundleFromSnapshot(row[k].at[c]), next)
  PROVE  IInv'
<1>1. /\ rot' = [rot EXCEPT ![c] = next]
      /\ UNCHANGED <<row, receipts, file, answer>>
  BY Zenon DEF Transition, projectCARotationState
<1>2. rot'[c] = next /\ \A d \in Classes : d # c => rot'[d] = rot[d]
  BY <1>1, Zenon DEF IInv, TypeOK
<1>3. TypeOK' /\ \A d \in Classes : RotOK(rot[d])'
  BY <1>1, <1>2, Zenon DEF IInv, TypeOK
<1>4. \A x \in receipts' : ReceiptOK(x)'
  BY <1>1, Zenon DEF IInv, ReceiptOK
<1>5. \A k \in Ids : IdOK(k)'
  <2> SUFFICES ASSUME NEW k \in Ids PROVE IdOK(k)'
    BY Zenon
  <2>1. IdOK(k) /\ row' = row /\ file' = file /\ answer' = answer
    BY <1>1, Zenon DEF IInv
  <2>2. RowOK(k)' /\ AnswerOK(k)' /\ (Live(k)' <=> Live(k)) /\ (Lags(k)' <=> Lags(k))
    BY <2>1, Zenon DEF IdOK, RowOK, AnswerOK, Lags, Live
  <2>3. ClassOf(k) \in Classes /\ Opposite(ClassOf(k)) \in Classes
    BY ClassFacts, Zenon
  <2>4. LeafOK(k)'
    <3>1. CASE ClassOf(k) = c
      BY <1>2, <2>1, <2>2, <3>1, ClassFacts, Zenon DEF LeafOK
    <3>2. CASE ClassOf(k) # c
      BY <1>2, <2>1, <2>2, <2>3, <3>2, Zenon DEF LeafOK, IdOK
    <3> QED BY <3>1, <3>2, Zenon
  <2>5. HeldOK(k)'
    <3>1. CASE Opposite(ClassOf(k)) = c
      <4>1. k \in Members(Opposite(c))
        BY <2>3, <3>1, ClassFacts, Zenon
      <4> QED BY <1>2, <2>1, <2>2, <3>1, <4>1, Zenon DEF HeldOK
    <3>2. CASE Opposite(ClassOf(k)) # c
      BY <1>2, <2>1, <2>2, <2>3, <3>2, Zenon DEF HeldOK, IdOK
    <3> QED BY <3>1, <3>2, Zenon
  <2> QED BY <2>2, <2>4, <2>5, Zenon DEF IdOK
<1> QED BY <1>3, <1>4, <1>5, Zenon DEF IInv

\* What a class's state says of its leaves and of its consumers, by class.
LEMMA ClassView ==
  ASSUME IInv, NEW c \in Classes
  PROVE  /\ rot[c] \in CARotationStates /\ RotOK(rot[c])
         /\ \A k \in Members(c) : Live(k) =>
              /\ row[k].cert.iss \in Issuers(rot[c])
              /\ file[k] # Absent => file[k].cert.iss \in Issuers(rot[c])
         /\ \A k \in Members(Opposite(c)) : Live(k) =>
              /\ file[k] # Absent => Covers(file[k].bundle[c], rot[c])
              /\ answer[k] # Absent => Covers(answer[k].bundle[c], rot[c])
              /\ Lags(k) => Covers(trustBundleFromSnapshot(row[k].at[c]), rot[c])
<1>1. rot[c] \in CARotationStates /\ RotOK(rot[c])
  BY Zenon DEF IInv, TypeOK
<1>2. \A k \in Members(c) : k \in Ids /\ ClassOf(k) = c /\ LeafOK(k)
  BY ClassFacts, Zenon DEF IInv, IdOK
<1>3. \A k \in Members(Opposite(c)) : k \in Ids /\ Opposite(ClassOf(k)) = c /\ HeldOK(k)
  BY ClassFacts, Zenon DEF IInv, IdOK
<1> QED BY <1>1, <1>2, <1>3, Zenon DEF LeafOK, HeldOK

\* Confirmations of all live consumers: they hold what is published, and nothing else is under way.
LEMMA Confirmed ==
  ASSUME IInv, NEW c \in Classes, requireConsumerConfirmations(c),
         NEW k \in Members(Opposite(c)), Live(k)
  PROVE  /\ file[k] # Absent => file[k].bundle[c] = trustBundleFromSnapshot(rot[c])
         /\ answer[k] = Absent /\ ~Lags(k)
<1> DEFINE x == ConsumerReceipt(k, row[k].cert, trustBundleFromSnapshot(rot[c]))
<1>1. x \in receipts
  BY Zenon DEF requireConsumerConfirmations, ActiveTrustConsumers, ListActiveTrustConsumers,
     HasConsumerTrustState
<1>2. /\ x.kind = "consumer" /\ x.id = k /\ x.cert = row[k].cert
      /\ x.bundle = trustBundleFromSnapshot(rot[c])
  BY Zenon DEF ConsumerReceipt
<1> HIDE DEF x
<1>3. ReceiptOK(x) /\ Opposite(ClassOf(k)) = c /\ Exists(row[k])
  BY <1>1, ClassFacts, Zenon DEF IInv, Live
<1> QED BY <1>2, <1>3, Zenon DEF ReceiptOK, Lags

\* Begin: the successor is added to what is trusted; issuance stays.
LEMMA BeginTrustInv ==
  ASSUME IInv, NEW c \in Classes, NEW root \in Roots, BeginTrust(c, root)
  PROVE  IInv'
<1> DEFINE s == rot[c]
           next == TrustState(s, root)
<1>1. s \in CARotationStates /\ RotOK(s) /\ s.phase = "stable"
  BY ClassView, Zenon DEF BeginTrust, CanBegin
<1>2. Transition(c, next) /\ validateCARotationState(next)
  BY Zenon DEF BeginTrust, Transition
<1>3. next \in CARotationStates
  <2>1. /\ s.gen + 1 \in Nat /\ 1 \in Nat
        /\ TransitionProof(s.cur, root) \in (Roots \cup {NoRoot}) \X (Roots \cup {NoRoot})
    BY <1>1 DEF CARotationStates, TransitionProof
  <2> QED BY <1>1, <2>1, Zenon DEF TrustState, CARotationStates
<1>4. next.phase = "trust" /\ next.cur = s.cur /\ next.disc = NoRoot
  BY <1>1, Zenon DEF TrustState, CARotationStates
<1>5. RotOK(next)
  BY <1>2, <1>4, Zenon DEF RotOK
<1>6. Issuers(next) = Issuers(s)
  BY <1>1, <1>4, Zenon DEF Issuers, IssuingRoot
<1>7. \A b : Covers(b, s) => Covers(b, next)
  <2>1. s.cur \in RootSet(trustBundleFromSnapshot(s).roots)
    BY <1>1, Published, Zenon DEF Issuers, IssuingRoot
  <2> QED BY <1>1, <1>4, <2>1, Zenon DEF Covers
<1> HIDE DEF next, s
<1> QED BY <1>2, <1>3, <1>5, <1>6, <1>7, ClassView, TransitionInv, Zenon DEF s

\* Abort: the successor is dropped before anything was issued from it.
LEMMA AbortInv ==
  ASSUME IInv, NEW c \in Classes, Abort(c)
  PROVE  IInv'
<1> DEFINE s == rot[c]
           next == AbortState(s)
<1>1. s \in CARotationStates /\ RotOK(s) /\ s.phase = "trust" /\ s.succ # NoRoot
  BY ClassView, Zenon DEF Abort, CanAbort
<1>2. Transition(c, next) /\ validateCARotationState(next)
  BY Zenon DEF Abort, Transition
<1>3. next \in CARotationStates
  <2>1. s.rev + 1 \in Nat /\ NoProof \in (Roots \cup {NoRoot}) \X (Roots \cup {NoRoot})
    BY <1>1 DEF CARotationStates, NoProof
  <2> QED BY <1>1, <2>1, Zenon DEF AbortState, CARotationStates
<1>4. /\ next.phase = "trust" /\ next.cur = s.cur /\ next.succ = NoRoot /\ next.proof = NoProof
  BY <1>1, Zenon DEF AbortState, CARotationStates
<1>5. RotOK(next)
  BY <1>2, <1>4, Zenon DEF RotOK
<1>6. Issuers(next) = Issuers(s)
  BY <1>1, <1>4, Zenon DEF Issuers, IssuingRoot
<1>7. \A b : Covers(b, s) => Covers(b, next)
  BY <1>1, <1>4, Zenon DEF Covers
<1> HIDE DEF next, s
<1> QED BY <1>2, <1>3, <1>5, <1>6, <1>7, ClassView, TransitionInv, Zenon DEF s

\* Migrate: every consumer has confirmed that it trusts the successor.
LEMMA MigrateInv ==
  ASSUME IInv, NEW c \in Classes, Migrate(c)
  PROVE  IInv'
<1> DEFINE s == rot[c]
           next == MigrateState(s)
<1>1. s \in CARotationStates /\ RotOK(s) /\ s.phase = "trust" /\ s.succ # NoRoot
  BY ClassView, Zenon DEF Migrate, CanMigrate
<1>2. Transition(c, next) /\ validateCARotationState(next) /\ requireConsumerConfirmations(c)
  BY Zenon DEF Migrate, Transition
<1>3. next \in CARotationStates
  BY <1>1, Zenon DEF MigrateState, CARotationStates
<1>4. /\ next.phase = "migrate" /\ next.cur = s.cur /\ next.succ = s.succ
      /\ next.gen = s.gen /\ next.rev = s.rev /\ next.proof = s.proof
  BY <1>1, Zenon DEF MigrateState, CARotationStates
<1>5. RotOK(next)
  BY <1>2, <1>4, Zenon DEF RotOK
<1>6. Issuers(s) \subseteq Issuers(next)
  BY <1>1, <1>4, Zenon DEF Issuers, IssuingRoot
<1>7. trustBundleFromSnapshot(next) = trustBundleFromSnapshot(s)
  BY <1>1, <1>4, Zenon DEF trustBundleFromSnapshot, DesiredRoots
<1>8. Covers(trustBundleFromSnapshot(s), next)
  BY <1>3, <1>5, <1>7, Published, Zenon
<1> HIDE DEF next, s
<1>9. \A k \in Members(Opposite(c)) : Live(k) =>
           /\ file[k] # Absent => Covers(file[k].bundle[c], next)
           /\ answer[k] = Absent /\ ~Lags(k)
  BY <1>2, <1>8, Confirmed, Zenon DEF s
<1> QED BY <1>2, <1>3, <1>5, <1>6, <1>9, ClassView, TransitionInv, Zenon DEF s

\* The report leaves only leaves whose successor certificate is in the client's hands.
LEMMA RetireInv ==
  ASSUME IInv, NEW c \in Classes, Retire(c)
  PROVE  IInv'
<1> DEFINE s == rot[c]
           next == RetireState(s)
<1>1. s \in CARotationStates /\ RotOK(s) /\ s.phase = "migrate" /\ s.succ # NoRoot
  BY ClassView, Zenon DEF Retire, CanRetire, RotOK, validateCARotationState
<1>2. Transition(c, next) /\ validateCARotationState(next) /\ requireLeafMigration(c)
  BY DEF Retire, Transition
<1>3. next \in CARotationStates
  <2>1. s.rev + 1 \in Nat /\ NoProof \in (Roots \cup {NoRoot}) \X (Roots \cup {NoRoot})
    BY <1>1 DEF CARotationStates, NoProof
  <2> QED BY <1>1, <2>1, Zenon DEF RetireState, CARotationStates
<1>4. /\ next.phase = "retire" /\ next.succ = s.succ /\ next.proof = NoProof
  BY <1>1, Zenon DEF RetireState, CARotationStates
<1>5. RotOK(next)
  BY <1>2, <1>4, Zenon DEF RotOK
<1>6. Issuers(next) = {s.succ}
  BY <1>4, Zenon DEF Issuers, IssuingRoot
<1>7. \A b : Covers(b, s) => Covers(b, next)
  <2>1. s.succ \in RootSet(trustBundleFromSnapshot(s).roots)
    BY <1>1, Published, Zenon DEF Issuers
  <2> QED BY <1>1, <1>4, <2>1, Zenon DEF Covers
<1> HIDE DEF next, s
<1>8. ASSUME NEW k \in Members(c), Live(k)
      PROVE  /\ row[k].cert.iss = s.succ
             /\ file[k] # Absent => file[k].cert.iss = s.succ
  <2>1. classifyCAMigrationEntry(k, c) = "successor_confirmed"
    <3>1. k \in ListCAMigrationReportEntries(c) /\ row[k].state # "revoked"
      BY <1>8, Zenon DEF ListCAMigrationReportEntries, Live
    <3>2. classifyCAMigrationEntry(k, c) \in {"successor_confirmed", "revoked"}
      BY <1>2, <3>1, Zenon DEF requireLeafMigration, CAMigrationReport
    <3> QED BY <3>1, <3>2, Zenon DEF classifyCAMigrationEntry
  <2>2. row[k].cert.iss = s.succ /\ hasLeafTrustConfirmation(k, c)
    BY <2>1, Zenon DEF classifyCAMigrationEntry, s
  <2> DEFINE x == LeafReceipt(k, row[k].cert, rot[c].gen)
  <2>3. x.kind = "leaf" /\ x.id = k /\ x.cert = row[k].cert
    BY Zenon DEF LeafReceipt
  <2>4. ReceiptOK(x)
    BY <2>2, Zenon DEF hasLeafTrustConfirmation, IInv
  <2> HIDE DEF x
  <2> QED BY <1>8, <2>2, <2>3, <2>4, Zenon DEF ReceiptOK, Live
<1> QED BY <1>2, <1>3, <1>5, <1>6, <1>7, <1>8, ClassView, TransitionInv, Zenon DEF s

\* Normalize: the retired root, or the discarded successor, is forgotten.
LEMMA NormalizeInv ==
  ASSUME IInv, NEW c \in Classes, Normalize(c)
  PROVE  IInv'
<1> DEFINE s == rot[c]
           next == NormalState(s)
<1>1. /\ s \in CARotationStates /\ RotOK(s)
      /\ \/ s.phase = "retire" /\ s.succ # NoRoot /\ s.succ \in Roots
         \/ s.phase = "trust" /\ s.disc # NoRoot /\ s.succ = NoRoot
      /\ s.proof = NoProof
  BY ClassView, Zenon DEF Normalize, CanNormalize, RotOK, validateCARotationState, CARotationStates
<1>2. Transition(c, next) /\ validateCARotationState(next) /\ requireConsumerConfirmations(c)
  BY DEF Normalize, Transition
<1>3. next \in CARotationStates
  BY <1>1, Zenon DEF NormalState, CARotationStates, NoProof
<1>4. /\ next.phase = "stable" /\ next.succ = NoRoot /\ next.proof = NoProof
      /\ next.gen = s.gen /\ next.rev = s.rev
      /\ next.cur = IF s.phase = "retire" THEN s.succ ELSE s.cur
  BY <1>1, Zenon DEF NormalState, CARotationStates
<1>5. RotOK(next)
  BY <1>2, <1>4, Zenon DEF RotOK
<1>6. Issuers(next) = Issuers(s)
  BY <1>1, <1>4, Zenon DEF Issuers, IssuingRoot
<1>7. trustBundleFromSnapshot(next) = trustBundleFromSnapshot(s)
  BY <1>1, <1>4, Zenon DEF trustBundleFromSnapshot, DesiredRoots
<1>8. Covers(trustBundleFromSnapshot(s), next)
  BY <1>3, <1>5, <1>7, Published
<1> HIDE DEF next, s
<1>9. \A k \in Members(Opposite(c)) : Live(k) =>
           /\ file[k] # Absent => Covers(file[k].bundle[c], next)
           /\ answer[k] = Absent /\ ~Lags(k)
  BY <1>2, <1>8, Confirmed DEF s
<1> QED BY <1>2, <1>3, <1>5, <1>6, <1>9, ClassView, TransitionInv, Zenon DEF s

-----------------------------------------------------------------------------
(* Every action is one of these steps *)

\* A step that leaves server rows, credentials and answers as they are.
LEMMA SameState ==
  ASSUME IInv, UNCHANGED <<rot, row, receipts, file, answer>>
  PROVE  IInv'
BY Zenon DEF IInv, TypeOK, IdOK, RowOK, AnswerOK, HeldOK, LeafOK, Lags, Live, ReceiptOK

\* EnrollAgent and EnrollGateway.
LEMMA EnrollStep ==
  /\ \A a \in Agents : IInv /\ EnrollAgent(a) => IInv'
  /\ \A g \in Gateways : IInv /\ EnrollGateway(g) => IInv'
<1>1. ASSUME NEW a \in Agents, IInv, EnrollAgent(a) PROVE IInv'
  <2> DEFINE cert == issueAgentCertificate(1)
  <2>1. a \in Ids /\ cert = [n |-> 1, iss |-> currentAuthority(ClassOf(a))]
    BY ClassFacts, Zenon DEF issueAgentCertificate
  <2>2. /\ row[a] = Absent /\ file[a] = Absent
        /\ row' = [row EXCEPT ![a] =
             [cert |-> cert, prev |-> Absent, state |-> "active", at |-> rot]]
        /\ answer' = [answer EXCEPT ![a] = [cert |-> cert, bundle |-> Bundles(rot)]]
        /\ UNCHANGED <<rot, receipts, file>>
    BY <1>1, Zenon DEF EnrollAgent, Answer, AppendEvent, projectAgentEnrollment, UpsertDeviceEnrollment,
       Affected, AgentEnrolledEvent
  <2> HIDE DEF cert
  <2> QED BY <1>1, <2>1, <2>2, EnrollInv, Zenon
<1>2. ASSUME NEW g \in Gateways, IInv, EnrollGateway(g) PROVE IInv'
  <2> DEFINE cert == issueGatewayCertificate(1)
  <2>1. g \in Ids /\ cert = [n |-> 1, iss |-> currentAuthority(ClassOf(g))]
    BY ClassFacts, Zenon DEF issueGatewayCertificate
  <2>2. /\ row[g] = Absent /\ file[g] = Absent
        /\ row' = [row EXCEPT ![g] =
             [cert |-> cert, prev |-> Absent, state |-> "active", at |-> rot]]
        /\ answer' = [answer EXCEPT ![g] = [cert |-> cert, bundle |-> Bundles(rot)]]
        /\ UNCHANGED <<rot, receipts, file>>
    BY <1>2, Zenon DEF EnrollGateway, Answer, AppendEvent, projectGatewayEnrollment,
       UpsertGatewayEnrollment, Affected, GatewayEnrolledEvent
  <2> HIDE DEF cert
  <2> QED BY <1>2, <2>1, <2>2, EnrollInv, Zenon
<1> QED BY <1>1, <1>2, Zenon

\* A new certificate of the class has the type of one.
LEMMA NewCertificate ==
  ASSUME IInv, NEW k \in Ids, Exists(row[k]), NEW cert,
         cert = [n |-> row[k].cert.n + 1, iss |-> currentAuthority(ClassOf(k))]
  PROVE  cert \in Certificates
<1>1. row[k].cert.n + 1 \in Nat
  BY RowTypes DEF IInv, Certificates
<1> QED BY <1>1, Issued, Zenon

\* RenewAgent: a new certificate, or the replay of a lost answer.
LEMMA RenewAgentInv ==
  ASSUME IInv, NEW a \in Agents, RenewAgent(a)
  PROVE  IInv'
<1> DEFINE cert == issueAgentCertificate(row[a].cert.n + 1)
           r == [cert |-> cert, prev |-> file[a].cert, state |-> "active", at |-> rot]
<1>1. /\ a \in Ids /\ cert = [n |-> row[a].cert.n + 1, iss |-> currentAuthority(ClassOf(a))]
      /\ file[a] # Absent /\ answer[a] = Absent /\ UNCHANGED <<rot, receipts, file>>
  BY ClassFacts, Zenon DEF issueAgentCertificate, RenewAgent, Renewing
<1> HIDE DEF cert
<1>2. CASE /\ Live(a) /\ file[a].cert = row[a].cert
           /\ AppendEvent(a, projectAgentCertificateRenewal(row[a],
                 AgentCertificateRenewedEvent(cert, file[a].cert), rot))
           /\ Answer(a, cert, rot)
  <2>1. row' = [row EXCEPT ![a] = r]
    BY <1>2, Zenon DEF AppendEvent, projectAgentCertificateRenewal, UpdateDeviceRenewal, Affected,
       AgentCertificateRenewedEvent
  <2>2. cert \in Certificates /\ row[a].cert \in Certificates
    BY <1>1, <1>2, NewCertificate, RowTypes, Zenon DEF Live, IInv
  <2>3. r \in IdentityRows
    BY <1>2, <2>2, Zenon DEF IdentityRows, IInv, TypeOK
  <2>4. r.cert = cert /\ r.prev = file[a].cert /\ r.state = "active" /\ r.at = rot
    BY Zenon
  <2>5. answer' = [answer EXCEPT ![a] = [cert |-> cert, bundle |-> Bundles(rot)]]
    BY <1>2, Zenon DEF Answer
  <2> HIDE DEF r
  <2> QED BY <1>1, <1>2, <2>1, <2>3, <2>4, <2>5, RenewInv, Zenon
<1>3. CASE Live(a) /\ file[a].cert = row[a].prev /\ Replay(a)
  BY <1>1, <1>3, ReplayInv, Zenon
<1>4. CASE UNCHANGED <<row, answer>>
  BY <1>1, <1>4, SameState, Zenon
<1> QED BY <1>2, <1>3, <1>4, Zenon DEF RenewAgent, cert

\* RenewGateway, with its own checks.
LEMMA RenewGatewayInv ==
  ASSUME IInv, NEW g \in Gateways, RenewGateway(g)
  PROVE  IInv'
<1> DEFINE cert == issueGatewayCertificate(row[g].cert.n + 1)
           r == [row[g] EXCEPT !.cert = cert, !.prev = file[g].cert, !.at = rot]
<1>1. /\ g \in Ids /\ cert = [n |-> row[g].cert.n + 1, iss |-> currentAuthority(ClassOf(g))]
      /\ file[g] # Absent /\ answer[g] = Absent /\ Live(g)
      /\ UNCHANGED <<rot, receipts, file>>
  BY ClassFacts, Zenon DEF issueGatewayCertificate, RenewGateway, Renewing
<1> HIDE DEF cert
<1>2. CASE /\ file[g].cert = row[g].cert
           /\ AppendEvent(g, projectGatewayRenewal(row[g],
                 GatewayCertificateRenewedEvent(cert, file[g].cert), rot))
           /\ Answer(g, cert, rot)
  <2>1. row' = [row EXCEPT ![g] = r] /\ row[g].state = "active"
    BY <1>2, Zenon DEF AppendEvent, projectGatewayRenewal, UpdateGatewayRenewal, Affected,
       GatewayCertificateRenewedEvent
  <2>2. cert \in Certificates /\ row[g].cert \in Certificates /\ row[g] \in IdentityRows
    BY <1>1, NewCertificate, RowTypes, Zenon DEF Live, IInv
  <2>3. r \in IdentityRows
    BY <1>2, <2>2, Zenon DEF IdentityRows, IInv, TypeOK
  <2>4. r.cert = cert /\ r.prev = file[g].cert /\ r.state = "active" /\ r.at = rot
    BY <2>1, <2>2, Zenon DEF IdentityRows
  <2>5. answer' = [answer EXCEPT ![g] = [cert |-> cert, bundle |-> Bundles(rot)]]
    BY <1>2, Zenon DEF Answer
  <2> HIDE DEF r
  <2> QED BY <1>1, <1>2, <2>1, <2>3, <2>4, <2>5, RenewInv, Zenon
<1>3. CASE file[g].cert = row[g].prev /\ Replay(g)
  BY <1>1, <1>3, ReplayInv, Zenon
<1> QED BY <1>2, <1>3, Zenon DEF RenewGateway, cert

\* Revocation, forced renewal, deletion and owner change of an agent.
LEMMA LifecycleAgentInv ==
  ASSUME IInv, NEW a \in Agents,
         RevokeAgent(a) \/ ForceRenewAgent(a) \/ DeleteDevice(a) \/ ChangeDeviceOwner(a)
  PROVE  IInv'
<1>1. /\ a \in Ids /\ Exists(row[a]) /\ UNCHANGED <<rot, receipts, file, answer>>
  BY ClassFacts, Zenon DEF RevokeAgent, ForceRenewAgent, DeleteDevice, ChangeDeviceOwner,
     appendAgentLifecycleEvent, Live
<1>2. row[a] \in IdentityRows
  BY <1>1, RowTypes, Zenon DEF IInv
<1>3. CASE RevokeAgent(a)
  <2> DEFINE r == [row[a] EXCEPT !.state = "revoked", !.at = Absent]
  <2>1. row' = [row EXCEPT ![a] = r]
    BY <1>3, Zenon DEF RevokeAgent, appendAgentLifecycleEvent, AppendEvent,
       projectAgentCertificateRevocation, projectAgentLifecycleState, UpdateDeviceLifecycleState,
       Affected, Position
  <2>2. r \in IdentityRows /\ r.cert = row[a].cert /\ r.prev = row[a].prev /\ r.state = "revoked"
    BY <1>2, Zenon DEF IdentityRows
  <2> HIDE DEF r
  <2> QED BY <1>1, <2>1, <2>2, LifecycleInv, Zenon
<1>4. CASE ForceRenewAgent(a)
  <2> DEFINE r == [row[a] EXCEPT !.state = "force_renewal", !.at = rot]
  <2>1. row' = [row EXCEPT ![a] = r] /\ Live(a)
    BY <1>4, Zenon DEF ForceRenewAgent, appendAgentLifecycleEvent, AppendEvent,
       projectAgentForceRenewal, projectAgentLifecycleState, UpdateDeviceLifecycleState,
       Affected, Position, Live
  <2>2. r \in IdentityRows /\ r.cert = row[a].cert /\ r.prev = row[a].prev /\ r.at = rot
    BY <1>2, Zenon DEF IdentityRows, IInv, TypeOK
  <2> HIDE DEF r
  <2> QED BY <1>1, <2>1, <2>2, LifecycleInv, Zenon
<1>5. CASE DeleteDevice(a)
  <2>1. row' = [row EXCEPT ![a] = Deleted]
    BY <1>5, Zenon DEF DeleteDevice, AppendEvent, projectAgentDeletion, DeleteDeviceProjection, Affected
  <2> QED BY <1>1, <2>1, LifecycleInv, Zenon
<1>6. CASE ChangeDeviceOwner(a)
  <2> DEFINE r == [row[a] EXCEPT !.at = rot]
  <2>1. row' = [row EXCEPT ![a] = r] /\ Live(a)
    BY <1>6, Zenon DEF ChangeDeviceOwner, AppendEvent, projectAgentOwnerUpdate, UpdateDeviceOwner,
       Affected, Position, Live
  <2>2. r \in IdentityRows /\ r.cert = row[a].cert /\ r.prev = row[a].prev /\ r.at = rot
    BY <1>2, Zenon DEF IdentityRows, IInv, TypeOK
  <2> HIDE DEF r
  <2> QED BY <1>1, <2>1, <2>2, LifecycleInv, Zenon
<1> QED BY <1>3, <1>4, <1>5, <1>6, Zenon

\* RevokeGateway: the row stays, its certificate is no longer live.
LEMMA RevokeGatewayInv ==
  ASSUME IInv, NEW g \in Gateways, RevokeGateway(g)
  PROVE  IInv'
<1> DEFINE r == [row[g] EXCEPT !.state = "revoked", !.at = Absent]
<1>1. g \in Ids /\ Exists(row[g]) /\ UNCHANGED <<rot, receipts, file, answer>>
  BY ClassFacts, Zenon DEF RevokeGateway, Live
<1>2. row[g] \in IdentityRows
  BY <1>1, RowTypes, Zenon DEF IInv
<1>3. row' = [row EXCEPT ![g] = r]
  BY Zenon DEF RevokeGateway, AppendEvent, projectGatewayRevocation, UpdateGatewayLifecycleState,
     Affected, Position
<1>4. r \in IdentityRows /\ r.cert = row[g].cert /\ r.prev = row[g].prev /\ r.state = "revoked"
  BY <1>2, Zenon DEF IdentityRows
<1> HIDE DEF r
<1> QED BY <1>1, <1>3, <1>4, LifecycleInv, Zenon

\* An agent's confirmation of what it holds.
LEMMA ConfirmAgentInv ==
  ASSUME IInv, NEW a \in Agents, NEW c \in Classes, ConfirmAgentTrustState(a, c)
  PROVE  IInv'
<1> DEFINE q == pendingTrustRequest(a, c)
<1>1. /\ a \in Ids /\ file[a] # Absent /\ ConfirmTrustState({q})
      /\ validateTrustStateConfirmation(q) /\ UNCHANGED <<rot, row, file, answer>>
  BY ClassFacts, Zenon DEF ConfirmAgentTrustState
<1>2. /\ q.id = a /\ q.cert = file[a].cert /\ q.claimed = c
      /\ q.bundle = file[a].bundle[q.claimed]
  BY Zenon DEF pendingTrustRequest
<1> HIDE DEF q
<1> QED BY <1>1, <1>2, ConfirmInv, Zenon

\* A gateway's confirmation.
LEMMA ConfirmGatewayInv ==
  ASSUME IInv, NEW g \in Gateways, ConfirmGatewayTrustState(g), pend[g] \subseteq Classes
  PROVE  IInv'
<1> DEFINE claims == {gatewayPendingRequest(g, c) : c \in pend[g]}
           valid == {q \in claims : validateTrustStateConfirmation(q)}
<1>1. PICK accepted \in {valid, {q \in valid : q.claimed = "gateway"}} :
           ConfirmTrustState(accepted)
  BY Zenon DEF ConfirmGatewayTrustState
<1>2. g \in Ids /\ file[g] # Absent /\ UNCHANGED <<rot, row, file, answer>>
  BY ClassFacts, Zenon DEF ConfirmGatewayTrustState
<1>3. \A q \in accepted : /\ validateTrustStateConfirmation(q) /\ q.claimed \in Classes
                          /\ q.id = g /\ q.cert = file[g].cert
                          /\ q.bundle = file[g].bundle[q.claimed]
  BY DEF gatewayPendingRequest
<1> HIDE DEF claims, valid
<1> QED BY <1>1, <1>2, <1>3, ConfirmInv, Zenon

\* The control server's own confirmation.
LEMMA ConfirmControlInv == IInv /\ ConfirmControlTrustState => IInv'
<1> SUFFICES ASSUME IInv, ConfirmControlTrustState PROVE IInv'
  BY Zenon
<1>1. UNCHANGED <<rot, row, file, answer>>
  BY Zenon DEF ConfirmControlTrustState
<1>2. \A r \in receipts' : ReceiptOK(r)'
  <2>1. \A r \in receipts : ReceiptOK(r)'
    BY <1>1, Zenon DEF IInv, ReceiptOK
  <2>2. \A b : ReceiptOK(ControlReceipt(b))'
    BY Zenon DEF ReceiptOK, ControlReceipt
  <2> QED BY <2>1, <2>2, Zenon DEF ConfirmControlTrustState
<1> QED BY <1>1, <1>2, Zenon
     DEF IInv, TypeOK, IdOK, RowOK, AnswerOK, HeldOK, LeafOK, Lags, Live

\* The agent checks the answer and stores it.
LEMMA AdoptAgentStep ==
  ASSUME IInv, NEW a \in Agents, AdoptAgentEnrollment(a) \/ AdoptAgentRenewal(a)
  PROVE  IInv'
<1>1. PICK root : file' = [file EXCEPT ![a] = CredentialBundle(answer[a], root)]
  BY Zenon DEF AdoptAgentEnrollment, AdoptAgentRenewal
<1>2. /\ a \in Ids /\ answer[a] # Absent /\ answer' = [answer EXCEPT ![a] = Absent]
      /\ UNCHANGED <<rot, row, receipts>>
  BY ClassFacts, Zenon DEF AdoptAgentEnrollment, AdoptAgentRenewal
<1> QED BY <1>1, <1>2, AdoptInv, Zenon

\* The gateway checks the answer and installs it.
LEMMA AdoptGatewayStep ==
  ASSUME IInv, NEW g \in Gateways, AdoptGatewayEnrollment(g) \/ AdoptGatewayRenewal(g)
  PROVE  IInv'
<1>1. PICK root : file' = [file EXCEPT ![g] = CredentialBundle(answer[g], root)]
  BY Zenon DEF AdoptGatewayEnrollment, AdoptGatewayRenewal
<1>2. /\ g \in Ids /\ answer[g] # Absent /\ answer' = [answer EXCEPT ![g] = Absent]
      /\ UNCHANGED <<rot, row, receipts>>
  BY ClassFacts, Zenon DEF AdoptGatewayEnrollment, AdoptGatewayRenewal
<1> QED BY <1>1, <1>2, AdoptInv, Zenon

\* Lost answers, restarts and discarded credentials.
LEMMA ForgetStep ==
  /\ \A k \in Ids : IInv /\ LoseAnswer(k) => IInv'
  /\ \A a \in Agents : IInv /\ RestartAgent(a) => IInv'
  /\ \A g \in Gateways : IInv /\ RestartGateway(g) => IInv'
<1>1. ASSUME IInv, NEW k \in Ids, UNCHANGED <<rot, row, receipts>>,
             answer' = [answer EXCEPT ![k] = Absent],
             file' = file \/ file' = [file EXCEPT ![k] = Absent]
      PROVE  IInv'
  <2>1. /\ DOMAIN file' = Ids /\ DOMAIN answer' = Ids
        /\ file'[k] \in {file[k], Absent} /\ answer'[k] = Absent
        /\ \A j \in Ids \ {k} : file'[j] = file[j] /\ answer'[j] = answer[j]
    BY <1>1, Zenon DEF IInv, TypeOK
  <2> QED BY <1>1, <2>1, ForgetInv, Zenon
<1> QED BY <1>1, ClassFacts, Zenon DEF LoseAnswer, RestartAgent, RestartGateway

-----------------------------------------------------------------------------
(* Theorems *)

\* Only the two classes can be pending.
PendOK == pend \in [Ids -> SUBSET Classes]

\* No identity is enrolled, and both classes are stable.
LEMMA InitInv == Init => IInv /\ PendOK
<1> SUFFICES ASSUME Init PROVE IInv /\ PendOK
  BY Zenon
<1>1. ConfiguredState(FirstRoot) \in CARotationStates
  <2>1. NoProof \in (Roots \cup {NoRoot}) \X (Roots \cup {NoRoot})
    BY Zenon DEF NoProof
  <2> QED BY <2>1, TrustAssumption, Zenon DEF ConfiguredState, CARotationStates
<1>2. RotOK(ConfiguredState(FirstRoot))
  BY DEF ConfiguredState, RotOK, validateCARotationState
<1>3. TypeOK /\ \A c \in Classes : RotOK(rot[c])
  BY <1>1, <1>2, Zenon DEF Init, TypeOK
<1>4. \A k \in Ids : IdOK(k)
  BY Zenon DEF Init, IdOK, RowOK, AnswerOK, HeldOK, LeafOK, Lags, Live, Exists
<1> QED BY <1>3, <1>4, Zenon DEF Init, IInv, PendOK

\* Every step.
LEMMA NextInv == IInv /\ PendOK /\ [Next]_vars => IInv' /\ PendOK'
<1> SUFFICES ASSUME IInv, PendOK, [Next]_vars PROVE IInv' /\ PendOK'
  BY Zenon
<1>1. ASSUME Operator PROVE IInv' /\ PendOK'
  <2>1. pend' = pend
    BY <1>1, Zenon DEF Operator, BeginTrust, Abort, Migrate, Retire, Normalize, Transition
  <2>2. IInv'
    BY <1>1, BeginTrustInv, AbortInv, MigrateInv, RetireInv, NormalizeInv, Zenon DEF Operator
  <2> QED BY <2>1, <2>2, Zenon DEF PendOK
<1>2. ASSUME NEW a \in Agents, AgentStep(a) PROVE IInv' /\ PendOK'
  <2>1. IInv'
    BY <1>2, EnrollStep, RenewAgentInv, AdoptAgentStep, ForgetStep, ConfirmAgentInv,
       LifecycleAgentInv, ClassFacts, Zenon DEF AgentStep
  <2>2. /\ a \in Ids
        /\ \/ UNCHANGED pend
           \/ \E p \in SUBSET Classes : pend' = [pend EXCEPT ![a] = p]
    <3>1. ASSUME AdoptAgentEnrollment(a) \/ AdoptAgentRenewal(a)
          PROVE  \E p \in SUBSET Classes : pend' = [pend EXCEPT ![a] = p]
      BY <3>1, Zenon DEF AdoptAgentEnrollment, AdoptAgentRenewal, Classes
    <3>2. ASSUME NEW c \in Classes, ConfirmAgentTrustState(a, c)
          PROVE  \/ UNCHANGED pend
                 \/ \E p \in SUBSET Classes : pend' = [pend EXCEPT ![a] = p]
      BY <3>2, ClassFacts, Zenon DEF ConfirmAgentTrustState, PendOK
    <3> QED BY <1>2, <3>1, <3>2, ClassFacts, Zenon DEF AgentStep, EnrollAgent, RenewAgent, LoseAnswer,
         RestartAgent, RevokeAgent, ForceRenewAgent, DeleteDevice, ChangeDeviceOwner
  <2> QED BY <2>1, <2>2, Zenon DEF PendOK
<1>3. ASSUME NEW g \in Gateways, GatewayStep(g) PROVE IInv' /\ PendOK'
  <2>0. g \in Ids /\ pend[g] \subseteq Classes
    BY ClassFacts, Zenon DEF PendOK
  <2>1. IInv'
    BY <1>3, <2>0, EnrollStep, RenewGatewayInv, AdoptGatewayStep, ForgetStep, ConfirmGatewayInv,
       RevokeGatewayInv, Zenon DEF GatewayStep
  <2>2. \/ UNCHANGED pend
        \/ \E p \in SUBSET Classes : pend' = [pend EXCEPT ![g] = p]
    BY <1>3, Zenon DEF GatewayStep, EnrollGateway, RenewGateway, AdoptGatewayEnrollment,
       AdoptGatewayRenewal, LoseAnswer, RestartGateway, ConfirmGatewayTrustState, RevokeGateway
  <2> QED BY <2>0, <2>1, <2>2, Zenon DEF PendOK
<1>4. ASSUME ConfirmControlTrustState PROVE IInv' /\ PendOK'
  BY <1>4, ConfirmControlInv, Zenon DEF ConfirmControlTrustState, PendOK
<1>5. ASSUME UNCHANGED vars PROVE IInv' /\ PendOK'
  BY <1>5, SameState, Zenon DEF vars, PendOK
<1> QED BY <1>1, <1>2, <1>3, <1>4, <1>5, Zenon DEF Next

\* Receipts, rows, answers and files agree as the header says, in every phase.
THEOREM Invariance == Spec => [](IInv /\ PendOK)
<1>1. Init => IInv /\ PendOK
  BY InitInv, Zenon
<1>2. (IInv /\ PendOK) /\ [Next]_vars => (IInv /\ PendOK)'
  BY NextInv, Zenon
<1> QED BY <1>1, <1>2, PTL DEF Spec

\* Retire (rotation.go) leaves no leaf of the predecessor behind, and an abort none of the
\* successor, in a fleet of any size and after any number of rotations.
THEOREM LeavesTheorem == Spec => []LeavesFollowIssuer
<1>1. IInv => LeavesFollowIssuer
  BY ClassView, Zenon DEF LeavesFollowIssuer, Issuers
<1> QED BY <1>1, Invariance, PTL

\* The confirmations that requireConsumerConfirmations counts stand for what the clients have.
THEOREM InstalledTheorem == Spec => []InstalledTrust
<1>1. IInv => InstalledTrust
  BY ClassView, Zenon DEF InstalledTrust, ActiveTrustConsumers, ListActiveTrustConsumers, Covers
<1> QED BY <1>1, Invariance, PTL

\* No live client is ever without the issuer of a live leaf of the other class.
THEOREM CoverTheorem == Spec => []TrustCoversLeaves
<1>1. ASSUME NEW s \in CARotationStates, RotOK(s), NEW b, Covers(b, s), NEW root \in Issuers(s)
      PROVE  root \in RootSet(b.roots)
  <2>1. CASE s.phase \in {"stable", "migrate"}
    BY <1>1, <2>1, Published, Zenon DEF Covers
  <2>2. CASE s.phase \in {"trust", "retire"}
    BY <1>1, <2>2, Zenon DEF Covers, Issuers, IssuingRoot
  <2> QED BY <2>1, <2>2, Zenon DEF CARotationStates
<1>2. IInv => TrustCoversLeaves
  <2> SUFFICES ASSUME IInv, NEW c \in Classes, NEW l \in Members(c),
                      NEW k \in Members(Opposite(c)), Live(l), Live(k),
                      file[l] # Absent, file[k] # Absent
               PROVE  file[l].cert.iss \in RootSet(file[k].bundle[c].roots)
    BY Zenon DEF TrustCoversLeaves
  <2>1. /\ rot[c] \in CARotationStates /\ RotOK(rot[c])
        /\ file[l].cert.iss \in Issuers(rot[c]) /\ Covers(file[k].bundle[c], rot[c])
    BY ClassView, Zenon
  <2> QED BY <1>1, <2>1, Zenon
<1> QED BY <1>2, Invariance, PTL
=============================================================================
