------------------------------ MODULE CRLProofs ------------------------------
(***************************************************************************)
(* For any set of revocations, roots, handlers and gateways: a receipt     *)
(* means its source is listed, a root's list only grows, and no work item  *)
(* ends uncovered.                                                         *)
(*                                                                         *)
(* None of the three is inductive.  What carries them is where each        *)
(* handler stands: a list about to be swapped in was computed after the    *)
(* durable list was read, so either its sequence is spent or it contains   *)
(* that list (JobOK); a list is made of recorded revocations of its root   *)
(* (Recorded); and a handler past its swap holds a receipt.                *)
(***************************************************************************)
EXTENDS CRL, TLAPS

Entries(V, i) == {s \in V : IssuerOf(s) = i}

Job == [pc : Pcs, src : Sources \cup {NoSource}, list : List,
        todo : SUBSET (Sources \cup Subscribers), flush : SUBSET Subscribers, lost : BOOLEAN]

\* A signed list that waits for its compare and swap over the list c.
SwapOK(j, c, V) ==
  /\ j.list.src = j.src
  /\ j.src \in j.list.listed
  /\ j.list.listed \subseteq Entries(V, IssuerOf(j.src))
  /\ j.list.seq > 0
  /\ j.list.seq <= c.seq + 1
  /\ j.list.seq = c.seq + 1 => c.listed \subseteq j.list.listed

CoverOK(j, c) ==
  /\ j.todo \subseteq j.list.listed
  /\ j.list.seq <= c.seq
  /\ j.list.listed \subseteq c.listed

\* Handler j over lists C, receipts R and revocations V.
JobOK(j, C, R, V) ==
  /\ j \in Job
  /\ j.pc # "flush" => j.flush = {}
  /\ j.pc # "idle" => j.src \in V
  /\ j.pc \in {"receipt", "revocations"} => j.list.seq <= C[IssuerOf(j.src)].seq
  /\ j.pc = "swap" => SwapOK(j, C[IssuerOf(j.src)], V)
  /\ j.pc = "cover" => CoverOK(j, C[IssuerOf(j.src)])
  /\ j.pc \in {"cover", "publish", "lock", "fanout", "flush"} => R[j.src] > 0

Tables ==
  /\ revoked \subseteq Sources
  /\ queued \subseteq revoked
  /\ crl \in [Issuers -> List]
  /\ receipt \in [Sources -> Nat]

Recorded == \A i \in Issuers : crl[i].listed \subseteq Entries(revoked, i)

Jobs ==
  /\ DOMAIN job = Workers
  /\ \A w \in Workers : JobOK(job[w], crl, receipt, revoked)

IInv == Tables /\ Recorded /\ Jobs /\ ReceiptMeansListed /\ NoWorkLost

-----------------------------------------------------------------------------
(* How lists and receipts may change under a handler *)

Grows(C, D) ==
  \A i \in Issuers :
    D[i] = C[i] \/ (D[i].seq = C[i].seq + 1 /\ C[i].listed \subseteq D[i].listed)

\* What a handler relies on survives every step of the others: a list that
\* waits for its swap when another list is stored has its sequence spent.
LEMMA JobFrame ==
  ASSUME NEW j, NEW C \in [Issuers -> List], NEW D \in [Issuers -> List],
         NEW R \in [Sources -> Nat], NEW Q \in [Sources -> Nat],
         NEW V \in SUBSET Sources, NEW W \in SUBSET Sources,
         V \subseteq W, Grows(C, D), \A s \in Sources : R[s] > 0 => Q[s] > 0,
         JobOK(j, C, R, V)
  PROVE  JobOK(j, D, Q, W)
<1>1. CASE j.pc = "idle"
  BY <1>1, Zenon DEF JobOK
<1>2. CASE j.pc # "idle"
  <2>1. j.src \in V /\ j.src \in W /\ j.src \in Sources /\ IssuerOf(j.src) \in Issuers
    BY <1>2, CRLAssumption, Zenon DEF JobOK
  <2> DEFINE c == C[IssuerOf(j.src)]
             d == D[IssuerOf(j.src)]
  <2>2. c \in List /\ d \in List /\ j.list \in List
    BY <2>1, Zenon DEF JobOK, Job
  <2>3. c.seq \in Nat /\ d.seq \in Nat /\ j.list.seq \in Nat
    BY <2>2, Zenon DEF List
  <2>4. d = c \/ (d.seq = c.seq + 1 /\ c.listed \subseteq d.listed)
    BY <2>1, Zenon DEF Grows
  <2> HIDE DEF c, d
  <2>5. SwapOK(j, c, V) => SwapOK(j, d, W)
    BY <2>3, <2>4 DEF SwapOK, Entries
  <2>6. CoverOK(j, c) => CoverOK(j, d)
    BY <2>3, <2>4 DEF CoverOK
  <2>7. j.list.seq <= c.seq => j.list.seq <= d.seq
    BY <2>3, <2>4
  <2>8. R[j.src] > 0 => Q[j.src] > 0
    BY <2>1, Zenon
  <2> QED BY <2>1, <2>5, <2>6, <2>7, <2>8, Zenon DEF JobOK, c, d
<1> QED BY <1>1, <1>2, Zenon

\* An idle handler relies on nothing.
LEMMA IdleOK ==
  ASSUME NEW C, NEW R, NEW V
  PROVE  JobOK(Idle, C, R, V) /\ Idle.pc = "idle" /\ NoList \in List
<1>1. NoList \in List
  BY Zenon DEF NoList, List
<1>2. Idle \in Job /\ Idle.pc = "idle" /\ Idle.flush = {}
  BY <1>1, Zenon DEF Idle, Job, Pcs
<1> QED BY <1>1, <1>2, Zenon DEF JobOK

\* A step that leaves the tables alone and moves one handler, ending at most
\* that handler's own, covered, work item.
LEMMA HandlerStep ==
  ASSUME IInv, NEW w \in Workers, NEW n, Goto(w, n),
         JobOK(n, crl, receipt, revoked),
         UNCHANGED <<revoked, crl, receipt, active>>,
         \/ UNCHANGED queued
         \/ /\ queued' = queued \ {job[w].src}
            /\ job[w].src \in Sources /\ receipt[job[w].src] > 0
  PROVE  IInv'
<1>1. Jobs'
  BY Zenon DEF IInv, Jobs, Goto
<1>2. Tables' /\ Recorded' /\ ReceiptMeansListed'
  BY Zenon DEF IInv, Tables, Recorded, ReceiptMeansListed
<1>3. NoWorkLost'
  BY Zenon DEF IInv, Tables, NoWorkLost, ReceiptMeansListed
<1> QED BY <1>1, <1>2, <1>3, Zenon DEF IInv

\* A step that moves no handler and no table.
LEMMA OtherStep ==
  ASSUME IInv, UNCHANGED <<revoked, queued, crl, receipt, active, job>>
  PROVE  IInv'
BY Zenon DEF IInv, Tables, Recorded, Jobs, ReceiptMeansListed, NoWorkLost

\* What a running handler of the model holds.
LEMMA Running ==
  ASSUME IInv, NEW w \in Workers, job[w].pc # "idle"
  PROVE  /\ JobOK(job[w], crl, receipt, revoked)
         /\ job[w] \in Job /\ job[w].src \in revoked /\ job[w].src \in Sources
         /\ Root(w) \in Issuers /\ job[w].list \in List
         /\ crl[Root(w)] \in List /\ receipt[job[w].src] \in Nat
<1>1. JobOK(job[w], crl, receipt, revoked)
  BY Zenon DEF IInv, Jobs
<1>2. job[w] \in Job /\ job[w].src \in revoked /\ job[w].src \in Sources
  BY <1>1, Zenon DEF JobOK, IInv, Tables
<1>3. Root(w) \in Issuers
  BY <1>2, CRLAssumption, Zenon DEF Root
<1> QED BY <1>1, <1>2, <1>3, Zenon DEF IInv, Tables, Job

-----------------------------------------------------------------------------
(* The steps of a handler *)

\* A list is read, and what was read is at most the durable list from then on.
LEMMA ReadKeeps ==
  ASSUME IInv, NEW w \in Workers, LatestCRL(w) \/ CertificateRevocations(w)
  PROVE  IInv'
<1>1. CASE LatestCRL(w)
  <2> DEFINE n == [job[w] EXCEPT !.pc = "receipt", !.list = crl[Root(w)]]
  <2>1. job[w].pc # "idle" /\ job[w].pc = "latest"
    BY <1>1, Zenon DEF LatestCRL
  <2>2. n \in Job /\ n.src = job[w].src /\ n.flush = {} /\ n.pc = "receipt"
        /\ n.list = crl[Root(w)]
    BY <2>1, Running, Zenon DEF Job, Pcs, JobOK
  <2>3. n.list.seq \in Nat
    BY <2>1, <2>2, Running, Zenon DEF List
  <2> HIDE DEF n
  <2>4. JobOK(n, crl, receipt, revoked)
    BY <2>1, <2>2, <2>3, Running DEF JobOK, Root
  <2> QED BY <1>1, <2>4, HandlerStep, Zenon DEF LatestCRL, Rest, n
<1>2. CASE CertificateRevocations(w)
  <2> DEFINE list == [seq |-> job[w].list.seq + 1, src |-> job[w].src,
                      listed |-> revocationListEntriesForIssuer(Root(w))]
             n == [job[w] EXCEPT !.pc = "swap", !.list = list]
  <2>1. job[w].pc # "idle" /\ job[w].pc = "revocations"
    BY <1>2, Zenon DEF CertificateRevocations
  <2>2. job[w].list.seq \in Nat /\ crl[Root(w)].seq \in Nat
    BY <2>1, Running, Zenon DEF List
  <2>3. list.listed = Entries(revoked, Root(w)) /\ list.src = job[w].src
        /\ list.seq = job[w].list.seq + 1
    BY Zenon DEF revocationListEntriesForIssuer, Entries
  <2>4. list \in List
    BY <2>1, <2>2, Running DEF List, revocationListEntriesForIssuer, IInv, Tables
  <2> HIDE DEF list
  <2>5. n \in Job /\ n.src = job[w].src /\ n.flush = {} /\ n.pc = "swap" /\ n.list = list
    BY <2>1, <2>4, Running, Zenon DEF Job, Pcs, JobOK
  <2>6. job[w].list.seq <= crl[Root(w)].seq
    BY <2>1, Running, Zenon DEF JobOK, Root
  <2>7. crl[Root(w)].listed \subseteq Entries(revoked, Root(w))
    BY <2>1, Running, Zenon DEF IInv, Recorded
  <2>8. job[w].src \in Entries(revoked, Root(w))
    BY <2>1, Running, Zenon DEF Entries, Root
  <2>9. Root(w) = IssuerOf(n.src)
    BY <2>5, Zenon DEF Root
  <2> HIDE DEF n
  <2>10. SwapOK(n, crl[Root(w)], revoked)
    BY <2>2, <2>3, <2>5, <2>6, <2>7, <2>8, <2>9 DEF SwapOK
  <2>11. JobOK(n, crl, receipt, revoked)
    BY <2>1, <2>5, <2>9, <2>10, Running, Zenon DEF JobOK
  <2> QED BY <1>2, <2>11, HandlerStep, Zenon DEF CertificateRevocations, Rest, n, list
<1> QED BY <1>1, <1>2, Zenon

\* The receipt that ends the item means that its source is listed.
LEMMA ReceiptKeeps ==
  ASSUME IInv, NEW w \in Workers, CRLWorkReceipt(w)
  PROVE  IInv'
<1>1. job[w].pc # "idle" /\ job[w].pc = "receipt"
  BY Zenon DEF CRLWorkReceipt
<1>2. JobOK(Idle, crl, receipt, revoked)
  BY IdleOK, Zenon
<1>3. CASE receipt[job[w].src] = 0 /\ Goto(w, [job[w] EXCEPT !.pc = "revocations"])
           /\ UNCHANGED queued
  <2>1. JobOK([job[w] EXCEPT !.pc = "revocations"], crl, receipt, revoked)
    BY <1>1, Running, Zenon DEF JobOK, Job, Pcs
  <2> QED BY <1>3, <2>1, HandlerStep, Zenon DEF CRLWorkReceipt, Rest
<1>4. CASE Retry(w)
  BY <1>2, <1>4, HandlerStep, Zenon DEF CRLWorkReceipt, Rest, Retry
<1>5. CASE receipt[job[w].src] > 0 /\ Finish(w)
  BY <1>1, <1>2, <1>5, Running, HandlerStep, Zenon DEF CRLWorkReceipt, Rest, Finish
<1>6. CASE receipt[job[w].src] > 0 /\ Goto(w, [job[w] EXCEPT !.pc = "publish"])
           /\ UNCHANGED queued
  <2>1. JobOK([job[w] EXCEPT !.pc = "publish"], crl, receipt, revoked)
    BY <1>1, <1>6, Running, Zenon DEF JobOK, Job, Pcs
  <2> QED BY <1>6, <2>1, HandlerStep, Zenon DEF CRLWorkReceipt, Rest
<1> QED BY <1>3, <1>4, <1>5, <1>6, Zenon DEF CRLWorkReceipt

\* A stored list contains the list it replaces, and its receipt is true of it.
LEMMA SwapStores ==
  ASSUME IInv, NEW w \in Workers, job[w].pc = "swap",
         crl[Root(w)].seq + 1 = job[w].list.seq,
         crl' = [crl EXCEPT ![Root(w)] = job[w].list],
         receipt' = [receipt EXCEPT ![job[w].list.src] = job[w].list.seq],
         Goto(w, [job[w] EXCEPT !.pc = "cover", !.todo = job[w].list.listed]),
         UNCHANGED <<revoked, queued, active>>
  PROVE  IInv' /\ Grows(crl, crl')
<1> DEFINE i == Root(w)
           list == job[w].list
           src == job[w].src
           n == [job[w] EXCEPT !.pc = "cover", !.todo = list.listed]
<1>1. JobOK(job[w], crl, receipt, revoked) /\ job[w] \in Job /\ src \in revoked
      /\ src \in Sources /\ i \in Issuers /\ list \in List /\ crl[i] \in List
  BY Running, Zenon
<1>2. SwapOK(job[w], crl[i], revoked)
  BY <1>1, Zenon DEF JobOK, Root
<1>3. /\ list.src = src /\ src \in list.listed /\ list.seq > 0
      /\ list.listed \subseteq Entries(revoked, i)
      /\ crl[i].listed \subseteq list.listed
  BY <1>2, Zenon DEF SwapOK, Root
<1>4. list.seq \in Nat /\ crl[i].seq \in Nat /\ list.listed \subseteq Sources
  BY <1>1, Zenon DEF List
<1>5. crl \in [Issuers -> List] /\ receipt \in [Sources -> Nat] /\ revoked \in SUBSET Sources
  BY Zenon DEF IInv, Tables
<1>6. crl' \in [Issuers -> List] /\ crl'[i] = list
      /\ \A k \in Issuers : k # i => crl'[k] = crl[k]
  BY <1>1, <1>5, Zenon
<1>7. receipt' \in [Sources -> Nat] /\ receipt'[src] = list.seq
      /\ \A s \in Sources : s # src => receipt'[s] = receipt[s]
  BY <1>1, <1>3, <1>4, <1>5, Zenon
<1>8. Grows(crl, crl')
  BY <1>3, <1>4, <1>6, Zenon DEF Grows
<1>9. \A s \in Sources : receipt[s] > 0 => receipt'[s] > 0
  BY <1>3, <1>7, Zenon
<1>10. Tables' /\ Recorded'
  BY <1>3, <1>6, <1>7, Zenon DEF IInv, Tables, Recorded
<1>11. n \in Job /\ n.src = src /\ n.flush = {} /\ n.pc = "cover" /\ n.list = list
       /\ n.todo = list.listed
  BY <1>1, <1>4, Zenon DEF Job, Pcs, JobOK
<1>12. IssuerOf(n.src) = i
  BY <1>11, Zenon DEF Root
<1> HIDE DEF n, list, src, i
<1>13. CoverOK(n, crl'[i])
  BY <1>4, <1>6, <1>11 DEF CoverOK
<1>14. JobOK(n, crl', receipt', revoked')
  BY <1>1, <1>3, <1>7, <1>11, <1>12, <1>13, Zenon DEF JobOK
<1>15. ASSUME NEW v \in Workers
       PROVE  JobOK(job[v], crl', receipt', revoked')
  <2>1. JobOK(job[v], crl, receipt, revoked)
    BY Zenon DEF IInv, Jobs
  <2>2. JobOK(job[v], crl', receipt', revoked)
    <3> HIDE DEF IInv
    <3> QED BY ONLY <1>5, <1>6, <1>7, <1>8, <1>9, <2>1, JobFrame, Zenon
  <2> QED BY <2>2, Zenon
<1>16. Jobs'
  BY <1>14, <1>15, Zenon DEF IInv, Jobs, Goto, n, list
<1>17. ReceiptMeansListed'
  <2> SUFFICES ASSUME NEW s \in Sources, receipt'[s] > 0
               PROVE  receipt'[s] <= crl'[IssuerOf(s)].seq /\ s \in crl'[IssuerOf(s)].listed
    BY Zenon DEF ReceiptMeansListed
  <2>1. CASE s = src
    BY <1>3, <1>4, <1>6, <1>7, <2>1 DEF i, src, Root
  <2>2. CASE s # src
    <3>1. IssuerOf(s) \in Issuers
      BY CRLAssumption, Zenon
    <3>2. receipt[s] <= crl[IssuerOf(s)].seq /\ s \in crl[IssuerOf(s)].listed
          /\ receipt'[s] = receipt[s] /\ receipt[s] \in Nat
      BY <1>5, <1>7, <2>2, Zenon DEF IInv, ReceiptMeansListed
    <3>3. crl[IssuerOf(s)].seq \in Nat
      BY <1>5, <3>1, Zenon DEF List
    <3> QED BY <1>8, <3>1, <3>2, <3>3 DEF Grows
  <2> QED BY <2>1, <2>2, Zenon
<1>18. NoWorkLost'
  <2> SUFFICES ASSUME NEW s \in revoked \ queued, IssuerOf(s) \in active
               PROVE  s \in crl'[IssuerOf(s)].listed
    BY Zenon DEF NoWorkLost
  <2>1. s \in crl[IssuerOf(s)].listed /\ IssuerOf(s) \in Issuers
    BY <1>5, CRLAssumption, Zenon DEF IInv, NoWorkLost
  <2> QED BY <1>8, <2>1, Zenon DEF Grows
<1> QED BY <1>8, <1>10, <1>16, <1>17, <1>18, Zenon DEF IInv

\* A lost swap, or a receipt found in its way, stores nothing.
LEMMA SwapKeeps ==
  ASSUME IInv, NEW w \in Workers, CompareAndSwapCRL(w)
  PROVE  IInv' /\ Grows(crl, crl')
<1>1. job[w].pc = "swap" /\ job[w].pc # "idle"
  BY Zenon DEF CompareAndSwapCRL
<1>2. JobOK(Idle, crl, receipt, revoked) /\ NoList \in List
  BY IdleOK, Zenon
<1>3. CASE UNCHANGED <<crl, receipt>> /\ Retry(w)
  BY <1>2, <1>3, HandlerStep, Zenon DEF CompareAndSwapCRL, Rest, Retry, Grows
<1>4. CASE UNCHANGED <<crl, receipt>> /\ LostSwap(w)
  <2> DEFINE n == [job[w] EXCEPT !.pc = "latest", !.list = NoList]
  <2>1. n \in Job /\ n.src = job[w].src /\ n.flush = {} /\ n.pc = "latest"
    BY <1>1, <1>2, Running, Zenon DEF Job, Pcs, JobOK
  <2> HIDE DEF n
  <2>2. JobOK(n, crl, receipt, revoked)
    BY <1>1, <2>1, Running, Zenon DEF JobOK
  <2> QED BY <1>4, <2>2, HandlerStep, Zenon DEF CompareAndSwapCRL, Rest, LostSwap, Grows, n
<1>5. CASE /\ crl[Root(w)].seq + 1 = job[w].list.seq
           /\ crl' = [crl EXCEPT ![Root(w)] = job[w].list]
           /\ receipt' = [receipt EXCEPT ![job[w].list.src] = job[w].list.seq]
           /\ Goto(w, [job[w] EXCEPT !.pc = "cover", !.todo = job[w].list.listed])
           /\ UNCHANGED queued
  BY <1>1, <1>5, SwapStores, Zenon DEF CompareAndSwapCRL, Rest
<1> QED BY <1>3, <1>4, <1>5, Zenon DEF CompareAndSwapCRL

\* The sources a stored list covers are listed in it, and stay listed in every
\* later list, when their receipts are written after the swap.
LEMMA CoverKeeps ==
  ASSUME IInv, NEW w \in Workers, RecordCoveredCRLWorkReceipt(w)
  PROVE  IInv'
<1> DEFINE i == Root(w)
           list == job[w].list
<1>1. job[w].pc = "cover" /\ job[w].pc # "idle"
  BY Zenon DEF RecordCoveredCRLWorkReceipt
<1>2. JobOK(job[w], crl, receipt, revoked) /\ job[w] \in Job /\ job[w].src \in revoked
      /\ job[w].src \in Sources /\ i \in Issuers /\ list \in List /\ crl[i] \in List
  BY <1>1, Running, Zenon
<1>3. CoverOK(job[w], crl[i]) /\ receipt[job[w].src] > 0 /\ job[w].flush = {}
  BY <1>1, <1>2, Zenon DEF JobOK, Root
<1>4. CASE Goto(w, [job[w] EXCEPT !.pc = "publish"]) /\ UNCHANGED receipt
  <2>1. JobOK([job[w] EXCEPT !.pc = "publish"], crl, receipt, revoked)
    BY <1>1, <1>2, Zenon DEF JobOK, Job, Pcs
  <2> QED BY <1>4, <2>1, HandlerStep, Zenon DEF RecordCoveredCRLWorkReceipt, Rest
<1>5. ASSUME NEW s \in job[w].todo,
             receipt' = [receipt EXCEPT ![s] = IF @ = 0 THEN job[w].list.seq ELSE @],
             Goto(w, [job[w] EXCEPT !.todo = @ \ {s}])
      PROVE  IInv'
  <2> DEFINE n == [job[w] EXCEPT !.todo = @ \ {s}]
  <2>1. UNCHANGED <<revoked, queued, crl, active>>
    BY Zenon DEF RecordCoveredCRLWorkReceipt, Rest
  <2>2. s \in list.listed /\ s \in crl[i].listed /\ s \in Sources /\ list.seq <= crl[i].seq
        /\ list.seq \in Nat /\ crl[i].seq \in Nat
    BY <1>2, <1>3, <1>5, Zenon DEF CoverOK, List
  <2>3. IssuerOf(s) = i
    BY <1>2, <2>2, Zenon DEF IInv, Recorded, Entries
  <2>4. crl \in [Issuers -> List] /\ receipt \in [Sources -> Nat] /\ revoked \in SUBSET Sources
    BY Zenon DEF IInv, Tables
  <2>5. receipt' \in [Sources -> Nat] /\ (receipt'[s] = receipt[s] \/ receipt'[s] = list.seq)
        /\ (receipt[s] > 0 => receipt'[s] = receipt[s])
        /\ \A t \in Sources : t # s => receipt'[t] = receipt[t]
    BY <1>5, <2>2, <2>4
  <2>6. Tables' /\ Recorded' /\ NoWorkLost'
    BY <2>1, <2>5, Zenon DEF IInv, Tables, Recorded, NoWorkLost
  <2>7. \A t \in Sources : receipt[t] > 0 => receipt'[t] > 0
    BY <2>5, Zenon
  <2>8. n \in Job /\ n.src = job[w].src /\ n.flush = {} /\ n.pc = "cover" /\ n.list = list
        /\ n.todo \subseteq job[w].todo
    BY <1>1, <1>2, <1>3, Zenon DEF Job
  <2> HIDE DEF n
  <2>9. JobOK(n, crl, receipt, revoked)
    BY <1>2, <1>3, <2>8, Zenon DEF JobOK, CoverOK, Root
  <2>10. Grows(crl, crl)
    BY Zenon DEF Grows
  <2>11. JobOK(n, crl, receipt', revoked)
         /\ \A v \in Workers : JobOK(job[v], crl, receipt', revoked)
    BY <2>4, <2>5, <2>7, <2>9, <2>10, JobFrame, Zenon DEF IInv, Jobs
  <2>12. Jobs'
    BY <1>5, <2>1, <2>11, Zenon DEF IInv, Jobs, Goto, n
  <2>13. ReceiptMeansListed'
    BY <2>1, <2>2, <2>3, <2>5, Zenon DEF IInv, ReceiptMeansListed
  <2> QED BY <2>6, <2>12, <2>13, Zenon DEF IInv
<1> QED BY <1>4, <1>5, Zenon DEF RecordCoveredCRLWorkReceipt

\* A job that differs in its place among the publication steps only.
LEMMA PublishingOK ==
  ASSUME NEW j, NEW n \in Job, JobOK(j, crl, receipt, revoked),
         j.pc \in {"publish", "lock", "fanout", "flush"},
         n.pc \in {"publish", "lock", "fanout", "flush"},
         n.src = j.src, n.pc # "flush" => n.flush = {}
  PROVE  JobOK(n, crl, receipt, revoked)
BY Zenon DEF JobOK

\* A published item is covered: it ends, or starts over.
LEMMA PublishKeeps ==
  ASSUME IInv, NEW w \in Workers,
         \/ PublishDurable(w) \/ Publish(w) \/ Published(w)
         \/ \E g \in Subscribers : enqueue(w, g)
  PROVE  IInv'
<1>1. job[w].pc # "idle" /\ job[w].pc \in {"publish", "lock", "fanout"}
      /\ UNCHANGED <<revoked, crl, receipt, active>>
  BY Zenon DEF PublishDurable, Publish, Published, enqueue, Rest
<1>2. JobOK(job[w], crl, receipt, revoked) /\ job[w] \in Job /\ job[w].src \in Sources
  BY <1>1, Running, Zenon
<1>3. receipt[job[w].src] > 0 /\ job[w].flush = {}
  BY <1>1, <1>2, Zenon DEF JobOK
<1>4. JobOK(Idle, crl, receipt, revoked)
  BY IdleOK, Zenon
<1>5. CASE Goto(w, Idle) /\ (UNCHANGED queued \/ queued' = queued \ {job[w].src})
  BY <1>1, <1>2, <1>3, <1>4, <1>5, HandlerStep, Zenon
<1>6. ASSUME NEW p \in {"lock", "fanout"}, NEW T \in SUBSET Subscribers,
             \/ Goto(w, [job[w] EXCEPT !.pc = p])
             \/ Goto(w, [job[w] EXCEPT !.pc = p, !.todo = T]),
             UNCHANGED queued
      PROVE  IInv'
  <2>1. [job[w] EXCEPT !.pc = p] \in Job /\ [job[w] EXCEPT !.pc = p, !.todo = T] \in Job
    BY <1>2, Zenon DEF Job, Pcs
  <2>2. JobOK([job[w] EXCEPT !.pc = p], crl, receipt, revoked)
    BY <1>1, <1>2, <1>3, <2>1, Zenon DEF JobOK, Job
  <2>3. JobOK([job[w] EXCEPT !.pc = p, !.todo = T], crl, receipt, revoked)
    BY <1>1, <1>2, <1>3, <2>1, Zenon DEF JobOK, Job
  <2> QED BY <1>1, <1>6, <2>2, <2>3, HandlerStep, Zenon
<1>7. CASE PublishDurable(w)
  BY <1>5, <1>6, <1>7, Zenon DEF PublishDurable
<1>8. CASE Publish(w)
  <2>1. {g \in Subscribers : sub[g].state = "on"} \in SUBSET Subscribers
    BY Zenon
  <2> QED BY <1>5, <1>6, <1>8, <2>1, Zenon DEF Publish, Finish, Retry
<1>9. CASE Published(w)
  BY <1>5, <1>9, Zenon DEF Published, Finish
<1>10. ASSUME NEW g \in Subscribers, enqueue(w, g)
       PROVE  IInv'
  <2> DEFINE n == [job[w] EXCEPT !.pc = "flush", !.flush = {g}]
  <2>1. n \in Job /\ n.src = job[w].src /\ n.pc = "flush"
    BY <1>2, Zenon DEF Job, Pcs
  <2> HIDE DEF n
  <2>2. JobOK(n, crl, receipt, revoked)
    BY <1>1, <1>2, <2>1, PublishingOK, Zenon
  <2> QED BY <1>1, <1>10, <2>2, HandlerStep, Zenon DEF enqueue, n
<1> QED BY <1>7, <1>8, <1>9, <1>10, Zenon

\* An item starts with a handler, or ends because its root has left.
LEMMA HandleKeeps ==
  ASSUME IInv, NEW w \in Workers, NEW s \in Sources, HandleCRLWork(w, s)
  PROVE  IInv'
<1>1. UNCHANGED <<revoked, crl, receipt, active>> /\ s \in queued /\ s \in revoked
  BY Zenon DEF HandleCRLWork, Rest, IInv, Tables
<1>2. CASE Goto(w, [Idle EXCEPT !.pc = "latest", !.src = s]) /\ UNCHANGED queued
  <2> DEFINE n == [Idle EXCEPT !.pc = "latest", !.src = s]
  <2>1. NoList \in List
    BY IdleOK, Zenon
  <2>2. n \in Job /\ n.src = s /\ n.pc = "latest" /\ n.flush = {}
    BY <2>1, Zenon DEF Job, Pcs, Idle
  <2> HIDE DEF n
  <2>3. JobOK(n, crl, receipt, revoked)
    BY <1>1, <2>2, Zenon DEF JobOK
  <2> QED BY <1>1, <1>2, <2>3, HandlerStep, Zenon DEF n
<1>3. CASE IssuerOf(s) \notin active /\ queued' = queued \ {s} /\ UNCHANGED job
  BY <1>1, <1>3, Zenon DEF IInv, Tables, Recorded, Jobs, ReceiptMeansListed, NoWorkLost
<1> QED BY <1>2, <1>3, Zenon DEF HandleCRLWork

\* A handler whose session is lost relies on what it relied on before.
LEMMA SessionKeeps ==
  ASSUME IInv, NEW w \in Workers, LoseSession(w)
  PROVE  IInv'
<1> DEFINE n == [job[w] EXCEPT !.lost = TRUE]
<1>1. JobOK(job[w], crl, receipt, revoked) /\ job[w] \in Job
  BY Zenon DEF IInv, Jobs, JobOK
<1>2. n \in Job /\ n.src = job[w].src /\ n.pc = job[w].pc /\ n.flush = job[w].flush
      /\ n.list = job[w].list /\ n.todo = job[w].todo
  BY <1>1, Zenon DEF Job
<1> HIDE DEF n
<1>3. JobOK(n, crl, receipt, revoked)
  BY <1>1, <1>2, Zenon DEF JobOK, SwapOK, CoverOK
<1> QED BY <1>3, HandlerStep, Zenon DEF LoseSession, n

-----------------------------------------------------------------------------
(* The other steps *)

\* A flushed handler goes on with its fan-out; a closed stream leaves every
\* fan-out.
LEMMA FlushKeeps ==
  ASSUME IInv, NEW g \in Subscribers, reclaimBuffered(g) \/ StreamEnds(g)
  PROVE  IInv'
<1>1. UNCHANGED <<revoked, queued, crl, receipt, active>>
  BY Zenon DEF reclaimBuffered, StreamEnds
<1>2. ASSUME NEW w \in Workers, w \in Flushing(g)
      PROVE  JobOK(Flushed(job[w], g), crl, receipt, revoked)
  <2>1. JobOK(job[w], crl, receipt, revoked) /\ job[w].flush = {g}
    BY <1>2, Zenon DEF IInv, Jobs, Flushing
  <2>2. job[w].pc = "flush" /\ job[w] \in Job
    BY <2>1, Zenon DEF JobOK
  <2> DEFINE n == Flushed(job[w], g)
  <2>3. n \in Job /\ n.src = job[w].src /\ n.pc = "fanout" /\ n.flush = {}
    BY <2>2, Zenon DEF Job, Pcs, Flushed
  <2> HIDE DEF n
  <2>4. JobOK(n, crl, receipt, revoked)
    BY <2>1, <2>2, <2>3, PublishingOK, Zenon
  <2> QED BY <2>4, Zenon DEF n
<1>3. ASSUME NEW w \in Workers
      PROVE  JobOK([job[w] EXCEPT !.todo = @ \ {g}], crl, receipt, revoked)
  <2> DEFINE n == [job[w] EXCEPT !.todo = @ \ {g}]
  <2>1. JobOK(job[w], crl, receipt, revoked) /\ job[w] \in Job
    BY Zenon DEF IInv, Jobs, JobOK
  <2>2. n \in Job /\ n.src = job[w].src /\ n.pc = job[w].pc /\ n.flush = job[w].flush
        /\ n.list = job[w].list /\ n.todo \subseteq job[w].todo
    BY <2>1, Zenon DEF Job
  <2> HIDE DEF n
  <2>3. JobOK(n, crl, receipt, revoked)
    BY <2>1, <2>2, Zenon DEF JobOK, SwapOK, CoverOK
  <2> QED BY <2>3, Zenon DEF n
<1>4. CASE UNCHANGED job
  BY <1>1, <1>4, OtherStep, Zenon
<1>5. ASSUME NEW w \in Flushing(g), Goto(w, Flushed(job[w], g))
      PROVE  IInv'
  <2>1. w \in Workers
    BY Zenon DEF Flushing
  <2> QED BY <1>1, <1>2, <1>5, <2>1, HandlerStep, Zenon
<1>6. CASE StreamEnds(g)
  <2>1. Jobs'
    BY <1>1, <1>2, <1>3, <1>6, Zenon DEF StreamEnds, Jobs
  <2> QED BY <1>1, <2>1, Zenon DEF IInv, Tables, Recorded, ReceiptMeansListed, NoWorkLost
<1> QED BY <1>4, <1>5, <1>6, Zenon DEF reclaimBuffered

\* A revocation adds a source that is queued, and no list yet.
LEMMA RevokeKeeps ==
  ASSUME IInv, NEW s \in Sources, projectCertificateRevocation(s)
  PROVE  IInv'
<1> DEFINE V == revoked \cup {s}
<1>1. revoked' = V /\ V \in SUBSET Sources /\ revoked \in SUBSET Sources /\ revoked \subseteq V
      /\ crl \in [Issuers -> List] /\ receipt \in [Sources -> Nat]
      /\ UNCHANGED <<crl, receipt, active, job>> /\ queued' = queued \cup {s}
  BY Zenon DEF projectCertificateRevocation, IInv, Tables
<1> HIDE DEF V
<1>2. Grows(crl, crl)
  BY Zenon DEF Grows
<1>3. ASSUME NEW w \in Workers PROVE JobOK(job[w], crl, receipt, V)
  BY <1>1, <1>2, JobFrame, Zenon DEF IInv, Jobs
<1>4. Jobs'
  BY <1>1, <1>3, Zenon DEF IInv, Jobs
<1>5. Tables' /\ Recorded' /\ ReceiptMeansListed'
  BY <1>1, Zenon DEF IInv, Tables, Recorded, ReceiptMeansListed, Entries, V
<1>6. NoWorkLost'
  BY <1>1, Zenon DEF IInv, NoWorkLost, V
<1> QED BY <1>4, <1>5, <1>6, Zenon DEF IInv

\* A root that leaves the snapshot excuses its items.
LEMMA RetireKeeps ==
  ASSUME IInv, NEW i \in Issuers, RetireIssuer(i)
  PROVE  IInv'
BY Zenon DEF RetireIssuer, IInv, Tables, Recorded, Jobs, ReceiptMeansListed, NoWorkLost

\* After a crash every handler is idle and the tables are as they were.
LEMMA CrashKeeps ==
  ASSUME IInv, Crash
  PROVE  IInv'
<1>1. Jobs'
  BY IdleOK, Zenon DEF Crash, Jobs
<1> QED BY <1>1, Zenon DEF Crash, IInv, Tables, Recorded, ReceiptMeansListed, NoWorkLost

\* Every step keeps the invariant and replaces a list by a larger one only.
LEMMA StepKeeps ==
  ASSUME IInv, [Next]_vars
  PROVE  IInv' /\ Grows(crl, crl')
<1>1. UNCHANGED crl => Grows(crl, crl')
  BY Zenon DEF Grows
<1>2. CASE UNCHANGED vars
  BY <1>1, <1>2, OtherStep, Zenon DEF vars
<1>3. ASSUME NEW s \in Sources, projectCertificateRevocation(s) PROVE IInv' /\ Grows(crl, crl')
  BY <1>1, <1>3, RevokeKeeps, Zenon DEF projectCertificateRevocation
<1>4. ASSUME NEW i \in Issuers, RetireIssuer(i) PROVE IInv' /\ Grows(crl, crl')
  BY <1>1, <1>4, RetireKeeps, Zenon DEF RetireIssuer
<1>5. ASSUME NEW w \in Workers, Handler(w) PROVE IInv' /\ Grows(crl, crl')
  <2>1. ASSUME NEW s \in Sources, HandleCRLWork(w, s) PROVE IInv' /\ Grows(crl, crl')
    BY <1>1, <2>1, HandleKeeps, Zenon DEF HandleCRLWork
  <2>2. CASE LatestCRL(w) \/ CertificateRevocations(w)
    BY <1>1, <2>2, ReadKeeps, Zenon DEF LatestCRL, CertificateRevocations
  <2>3. CASE CRLWorkReceipt(w)
    BY <1>1, <2>3, ReceiptKeeps, Zenon DEF CRLWorkReceipt
  <2>4. CASE CompareAndSwapCRL(w)
    BY <2>4, SwapKeeps, Zenon
  <2>5. CASE RecordCoveredCRLWorkReceipt(w)
    BY <1>1, <2>5, CoverKeeps, Zenon DEF RecordCoveredCRLWorkReceipt
  <2>6. CASE \/ PublishDurable(w) \/ Publish(w) \/ Published(w)
             \/ \E g \in Subscribers : enqueue(w, g)
    BY <1>1, <2>6, PublishKeeps, Zenon DEF PublishDurable, Publish, Published, enqueue
  <2> QED BY <1>5, <2>1, <2>2, <2>3, <2>4, <2>5, <2>6, Zenon DEF Handler
<1>6. ASSUME NEW w \in Workers, HandlerFails(w) PROVE IInv' /\ Grows(crl, crl')
  BY <1>1, <1>6, IdleOK, HandlerStep, Zenon DEF HandlerFails
<1>7. ASSUME NEW w \in Workers, LoseSession(w) PROVE IInv' /\ Grows(crl, crl')
  BY <1>1, <1>7, SessionKeeps, Zenon DEF LoseSession
<1>8. ASSUME NEW g \in Subscribers, reclaimBuffered(g) \/ StreamEnds(g)
      PROVE  IInv' /\ Grows(crl, crl')
  BY <1>1, <1>8, FlushKeeps, Zenon DEF reclaimBuffered, StreamEnds
<1>9. ASSUME NEW g \in Subscribers,
             CurrentCRLs(g) \/ Subscribe(g) \/ take(g) \/ Send(g) \/ Receive(g)
      PROVE  IInv' /\ Grows(crl, crl')
  BY <1>1, <1>9, OtherStep, Zenon DEF CurrentCRLs, Subscribe, take, Send, Receive
<1>10. CASE Crash
  BY <1>1, <1>10, CrashKeeps, Zenon DEF Crash
<1> QED BY <1>2, <1>3, <1>4, <1>5, <1>6, <1>7, <1>8, <1>9, <1>10, Zenon DEF Next, Subscription

\* The first lists are empty, no receipt is recorded and every handler is idle.
LEMMA InitOK == Init => IInv
<1> SUFFICES ASSUME Init PROVE IInv
  BY Zenon
<1>1. Jobs
  BY IdleOK, Zenon DEF Init, Jobs
<1>2. Tables /\ Recorded
  BY Zenon DEF Init, Tables, Recorded, FirstList, NoList, List
<1>3. ReceiptMeansListed /\ NoWorkLost
  BY DEF Init, ReceiptMeansListed, NoWorkLost
<1> QED BY <1>1, <1>2, <1>3, Zenon DEF IInv

\* The invariant holds throughout.
LEMMA Invariance == Spec => []IInv
BY InitOK, StepKeeps, PTL DEF Spec

-----------------------------------------------------------------------------

\* A receipt ends a work item (sign returns on it without signing): whatever
\* handlers, lost swaps, failed publications and restarts interleave, the
\* root's durable list lists its source.
THEOREM ReceiptsTrue == Spec => []ReceiptMeansListed
<1>1. IInv => ReceiptMeansListed
  BY Zenon DEF IInv
<1> QED BY <1>1, Invariance, PTL

\* A revocation whose work item is gone is listed, or its root has retired.
THEOREM WorkNotLost == Spec => []NoWorkLost
<1>1. IInv => NoWorkLost
  BY Zenon DEF IInv
<1> QED BY <1>1, Invariance, PTL

\* CompareAndSwapCRL never replaces a list by one that forgets a revocation.
THEOREM ListsGrow == Spec => ListsOnlyGrow
<1>1. IInv /\ [Next]_vars
      => [\A i \in Issuers : crl'[i] # crl[i] =>
            /\ crl'[i].seq = crl[i].seq + 1
            /\ crl[i].listed \subseteq crl'[i].listed]_vars
  BY StepKeeps, Zenon DEF Grows
<1> QED BY <1>1, Invariance, PTL DEF Spec, ListsOnlyGrow

==============================================================================
