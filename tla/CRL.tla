--------------------------------- MODULE CRL ---------------------------------
(***************************************************************************)
(* Certificate revocation lists of one certificate class: the revocations  *)
(* that the device and gateway projectors record with a durable work item  *)
(* each, the issuer whose work handlers sign the next list of a root by    *)
(* compare and swap, and the distributor that pushes lists to subscribed   *)
(* gateways.  A revocation is named by its source event; the list of a     *)
(* root is the set of sources it covers, under a sequence number.          *)
(*                                                                         *)
(* Handlers run concurrently, statement by statement; every read and write *)
(* of the database is a step.  The durable queue (module WorkQueue) runs a *)
(* queued item until a handler of it succeeds.                             *)
(***************************************************************************)
EXTENDS Naturals, FiniteSets

CONSTANTS Sources,        \* revocation events
          NoSource,       \* the source of a root's first, empty list
          Issuers,        \* CA roots of the class
          Successor,      \* the root that issues once the others have retired
          IssuerOf(_),    \* the root that signed the certificate of a source
          Before(_, _),   \* the order of the issuers' fingerprints
          Workers,        \* concurrent work handlers
          Subscribers,    \* gateway streams
          MaxFaults       \* bound: failed statements, lost sessions, crashes, stream ends

ASSUME CRLAssumption ==
  /\ NoSource \notin Sources /\ MaxFaults \in Nat /\ Successor \in Issuers
  /\ \A s \in Sources : IssuerOf(s) \in Issuers

VARIABLES
  revoked,   \* certificate_revocations
  queued,    \* work items not yet done
  crl,       \* crl_state: the durable list of each root
  receipt,   \* crl_work_receipts: the sequence that covers a source, or 0
  active,    \* roots in the class's rotation snapshot
  job,       \* what each handler is doing
  latest,    \* distributor: the newest list it has seen of each root
  sub,       \* distributor: the subscription of each stream
  got,       \* the newest list each gateway has received of each root
  faults

vars == <<revoked, queued, crl, receipt, active, job, latest, sub, got, faults>>

List == [seq : Nat, listed : SUBSET Sources, src : Sources \cup {NoSource}]
NoList == [seq |-> 0, listed |-> {}, src |-> NoSource]
FirstList == [NoList EXCEPT !.seq = 1]
Pcs == {"idle", "latest", "receipt", "revocations", "swap", "cover",
        "publish", "lock", "fanout", "flush"}
\* lost: the database session whose transaction claimed the item is gone.
Idle == [pc |-> "idle", src |-> NoSource, list |-> NoList, todo |-> {}, flush |-> {}, lost |-> FALSE]
Closed == [state |-> "off", seen |-> [i \in Issuers |-> NoList],
           pending |-> [i \in Issuers |-> NoList], wake |-> FALSE,
           hand |-> {}, buf |-> {}]

Init ==
  /\ revoked = {} /\ queued = {}
  /\ crl = [i \in Issuers |-> FirstList]
  /\ receipt = [s \in Sources |-> 0]
  /\ active = Issuers
  /\ job = [w \in Workers |-> Idle]
  /\ latest = [i \in Issuers |-> NoList]
  /\ sub = [g \in Subscribers |-> Closed]
  /\ got = [g \in Subscribers |-> [i \in Issuers |-> NoList]]
  /\ faults = 0

-----------------------------------------------------------------------------
(* Revocations and rotation *)

\* A certificate is revoked, by renewal, revocation, forced renewal or
\* deletion: the row and its work item commit with the event.  A later event
\* about the same certificate (the renewal after a forced one) finds the row,
\* with its first source, and queues one more item; crlAuthority finds no row
\* of that source and ends the item, so it is left out.
projectCertificateRevocation(s) ==
  /\ s \notin revoked
  /\ revoked' = revoked \cup {s}
  /\ queued' = queued \cup {s}
  /\ UNCHANGED <<crl, receipt, active, job, latest, sub, got, faults>>

\* Normalize drops a root from the snapshot, under the exclusive fence that no
\* running handler's shared fence overlaps; its successor remains.
RetireIssuer(i) ==
  /\ i \in active \ {Successor}
  /\ \A w \in Workers : job[w].pc = "idle"
  /\ active' = active \ {i}
  /\ UNCHANGED <<revoked, queued, crl, receipt, job, latest, sub, got, faults>>

-----------------------------------------------------------------------------
(* The issuer's handlers *)

Goto(w, j) == job' = [job EXCEPT ![w] = j]
Rest == <<revoked, active, latest, sub, got, faults>>

\* handleCRLWork and crlAuthority: the root of the source's certificate, when
\* the snapshot still names it; otherwise the item is done.  The item's row is
\* locked as long as the session of the worker that claimed it lasts.
HandleCRLWork(w, s) ==
  /\ job[w].pc = "idle" /\ s \in queued
  /\ \A v \in Workers : job[v].src = s => job[v].lost
  /\ \/ /\ IssuerOf(s) \in active
        /\ Goto(w, [Idle EXCEPT !.pc = "latest", !.src = s])
        /\ UNCHANGED queued
     \/ /\ IssuerOf(s) \notin active
        /\ queued' = queued \ {s}
        /\ UNCHANGED job
  /\ UNCHANGED <<crl, receipt>> /\ UNCHANGED Rest

Root(w) == IssuerOf(job[w].src)

\* A worker that has lost its session cannot delete the item any more.
Finish(w) == Goto(w, Idle) /\ queued' = IF job[w].lost THEN queued ELSE queued \ {job[w].src}
MutRetry(w) == Finish(w)
Retry(w) == Goto(w, Idle) /\ UNCHANGED queued

LatestCRL(w) ==
  /\ job[w].pc = "latest"
  /\ Goto(w, [job[w] EXCEPT !.pc = "receipt", !.list = crl[Root(w)]])
  /\ UNCHANGED <<queued, crl, receipt>> /\ UNCHANGED Rest

MutCRLWorkReceipt(w) ==
  /\ job[w].pc = "receipt"
  /\ \/ /\ receipt[job[w].src] = 0
        /\ Goto(w, [job[w] EXCEPT !.pc = "revocations"])
        /\ UNCHANGED queued
     \/ receipt[job[w].src] > 0 /\ Finish(w)
  /\ UNCHANGED <<crl, receipt>> /\ UNCHANGED Rest

\* A source that a list already covers is done, unless the current list was
\* produced by this very source and may not have been published.
CRLWorkReceipt(w) ==
  /\ job[w].pc = "receipt"
  /\ LET n == receipt[job[w].src]
         current == job[w].list
     IN \/ /\ n = 0
           /\ Goto(w, [job[w] EXCEPT !.pc = "revocations"])
           /\ UNCHANGED queued
        \/ /\ n > current.seq
           /\ Retry(w)
        \/ /\ n > 0 /\ n <= current.seq
           /\ n = current.seq => current.src # job[w].src
           /\ Finish(w)
        \/ /\ n > 0 /\ n = current.seq /\ current.src = job[w].src
           /\ Goto(w, [job[w] EXCEPT !.pc = "publish"])
           /\ UNCHANGED queued
  /\ UNCHANGED <<crl, receipt>> /\ UNCHANGED Rest

\* The next list: every revocation of the root, in the next sequence.
revocationListEntriesForIssuer(i) == {s \in revoked : IssuerOf(s) = i}

CertificateRevocations(w) ==
  /\ job[w].pc = "revocations"
  /\ Goto(w, [job[w] EXCEPT !.pc = "swap",
       !.list = [seq |-> @.seq + 1, src |-> job[w].src,
                 listed |-> revocationListEntriesForIssuer(Root(w))]])
  /\ UNCHANGED <<queued, crl, receipt>> /\ UNCHANGED Rest

MutLostSwap(w) ==
  /\ Goto(w, [job[w] EXCEPT !.list.seq = crl[Root(w)].seq + 1])
  /\ UNCHANGED queued

LostSwap(w) ==
  /\ Goto(w, [job[w] EXCEPT !.pc = "latest", !.list = NoList])
  /\ UNCHANGED queued

\* One statement stores exactly the next sequence and, for a work item, its
\* receipt: it fails whole when the receipt is already there.  A lost swap
\* starts over until the attempts run out.
CompareAndSwapCRL(w) ==
  /\ job[w].pc = "swap"
  /\ LET i == Root(w)
         next == job[w].list
         taken == receipt[next.src] > 0
     IN \/ /\ crl[i].seq + 1 = next.seq /\ ~taken
           /\ crl' = [crl EXCEPT ![i] = next]
           /\ receipt' = [receipt EXCEPT ![next.src] = next.seq]
           /\ Goto(w, [job[w] EXCEPT !.pc = "cover", !.todo = next.listed])
           /\ UNCHANGED queued
        \/ /\ crl[i].seq + 1 = next.seq /\ taken
           /\ Retry(w)
           /\ UNCHANGED <<crl, receipt>>
        \/ /\ crl[i].seq + 1 # next.seq
           /\ LostSwap(w) \/ Retry(w)
           /\ UNCHANGED <<crl, receipt>>
  /\ UNCHANGED Rest

MutRecordCoveredCRLWorkReceipt(w) ==
  /\ job[w].pc = "cover"
  /\ receipt' = [s \in Sources |->
       IF receipt[s] = 0 /\ s \in revocationListEntriesForIssuer(Root(w))
       THEN job[w].list.seq ELSE receipt[s]]
  /\ Goto(w, [job[w] EXCEPT !.pc = "publish", !.todo = {}])
  /\ UNCHANGED <<queued, crl>> /\ UNCHANGED Rest

\* Every other source the stored list covers is recorded, one by one.
RecordCoveredCRLWorkReceipt(w) ==
  /\ job[w].pc = "cover"
  /\ \/ \E s \in job[w].todo :
          /\ receipt' = [receipt EXCEPT ![s] = IF @ = 0 THEN job[w].list.seq ELSE @]
          /\ Goto(w, [job[w] EXCEPT !.todo = @ \ {s}])
     \/ /\ job[w].todo = {}
        /\ Goto(w, [job[w] EXCEPT !.pc = "publish"])
        /\ UNCHANGED receipt
  /\ UNCHANGED <<queued, crl>> /\ UNCHANGED Rest

-----------------------------------------------------------------------------
(* The distributor *)

\* Publish, before the mutex: the list must be the durable one.
PublishDurable(w) ==
  /\ job[w].pc = "publish"
  /\ \/ crl[Root(w)] = job[w].list /\ Goto(w, [job[w] EXCEPT !.pc = "lock"])
     \/ crl[Root(w)] # job[w].list /\ Goto(w, Idle)
  /\ UNCHANGED <<queued, crl, receipt>> /\ UNCHANGED Rest

\* Publish, under the mutex: a strictly newer list becomes the latest, and the
\* subscriptions of that moment are to get it; the latest one is done already.
Publish(w) ==
  /\ job[w].pc = "lock"
  /\ LET i == Root(w)
         list == job[w].list
     IN \/ latest[i] = list /\ Finish(w) /\ UNCHANGED latest
        \/ latest[i] # list /\ list.seq <= latest[i].seq /\ Retry(w) /\ UNCHANGED latest
        \/ /\ list.seq > latest[i].seq
           /\ latest' = [latest EXCEPT ![i] = list]
           /\ Goto(w, [job[w] EXCEPT !.pc = "fanout",
                         !.todo = {g \in Subscribers : sub[g].state = "on"}])
           /\ UNCHANGED queued
  /\ UNCHANGED <<revoked, crl, receipt, active, sub, got, faults>>

mergeLocked(pending, i, list) ==
  IF list.seq > pending[i].seq THEN [pending EXCEPT ![i] = list] ELSE pending

\* Publish, after the mutex: enqueue to one subscription after the other, and
\* wait for each to have taken back what it was about to send.
enqueue(w, g) ==
  /\ job[w].pc = "fanout" /\ g \in job[w].todo
  /\ sub' = [sub EXCEPT ![g].pending = mergeLocked(@, Root(w), job[w].list), ![g].wake = TRUE]
  /\ Goto(w, [job[w] EXCEPT !.pc = "flush", !.flush = {g}])
  /\ UNCHANGED <<revoked, queued, crl, receipt, active, latest, got, faults>>

Published(w) ==
  /\ job[w].pc = "fanout" /\ job[w].todo = {}
  /\ Finish(w)
  /\ UNCHANGED <<crl, receipt>> /\ UNCHANGED Rest

\* Subscribe reads the durable lists, then registers under the mutex.  (One
\* statement reads each root's list; the roots' lists never depend on each
\* other, so one step reads them all.)
CurrentCRLs(g) ==
  /\ sub[g].state = "off"
  /\ sub' = [sub EXCEPT ![g] = [Closed EXCEPT !.state = "reading", !.seen = crl]]
  /\ UNCHANGED <<revoked, queued, crl, receipt, active, job, latest, got, faults>>

Subscribe(g) ==
  /\ sub[g].state = "reading"
  /\ LET newest == [i \in Issuers |->
                      IF latest[i].seq >= sub[g].seen[i].seq THEN latest[i] ELSE sub[g].seen[i]]
     IN /\ latest' = newest
        /\ sub' = [sub EXCEPT ![g] = [Closed EXCEPT !.state = "on", !.pending = newest,
                     !.wake = \E i \in Issuers : newest[i].seq > 0]]
  /\ UNCHANGED <<revoked, queued, crl, receipt, active, job, got, faults>>

\* The subscription's goroutine: take the pending list of the first root,
\* offer it on the one-place channel, and start over when woken or flushed.
Item(i, list) == [iss |-> i, list |-> list]
Waiting(g) == {i \in Issuers : sub[g].pending[i].seq > 0}

take(g) ==
  /\ sub[g].state = "on" /\ sub[g].hand = {}
  /\ \E i \in Waiting(g) :
       /\ \A j \in Waiting(g) \ {i} : Before(i, j)
       /\ sub' = [sub EXCEPT ![g].hand = {Item(i, sub[g].pending[i])},
                             ![g].pending[i] = NoList, ![g].wake = FALSE]
  /\ UNCHANGED <<revoked, queued, crl, receipt, active, job, latest, got, faults>>

Send(g) ==
  /\ sub[g].state = "on" /\ sub[g].hand # {} /\ sub[g].buf = {}
  /\ sub' = [sub EXCEPT ![g].buf = sub[g].hand, ![g].hand = {}]
  /\ UNCHANGED <<revoked, queued, crl, receipt, active, job, latest, got, faults>>

Requeue(pending, items) ==
  [i \in Issuers |->
     LET back == {x \in items : x.iss = i /\ x.list.seq > pending[i].seq}
     IN IF back = {} THEN pending[i]
        ELSE (CHOOSE x \in back : \A y \in back : y.list.seq <= x.list.seq).list]

Flushing(g) == {w \in Workers : job[w].flush = {g}}
Flushed(j, g) == [j EXCEPT !.pc = "fanout", !.todo = @ \ {g}, !.flush = {}]

reclaimBuffered(g) ==
  /\ sub[g].state = "on" /\ (sub[g].hand # {} \/ Waiting(g) = {})
  /\ LET back == [sub[g] EXCEPT !.pending = Requeue(@, sub[g].hand \cup sub[g].buf),
                                !.hand = {}, !.buf = {}]
     IN \/ /\ sub[g].wake
           /\ sub' = [sub EXCEPT ![g] = [back EXCEPT !.wake = FALSE]]
           /\ UNCHANGED job
        \/ \E w \in Flushing(g) :
             /\ sub' = [sub EXCEPT ![g] = back]
             /\ Goto(w, Flushed(job[w], g))
  /\ UNCHANGED <<revoked, queued, crl, receipt, active, latest, got, faults>>

\* The gateway at the other end receives, and keeps what is newer.
Receive(g) ==
  /\ \E x \in sub[g].buf :
       got' = [got EXCEPT ![g][x.iss] = IF x.list.seq > @.seq THEN x.list ELSE @]
  /\ sub' = [sub EXCEPT ![g].buf = {}]
  /\ UNCHANGED <<revoked, queued, crl, receipt, active, job, latest, faults>>

-----------------------------------------------------------------------------
(* Faults *)

Fault == faults < MaxFaults /\ faults' = faults + 1

\* A statement of a handler fails: the item stays queued.  The fan-out has no
\* way to fail.
HandlerFails(w) ==
  /\ job[w].pc \notin {"idle", "fanout", "flush"} /\ Fault
  /\ Goto(w, Idle)
  /\ UNCHANGED <<revoked, queued, crl, receipt, active, latest, sub, got>>

\* A handler's worker loses its session, and with it the claim and the lock:
\* the handler runs on, beside any other that takes the item.
LoseSession(w) ==
  /\ job[w].pc # "idle" /\ ~job[w].lost /\ Fault
  /\ Goto(w, [job[w] EXCEPT !.lost = TRUE])
  /\ UNCHANGED <<revoked, queued, crl, receipt, active, latest, sub, got>>

StreamEnds(g) ==
  /\ sub[g].state # "off" /\ Fault
  /\ sub' = [sub EXCEPT ![g] = Closed]
  /\ job' = [w \in Workers |->
               IF w \in Flushing(g) THEN Flushed(job[w], g)
               ELSE [job[w] EXCEPT !.todo = @ \ {g}]]
  /\ UNCHANGED <<revoked, queued, crl, receipt, active, latest, got>>

\* The control process restarts: handlers, distributor and streams are gone.
Crash ==
  /\ Fault
  /\ job' = [w \in Workers |-> Idle]
  /\ latest' = [i \in Issuers |-> NoList]
  /\ sub' = [g \in Subscribers |-> Closed]
  /\ UNCHANGED <<revoked, queued, crl, receipt, active, got>>

-----------------------------------------------------------------------------

Handler(w) ==
  \/ \E s \in Sources : HandleCRLWork(w, s)
  \/ LatestCRL(w) \/ CRLWorkReceipt(w) \/ CertificateRevocations(w)
  \/ CompareAndSwapCRL(w) \/ RecordCoveredCRLWorkReceipt(w)
  \/ PublishDurable(w) \/ Publish(w) \/ Published(w)
  \/ \E g \in Subscribers : enqueue(w, g)

Subscription(g) == CurrentCRLs(g) \/ Subscribe(g) \/ take(g) \/ Send(g) \/ reclaimBuffered(g)

Next ==
  \/ \E s \in Sources : projectCertificateRevocation(s)
  \/ \E i \in Issuers : RetireIssuer(i)
  \/ \E w \in Workers : Handler(w) \/ HandlerFails(w) \/ LoseSession(w)
  \/ \E g \in Subscribers : Subscription(g) \/ Receive(g) \/ StreamEnds(g)
  \/ Crash

Spec == Init /\ [][Next]_vars

\* The queue's workers keep running handlers, the subscription goroutine and
\* the gateway's receive loop keep running, and a gateway reconnects.
FairSpec ==
  /\ Spec
  /\ \A w \in Workers : WF_vars(Handler(w))
  /\ \A g \in Subscribers : WF_vars(Subscription(g)) /\ WF_vars(Receive(g))

-----------------------------------------------------------------------------
(* Properties *)

\* A root's durable list only grows: a handler that read the revocations
\* before another handler's list was stored can never store its own over it
\* (sign reads LatestCRL first and swaps on that sequence).
ListsOnlyGrow ==
  [][\A i \in Issuers : crl'[i] # crl[i] =>
       /\ crl'[i].seq = crl[i].seq + 1
       /\ crl[i].listed \subseteq crl'[i].listed]_vars

\* A receipt is the promise that ends a work item: the durable list of the
\* root lists the source from the receipt's sequence on, through coalesced
\* work, lost swaps and failed publications.
ReceiptMeansListed ==
  \A s \in Sources : receipt[s] > 0 =>
    /\ receipt[s] <= crl[IssuerOf(s)].seq
    /\ s \in crl[IssuerOf(s)].listed

\* A work item ends only covered, or when its root has left the snapshot.
NoWorkLost ==
  \A s \in revoked \ queued :
    s \in crl[IssuerOf(s)].listed \/ IssuerOf(s) \notin active

\* Every revocation reaches every gateway: "pushed to every gateway over its
\* persistent control stream on connect and on every change".
RevocationsArrive ==
  \A s \in Sources, g \in Subscribers :
    (s \in revoked) ~> (s \in got[g][IssuerOf(s)].listed \/ IssuerOf(s) \notin active)
==============================================================================
