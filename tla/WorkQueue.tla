----------------------------- MODULE WorkQueue ------------------------------
(***************************************************************************)
(* The durable work queue (store/work.go, queries/work.sql).  A projector  *)
(* enqueues work in the transaction that appends its event; by the         *)
(* refinement EventStore => AtomicLog that transaction is one step here.   *)
(* Workers call RunOnce: one transaction that takes the queue's advisory   *)
(* lock, claims a due row, runs its handler outside the database and then  *)
(* deletes the row or records the failure.  A worker can lose its database *)
(* session, or its process, at any point: Postgres then rolls the          *)
(* transaction back and frees its locks while a handler may keep running.  *)
(*                                                                         *)
(* Time is counted in ticks until a row is due (negative: overdue), which  *)
(* orders rows as COALESCE(next_attempt_at, run_at) does.                  *)
(***************************************************************************)
EXTENDS Integers, FiniteSetsExt

CONSTANTS
  Workers,      \* processes that call RunOnce
  Works,        \* work rows: a source event and a work kind
  Registered,   \* the rows whose kind has a handler
  RunDelays,    \* run_at, in ticks after the event
  MaxAttempts,  \* max_attempts of a row
  BaseDelay,    \* workRetryBaseDelay
  MaxDelay,     \* workRetryMaxDelay
  MaxOverdue,   \* bound: overdue ticks told apart
  MaxLosses     \* bound: sessions lost and processes crashed

ASSUME WorkAssumption ==
  /\ RunDelays \subseteq Nat /\ RunDelays # {}
  /\ MaxAttempts \in Nat \ {0}
  /\ BaseDelay \in Nat \ {0} /\ MaxDelay \in Nat /\ BaseDelay <= MaxDelay
  /\ MaxOverdue \in Nat /\ MaxLosses \in Nat

VARIABLES
  appended,  \* source events in the log
  rows,      \* keys of the rows in the work_items table
  attempts,  \* their attempts
  wait,      \* ticks until they are due
  pc,        \* where each RunOnce is
  work,      \* the row each RunOnce claimed
  ok,        \* whether its handler returned nil
  sessions,  \* workers whose transaction holds the advisory lock
  succeeded, \* history: rows whose handler returned nil
  runs,      \* history: claims of each row
  rest,      \* history: ticks since a row's last recorded failure
  losses     \* sessions lost and crashes so far (bound)

table == <<rows, attempts, wait>>
history == <<succeeded, runs, rest>>
vars == <<appended, table, pc, work, ok, sessions, history, losses>>

None == "none"

Init ==
  /\ appended = {}
  /\ rows = {}
  /\ attempts = [k \in Works |-> 0]
  /\ wait = [k \in Works |-> 0]
  /\ pc = [w \in Workers |-> "idle"]
  /\ work = [w \in Workers |-> None]
  /\ ok = [w \in Workers |-> FALSE]
  /\ sessions = {}
  /\ succeeded = {}
  /\ runs = [k \in Works |-> 0]
  /\ rest = [k \in Works |-> 0]
  /\ losses = 0

-----------------------------------------------------------------------------
(* Enqueueing *)

InsertWork(k) ==
  \E delay \in RunDelays :
    /\ rows' = rows \cup {k}
    /\ attempts' = [attempts EXCEPT ![k] = 0]
    /\ wait' = [wait EXCEPT ![k] = delay]

\* Mutant: a replay enqueues like an append.
EnqueueAlways(k, skipWork) == InsertWork(k)

\* EnqueueWork on the projector's transaction; a rebuild's is marked skipWork.
EnqueueWork(k, skipWork) == IF skipWork THEN UNCHANGED table ELSE InsertWork(k)

\* The append of k's source event commits, with the row its projector enqueued.
AppendSource(k) ==
  /\ k \notin appended
  /\ appended' = appended \cup {k}
  /\ EnqueueWork(k, FALSE)
  /\ UNCHANGED <<pc, work, ok, sessions, history, losses>>

\* A rebuild runs the same projector on the stored event.
ReplaySource(k) ==
  /\ k \in appended
  /\ EnqueueWork(k, TRUE)
  /\ UNCHANGED <<appended, pc, work, ok, sessions, history, losses>>

-----------------------------------------------------------------------------
(* RunOnce *)

\* pg_try_advisory_xact_lock; RunOnce returns at once when it is not granted.
TryWorkQueueLock == sessions = {}

RunOnce(w) ==
  /\ pc[w] = "idle"
  /\ TryWorkQueueLock
  /\ pc' = [pc EXCEPT ![w] = "claim"]
  /\ sessions' = sessions \cup {w}
  /\ UNCHANGED <<appended, table, work, ok, history, losses>>

\* Mutant: the advisory lock outlives its transaction.
ReturnLocked(w) ==
  /\ pc' = [pc EXCEPT ![w] = "idle"]
  /\ work' = [work EXCEPT ![w] = None]
  /\ ok' = [ok EXCEPT ![w] = FALSE]
  /\ UNCHANGED sessions

\* RunOnce returns; its transaction, if still there, is over.
Return(w) ==
  /\ pc' = [pc EXCEPT ![w] = "idle"]
  /\ work' = [work EXCEPT ![w] = None]
  /\ ok' = [ok EXCEPT ![w] = FALSE]
  /\ sessions' = sessions \ {w}

\* Mutant: next_attempt_at is not part of the claim's condition.
DueSoon(k) == k \in rows /\ attempts[k] < MaxAttempts

Due(k) == k \in rows /\ attempts[k] < MaxAttempts /\ wait[k] <= 0

\* FOR UPDATE SKIP LOCKED: rows that no open transaction has claimed.
Claimable == {k \in Works : Due(k) /\ \A v \in sessions : work[v] # k}

ClaimDueWork(w) ==
  /\ pc[w] = "claim"
  /\ w \in sessions
  /\ IF Claimable = {}
     THEN Return(w) /\ UNCHANGED history
     ELSE \E k \in Claimable :
            /\ \A j \in Claimable : wait[k] <= wait[j]
            /\ pc' = [pc EXCEPT ![w] = "handle"]
            /\ work' = [work EXCEPT ![w] = k]
            /\ runs' = [runs EXCEPT ![k] = @ + 1]
            /\ UNCHANGED <<ok, sessions, succeeded, rest>>
  /\ UNCHANGED <<appended, table, losses>>

\* The handler returns: nil, or an error, a panic or its timeout.  A kind
\* without a handler is a failure.
InvokeHandler(w) ==
  /\ pc[w] = "handle"
  /\ \E success \in BOOLEAN :
       /\ success => work[w] \in Registered
       /\ ok' = [ok EXCEPT ![w] = success]
       /\ succeeded' = IF success THEN succeeded \cup {work[w]} ELSE succeeded
  /\ pc' = [pc EXCEPT ![w] = "finish"]
  /\ UNCHANGED <<appended, table, work, sessions, runs, rest, losses>>

\* Mutant: the row is deleted whatever the handler returned.
CompleteAnyWork(w) ==
  /\ pc[w] = "finish"
  /\ w \in sessions
  /\ rows' = rows \ {work[w]}
  /\ Return(w)
  /\ UNCHANGED <<appended, attempts, wait, history, losses>>

CompleteWork(w) ==
  /\ pc[w] = "finish"
  /\ w \in sessions
  /\ ok[w]
  /\ rows' = rows \ {work[w]}
  /\ Return(w)
  /\ UNCHANGED <<appended, attempts, wait, history, losses>>

\* BaseDelay doubled for every attempt after the first, up to MaxDelay.
workRetryDelay[attempt \in Nat] ==
  IF attempt <= 1 THEN BaseDelay
  ELSE LET delay == workRetryDelay[attempt - 1] IN
       IF delay < MaxDelay
       THEN IF delay * 2 > MaxDelay THEN MaxDelay ELSE delay * 2
       ELSE delay

\* Mutant: the failure sets next_attempt_at but not attempts.
FailedUncounted(n) == n

Failed(n) == n + 1

RecordWorkFailure(w) ==
  /\ pc[w] = "finish"
  /\ w \in sessions
  /\ ~ok[w]
  /\ attempts' = [attempts EXCEPT ![work[w]] = Failed(@)]
  /\ wait' = [wait EXCEPT ![work[w]] = workRetryDelay[Failed(attempts[work[w]])]]
  /\ rest' = [rest EXCEPT ![work[w]] = 0]
  /\ Return(w)
  /\ UNCHANGED <<appended, rows, succeeded, runs, losses>>

\* Its session gone, RunOnce reports the error of its next statement.
ReportLost(w) ==
  /\ pc[w] \in {"claim", "finish"}
  /\ w \notin sessions
  /\ Return(w)
  /\ UNCHANGED <<appended, table, history, losses>>

-----------------------------------------------------------------------------
(* The environment *)

\* The database ends w's session; its handler, if any, does not notice.
LoseSession(w) ==
  /\ w \in sessions
  /\ losses < MaxLosses
  /\ losses' = losses + 1
  /\ sessions' = sessions \ {w}
  /\ UNCHANGED <<appended, table, pc, work, ok, history>>

Crash(w) ==
  /\ pc[w] # "idle"
  /\ losses < MaxLosses
  /\ losses' = losses + 1
  /\ Return(w)
  /\ UNCHANGED <<appended, table, history>>

Tick ==
  /\ wait' = [k \in Works |-> IF wait[k] > -MaxOverdue THEN wait[k] - 1 ELSE wait[k]]
  /\ rest' = [k \in Works |-> IF rest[k] < MaxDelay THEN rest[k] + 1 ELSE rest[k]]
  /\ UNCHANGED <<appended, rows, attempts, pc, work, ok, sessions, succeeded, runs, losses>>

-----------------------------------------------------------------------------
WorkerStep(w) ==
  \/ RunOnce(w) \/ ClaimDueWork(w) \/ InvokeHandler(w)
  \/ CompleteWork(w) \/ RecordWorkFailure(w) \/ ReportLost(w)

Next ==
  \/ \E k \in Works : AppendSource(k) \/ ReplaySource(k)
  \/ \E w \in Workers : WorkerStep(w) \/ LoseSession(w) \/ Crash(w)
  \/ Tick

Spec == Init /\ [][Next]_vars

\* RunOnce is called again and again by some worker, a started RunOnce goes on
\* (its context is detached and every handler is bounded by a timeout), and
\* time passes.
FairSpec ==
  /\ Spec
  /\ WF_vars(\E w \in Workers : RunOnce(w))
  /\ \A w \in Workers :
       WF_vars(ClaimDueWork(w) \/ InvokeHandler(w) \/ CompleteWork(w) \/ RecordWorkFailure(w) \/ ReportLost(w))
  /\ WF_vars(Tick)

-----------------------------------------------------------------------------
(* Properties *)

\* Work is never silently dropped: the row of an appended event is in the
\* table, pending or exhausted, until one of its handler runs has returned nil,
\* whatever sessions are lost between the handler and the commit of RunOnce.
NothingDropped == \A k \in appended : k \in rows \cup succeeded

\* A row that is gone stays gone: a rebuild runs the same projectors and
\* resurrects no completed work (EnqueueWork under skipWork).
NotResurrected == [][appended \cap rows' \subseteq rows]_vars

\* Of two handlers that run at the same time, one has lost its session: the
\* advisory lock keeps two transactions of the queue from overlapping.
OneLiveHandler ==
  \A v, w \in Workers :
    /\ v # w
    /\ pc[v] = "handle" /\ pc[w] = "handle"
    => v \notin sessions \/ w \notin sessions

\* Delivery is at least once, but a row is claimed at most max_attempts times
\* beyond the runs whose session or process was lost before they were recorded.
RunsBounded == \A k \in Works : runs[k] <= MaxAttempts + losses

\* A row that failed n times rests for the doubled and capped delay of
\* workRetryDelay before it is claimed again.
RetriesBackOff ==
  [][\A k \in Works :
       runs'[k] > runs[k] /\ attempts[k] > 0
         => \/ rest[k] >= MaxDelay
            \/ rest[k] >= BaseDelay * 2 ^ (attempts[k] - 1)]_vars

\* Every enqueued row is completed or exhausts its attempts, even when sessions
\* are lost and other rows keep failing.
WorkSettles ==
  \A k \in Works :
    k \in appended ~> (k \notin rows \/ attempts[k] = MaxAttempts)
=============================================================================
