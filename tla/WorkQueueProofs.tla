--------------------------- MODULE WorkQueueProofs --------------------------
(***************************************************************************)
(* The theorems about WorkQueue, for any number of workers and rows, any   *)
(* retry limit and any number of lost sessions.  Delays play no part in    *)
(* them: the invariant leaves wait and rest out.                           *)
(***************************************************************************)
EXTENDS WorkQueue, TLAPS

(* The inductive invariant *)

ControlOK ==
  /\ appended \subseteq Works /\ rows \subseteq appended
  /\ attempts \in [Works -> 0 .. MaxAttempts]
  /\ pc \in [Workers -> {"idle", "claim", "handle", "finish"}]
  /\ work \in [Workers -> Works \cup {None}]
  /\ ok \in [Workers -> BOOLEAN]
  /\ sessions \subseteq Workers
  /\ succeeded \subseteq Works
  /\ runs \in [Works -> Nat]
  /\ losses \in Nat

\* At most one transaction of the queue is open.
OneSession ==
  /\ \A v, w \in sessions : v = w
  /\ \A w \in sessions : pc[w] # "idle"

\* A claimed row stays in the table, with an attempt left, while its
\* transaction is open, and a reported success is recorded in the history.
ClaimOK(w) ==
  /\ pc[w] \in {"handle", "finish"} => work[w] \in Works
  /\ pc[w] \in {"handle", "finish"} /\ w \in sessions
       => work[w] \in rows /\ attempts[work[w]] < MaxAttempts
  /\ pc[w] = "finish" /\ ok[w] => work[w] \in succeeded

\* The row is claimed by a transaction that can still record the run.
InFlight(k) == \E w \in sessions : pc[w] \in {"handle", "finish"} /\ work[w] = k

\* Every run of a row is an attempt, a loss, or in flight.
RunsOK(k) ==
  /\ k \notin appended => runs[k] = 0
  /\ k \in rows => runs[k] <= attempts[k] + losses + (IF InFlight(k) THEN 1 ELSE 0)
  /\ k \notin rows => runs[k] <= MaxAttempts + losses

IInv ==
  /\ ControlOK
  /\ OneSession
  /\ \A w \in Workers : ClaimOK(w)
  /\ \A k \in Works : RunsOK(k)
  /\ NothingDropped

\* The empty queue.
LEMMA InitInv == Init => IInv
<1> SUFFICES ASSUME Init PROVE IInv
  OBVIOUS
<1>1. ControlOK /\ OneSession /\ NothingDropped
  BY WorkAssumption DEF Init, ControlOK, OneSession, NothingDropped
<1>2. \A w \in Workers : ClaimOK(w)
  BY DEF Init, ClaimOK
<1>3. \A k \in Works : RunsOK(k)
  BY WorkAssumption DEF Init, RunsOK
<1> QED BY <1>1, <1>2, <1>3 DEF IInv

\* The source event of a row and the row appear together.
LEMMA AppendStep == ASSUME IInv, NEW k \in Works, AppendSource(k) PROVE IInv'
<1> USE DEF AppendSource, EnqueueWork, InsertWork, history
<1>1. /\ appended' = appended \cup {k} /\ rows' = rows \cup {k} /\ k \notin appended
      /\ attempts' = [attempts EXCEPT ![k] = 0]
      /\ UNCHANGED <<pc, work, ok, sessions, succeeded, runs, losses>>
  OBVIOUS
<1>2. ControlOK'
  BY <1>1, WorkAssumption DEF IInv, ControlOK
<1>3. OneSession' /\ NothingDropped'
  BY <1>1 DEF IInv, OneSession, NothingDropped
<1>4. ASSUME NEW w \in Workers PROVE ClaimOK(w)'
  BY <1>1, WorkAssumption DEF IInv, ClaimOK, ControlOK
<1>5. ASSUME NEW j \in Works PROVE RunsOK(j)'
  <2>1. InFlight(j)' = InFlight(j)
    BY <1>1 DEF InFlight
  <2>2. CASE j = k
    BY <1>1, <2>1, <2>2 DEF IInv, RunsOK, ControlOK
  <2>3. CASE j # k
    BY <1>1, <2>1, <2>3 DEF IInv, RunsOK, ControlOK
  <2> QED BY <2>2, <2>3
<1> QED BY <1>2, <1>3, <1>4, <1>5 DEF IInv

\* A step that changes neither the table nor a worker's transaction.
LEMMA StutterStep ==
  ASSUME IInv, UNCHANGED <<appended, rows, attempts, pc, work, ok, sessions, succeeded, runs, losses>>
  PROVE  IInv'
<1>1. ControlOK' /\ OneSession' /\ NothingDropped'
  BY DEF IInv, ControlOK, OneSession, NothingDropped
<1>2. \A w \in Workers : ClaimOK(w)'
  BY DEF IInv, ClaimOK
<1>3. \A k \in Works : RunsOK(k)'
  BY DEF IInv, RunsOK, InFlight
<1> QED BY <1>1, <1>2, <1>3 DEF IInv

\* RunOnce takes the advisory lock when no transaction holds it.
LEMMA RunOnceStep == ASSUME IInv, NEW w \in Workers, RunOnce(w) PROVE IInv'
<1> USE DEF RunOnce, TryWorkQueueLock, history, table
<1>1. ControlOK' /\ NothingDropped'
  BY DEF IInv, ControlOK, NothingDropped
<1>2. OneSession'
  BY DEF IInv, ControlOK, OneSession
<1>3. ASSUME NEW v \in Workers PROVE ClaimOK(v)'
  BY DEF IInv, ControlOK, ClaimOK
<1>4. ASSUME NEW k \in Works PROVE RunsOK(k)'
  <2>1. ~InFlight(k) /\ ~InFlight(k)'
    BY DEF IInv, ControlOK, InFlight
  <2> QED BY <2>1 DEF IInv, RunsOK
<1> QED BY <1>1, <1>2, <1>3, <1>4 DEF IInv

\* The end of a transaction that changed nothing: the row it had claimed is
\* no longer in flight, and the loss accounts for it.
LEMMA ReturnStep ==
  ASSUME IInv, NEW w \in Workers, Return(w), UNCHANGED <<appended, table, history>>,
         losses' \in Nat, losses' >= losses,
         w \in sessions /\ pc[w] # "claim" => losses' = losses + 1
  PROVE  IInv'
<1> USE DEF Return, history, table
<1>1. ControlOK' /\ NothingDropped'
  BY DEF IInv, ControlOK, NothingDropped
<1>2. OneSession'
  BY DEF IInv, ControlOK, OneSession
<1>3. ASSUME NEW v \in Workers PROVE ClaimOK(v)'
  BY DEF IInv, ControlOK, ClaimOK
<1>4. ASSUME NEW k \in Works PROVE RunsOK(k)'
  <2>1. InFlight(k) => InFlight(k)' \/ losses' = losses + 1
    BY DEF IInv, ControlOK, OneSession, InFlight
  <2>2. runs[k] \in Nat /\ attempts[k] \in Nat /\ losses \in Nat /\ MaxAttempts \in Nat
    BY WorkAssumption DEF IInv, ControlOK
  <2>3. RunsOK(k) /\ UNCHANGED <<appended, rows, attempts, runs>>
    BY DEF IInv
  <2> QED BY <2>1, <2>2, <2>3 DEF RunsOK
<1> QED BY <1>1, <1>2, <1>3, <1>4 DEF IInv

\* A claim finds a due row that no open transaction works on.
LEMMA ClaimStep == ASSUME IInv, NEW w \in Workers, ClaimDueWork(w) PROVE IInv'
<1>1. CASE Claimable = {}
  <2>1. Return(w) /\ UNCHANGED <<appended, table, history, losses>> /\ pc[w] = "claim"
    BY <1>1 DEF ClaimDueWork
  <2> QED BY <2>1, ReturnStep DEF IInv, ControlOK, table, history
<1>2. CASE Claimable # {}
  <2>1. PICK k \in Claimable :
          /\ pc' = [pc EXCEPT ![w] = "handle"]
          /\ work' = [work EXCEPT ![w] = k]
          /\ runs' = [runs EXCEPT ![k] = @ + 1]
          /\ UNCHANGED <<ok, sessions, succeeded, rest>>
    BY <1>2 DEF ClaimDueWork
  <2>2. /\ k \in Works /\ k \in rows /\ attempts[k] < MaxAttempts
        /\ \A v \in sessions : work[v] # k
        /\ w \in sessions /\ pc[w] = "claim" /\ UNCHANGED <<appended, table, losses>>
    BY <2>1 DEF Claimable, Due, ClaimDueWork
  <2> USE DEF table
  <2>3. ControlOK' /\ NothingDropped'
    BY <2>1, <2>2 DEF IInv, ControlOK, NothingDropped
  <2>4. OneSession'
    BY <2>1, <2>2 DEF IInv, ControlOK, OneSession
  <2>5. ASSUME NEW v \in Workers PROVE ClaimOK(v)'
    BY <2>1, <2>2 DEF IInv, ControlOK, ClaimOK
  <2>6. ASSUME NEW j \in Works PROVE RunsOK(j)'
    <3>1. runs[j] \in Nat /\ attempts[j] \in Nat /\ losses \in Nat
      BY DEF IInv, ControlOK
    <3>2. CASE j = k
      <4>1. ~InFlight(k) /\ InFlight(k)' /\ k \in appended
        BY <2>1, <2>2 DEF IInv, ControlOK, InFlight
      <4>2. runs'[k] = runs[k] + 1 /\ runs[k] <= attempts[k] + losses
        BY <2>1, <2>2, <3>1, <3>2, <4>1 DEF IInv, ControlOK, RunsOK
      <4> QED BY <2>2, <3>1, <3>2, <4>1, <4>2 DEF RunsOK
    <3>3. CASE j # k
      <4>1. runs'[j] = runs[j] /\ (InFlight(j) => InFlight(j)')
        BY <2>1, <2>2, <3>3 DEF IInv, ControlOK, InFlight
      <4> QED BY <2>2, <3>1, <4>1 DEF IInv, RunsOK
    <3> QED BY <3>2, <3>3
  <2> QED BY <2>3, <2>4, <2>5, <2>6 DEF IInv
<1> QED BY <1>1, <1>2

\* The handler's answer is noted.
LEMMA HandlerStep == ASSUME IInv, NEW w \in Workers, InvokeHandler(w) PROVE IInv'
<1> USE DEF table
<1>1. PICK success \in BOOLEAN :
        /\ ok' = [ok EXCEPT ![w] = success]
        /\ succeeded' = IF success THEN succeeded \cup {work[w]} ELSE succeeded
  BY ZenonT(60) DEF InvokeHandler
<1>2. /\ pc[w] = "handle" /\ pc' = [pc EXCEPT ![w] = "finish"]
      /\ UNCHANGED <<appended, table, work, sessions, runs, losses>>
  BY DEF InvokeHandler
<1>3. work[w] \in Works /\ succeeded \subseteq succeeded'
  BY <1>1, <1>2 DEF IInv, ClaimOK
<1>4. ControlOK' /\ NothingDropped'
  BY <1>1, <1>2, <1>3 DEF IInv, ControlOK, NothingDropped
<1>5. OneSession'
  BY <1>2 DEF IInv, ControlOK, OneSession
<1>6. ASSUME NEW v \in Workers PROVE ClaimOK(v)'
  BY <1>1, <1>2, <1>3 DEF IInv, ControlOK, ClaimOK
<1>7. ASSUME NEW k \in Works PROVE RunsOK(k)'
  <2>1. InFlight(k)' = InFlight(k)
    BY <1>2 DEF IInv, ControlOK, InFlight
  <2> QED BY <1>2, <2>1 DEF IInv, RunsOK
<1> QED BY <1>4, <1>5, <1>6, <1>7 DEF IInv

\* A row is deleted only when its handler succeeded.
LEMMA CompleteStep == ASSUME IInv, NEW w \in Workers, CompleteWork(w) PROVE IInv'
<1>1. /\ pc[w] = "finish" /\ w \in sessions /\ ok[w] /\ rows' = rows \ {work[w]}
      /\ pc' = [pc EXCEPT ![w] = "idle"] /\ work' = [work EXCEPT ![w] = None]
      /\ ok' = [ok EXCEPT ![w] = FALSE] /\ sessions' = sessions \ {w}
      /\ UNCHANGED <<appended, attempts, succeeded, runs, losses>>
  BY DEF CompleteWork, Return, history
<1>2. /\ work[w] \in succeeded /\ work[w] \in rows /\ attempts[work[w]] < MaxAttempts
      /\ sessions' = {}
  BY <1>1 DEF IInv, ControlOK, OneSession, ClaimOK
<1>3. ControlOK' /\ OneSession'
  BY <1>1, <1>2 DEF IInv, ControlOK, OneSession
<1>4. NothingDropped'
  BY <1>1, <1>2 DEF IInv, NothingDropped
<1>5. ASSUME NEW v \in Workers PROVE ClaimOK(v)'
  BY <1>1, <1>2 DEF IInv, ControlOK, ClaimOK
<1>6. ASSUME NEW k \in Works PROVE RunsOK(k)'
  <2>1. runs[k] \in Nat /\ attempts[k] \in 0 .. MaxAttempts /\ losses \in Nat /\ MaxAttempts \in Nat
    BY WorkAssumption DEF IInv, ControlOK
  <2>2. ~InFlight(k)' /\ (InFlight(k) => k = work[w])
    BY <1>1, <1>2 DEF IInv, OneSession, InFlight
  <2> QED BY <1>1, <1>2, <2>1, <2>2 DEF IInv, RunsOK
<1> QED BY <1>3, <1>4, <1>5, <1>6 DEF IInv

\* A recorded failure turns the run in flight into an attempt.
LEMMA FailureStep == ASSUME IInv, NEW w \in Workers, RecordWorkFailure(w) PROVE IInv'
<1>1. /\ pc[w] = "finish" /\ w \in sessions
      /\ attempts' = [attempts EXCEPT ![work[w]] = attempts[work[w]] + 1]
      /\ pc' = [pc EXCEPT ![w] = "idle"] /\ work' = [work EXCEPT ![w] = None]
      /\ ok' = [ok EXCEPT ![w] = FALSE] /\ sessions' = sessions \ {w}
      /\ UNCHANGED <<appended, rows, succeeded, runs, losses>>
  BY DEF RecordWorkFailure, Failed, Return
<1>2. work[w] \in rows /\ attempts[work[w]] < MaxAttempts /\ sessions' = {}
  BY <1>1 DEF IInv, ControlOK, OneSession, ClaimOK
<1>3. ControlOK' /\ OneSession'
  BY <1>1, <1>2, WorkAssumption DEF IInv, ControlOK, OneSession
<1>4. NothingDropped'
  BY <1>1 DEF IInv, NothingDropped
<1>5. ASSUME NEW v \in Workers PROVE ClaimOK(v)'
  BY <1>1, <1>2 DEF IInv, ControlOK, ClaimOK
<1>6. ASSUME NEW k \in Works PROVE RunsOK(k)'
  <2>1. runs[k] \in Nat /\ attempts[k] \in 0 .. MaxAttempts /\ losses \in Nat /\ MaxAttempts \in Nat
    BY WorkAssumption DEF IInv, ControlOK
  <2>2. ~InFlight(k)' /\ (InFlight(k) => k = work[w])
    BY <1>1, <1>2 DEF IInv, OneSession, InFlight
  <2>3. attempts'[k] = IF k = work[w] THEN attempts[k] + 1 ELSE attempts[k]
    BY <1>1 DEF IInv, ControlOK
  <2> QED BY <1>1, <2>1, <2>2, <2>3 DEF IInv, RunsOK
<1> QED BY <1>3, <1>4, <1>5, <1>6 DEF IInv

\* A lost session leaves its handler running; the loss accounts for the run.
LEMMA LoseStep == ASSUME IInv, NEW w \in Workers, LoseSession(w) PROVE IInv'
<1>1. /\ w \in sessions /\ losses' = losses + 1 /\ sessions' = sessions \ {w}
      /\ UNCHANGED <<appended, rows, attempts, pc, work, ok, succeeded, runs>>
  BY DEF LoseSession, table, history
<1>2. ControlOK' /\ OneSession' /\ NothingDropped'
  BY <1>1 DEF IInv, ControlOK, OneSession, NothingDropped
<1>3. ASSUME NEW v \in Workers PROVE ClaimOK(v)'
  BY <1>1 DEF IInv, ClaimOK
<1>4. ASSUME NEW k \in Works PROVE RunsOK(k)'
  <2>1. runs[k] \in Nat /\ attempts[k] \in Nat /\ losses \in Nat /\ MaxAttempts \in Nat
    BY WorkAssumption DEF IInv, ControlOK
  <2> QED BY <1>1, <2>1 DEF IInv, RunsOK
<1> QED BY <1>2, <1>3, <1>4 DEF IInv

\* Every step keeps the invariant.
LEMMA NextInv == IInv /\ [Next]_vars => IInv'
<1> SUFFICES ASSUME IInv, [Next]_vars PROVE IInv'
  OBVIOUS
<1>1. ASSUME NEW k \in Works, AppendSource(k) PROVE IInv'
  BY <1>1, AppendStep
<1>2. ASSUME NEW k \in Works, ReplaySource(k) PROVE IInv'
  BY <1>2, StutterStep DEF ReplaySource, EnqueueWork, table, history
<1>3. ASSUME NEW w \in Workers, WorkerStep(w) PROVE IInv'
  <2>1. CASE ReportLost(w)
    BY <2>1, ReturnStep DEF ReportLost, IInv, ControlOK
  <2> QED BY <1>3, <2>1, RunOnceStep, ClaimStep, HandlerStep, CompleteStep, FailureStep DEF WorkerStep
<1>4. ASSUME NEW w \in Workers, LoseSession(w) PROVE IInv'
  BY <1>4, LoseStep
<1>5. ASSUME NEW w \in Workers, Crash(w) PROVE IInv'
  BY <1>5, ReturnStep DEF Crash, IInv, ControlOK
<1>6. CASE Tick
  BY <1>6, StutterStep DEF Tick
<1>7. CASE UNCHANGED vars
  BY <1>7, StutterStep DEF vars, table, history
<1> QED BY <1>1, <1>2, <1>3, <1>4, <1>5, <1>6, <1>7 DEF Next

(* The theorems *)

\* The invariant holds in every reachable state.
THEOREM Invariant == Spec => []IInv
BY InitInv, NextInv, PTL DEF Spec

\* A work row leaves the table only after its handler returned nil, whatever
\* sessions and processes are lost.
THEOREM NeverDropped == Spec => []NothingDropped
<1>1. IInv => NothingDropped
  BY DEF IInv
<1> QED BY <1>1, Invariant, PTL

\* Two transactions of RunOnce never overlap, so two handlers run at once only
\* after one of them lost its session.
THEOREM SingleHandler == Spec => []OneLiveHandler
<1>1. IInv => OneLiveHandler
  BY DEF IInv, OneSession, OneLiveHandler
<1> QED BY <1>1, Invariant, PTL

\* A row is handed out at most max_attempts times plus the number of losses.
THEOREM BoundedRuns == Spec => []RunsBounded
<1>1. ASSUME IInv, NEW k \in Works PROVE runs[k] <= MaxAttempts + losses
  <2>1. /\ runs[k] \in Nat /\ attempts[k] \in 0 .. MaxAttempts /\ losses \in Nat
        /\ MaxAttempts \in Nat /\ RunsOK(k)
    BY <1>1, WorkAssumption DEF IInv, ControlOK
  <2>2. InFlight(k) => attempts[k] < MaxAttempts
    BY <1>1 DEF IInv, ControlOK, ClaimOK, InFlight
  <2> QED BY <2>1, <2>2 DEF RunsOK
<1>2. IInv => RunsBounded
  BY <1>1 DEF RunsBounded
<1> QED BY <1>2, Invariant, PTL

\* No step, a rebuild's replay included, brings completed work back.
THEOREM CompletedStaysGone == Spec => NotResurrected
<1>1. ASSUME IInv, [Next]_vars PROVE [appended \cap rows' \subseteq rows]_vars
  <2>1. ASSUME NEW k \in Works, AppendSource(k) PROVE appended \cap rows' \subseteq rows
    BY <2>1 DEF AppendSource, EnqueueWork, InsertWork
  <2>2. ASSUME NEW k \in Works, ReplaySource(k) PROVE rows' = rows
    BY SMTT(60), <2>2 DEF ReplaySource, EnqueueWork, table
  <2>3. ASSUME NEW w \in Workers, WorkerStep(w) \/ LoseSession(w) \/ Crash(w) PROVE rows' \subseteq rows
    BY <2>3 DEF WorkerStep, RunOnce, ClaimDueWork, InvokeHandler, CompleteWork, RecordWorkFailure,
                ReportLost, LoseSession, Crash, table
  <2>4. Tick \/ UNCHANGED vars => rows' = rows
    BY DEF Tick, vars, table
  <2> QED BY <1>1, <2>1, <2>2, <2>3, <2>4 DEF Next
<1> QED BY <1>1, Invariant, PTL DEF Spec, NotResurrected
=============================================================================
