----------------------------- MODULE EventStore -----------------------------
(***************************************************************************)
(* The event store of the control server (store/store.go, store/rebuild.go)*)
(* over Postgres.  Writers append events to streams: each append is one    *)
(* READ COMMITTED transaction that reads the stream version, inserts the   *)
(* event under the unique key (stream, version), runs the projector on the *)
(* same transaction and commits.  The recovery command rebuilds the        *)
(* projection in one REPEATABLE READ transaction while writers keep        *)
(* running.  One step of the model is one SQL statement, so transactions   *)
(* interleave exactly where Postgres lets them.                            *)
(*                                                                         *)
(* The projection of a stream is one row.  What a projector does to it is  *)
(* the constant operator Project(row, op, version): the new row, or        *)
(* Refused when the projector returns an error.  Such a projector reads    *)
(* the row of its own stream only.  Those that also meet keys unique over  *)
(* all streams (e-mail addresses, names, external ids), and what a rebuild *)
(* that replays stream by stream then does, are in Directory and Identity. *)
(***************************************************************************)
EXTENDS Integers, Sequences

CONSTANTS
  Writers,          \* goroutines that call the append functions
  Streams,          \* event streams, each with its projection row
  Ops,              \* event payloads
  Rows,             \* values of a projection row, NoRow included
  NoRow,            \* the row does not exist
  Refused,          \* the projector returned an error
  Project(_, _, _), \* the projector registered for an event
  Requests,         \* append calls the writers make
  MaxVersion,       \* the largest stream version (a BIGINT; small when checked)
  MaxCalls,         \* bound: append calls per writer
  MaxRebuilds       \* bound: rebuild runs

Modes == {"auto", "pinned", "batch", "pinnedBatch", "callback"}

ASSUME BoundsAssumption == MaxVersion \in Nat /\ MaxCalls \in Nat /\ MaxRebuilds \in Nat

ASSUME NoRowAssumption == NoRow \in Rows /\ Refused \notin Rows

ASSUME ProjectAssumption ==
  \A r \in Rows, op \in Ops, v \in 1 .. MaxVersion : Project(r, op, v) \in Rows \cup {Refused}

ASSUME RequestsAssumption ==
  /\ Requests # {}
  /\ \A r \in Requests :
       /\ r.mode \in Modes
       /\ r.expected \in Nat
       /\ r.items \in Seq([stream : Streams, op : Ops])
       /\ r.mode \in {"auto", "pinned", "callback"} => Len(r.items) = 1

VARIABLES
  events,    \* committed rows of the events table
  row,       \* committed projection row of every stream
  pc,        \* the statement each writer's transaction executes next
  req,       \* the call each writer is executing
  idx,       \* index of the item being appended
  ver,       \* stream version the insert will use
  staged,    \* events the writer's open transaction has inserted and projected
  outcome,   \* what the writer's last call returned
  calls,     \* calls made so far (bound)
  published, \* events whose before-commit callback published them
  rb,        \* the rebuild transaction
  rebuilds   \* rebuilds started so far (bound)

writerVars == <<pc, req, idx, ver, staged, outcome, calls, published>>
rebuildVars == <<rb, rebuilds>>
vars == <<events, row, writerVars, rebuildVars>>

(***************************************************************************)
(* An event carries, beside its columns, the row its projector left in the *)
(* same transaction (after): the staged content of the projection table.   *)
(***************************************************************************)
Event == [stream : Streams, version : 1 .. MaxVersion, op : Ops, after : Rows]

Versions(E, s) == {e.version : e \in {x \in E : x.stream = s}}

\* queries.CurrentStreamVersion: COALESCE(MAX(stream_version), 0)
Greatest(S) == CHOOSE x \in S : \A y \in S : x >= y
CurrentStreamVersion(E, s) == Greatest(Versions(E, s) \cup {0})

UniqueKeys(E) == \A d, e \in E : d.stream = e.stream /\ d.version = e.version => d = e

\* The row of stream s once the events of E up to version v are projected.
RowAt(E, s, v) ==
  IF v = 0 THEN NoRow
  ELSE (CHOOSE e \in E : e.stream = s /\ e.version = v).after

\* What a statement of w's transaction sees: committed data and its own writes.
Visible(w) == events \cup staged[w]

RowSeen(w, s) ==
  IF Versions(staged[w], s) = {} THEN row[s]
  ELSE RowAt(staged[w], s, CurrentStreamVersion(staged[w], s))

Pinned(w) == req[w].mode \in {"pinned", "pinnedBatch"}

Item(w) == req[w].items[idx[w]]

\* Unique-index entries held by w's uncommitted transaction.
HeldKeys(w) ==
  {<<e.stream, e.version>> : e \in staged[w]}
    \cup (IF pc[w] \in {"project", "wait", "lost"} THEN {<<Item(w).stream, ver[w]>>} ELSE {})

CommittedKeys == {<<e.stream, e.version>> : e \in events}

NoRebuild == [pc |-> "idle", version |-> [s \in Streams |-> 0],
              todo |-> {}, locked |-> {}, row |-> [s \in Streams |-> NoRow],
              next |-> [s \in Streams |-> 1]]

Init ==
  /\ events = {}
  /\ row = [s \in Streams |-> NoRow]
  /\ pc = [w \in Writers |-> "idle"]
  /\ req = [w \in Writers |-> CHOOSE r \in Requests : TRUE]
  /\ idx = [w \in Writers |-> 1]
  /\ ver = [w \in Writers |-> 0]
  /\ staged = [w \in Writers |-> {}]
  /\ outcome = [w \in Writers |-> "none"]
  /\ calls = [w \in Writers |-> 0]
  /\ published = {}
  /\ rb = NoRebuild
  /\ rebuilds = 0

-----------------------------------------------------------------------------
(* Writers *)

\* Roll the transaction back and return to the caller.
Return(w, result) ==
  /\ pc' = [pc EXCEPT ![w] = "idle"]
  /\ staged' = [staged EXCEPT ![w] = {}]
  /\ idx' = [idx EXCEPT ![w] = 1]
  /\ ver' = [ver EXCEPT ![w] = 0]
  /\ outcome' = [outcome EXCEPT ![w] = result]
  /\ UNCHANGED <<req, calls>>

\* Stay in the transaction and go to statement p.
Goto(w, p) ==
  /\ pc' = [pc EXCEPT ![w] = p]
  /\ UNCHANGED <<req, outcome, calls>>

\* An empty batch succeeds; a version-pinned batch over two streams, or past
\* the last version, fails before any transaction is opened.
EarlyResult(r) ==
  CASE r.items = <<>> -> "ok"
    [] r.mode = "pinnedBatch" /\ Len(r.items) > MaxVersion - r.expected -> "error"
    [] r.mode = "pinnedBatch" /\ \E i \in DOMAIN r.items : r.items[i].stream # r.items[1].stream -> "error"
    [] OTHER -> "none"

Call(w) ==
  /\ pc[w] = "idle"
  /\ calls[w] < MaxCalls
  /\ calls' = [calls EXCEPT ![w] = @ + 1]
  /\ \E r \in Requests :
       /\ req' = [req EXCEPT ![w] = r]
       /\ outcome' = [outcome EXCEPT ![w] = EarlyResult(r)]
       /\ pc' = [pc EXCEPT ![w] = IF EarlyResult(r) = "none" THEN "read" ELSE "idle"]
  /\ UNCHANGED <<events, row, idx, ver, staged, published, rebuildVars>>

\* Mutant: the expected version is not compared with the version that was read.
ReadVersionUnpinned(w) ==
  /\ pc[w] = "read"
  /\ LET current == CurrentStreamVersion(Visible(w), Item(w).stream) IN
       IF current = MaxVersion THEN Return(w, "error")
       ELSE /\ ver' = [ver EXCEPT ![w] = current + 1]
            /\ Goto(w, "insert")
            /\ UNCHANGED <<idx, staged>>
  /\ UNCHANGED <<events, row, published, rebuildVars>>

ReadVersion(w) ==
  /\ pc[w] = "read"
  /\ LET current == CurrentStreamVersion(Visible(w), Item(w).stream) IN
       IF Pinned(w) /\ current # req[w].expected
       THEN Return(w, "conflict")
       ELSE IF current = MaxVersion THEN Return(w, "error")
       ELSE /\ ver' = [ver EXCEPT ![w] = current + 1]
            /\ Goto(w, "insert")
            /\ UNCHANGED <<idx, staged>>
  /\ UNCHANGED <<events, row, published, rebuildVars>>

\* Mutant: the retry inserts again without reading the version.
VersionConflictStale(w) ==
  IF req[w].mode = "auto"
  THEN Goto(w, "insert") /\ UNCHANGED <<idx, ver, staged>>
  ELSE Return(w, IF req[w].mode = "callback" THEN "error" ELSE "conflict")

\* What the unique violation of the events key means to each append function:
\* AppendEvent rolls back and starts over, the others give up.
VersionConflict(w) ==
  IF req[w].mode = "auto"
  THEN /\ Goto(w, "read")
       /\ staged' = [staged EXCEPT ![w] = {}]
       /\ idx' = [idx EXCEPT ![w] = 1]
       /\ ver' = [ver EXCEPT ![w] = 0]
  ELSE Return(w, IF req[w].mode = "callback" THEN "error" ELSE "conflict")

\* The unique index makes the insert wait for an open transaction that holds
\* the same key, and fail once the key is committed.
InsertEvent(w) ==
  /\ pc[w] = "insert"
  /\ LET key == <<Item(w).stream, ver[w]>> IN
       /\ \A x \in Writers \ {w} : key \notin HeldKeys(x)
       /\ IF key \in CommittedKeys
          THEN VersionConflict(w)
          ELSE Goto(w, "project") /\ UNCHANGED <<idx, ver, staged>>
  /\ UNCHANGED <<events, row, published, rebuildVars>>

\* The projector has produced row r: keep it and go to the next item.
Projected(w, r) ==
  /\ staged' = [staged EXCEPT ![w] = @ \cup
        {[stream |-> Item(w).stream, version |-> ver[w], op |-> Item(w).op, after |-> r]}]
  /\ IF idx[w] < Len(req[w].items)
     THEN /\ idx' = [idx EXCEPT ![w] = @ + 1]
          /\ IF req[w].mode = "pinnedBatch"
             THEN ver' = [ver EXCEPT ![w] = @ + 1] /\ Goto(w, "insert")
             ELSE ver' = ver /\ Goto(w, "read")
     ELSE /\ UNCHANGED <<idx, ver>>
          /\ Goto(w, IF req[w].mode = "callback" THEN "callback" ELSE "commit")

ProjectEvent(w) ==
  /\ pc[w] = "project"
  /\ Item(w).stream \notin rb.locked
  /\ LET r == Project(RowSeen(w, Item(w).stream), Item(w).op, ver[w]) IN
       IF r = Refused THEN Return(w, "error") ELSE Projected(w, r)
  /\ UNCHANGED <<events, row, published, rebuildVars>>

\* The row is locked by the rebuild: the statement waits for it to end.
WaitForRow(w) ==
  /\ pc[w] = "project"
  /\ Item(w).stream \in rb.locked
  /\ Goto(w, "wait")
  /\ UNCHANGED <<events, row, idx, ver, staged, published, rebuildVars>>

\* The rebuild it waited for committed: the row was deleted and inserted again,
\* so the statement changes no row.  The projector then finds a row that does
\* not contain the event and reports it.
LostRow(w) ==
  /\ pc[w] = "lost"
  /\ Return(w, "error")
  /\ UNCHANGED <<events, row, published, rebuildVars>>

\* The before-commit callback runs once the event is projected.  It may fail,
\* or run out of time, with or without having published.
Callback(w) ==
  /\ pc[w] = "callback"
  /\ \E did \in BOOLEAN, ok \in BOOLEAN :
       /\ ok => did
       /\ published' = IF did THEN published \cup staged[w] ELSE published
       /\ IF ok THEN Goto(w, "commit") /\ UNCHANGED <<idx, ver, staged>>
          ELSE Return(w, "error")
  /\ UNCHANGED <<events, row, rebuildVars>>

\* The commit applies every staged row at once.  The caller may see an error
\* although the server committed: the connection was lost on the way back.
Commit(w) ==
  /\ pc[w] = "commit"
  /\ events' = events \cup staged[w]
  /\ row' = [s \in Streams |-> RowSeen(w, s)]
  /\ \E result \in {"ok", "error"} : Return(w, result)
  /\ UNCHANGED <<published, rebuildVars>>

\* Cancelled context, lost connection or crash: Postgres rolls back.
Abort(w) ==
  /\ pc[w] # "idle"
  /\ Return(w, "error")
  /\ UNCHANGED <<events, row, published, rebuildVars>>

-----------------------------------------------------------------------------
(* Deadlocks.  A transaction waits for the transactions that hold the key or *)
(* the row its next statement needs.                                         *)

WaitsFor(w) ==
  CASE pc[w] = "insert" -> {x \in Writers \ {w} : <<Item(w).stream, ver[w]>> \in HeldKeys(x)}
    [] pc[w] = "wait"   -> {"rebuild"}
    [] OTHER            -> {}

RowHolders(s) == {w \in Writers : Versions(staged[w], s) # {}}

RebuildWaitsFor ==
  CASE rb.pc = "reset"  -> UNION {RowHolders(s) : s \in rb.todo}
    [] rb.pc = "replay" -> UNION {RowHolders(s) : s \in {x \in Streams \ rb.locked : rb.next[x] <= rb.version[x]}}
    [] OTHER            -> {}

\* Postgres' deadlock detector cancels a member of a cycle of waiting
\* transactions (SQLSTATE 40P01, which the append functions do not retry).
DeadlockVictim(w) ==
  /\ \E D \in SUBSET Writers :
       /\ w \in D
       /\ \A x \in D :
            \/ WaitsFor(x) \cap D # {}
            \/ "rebuild" \in WaitsFor(x) /\ RebuildWaitsFor \cap D # {}
  /\ Return(w, "error")
  /\ UNCHANGED <<events, row, published, rebuildVars>>

-----------------------------------------------------------------------------
(* RebuildAll *)

\* The first query fixes the snapshot of the REPEATABLE READ transaction.
RebuildBegin ==
  /\ rb.pc = "idle"
  /\ rebuilds < MaxRebuilds
  /\ rebuilds' = rebuilds + 1
  /\ rb' = [NoRebuild EXCEPT !.pc = "reset",
                            !.version = [s \in Streams |-> CurrentStreamVersion(events, s)],
                            !.todo = {s \in Streams : row[s] # NoRow}]
  /\ UNCHANGED <<events, row, writerVars>>

\* The rebuild ends: writers that waited for its rows go on at statement p.
RebuildEnd(p) ==
  /\ rb' = NoRebuild
  /\ pc' = [w \in Writers |-> IF pc[w] = "wait" THEN p ELSE pc[w]]
  /\ UNCHANGED <<events, req, idx, ver, staged, outcome, calls, published, rebuilds>>

\* Error, lost connection or crash.
RebuildAbort ==
  /\ rb.pc # "idle"
  /\ RebuildEnd("project")
  /\ UNCHANGED row

\* A write of the rebuild to a row waits for writers that hold it and fails
\* with a serialization error when the row changed after the snapshot.
RowFree(s) == s \in rb.locked \/ RowHolders(s) = {}

\* Mutant: the rebuild runs at READ COMMITTED.
RowUnchecked(s) == TRUE

RowUnchanged(s) == CurrentStreamVersion(events, s) = rb.version[s]

RebuildReset(s) ==
  /\ rb.pc = "reset"
  /\ s \in rb.todo
  /\ RowFree(s)
  /\ IF RowUnchanged(s)
     THEN /\ rb' = [rb EXCEPT !.todo = @ \ {s}, !.locked = @ \cup {s}]
          /\ UNCHANGED <<events, row, writerVars, rebuilds>>
     ELSE RebuildEnd("project") /\ UNCHANGED row

RebuildResetDone ==
  /\ rb.pc = "reset"
  /\ rb.todo = {}
  /\ rb' = [rb EXCEPT !.pc = "replay"]
  /\ UNCHANGED <<events, row, writerVars, rebuilds>>

\* The next event of stream s in the snapshot, run through its projector.
ReplayedRow(s) ==
  LET e == CHOOSE x \in events : x.stream = s /\ x.version = rb.next[s]
  IN  Project(rb.row[s], e.op, e.version)

replayEvent(s) ==
  /\ rb.pc = "replay"
  /\ rb.next[s] <= rb.version[s]
  /\ RowFree(s)
  /\ IF RowUnchanged(s) /\ ReplayedRow(s) # Refused
     THEN /\ rb' = [rb EXCEPT !.row[s] = ReplayedRow(s), !.next[s] = @ + 1, !.locked = @ \cup {s}]
          /\ UNCHANGED <<events, row, writerVars, rebuilds>>
     ELSE RebuildEnd("project") /\ UNCHANGED row

RebuildCommit ==
  /\ rb.pc = "replay"
  /\ \A s \in Streams : rb.next[s] > rb.version[s]
  /\ row' = [s \in Streams |-> IF s \in rb.locked THEN rb.row[s] ELSE row[s]]
  /\ RebuildEnd("lost")

-----------------------------------------------------------------------------
WriterStep(w) ==
  \/ ReadVersion(w) \/ InsertEvent(w) \/ ProjectEvent(w) \/ WaitForRow(w)
  \/ LostRow(w) \/ Callback(w) \/ Commit(w) \/ DeadlockVictim(w)

RebuildStep ==
  \/ RebuildResetDone \/ RebuildCommit
  \/ \E s \in Streams : RebuildReset(s) \/ replayEvent(s)

Next ==
  \/ \E w \in Writers : Call(w) \/ WriterStep(w) \/ Abort(w)
  \/ RebuildBegin \/ RebuildStep \/ RebuildAbort

Spec == Init /\ [][Next]_vars

\* An open transaction keeps executing its statements: Go runs the goroutine
\* and Postgres answers.  Calls, failures and rebuilds need not happen.
FairSpec ==
  /\ Spec
  /\ \A w \in Writers : WF_vars(WriterStep(w))
  /\ WF_vars(RebuildStep)

-----------------------------------------------------------------------------
(* Properties *)

Statements == {"idle", "read", "insert", "project", "wait", "lost", "callback", "commit"}

\* Every variable has its type.
TypeOK ==
  /\ events \subseteq Event
  /\ row \in [Streams -> Rows]
  /\ pc \in [Writers -> Statements]
  /\ req \in [Writers -> Requests]
  /\ idx \in [Writers -> Nat \ {0}]
  /\ ver \in [Writers -> 0 .. MaxVersion]
  /\ staged \in [Writers -> SUBSET Event]
  /\ outcome \in [Writers -> {"none", "ok", "conflict", "error"}]
  /\ calls \in [Writers -> 0 .. MaxCalls]
  /\ published \subseteq Event
  /\ rb \in [pc : {"idle", "reset", "replay"}, version : [Streams -> 0 .. MaxVersion],
             todo : SUBSET Streams, locked : SUBSET Streams,
             row : [Streams -> Rows], next : [Streams -> Nat \ {0}]]
  /\ rebuilds \in 0 .. MaxRebuilds

\* Whatever the interleaving of appends, a stream's committed versions are
\* 1..n, each held by one event: no gap is left by a rolled-back insert and no
\* version is won by two writers (the contract of the events unique key).
VersionsContiguous ==
  /\ \A s \in Streams : Versions(events, s) = 1 .. CurrentStreamVersion(events, s)
  /\ UniqueKeys(events)

\* The projection is the replay of the log: each event's projector accepted
\* the row its predecessor left, and the stored row is the last one.
ProjectionIsReplay ==
  /\ \A e \in events : e.after = Project(RowAt(events, e.stream, e.version - 1), e.op, e.version)
  /\ \A s \in Streams : row[s] = RowAt(events, s, CurrentStreamVersion(events, s))

\* A projection row changes only in a transaction that appends an event: a
\* rebuild that commits while writers run neither loses an append nor
\* resurrects a state (RebuildAll replays 1:1), for projectors that read the
\* row of their own stream only.
RowsMoveWithEvents == [][events' = events => row' = row]_vars

\* A version-pinned append commits only while the stream is still at the
\* version its caller expected: nothing was appended in between.
PinnedAppendsAtExpected ==
  [][\A w \in Writers :
       events' # events /\ pc[w] = "commit" /\ pc'[w] = "idle" /\ Pinned(w)
         => CurrentStreamVersion(events, req[w].items[1].stream) = req[w].expected]_vars

\* An event appended through AppendEventBeforeCommit is published before it is
\* durable: no reader of the log finds one whose callback has not run.
PublishedBeforeDurable ==
  [][\A w \in Writers :
       pc[w] = "commit" /\ events' # events /\ req[w].mode = "callback" /\ pc'[w] = "idle"
         => events' \ events \subseteq published]_vars

\* Every append call returns: conflicts, row locks held by a rebuild and
\* deadlocks between batches never leave a writer waiting for ever.
AppendReturns == \A w \in Writers : pc[w] # "idle" ~> pc[w] = "idle"

\* The store implements the abstract log: every step of every transaction is
\* either invisible or one whole append.
Abstract == INSTANCE AtomicLog WITH log <- events
ImplementsAtomicLog == Abstract!Spec
=============================================================================
