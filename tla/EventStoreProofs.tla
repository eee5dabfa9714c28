-------------------------- MODULE EventStoreProofs --------------------------
(***************************************************************************)
(* The inductive invariant of EventStore, for any number of writers,       *)
(* streams and events and any projector.  It says what an open transaction *)
(* may rely on: the keys it holds stop every other transaction from moving *)
(* the streams it has touched.  Then the lemmas the proofs of the steps    *)
(* share, a lemma for every step, and the theorems.                        *)
(***************************************************************************)
EXTENDS EventStore, TLAPS

Committed(s) == CurrentStreamVersion(events, s)
Seen(w, s) == CurrentStreamVersion(Visible(w), s)

\* The versions are numbers, and a transaction sees what is committed.
CountInv ==
  /\ \A s \in Streams : Committed(s) \in Nat
  /\ \A w \in Writers, s \in Streams : Seen(w, s) \in Nat /\ Committed(s) <= Seen(w, s)

\* The staged events of w's open transaction extend the committed streams
\* without gap, and each was projected from its predecessor's row.
StagedOK(w) ==
  /\ pc[w] = "idle" => staged[w] = {}
  /\ \A s \in Streams : Versions(staged[w], s) = (Committed(s) + 1) .. Seen(w, s)
  /\ UniqueKeys(staged[w])
  /\ \A e \in staged[w] :
       e.after = Project(RowAt(Visible(w), e.stream, e.version - 1), e.op, e.version)

\* The key w is inserting: possibly stale before the insert, the next free one
\* once the unique index has granted it.
KeyOK(w) ==
  /\ pc[w] = "idle" => idx[w] = 1
  /\ pc[w] = "callback" => req[w].mode = "callback"
  /\ pc[w] \in {"read", "insert", "project", "wait", "lost"} => idx[w] \in DOMAIN req[w].items
  /\ pc[w] = "insert" =>
       /\ ver[w] \in 1 .. (Seen(w, Item(w).stream) + 1)
       /\ Versions(staged[w], Item(w).stream) # {} => ver[w] = Seen(w, Item(w).stream) + 1
  /\ pc[w] \in {"project", "wait", "lost"} => ver[w] = Seen(w, Item(w).stream) + 1

\* A version-pinned transaction that holds a key has found the stream at the
\* version its caller expected.
PinnedOK(w) ==
  Pinned(w) /\ pc[w] # "idle" =>
    /\ \A i \in DOMAIN req[w].items : req[w].items[i].stream = req[w].items[1].stream
    /\ req[w].mode = "pinnedBatch" => req[w].expected + Len(req[w].items) <= MaxVersion
    /\ pc[w] = "read" => idx[w] = 1
    /\ idx[w] = 1 /\ pc[w] # "commit" => staged[w] = {}
    /\ pc[w] \in {"insert", "project", "wait", "lost"} => ver[w] = req[w].expected + idx[w]
    /\ pc[w] = "commit" \/ idx[w] > 1 => Versions(staged[w], req[w].items[1].stream) # {}
    /\ pc[w] \in {"project", "wait", "lost", "commit"} \/ idx[w] > 1
         => Committed(req[w].items[1].stream) = req[w].expected

WriterOK(w) == StagedOK(w) /\ KeyOK(w) /\ PinnedOK(w)

\* No key is held by two transactions.
KeysDisjoint == \A w, x \in Writers : w # x => HeldKeys(w) \cap HeldKeys(x) = {}

\* The rebuild's rows are the replay of the events before rb.next, and the
\* rows it has locked are at the version of its snapshot.
RebuildInv ==
  /\ rb.pc = "idle" => rb = NoRebuild
  /\ \A s \in Streams :
       /\ rb.version[s] <= Committed(s)
       /\ rb.next[s] <= rb.version[s] + 1
       /\ rb.row[s] = RowAt(events, s, rb.next[s] - 1)
       /\ s \in rb.locked => rb.version[s] = Committed(s) /\ RowHolders(s) = {}

IInv ==
  /\ TypeOK
  /\ CountInv
  /\ VersionsContiguous
  /\ ProjectionIsReplay
  /\ \A w \in Writers : WriterOK(w)
  /\ KeysDisjoint
  /\ RebuildInv

-----------------------------------------------------------------------------
(* Lemmas about the operators *)

\* The largest version of an uninterrupted stream is its length.
LEMMA GreatestOfInterval ==
  ASSUME NEW m \in Nat, NEW n \in Nat, m <= n \/ n = 0
  PROVE  Greatest((m .. n) \cup {0}) = n
<1> DEFINE S == (m .. n) \cup {0}
<1>1. n \in S /\ \A y \in S : n >= y
  OBVIOUS
<1>2. \A x \in S : (\A y \in S : x >= y) => x = n
  BY <1>1
<1> QED BY <1>1, <1>2, Zenon DEF Greatest

\* No event is staged on a stream that is seen where it was committed.
LEMMA NothingStaged ==
  /\ \A s : Versions({}, s) = {}
  /\ \A n \in Nat : (n + 1) .. n = {}
<1>1. \A s : Versions({}, s) = {}
  BY Zenon DEF Versions
<1>2. \A n \in Nat : (n + 1) .. n = {}
  OBVIOUS
<1> QED BY <1>1, <1>2, Zenon

\* The versions of a union are the union of the versions.
LEMMA VersionsUnion ==
  ASSUME NEW A, NEW B, NEW s
  PROVE  Versions(A \cup B, s) = Versions(A, s) \cup Versions(B, s)
BY Zenon DEF Versions

\* A set of events whose versions of s are 1..n is at version n.
LEMMA VersionOfInterval ==
  ASSUME NEW E, NEW s, NEW n \in Nat, Versions(E, s) = 1 .. n
  PROVE  CurrentStreamVersion(E, s) = n
BY GreatestOfInterval, 1 <= n \/ n = 0 DEF CurrentStreamVersion

\* The row at an event's version is the row its projector left.
LEMMA RowAtEvent ==
  ASSUME NEW E, UniqueKeys(E), NEW e \in E, e.version # 0
  PROVE  RowAt(E, e.stream, e.version) = e.after
<1>1. \A x \in E : x.stream = e.stream /\ x.version = e.version => x = e
  BY Zenon DEF UniqueKeys
<1> QED BY <1>1, Zenon DEF RowAt

\* Events added later do not change the row at an earlier version.
LEMMA RowAtExtend ==
  ASSUME NEW E, NEW F, E \subseteq F, UniqueKeys(F), NEW s, NEW v,
         v = 0 \/ v \in Versions(E, s)
  PROVE  RowAt(F, s, v) = RowAt(E, s, v)
<1>1. CASE v = 0
  BY <1>1, Zenon DEF RowAt
<1>2. CASE v # 0
  <2>1. PICK e \in E : e.stream = s /\ e.version = v
    BY <1>2, Zenon DEF Versions
  <2>2. UniqueKeys(E) /\ e \in F
    BY <2>1, Zenon DEF UniqueKeys
  <2> QED BY <1>2, <2>1, <2>2, RowAtEvent, Zenon
<1> QED BY <1>1, <1>2, Zenon

-----------------------------------------------------------------------------
(* Facts every open transaction has under the invariant *)

\* The item being appended names a stream and an operation.
LEMMA ItemType ==
  ASSUME IInv, NEW w \in Writers, idx[w] \in DOMAIN req[w].items
  PROVE  Item(w).stream \in Streams /\ Item(w).op \in Ops
<1>1. req[w] \in Requests
  BY Zenon DEF IInv, TypeOK
<1>2. req[w].items \in Seq([stream : Streams, op : Ops])
  BY <1>1, RequestsAssumption, ZenonT(60)
<1>3. \A S : \A q \in Seq(S) : \A i \in DOMAIN q : q[i] \in S
  OBVIOUS
<1>4. Item(w) \in [stream : Streams, op : Ops]
  BY <1>2, <1>3, ZenonT(60) DEF Item
<1> QED BY <1>4, Zenon

\* What w sees of a stream is an uninterrupted sequence of versions.
LEMMA VisibleVersions ==
  ASSUME IInv, NEW w \in Writers, NEW s \in Streams
  PROVE  Versions(Visible(w), s) = 1 .. Seen(w, s)
<1>1. Versions(Visible(w), s) = Versions(events, s) \cup Versions(staged[w], s)
  BY VersionsUnion DEF Visible
<1>2. Versions(events, s) = 1 .. Committed(s)
  BY Zenon DEF IInv, VersionsContiguous, Committed
<1>3. Versions(staged[w], s) = (Committed(s) + 1) .. Seen(w, s)
  BY Zenon DEF IInv, WriterOK, StagedOK
<1>4. Committed(s) \in Nat /\ Seen(w, s) \in Nat /\ Committed(s) <= Seen(w, s)
  BY Zenon DEF IInv, CountInv
<1> QED BY <1>1, <1>2, <1>3, <1>4

\* Staged events never share a key with committed ones.
LEMMA VisibleUnique ==
  ASSUME IInv, NEW w \in Writers
  PROVE  UniqueKeys(Visible(w))
<1> SUFFICES ASSUME NEW d \in Visible(w), NEW e \in Visible(w),
                    d.stream = e.stream, d.version = e.version
             PROVE  d = e
  BY Zenon DEF UniqueKeys
<1>1. ASSUME NEW x \in events, NEW y \in staged[w], x.stream = y.stream, x.version = y.version
      PROVE  FALSE
  <2>1. x.stream \in Streams /\ y.stream \in Streams
    BY DEF IInv, TypeOK, Event
  <2>2. x.version \in Versions(events, x.stream) /\ y.version \in Versions(staged[w], x.stream)
    BY <1>1, Zenon DEF Versions
  <2>3. x.version \in 1 .. Committed(x.stream) /\ y.version \in (Committed(x.stream) + 1) .. Seen(w, x.stream)
    BY <2>1, <2>2, ZenonT(60) DEF IInv, VersionsContiguous, Committed, WriterOK, StagedOK
  <2>4. Committed(x.stream) \in Nat /\ Seen(w, x.stream) \in Nat
    BY <2>1, Zenon DEF IInv, CountInv
  <2> QED BY <1>1, <2>3, <2>4
<1>2. UniqueKeys(events) /\ UniqueKeys(staged[w])
  BY Zenon DEF IInv, VersionsContiguous, WriterOK, StagedOK
<1> QED BY <1>1, <1>2, Zenon DEF Visible, UniqueKeys

\* The row a projector starts from is the row at the version w sees.
LEMMA RowSeenIsRowAt ==
  ASSUME IInv, NEW w \in Writers, NEW s \in Streams
  PROVE  /\ RowSeen(w, s) = RowAt(Visible(w), s, Seen(w, s))
         /\ RowSeen(w, s) \in Rows
<1>1. Committed(s) \in Nat /\ Seen(w, s) \in Nat /\ Committed(s) <= Seen(w, s)
  BY DEF IInv, CountInv
<1>2. Versions(staged[w], s) = (Committed(s) + 1) .. Seen(w, s)
  BY DEF IInv, WriterOK, StagedOK
<1>3. UniqueKeys(Visible(w)) /\ events \subseteq Visible(w) /\ staged[w] \subseteq Visible(w)
  BY VisibleUnique, Zenon DEF Visible
<1>4. Versions(events, s) = 1 .. Committed(s)
  BY DEF IInv, VersionsContiguous, Committed
<1>5. CASE Versions(staged[w], s) = {}
  <2>1. Seen(w, s) = Committed(s)
    BY <1>1, <1>2, <1>5
  <2>2. RowAt(Visible(w), s, Committed(s)) = RowAt(events, s, Committed(s))
    BY <1>1, <1>3, <1>4, RowAtExtend
  <2>3. row[s] = RowAt(events, s, Committed(s)) /\ row[s] \in Rows
    BY Zenon DEF IInv, ProjectionIsReplay, Committed, TypeOK
  <2> QED BY <1>5, <2>1, <2>2, <2>3, Zenon DEF RowSeen
<1>6. CASE Versions(staged[w], s) # {}
  <2>1. Seen(w, s) \in Versions(staged[w], s) /\ Seen(w, s) # 0
    BY <1>1, <1>2, <1>6
  <2>2. CurrentStreamVersion(staged[w], s) = Seen(w, s)
    BY <1>1, <1>2, <2>1, GreatestOfInterval DEF CurrentStreamVersion
  <2>3. RowAt(Visible(w), s, Seen(w, s)) = RowAt(staged[w], s, Seen(w, s))
    BY <1>3, <2>1, RowAtExtend
  <2>4. PICK e \in staged[w] : e.stream = s /\ e.version = Seen(w, s)
    BY <2>1, Zenon DEF Versions
  <2>5. UniqueKeys(staged[w]) /\ e.after \in Rows
    BY DEF IInv, WriterOK, StagedOK, TypeOK, Event
  <2>6. RowAt(staged[w], s, Seen(w, s)) = e.after
    BY <2>1, <2>4, <2>5, RowAtEvent, Zenon
  <2> QED BY <1>6, <2>2, <2>3, <2>5, <2>6, Zenon DEF RowSeen
<1> QED BY <1>5, <1>6, Zenon

-----------------------------------------------------------------------------
(* The invariant holds initially *)

\* The empty log satisfies the invariant.
LEMMA InitInv == Init => IInv
<1> SUFFICES ASSUME Init PROVE IInv
  BY Zenon
<1>1. \A s : Versions({}, s) = {}
  BY Zenon DEF Versions
<1>2. \A s : Versions({}, s) = 1 .. 0
  BY <1>1
<1>3. \A s : CurrentStreamVersion({}, s) = 0
  BY <1>2, VersionOfInterval, Zenon
<1>4. events = {} /\ \A w \in Writers : staged[w] = {} /\ Visible(w) = {}
  BY Zenon DEF Init, Visible
<1>5. \A s \in Streams : Committed(s) = 0
  BY <1>3, <1>4, Zenon DEF Committed
<1>6. \A w \in Writers, s \in Streams : Seen(w, s) = 0
  BY <1>3, <1>4, Zenon DEF Seen
<1>7. TypeOK
  BY BoundsAssumption, NoRowAssumption, RequestsAssumption DEF Init, TypeOK, Statements, NoRebuild
<1>8. CountInv
  BY <1>5, <1>6 DEF CountInv
<1>9. VersionsContiguous
  BY <1>2, <1>3, <1>4, Zenon DEF VersionsContiguous, UniqueKeys
<1>10. ProjectionIsReplay
  BY <1>3, <1>4, Zenon DEF ProjectionIsReplay, RowAt, Init
<1>11. \A w \in Writers : StagedOK(w)
  <2> TAKE w \in Writers
  <2>1. \A s \in Streams : Versions(staged[w], s) = (Committed(s) + 1) .. Seen(w, s)
    BY <1>1, <1>4, <1>5, <1>6, NothingStaged, 0 \in Nat, ZenonT(60)
  <2> QED BY <2>1, <1>4, Zenon DEF StagedOK, UniqueKeys
<1>12. \A w \in Writers : KeyOK(w) /\ PinnedOK(w) /\ HeldKeys(w) = {}
  BY <1>4, Zenon DEF KeyOK, PinnedOK, HeldKeys, Init
<1>14. RebuildInv
  BY <1>5 DEF RebuildInv, NoRebuild, RowAt, Init
<1> QED BY <1>7, <1>8, <1>9, <1>10, <1>11, <1>12, <1>14, Zenon DEF IInv, WriterOK, KeysDisjoint

-----------------------------------------------------------------------------
(* Steps of a writer *)

\* A writer whose own transaction and streams do not move keeps its facts.
LEMMA OtherWriter ==
  ASSUME NEW x \in Writers, WriterOK(x), UNCHANGED events,
         UNCHANGED <<pc[x], req[x], idx[x], ver[x], staged[x]>>
  PROVE  WriterOK(x)' /\ HeldKeys(x)' = HeldKeys(x)
<1>1. \A s : Committed(s)' = Committed(s) /\ Seen(x, s)' = Seen(x, s)
  BY Zenon DEF Committed, Seen, Visible
<1>2. Visible(x)' = Visible(x) /\ Item(x)' = Item(x) /\ Pinned(x)' = Pinned(x)
  BY Zenon DEF Visible, Item, Pinned
<1>3. StagedOK(x)'
  BY <1>1, <1>2, Zenon DEF WriterOK, StagedOK
<1>4. KeyOK(x)'
  BY <1>1, <1>2, Zenon DEF WriterOK, KeyOK
<1>5. PinnedOK(x)'
  BY <1>1, <1>2, Zenon DEF WriterOK, PinnedOK
<1>6. HeldKeys(x)' = HeldKeys(x)
  BY <1>2, Zenon DEF HeldKeys
<1> QED BY <1>3, <1>4, <1>5, <1>6, Zenon DEF WriterOK

\* A step that leaves the tables and the staged events alone.
LEMMA Frame ==
  ASSUME IInv, UNCHANGED <<events, row, staged, rb>>
  PROVE  /\ CountInv' /\ VersionsContiguous' /\ ProjectionIsReplay' /\ RebuildInv'
         /\ \A s \in Streams : Committed(s)' = Committed(s)
         /\ \A w \in Writers, s \in Streams : Seen(w, s)' = Seen(w, s)
<1>1. \A s \in Streams : Committed(s)' = Committed(s)
  BY Zenon DEF Committed
<1>2. \A w \in Writers, s \in Streams : Seen(w, s)' = Seen(w, s)
  BY Zenon DEF Seen, Visible
<1>3. CountInv'
  BY <1>1, <1>2, Zenon DEF IInv, CountInv
<1>4. VersionsContiguous' /\ ProjectionIsReplay'
  BY Zenon DEF IInv, VersionsContiguous, ProjectionIsReplay
<1>5. RebuildInv'
  BY <1>1, Zenon DEF IInv, RebuildInv, RowHolders
<1> QED BY <1>1, <1>2, <1>3, <1>4, <1>5, Zenon

\* A transaction that rolls back takes its staged events and keys with it.
LEMMA RollbackStep ==
  ASSUME IInv, NEW w \in Writers, NEW p,
         p = "idle" \/ (p = "read" /\ req[w].mode = "auto"),
         pc' = [pc EXCEPT ![w] = p], staged' = [staged EXCEPT ![w] = {}],
         idx' = [idx EXCEPT ![w] = 1], ver' = [ver EXCEPT ![w] = 0],
         outcome' \in [Writers -> {"none", "ok", "conflict", "error"}],
         UNCHANGED <<events, row, rb, rebuilds, req, calls>>,
         published' \subseteq Event
  PROVE  IInv'
<1>1. req' = req /\ calls' = calls
  BY Zenon
<1>2. \A x \in Writers \ {w} : pc'[x] = pc[x] /\ staged'[x] = staged[x] /\ idx'[x] = idx[x] /\ ver'[x] = ver[x]
  BY <1>1, Zenon DEF IInv, TypeOK
<1>3. pc'[w] = p /\ staged'[w] = {} /\ idx'[w] = 1
  BY <1>1, Zenon DEF IInv, TypeOK
<1>4. TypeOK'
  <2>1. p \in Statements
    BY Zenon DEF Statements
  <2>2. pc' \in [Writers -> Statements] /\ staged' \in [Writers -> SUBSET Event]
    BY <2>1, Zenon DEF IInv, TypeOK
  <2>3. idx' \in [Writers -> Nat \ {0}] /\ ver' \in [Writers -> 0 .. MaxVersion]
    BY BoundsAssumption DEF IInv, TypeOK
  <2> QED BY <2>2, <2>3, Zenon DEF IInv, TypeOK
<1>5. \A s \in Streams : Committed(s)' = Committed(s)
  BY Zenon DEF Committed
<1>6. \A x \in Writers \ {w}, s \in Streams : Seen(x, s)' = Seen(x, s)
  BY <1>2, Zenon DEF Seen, Visible
<1>7. \A s \in Streams : Seen(w, s)' = Committed(s)
  BY <1>3, Zenon DEF Seen, Committed, Visible
<1>8. CountInv'
  BY <1>5, <1>6, <1>7 DEF IInv, CountInv
<1>9. VersionsContiguous' /\ ProjectionIsReplay'
  BY Zenon DEF IInv, VersionsContiguous, ProjectionIsReplay
<1>10. \A s : Versions({}, s) = {}
  BY Zenon DEF Versions
<1>11. WriterOK(w)'
  <2>1. \A s \in Streams : Versions(staged'[w], s) = (Committed(s) + 1) .. Committed(s)
    BY <1>3, NothingStaged, ZenonT(60) DEF IInv, CountInv
  <2>2. StagedOK(w)'
    BY <2>1, <1>3, <1>5, <1>7, Zenon DEF StagedOK, UniqueKeys
  <2>3. p = "read" => 1 \in DOMAIN req[w].items
    BY RequestsAssumption DEF IInv, TypeOK
  <2>4. KeyOK(w)'
    BY <1>1, <1>3, <2>3, Zenon DEF KeyOK
  <2>5. PinnedOK(w)'
    BY <1>1, <1>3, Zenon DEF PinnedOK, Pinned
  <2> QED BY <2>2, <2>4, <2>5, Zenon DEF WriterOK
<1>12. \A x \in Writers \ {w} : WriterOK(x)' /\ HeldKeys(x)' = HeldKeys(x)
  BY <1>1, <1>2, OtherWriter, Zenon DEF IInv
<1>13. KeysDisjoint'
  <2>1. HeldKeys(w)' = {}
    BY <1>3, Zenon DEF HeldKeys
  <2> QED BY <2>1, <1>12, Zenon DEF IInv, KeysDisjoint
<1>14. RebuildInv'
  <2>1. \A s \in Streams : RowHolders(s)' \subseteq RowHolders(s)
    BY <1>2, <1>3, <1>10, Zenon DEF RowHolders
  <2> QED BY <2>1, <1>5, Zenon DEF IInv, RebuildInv
<1> QED BY <1>4, <1>8, <1>9, <1>11, <1>12, <1>13, <1>14, Zenon DEF IInv

\* Returning to the caller is a rollback.
LEMMA ReturnStep ==
  ASSUME IInv, NEW w \in Writers, NEW result \in {"ok", "conflict", "error"},
         Return(w, result), UNCHANGED <<events, row, rb, rebuilds>>,
         published' \subseteq Event
  PROVE  IInv'
<1>1. outcome' \in [Writers -> {"none", "ok", "conflict", "error"}]
  BY Zenon DEF Return, IInv, TypeOK
<1> QED BY <1>1, RollbackStep, ZenonT(60) DEF Return

\* A step that only moves w's own transaction to its next statement.
LEMMA ControlStep ==
  ASSUME IInv, NEW w \in Writers,
         UNCHANGED <<events, row, staged, rb>>, TypeOK', WriterOK(w)',
         \A x \in Writers \ {w} : UNCHANGED <<pc[x], req[x], idx[x], ver[x]>>,
         \A x \in Writers \ {w} : HeldKeys(w)' \cap HeldKeys(x) = {}
  PROVE  IInv'
<1>1. CountInv' /\ VersionsContiguous' /\ ProjectionIsReplay' /\ RebuildInv'
  BY Frame, Zenon
<1>2. \A x \in Writers \ {w} : WriterOK(x)' /\ HeldKeys(x)' = HeldKeys(x)
  BY OtherWriter, Zenon DEF IInv
<1>3. KeysDisjoint'
  BY <1>2 DEF IInv, KeysDisjoint
<1> QED BY <1>1, <1>2, <1>3, Zenon DEF IInv

\* What w sees of its own streams does not change in such a step.
LEMMA SeenUnchanged ==
  ASSUME NEW w \in Writers, UNCHANGED <<events, staged>>
  PROVE  /\ Visible(w)' = Visible(w)
         /\ \A s : Seen(w, s)' = Seen(w, s) /\ Committed(s)' = Committed(s)
BY Zenon DEF Visible, Seen, Committed

\* A call opens a transaction that has staged nothing, or returns at once.
LEMMA CallStep == ASSUME IInv, NEW w \in Writers, Call(w) PROVE IInv'
<1>1. PICK r \in Requests :
        /\ req' = [req EXCEPT ![w] = r]
        /\ outcome' = [outcome EXCEPT ![w] = EarlyResult(r)]
        /\ pc' = [pc EXCEPT ![w] = IF EarlyResult(r) = "none" THEN "read" ELSE "idle"]
  BY Zenon DEF Call
<1>2. pc[w] = "idle" /\ staged[w] = {} /\ idx[w] = 1
  BY Zenon DEF Call, IInv, WriterOK, StagedOK, KeyOK
<1>3. EarlyResult(r) \in {"none", "ok", "error"}
  BY Zenon DEF EarlyResult
<1>4. TypeOK'
  <2>1. pc' \in [Writers -> Statements]
    BY <1>1, Zenon DEF IInv, TypeOK, Statements
  <2>2. req' \in [Writers -> Requests] /\ outcome' \in [Writers -> {"none", "ok", "conflict", "error"}]
    BY <1>1, <1>3, Zenon DEF IInv, TypeOK
  <2>3. calls' \in [Writers -> 0 .. MaxCalls]
    BY BoundsAssumption DEF Call, IInv, TypeOK
  <2> QED BY <2>1, <2>2, <2>3, Zenon DEF Call, rebuildVars, IInv, TypeOK
<1>5. /\ pc'[w] = (IF EarlyResult(r) = "none" THEN "read" ELSE "idle") /\ req'[w] = r
      /\ UNCHANGED <<events, row, staged, rb, idx>>
      /\ \A x \in Writers \ {w} : UNCHANGED <<pc[x], req[x], idx[x], ver[x]>>
  BY <1>1, Zenon DEF Call, rebuildVars, IInv, TypeOK
<1>6. \A s : Seen(w, s)' = Seen(w, s) /\ Committed(s)' = Committed(s) /\ Visible(w)' = Visible(w)
  BY <1>5, SeenUnchanged, Zenon
<1>7. StagedOK(w)'
  BY <1>2, <1>5, <1>6, Zenon DEF IInv, WriterOK, StagedOK
<1>8. EarlyResult(r) = "none" =>
        /\ 1 \in DOMAIN r.items
        /\ r.mode = "pinnedBatch" => r.expected + Len(r.items) <= MaxVersion
        /\ r.mode \in {"pinned", "pinnedBatch"} =>
             \A i \in DOMAIN r.items : r.items[i].stream = r.items[1].stream
  BY RequestsAssumption, BoundsAssumption, SMTT(60) DEF EarlyResult
<1>9. KeyOK(w)'
  BY <1>2, <1>5, <1>8, Zenon DEF KeyOK
<1>10. PinnedOK(w)'
  BY <1>2, <1>5, <1>8, SMTT(60) DEF PinnedOK, Pinned
<1>11. HeldKeys(w)' = {}
  BY <1>2, <1>5, Zenon DEF HeldKeys
<1> QED BY <1>4, <1>5, <1>7, <1>9, <1>10, <1>11, ControlStep, Zenon DEF WriterOK

\* No version is past the last one.
LEMMA SeenBound ==
  ASSUME IInv, NEW w \in Writers, NEW s \in Streams
  PROVE  Seen(w, s) \in 0 .. MaxVersion
<1>1. Seen(w, s) \in Nat /\ Versions(Visible(w), s) = 1 .. Seen(w, s)
  BY VisibleVersions, Zenon DEF IInv, CountInv
<1>2. Visible(w) \subseteq Event
  BY Zenon DEF Visible, IInv, TypeOK
<1>3. Versions(Visible(w), s) \subseteq 1 .. MaxVersion
  BY <1>2, Zenon DEF Versions, Event
<1>4. CASE Seen(w, s) = 0
  BY <1>4, BoundsAssumption
<1>5. CASE Seen(w, s) # 0
  <2>1. Seen(w, s) \in 1 .. Seen(w, s)
    BY <1>1, <1>5
  <2> QED BY <2>1, <1>1, <1>3, BoundsAssumption
<1> QED BY <1>4, <1>5, Zenon

\* A transaction that goes to statement p and changes at most ver.
LEMMA GotoFrame ==
  ASSUME IInv, NEW w \in Writers, NEW p \in Statements, Goto(w, p),
         UNCHANGED <<events, row, idx, staged, rebuildVars>>,
         NEW v \in 0 .. MaxVersion, ver' = [ver EXCEPT ![w] = v],
         published' \subseteq Event
  PROVE  /\ TypeOK'
         /\ pc'[w] = p /\ ver'[w] = v
         /\ \A x \in Writers \ {w} : UNCHANGED <<pc[x], req[x], idx[x], ver[x]>>
<1>1. pc' = [pc EXCEPT ![w] = p] /\ UNCHANGED <<req, outcome, calls>>
  BY Zenon DEF Goto
<1>2. pc' \in [Writers -> Statements] /\ ver' \in [Writers -> 0 .. MaxVersion]
  BY <1>1, Zenon DEF IInv, TypeOK
<1>3. TypeOK'
  BY <1>1, <1>2, Zenon DEF IInv, TypeOK, rebuildVars
<1>4. pc'[w] = p /\ ver'[w] = v
  BY <1>1, Zenon DEF IInv, TypeOK
<1>5. \A x \in Writers \ {w} : UNCHANGED <<pc[x], req[x], idx[x], ver[x]>>
  BY <1>1, Zenon DEF IInv, TypeOK
<1> QED BY <1>3, <1>4, <1>5, Zenon

\* The predecessor of a visible event is visible.
LEMMA Predecessor ==
  ASSUME IInv, NEW w \in Writers, NEW d \in Visible(w)
  PROVE  /\ d.stream \in Streams /\ d.version \in Nat \ {0}
         /\ d.version - 1 = 0 \/ d.version - 1 \in Versions(Visible(w), d.stream)
<1>1. d.stream \in Streams /\ d.version \in Nat \ {0}
  BY BoundsAssumption DEF Visible, IInv, TypeOK, Event
<1>2. d.version \in Versions(Visible(w), d.stream)
  BY Zenon DEF Versions
<1>3. Seen(w, d.stream) \in Nat /\ Versions(Visible(w), d.stream) = 1 .. Seen(w, d.stream)
  BY <1>1, VisibleVersions, Zenon DEF IInv, CountInv
<1> QED BY <1>1, <1>2, <1>3

-----------------------------------------------------------------------------
(* The statements of an append up to its projection *)

\* The version read is the one the transaction sees.
LEMMA ReadVersionStep == ASSUME IInv, NEW w \in Writers, ReadVersion(w) PROVE IInv'
<1> DEFINE s == Item(w).stream
           current == CurrentStreamVersion(Visible(w), s)
<1>1. pc[w] = "read" /\ idx[w] \in DOMAIN req[w].items /\ s \in Streams
  BY ItemType, Zenon DEF ReadVersion, IInv, WriterOK, KeyOK
<1>2. current = Seen(w, s) /\ current \in 0 .. MaxVersion
  BY <1>1, SeenBound, Zenon DEF Seen
<1>3. UNCHANGED <<events, row, published, rebuildVars>>
  BY Zenon DEF ReadVersion
<1>4. CASE Pinned(w) /\ current # req[w].expected
  <2>1. Return(w, "conflict")
    BY <1>4, Zenon DEF ReadVersion
  <2> QED BY <1>3, <2>1, ReturnStep, Zenon DEF rebuildVars, IInv, TypeOK
<1>5. CASE ~(Pinned(w) /\ current # req[w].expected) /\ current = MaxVersion
  <2>1. Return(w, "error")
    BY <1>5, Zenon DEF ReadVersion
  <2> QED BY <1>3, <2>1, ReturnStep, Zenon DEF rebuildVars, IInv, TypeOK
<1>6. CASE ~(Pinned(w) /\ current # req[w].expected) /\ current # MaxVersion
  <2>1. ver' = [ver EXCEPT ![w] = current + 1] /\ Goto(w, "insert") /\ UNCHANGED <<idx, staged>>
    BY <1>6, Zenon DEF ReadVersion
  <2>2. current + 1 \in 0 .. MaxVersion /\ "insert" \in Statements
    BY <1>2, <1>6, BoundsAssumption DEF Statements
  <2>3. /\ TypeOK' /\ pc'[w] = "insert" /\ ver'[w] = current + 1
        /\ \A x \in Writers \ {w} : UNCHANGED <<pc[x], req[x], idx[x], ver[x]>>
    BY <1>3, <2>1, <2>2, GotoFrame, ZenonT(60) DEF IInv, TypeOK
  <2>4. req' = req /\ Item(w)' = Item(w) /\ Pinned(w)' = Pinned(w)
    BY <2>1, Zenon DEF Goto, Item, Pinned
  <2>5. Visible(w)' = Visible(w) /\ \A t : Seen(w, t)' = Seen(w, t) /\ Committed(t)' = Committed(t)
    BY <1>3, <2>1, SeenUnchanged, Zenon
  <2>6. StagedOK(w)'
    BY <1>1, <2>1, <2>3, <2>5 DEF IInv, WriterOK, StagedOK
  <2>7. KeyOK(w)'
    BY <1>1, <1>2, <2>1, <2>3, <2>4, <2>5 DEF KeyOK
  <2>8. PinnedOK(w)'
    <3>1. PinnedOK(w)
      BY Zenon DEF IInv, WriterOK
    <3> QED BY <3>1, <1>1, <1>6, <2>1, <2>3, <2>4, <2>5, Zenon DEF PinnedOK
  <2>9. HeldKeys(w)' = HeldKeys(w)
    BY <1>1, <2>1, <2>3, Zenon DEF HeldKeys
  <2> QED BY <1>3, <2>1, <2>3, <2>6, <2>7, <2>8, <2>9, ControlStep, Zenon DEF WriterOK, IInv, KeysDisjoint, rebuildVars
<1> QED BY <1>4, <1>5, <1>6, Zenon

\* Once the unique index grants a key, it is the next one of its stream.
LEMMA GrantedKeyIsNext ==
  ASSUME IInv, NEW w \in Writers, pc[w] = "insert",
         <<Item(w).stream, ver[w]>> \notin CommittedKeys
  PROVE  ver[w] = Seen(w, Item(w).stream) + 1
<1> DEFINE s == Item(w).stream
<1>1. s \in Streams
  BY ItemType, Zenon DEF IInv, WriterOK, KeyOK
<1>2. ver[w] \in 1 .. (Seen(w, s) + 1)
  BY Zenon DEF IInv, WriterOK, KeyOK
<1>3. Seen(w, s) \in Nat /\ Committed(s) \in Nat /\ Committed(s) <= Seen(w, s)
  BY <1>1, Zenon DEF IInv, CountInv
<1>4. CASE Versions(staged[w], s) # {}
  BY <1>4, Zenon DEF IInv, WriterOK, KeyOK
<1>5. CASE Versions(staged[w], s) = {}
  <2>1. (Committed(s) + 1) .. Seen(w, s) = {}
    BY <1>1, <1>5, ZenonT(60) DEF IInv, WriterOK, StagedOK
  <2>2. Seen(w, s) = Committed(s)
    BY <1>3, <2>1
  <2>3. ver[w] \notin Versions(events, s)
    BY Zenon DEF CommittedKeys, Versions
  <2>4. ver[w] \notin 1 .. Committed(s)
    BY <1>1, <2>3, ZenonT(60) DEF IInv, VersionsContiguous, Committed
  <2> QED BY <1>2, <1>3, <2>2, <2>4
<1> QED BY <1>4, <1>5, Zenon

\* The unique index grants a free key to one transaction.
LEMMA InsertEventStep == ASSUME IInv, NEW w \in Writers, InsertEvent(w) PROVE IInv'
<1> DEFINE key == <<Item(w).stream, ver[w]>>
<1>1. pc[w] = "insert" /\ UNCHANGED <<events, row, published, rebuildVars>>
      /\ \A x \in Writers \ {w} : key \notin HeldKeys(x)
  BY Zenon DEF InsertEvent
<1>2. CASE key \in CommittedKeys
  <2>1. VersionConflict(w)
    BY <1>2, Zenon DEF InsertEvent
  <2>2. CASE req[w].mode = "auto"
    BY <1>1, <2>1, <2>2, RollbackStep, SMTT(60) DEF VersionConflict, Goto, rebuildVars, IInv, TypeOK
  <2>3. CASE req[w].mode # "auto"
    BY <1>1, <2>1, <2>3, ReturnStep, Zenon DEF VersionConflict, rebuildVars, IInv, TypeOK
  <2> QED BY <2>2, <2>3, Zenon
<1>3. CASE key \notin CommittedKeys
  <2>1. Goto(w, "project") /\ UNCHANGED <<idx, ver, staged>>
    BY <1>3, Zenon DEF InsertEvent
  <2>2. ver[w] \in 0 .. MaxVersion /\ ver' = [ver EXCEPT ![w] = ver[w]] /\ "project" \in Statements
    BY <2>1, Zenon DEF IInv, TypeOK, Statements
  <2>3. /\ TypeOK' /\ pc'[w] = "project" /\ ver'[w] = ver[w]
        /\ \A x \in Writers \ {w} : UNCHANGED <<pc[x], req[x], idx[x], ver[x]>>
    <3>1. UNCHANGED <<events, row, idx, staged, rebuildVars>> /\ published' \subseteq Event
      BY <1>1, <2>1, Zenon DEF IInv, TypeOK
    <3> QED BY <2>1, <2>2, <3>1, GotoFrame, ZenonT(60)
  <2>4. req' = req /\ Item(w)' = Item(w) /\ Pinned(w)' = Pinned(w)
    BY <2>1, Zenon DEF Goto, Item, Pinned
  <2>5. Visible(w)' = Visible(w) /\ \A t : Seen(w, t)' = Seen(w, t) /\ Committed(t)' = Committed(t)
    BY <1>1, <2>1, SeenUnchanged, Zenon
  <2>6. ver[w] = Seen(w, Item(w).stream) + 1
    BY <1>1, <1>3, GrantedKeyIsNext, Zenon
  <2>7. StagedOK(w)'
    BY <1>1, <2>1, <2>3, <2>5, ZenonT(60) DEF IInv, WriterOK, StagedOK
  <2>8. KeyOK(w)'
    BY <1>1, <2>1, <2>3, <2>4, <2>5, <2>6, Zenon DEF IInv, WriterOK, KeyOK
  <2>9. PinnedOK(w)'
    <3>1. PinnedOK(w) /\ KeyOK(w) /\ StagedOK(w)
      BY Zenon DEF IInv, WriterOK
    <3>2. idx[w] = 1 => Item(w).stream = req[w].items[1].stream
      BY Zenon DEF Item
    <3>3. Pinned(w) /\ idx[w] = 1 => Seen(w, Item(w).stream) = Committed(Item(w).stream)
      BY <1>1, <3>1, ZenonT(60) DEF PinnedOK, Seen, Committed, Visible
    <3>4. Committed(Item(w).stream) \in Nat /\ req[w].expected \in Nat /\ idx[w] \in Nat \ {0}
      BY <1>1, <3>1, ItemType, RequestsAssumption, ZenonT(60) DEF IInv, CountInv, KeyOK, TypeOK
    <3>5. Pinned(w) /\ idx[w] = 1 => Committed(req[w].items[1].stream) = req[w].expected
      BY <1>1, <2>6, <3>1, <3>2, <3>3, <3>4, SMTT(60) DEF PinnedOK
    <3> QED BY <1>1, <2>1, <2>3, <2>4, <2>5, <3>1, <3>4, <3>5 DEF PinnedOK
  <2>10. HeldKeys(w)' = HeldKeys(w) \cup {key}
    BY <1>1, <2>1, <2>3, <2>4, Zenon DEF HeldKeys
  <2>11. \A x \in Writers \ {w} : HeldKeys(w)' \cap HeldKeys(x) = {}
    BY <1>1, <2>10, Zenon DEF IInv, KeysDisjoint
  <2> QED BY <1>1, <2>1, <2>3, <2>7, <2>8, <2>9, <2>11, ControlStep, Zenon DEF WriterOK, rebuildVars
<1> QED BY <1>2, <1>3, Zenon

\* Waiting for the rebuild keeps the key.
LEMMA WaitForRowStep == ASSUME IInv, NEW w \in Writers, WaitForRow(w) PROVE IInv'
<1>1. pc[w] = "project" /\ Goto(w, "wait") /\ UNCHANGED <<events, row, idx, ver, staged, published, rebuildVars>>
  BY Zenon DEF WaitForRow
<1>2. ver[w] \in 0 .. MaxVersion /\ ver' = [ver EXCEPT ![w] = ver[w]] /\ "wait" \in Statements
  BY <1>1, Zenon DEF IInv, TypeOK, Statements
<1>3. UNCHANGED <<events, row, idx, staged, rebuildVars>> /\ published' \subseteq Event
  BY <1>1, Zenon DEF IInv, TypeOK
<1>4. /\ TypeOK' /\ pc'[w] = "wait"
      /\ \A x \in Writers \ {w} : UNCHANGED <<pc[x], req[x], idx[x], ver[x]>>
  BY <1>1, <1>2, <1>3, GotoFrame, ZenonT(60)
<1>5. req' = req /\ ver' = ver /\ Item(w)' = Item(w) /\ Pinned(w)' = Pinned(w)
  BY <1>1, Zenon DEF Goto, Item, Pinned
<1>6. Visible(w)' = Visible(w) /\ \A t : Seen(w, t)' = Seen(w, t) /\ Committed(t)' = Committed(t)
  BY <1>1, SeenUnchanged, Zenon
<1>7. StagedOK(w)'
  BY <1>1, <1>4, <1>6, Zenon DEF IInv, WriterOK, StagedOK
<1>8. KeyOK(w)'
  BY <1>1, <1>4, <1>5, <1>6, Zenon DEF IInv, WriterOK, KeyOK
<1>9. PinnedOK(w)'
  BY <1>1, <1>4, <1>5, <1>6, ZenonT(60) DEF IInv, WriterOK, PinnedOK
<1>10. HeldKeys(w)' = HeldKeys(w)
  BY <1>1, <1>4, <1>5, Zenon DEF HeldKeys
<1> QED BY <1>1, <1>4, <1>7, <1>8, <1>9, <1>10, ControlStep, Zenon DEF WriterOK, IInv, KeysDisjoint, rebuildVars

\* The callback leaves the staged events alone.
LEMMA CallbackStep == ASSUME IInv, NEW w \in Writers, Callback(w) PROVE IInv'
<1>1. pc[w] = "callback" /\ UNCHANGED <<events, row, rebuildVars>>
  BY Zenon DEF Callback
<1>2. published' \subseteq Event
  BY Zenon DEF Callback, IInv, TypeOK
<1>3. CASE Return(w, "error")
  BY <1>1, <1>2, <1>3, ReturnStep, Zenon DEF rebuildVars
<1>4. CASE Goto(w, "commit") /\ UNCHANGED <<idx, ver, staged>>
  <2>1. ver[w] \in 0 .. MaxVersion /\ ver' = [ver EXCEPT ![w] = ver[w]] /\ "commit" \in Statements
    BY <1>4, Zenon DEF IInv, TypeOK, Statements
  <2>2. UNCHANGED <<events, row, idx, staged, rebuildVars>>
    BY <1>1, <1>4, Zenon
  <2>3. /\ TypeOK' /\ pc'[w] = "commit"
        /\ \A x \in Writers \ {w} : UNCHANGED <<pc[x], req[x], idx[x], ver[x]>>
    BY <1>2, <1>4, <2>1, <2>2, GotoFrame, ZenonT(60)
  <2>4. req' = req /\ Pinned(w)' = Pinned(w) /\ ~Pinned(w)
    BY <1>1, <1>4, Zenon DEF Goto, Pinned, IInv, WriterOK, KeyOK
  <2>5. Visible(w)' = Visible(w) /\ \A t : Seen(w, t)' = Seen(w, t) /\ Committed(t)' = Committed(t)
    BY <2>2, SeenUnchanged, Zenon
  <2>6. StagedOK(w)'
    BY <1>1, <1>4, <2>2, <2>3, <2>5, ZenonT(60) DEF IInv, WriterOK, StagedOK
  <2>7. KeyOK(w)' /\ PinnedOK(w)'
    BY <2>3, <2>4, Zenon DEF KeyOK, PinnedOK
  <2>8. HeldKeys(w)' = HeldKeys(w)
    BY <1>1, <2>2, <2>3, Zenon DEF HeldKeys
  <2> QED BY <2>2, <2>3, <2>6, <2>7, <2>8, ControlStep, Zenon DEF WriterOK, IInv, KeysDisjoint, rebuildVars
<1> QED BY <1>3, <1>4, Zenon DEF Callback

-----------------------------------------------------------------------------
(* The projector's statement *)

\* An event staged at the next version of its stream is the last one w sees.
LEMMA StagedSeen ==
  ASSUME IInv, NEW w \in Writers, NEW new \in Event, new.version = Seen(w, new.stream) + 1,
         UNCHANGED events, staged'[w] = staged[w] \cup {new}
  PROVE  /\ UniqueKeys(Visible(w)') /\ Visible(w) \subseteq Visible(w)'
         /\ \A t \in Streams : Seen(w, t)' = IF t = new.stream THEN new.version ELSE Seen(w, t)
<1>1. Visible(w)' = Visible(w) \cup {new}
  BY Zenon DEF Visible
<1>2. new.stream \in Streams /\ \A t \in Streams : Seen(w, t) \in Nat /\ Versions(Visible(w), t) = 1 .. Seen(w, t)
  BY VisibleVersions, Zenon DEF IInv, CountInv, Event
<1>3. \A d \in Visible(w) : d.stream = new.stream => d.version # new.version
  <2>1. \A d \in Visible(w) : d.stream = new.stream => d.version \in Versions(Visible(w), new.stream)
    BY Zenon DEF Versions
  <2> QED BY <1>2, <2>1
<1>4. UniqueKeys(Visible(w)')
  BY <1>1, <1>3, VisibleUnique, Zenon DEF UniqueKeys
<1>5. ASSUME NEW t \in Streams PROVE Seen(w, t)' = IF t = new.stream THEN new.version ELSE Seen(w, t)
  <2>1. Versions(Visible(w)', t) = IF t = new.stream THEN 1 .. Seen(w, t) \cup {new.version} ELSE 1 .. Seen(w, t)
    <3>1. \A E : Versions(E \cup {new}, t) = IF t = new.stream THEN Versions(E, t) \cup {new.version} ELSE Versions(E, t)
      BY Zenon DEF Versions
    <3>2. Versions(Visible(w) \cup {new}, t) = IF t = new.stream THEN Versions(Visible(w), t) \cup {new.version} ELSE Versions(Visible(w), t)
      BY <3>1, ZenonT(60)
    <3> QED BY <1>1, <1>2, <3>2, ZenonT(60)
  <2>2. 1 .. Seen(w, t) \cup {Seen(w, t) + 1} = 1 .. (Seen(w, t) + 1)
    BY <1>2
  <2>3. Seen(w, t) \in Nat /\ Seen(w, t) + 1 \in Nat
    BY <1>2
  <2>4. Versions(Visible(w)', t) = 1 .. (IF t = new.stream THEN new.version ELSE Seen(w, t))
    BY <2>1, <2>2, ZenonT(60)
  <2> QED BY <2>3, <2>4, VersionOfInterval DEF Seen
<1> QED BY <1>1, <1>4, <1>5, Zenon

\* Such an event extends what w has staged.
LEMMA StagedExtends ==
  ASSUME IInv, NEW w \in Writers, NEW new \in Event, new.version = Seen(w, new.stream) + 1,
         new.after = Project(RowSeen(w, new.stream), new.op, new.version),
         UNCHANGED events, staged'[w] = staged[w] \cup {new}
  PROVE  /\ \A t \in Streams : Versions(staged'[w], t) = (Committed(t) + 1) .. Seen(w, t)'
         /\ UniqueKeys(staged'[w])
         /\ \A d \in staged'[w] :
              d.after = Project(RowAt(Visible(w)', d.stream, d.version - 1), d.op, d.version)
<1>1. /\ UniqueKeys(Visible(w)') /\ Visible(w) \subseteq Visible(w)'
      /\ \A t \in Streams : Seen(w, t)' = IF t = new.stream THEN new.version ELSE Seen(w, t)
  BY StagedSeen, Zenon
<1>2. new.stream \in Streams
  BY Zenon DEF Event
<1>3. ASSUME NEW t \in Streams PROVE Versions(staged'[w], t) = (Committed(t) + 1) .. Seen(w, t)'
  <2>1. /\ Versions(staged[w], t) = (Committed(t) + 1) .. Seen(w, t)
        /\ Committed(t) \in Nat /\ Seen(w, t) \in Nat /\ Committed(t) <= Seen(w, t)
    BY Zenon DEF IInv, WriterOK, StagedOK, CountInv
  <2>2. Versions(staged'[w], t) = IF t = new.stream THEN Versions(staged[w], t) \cup {new.version} ELSE Versions(staged[w], t)
    <3>1. \A E : Versions(E \cup {new}, t) = IF t = new.stream THEN Versions(E, t) \cup {new.version} ELSE Versions(E, t)
      BY Zenon DEF Versions
    <3> QED BY <3>1, ZenonT(60)
  <2>3. (Committed(t) + 1) .. Seen(w, t) \cup {Seen(w, t) + 1} = (Committed(t) + 1) .. (Seen(w, t) + 1)
    BY <2>1
  <2>4. CASE t = new.stream
    BY <1>1, <2>1, <2>2, <2>3, <2>4, ZenonT(60)
  <2>5. CASE t # new.stream
    BY <1>1, <2>1, <2>2, <2>5, Zenon
  <2> QED BY <2>4, <2>5, Zenon
<1>4. UniqueKeys(staged'[w])
  BY <1>1, Zenon DEF UniqueKeys, Visible
<1>5. ASSUME NEW d \in staged'[w]
      PROVE  d.after = Project(RowAt(Visible(w)', d.stream, d.version - 1), d.op, d.version)
  <2>1. CASE d = new
    <3>1. Seen(w, new.stream) \in Nat /\ Versions(Visible(w), new.stream) = 1 .. Seen(w, new.stream)
      BY <1>2, VisibleVersions, Zenon DEF IInv, CountInv
    <3>2. new.version - 1 = Seen(w, new.stream)
      BY <3>1
    <3>3. Seen(w, new.stream) = 0 \/ Seen(w, new.stream) \in Versions(Visible(w), new.stream)
      BY <3>1
    <3>4. RowAt(Visible(w)', new.stream, Seen(w, new.stream)) = RowAt(Visible(w), new.stream, Seen(w, new.stream))
      BY <1>1, <3>3, RowAtExtend
    <3>5. RowSeen(w, new.stream) = RowAt(Visible(w), new.stream, Seen(w, new.stream))
      BY <1>2, RowSeenIsRowAt, Zenon
    <3> QED BY <2>1, <3>2, <3>4, <3>5, Zenon
  <2>2. CASE d \in staged[w]
    <3>1. d \in Visible(w)
      BY <2>2, Zenon DEF Visible
    <3>2. RowAt(Visible(w)', d.stream, d.version - 1) = RowAt(Visible(w), d.stream, d.version - 1)
      BY <1>1, <3>1, Predecessor, RowAtExtend
    <3> QED BY <2>2, <3>2, Zenon DEF IInv, WriterOK, StagedOK
  <2> QED BY <2>1, <2>2, Zenon
<1> QED BY <1>3, <1>4, <1>5, ZenonT(60)

\* After the projector, the transaction goes on to its next item, its callback
\* or its commit.
LEMMA ProjectedControl ==
  ASSUME IInv, NEW w \in Writers, pc[w] = "project", NEW r, Projected(w, r),
         UNCHANGED <<events, row, published, rebuildVars>>,
         NEW s, s = Item(w).stream,
         staged' \in [Writers -> SUBSET Event], Versions(staged'[w], s) # {},
         Seen(w, s)' = ver[w]
  PROVE  TypeOK' /\ KeyOK(w)' /\ PinnedOK(w)' /\ pc'[w] \in {"read", "insert", "callback", "commit"}
<1>1. /\ idx[w] \in DOMAIN req[w].items /\ s \in Streams
      /\ ver[w] = Seen(w, s) + 1
  BY ItemType, Zenon DEF IInv, WriterOK, KeyOK
<1>2. Seen(w, s) \in Nat /\ ver[w] \in 1 .. MaxVersion
  BY <1>1 DEF IInv, CountInv, TypeOK
<1>3. req[w].items \in Seq([stream : Streams, op : Ops]) /\ DOMAIN req[w].items = 1 .. Len(req[w].items)
  <2>1. req[w].items \in Seq([stream : Streams, op : Ops])
    BY RequestsAssumption, ZenonT(60) DEF IInv, TypeOK
  <2>2. \A S : \A q \in Seq(S) : DOMAIN q = 1 .. Len(q)
    OBVIOUS
  <2> QED BY <2>1, <2>2, ZenonT(60)
<1>4. req' = req /\ outcome' = outcome /\ calls' = calls
  BY Zenon DEF Projected, Goto
<1>5. Seen(w, s)' = ver[w]
  BY Zenon
<1>6. \A t : Committed(t)' = Committed(t)
  BY Zenon DEF Committed
<1>7. PinnedOK(w) /\ KeyOK(w)
  BY Zenon DEF IInv, WriterOK
<1>8. idx[w] \in Nat \ {0} /\ Len(req[w].items) \in Nat
  BY <1>3 DEF IInv, TypeOK
<1>9. Versions(staged'[w], s) # {}
  BY Zenon
<1>10. Pinned(w) => req[w].items[1].stream = s
  BY <1>7, Zenon DEF PinnedOK, KeyOK, Item
<1>11. CASE idx[w] < Len(req[w].items) /\ req[w].mode = "pinnedBatch"
  <2>1. /\ idx' = [idx EXCEPT ![w] = @ + 1] /\ ver' = [ver EXCEPT ![w] = @ + 1]
        /\ pc' = [pc EXCEPT ![w] = "insert"]
    BY <1>11, Zenon DEF Projected, Goto
  <2>2. pc'[w] = "insert" /\ idx'[w] = idx[w] + 1 /\ ver'[w] = ver[w] + 1
    BY <2>1, Zenon DEF IInv, TypeOK
  <2>3. idx'[w] \in DOMAIN req'[w].items
    BY <1>1, <1>3, <1>4, <1>8, <1>11, <2>2
  <2>4. Pinned(w) /\ Pinned(w)'
    BY <1>4, <1>11, Zenon DEF Pinned
  <2>5. Item(w)'.stream = s /\ req[w].items[1].stream = s
    BY <1>1, <1>4, <1>7, <2>3, <2>4, Zenon DEF Item, PinnedOK
  <2>6. /\ req[w].expected \in Nat /\ ver[w] = req[w].expected + idx[w]
        /\ req[w].expected + Len(req[w].items) <= MaxVersion /\ Committed(s) = req[w].expected
    BY <1>7, <1>11, <2>4, <2>5, RequestsAssumption, Zenon DEF PinnedOK, IInv, TypeOK
  <2>7. ver[w] + 1 \in 0 .. MaxVersion
    BY <1>8, <1>11, <2>6, BoundsAssumption, SMTT(60)
  <2>8. TypeOK'
    <3>1. pc' \in [Writers -> Statements]
      BY <2>1, Zenon DEF IInv, TypeOK, Statements
    <3>2. idx' \in [Writers -> Nat \ {0}] /\ ver' \in [Writers -> 0 .. MaxVersion]
      BY <2>1, <2>7, SMTT(60) DEF IInv, TypeOK
    <3> QED BY <1>4, <1>8, <3>1, <3>2, Zenon DEF IInv, TypeOK, rebuildVars
  <2>9. KeyOK(w)'
    BY <1>1, <1>2, <1>5, <2>2, <2>3, <2>5 DEF KeyOK
  <2>10. Versions(staged'[w], s) # {}
    BY <1>9, Zenon
  <2>11. PinnedOK(w)'
    <3>1. idx'[w] # 1 /\ ver'[w] = req'[w].expected + idx'[w] /\ req' = req
      BY <1>4, <1>8, <2>2, <2>6, SMTT(60)
    <3>2. Committed(req[w].items[1].stream)' = req'[w].expected
      BY <1>6, <2>5, <2>6, <3>1, Zenon
    <3>3. Versions(staged'[w], req'[w].items[1].stream) # {}
      BY <2>5, <2>10, <3>1, Zenon
    <3>4. /\ \A i \in DOMAIN req[w].items : req[w].items[i].stream = req[w].items[1].stream
          /\ req[w].expected + Len(req[w].items) <= MaxVersion
      BY <1>7, <1>11, <2>4, Zenon DEF PinnedOK
    <3> QED BY <2>2, <3>1, <3>2, <3>3, <3>4, Zenon DEF PinnedOK
  <2> QED BY <2>2, <2>8, <2>9, <2>11, Zenon
<1>12. CASE idx[w] < Len(req[w].items) /\ req[w].mode # "pinnedBatch"
  <2>1. idx' = [idx EXCEPT ![w] = @ + 1] /\ ver' = ver /\ pc' = [pc EXCEPT ![w] = "read"]
    BY <1>12, Zenon DEF Projected, Goto
  <2>2. pc'[w] = "read" /\ idx'[w] = idx[w] + 1
    BY <2>1, Zenon DEF IInv, TypeOK
  <2>3. idx'[w] \in DOMAIN req'[w].items
    BY <1>1, <1>3, <1>4, <1>8, <1>12, <2>2
  <2>4. ~Pinned(w)'
    <3>1. req[w].mode = "pinned" => Len(req[w].items) = 1
      BY RequestsAssumption, Zenon DEF IInv, TypeOK
    <3>2. \A n \in Nat \ {0} : ~(n < 1)
      OBVIOUS
    <3>3. Len(req[w].items) # 1
      BY <1>8, <1>12, <3>2, ZenonT(60)
    <3> QED BY <1>4, <1>12, <3>1, <3>3, Zenon DEF Pinned
  <2>5. TypeOK'
    <3>1. pc' \in [Writers -> Statements]
      BY <2>1, Zenon DEF IInv, TypeOK, Statements
    <3>2. idx' \in [Writers -> Nat \ {0}]
      BY <2>1 DEF IInv, TypeOK
    <3> QED BY <1>4, <1>8, <2>1, <3>1, <3>2, Zenon DEF IInv, TypeOK, rebuildVars
  <2> QED BY <2>2, <2>3, <2>4, <2>5, Zenon DEF KeyOK, PinnedOK
<1>13. CASE ~(idx[w] < Len(req[w].items))
  <2>1. /\ UNCHANGED <<idx, ver>>
        /\ pc' = [pc EXCEPT ![w] = IF req[w].mode = "callback" THEN "callback" ELSE "commit"]
    BY <1>13, Zenon DEF Projected, Goto
  <2>2. pc'[w] = IF req[w].mode = "callback" THEN "callback" ELSE "commit"
    BY <2>1, Zenon DEF IInv, TypeOK
  <2>3. TypeOK'
    <3>1. pc' \in [Writers -> Statements]
      BY <2>1, Zenon DEF IInv, TypeOK, Statements
    <3> QED BY <1>4, <1>8, <2>1, <3>1, Zenon DEF IInv, TypeOK, rebuildVars
  <2>4. KeyOK(w)'
    BY <1>4, <2>2, Zenon DEF KeyOK
  <2>5. Pinned(w) => req[w].items[1].stream = s /\ Versions(staged'[w], s) # {}
    BY <1>1, <1>9, <1>10, Zenon
  <2>6. PinnedOK(w)'
    <3> SUFFICES ASSUME Pinned(w)' PROVE PinnedOK(w)'
      BY Zenon DEF PinnedOK
    <3>1. Pinned(w) /\ pc'[w] = "commit" /\ req' = req /\ idx' = idx
      BY <1>4, <2>1, <2>2, Zenon DEF Pinned
    <3>2. Versions(staged'[w], req'[w].items[1].stream) # {}
      BY <2>5, <3>1, Zenon
    <3>3. /\ \A i \in DOMAIN req[w].items : req[w].items[i].stream = req[w].items[1].stream
          /\ req[w].mode = "pinnedBatch" => req[w].expected + Len(req[w].items) <= MaxVersion
          /\ Committed(req[w].items[1].stream) = req[w].expected
      BY <1>7, <3>1, Zenon DEF PinnedOK
    <3>4. Committed(req[w].items[1].stream)' = req'[w].expected
      BY <1>6, <3>1, <3>3, Zenon
    <3> QED BY <3>1, <3>2, <3>3, <3>4, Zenon DEF PinnedOK
  <2> QED BY <2>2, <2>3, <2>4, <2>6, Zenon
<1> QED BY <1>11, <1>12, <1>13, Zenon

\* A projector's new row extends the transaction by one event.
LEMMA ProjectedStep ==
  ASSUME IInv, NEW w \in Writers, pc[w] = "project", Item(w).stream \notin rb.locked,
         NEW r, r = Project(RowSeen(w, Item(w).stream), Item(w).op, ver[w]), r # Refused,
         Projected(w, r), UNCHANGED <<events, row, published, rebuildVars>>
  PROVE  IInv'
<1>1. PICK s \in Streams : s = Item(w).stream
  BY ItemType, Zenon DEF IInv, WriterOK, KeyOK
<1>2. /\ Item(w).op \in Ops /\ ver[w] = Seen(w, s) + 1 /\ Seen(w, s) \in Nat
      /\ ver[w] \in 1 .. MaxVersion
  <2>1. Item(w).op \in Ops /\ ver[w] = Seen(w, s) + 1
    BY <1>1, ItemType, Zenon DEF IInv, WriterOK, KeyOK
  <2>2. Seen(w, s) \in Nat
    BY Zenon DEF IInv, CountInv
  <2>3. ver[w] \in 0 .. MaxVersion
    BY Zenon DEF IInv, TypeOK
  <2> QED BY <2>1, <2>2, <2>3, SMTT(60)
<1>3. r \in Rows
  BY <1>1, <1>2, RowSeenIsRowAt, ProjectAssumption, Zenon
<1>4. PICK new \in Event :
        /\ new = [stream |-> Item(w).stream, version |-> ver[w], op |-> Item(w).op, after |-> r]
        /\ new.stream = s /\ new.version = ver[w] /\ new.op = Item(w).op /\ new.after = r
  <2>1. [stream |-> Item(w).stream, version |-> ver[w], op |-> Item(w).op, after |-> r] \in Event
    BY <1>1, <1>2, <1>3, Zenon DEF Event
  <2> QED BY <1>1, <2>1, ZenonT(60)
<1>5. staged' = [staged EXCEPT ![w] = @ \cup {new}]
  BY <1>4, Zenon DEF Projected
<1>6. /\ staged' \in [Writers -> SUBSET Event] /\ staged'[w] = staged[w] \cup {new}
      /\ \A x \in Writers \ {w} : staged'[x] = staged[x]
  BY <1>5, Zenon DEF IInv, TypeOK
<1>7. \A t \in Streams : Seen(w, t)' = IF t = s THEN ver[w] ELSE Seen(w, t)
  BY <1>2, <1>4, <1>6, StagedSeen
<1>8. /\ \A t \in Streams : Versions(staged'[w], t) = (Committed(t) + 1) .. Seen(w, t)'
      /\ UniqueKeys(staged'[w])
      /\ \A d \in staged'[w] :
           d.after = Project(RowAt(Visible(w)', d.stream, d.version - 1), d.op, d.version)
  BY <1>1, <1>2, <1>4, <1>6, StagedExtends, ZenonT(60)
<1>9. \A E, t : Versions(E \cup {new}, t) = IF t = s THEN Versions(E, t) \cup {ver[w]} ELSE Versions(E, t)
  <2>1. \A E, t : Versions(E \cup {new}, t) = IF t = new.stream THEN Versions(E, t) \cup {new.version} ELSE Versions(E, t)
    BY Zenon DEF Versions
  <2> QED BY <1>4, <2>1, ZenonT(60)
<1>10. Versions(staged'[w], s) # {}
  <2>1. Versions(staged'[w], s) = Versions(staged[w], s) \cup {ver[w]}
    BY <1>6, <1>9, ZenonT(60)
  <2> QED BY <2>1, Zenon
<1>11. Seen(w, s)' = ver[w]
  BY <1>7, Zenon
<1>12. TypeOK' /\ KeyOK(w)' /\ PinnedOK(w)' /\ pc'[w] \in {"read", "insert", "callback", "commit"}
  BY <1>1, <1>6, <1>10, <1>11, ProjectedControl, ZenonT(60)
<1>13. \A t : Committed(t)' = Committed(t)
  BY Zenon DEF Committed
<1>14. \A x \in Writers \ {w} : UNCHANGED <<pc[x], req[x], idx[x], ver[x], staged[x]>>
  BY <1>6 DEF Projected, Goto, IInv, TypeOK
<1>15. \A x \in Writers \ {w}, t \in Streams : Seen(x, t)' = Seen(x, t)
  BY <1>6, Zenon DEF Seen, Visible
<1>16. CountInv'
  BY <1>2, <1>7, <1>13, <1>15 DEF IInv, CountInv
<1>17. StagedOK(w)'
  BY <1>8, <1>12, <1>13, Zenon DEF StagedOK
<1>18. \A x \in Writers \ {w} : WriterOK(x)' /\ HeldKeys(x)' = HeldKeys(x)
  BY <1>14, OtherWriter, Zenon DEF IInv
<1>19. HeldKeys(w)' = HeldKeys(w)
  <2>1. HeldKeys(w)' = {<<d.stream, d.version>> : d \in staged'[w]}
    BY <1>12, Zenon DEF HeldKeys
  <2>2. HeldKeys(w) = {<<d.stream, d.version>> : d \in staged[w]} \cup {<<s, ver[w]>>}
    BY <1>1, Zenon DEF HeldKeys
  <2> QED BY <1>4, <1>6, <2>1, <2>2, SMTT(60)
<1>20. KeysDisjoint'
  BY <1>18, <1>19, Zenon DEF IInv, KeysDisjoint
<1>21. RebuildInv'
  <2>1. \A x \in Writers, t \in Streams \ {s} : Versions(staged'[x], t) = Versions(staged[x], t)
    <3> TAKE x \in Writers, t \in Streams \ {s}
    <3>1. Versions(staged[w] \cup {new}, t) = Versions(staged[w], t)
      BY <1>9, ZenonT(60)
    <3> QED BY <1>6, <3>1, Zenon
  <2>2. \A t \in Streams \ {s} : RowHolders(t)' = RowHolders(t)
    BY <2>1, Zenon DEF RowHolders
  <2> QED BY <1>1, <1>13, <2>2, Zenon DEF IInv, RebuildInv, rebuildVars
<1>22. VersionsContiguous' /\ ProjectionIsReplay'
  BY Zenon DEF IInv, VersionsContiguous, ProjectionIsReplay
<1> QED BY <1>12, <1>16, <1>17, <1>18, <1>20, <1>21, <1>22, Zenon DEF IInv, WriterOK

\* A statement of the projector ends in an error or in a new row.
LEMMA ProjectEventStep == ASSUME IInv, NEW w \in Writers, ProjectEvent(w) PROVE IInv'
<1> DEFINE r == Project(RowSeen(w, Item(w).stream), Item(w).op, ver[w])
<1>1. /\ pc[w] = "project" /\ Item(w).stream \notin rb.locked
      /\ UNCHANGED <<events, row, published, rebuildVars>>
      /\ IF r = Refused THEN Return(w, "error") ELSE Projected(w, r)
  BY Zenon DEF ProjectEvent
<1>2. published' \subseteq Event
  BY <1>1, Zenon DEF IInv, TypeOK
<1>3. CASE r = Refused
  BY <1>1, <1>2, <1>3, ReturnStep, Zenon DEF rebuildVars
<1>4. CASE r # Refused
  <2> HIDE DEF r
  <2>1. Projected(w, r) /\ r = Project(RowSeen(w, Item(w).stream), Item(w).op, ver[w])
    BY <1>1, <1>4, Zenon DEF r
  <2> QED BY <1>1, <1>4, <2>1, ProjectedStep, Zenon
<1> QED BY <1>3, <1>4, Zenon

\* A lost row, an abort or a deadlock rolls the transaction back.
LEMMA FailedStep ==
  ASSUME IInv, NEW w \in Writers, LostRow(w) \/ Abort(w) \/ DeadlockVictim(w)
  PROVE  IInv'
<1>1. Return(w, "error") /\ UNCHANGED <<events, row, published, rebuildVars>>
  BY Zenon DEF LostRow, Abort, DeadlockVictim
<1>2. published' \subseteq Event
  BY <1>1, Zenon DEF IInv, TypeOK
<1> QED BY <1>1, <1>2, ReturnStep, Zenon DEF rebuildVars

-----------------------------------------------------------------------------
(* The commit of an append, and the rebuild *)

\* A transaction that has staged on a stream holds the stream's next key.
LEMMA NextKeyHeld ==
  ASSUME IInv, NEW w \in Writers, NEW s \in Streams, Versions(staged[w], s) # {}
  PROVE  <<s, Committed(s) + 1>> \in HeldKeys(w)
<1>1. /\ Versions(staged[w], s) = (Committed(s) + 1) .. Seen(w, s)
      /\ Committed(s) \in Nat /\ Seen(w, s) \in Nat
  BY Zenon DEF IInv, WriterOK, StagedOK, CountInv
<1>2. Committed(s) + 1 \in Versions(staged[w], s)
  BY <1>1
<1>3. PICK e \in staged[w] : e.stream = s /\ e.version = Committed(s) + 1
  BY <1>2, Zenon DEF Versions
<1> QED BY <1>3, Zenon DEF HeldKeys

\* So no other transaction has staged on the stream or holds a key of it.
LEMMA StreamExclusive ==
  ASSUME IInv, NEW w \in Writers, NEW x \in Writers \ {w}, NEW s \in Streams,
         Versions(staged[w], s) # {}
  PROVE  /\ Versions(staged[x], s) = {} /\ Seen(x, s) = Committed(s)
         /\ ~(pc[x] \in {"project", "wait", "lost"} /\ Item(x).stream = s)
<1>1. <<s, Committed(s) + 1>> \in HeldKeys(w)
  BY NextKeyHeld, Zenon
<1>2. <<s, Committed(s) + 1>> \notin HeldKeys(x)
  BY <1>1, Zenon DEF IInv, KeysDisjoint
<1>3. Versions(staged[x], s) = {}
  BY <1>2, NextKeyHeld, Zenon
<1>4. Seen(x, s) = Committed(s)
  <2>1. /\ Versions(staged[x], s) = (Committed(s) + 1) .. Seen(x, s)
        /\ Committed(s) \in Nat /\ Seen(x, s) \in Nat /\ Committed(s) <= Seen(x, s)
    BY Zenon DEF IInv, WriterOK, StagedOK, CountInv
  <2>2. \A m, n \in Nat : m <= n /\ (m + 1) .. n = {} => n = m
    <3> SUFFICES ASSUME NEW m \in Nat, NEW n \in Nat, m <= n, (m + 1) .. n = {}, n # m PROVE FALSE
      BY Zenon
    <3>1. n \in (m + 1) .. n
      OBVIOUS
    <3> QED BY <3>1, Zenon
  <2> QED BY <1>3, <2>1, <2>2, Zenon
<1>5. ASSUME pc[x] \in {"project", "wait", "lost"}, Item(x).stream = s PROVE FALSE
  <2>1. ver[x] = Committed(s) + 1
    BY <1>4, <1>5, Zenon DEF IInv, WriterOK, KeyOK
  <2>2. <<s, ver[x]>> \in HeldKeys(x)
    BY <1>5, Zenon DEF HeldKeys
  <2> QED BY <1>2, <2>1, <2>2, Zenon
<1> QED BY <1>3, <1>4, <1>5, Zenon

\* What w commits leaves another transaction's view of its own streams alone:
\* a stream w has staged on is one x has nothing on.
LEMMA CommitSeen ==
  ASSUME IInv, NEW w \in Writers, NEW x \in Writers \ {w}, NEW s \in Streams,
         events' = Visible(w), staged'[x] = staged[x]
  PROVE  /\ Committed(s)' = Seen(w, s)
         /\ IF Versions(staged[w], s) = {}
            THEN Committed(s)' = Committed(s) /\ Seen(x, s)' = Seen(x, s)
            ELSE Seen(x, s)' = Seen(w, s) /\ Seen(x, s) = Committed(s)
<1>1. Committed(s)' = Seen(w, s)
  BY Zenon DEF Committed, Seen
<1>2. /\ Versions(Visible(w), s) = Versions(events, s) \cup Versions(staged[w], s)
      /\ Versions(Visible(x), s) = Versions(events, s) \cup Versions(staged[x], s)
  BY VersionsUnion DEF Visible
<1>3. Versions(Visible(x)', s) = Versions(Visible(w), s) \cup Versions(staged[x], s)
  BY VersionsUnion DEF Visible
<1>4. CASE Versions(staged[w], s) = {}
  <2>1. Versions(Visible(x)', s) = Versions(Visible(x), s) /\ Versions(Visible(w), s) = Versions(events, s)
    BY <1>2, <1>3, <1>4, Zenon
  <2> QED BY <1>1, <1>4, <2>1, Zenon DEF Seen, Committed, CurrentStreamVersion
<1>5. CASE Versions(staged[w], s) # {}
  <2>1. Versions(staged[x], s) = {} /\ Seen(x, s) = Committed(s)
    BY <1>5, StreamExclusive, Zenon
  <2>2. Versions(Visible(x)', s) = Versions(Visible(w), s)
    BY <1>3, <2>1, Zenon
  <2> QED BY <1>1, <1>5, <2>1, <2>2, Zenon DEF Seen, CurrentStreamVersion
<1> QED BY <1>1, <1>4, <1>5, Zenon

\* Another transaction keeps its facts when w commits.
LEMMA CommitOther ==
  ASSUME IInv, NEW w \in Writers, NEW x \in Writers \ {w}, events' = Visible(w),
         UNCHANGED <<pc[x], req[x], idx[x], ver[x], staged[x]>>
  PROVE  WriterOK(x)' /\ HeldKeys(x)' = HeldKeys(x)
<1>1. \A s \in Streams :
        /\ Committed(s)' = Seen(w, s)
        /\ IF Versions(staged[w], s) = {}
           THEN Committed(s)' = Committed(s) /\ Seen(x, s)' = Seen(x, s)
           ELSE Seen(x, s)' = Seen(w, s) /\ Seen(x, s) = Committed(s)
  BY CommitSeen, Zenon
<1>2. Item(x)' = Item(x) /\ Pinned(x)' = Pinned(x)
  BY Zenon DEF Item, Pinned
<1>3. \A s \in Streams : Versions(staged[w], s) # {} =>
        /\ Versions(staged[x], s) = {}
        /\ ~(pc[x] \in {"project", "wait", "lost"} /\ Item(x).stream = s)
  BY StreamExclusive, Zenon
<1>4. StagedOK(x) /\ KeyOK(x) /\ PinnedOK(x)
  BY Zenon DEF IInv, WriterOK
<1>5. \A s \in Streams : /\ Committed(s) \in Nat /\ Seen(w, s) \in Nat /\ Committed(s) <= Seen(w, s)
                         /\ Seen(x, s) \in Nat
  BY Zenon DEF IInv, CountInv
<1>6. UniqueKeys(Visible(x)') /\ Visible(x) \subseteq Visible(x)'
  <2>1. Visible(x)' = Visible(w) \cup staged[x]
    BY Zenon DEF Visible
  <2>2. UniqueKeys(Visible(w)) /\ UniqueKeys(Visible(x))
    BY VisibleUnique, Zenon
  <2>3. ASSUME NEW d \in staged[w], NEW e \in staged[x], d.stream = e.stream, d.version = e.version
        PROVE  FALSE
    <3>1. <<d.stream, d.version>> \in HeldKeys(w) /\ <<e.stream, e.version>> \in HeldKeys(x)
      BY Zenon DEF HeldKeys
    <3> QED BY <2>3, <3>1, Zenon DEF IInv, KeysDisjoint
  <2>4. \A d \in Visible(w), e \in staged[x] : d.stream = e.stream /\ d.version = e.version => d = e
    BY <2>2, <2>3, Zenon DEF Visible, UniqueKeys
  <2> QED BY <2>1, <2>2, <2>4, Zenon DEF UniqueKeys, Visible
<1>7. \A s \in Streams : Versions(staged'[x], s) = (Committed(s)' + 1) .. Seen(x, s)'
  <2> TAKE s \in Streams
  <2>1. CASE Versions(staged[w], s) = {}
    BY <1>1, <1>4, <2>1, Zenon DEF StagedOK
  <2>2. CASE Versions(staged[w], s) # {}
    BY <1>1, <1>3, <1>5, <2>2, NothingStaged, ZenonT(60)
  <2> QED BY <2>1, <2>2, Zenon
<1>8. ASSUME NEW e \in staged'[x]
      PROVE  e.after = Project(RowAt(Visible(x)', e.stream, e.version - 1), e.op, e.version)
  <2>1. e \in Visible(x) /\ e \in staged[x]
    BY Zenon DEF Visible
  <2>2. RowAt(Visible(x)', e.stream, e.version - 1) = RowAt(Visible(x), e.stream, e.version - 1)
    BY <1>6, <2>1, Predecessor, RowAtExtend, SMTT(60)
  <2> QED BY <1>4, <2>1, <2>2, Zenon DEF StagedOK
<1>9. StagedOK(x)'
  BY <1>4, <1>7, <1>8, Zenon DEF StagedOK
<1>10. idx[x] \in DOMAIN req[x].items => Item(x).stream \in Streams
  BY ItemType, Zenon
<1>11. KeyOK(x)'
  <2> SUFFICES ASSUME pc[x] \in {"insert", "project", "wait", "lost"} PROVE KeyOK(x)'
    BY <1>4, Zenon DEF KeyOK
  <2>1. PICK s \in Streams : s = Item(x).stream
    BY <1>4, <1>10, Zenon DEF KeyOK
  <2>2. ASSUME pc[x] = "insert"
        PROVE  /\ ver[x] \in 1 .. (Seen(x, s)' + 1)
               /\ Versions(staged[x], s) # {} => ver[x] = Seen(x, s)' + 1
    <3>1. ver[x] \in 1 .. (Seen(x, s) + 1) /\ (Versions(staged[x], s) # {} => ver[x] = Seen(x, s) + 1)
      BY <1>4, <2>1, <2>2, Zenon DEF KeyOK
    <3>2. CASE Versions(staged[w], s) = {}
      BY <1>1, <3>1, <3>2, Zenon
    <3>3. CASE Versions(staged[w], s) # {}
      <4>1. Seen(x, s)' \in Nat /\ Seen(x, s) <= Seen(x, s)' /\ Versions(staged[x], s) = {}
        BY <1>1, <1>3, <1>5, <3>3, Zenon
      <4> QED BY <1>5, <3>1, <4>1
    <3> QED BY <3>2, <3>3, Zenon
  <2>3. ASSUME pc[x] \in {"project", "wait", "lost"} PROVE ver[x] = Seen(x, s)' + 1
    BY <1>1, <1>3, <1>4, <2>1, <2>3, Zenon DEF KeyOK
  <2>4. Item(x)'.stream = s
    BY <1>2, <2>1, Zenon
  <2> QED BY <1>4, <2>2, <2>3, <2>4, Zenon DEF KeyOK
<1>12. PinnedOK(x)'
  <2> SUFFICES ASSUME Pinned(x), pc[x] # "idle" PROVE PinnedOK(x)'
    BY <1>2, Zenon DEF PinnedOK
  <2> DEFINE s == req[x].items[1].stream
  <2>1. ASSUME pc[x] \in {"project", "wait", "lost", "commit"} \/ idx[x] > 1
        PROVE  Committed(s)' = req[x].expected
    <3>1. Committed(s) = req[x].expected
      BY <1>4, <2>1, Zenon DEF PinnedOK
    <3>2. pc[x] \in {"project", "wait", "lost"} =>
            idx[x] \in DOMAIN req[x].items /\ Item(x).stream = s
      BY <1>4, ZenonT(60) DEF KeyOK, PinnedOK, Item
    <3>3. s \in Streams
      <4>1. CASE pc[x] \in {"project", "wait", "lost"}
        BY <1>10, <3>2, <4>1, Zenon
      <4>2. CASE pc[x] = "commit" \/ idx[x] > 1
        <5>1. Versions(staged[x], s) # {}
          BY <1>4, <4>2, Zenon DEF PinnedOK
        <5>2. PICK e \in staged[x] : e.stream = s
          BY <5>1, Zenon DEF Versions
        <5>3. e \in Event
          BY <5>2, Zenon DEF IInv, TypeOK
        <5> QED BY <5>2, <5>3 DEF Event
      <4> QED BY <2>1, <4>1, <4>2, Zenon
    <3>4. Versions(staged[w], s) = {}
      <4>1. CASE pc[x] \in {"project", "wait", "lost"}
        BY <1>3, <3>2, <3>3, <4>1, Zenon
      <4>2. CASE pc[x] = "commit" \/ idx[x] > 1
        BY <1>3, <1>4, <3>3, <4>2, Zenon DEF PinnedOK
      <4> QED BY <2>1, <4>1, <4>2, Zenon
    <3> QED BY <1>1, <3>1, <3>3, <3>4, Zenon
  <2> QED BY <1>4, <2>1, Zenon DEF PinnedOK
<1>13. HeldKeys(x)' = HeldKeys(x)
  BY <1>2, Zenon DEF HeldKeys
<1> QED BY <1>9, <1>11, <1>12, <1>13, Zenon DEF WriterOK

\* A commit makes the staged events the log and their rows the projection.
LEMMA CommitStep == ASSUME IInv, NEW w \in Writers, Commit(w) PROVE IInv'
<1>1. /\ pc[w] = "commit" /\ events' = Visible(w)
      /\ row' = [s \in Streams |-> RowSeen(w, s)]
      /\ UNCHANGED <<published, rebuildVars>>
  BY Zenon DEF Commit, Visible
<1>2. PICK result \in {"ok", "error"} : Return(w, result)
  BY Zenon DEF Commit
<1>3. /\ pc'[w] = "idle" /\ staged'[w] = {} /\ idx'[w] = 1
      /\ \A x \in Writers \ {w} : UNCHANGED <<pc[x], req[x], idx[x], ver[x], staged[x]>>
  BY <1>2, Zenon DEF Return, IInv, TypeOK
<1>4. TypeOK'
  <2>1. row' \in [Streams -> Rows]
    BY <1>1, RowSeenIsRowAt, Zenon
  <2>2. events' \subseteq Event
    BY <1>1, Zenon DEF Visible, IInv, TypeOK
  <2>3. pc' \in [Writers -> Statements] /\ staged' \in [Writers -> SUBSET Event]
    BY <1>2, Zenon DEF Return, IInv, TypeOK, Statements
  <2>4. idx' \in [Writers -> Nat \ {0}] /\ ver' \in [Writers -> 0 .. MaxVersion]
    BY <1>2, BoundsAssumption DEF Return, IInv, TypeOK
  <2>5. outcome' \in [Writers -> {"none", "ok", "conflict", "error"}]
    BY <1>2, Zenon DEF Return, IInv, TypeOK
  <2> QED BY <1>1, <1>2, <2>1, <2>2, <2>3, <2>4, <2>5, Zenon DEF Return, IInv, TypeOK, rebuildVars
<1>5. \A s \in Streams : Committed(s)' = Seen(w, s)
  BY <1>1, Zenon DEF Committed, Seen
<1>6. \A s \in Streams : Seen(w, s)' = Seen(w, s)
  BY <1>1, <1>3, Zenon DEF Seen, Visible
<1>7. \A x \in Writers \ {w}, s \in Streams :
        IF Versions(staged[w], s) = {}
        THEN Committed(s)' = Committed(s) /\ Seen(x, s)' = Seen(x, s)
        ELSE Seen(x, s)' = Seen(w, s) /\ Seen(x, s) = Committed(s)
  BY <1>1, <1>3, CommitSeen, Zenon
<1>8. \A s \in Streams : Versions(staged[w], s) = {} => Committed(s)' = Committed(s)
  <2> TAKE s \in Streams
  <2>1. Versions(Visible(w), s) = Versions(events, s) \cup Versions(staged[w], s)
    BY VersionsUnion DEF Visible
  <2> QED BY <1>5, <2>1, Zenon DEF Seen, Committed, CurrentStreamVersion
<1>9. CountInv'
  BY <1>5, <1>6, <1>7 DEF IInv, CountInv
<1>10. UniqueKeys(Visible(w)) /\ \A s \in Streams : Versions(Visible(w), s) = 1 .. Seen(w, s)
  BY VisibleUnique, VisibleVersions, Zenon
<1>11. VersionsContiguous'
  BY <1>1, <1>10, Zenon DEF VersionsContiguous, Seen
<1>12. ProjectionIsReplay'
  <2>1. ASSUME NEW e \in events'
        PROVE  e.after = Project(RowAt(events', e.stream, e.version - 1), e.op, e.version)
    <3>1. CASE e \in staged[w]
      BY <1>1, <3>1, Zenon DEF IInv, WriterOK, StagedOK
    <3>2. CASE e \in events
      <4>1. e.stream \in Streams /\ e.version \in Nat \ {0} /\ e.version \in Versions(events, e.stream)
        BY <3>2, BoundsAssumption DEF IInv, TypeOK, Event, Versions
      <4>2. Versions(events, e.stream) = 1 .. Committed(e.stream) /\ Committed(e.stream) \in Nat
        BY <4>1, Zenon DEF IInv, VersionsContiguous, CountInv, Committed
      <4>3. e.version - 1 = 0 \/ e.version - 1 \in Versions(events, e.stream)
        BY <4>1, <4>2
      <4>4. events \subseteq Visible(w)
        BY Zenon DEF Visible
      <4>5. RowAt(events', e.stream, e.version - 1) = RowAt(events, e.stream, e.version - 1)
        BY <1>1, <1>10, <4>3, <4>4, RowAtExtend
      <4> QED BY <3>2, <4>5, Zenon DEF IInv, ProjectionIsReplay
    <3> QED BY <1>1, <3>1, <3>2, Zenon DEF Visible
  <2>2. \A s \in Streams : row'[s] = RowAt(events', s, CurrentStreamVersion(events', s))
    BY <1>1, RowSeenIsRowAt, Zenon DEF Seen
  <2> QED BY <2>1, <2>2, Zenon DEF ProjectionIsReplay
<1>13. WriterOK(w)'
  <2>1. \A s \in Streams : Versions(staged'[w], s) = (Committed(s)' + 1) .. Seen(w, s)'
    BY <1>3, <1>5, <1>6, NothingStaged, ZenonT(60) DEF IInv, CountInv
  <2> QED BY <1>3, <2>1, Zenon DEF WriterOK, StagedOK, KeyOK, PinnedOK, UniqueKeys
<1>14. \A x \in Writers \ {w} : WriterOK(x)' /\ HeldKeys(x)' = HeldKeys(x)
  BY <1>1, <1>3, CommitOther, Zenon
<1>15. KeysDisjoint'
  <2>1. HeldKeys(w)' = {}
    BY <1>3, Zenon DEF HeldKeys
  <2> QED BY <1>14, <2>1, Zenon DEF IInv, KeysDisjoint
<1>16. RebuildInv'
  <2>1. \A s \in Streams : RowHolders(s)' \subseteq RowHolders(s)
    BY <1>3, NothingStaged, Zenon DEF RowHolders
  <2>2. \A s \in Streams : RowHolders(s) = {} => Committed(s)' = Committed(s)
    BY <1>8, Zenon DEF RowHolders
  <2>3. rb' = rb
    BY <1>1, Zenon DEF rebuildVars
  <2>4. ASSUME NEW s \in Streams PROVE rb.version[s] <= Committed(s)' /\ rb.row[s] = RowAt(events', s, rb.next[s] - 1)
    <3>1. /\ rb.version[s] <= Committed(s) /\ rb.next[s] <= rb.version[s] + 1
          /\ rb.row[s] = RowAt(events, s, rb.next[s] - 1)
      BY Zenon DEF IInv, RebuildInv
    <3>2. rb.version[s] \in Nat /\ rb.next[s] \in Nat \ {0}
      BY BoundsAssumption DEF IInv, TypeOK
    <3>3. /\ Committed(s) \in Nat /\ Seen(w, s) \in Nat /\ Committed(s) <= Seen(w, s)
          /\ Versions(events, s) = 1 .. Committed(s)
      BY Zenon DEF IInv, CountInv, VersionsContiguous, Committed
    <3>4. rb.next[s] - 1 = 0 \/ rb.next[s] - 1 \in Versions(events, s)
      BY <3>1, <3>2, <3>3, SMTT(60)
    <3>5. events \subseteq Visible(w)
      BY Zenon DEF Visible
    <3>6. RowAt(events', s, rb.next[s] - 1) = RowAt(events, s, rb.next[s] - 1)
      BY <1>1, <1>10, <3>4, <3>5, RowAtExtend
    <3>7. rb.version[s] <= Committed(s)'
      BY <1>5, <3>1, <3>2, <3>3
    <3> QED BY <3>1, <3>6, <3>7, Zenon
  <2> QED BY <2>1, <2>2, <2>3, <2>4, Zenon DEF IInv, RebuildInv
<1> QED BY <1>4, <1>9, <1>11, <1>12, <1>13, <1>14, <1>15, <1>16, Zenon DEF IInv

-----------------------------------------------------------------------------
(* Steps of the rebuild *)

\* A step of the rebuild's own transaction changes nothing a writer has.
LEMMA RebuildOnly ==
  ASSUME IInv, UNCHANGED <<events, row, writerVars>>, TypeOK', RebuildInv'
  PROVE  IInv'
<1>1. UNCHANGED <<events, row, pc, req, idx, ver, staged>>
  BY Zenon DEF writerVars
<1>2. \A w \in Writers : WriterOK(w)' /\ HeldKeys(w)' = HeldKeys(w)
  BY <1>1, OtherWriter, Zenon DEF IInv
<1>3. CountInv'
  BY <1>1, Zenon DEF IInv, CountInv, Committed, Seen, Visible
<1>4. VersionsContiguous' /\ ProjectionIsReplay'
  BY <1>1, Zenon DEF IInv, VersionsContiguous, ProjectionIsReplay
<1>5. KeysDisjoint'
  BY <1>2, Zenon DEF IInv, KeysDisjoint
<1> QED BY <1>2, <1>3, <1>4, <1>5, Zenon DEF IInv

\* The rebuild ends and the writers that waited for its rows go on.
LEMMA RebuildEndStep ==
  ASSUME IInv, NEW p \in {"project", "lost"}, RebuildEnd(p), row' = row
  PROVE  IInv'
<1>1. /\ rb' = NoRebuild /\ pc' = [w \in Writers |-> IF pc[w] = "wait" THEN p ELSE pc[w]]
      /\ UNCHANGED <<events, req, idx, ver, staged, outcome, calls, published, rebuilds>>
  BY Zenon DEF RebuildEnd
<1>2. TypeOK'
  <2>1. pc' \in [Writers -> Statements]
    BY <1>1, Zenon DEF IInv, TypeOK, Statements
  <2>2. rb' \in [pc : {"idle", "reset", "replay"}, version : [Streams -> 0 .. MaxVersion],
                 todo : SUBSET Streams, locked : SUBSET Streams,
                 row : [Streams -> Rows], next : [Streams -> Nat \ {0}]]
    BY <1>1, BoundsAssumption, NoRowAssumption DEF NoRebuild
  <2> QED BY <1>1, <2>1, <2>2, Zenon DEF IInv, TypeOK
<1>3. ASSUME NEW w \in Writers PROVE WriterOK(w)' /\ HeldKeys(w)' = HeldKeys(w)
  <2>1. pc'[w] = IF pc[w] = "wait" THEN p ELSE pc[w]
    BY <1>1, Zenon
  <2>2. /\ Visible(w)' = Visible(w) /\ Item(w)' = Item(w) /\ Pinned(w)' = Pinned(w)
        /\ \A s : Committed(s)' = Committed(s) /\ Seen(w, s)' = Seen(w, s)
    BY <1>1, Zenon DEF Visible, Item, Pinned, Committed, Seen
  <2>3. StagedOK(w)'
    BY <1>1, <2>1, <2>2, Zenon DEF IInv, WriterOK, StagedOK
  <2>4. KeyOK(w)'
    BY <1>1, <2>1, <2>2, Zenon DEF IInv, WriterOK, KeyOK
  <2>5. PinnedOK(w)'
    BY <1>1, <2>1, <2>2, ZenonT(60) DEF IInv, WriterOK, PinnedOK
  <2>6. HeldKeys(w)' = HeldKeys(w)
    BY <1>1, <2>1, <2>2, ZenonT(60) DEF HeldKeys
  <2> QED BY <2>3, <2>4, <2>5, <2>6, Zenon DEF WriterOK
<1>4. CountInv'
  BY <1>1, ZenonT(60) DEF IInv, CountInv, Committed, Seen, Visible
<1>5. VersionsContiguous' /\ ProjectionIsReplay'
  BY <1>1, Zenon DEF IInv, VersionsContiguous, ProjectionIsReplay
<1>6. KeysDisjoint'
  BY <1>3, Zenon DEF IInv, KeysDisjoint
<1>7. RebuildInv'
  <2>1. \A s \in Streams : Committed(s)' \in Nat
    BY <1>4, Zenon DEF CountInv
  <2> QED BY <1>1, <2>1 DEF RebuildInv, NoRebuild, RowAt
<1> QED BY <1>2, <1>3, <1>4, <1>5, <1>6, <1>7, Zenon DEF IInv

\* The snapshot is the committed log.
LEMMA RebuildBeginStep == ASSUME IInv, RebuildBegin PROVE IInv'
<1>1. /\ rebuilds < MaxRebuilds /\ rebuilds' = rebuilds + 1
      /\ UNCHANGED <<events, row, writerVars>>
      /\ rb' = [NoRebuild EXCEPT !.pc = "reset",
                                 !.version = [s \in Streams |-> CurrentStreamVersion(events, s)],
                                 !.todo = {s \in Streams : row[s] # NoRow}]
  BY Zenon DEF RebuildBegin
<1>2. \A s \in Streams : Committed(s) \in 0 .. MaxVersion
  <2> TAKE s \in Streams
  <2>1. Committed(s) \in Nat /\ Versions(events, s) = 1 .. Committed(s)
    BY Zenon DEF IInv, CountInv, VersionsContiguous, Committed
  <2>2. Versions(events, s) \subseteq 1 .. MaxVersion
    BY DEF Versions, IInv, TypeOK, Event
  <2>3. Committed(s) # 0 => Committed(s) \in 1 .. MaxVersion
    BY <2>1, <2>2
  <2> QED BY <2>1, <2>3, BoundsAssumption
<1>3. rb' = [pc |-> "reset", version |-> [s \in Streams |-> Committed(s)],
             todo |-> {s \in Streams : row[s] # NoRow}, locked |-> {},
             row |-> [s \in Streams |-> NoRow], next |-> [s \in Streams |-> 1]]
  BY <1>1, ZenonT(60) DEF NoRebuild, Committed
<1>4. TypeOK'
  <2>1. rebuilds' \in 0 .. MaxRebuilds
    BY <1>1, BoundsAssumption, SMTT(60) DEF IInv, TypeOK
  <2>2. rb' \in [pc : {"idle", "reset", "replay"}, version : [Streams -> 0 .. MaxVersion],
                 todo : SUBSET Streams, locked : SUBSET Streams,
                 row : [Streams -> Rows], next : [Streams -> Nat \ {0}]]
    BY <1>2, <1>3, NoRowAssumption
  <2> QED BY <1>1, <2>1, <2>2, ZenonT(60) DEF IInv, TypeOK, writerVars
<1>5. \A s \in Streams : Committed(s)' = Committed(s)
  BY <1>1, Zenon DEF Committed
<1>6. RebuildInv'
  BY <1>2, <1>3, <1>5 DEF RebuildInv, RowAt
<1> QED BY <1>1, <1>4, <1>6, RebuildOnly, Zenon

\* Locking a free and unchanged row keeps the rebuild on the committed log.
LEMMA RebuildResetStep ==
  ASSUME IInv, NEW s \in Streams, RebuildReset(s)
  PROVE  IInv'
<1>1. CASE ~RowUnchanged(s)
  BY <1>1, RebuildEndStep, Zenon DEF RebuildReset
<1>2. CASE RowUnchanged(s)
  <2>1. /\ rb.pc = "reset" /\ rb' = [rb EXCEPT !.todo = @ \ {s}, !.locked = @ \cup {s}]
        /\ UNCHANGED <<events, row, writerVars, rebuilds>>
    BY <1>2, Zenon DEF RebuildReset
  <2>2. TypeOK'
    BY <2>1, ZenonT(60) DEF IInv, TypeOK, writerVars
  <2>3. \A t : Committed(t)' = Committed(t) /\ RowHolders(t)' = RowHolders(t)
    BY <2>1, Zenon DEF Committed, RowHolders, writerVars
  <2>4. RowHolders(s) = {} /\ Committed(s) = rb.version[s]
    BY <1>2, Zenon DEF RebuildReset, RowFree, RowUnchanged, Committed, IInv, RebuildInv
  <2>5. /\ rb'.pc = "reset" /\ rb'.locked = rb.locked \cup {s}
        /\ rb'.version = rb.version /\ rb'.next = rb.next /\ rb'.row = rb.row
    BY <2>1, Zenon DEF IInv, TypeOK
  <2>6. RebuildInv'
    BY <2>1, <2>3, <2>4, <2>5, Zenon DEF IInv, RebuildInv
  <2> QED BY <2>1, <2>2, <2>6, RebuildOnly, Zenon
<1> QED BY <1>1, <1>2, Zenon

\* Going on to the replay changes nothing the invariant speaks of.
LEMMA RebuildResetDoneStep == ASSUME IInv, RebuildResetDone PROVE IInv'
<1>1. rb' = [rb EXCEPT !.pc = "replay"] /\ UNCHANGED <<events, row, writerVars, rebuilds>>
  BY Zenon DEF RebuildResetDone
<1>2. TypeOK'
  BY <1>1, Zenon DEF IInv, TypeOK, writerVars
<1>3. \A t : Committed(t)' = Committed(t) /\ RowHolders(t)' = RowHolders(t)
  BY <1>1, Zenon DEF Committed, RowHolders, writerVars
<1>4. /\ rb'.pc = "replay" /\ rb'.locked = rb.locked
      /\ rb'.version = rb.version /\ rb'.next = rb.next /\ rb'.row = rb.row
  BY <1>1, Zenon DEF IInv, TypeOK
<1>5. RebuildInv'
  BY <1>1, <1>3, <1>4, Zenon DEF IInv, RebuildInv
<1> QED BY <1>1, <1>2, <1>5, RebuildOnly, Zenon

\* Replaying an event gives the row its append left.
LEMMA ReplayedRowIsLogged ==
  ASSUME IInv, NEW s \in Streams, rb.next[s] <= rb.version[s]
  PROVE  ReplayedRow(s) = RowAt(events, s, rb.next[s]) /\ ReplayedRow(s) \in Rows
<1> DEFINE n == rb.next[s]
<1> DEFINE e == CHOOSE x \in events : x.stream = s /\ x.version = n
<1>1. /\ n \in Nat \ {0} /\ rb.version[s] \in Nat /\ rb.version[s] <= Committed(s)
      /\ Committed(s) \in Nat /\ Versions(events, s) = 1 .. Committed(s)
      /\ rb.row[s] = RowAt(events, s, n - 1)
  BY BoundsAssumption, SMTT(60) DEF IInv, TypeOK, CountInv, VersionsContiguous, RebuildInv, Committed
<1>2. n \in Versions(events, s)
  BY <1>1, SMTT(60)
<1>3. e \in events /\ e.stream = s /\ e.version = n
  <2>1. \E x \in events : x.stream = s /\ x.version = n
    BY ONLY <1>2, Zenon DEF Versions
  <2> QED BY ONLY <2>1, Zenon DEF e
<1>4. e.after = Project(rb.row[s], e.op, e.version)
  BY <1>1, <1>3, Zenon DEF IInv, ProjectionIsReplay
<1>5. ReplayedRow(s) = e.after
  BY <1>4, Zenon DEF ReplayedRow
<1>6. RowAt(events, s, n) = e.after
  BY <1>1, <1>3, RowAtEvent, Zenon DEF IInv, VersionsContiguous
<1>7. e.after \in Rows
  BY <1>3, Zenon DEF IInv, TypeOK, Event
<1> QED BY <1>5, <1>6, <1>7, Zenon

\* A replayed event moves the rebuild's row along the log.
LEMMA ReplayEventStep ==
  ASSUME IInv, NEW s \in Streams, replayEvent(s)
  PROVE  IInv'
<1>1. rb.pc = "replay" /\ rb.next[s] <= rb.version[s] /\ RowFree(s)
  BY Zenon DEF replayEvent
<1>2. ReplayedRow(s) = RowAt(events, s, rb.next[s]) /\ ReplayedRow(s) \in Rows
  BY <1>1, ReplayedRowIsLogged, Zenon
<1>3. CASE ~RowUnchanged(s)
  BY <1>3, RebuildEndStep, Zenon DEF replayEvent
<1>4. CASE RowUnchanged(s)
  <2>1. /\ rb' = [rb EXCEPT !.row[s] = ReplayedRow(s), !.next[s] = @ + 1, !.locked = @ \cup {s}]
        /\ UNCHANGED <<events, row, writerVars, rebuilds>>
    BY <1>2, <1>4, NoRowAssumption, Zenon DEF replayEvent
  <2>2. /\ rb'.pc = "replay" /\ rb'.locked = rb.locked \cup {s} /\ rb'.version = rb.version
        /\ rb'.todo = rb.todo
        /\ rb'.next = [rb.next EXCEPT ![s] = @ + 1]
        /\ rb'.row = [rb.row EXCEPT ![s] = ReplayedRow(s)]
    <3>1. rb \in [pc : {"idle", "reset", "replay"}, version : [Streams -> 0 .. MaxVersion],
                  todo : SUBSET Streams, locked : SUBSET Streams,
                  row : [Streams -> Rows], next : [Streams -> Nat \ {0}]]
      BY Zenon DEF IInv, TypeOK
    <3>2. rb' = [pc |-> rb.pc, version |-> rb.version, todo |-> rb.todo,
                 locked |-> rb.locked \cup {s}, row |-> [rb.row EXCEPT ![s] = ReplayedRow(s)],
                 next |-> [rb.next EXCEPT ![s] = @ + 1]]
      BY <2>1, <3>1, ZenonT(60)
    <3> QED BY <1>1, <3>2, Zenon
  <2>3. TypeOK'
    <3>1. rb'.next \in [Streams -> Nat \ {0}] /\ rb'.row \in [Streams -> Rows]
      BY <1>2, <2>2 DEF IInv, TypeOK
    <3>2. rb' \in [pc : {"idle", "reset", "replay"}, version : [Streams -> 0 .. MaxVersion],
                   todo : SUBSET Streams, locked : SUBSET Streams,
                   row : [Streams -> Rows], next : [Streams -> Nat \ {0}]]
      BY <2>1, <2>2, <3>1, ZenonT(60) DEF IInv, TypeOK
    <3> QED BY <2>1, <3>2, Zenon DEF IInv, TypeOK, writerVars
  <2>4. \A t : Committed(t)' = Committed(t) /\ RowHolders(t)' = RowHolders(t)
    BY <2>1, Zenon DEF Committed, RowHolders, writerVars
  <2>5. RowHolders(s) = {} /\ Committed(s) = rb.version[s]
    BY ZenonT(60), <1>1, <1>4 DEF RowFree, RowUnchanged, Committed, IInv, RebuildInv
  <2>6. rb.next[s] \in Nat /\ rb.version[s] \in Nat
    BY BoundsAssumption, SMTT(60) DEF IInv, TypeOK
  <2>7. ASSUME NEW t \in Streams
        PROVE  /\ rb'.version[t] <= Committed(t)' /\ rb'.next[t] <= rb'.version[t] + 1
               /\ rb'.row[t] = RowAt(events', t, rb'.next[t] - 1)
               /\ t \in rb'.locked => rb'.version[t] = Committed(t)' /\ RowHolders(t)' = {}
    <3>1. CASE t = s
      <4>1. rb'.next[t] = rb.next[s] + 1 /\ rb'.row[t] = ReplayedRow(s)
        BY <2>2, <3>1, Zenon DEF IInv, TypeOK
      <4>2. rb.next[s] + 1 - 1 = rb.next[s] /\ rb.next[s] + 1 <= rb.version[s] + 1
        BY <1>1, <2>6
      <4> QED BY <1>2, <2>1, <2>2, <2>4, <2>5, <2>6, <3>1, <4>1, <4>2, SMTT(60)
    <3>2. CASE t # s
      <4>1. rb'.next[t] = rb.next[t] /\ rb'.row[t] = rb.row[t]
        BY <2>2, <3>2, Zenon DEF IInv, TypeOK
      <4> QED BY <2>1, <2>2, <2>4, <3>2, <4>1, Zenon DEF IInv, RebuildInv
    <3> QED BY <3>1, <3>2, Zenon
  <2>8. RebuildInv'
    BY <2>2, <2>7, Zenon DEF RebuildInv
  <2> QED BY <2>1, <2>3, <2>8, RebuildOnly, Zenon
<1> QED BY <1>3, <1>4

\* A rebuild commits the rows that are already there.
LEMMA RebuildCommitStep == ASSUME IInv, RebuildCommit PROVE IInv' /\ row' = row
<1>1. ASSUME NEW s \in Streams PROVE (IF s \in rb.locked THEN rb.row[s] ELSE row[s]) = row[s]
  <2>1. CASE s \in rb.locked
    <3>1. rb.next[s] \in Nat /\ rb.version[s] \in Nat /\ rb.next[s] > rb.version[s]
      BY BoundsAssumption, SMTT(60) DEF RebuildCommit, IInv, TypeOK
    <3>2. /\ rb.next[s] <= rb.version[s] + 1 /\ rb.version[s] = Committed(s)
          /\ rb.row[s] = RowAt(events, s, rb.next[s] - 1)
      BY <2>1, Zenon DEF IInv, RebuildInv
    <3>3. rb.next[s] - 1 = Committed(s)
      BY <3>1, <3>2, SMTT(60)
    <3> QED BY <2>1, <3>2, <3>3, Zenon DEF IInv, ProjectionIsReplay, Committed
  <2> QED BY <2>1, Zenon
<1>2. row' = row
  BY <1>1, Zenon DEF RebuildCommit, IInv, TypeOK
<1> QED BY <1>2, RebuildEndStep, Zenon DEF RebuildCommit

-----------------------------------------------------------------------------
(* The theorems *)

\* Every step of every writer and of the rebuild keeps the invariant.
LEMMA NextInv == ASSUME IInv, [Next]_vars PROVE IInv'
<1>1. ASSUME NEW w \in Writers, Call(w) \/ WriterStep(w) \/ Abort(w) PROVE IInv'
  BY <1>1, CallStep, ReadVersionStep, InsertEventStep, ProjectEventStep, WaitForRowStep,
     FailedStep, CallbackStep, CommitStep, Zenon DEF WriterStep
<1>2. CASE RebuildBegin
  BY <1>2, RebuildBeginStep, Zenon
<1>3. CASE RebuildStep
  BY <1>3, RebuildResetDoneStep, RebuildCommitStep, RebuildResetStep, ReplayEventStep, Zenon DEF RebuildStep
<1>4. CASE RebuildAbort
  BY <1>4, RebuildEndStep, Zenon DEF RebuildAbort
<1>5. CASE UNCHANGED vars
  <2>1. UNCHANGED <<events, row, writerVars>> /\ UNCHANGED <<rb, rebuilds>>
    BY <1>5, Zenon DEF vars, rebuildVars
  <2>2. TypeOK'
    BY <2>1, Zenon DEF IInv, TypeOK, writerVars
  <2>3. UNCHANGED <<events, row, staged, rb>>
    BY <2>1, Zenon DEF writerVars
  <2>4. RebuildInv'
    BY <2>3, Frame, Zenon
  <2> QED BY <2>1, <2>2, <2>4, RebuildOnly, Zenon
<1> QED BY <1>1, <1>2, <1>3, <1>4, <1>5, Zenon DEF Next

\* The invariant holds in every reachable state.
THEOREM Invariant == Spec => []IInv
<1>1. Init => IInv
  BY InitInv, Zenon
<1>2. IInv /\ [Next]_vars => IInv'
  BY NextInv, Zenon
<1> QED BY <1>1, <1>2, PTL DEF Spec

\* Every variable keeps its type, for any number of writers and streams.
THEOREM TypeCorrect == Spec => []TypeOK
<1>1. IInv => TypeOK
  BY Zenon DEF IInv
<1> QED BY <1>1, Invariant, PTL

\* No interleaving of appends, rollbacks and rebuilds leaves a gap in a stream
\* or gives one version to two events.
THEOREM StreamsContiguous == Spec => []VersionsContiguous
<1>1. IInv => VersionsContiguous
  BY Zenon DEF IInv
<1> QED BY <1>1, Invariant, PTL

\* The projection is always the replay of the committed log, whatever the
\* projector computes from the row of its own stream.
THEOREM ProjectionCorrect == Spec => []ProjectionIsReplay
<1>1. IInv => ProjectionIsReplay
  BY Zenon DEF IInv
<1> QED BY <1>1, Invariant, PTL

\* The rows are a function of the log.
LEMMA RowsFollowEvents == ASSUME IInv, IInv', events' = events PROVE row' = row
<1>1. row \in [Streams -> Rows] /\ row' \in [Streams -> Rows]
  BY Zenon DEF IInv, TypeOK
<1>2. \A s \in Streams : row[s] = RowAt(events, s, CurrentStreamVersion(events, s))
  BY Zenon DEF IInv, ProjectionIsReplay
<1>3. \A s \in Streams : row'[s] = RowAt(events', s, CurrentStreamVersion(events', s))
  BY Zenon DEF IInv, ProjectionIsReplay
<1>4. \A s \in Streams : row'[s] = row[s]
  BY <1>2, <1>3, Zenon
<1> QED BY <1>1, <1>4

\* A rebuild that commits changes no row, however the appends of other writers
\* interleave with it (projectors that read the row of their own stream only).
THEOREM RebuildPreservesRows == Spec => RowsMoveWithEvents
<1>1. IInv /\ IInv' => (events' = events => row' = row)
  BY RowsFollowEvents, Zenon
<1> QED BY <1>1, Invariant, PTL DEF RowsMoveWithEvents

\* A version-pinned append commits at the version its caller expected.
THEOREM PinnedAppends == Spec => PinnedAppendsAtExpected
<1>1. IInv => \A w \in Writers :
                pc[w] = "commit" /\ Pinned(w)
                  => CurrentStreamVersion(events, req[w].items[1].stream) = req[w].expected
  BY Zenon DEF IInv, WriterOK, PinnedOK, Committed
<1>2. IInv => \A w \in Writers :
                events' # events /\ pc[w] = "commit" /\ pc'[w] = "idle" /\ Pinned(w)
                  => CurrentStreamVersion(events, req[w].items[1].stream) = req[w].expected
  BY <1>1, Zenon
<1> QED BY <1>2, Invariant, PTL DEF PinnedAppendsAtExpected

-----------------------------------------------------------------------------
(* Publication before the commit *)

\* A transaction about to commit has been through its callback.
PublishedInv ==
  \A w \in Writers : pc[w] = "commit" /\ req[w].mode = "callback" => staged[w] \subseteq published

\* A step of one transaction leaves the others' events published.
LEMMA PublishedStep == ASSUME TypeOK, PublishedInv, [Next]_vars PROVE PublishedInv'
<1> USE DEF PublishedInv, TypeOK
<1>1. ASSUME NEW w \in Writers, Call(w) PROVE PublishedInv'
  BY <1>1, ZenonT(60) DEF Call, EarlyResult
<1>2. ASSUME NEW w \in Writers, NEW result, Return(w, result), published' = published PROVE PublishedInv'
  BY <1>2, Zenon DEF Return
<1>3. ASSUME NEW w \in Writers, NEW p, Goto(w, p), published' = published,
             \A x \in Writers \ {w} : staged'[x] = staged[x],
             p = "commit" => req[w].mode # "callback"
      PROVE  PublishedInv'
  BY <1>3, Zenon DEF Goto
<1>4. ASSUME NEW w \in Writers, ReadVersion(w) \/ WaitForRow(w) PROVE PublishedInv'
  BY <1>2, <1>3, <1>4, Zenon DEF ReadVersion, WaitForRow
<1>5. ASSUME NEW w \in Writers, InsertEvent(w) PROVE PublishedInv'
  BY <1>2, <1>3, <1>5, Zenon DEF InsertEvent, VersionConflict
<1>6. ASSUME NEW w \in Writers, ProjectEvent(w) PROVE PublishedInv'
  BY <1>2, <1>3, <1>6, ZenonT(60) DEF ProjectEvent, Projected
<1>7. ASSUME NEW w \in Writers, Callback(w) PROVE PublishedInv'
  BY <1>7, ZenonT(60) DEF Callback, Goto, Return
<1>8. ASSUME NEW w \in Writers, LostRow(w) \/ Commit(w) \/ DeadlockVictim(w) \/ Abort(w) PROVE PublishedInv'
  BY <1>2, <1>8, Zenon DEF LostRow, Commit, DeadlockVictim, Abort
<1>9. ASSUME NEW p \in {"project", "lost"}, RebuildEnd(p) PROVE PublishedInv'
  BY <1>9, Zenon DEF RebuildEnd
<1>10. CASE RebuildBegin \/ RebuildStep \/ RebuildAbort
  <2>1. (\E p \in {"project", "lost"} : RebuildEnd(p)) \/ UNCHANGED writerVars
    BY <1>10, ZenonT(60) DEF RebuildBegin, RebuildStep, RebuildAbort, RebuildReset, RebuildResetDone, replayEvent, RebuildCommit
  <2> QED BY <1>9, <2>1, Zenon DEF writerVars
<1>11. CASE UNCHANGED vars
  BY <1>11, Zenon DEF vars, writerVars
<1> QED BY <1>1, <1>4, <1>5, <1>6, <1>7, <1>8, <1>10, <1>11, Zenon DEF Next, WriterStep

\* The only step that changes the log is a commit, of its staged events.
LEMMA OnlyCommitAppends ==
  ASSUME TypeOK, [Next]_vars, events' # events
  PROVE  \E w \in Writers : Commit(w) /\ \A x \in Writers \ {w} : pc'[x] = pc[x]
<1>1. PICK w \in Writers : Commit(w)
  BY Zenon DEF Next, WriterStep, Call, ReadVersion, InsertEvent, ProjectEvent, WaitForRow, LostRow,
         Callback, Abort, DeadlockVictim, RebuildBegin, RebuildStep, RebuildAbort, RebuildEnd,
         RebuildReset, RebuildResetDone, replayEvent, RebuildCommit, vars
<1>2. \A x \in Writers \ {w} : pc'[x] = pc[x]
  BY <1>1, Zenon DEF Commit, Return, TypeOK
<1> QED BY <1>1, <1>2, Zenon

\* An event with a before-commit callback is published before it is durable.
THEOREM CallbackBeforeCommit == Spec => PublishedBeforeDurable
<1>1. Init => PublishedInv
  BY Zenon DEF Init, PublishedInv
<1>2. TypeOK /\ PublishedInv /\ [Next]_vars => PublishedInv'
  BY PublishedStep, Zenon
<1>3. ASSUME TypeOK, PublishedInv, [Next]_vars
      PROVE  \A w \in Writers :
               pc[w] = "commit" /\ events' # events /\ req[w].mode = "callback" /\ pc'[w] = "idle"
                 => events' \ events \subseteq published
  <2> SUFFICES ASSUME NEW w \in Writers, pc[w] = "commit", events' # events,
                      req[w].mode = "callback", pc'[w] = "idle"
               PROVE  events' \ events \subseteq published
    BY Zenon
  <2>1. PICK x \in Writers : Commit(x) /\ \A y \in Writers \ {x} : pc'[y] = pc[y]
    BY <1>3, OnlyCommitAppends, Zenon
  <2>2. x = w
    BY <2>1, Zenon
  <2> QED BY <1>3, <2>1, <2>2, Zenon DEF Commit, PublishedInv
<1>4. TypeOK /\ PublishedInv /\ [Next]_vars =>
        (\A w \in Writers :
           pc[w] = "commit" /\ events' # events /\ req[w].mode = "callback" /\ pc'[w] = "idle"
             => events' \ events \subseteq published)
  BY <1>3, Zenon
<1> QED BY <1>1, <1>2, <1>4, TypeCorrect, PTL DEF Spec, PublishedBeforeDurable

-----------------------------------------------------------------------------
(* The refinement *)

\* The abstract log reads its events with the same operators.
LEMMA SameOperators ==
  /\ \A E, s : Abstract!Versions(E, s) = Versions(E, s)
  /\ \A E, s : Abstract!Length(E, s) = CurrentStreamVersion(E, s)
  /\ \A E, s, v : Abstract!RowAt(E, s, v) = RowAt(E, s, v)
BY Zenon DEF Abstract!Versions, Abstract!Length, Abstract!RowAt, Versions, CurrentStreamVersion, RowAt,
       Abstract!Greatest, Greatest

\* A commit is one abstract append of the events it staged.
LEMMA CommitAppends ==
  ASSUME IInv, IInv', NEW w \in Writers, Commit(w), events' # events
  PROVE  Abstract!Append
<1> DEFINE new == events' \ events
<1>1. /\ events' = Visible(w) /\ events \subseteq events'
      /\ row' = [s \in Streams |-> RowSeen(w, s)]
  BY Zenon DEF Commit, Visible
<1>2. new = staged[w]
  <2>1. \A e \in staged[w] : e \notin events
    <3> SUFFICES ASSUME NEW e \in staged[w], e \in events PROVE FALSE
      BY Zenon
    <3>1. e.stream \in Streams
      BY Zenon DEF IInv, TypeOK, Event
    <3>2. e.version \in Versions(events, e.stream) /\ e.version \in Versions(staged[w], e.stream)
      BY Zenon DEF Versions
    <3>3. /\ Versions(events, e.stream) = 1 .. Committed(e.stream) /\ Committed(e.stream) \in Nat
          /\ Versions(staged[w], e.stream) = (Committed(e.stream) + 1) .. Seen(w, e.stream)
      BY <3>1, Zenon DEF IInv, VersionsContiguous, CountInv, WriterOK, StagedOK, Committed
    <3> QED BY <3>2, <3>3
  <2> QED BY <1>1, <2>1, Zenon DEF Visible
<1>3. ASSUME NEW s \in Streams
      PROVE  Versions(new, s) = (CurrentStreamVersion(events, s) + 1) .. CurrentStreamVersion(events', s)
  BY <1>1, <1>2, ZenonT(60) DEF IInv, WriterOK, StagedOK, Committed, Seen
<1>4. \A d, e \in events' : d.stream = e.stream /\ d.version = e.version => d = e
  BY <1>1, VisibleUnique, Zenon DEF UniqueKeys
<1>5. \A e \in new :
        /\ e.after = Project(RowAt(events', e.stream, e.version - 1), e.op, e.version)
        /\ e.after \in Rows
  BY <1>1, <1>2, Zenon DEF IInv, WriterOK, StagedOK, TypeOK, Event
<1>6. row' = [s \in Streams |-> RowAt(events', s, CurrentStreamVersion(events', s))]
  BY <1>1, RowSeenIsRowAt, Zenon DEF Seen
<1>7. new # {}
  BY <1>1, ZenonT(60)
<1> HIDE DEF new
<1>8. new = events' \ events
  BY Zenon DEF new
<1> QED BY <1>1, <1>3, <1>4, <1>5, <1>6, <1>7, <1>8, SameOperators, ZenonT(60) DEF Abstract!Append

\* The event store implements the atomic log: transactions, conflicts,
\* retries, rebuilds and rollbacks are invisible in its events and rows.
THEOREM Refinement == Spec => ImplementsAtomicLog
<1>1. Init => Abstract!Init
  BY Zenon DEF Init, Abstract!Init
<1>2. ASSUME IInv, IInv', [Next]_vars PROVE [Abstract!Append]_<<events, row>>
  <2>1. CASE events' = events
    BY <1>2, <2>1, RowsFollowEvents, Zenon
  <2>2. CASE events' # events
    BY <1>2, <2>2, OnlyCommitAppends, CommitAppends, Zenon DEF IInv
  <2> QED BY <2>1, <2>2, Zenon
<1>3. IInv /\ IInv' /\ [Next]_vars => [Abstract!Append]_<<events, row>>
  BY <1>2, Zenon
<1> QED BY <1>1, <1>3, Invariant, PTL DEF Spec, ImplementsAtomicLog, Abstract!Spec
=============================================================================
