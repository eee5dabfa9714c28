---------------------------- MODULE AccessProofs ----------------------------
(***************************************************************************)
(* The inductive invariant of Access, and lemmas about the operators it is *)
(* made of: what the projectors do to the table, what an append does to    *)
(* the log, which event and which reads each domain gives a request.       *)
(***************************************************************************)
EXTENDS Access, TLAPS

(* The inductive invariant *)

\* An event the projectors know: the type belongs to the type of its stream.
IsEvent(e) ==
  e = [type |-> e.type, stream |-> e.stream, arg |-> e.arg, version |-> e.version]
Fits(e) ==
  \/ e.stream \in Actions /\ e.type \in
       {"ManagedActionCreated", "ManagedActionUpdated", "ManagedActionDeleted"}
  \/ e.stream \in ActionSets /\ e.type \in
       {"ManagedActionSetCreated", "ManagedActionSetUpdated", "ManagedActionSetDeleted"}
  \/ e.stream \in Assignments /\ e.type = "AssignmentCreated" /\ e.arg.target \in Targets
  \/ e.stream \in Assignments /\ e.type = "AssignmentDeleted"
  \/ e.stream \in Policies /\ e.type \in
       {"CompliancePolicyCreated", "CompliancePolicyUpdated", "CompliancePolicyDeleted"}
  \/ e.stream \in Settings /\ e.type \in
       {"ServerSettingCreated", "ServerSettingUpdated", "ServerSettingDeleted"}
  \/ e.stream \in DeviceGroups /\ e.type \in
       {"DeviceGroupCreated", "DeviceGroupUpdated", "DeviceGroupDeleted"}
  \/ e.stream \in Devices /\ e.type \in {"AgentOwnerUpdated", "AgentDeleted"}
  \/ e.stream \in Inventories /\ e.type \in {"InventorySnapshot", "InventoryTombstone"}
  \/ e.stream \in Users /\ e.type = "UserManagedDeleted"
  \/ e.stream \in Tokens /\ e.arg \in TokenData
       /\ e.type \in {"PersonalAccessTokenMinted", "PersonalAccessTokenUpdated"}
  \/ e.stream \in Tokens
       /\ e.type \in {"PersonalAccessTokenRevoked", "PersonalAccessTokenDeleted"}
  \/ e.stream \in OIDCProviders /\ e.type \in
       {"OIDCProviderCreated", "OIDCProviderUpdated", "OIDCProviderDeleted"}
  \/ e.stream \in SCIMProviders /\ e.type \in
       {"SCIMProviderCreated", "SCIMProviderTokenRotated", "SCIMProviderDisabled",
        "SCIMProviderDeleted"}
  \/ e.stream \in Logins /\ e.type = "BootstrapLoginMinted" /\ e.arg \in Users
  \/ e.stream \in Logins /\ e.type = "BootstrapLoginConsumed"

\* The rows and the log.  An inventory that was ever reported has a row.
StoreOK ==
  /\ IsTable(table)
  /\ events = [k \in Streams |-> events[k]]
  /\ \A k \in Streams : IsLog(events[k])
  /\ \A i \in Inventories : events[i] # <<>> => Live(table, i)

\* A request under way: the object that decides it is one its scope has already
\* reached, or a read of it through the scope is still to be made.
IsCrud(q) ==
  q = [pc |-> "crud", request |-> q.request, scope |-> q.scope, expected |-> q.expected,
       todo |-> q.todo, reached |-> q.reached]
Lists(todo, read) == IsLog(todo) /\ \E i \in 1 .. Len(todo) : todo[i] = read
ToRead(q) ==
  /\ Decisive(q.request) \in Targets \cup Tokens \cup Assignments
  /\ Lists(q.todo, Read(Decisive(q.request), q.scope, "any"))
CrudOK(t, q) ==
  /\ IsCrud(q) /\ q.request \in Requests
  /\ Reached(t, q.scope) \subseteq q.reached
  /\ Decisive(q.request) \in q.reached \/ ToRead(q)

CallOK(t, q) ==
  /\ q.pc \in {"idle", "crud", "append", "spend", "session", "bind", "exchange", "compare"}
  /\ q.pc = "idle" => q = Idle
  /\ q.pc = "crud" => CrudOK(t, q)
  /\ q.pc = "append" => IsEvent(q.event) /\ Fits(q.event)
  /\ q.pc = "spend" => q.login \in Logins
  /\ q.pc = "session" => q.from \in Logins \cup States
  /\ q.pc = "exchange" => q.state \in States
  /\ q.pc = "bind" => q.provider \in OIDCProviders
AllOK(t, q) ==
  /\ q = [c \in Callers |-> q[c]]
  /\ \A c \in Callers : CallOK(t, q[c])
CallsOK == AllOK(table, call)

\* The caller may still start a session from the login or state.
Owes(q, l) ==
  \/ q.pc = "session" /\ q.from = l
  \/ q.pc = "exchange" /\ q.state = l

\* A session started or still owed means that the login or state is spent, and
\* there is one of them at most.
Spent(l) ==
  /\ l \in Logins => Live(table, l) /\ table[l].data.consumed
  /\ l \in States => states[l] # NoRow /\ ~states[l].stored
SessionsOK ==
  /\ states \in [States -> [provider : OIDCProviders, stored : BOOLEAN] \cup {NoRow}]
  /\ sessions \in [Logins \cup States -> {0, 1}]
  /\ \A l \in Logins \cup States :
       /\ sessions[l] = 1 => Spent(l)
       /\ \A c \in Callers : Owes(call[c], l) => Spent(l) /\ sessions[l] = 0
       /\ \A c, d \in Callers : Owes(call[c], l) /\ Owes(call[d], l) => c = d

IInv == StoreOK /\ CallsOK /\ SessionsOK

-----------------------------------------------------------------------------
(* The limits *)

\* The requests past the check of a window that may still record a failure in it.
Comparing(q, b) ==
  {c \in Callers : /\ q[c].pc = "compare"
                   /\ b = q[c].provider \/ b = <<q[c].provider, q[c].address>>}

\* A window that is full admits no further request, and those it admitted before
\* take it beyond its limit by one each.
WindowOK(f, q, b) ==
  \/ f[b] < Limit(b)
  \/ f[b] + Cardinality(Comparing(q, b)) < Limit(b) + Cardinality(Callers)
TableOK(f) ==
  /\ f \in [Buckets -> Nat]
  /\ IsFiniteSet(Filled(f)) /\ Cardinality(Filled(f)) <= BucketCapacity
LimiterOK ==
  /\ TableOK(failures)
  /\ \A c \in Callers : call[c].pc = "compare" =>
       call[c].provider \in SCIMProviders /\ call[c].address \in Addresses
  /\ \A b \in Buckets : WindowOK(failures, call, b)

\* What is known of finite sets.
Counting ==
  /\ \A S : IsFiniteSet(S) => Cardinality(S) \in Nat
  /\ \A S : \A T \in SUBSET S :
       IsFiniteSet(S) => IsFiniteSet(T) /\ Cardinality(T) <= Cardinality(S)
  /\ \A S : \A x \in S : IsFiniteSet(S) => Cardinality(S \ {x}) = Cardinality(S) - 1
  /\ \A S, x : IsFiniteSet(S) =>
       /\ IsFiniteSet(S \cup {x})
       /\ x \notin S => Cardinality(S \cup {x}) = Cardinality(S) + 1

\* The partial sums of a sequence, and that they end in the total.
Adds(s, f) == f = [n \in 0 .. Len(s) |-> IF n = 0 THEN 0 ELSE f[n - 1] + s[n]]
Summed(s, total) == (\E f : Adds(s, f)) /\ \A f : Adds(s, f) => f[Len(s)] = total

OutputOK(o) ==
  /\ o = [device |-> o.device, stored |-> o.stored, bytes |-> o.bytes, truncated |-> o.truncated]
  /\ o.stored \in Seq(Nat) /\ Len(o.stored) <= MaxChunks
  /\ o.bytes \in Nat /\ o.bytes <= MaxBytes /\ Summed(o.stored, o.bytes)
OutputsOK ==
  /\ outputs = [x \in Executions |-> outputs[x]]
  /\ \A x \in Executions : outputs[x] # NoRow => OutputOK(outputs[x])

\* A step that leaves the limiter alone, and by which no request comes to compare.
CrudCalls ==
  /\ call = [d \in Callers |-> call[d]]
  /\ \A d \in Callers : call[d].pc = "crud" => IsCrud(call[d])
Quiet ==
  /\ UNCHANGED failures
  /\ \A d \in Callers : call'[d] = call[d] \/ call'[d].pc # "compare"

\* The partial sums of a sequence of numbers end in the total AppendExecutionOutput keeps.
LEMMA TotalIsSum ==
  ASSUME NEW s, NEW total, Summed(s, total)
  PROVE  Total(s) = total
<1> DEFINE f == CHOOSE f : Adds(s, f)
<1>1. Adds(s, f)
  BY Zenon DEF Summed
<1>2. f[Len(s)] = total
  BY <1>1, Zenon DEF Summed
<1>3. Total(s) = f[Len(s)]
  BY Zenon DEF Total, Adds
<1> QED
  BY <1>2, <1>3, Zenon

\* What the limiter's numbers are (validFailureLimit).
LEMMA LimitTypes ==
  ASSUME Counting, NEW b
  PROVE  Limit(b) \in Nat /\ Limit(b) > 0 /\ Cardinality(Callers) \in Nat
<1>1. Cardinality(Callers) \in Nat
  BY LimitsAssumption, Zenon DEF Counting
<1> QED
  BY <1>1, LimitsAssumption DEF Limit

\* No more requests compare for a window than there are callers.
LEMMA ComparingCounted ==
  ASSUME Counting, NEW q, NEW b
  PROVE  /\ IsFiniteSet(Comparing(q, b)) /\ Cardinality(Comparing(q, b)) \in Nat
         /\ Cardinality(Comparing(q, b)) <= Cardinality(Callers)
<1>1. Comparing(q, b) \in SUBSET Callers
  BY Zenon DEF Comparing
<1> HIDE DEF Comparing
<1>2. /\ IsFiniteSet(Comparing(q, b))
      /\ Cardinality(Comparing(q, b)) <= Cardinality(Callers)
  BY <1>1, LimitsAssumption, Zenon DEF Counting
<1> QED
  BY <1>2, Zenon DEF Counting

\* The limiter's invariant through every step: of a SCIM request, and of a handler
\* that leaves the limiter alone.
LEMMA LimiterStep ==
  ASSUME Counting, LimiterOK, call = [d \in Callers |-> call[d]],
         Quiet \/ \E c \in Callers : CheckSCIM(c) \/ CompareSCIM(c)
  PROVE  LimiterOK'
\* A window in which nothing is recorded, and that no further request compares for.
<1>WindowKept.
    ASSUME NEW f, NEW g, NEW q, NEW r, NEW b, f[b] \in Nat, g[b] \in Nat, WindowOK(f, q, b),
           g[b] <= f[b], Comparing(r, b) \subseteq Comparing(q, b)
    PROVE  WindowOK(g, r, b)
  <2> USE <1>WindowKept
  <2>1. /\ IsFiniteSet(Comparing(q, b)) /\ Cardinality(Comparing(q, b)) \in Nat
        /\ Cardinality(Comparing(r, b)) \in Nat
    BY ComparingCounted, Zenon
  <2>2. Comparing(r, b) \in SUBSET Comparing(q, b)
    BY Zenon
  <2>3. Cardinality(Comparing(r, b)) <= Cardinality(Comparing(q, b))
    BY <2>1, <2>2, Zenon DEF Counting
  <2> QED
    BY <2>1, <2>3, LimitTypes DEF WindowOK
\* A window in which a request that compares for it records its failure.
<1>WindowCounts.
    ASSUME NEW f, NEW g, NEW q, NEW r, NEW b, f[b] \in Nat, g[b] \in Nat, WindowOK(f, q, b),
           g[b] <= f[b] + 1, NEW c \in Comparing(q, b), Comparing(r, b) = Comparing(q, b) \ {c}
    PROVE  WindowOK(g, r, b)
  <2> USE <1>WindowCounts
  <2>1. /\ IsFiniteSet(Comparing(q, b)) /\ Cardinality(Comparing(q, b)) \in Nat
        /\ Cardinality(Comparing(q, b)) <= Cardinality(Callers)
    BY ComparingCounted, Zenon
  <2>2. Cardinality(Comparing(r, b)) = Cardinality(Comparing(q, b)) - 1
    BY <2>1, Zenon DEF Counting
  <2> QED
    BY <2>1, <2>2, LimitTypes DEF WindowOK
\* Pruning makes no window larger.
<1>Pruned.
    ASSUME TableOK(failures), NEW kept \in prune
    PROVE  TableOK(kept) /\ \A b \in Buckets : kept[b] <= failures[b]
  <2> USE <1>Pruned
  <2>1. /\ failures \in [Buckets -> Nat] /\ IsFiniteSet(Filled(failures))
        /\ Cardinality(Filled(failures)) <= BucketCapacity
    BY Zenon DEF TableOK
  <2>2. \A b \in Buckets : kept[b] <= failures[b]
    BY Zenon DEF prune
  <2>3. kept \in [Buckets -> Nat]
    BY <2>1 DEF prune
  <2>4. Filled(kept) \in SUBSET Filled(failures)
    BY <2>1, <2>2, <2>3 DEF Filled
  <2>5. IsFiniteSet(Filled(kept)) /\ Cardinality(Filled(kept)) <= Cardinality(Filled(failures))
    BY <2>1, <2>4, Zenon DEF Counting
  <2>6. Cardinality(Filled(kept)) \in Nat /\ Cardinality(Filled(failures)) \in Nat
    BY <2>1, <2>5, Zenon DEF Counting
  <2>7. Cardinality(Filled(kept)) <= BucketCapacity
    BY <2>1, <2>5, <2>6, LimitsAssumption
  <2> QED
    BY <2>2, <2>3, <2>5, <2>7, Zenon DEF TableOK
\* A failure is recorded in a window that is kept or has room.
<1>Recorded.
    ASSUME NEW f, TableOK(f), NEW b \in Buckets
    PROVE  /\ TableOK(RecordedIn(f, b)) /\ RecordedIn(f, b)[b] <= f[b] + 1
           /\ \A d \in Buckets : d # b => RecordedIn(f, b)[d] = f[d]
  <2> USE <1>Recorded
  <2> DEFINE g == RecordedIn(f, b)
  <2>1. /\ f \in [Buckets -> Nat] /\ IsFiniteSet(Filled(f))
        /\ Cardinality(Filled(f)) <= BucketCapacity
    BY Zenon DEF TableOK
  <2>2. CASE g = f
    <3>1. f[b] <= f[b] + 1
      BY <2>1
    <3> QED
      BY <2>2, <3>1, Zenon
  <2>3. CASE /\ b \in Filled(f) \/ Cardinality(Filled(f)) < BucketCapacity
             /\ g = [f EXCEPT ![b] = @ + 1]
    <3> HIDE DEF g
    <3>1. g \in [Buckets -> Nat] /\ g[b] = f[b] + 1 /\ \A d \in Buckets : d # b => g[d] = f[d]
      BY <2>1, <2>3
    <3>2. Filled(g) = Filled(f) \cup {b}
      BY <2>1, <3>1 DEF Filled
    <3>3. /\ IsFiniteSet(Filled(f) \cup {b})
          /\ b \notin Filled(f) => Cardinality(Filled(f) \cup {b}) = Cardinality(Filled(f)) + 1
      BY <2>1, Zenon DEF Counting
    <3>4. Cardinality(Filled(f)) \in Nat
      BY <2>1, Zenon DEF Counting
    <3>5. Cardinality(Filled(g)) <= BucketCapacity
      <4> DEFINE n == Cardinality(Filled(f))
                 m == Cardinality(Filled(g))
      <4>0. b \in Filled(f) => Filled(g) = Filled(f)
        BY <3>2, Zenon
      <4>1. m = IF b \in Filled(f) THEN n ELSE n + 1
        BY <3>2, <3>3, <4>0, Zenon
      <4>2. n \in Nat /\ n <= BucketCapacity /\ (b \in Filled(f) \/ n < BucketCapacity)
        BY <2>1, <2>3, <3>4, Zenon
      <4> HIDE DEF n, m
      <4>3. m <= BucketCapacity
        BY <4>1, <4>2, LimitsAssumption
      <4> QED
        BY <4>3, Zenon DEF m
    <3> QED
      <4>1. TableOK(g)
        BY <3>1, <3>2, <3>3, <3>5, Zenon DEF TableOK
      <4>2. g[b] <= f[b] + 1
        BY <2>1, <3>1
      <4> QED
        BY <3>1, <4>1, <4>2, Zenon DEF g
  <2>4. Cardinality(Filled(f)) \in Nat
    BY <2>1, Zenon DEF Counting
  <2>5. Cardinality(Filled(f)) >= BucketCapacity \/ Cardinality(Filled(f)) < BucketCapacity
    BY <2>4, LimitsAssumption
  <2>6. <2>2!1 \/ <2>3!1
    BY <2>5, Zenon DEF RecordedIn
  <2> QED
    BY <2>2, <2>3, <2>6, Zenon
\* A request that passes the check compares for two windows below their limits.
<1>CheckLimits.
    ASSUME NEW c \in Callers, CheckSCIM(c)
    PROVE  LimiterOK'
  <2> USE <1>CheckLimits
  <2>1. PICK p \in SCIMProviders, a \in Addresses : \E bearer \in 0 .. Version(p), kept \in prune :
          /\ failures' = kept
          /\ call' = IF Check(kept, p, a)
                     THEN [call EXCEPT ![c] = [pc |-> "compare", provider |-> p, address |-> a,
                                               bearer |-> bearer]]
                     ELSE call
    BY Zenon DEF CheckSCIM
  <2>2. PICK bearer \in 0 .. Version(p), kept \in prune :
          /\ failures' = kept
          /\ call' = IF Check(kept, p, a)
                     THEN [call EXCEPT ![c] = [pc |-> "compare", provider |-> p, address |-> a,
                                               bearer |-> bearer]]
                     ELSE call
    BY <2>1, Zenon
  <2>3. TableOK(failures') /\ \A b \in Buckets : failures'[b] <= failures[b]
    BY <2>2, <1>Pruned, Zenon DEF LimiterOK
  <2>4. \A b \in Buckets : failures[b] \in Nat /\ failures'[b] \in Nat
    BY <2>3, Zenon DEF LimiterOK, TableOK
  <2>5. CASE UNCHANGED call
    <3>1. \A b \in Buckets : WindowOK(failures', call', b)
      BY <2>3, <2>4, <2>5, <1>WindowKept, Zenon DEF LimiterOK
    <3> QED
      BY <2>3, <2>5, <3>1, Zenon DEF LimiterOK
  <2>6. CASE /\ Check(kept, p, a)
             /\ call' = [call EXCEPT ![c] = [pc |-> "compare", provider |-> p, address |-> a,
                                             bearer |-> bearer]]
    <3> DEFINE q == [pc |-> "compare", provider |-> p, address |-> a, bearer |-> bearer]
    <3>1. q.provider = p /\ q.address = a
      BY Zenon
    <3>3. call'[c] = q /\ \A d \in Callers : d # c => call'[d] = call[d]
      BY <2>6, Zenon
    <3> HIDE DEF q
    <3>4. ASSUME NEW b \in Buckets PROVE WindowOK(failures', call', b)
      <4>1. CASE b \in {p, <<p, a>>}
        BY <2>2, <2>6, <4>1, Zenon DEF Check, WindowOK
      <4>2. CASE b \notin {p, <<p, a>>}
        <5>1. Comparing(call', b) \subseteq Comparing(call, b)
          BY <3>1, <3>3, <4>2, Zenon DEF Comparing
        <5> QED
          BY <2>3, <2>4, <5>1, <1>WindowKept, Zenon DEF LimiterOK
      <4> QED
        BY <4>1, <4>2, Zenon
    <3> QED
      BY <2>3, <3>1, <3>3, <3>4, Zenon DEF LimiterOK
  <2> QED
    BY <2>2, <2>5, <2>6, Zenon
\* A request that compares records its failure in its two windows and goes.
<1>CompareLimits.
    ASSUME NEW c \in Callers, CompareSCIM(c)
    PROVE  LimiterOK'
  <2> USE <1>CompareLimits
  <2> DEFINE p == call[c].provider
             a == call[c].address
  <2>1. call[c].pc = "compare" /\ p \in SCIMProviders /\ a \in Addresses
    BY Zenon DEF CompareSCIM, LimiterOK
  <2>3. call'[c].pc = "idle" /\ \A d \in Callers : d # c => call'[d] = call[d]
    BY Zenon DEF CompareSCIM, Idle
  <2>4. \A b : Comparing(call', b) = Comparing(call, b) \ {c}
    BY <2>3, Zenon DEF Comparing
  <2>5. c \in Comparing(call, p) /\ c \in Comparing(call, <<p, a>>)
    BY <2>1, Zenon DEF Comparing
  <2>6. p # <<p, a>> /\ p \in Buckets /\ <<p, a>> \in Buckets
    BY <2>1, LimitsAssumption, Zenon DEF Buckets
  <2>7. UNCHANGED failures \/ \E kept \in prune : failures' = RecordFailure(kept, p, a)
    BY Zenon DEF CompareSCIM
  <2> HIDE DEF p, a
  <2>8. /\ TableOK(failures')
        /\ \A b \in {p, <<p, a>>} : failures'[b] <= failures[b] + 1
        /\ \A b \in Buckets \ {p, <<p, a>>} : failures'[b] <= failures[b]
    <3>1. CASE UNCHANGED failures
      <4>1. \A b \in Buckets : failures[b] \in Nat
        BY Zenon DEF LimiterOK, TableOK
      <4>2. \A b \in Buckets : failures[b] <= failures[b] /\ failures[b] <= failures[b] + 1
        BY <4>1
      <4> QED
        BY <2>6, <3>1, <4>2, Zenon DEF LimiterOK
    <3>2. ASSUME NEW kept \in prune, failures' = RecordFailure(kept, p, a)
          PROVE  <2>8!1 /\ <2>8!2 /\ <2>8!3
      <4> DEFINE f == RecordedIn(kept, p)
      <4>1. TableOK(kept) /\ \A b \in Buckets : kept[b] <= failures[b]
        BY <3>2, <1>Pruned, Zenon DEF LimiterOK
      <4>2. /\ TableOK(f) /\ f[p] <= kept[p] + 1
            /\ \A d \in Buckets : d # p => f[d] = kept[d]
        BY <2>6, <4>1, <1>Recorded, Zenon
      <4>3. failures' = RecordedIn(f, <<p, a>>)
        BY <3>2, Zenon DEF RecordFailure
      <4> HIDE DEF f
      <4> DEFINE g == RecordedIn(f, <<p, a>>)
      <4>4. /\ TableOK(g) /\ g[<<p, a>>] <= f[<<p, a>>] + 1
            /\ \A d \in Buckets : d # <<p, a>> => g[d] = f[d]
        BY <2>6, <4>2, <1>Recorded, Zenon
      <4>5. \A b \in Buckets : failures[b] \in Nat /\ kept[b] \in Nat
        BY <4>1, Zenon DEF LimiterOK, TableOK
      <4>6. failures'[<<p, a>>] <= kept[<<p, a>>] + 1 /\ failures'[p] <= kept[p] + 1
        BY <2>6, <4>2, <4>3, <4>4, Zenon
      <4>7. failures'[<<p, a>>] \in Nat /\ failures'[p] \in Nat
        BY <2>6, <4>3, <4>4, Zenon DEF TableOK
      <4>8. failures'[<<p, a>>] <= failures[<<p, a>>] + 1 /\ failures'[p] <= failures[p] + 1
        BY <2>6, <4>1, <4>5, <4>6, <4>7
      <4>9. \A b \in Buckets \ {p, <<p, a>>} : failures'[b] <= failures[b]
        BY <4>1, <4>2, <4>3, <4>4, Zenon
      <4> QED
        BY <4>3, <4>4, <4>8, <4>9, Zenon
    <3> QED
      BY <2>7, <3>1, <3>2, Zenon
  <2>9. \A b \in Buckets : failures[b] \in Nat /\ failures'[b] \in Nat
    BY <2>8, Zenon DEF LimiterOK, TableOK
  <2>10. ASSUME NEW b \in Buckets PROVE WindowOK(failures', call', b)
    <3>1. CASE b \in {p, <<p, a>>}
      BY <2>4, <2>5, <2>8, <2>9, <3>1, <1>WindowCounts, Zenon DEF LimiterOK
    <3>2. CASE b \notin {p, <<p, a>>}
      BY <2>4, <2>8, <2>9, <3>2, <1>WindowKept, Zenon DEF LimiterOK
    <3> QED
      BY <3>1, <3>2, Zenon
  <2>11. \A d \in Callers : call'[d].pc = "compare" =>
           call'[d].provider \in SCIMProviders /\ call'[d].address \in Addresses
    BY <2>3, Zenon DEF LimiterOK
  <2> QED
    BY <2>8, <2>10, <2>11, Zenon DEF LimiterOK
<1>QuietLimits.
    ASSUME Quiet
    PROVE  LimiterOK'
  <2> USE <1>QuietLimits
  <2>1. \A b \in Buckets : failures[b] \in Nat /\ failures[b] <= failures[b]
    <3>1. \A b \in Buckets : failures[b] \in Nat
      BY Zenon DEF LimiterOK, TableOK
    <3> QED
      BY <3>1
  <2>2. \A b : Comparing(call', b) \subseteq Comparing(call, b)
    BY Zenon DEF Comparing, Quiet
  <2>3. UNCHANGED failures
    BY Zenon DEF Quiet
  <2>4. \A b \in Buckets : WindowOK(failures, call', b)
    BY <2>1, <2>2, <1>WindowKept, Zenon DEF LimiterOK
  <2>5. \A d \in Callers : call'[d].pc = "compare" =>
           call'[d].provider \in SCIMProviders /\ call'[d].address \in Addresses
    BY Zenon DEF LimiterOK, Quiet
  <2> QED
    BY <2>3, <2>4, <2>5, Zenon DEF LimiterOK
<1> QED
  BY <1>QuietLimits, <1>CheckLimits, <1>CompareLimits, Zenon

\* Every handler but those of SCIM requests and of outputs.
Other(c) ==
  \/ authorize(c) \/ validateDomainMutationScope(c) \/ mutate(c)
  \/ MintPAT(c) \/ RevokePAT(c)
  \/ CreateSCIMProvider(c) \/ RotateSCIMProvider(c) \/ DisableSCIMProviderCall(c)
  \/ AppendPending(c) \/ RecordInventory(c)
  \/ MintLogin(c) \/ ConsumeLogin(c) \/ SpendLogin(c) \/ StartSession(c)
  \/ StartOIDC(c) \/ StoreOIDCLoginState(c) \/ CompleteOIDC(c) \/ ExchangeOIDC(c)

\* The calls outside the limiter and the execution outputs leave both alone.
LEMMA OthersQuiet ==
  ASSUME CrudCalls, NEW c \in Callers, Other(c)
  PROVE  Quiet /\ UNCHANGED outputs
\* A call that goes on, and an append.
<1>QuietCall.
    ASSUME NEW q, q.pc # "compare", call' = [call EXCEPT ![c] = q],
           UNCHANGED failures
    PROVE  Quiet
  BY <1>QuietCall, Zenon DEF Quiet, CrudCalls
<1>QuietAppend.
    ASSUME NEW e, NEW q, AppendEvent(e, q), UNCHANGED failures,
           \A d \in Callers : q[d] = call[d] \/ q[d].pc \notin {"crud", "compare"}
    PROVE  Quiet
  <2> USE <1>QuietAppend
  <2>1. call' = Witnessed(table', q)
    BY Zenon DEF AppendEvent
  <2>2. ASSUME NEW d \in Callers PROVE call'[d] = call[d] \/ call'[d].pc # "compare"
    <3>1. CASE q[d].pc = "crud"
      <4>1. IsCrud(call[d]) /\ q[d] = call[d]
        BY <3>1, Zenon DEF CrudCalls
      <4> DEFINE more == q[d].reached \cup Reached(table', q[d].scope)
      <4>2. call'[d] = [call[d] EXCEPT !.reached = more]
        BY <2>1, <3>1, <4>1, Zenon DEF Witnessed
      <4> HIDE DEF more
      <4>3. call'[d].pc = "crud"
        BY <4>1, <4>2 DEF IsCrud
      <4> QED
        BY <4>3, Zenon
    <3>2. CASE q[d].pc # "crud"
      <4>1. call'[d] = q[d]
        BY <2>1, <3>2, Zenon DEF Witnessed
      <4> QED
        BY <3>2, <4>1, Zenon
    <3> QED
      BY <3>1, <3>2, Zenon
  <2> QED
    BY <2>2, Zenon DEF Quiet
<1>QuietLast.
    ASSUME NEW e, NEW q, q.pc \notin {"crud", "compare"},
           AppendEvent(e, [call EXCEPT ![c] = q]), UNCHANGED failures
    PROVE  Quiet
  <2> USE <1>QuietLast
  <2> DEFINE next == [call EXCEPT ![c] = q]
  <2>1. \A d \in Callers : next[d] = call[d] \/ next[d].pc \notin {"crud", "compare"}
    BY Zenon DEF CrudCalls
  <2>2. AppendEvent(e, next)
    BY Zenon
  <2> HIDE DEF next
  <2> QED
    BY <2>1, <2>2, <1>QuietAppend, Zenon
<1>QuietEnds.
    ASSUME Ends(c), UNCHANGED failures
    PROVE  Quiet
  <2> USE <1>QuietEnds
  <2>1. Idle.pc # "compare" /\ call' = [call EXCEPT ![c] = Idle]
    BY Zenon DEF Idle, Ends
  <2> HIDE DEF Idle
  <2> QED
    BY <2>1, <1>QuietCall, Zenon
<1>1. UNCHANGED <<failures, outputs>>
  <2>1. CASE UNCHANGED services
    BY <2>1, Zenon DEF services
  <2> QED
    BY <2>1, Zenon DEF Other, authorize, validateDomainMutationScope, mutate, MintPAT, RevokePAT,
       CreateSCIMProvider, RotateSCIMProvider, DisableSCIMProviderCall, AppendPending,
       RecordInventory, MintLogin, ConsumeLogin, SpendLogin, StartSession, StartOIDC,
       StoreOIDCLoginState, CompleteOIDC, ExchangeOIDC
<1> SUFFICES Quiet
  BY <1>1, Zenon
<1>2. Idle.pc = "idle"
  BY Zenon DEF Idle
<1> HIDE DEF Idle
<1>3. ASSUME NEW e, AppendEvent(e, call) PROVE Quiet
  BY <1>1, <1>3, <1>QuietAppend, Zenon
<1>4. ASSUME NEW e, AppendEvent(e, [call EXCEPT ![c] = Idle]) PROVE Quiet
  BY <1>1, <1>2, <1>4, <1>QuietLast, Zenon
<1>5. ASSUME Ends(c) PROVE Quiet
  BY <1>1, <1>5, <1>QuietEnds, Zenon
<1>6. ASSUME NEW q, q.pc # "compare", call' = [call EXCEPT ![c] = q] PROVE Quiet
  BY <1>1, <1>6, <1>QuietCall, Zenon
<1>7. CASE MintPAT(c) \/ CreateSCIMProvider(c) \/ RecordInventory(c) \/ MintLogin(c)
  BY <1>3, <1>7, Zenon DEF MintPAT, CreateSCIMProvider, RecordInventory, MintLogin,
     AppendEventWithVersion
<1>8. CASE mutate(c) \/ AppendPending(c)
  <2>1. \/ \E e : AppendEvent(e, [call EXCEPT ![c] = Idle])
        \/ Ends(c)
    BY <1>8, Zenon DEF mutate, AppendPending, Pinned
  <2> QED
    BY <1>4, <1>5, <2>1, Zenon
<1>9. CASE authorize(c)
  <2>1. PICK r, s, expected, todo, reached :
          call' = [call EXCEPT ![c] = [pc |-> "crud", request |-> r, scope |-> s,
                     expected |-> expected, todo |-> todo, reached |-> reached]]
    BY <1>9, Zenon DEF authorize
  <2> DEFINE q == [pc |-> "crud", request |-> r, scope |-> s, expected |-> expected,
                   todo |-> todo, reached |-> reached]
  <2>2. q.pc # "compare" /\ call' = [call EXCEPT ![c] = q]
    BY <2>1, Zenon
  <2> HIDE DEF q
  <2> QED
    BY <1>6, <2>2, Zenon
<1>10. CASE validateDomainMutationScope(c)
  <2> DEFINE q == [call[c] EXCEPT !.todo = Tail(call[c].todo)]
  <2>1. IsCrud(call[c])
    BY <1>10, Zenon DEF validateDomainMutationScope, CrudCalls
  <2>2. q.pc = "crud"
    BY <2>1 DEF IsCrud
  <2>3. call' = [call EXCEPT ![c] = q] \/ call' = [call EXCEPT ![c] = Idle]
    BY <1>10, Zenon DEF validateDomainMutationScope
  <2> HIDE DEF q
  <2>4. q.pc # "compare" /\ Idle.pc # "compare"
    BY <1>2, <2>2
  <2> QED
    BY <1>6, <2>3, <2>4, Zenon
<1>11. CASE RevokePAT(c) \/ RotateSCIMProvider(c) \/ DisableSCIMProviderCall(c)
  <2>1. PICK e, version : call' = [call EXCEPT ![c] = [pc |-> "append", event |-> e, version |-> version]]
    BY <1>11, Zenon DEF RevokePAT, RotateSCIMProvider, DisableSCIMProviderCall, Pending
  <2> DEFINE q == [pc |-> "append", event |-> e, version |-> version]
  <2>2. q.pc # "compare" /\ call' = [call EXCEPT ![c] = q]
    BY <2>1, Zenon
  <2> HIDE DEF q
  <2> QED
    BY <1>6, <2>2, Zenon
<1>12. CASE ConsumeLogin(c)
  <2>1. PICK l, version, u :
          call' = [call EXCEPT ![c] = [pc |-> "spend", login |-> l, version |-> version, user |-> u]]
    BY <1>12, Zenon DEF ConsumeLogin
  <2> DEFINE q == [pc |-> "spend", login |-> l, version |-> version, user |-> u]
  <2>2. q.pc # "compare" /\ call' = [call EXCEPT ![c] = q]
    BY <2>1, Zenon
  <2> HIDE DEF q
  <2> QED
    BY <1>6, <2>2, Zenon
<1>13. CASE StartSession(c) \/ StoreOIDCLoginState(c)
  BY <1>2, <1>6, <1>13, Zenon DEF StartSession, StoreOIDCLoginState
<1>14. CASE StartOIDC(c) \/ CompleteOIDC(c)
  <2>1. PICK s, p :
          \/ call' = [call EXCEPT ![c] = [pc |-> "bind", provider |-> p]]
          \/ call' = [call EXCEPT ![c] = [pc |-> "exchange", state |-> s, provider |-> p]]
          \/ call' = [call EXCEPT ![c] = Idle]
    BY <1>14, Zenon DEF StartOIDC, CompleteOIDC
  <2> DEFINE bind == [pc |-> "bind", provider |-> p]
             exchange == [pc |-> "exchange", state |-> s, provider |-> p]
  <2>2. bind.pc # "compare" /\ exchange.pc # "compare" /\ Idle.pc # "compare"
    BY <1>2, Zenon
  <2>3. \E q \in {bind, exchange, Idle} : call' = [call EXCEPT ![c] = q]
    BY <2>1, Zenon
  <2> HIDE DEF bind, exchange
  <2> QED
    BY <1>6, <2>2, <2>3, Zenon
<1>16. CASE ExchangeOIDC(c)
  <2>1. \A from, u : SessionFor(from, u).pc # "compare"
    BY Zenon DEF SessionFor
  <2>2. \/ \E from, u : call' = [call EXCEPT ![c] = SessionFor(from, u)]
        \/ call' = [call EXCEPT ![c] = Idle]
    BY <1>16, Zenon DEF ExchangeOIDC
  <2> QED
    BY <1>2, <1>6, <2>1, <2>2, Zenon
<1>15. CASE SpendLogin(c)
  <2>1. \A from, u : SessionFor(from, u).pc \notin {"crud", "compare"}
    BY Zenon DEF SessionFor
  <2>2. \/ \E e, from, u : AppendEvent(e, [call EXCEPT ![c] = SessionFor(from, u)])
        \/ Ends(c)
    BY <1>15, Zenon DEF SpendLogin
  <2>3. ASSUME NEW e, NEW from, NEW u, AppendEvent(e, [call EXCEPT ![c] = SessionFor(from, u)])
        PROVE  Quiet
    <3> DEFINE q == SessionFor(from, u)
    <3>1. q.pc \notin {"crud", "compare"} /\ AppendEvent(e, [call EXCEPT ![c] = q])
      BY <2>1, <2>3, Zenon
    <3> HIDE DEF q
    <3> QED
      BY <1>1, <3>1, <1>QuietLast, Zenon
  <2> QED
    BY <1>5, <2>2, <2>3, Zenon
<1> QED
  BY <1>7, <1>8, <1>9, <1>10, <1>11, <1>12, <1>13, <1>14, <1>15,
     <1>16, Zenon DEF Other

\* The outputs keep their limits, and a truncated one is not written.
LEMMA OutputsStep ==
  ASSUME OutputsOK, NEW c \in Callers,
         BindExecutionOutputToDevice(c) \/ AppendExecutionOutput(c)
  PROVE  /\ OutputsOK'
         /\ \A x \in Executions : outputs[x] # NoRow /\ outputs[x].truncated
                                    => outputs'[x] = outputs[x]
\* The sum of no chunks, of one more chunk, and what Total computes.
<1>NothingSummed.
    Summed(<<>>, 0)
  <2>1. Len(<<>>) = 0 /\ 0 .. 0 = {0}
    OBVIOUS
  <2>2. Adds(<<>>, [n \in 0 .. 0 |-> 0])
    BY <2>1 DEF Adds
  <2>3. ASSUME NEW f, Adds(<<>>, f) PROVE f[0] = 0
    BY <2>1, <2>3 DEF Adds
  <2> QED
    BY <2>1, <2>2, <2>3, Zenon DEF Summed
<1>OneMoreSummed.
    ASSUME NEW s \in Seq(Nat), NEW total \in Nat, NEW n \in Nat, Summed(s, total)
    PROVE  Summed(Append(s, n), total + n)
  <2> USE <1>OneMoreSummed
  <2> DEFINE m == Len(s)
             new == Append(s, n)
  <2>1. /\ m \in Nat /\ Len(new) = m + 1 /\ new[m + 1] = n
        /\ \A i \in 1 .. m : new[i] = s[i]
    OBVIOUS
  <2> HIDE DEF m, new
  <2>2. PICK f : Adds(s, f)
    BY Zenon DEF Summed
  <2>3. f[m] = total
    BY <2>2, Zenon DEF Summed, m
  <2> DEFINE g == [i \in 0 .. m + 1 |-> IF i = m + 1 THEN total + n ELSE f[i]]
  <2>4. Adds(new, g)
    <3>1. ASSUME NEW i \in 0 .. m + 1
          PROVE  g[i] = IF i = 0 THEN 0 ELSE g[i - 1] + new[i]
      <4>1. CASE i = m + 1
        BY <2>1, <2>3, <4>1
      <4>2. CASE i # m + 1
        <5>1. i \in 0 .. m /\ g[i] = f[i] /\ (i # 0 => i \in 1 .. m /\ g[i - 1] = f[i - 1])
          BY <2>1, <4>2
        <5>2. f[i] = IF i = 0 THEN 0 ELSE f[i - 1] + s[i]
          BY <2>2, <5>1, Zenon DEF Adds, m
        <5> QED
          BY <2>1, <5>1, <5>2
      <4> QED
        BY <4>1, <4>2
    <3>2. g = [i \in 0 .. Len(new) |-> IF i = 0 THEN 0 ELSE g[i - 1] + new[i]]
      BY <2>1, <3>1
    <3> QED
      BY <3>2, Zenon DEF Adds
  <2>5. ASSUME NEW h, Adds(new, h)
        PROVE  h[m + 1] = total + n
    <3>1. h = [i \in 0 .. m + 1 |-> IF i = 0 THEN 0 ELSE h[i - 1] + new[i]]
      BY <2>1, <2>5, Zenon DEF Adds
    <3> DEFINE k == [i \in 0 .. m |-> h[i]]
    <3>2. ASSUME NEW i \in 0 .. m
          PROVE  k[i] = IF i = 0 THEN 0 ELSE k[i - 1] + s[i]
      BY <2>1, <3>1
    <3>3. k = [i \in 0 .. m |-> IF i = 0 THEN 0 ELSE k[i - 1] + s[i]]
      BY <3>2
    <3>4. k[m] = total
      BY <3>3, Zenon DEF Summed, Adds, m
    <3> QED
      BY <2>1, <3>1, <3>4
  <2> QED
    BY <2>1, <2>4, <2>5, Zenon DEF Summed, new
<1>1. CASE BindExecutionOutputToDevice(c)
  <2>1. PICK x \in Executions, d \in Devices :
          /\ outputs[x] = NoRow
          /\ outputs' = [outputs EXCEPT ![x] = [device |-> d, stored |-> <<>>, bytes |-> 0,
                                                truncated |-> FALSE]]
    BY <1>1, Zenon DEF BindExecutionOutputToDevice
  <2> DEFINE o == [device |-> d, stored |-> <<>>, bytes |-> 0, truncated |-> FALSE]
  <2>2. OutputOK(o)
    BY <1>NothingSummed, LimitsAssumption DEF OutputOK
  <2> HIDE DEF o
  <2>3. outputs' = [y \in Executions |-> IF y = x THEN o ELSE outputs[y]]
    BY <2>1, Zenon DEF OutputsOK, o
  <2> QED
    BY <2>1, <2>2, <2>3, Zenon DEF OutputsOK
<1>2. CASE AppendExecutionOutput(c)
  <2>1. PICK x \in Executions, n \in ChunkSizes :
          /\ outputs[x] # NoRow /\ ~outputs[x].truncated
          /\ outputs' = [outputs EXCEPT ![x] =
               IF OverLimit(outputs[x], n) THEN [outputs[x] EXCEPT !.truncated = TRUE]
               ELSE [outputs[x] EXCEPT !.stored = Append(@, n), !.bytes = @ + n]]
    BY <1>2, Zenon DEF AppendExecutionOutput
  <2> DEFINE o == outputs[x]
             new == IF OverLimit(o, n) THEN [o EXCEPT !.truncated = TRUE]
                    ELSE [o EXCEPT !.stored = Append(@, n), !.bytes = @ + n]
  <2>2. outputs' = [y \in Executions |-> IF y = x THEN new ELSE outputs[y]]
    BY <2>1, Zenon DEF OutputsOK
  <2>3. OutputOK(o)
    BY <2>1, Zenon DEF OutputsOK
  <2> HIDE DEF o
  <2>4. /\ o = [device |-> o.device, stored |-> o.stored, bytes |-> o.bytes,
                truncated |-> o.truncated]
        /\ o.stored \in Seq(Nat) /\ Len(o.stored) <= MaxChunks
        /\ o.bytes \in Nat /\ o.bytes <= MaxBytes /\ Summed(o.stored, o.bytes)
    BY <2>3, Zenon DEF OutputOK
  <2>5. CASE OverLimit(o, n)
    <3>1. new = [device |-> o.device, stored |-> o.stored, bytes |-> o.bytes, truncated |-> TRUE]
      BY <2>4, <2>5
    <3> HIDE DEF new
    <3>2. /\ new = [device |-> new.device, stored |-> new.stored, bytes |-> new.bytes,
                    truncated |-> new.truncated]
          /\ new.stored = o.stored /\ new.bytes = o.bytes
      BY <3>1
    <3>3. OutputOK(new)
      BY <2>4, <3>2, Zenon DEF OutputOK
    <3> QED
      BY <2>1, <2>2, <3>3, Zenon DEF OutputsOK
  <2>6. CASE ~OverLimit(o, n)
    <3>0. n \in Nat
      BY LimitsAssumption, Zenon
    <3>1. new = [device |-> o.device, stored |-> Append(o.stored, n), bytes |-> o.bytes + n,
                 truncated |-> o.truncated]
      BY <2>4, <2>6
    <3>2. ~(o.bytes + n > MaxBytes) /\ ~(Len(o.stored) >= MaxChunks)
      BY <2>6, Zenon DEF OverLimit
    <3>3. /\ Append(o.stored, n) \in Seq(Nat) /\ Len(Append(o.stored, n)) <= MaxChunks
          /\ o.bytes + n \in Nat /\ o.bytes + n <= MaxBytes
      BY <2>4, <3>0, <3>2, LimitsAssumption
    <3>4. Summed(Append(o.stored, n), o.bytes + n)
      BY <2>4, <3>0, <1>OneMoreSummed, Zenon
    <3> HIDE DEF new
    <3>5. /\ new = [device |-> new.device, stored |-> new.stored, bytes |-> new.bytes,
                    truncated |-> new.truncated]
          /\ new.stored = Append(o.stored, n) /\ new.bytes = o.bytes + n
      BY <3>1
    <3>6. OutputOK(new)
      BY <3>3, <3>4, <3>5, Zenon DEF OutputOK
    <3> QED
      BY <2>1, <2>2, <3>6, Zenon DEF OutputsOK
  <2> QED
    BY <2>5, <2>6
<1> QED
  BY <1>1, <1>2

-----------------------------------------------------------------------------
(* Projectors *)

\* A stream is of one type, so its type's projectors handle its events.
LEMMA Dispatch ==
  ASSUME NEW t, NEW e
  PROVE  /\ e.stream \in Actions => project(t, e) = actionEventDefinitions(t, e)
         /\ e.stream \in ActionSets => project(t, e) = actionSetEventDefinitions(t, e)
         /\ e.stream \in Assignments => project(t, e) = assignmentEventDefinitions(t, e)
         /\ e.stream \in Policies => project(t, e) = compliancePolicyEventDefinitions(t, e)
         /\ e.stream \in Settings => project(t, e) = serverSettingEventDefinitions(t, e)
         /\ e.stream \in DeviceGroups => project(t, e) = deviceGroupEventDefinitions(t, e)
         /\ e.stream \in Devices => project(t, e) = deviceEventDefinitions(t, e)
         /\ e.stream \in Inventories => project(t, e) = inventoryEventDefinitions(t, e)
         /\ e.stream \in Users => project(t, e) = userEventDefinitions(t, e)
         /\ e.stream \in Tokens => project(t, e) = personalAccessTokenEventDefinitions(t, e)
         /\ e.stream \in OIDCProviders => project(t, e) = oidcProviderConfigEventDefinitions(t, e)
         /\ e.stream \in SCIMProviders => project(t, e) = scimProviderEventDefinitions(t, e)
         /\ e.stream \in Logins => project(t, e) = bootstrapLoginEventDefinitions(t, e)
BY StreamTypesAssumption, Zenon DEF project

\* Which types of events the projectors of each type of object know.
LEMMA EventTypes ==
  ASSUME NEW e, Fits(e)
  PROVE  /\ e.stream \in Actions => e.type \in
              {"ManagedActionCreated", "ManagedActionUpdated", "ManagedActionDeleted"}
         /\ e.stream \in ActionSets => e.type \in
              {"ManagedActionSetCreated", "ManagedActionSetUpdated", "ManagedActionSetDeleted"}
         /\ e.stream \in Policies => e.type \in
              {"CompliancePolicyCreated", "CompliancePolicyUpdated", "CompliancePolicyDeleted"}
         /\ e.stream \in Settings => e.type \in
              {"ServerSettingCreated", "ServerSettingUpdated", "ServerSettingDeleted"}
         /\ e.stream \in DeviceGroups => e.type \in
              {"DeviceGroupCreated", "DeviceGroupUpdated", "DeviceGroupDeleted"}
         /\ e.stream \in Devices => e.type \in
              {"AgentOwnerUpdated", "AgentDeleted"}
         /\ e.stream \in Inventories => e.type \in
              {"InventorySnapshot", "InventoryTombstone"}
         /\ e.stream \in OIDCProviders => e.type \in
              {"OIDCProviderCreated", "OIDCProviderUpdated", "OIDCProviderDeleted"}
         /\ e.stream \in SCIMProviders => e.type \in
              {"SCIMProviderCreated", "SCIMProviderTokenRotated", "SCIMProviderDisabled", "SCIMProviderDeleted"}
         /\ e.stream \in Assignments => e.type \in
              {"AssignmentCreated", "AssignmentDeleted"}
         /\ e.stream \in Users => e.type \in
              {"UserManagedDeleted"}
BY StreamTypesAssumption, Zenon DEF Fits

\* What every projector keeps to: it changes the row of its own stream only, and
\* gives a stream without a row one at the stream's first event only.
Frame(t, e, out) == out.table = [k \in Streams |-> IF k = e.stream THEN out.table[k] ELSE t[k]]
Keeps(t, e, out) ==
  /\ Frame(t, e, out)
  /\ out.ok /\ t[e.stream] = NoRow /\ out.table[e.stream] # NoRow => e.version = 1

\* A creation, a replacement and a deletion keep to it, whatever the data.
LEMMA FirstInsert ==
  ASSUME NEW t, t = [k \in Streams |-> t[k]], NEW e, e.stream \in Streams, NEW data
  PROVE  Keeps(t, e, First(t, e, Insert(t, e, data)))
BY Zenon DEF Keeps, Frame, First, Insert, Outcome, Refused, Live

\* An update or any other replacement of a row.
LEMMA LaterReplace ==
  ASSUME NEW t, t = [k \in Streams |-> t[k]], NEW e, e.stream \in Streams, NEW data
  PROVE  Keeps(t, e, Later(t, e, Replace(t, e, data)))
BY Zenon DEF Keeps, Frame, Later, Replace, AtPrevious, Outcome, Refused, Live

\* A deletion.
LEMMA LaterDelete ==
  ASSUME NEW t, t = [k \in Streams |-> t[k]], NEW e, e.stream \in Streams
  PROVE  Keeps(t, e, Later(t, e, Delete(t, e)))
BY Zenon DEF Keeps, Frame, Later, Delete, AtPrevious, Outcome, Refused, Live

\* The row that a creation and a replacement leave where they are accepted, and
\* the table they leave alone where they are not.
LEMMA InsertRow ==
  ASSUME NEW t, t = [k \in Streams |-> t[k]], NEW e, e.stream \in Streams, NEW data
  PROVE  LET out == First(t, e, Insert(t, e, data)) IN
         IF e.version = 1 /\ ~Live(t, e.stream)
         THEN out.table[e.stream] = Row(e.version, data)
         ELSE out.table = t
<1>1. CASE e.version = 1 /\ ~Live(t, e.stream)
  <2>1. First(t, e, Insert(t, e, data)).table = [t EXCEPT ![e.stream] = Row(e.version, data)]
    BY <1>1, Zenon DEF First, Insert, Outcome
  <2> QED
    BY <1>1, <2>1, Zenon
<1>2. CASE ~(e.version = 1 /\ ~Live(t, e.stream))
  BY <1>2, Zenon DEF First, Insert, Outcome, Refused
<1> QED
  BY <1>1, <1>2, Zenon

\* The same of a replacement.
LEMMA ReplaceRow ==
  ASSUME NEW t, t = [k \in Streams |-> t[k]], NEW e, e.stream \in Streams, NEW data
  PROVE  LET out == Later(t, e, Replace(t, e, data)) IN
         IF e.version > 1 /\ AtPrevious(t, e)
         THEN out.table[e.stream] = Row(e.version, data)
         ELSE out.table = t
<1>1. CASE e.version > 1 /\ AtPrevious(t, e)
  <2>1. Later(t, e, Replace(t, e, data)).table = [t EXCEPT ![e.stream] = Row(e.version, data)]
    BY <1>1, Zenon DEF Later, Replace, Outcome
  <2> QED
    BY <1>1, <2>1, Zenon
<1>2. CASE ~(e.version > 1 /\ AtPrevious(t, e))
  BY <1>2, Zenon DEF Later, Replace, Outcome, Refused
<1> QED
  BY <1>1, <1>2, Zenon

\* A refusal keeps to it as well.
LEMMA RefusedKeeps ==
  ASSUME NEW t, t = [k \in Streams |-> t[k]], NEW e
  PROVE  Keeps(t, e, Refused(t))
BY Zenon DEF Keeps, Frame, Outcome, Refused

\* The projectors of the objects the kernel alone changes.
LEMMA KernelProjectors ==
  ASSUME NEW t, t = [k \in Streams |-> t[k]], NEW e, Fits(e),
         e.stream \in Actions \cup ActionSets \cup Assignments \cup Policies \cup Settings
                       \cup DeviceGroups \cup Devices \cup Users \cup OIDCProviders
  PROVE  Keeps(t, e, project(t, e))
<1>1. e.stream \in Streams
  BY Zenon DEF Streams
<1>2. CASE e.stream \in Actions
  <2>1. /\ project(t, e) = actionEventDefinitions(t, e)
        /\ e.type \in {"ManagedActionCreated", "ManagedActionUpdated", "ManagedActionDeleted"}
    BY <1>2, Dispatch, EventTypes, Zenon
  <2> QED
    BY <1>1, <2>1, FirstInsert, LaterReplace, LaterDelete
       DEF actionEventDefinitions, projectManagedActionCreate, InsertManagedAction,
           projectManagedActionUpdate, ReplaceManagedAction, projectManagedActionDelete,
           DeleteManagedAction
<1>3. CASE e.stream \in ActionSets
  <2>1. /\ project(t, e) = actionSetEventDefinitions(t, e)
        /\ e.type \in {"ManagedActionSetCreated", "ManagedActionSetUpdated", "ManagedActionSetDeleted"}
    BY <1>3, Dispatch, EventTypes, Zenon
  <2> QED
    BY <1>1, <2>1, FirstInsert, LaterReplace, LaterDelete
       DEF actionSetEventDefinitions, projectManagedActionSetCreate,
           InsertManagedActionSet, projectManagedActionSetUpdate, ReplaceManagedActionSet,
           projectManagedActionSetDelete, DeleteManagedActionSet
<1>4. CASE e.stream \in Assignments
  <2>1. /\ project(t, e) = assignmentEventDefinitions(t, e)
        /\ e.type \in {"AssignmentCreated", "AssignmentDeleted"}
    BY <1>4, Dispatch, EventTypes, Zenon
  <2> QED
    BY <1>1, <2>1, FirstInsert, LaterReplace, LaterDelete
       DEF assignmentEventDefinitions, projectAssignmentCreate, InsertAssignment,
           projectAssignmentDelete, DeleteAssignment
<1>5. CASE e.stream \in Policies
  <2>1. /\ project(t, e) = compliancePolicyEventDefinitions(t, e)
        /\ e.type \in {"CompliancePolicyCreated", "CompliancePolicyUpdated", "CompliancePolicyDeleted"}
    BY <1>5, Dispatch, EventTypes, Zenon
  <2> QED
    BY <1>1, <2>1, FirstInsert, LaterReplace, LaterDelete
       DEF compliancePolicyEventDefinitions, projectCompliancePolicyCreate,
           InsertCompliancePolicy, projectCompliancePolicyUpdate, ReplaceCompliancePolicy,
           projectCompliancePolicyDelete, DeleteCompliancePolicy
<1>6. CASE e.stream \in Settings
  <2>1. /\ project(t, e) = serverSettingEventDefinitions(t, e)
        /\ e.type \in {"ServerSettingCreated", "ServerSettingUpdated", "ServerSettingDeleted"}
    BY <1>6, Dispatch, EventTypes, Zenon
  <2> QED
    BY <1>1, <2>1, FirstInsert, LaterReplace, LaterDelete
       DEF serverSettingEventDefinitions, projectServerSettingCreate,
           InsertServerSetting, projectServerSettingUpdate, ReplaceServerSetting,
           projectServerSettingDelete, DeleteServerSetting
<1>7. CASE e.stream \in DeviceGroups
  <2>1. /\ project(t, e) = deviceGroupEventDefinitions(t, e)
        /\ e.type \in {"DeviceGroupCreated", "DeviceGroupUpdated", "DeviceGroupDeleted"}
    BY <1>7, Dispatch, EventTypes, Zenon
  <2> QED
    BY <1>1, <2>1, FirstInsert, LaterReplace, LaterDelete
       DEF deviceGroupEventDefinitions, projectDeviceGroupCreated, InsertDeviceGroup,
           projectDeviceGroupUpdated, ReplaceDeviceGroup, projectDeviceGroupDeleted,
           DeleteDeviceGroup
<1>8. CASE e.stream \in Devices
  <2>1. /\ project(t, e) = deviceEventDefinitions(t, e)
        /\ e.type \in {"AgentOwnerUpdated", "AgentDeleted"}
    BY <1>8, Dispatch, EventTypes, Zenon
  <2> QED
    BY <1>1, <2>1, FirstInsert, LaterReplace, LaterDelete
       DEF deviceEventDefinitions, projectAgentOwnerUpdate, projectAgentDeletion
<1>9. CASE e.stream \in Users
  <2>1. /\ project(t, e) = userEventDefinitions(t, e)
        /\ e.type \in {"UserManagedDeleted"}
    BY <1>9, Dispatch, EventTypes, Zenon
  <2> QED
    BY <1>1, <2>1, FirstInsert, LaterReplace, LaterDelete
       DEF userEventDefinitions, projectManagedUserDeletion
<1>10. CASE e.stream \in OIDCProviders
  <2>1. e.type \in {"OIDCProviderCreated", "OIDCProviderUpdated", "OIDCProviderDeleted"}
    BY <1>10, EventTypes, Zenon
  <2>2. project(t, e) = oidcProviderConfigEventDefinitions(t, e)
    BY <1>10, Dispatch, Zenon
  <2>3. CASE e.type = "OIDCProviderCreated"
    BY <1>1, <2>2, <2>3, FirstInsert, Zenon DEF oidcProviderConfigEventDefinitions, projectOIDCProviderConfigCreate,
                      InsertOIDCProviderConfig
  <2>4. CASE e.type = "OIDCProviderUpdated"
    BY <1>1, <2>2, <2>4, LaterReplace, Zenon DEF oidcProviderConfigEventDefinitions, projectOIDCProviderConfigUpdate,
                      ReplaceOIDCProviderConfig
  <2>5. CASE e.type = "OIDCProviderDeleted"
    BY <1>1, <2>2, <2>5, LaterDelete, Zenon DEF oidcProviderConfigEventDefinitions, projectOIDCProviderConfigDelete,
                      DeleteOIDCProviderConfig
  <2> QED
    BY <2>1, <2>3, <2>4, <2>5, Zenon
<1> QED
  BY <1>2, <1>3, <1>4, <1>5, <1>6, <1>7, <1>8, <1>9, <1>10, Zenon

\* The projectors of API tokens.  A revoked token stays revoked while it has a
\* row: a mint finds the row, an update keeps the flag, a deletion removes the row.
LEMMA TokenProjectors ==
  ASSUME NEW t, IsTable(t), NEW e, Fits(e), e.stream \in Tokens, e.version \in Nat,
         NEW out, out = project(t, e)
  PROVE  /\ Keeps(t, e, out)
         /\ out.table[e.stream] # NoRow => out.table[e.stream] \in Rows(TokenData)
         /\ t[e.stream] # NoRow /\ t[e.stream].data.revoked /\ out.table[e.stream] # NoRow
              => out.table[e.stream].data.revoked
<1> DEFINE k == e.stream
<1>1. k \in Streams /\ t = [j \in Streams |-> t[j]]
  BY Zenon DEF Streams, IsTable
<1>2. t[k] # NoRow
        => /\ t[k] \in Rows(TokenData) /\ t[k].data \in TokenData
           /\ t[k].data.revoked \in BOOLEAN /\ t[k].data.subject \in Users
           /\ t[k].version \in Nat
  BY Zenon DEF IsTable, Live, Rows, TokenData
<1>3. out = personalAccessTokenEventDefinitions(t, e)
  BY Dispatch, Zenon
<1>4. CASE out = Refused(t)
  <2>1. out.table = t
    BY <1>4 DEF Refused, Outcome
  <2> QED
    BY <1>1, <1>2, <1>4, <2>1, RefusedKeeps, Zenon
<1>5. CASE e.type = "PersonalAccessTokenMinted"
  <2>1. out = First(t, e, Insert(t, e, e.arg)) /\ e.arg \in TokenData
    BY <1>3, <1>5, StreamTypesAssumption, Zenon
       DEF Fits, personalAccessTokenEventDefinitions, projectPersonalAccessTokenMint,
           InsertPersonalAccessToken
  <2>2. Keeps(t, e, out)
    BY <1>1, <2>1, FirstInsert, Zenon
  <2>3. CASE e.version = 1 /\ ~Live(t, k)
    <3>1. out.table[k] = Row(e.version, e.arg)
      BY <1>1, <2>1, <2>3, InsertRow
    <3>2. out.table[k] \in Rows(TokenData)
      BY <2>1, <3>1 DEF Row, Rows
    <3> QED
      BY <2>2, <2>3, <3>2, Zenon DEF Live
  <2>4. CASE ~(e.version = 1 /\ ~Live(t, k))
    <3>1. out.table = t
      BY <1>1, <2>1, <2>4, InsertRow
    <3> QED
      BY <1>2, <2>2, <3>1, Zenon
  <2> QED
    BY <2>3, <2>4, Zenon
<1>6. CASE e.type = "PersonalAccessTokenUpdated"
  <2> DEFINE data == [t[k].data EXCEPT !.revoked = @ \/ e.arg.revoked]
  <2>1. e.arg \in TokenData /\ e.arg.revoked \in BOOLEAN
    BY <1>6, StreamTypesAssumption, Zenon DEF Fits, TokenData
  <2>2. out = Refused(t) \/ out = Later(t, e, Replace(t, e, data))
    BY <1>3, <1>6, Zenon
       DEF personalAccessTokenEventDefinitions, projectPersonalAccessTokenUpdate,
           ReplacePersonalAccessTokenMetadata
  <2>3. CASE out = Later(t, e, Replace(t, e, data))
    <3>1. Keeps(t, e, out)
      BY <1>1, <2>3, LaterReplace
    <3>2. CASE e.version > 1 /\ AtPrevious(t, e)
      <4>1. out.table[k] = Row(e.version, data)
        BY <1>1, <2>3, <3>2, ReplaceRow
      <4>2. data \in TokenData /\ (t[k].data.revoked => data.revoked)
        BY <1>2, <2>1, <3>2, Zenon DEF AtPrevious, Live, TokenData
      <4> HIDE DEF data
      <4>3. out.table[k] \in Rows(TokenData) /\ out.table[k].data = data
        BY <4>1, <4>2 DEF Row, Rows
      <4> QED
        BY <3>1, <4>2, <4>3, Zenon
    <3>3. CASE ~(e.version > 1 /\ AtPrevious(t, e))
      <4>1. out.table = t
        BY <1>1, <2>3, <3>3, ReplaceRow
      <4> QED
        BY <1>2, <3>1, <4>1
    <3> QED
      BY <3>2, <3>3, Zenon
  <2> QED
    BY <1>4, <2>2, <2>3, Zenon
<1>7. CASE e.type = "PersonalAccessTokenRevoked"
  <2>1. CASE out = Refused(t)
    BY <1>4, <2>1, Zenon
  <2>2. CASE out # Refused(t)
    <3>1. /\ AtPrevious(t, e)
          /\ out = Outcome(~t[k].data.revoked /\ t[k].version < e.version, t,
                           [t EXCEPT ![k] = Row(e.version, [@.data EXCEPT !.revoked = TRUE])])
      BY <1>3, <1>7, <2>2, Zenon
         DEF personalAccessTokenEventDefinitions, projectPersonalAccessTokenRevocation, Later,
             ProjectPersonalAccessTokenRevocation
    <3> DEFINE data == [t[k].data EXCEPT !.revoked = TRUE]
    <3>2. t[k] # NoRow /\ data \in TokenData /\ data.revoked
      BY <1>2, <3>1, Zenon DEF AtPrevious, Live, TokenData
    <3>3. out.table = t \/ out.table = [t EXCEPT ![k] = Row(e.version, data)]
      BY <1>1, <3>1 DEF Outcome
    <3> HIDE DEF data
    <3>4. CASE out.table = t
      BY <1>1, <1>2, <3>2, <3>4, Zenon DEF Keeps, Frame
    <3>5. CASE out.table = [t EXCEPT ![k] = Row(e.version, data)]
      <4>1. out.table[k] = Row(e.version, data)
        BY <1>1, <3>5, Zenon
      <4>2. out.table[k] \in Rows(TokenData) /\ out.table[k].data = data
        BY <3>2, <4>1 DEF Row, Rows
      <4>3. Keeps(t, e, out)
        BY <1>1, <3>2, <3>5, Zenon DEF Keeps, Frame
      <4> QED
        BY <3>2, <4>2, <4>3, Zenon
    <3> QED
      BY <3>3, <3>4, <3>5, Zenon
  <2> QED
    BY <2>1, <2>2, Zenon
<1>8. CASE e.type = "PersonalAccessTokenDeleted"
  <2>1. out = Later(t, e, Delete(t, e))
    BY <1>3, <1>8, Zenon
       DEF personalAccessTokenEventDefinitions, projectPersonalAccessTokenDelete,
           DeletePersonalAccessTokenProjection
  <2>2. Keeps(t, e, out)
    BY <1>1, <2>1, LaterDelete, Zenon
  <2>3. out.table[k] = NoRow \/ out.table = t
    BY <1>1, <2>1 DEF Later, Delete, Outcome, Refused
  <2> QED
    BY <1>2, <2>2, <2>3, Zenon
<1> QED
  BY <1>5, <1>6, <1>7, <1>8, StreamTypesAssumption, Zenon DEF Fits

\* The projector of an assignment stores the target its event names.
LEMMA AssignmentProjectors ==
  ASSUME NEW t, IsTable(t), NEW e, Fits(e), e.stream \in Assignments,
         NEW out, out = project(t, e)
  PROVE  out.table[e.stream] # NoRow => out.table[e.stream].data.target \in Targets
<1> DEFINE k == e.stream
<1>1. k \in Streams /\ t = [j \in Streams |-> t[j]]
  BY Zenon DEF Streams, IsTable
<1>2. t[k] # NoRow => t[k].data.target \in Targets
  BY Zenon DEF IsTable, Live
<1>3. out = assignmentEventDefinitions(t, e)
  BY Dispatch, Zenon
<1>4. CASE e.type = "AssignmentCreated"
  <2>1. out = First(t, e, Insert(t, e, e.arg)) /\ e.arg.target \in Targets
    BY <1>3, <1>4, StreamTypesAssumption, Zenon
       DEF Fits, assignmentEventDefinitions, projectAssignmentCreate, InsertAssignment
  <2>2. out.table[k] = Row(e.version, e.arg) \/ out.table = t
    BY <1>1, <2>1, InsertRow
  <2> QED
    BY <1>2, <2>1, <2>2 DEF Row
<1>5. CASE e.type = "AssignmentDeleted"
  <2>1. out = Later(t, e, Delete(t, e))
    BY <1>3, <1>5, Zenon DEF assignmentEventDefinitions, projectAssignmentDelete, DeleteAssignment
  <2>2. out.table[k] = NoRow \/ out.table = t
    BY <1>1, <2>1 DEF Later, Delete, Outcome, Refused
  <2> QED
    BY <1>2, <2>2, Zenon
<1> QED
  BY <1>4, <1>5, StreamTypesAssumption, Zenon DEF Fits

\* An inventory event leaves its stream with a row.
LEMMA InventoryProjectors ==
  ASSUME NEW t, IsTable(t), NEW e, Fits(e), e.stream \in Inventories, e.version \in Nat,
         NEW out, out = project(t, e)
  PROVE  Frame(t, e, out) /\ out.table[e.stream] # NoRow
<1> DEFINE k == e.stream
<1>1. k \in Streams /\ t = [j \in Streams |-> t[j]]
  BY Zenon DEF Streams, IsTable
<1>2. out = inventoryEventDefinitions(t, e)
  BY Dispatch, Zenon
<1>3. PICK deleted \in BOOLEAN : out = Upsert(t, e, deleted)
  BY <1>2, StreamTypesAssumption, Zenon
     DEF Fits, inventoryEventDefinitions, projectInventorySnapshot, projectInventoryTombstone,
         UpsertInventorySnapshot, UpsertInventoryTombstone
<1>4. Row(e.version, [deleted |-> deleted]) # NoRow
  BY ResourcesAssumption DEF Row, Rows
<1>5. CASE out.table = t /\ t[k] # NoRow
  BY <1>1, <1>5, Zenon DEF Frame
<1>6. CASE out.table = [t EXCEPT ![k] = Row(e.version, [deleted |-> deleted])]
  <2>1. out.table[k] = Row(e.version, [deleted |-> deleted])
    BY <1>1, <1>6, Zenon
  <2> QED
    BY <1>1, <1>4, <1>6, <2>1, Zenon DEF Frame
<1> QED
  BY <1>3, <1>5, <1>6 DEF Upsert, Outcome, Live

\* The projectors of break-glass logins.  A spent login never changes again, and
\* an accepted consumption spends one that was not spent.
LEMMA LoginProjectors ==
  ASSUME NEW t, IsTable(t), NEW e, Fits(e), e.stream \in Logins, e.version \in Nat,
         NEW out, out = project(t, e)
  PROVE  /\ Keeps(t, e, out)
         /\ out.table[e.stream] # NoRow => out.table[e.stream] \in Rows(LoginData)
         /\ t[e.stream] # NoRow /\ t[e.stream].data.consumed => out.table = t
         /\ out.ok /\ e.type = "BootstrapLoginConsumed"
              => /\ t[e.stream] # NoRow /\ ~t[e.stream].data.consumed
                 /\ out.table[e.stream] # NoRow /\ out.table[e.stream].data.consumed
<1> DEFINE k == e.stream
<1>1. k \in Streams /\ t = [j \in Streams |-> t[j]]
  BY Zenon DEF Streams, IsTable
<1>2. t[k] # NoRow => /\ t[k] \in Rows(LoginData) /\ t[k].data \in LoginData
                      /\ t[k].data.consumed \in BOOLEAN
  BY Zenon DEF IsTable, Live, Rows, LoginData
<1>3. out = bootstrapLoginEventDefinitions(t, e)
  BY Dispatch, Zenon
<1>4. CASE out = Refused(t)
  <2>1. out.table = t /\ ~out.ok
    BY <1>4 DEF Refused, Outcome
  <2> QED
    BY <1>1, <1>2, <1>4, <2>1, RefusedKeeps, Zenon
<1>5. CASE e.type = "BootstrapLoginMinted" /\ out # Refused(t)
  <2> DEFINE data == [user |-> e.arg, consumed |-> FALSE]
  <2>1. out = First(t, e, Insert(t, e, data)) /\ e.arg \in Users
    BY <1>3, <1>5, StreamTypesAssumption, Zenon
       DEF Fits, bootstrapLoginEventDefinitions, projectBootstrapLoginMint, InsertBootstrapLogin
  <2>2. data \in LoginData
    BY <2>1, Zenon DEF LoginData
  <2> HIDE DEF data
  <2>3. Keeps(t, e, out)
    BY <1>1, <2>1, FirstInsert, Zenon
  <2>4. CASE e.version = 1 /\ ~Live(t, k)
    <3>1. out.table[k] = Row(e.version, data)
      BY <1>1, <2>1, <2>4, InsertRow
    <3>2. out.table[k] \in Rows(LoginData)
      BY <2>2, <3>1 DEF Row, Rows
    <3> QED
      BY <1>5, <2>3, <2>4, <3>2, Zenon DEF Live
  <2>5. CASE ~(e.version = 1 /\ ~Live(t, k))
    <3>1. out.table = t
      BY <1>1, <2>1, <2>5, InsertRow
    <3> QED
      BY <1>2, <1>5, <2>3, <3>1, Zenon
  <2> QED
    BY <2>4, <2>5, Zenon
<1>6. CASE e.type = "BootstrapLoginConsumed" /\ out # Refused(t)
  <2> DEFINE data == [t[k].data EXCEPT !.consumed = TRUE]
  <2>1. /\ AtPrevious(t, e) /\ e.version > 1
        /\ out = ConsumeBootstrapLogin(t, e)
    BY <1>3, <1>6, Zenon DEF bootstrapLoginEventDefinitions, projectBootstrapLoginConsume, Later
  <2>2. ~t[k].data.consumed /\ out = Replace(t, e, data)
    BY <1>6, <2>1, Zenon DEF ConsumeBootstrapLogin
  <2>3. t[k] # NoRow /\ data \in LoginData /\ data.consumed
    BY <1>2, <2>1, Zenon DEF AtPrevious, Live, LoginData
  <2> HIDE DEF data
  <2>4. out = Later(t, e, Replace(t, e, data))
    BY <2>1, <2>2, Zenon DEF Later
  <2>5. Keeps(t, e, out)
    BY <1>1, <2>4, LaterReplace, Zenon
  <2>6. out.table[k] = Row(e.version, data)
    BY <1>1, <2>1, <2>4, ReplaceRow
  <2>7. out.table[k] \in Rows(LoginData) /\ out.table[k].data = data
    BY <2>3, <2>6 DEF Row, Rows
  <2>8. out.table[k] # NoRow
    BY <2>7, ResourcesAssumption, Zenon
  <2> QED
    BY <2>2, <2>3, <2>5, <2>7, <2>8, Zenon
<1> QED
  BY <1>4, <1>5, <1>6, StreamTypesAssumption, Zenon DEF Fits

\* The projectors of SCIM providers.  A bearer of an earlier version that is not
\* accepted before the event is not accepted after it.
LEMMA ProviderProjectors ==
  ASSUME NEW t, IsTable(t), NEW e, Fits(e), e.stream \in SCIMProviders, e.version \in Nat,
         NEW out, out = project(t, e)
  PROVE  /\ Frame(t, e, out)
         /\ out.table[e.stream] # NoRow => out.table[e.stream] \in Rows(ProviderData)
         /\ \A b \in Nat : b < e.version /\ ~Accepts(t, e.stream, b)
                             => ~Accepts(out.table, e.stream, b)
<1> DEFINE k == e.stream
<1>1. k \in Streams /\ t = [j \in Streams |-> t[j]]
  BY Zenon DEF Streams, IsTable
<1>2. t[k] # NoRow => /\ t[k] \in Rows(ProviderData) /\ t[k].data \in ProviderData
                      /\ t[k].data.bearer \in Nat /\ t[k].data.disabled \in BOOLEAN
  BY Zenon DEF IsTable, Live, Rows, ProviderData
<1>3. out = scimProviderEventDefinitions(t, e)
  BY Dispatch, Zenon
<1>4. CASE out.table = t
  BY <1>1, <1>2, <1>4, Zenon DEF Frame
<1>5. CASE out.table = [t EXCEPT ![k] = NoRow]
  <2>1. out.table[k] = NoRow
    BY <1>1, <1>5, Zenon
  <2> QED
    BY <1>1, <1>5, <2>1, Zenon DEF Frame, Accepts, Live
<1>6. ASSUME NEW data \in ProviderData, out.table = [t EXCEPT ![k] = Row(e.version, data)],
             data.bearer = e.version \/ data.disabled
      PROVE  /\ Frame(t, e, out)
             /\ out.table[k] \in Rows(ProviderData)
             /\ \A b \in Nat : b < e.version /\ ~Accepts(t, k, b) => ~Accepts(out.table, k, b)
  <2>1. out.table[k] = Row(e.version, data)
    BY <1>1, <1>6, Zenon
  <2>2. out.table[k] \in Rows(ProviderData) /\ out.table[k].data = data
    BY <1>6, <2>1 DEF Row, Rows
  <2>3. Frame(t, e, out)
    BY <1>1, <1>6, Zenon DEF Frame
  <2>4. ASSUME NEW b \in Nat, b < e.version, ~Accepts(t, k, b)
        PROVE  ~Accepts(out.table, k, b)
    BY <1>6, <2>2, <2>4 DEF Accepts, Live, ProviderData
  <2> QED
    BY <2>2, <2>3, <2>4, Zenon
<1>7. CASE e.type = "SCIMProviderCreated"
  <2> DEFINE data == [bearer |-> e.version, disabled |-> FALSE]
  <2>1. out = Insert(t, e, data)
    BY <1>3, <1>7, Zenon
       DEF scimProviderEventDefinitions, projectSCIMProviderCreated, InsertSCIMProvider
  <2>2. data \in ProviderData /\ data.bearer = e.version
    BY Zenon DEF ProviderData
  <2> HIDE DEF data
  <2>3. out.table = t \/ out.table = [t EXCEPT ![k] = Row(e.version, data)]
    BY <2>1 DEF Insert, Outcome
  <2> QED
    BY <1>4, <1>6, <2>2, <2>3, Zenon
<1>8. CASE e.type = "SCIMProviderTokenRotated"
  <2> DEFINE data == [t[k].data EXCEPT !.bearer = e.version]
  <2>1. out = Refused(t) \/ (Live(t, k) /\ out = Replace(t, e, data))
    BY <1>3, <1>8, Zenon
       DEF scimProviderEventDefinitions, projectSCIMProviderTokenRotated, Later, OnRow,
           RotateSCIMProviderToken
  <2>2. Live(t, k) => data \in ProviderData /\ data.bearer = e.version
    BY <1>2, Zenon DEF Live, ProviderData
  <2> HIDE DEF data
  <2>3. out.table = t \/ (Live(t, k) /\ out.table = [t EXCEPT ![k] = Row(e.version, data)])
    BY <2>1 DEF Replace, Outcome, Refused
  <2> QED
    BY <1>4, <1>6, <2>2, <2>3, Zenon
<1>9. CASE e.type = "SCIMProviderDisabled"
  <2> DEFINE data == [t[k].data EXCEPT !.disabled = TRUE]
  <2>1. out = Refused(t) \/ (Live(t, k) /\ out = Replace(t, e, data))
    BY <1>3, <1>9, Zenon
       DEF scimProviderEventDefinitions, projectSCIMProviderDisabled, Later, OnRow,
           DisableSCIMProvider
  <2>2. Live(t, k) => data \in ProviderData /\ data.disabled
    BY <1>2, Zenon DEF Live, ProviderData
  <2> HIDE DEF data
  <2>3. out.table = t \/ (Live(t, k) /\ out.table = [t EXCEPT ![k] = Row(e.version, data)])
    BY <2>1 DEF Replace, Outcome, Refused
  <2> QED
    BY <1>4, <1>6, <2>2, <2>3, Zenon
<1>10. CASE e.type = "SCIMProviderDeleted"
  <2>1. out = Later(t, e, Delete(t, e))
    BY <1>3, <1>10, Zenon
       DEF scimProviderEventDefinitions, projectSCIMProviderDeleted, DeleteSCIMProvider
  <2>2. out.table = t \/ out.table = [t EXCEPT ![k] = NoRow]
    BY <2>1 DEF Later, Delete, Outcome, Refused
  <2> QED
    BY <1>4, <1>5, <2>2, Zenon
<1> QED
  BY <1>7, <1>8, <1>9, <1>10, StreamTypesAssumption, Zenon DEF Fits

\* Every projector takes a table to a table that differs in its own stream.
LEMMA ProjectTable ==
  ASSUME NEW t, IsTable(t), NEW e, Fits(e), e.version \in Nat, NEW out, out = project(t, e)
  PROVE  /\ e.stream \in Streams
         /\ Frame(t, e, out) /\ IsTable(out.table)
         /\ e.stream \notin SCIMProviders \cup Inventories => Keeps(t, e, out)
<1>1. e.stream \in Streams
  BY Zenon DEF Fits, Streams
<1>2. t = [k \in Streams |-> t[k]]
  BY Zenon DEF IsTable
<1>3. e.stream \notin SCIMProviders \cup Inventories => Keeps(t, e, out)
  <2>1. CASE e.stream \in Tokens
    BY <2>1, TokenProjectors, Zenon
  <2>2. CASE e.stream \in Logins
    BY <2>2, LoginProjectors, Zenon
  <2>3. CASE e.stream \notin Tokens \cup Logins \cup SCIMProviders \cup Inventories
    <3>1. e.stream \in Actions \cup ActionSets \cup Assignments \cup Policies \cup Settings
                       \cup DeviceGroups \cup Devices \cup Users \cup OIDCProviders
      BY <2>3, Zenon DEF Fits
    <3> QED
      BY <1>2, <3>1, KernelProjectors, Zenon
  <2> QED
    BY <2>1, <2>2, <2>3, Zenon
<1>4. Frame(t, e, out)
  BY <1>3, InventoryProjectors, ProviderProjectors, Zenon DEF Keeps
<1>5. out.table = [k \in Streams |-> out.table[k]]
      /\ \A k \in Streams : k # e.stream => out.table[k] = t[k]
  BY <1>4, Zenon DEF Frame
<1>6. \A k \in Tokens : Live(out.table, k) => out.table[k] \in Rows(TokenData)
  <2> SUFFICES ASSUME NEW k \in Tokens, Live(out.table, k)
               PROVE  out.table[k] \in Rows(TokenData)
    BY Zenon
  <2>1. CASE k = e.stream
    BY <2>1, TokenProjectors, Zenon DEF Live
  <2>2. CASE k # e.stream
    BY <1>5, <2>2, Zenon DEF Live, IsTable, Streams
  <2> QED
    BY <2>1, <2>2, Zenon
<1>7. \A k \in SCIMProviders : Live(out.table, k) => out.table[k] \in Rows(ProviderData)
  <2> SUFFICES ASSUME NEW k \in SCIMProviders, Live(out.table, k)
               PROVE  out.table[k] \in Rows(ProviderData)
    OBVIOUS
  <2>1. CASE k = e.stream
    BY <2>1, ProviderProjectors, Zenon DEF Live
  <2>2. CASE k # e.stream
    BY <1>5, <2>2, Zenon DEF Live, IsTable, Streams
  <2> QED
    BY <2>1, <2>2
<1>8. \A k \in Logins : Live(out.table, k) => out.table[k] \in Rows(LoginData)
  <2> SUFFICES ASSUME NEW k \in Logins, Live(out.table, k)
               PROVE  out.table[k] \in Rows(LoginData)
    OBVIOUS
  <2>1. CASE k = e.stream
    BY <2>1, LoginProjectors, Zenon DEF Live
  <2>2. CASE k # e.stream
    BY <1>5, <2>2, Zenon DEF Live, IsTable, Streams
  <2> QED
    BY <2>1, <2>2
<1>9. \A k \in Assignments : Live(out.table, k) => out.table[k].data.target \in Targets
  <2> SUFFICES ASSUME NEW k \in Assignments, Live(out.table, k)
               PROVE  out.table[k].data.target \in Targets
    BY Zenon
  <2>1. CASE k = e.stream
    BY <2>1, AssignmentProjectors, Zenon DEF Live
  <2>2. CASE k # e.stream
    BY <1>5, <2>2, Zenon DEF Live, IsTable, Streams
  <2> QED
    BY <2>1, <2>2, Zenon
<1> QED
  BY <1>1, <1>3, <1>4, <1>5, <1>6, <1>7, <1>8, <1>9, ZenonT(60) DEF IsTable

-----------------------------------------------------------------------------
(* Appends *)

\* What a step may never bring back: the body of NothingReturns.
StaysEnded ==
  /\ \A k \in Streams \ SCIMProviders :
       events[k] # <<>> /\ table[k] = NoRow => table'[k] = NoRow
  /\ \A k \in Tokens :
       Live(table, k) /\ table[k].data.revoked /\ Live(table', k) => table'[k].data.revoked
  /\ \A l \in Logins : Live(table, l) /\ table[l].data.consumed => table'[l].data.consumed
  /\ \A p \in SCIMProviders : \A b \in 1..Version(p) :
       ~Accepts(table, p, b) => ~Accepts(table', p, b)

\* A log has a length, is empty at length 0 only, and grows by one.
LEMMA LogGrows ==
  ASSUME NEW s, IsLog(s), NEW x
  PROVE  /\ IsLog(Append(s, x)) /\ Append(s, x) # <<>>
         /\ Len(s) \in Nat /\ (s # <<>> => Len(s) > 0)
<1> DEFINE S == {s[i] : i \in 1 .. Len(s)} \cup {x}
<1>1. s \in Seq(S)
  BY DEF IsLog
<1>2. x \in S
  BY Zenon
<1> HIDE DEF S
<1>3. Append(s, x) \in Seq(S) /\ Len(Append(s, x)) = Len(s) + 1
  BY <1>1, <1>2
<1>4. ASSUME NEW u \in Seq(S)
      PROVE  /\ Len(u) \in Nat /\ u = [i \in 1 .. Len(u) |-> u[i]]
             /\ u # <<>> => Len(u) > 0
  OBVIOUS
<1>5. Append(s, x) # <<>>
  <2>1. Len(<<>>) = 0 /\ Len(s) \in Nat
    BY <1>1
  <2> QED
    BY <1>3, <2>1
<1> QED
  BY <1>1, <1>3, <1>4, <1>5, Zenon DEF IsLog

\* The event that is stored is the event with the stream's next version.
LEMMA NumberedEvent ==
  ASSUME StoreOK, NEW e, IsEvent(e), Fits(e)
  PROVE  /\ Fits(Numbering(e))
         /\ Numbering(e).stream = e.stream /\ Numbering(e).type = e.type
         /\ Numbering(e).version = Len(events[e.stream]) + 1
         /\ e.stream \in Streams /\ Numbering(e).version \in Nat
         /\ events[e.stream] # <<>> => Numbering(e).version # 1
<1>1. e.stream \in Streams
  BY Zenon DEF Fits, Streams
<1>2. Len(events[e.stream]) \in Nat /\ (events[e.stream] # <<>> => Len(events[e.stream]) > 0)
  BY <1>1, LogGrows, Zenon DEF StoreOK
<1>3. /\ Numbering(e).stream = e.stream /\ Numbering(e).type = e.type
      /\ Numbering(e).arg = e.arg
      /\ Numbering(e).version = Len(events[e.stream]) + 1
  BY Zenon DEF IsEvent, Numbering, Version
<1>4. Fits(Numbering(e))
  BY <1>3 DEF Fits
<1> QED
  BY <1>1, <1>2, <1>3, <1>4

\* An append keeps the store's invariant.
LEMMA AppendStore ==
  ASSUME StoreOK, NEW e, IsEvent(e), Fits(e), NEW q, AppendEvent(e, q)
  PROVE  StoreOK'
<1> DEFINE n == Numbering(e)
           out == project(table, n)
<1>1. /\ Fits(n) /\ n.stream = e.stream /\ e.stream \in Streams /\ n.version \in Nat
  BY NumberedEvent, Zenon
<1>2. /\ table' = out.table
      /\ events' = [events EXCEPT ![e.stream] = Append(@, n)]
  BY Zenon DEF AppendEvent
<1>3. IsTable(table)
  BY Zenon DEF StoreOK
<1>4. IsTable(out.table) /\ Frame(table, n, out)
  BY <1>1, <1>3, ProjectTable, Zenon
<1>5. \A i \in Inventories : i = e.stream => out.table[i] # NoRow
  BY <1>1, <1>3, InventoryProjectors, Zenon
<1> HIDE DEF n, out
<1>6. /\ events' = [k \in Streams |-> events'[k]]
      /\ \A k \in Streams : IsLog(events'[k])
      /\ \A k \in Streams : k # e.stream => events'[k] = events[k]
  BY <1>1, <1>2, LogGrows, Zenon DEF StoreOK
<1>7. \A i \in Inventories : events'[i] # <<>> => Live(table', i)
  <2> SUFFICES ASSUME NEW i \in Inventories, events'[i] # <<>>
               PROVE  Live(table', i)
    BY Zenon
  <2>1. i \in Streams
    BY Zenon DEF Streams
  <2>2. CASE i = e.stream
    BY <1>2, <1>5, <2>2, Zenon DEF Live
  <2>3. CASE i # e.stream
    <3>1. Live(table, i)
      BY <1>6, <2>1, <2>3, Zenon DEF StoreOK
    <3> QED
      BY <1>1, <1>2, <1>4, <2>1, <2>3, <3>1, Zenon DEF Frame, Live
  <2> QED
    BY <2>2, <2>3, Zenon
<1> QED
  BY <1>2, <1>4, <1>6, <1>7, Zenon DEF StoreOK

\* An append brings nothing back.
LEMMA AppendStaysEnded ==
  ASSUME StoreOK, NEW e, IsEvent(e), Fits(e), NEW q, AppendEvent(e, q)
  PROVE  StaysEnded
<1> DEFINE n == Numbering(e)
           out == project(table, n)
<1>1. /\ Fits(n) /\ n.stream = e.stream /\ e.stream \in Streams /\ n.version \in Nat
      /\ n.version = Len(events[e.stream]) + 1
      /\ events[e.stream] # <<>> => n.version # 1
  BY NumberedEvent, Zenon
<1>2. table' = out.table /\ out.ok
  BY Zenon DEF AppendEvent, Appends
<1>3. IsTable(table)
  BY DEF StoreOK
<1>4. Frame(table, n, out) /\ (e.stream \notin SCIMProviders \cup Inventories => Keeps(table, n, out))
  BY <1>1, <1>3, ProjectTable, Zenon
<1>5. \A k \in Streams : k # e.stream => out.table[k] = table[k]
  BY <1>1, <1>4, Zenon DEF Frame
<1>6. \A k \in Streams \ SCIMProviders :
        events[k] # <<>> /\ table[k] = NoRow => table'[k] = NoRow
  <2> SUFFICES ASSUME NEW k \in Streams \ SCIMProviders, events[k] # <<>>, table[k] = NoRow
               PROVE  out.table[k] = NoRow
    BY <1>2, Zenon
  <2>1. k \notin Inventories
    BY Zenon DEF StoreOK, Live
  <2>2. CASE k = e.stream
    BY <1>1, <1>2, <1>4, <2>1, <2>2, Zenon DEF Keeps
  <2> QED
    BY <1>5, <2>2, Zenon
<1>7. \A k \in Tokens :
        Live(table, k) /\ table[k].data.revoked /\ Live(out.table, k) => out.table[k].data.revoked
  <2> SUFFICES ASSUME NEW k \in Tokens, Live(table, k), table[k].data.revoked, Live(out.table, k)
               PROVE  out.table[k].data.revoked
    BY Zenon
  <2>1. CASE k = e.stream
    BY <1>1, <1>3, <2>1, TokenProjectors, ZenonT(60) DEF Live
  <2> QED
    BY <1>5, <2>1, Zenon DEF Streams
<1>8. \A l \in Logins :
        Live(table, l) /\ table[l].data.consumed => out.table[l].data.consumed
  <2> SUFFICES ASSUME NEW l \in Logins, Live(table, l), table[l].data.consumed
               PROVE  out.table[l].data.consumed
    BY Zenon
  <2>1. CASE l = e.stream
    BY <1>1, <1>3, <2>1, LoginProjectors DEF Live
  <2> QED
    BY <1>5, <2>1, Zenon DEF Streams
<1>9. \A p \in SCIMProviders : \A b \in 1..Version(p) :
        ~Accepts(table, p, b) => ~Accepts(out.table, p, b)
  <2> SUFFICES ASSUME NEW p \in SCIMProviders, NEW b \in 1..Version(p), ~Accepts(table, p, b)
               PROVE  ~Accepts(out.table, p, b)
    BY Zenon
  <2>1. CASE p = e.stream
    <3>1. Len(events[p]) \in Nat
      BY LogGrows, Zenon DEF StoreOK, Streams
    <3>2. b \in Nat /\ b < n.version
      BY <1>1, <2>1, <3>1 DEF Version
    <3> QED
      BY <1>1, <1>3, <2>1, <3>2, ProviderProjectors, Zenon
  <2>2. CASE p # e.stream
    BY <1>5, <2>2, Zenon DEF Streams, Accepts, Live
  <2> QED
    BY <2>1, <2>2, Zenon
<1> QED
  BY <1>2, <1>6, <1>7, <1>8, <1>9, Zenon DEF StaysEnded

-----------------------------------------------------------------------------
(* Domains *)

\* The domain of a request is that of the type of its object.
LEMMA DomainDispatch ==
  ASSUME NEW r, NEW s
  PROVE  /\ r.id \in Actions => managementDomains(r, s) = actionDomain(r)
         /\ r.id \in ActionSets => managementDomains(r, s) = actionSetDomain(r)
         /\ r.id \in Assignments => managementDomains(r, s) = assignmentDomain(r, s)
         /\ r.id \in Policies => managementDomains(r, s) = compliancePolicyDomain(r)
         /\ r.id \in Settings => managementDomains(r, s) = serverSettingDomain(r)
         /\ r.id \in DeviceGroups => managementDomains(r, s) = deviceGroupDomain(r)
         /\ r.id \in Devices => managementDomains(r, s) = deviceDomain(r)
         /\ r.id \in Users => managementDomains(r, s) = userDomain(r)
         /\ r.id \in UserGroups => managementDomains(r, s) = userGroupDomain(r)
         /\ r.id \in Inventories => managementDomains(r, s) = inventoryDomain(r)
         /\ r.id \in Tokens => managementDomains(r, s) = apiTokenDomain(r, s)
         /\ r.id \in OIDCProviders => managementDomains(r, s) = identityProviderDomain(r)
         /\ r.id \in SCIMProviders => managementDomains(r, s) = scimConfigurationDomain(r)
BY StreamTypesAssumption, Zenon DEF managementDomains

\* Which operations a request of each type of object can name.
LEMMA RequestOps ==
  ASSUME NEW r \in Requests
  PROVE  /\ r.id \in Streams \ (UserGroups \cup Inventories \cup Logins)
         /\ r.op \in {"create", "update", "delete"}
         /\ r.id \in Assignments => r.op \in {"create", "delete"}
         /\ r.id \in Devices => r.op \in {"update", "delete"}
         /\ r.id \in Users => r.op = "delete"
         /\ r.id \in Tokens /\ r.op # "delete" => r.arg \in TokenData /\ r.arg.subject \in Users
         /\ r.id \in Assignments /\ r.op = "create" => r.arg.target \in Targets
<1>1. /\ r.id \in Streams /\ r.op \in procedures(r.id)
      /\ r.id \in Tokens /\ r.op # "delete" => r.arg \in TokenData
      /\ r.id \in Assignments /\ r.op = "create" => r.arg.target \in Targets
  BY RequestsAssumption, Zenon
<1>2. /\ r.id \in Assignments => procedures(r.id) = {"create", "delete"}
      /\ r.id \in Devices => procedures(r.id) = {"update", "delete"}
      /\ r.id \in Users => procedures(r.id) = {"delete"}
      /\ r.id \in UserGroups \cup Inventories \cup Logins => procedures(r.id) = {}
      /\ r.id \notin Assignments \cup Devices \cup Users \cup UserGroups \cup Inventories \cup Logins
           => procedures(r.id) = {"create", "update", "delete"}
  BY StreamTypesAssumption, Zenon DEF procedures
<1> QED
  BY <1>1, <1>2, Zenon DEF TokenData

\* The event a request appends is one the projectors of its object know.
LEMMA RequestEvent ==
  ASSUME NEW r \in Requests, NEW s, NEW e, e = managementDomains(r, s).event
  PROVE  IsEvent(e) /\ Fits(e)
<1>0. /\ r.op \in {"create", "update", "delete"}
      /\ r.id \in Assignments /\ r.op = "create" => r.arg.target \in Targets
  BY RequestOps, ZenonT(60)
<1>1. CASE r.id \in Actions
  <2>1. e = actionDomain(r).event
    BY <1>1, DomainDispatch, Zenon
  <2>2. e = ByOp(r, ManagedActionCreatedEvent(r.id), ManagedActionUpdatedEvent(r.id),
                 ManagedActionDeletedEvent(r.id))
    BY <2>1 DEF actionDomain, Domain
  <2>3. e \in {ManagedActionCreatedEvent(r.id), ManagedActionUpdatedEvent(r.id), ManagedActionDeletedEvent(r.id)}
    BY <1>0, <2>2, ZenonT(60) DEF ByOp
  <2> QED
    BY <1>1, <2>3
       DEF ManagedActionCreatedEvent, ManagedActionUpdatedEvent, ManagedActionDeletedEvent, Event,
           IsEvent, Fits
<1>2. CASE r.id \in ActionSets
  <2>1. e = actionSetDomain(r).event
    BY <1>2, DomainDispatch, Zenon
  <2>2. e = ByOp(r, ManagedActionSetCreatedEvent(r.id), ManagedActionSetUpdatedEvent(r.id),
                 ManagedActionSetDeletedEvent(r.id))
    BY <2>1 DEF actionSetDomain, Domain
  <2>3. e \in {ManagedActionSetCreatedEvent(r.id), ManagedActionSetUpdatedEvent(r.id), ManagedActionSetDeletedEvent(r.id)}
    BY <1>0, <2>2, Zenon DEF ByOp
  <2> QED
    BY <1>2, <2>3
       DEF ManagedActionSetCreatedEvent, ManagedActionSetUpdatedEvent, ManagedActionSetDeletedEvent, Event,
           IsEvent, Fits
<1>3. CASE r.id \in Assignments
  <2>1. e = assignmentDomain(r, s).event
    BY <1>3, DomainDispatch, ZenonT(60)
  <2> QED
    BY <1>0, <1>3, <2>1
       DEF assignmentDomain, Domain, AssignmentCreatedEvent, AssignmentDeletedEvent, Event,
           IsEvent, Fits
<1>4. CASE r.id \in Policies
  <2>1. e = compliancePolicyDomain(r).event
    BY <1>4, DomainDispatch, Zenon
  <2>2. e = ByOp(r, CompliancePolicyCreatedEvent(r.id, r.arg), CompliancePolicyUpdatedEvent(r.id, r.arg),
                 CompliancePolicyDeletedEvent(r.id))
    BY <2>1 DEF compliancePolicyDomain, Domain
  <2>3. e \in {CompliancePolicyCreatedEvent(r.id, r.arg), CompliancePolicyUpdatedEvent(r.id, r.arg), CompliancePolicyDeletedEvent(r.id)}
    BY <1>0, <2>2, ZenonT(60) DEF ByOp
  <2> QED
    BY <1>4, <2>3
       DEF CompliancePolicyCreatedEvent, CompliancePolicyUpdatedEvent, CompliancePolicyDeletedEvent, Event,
           IsEvent, Fits
<1>5. CASE r.id \in Settings
  <2>1. e = serverSettingDomain(r).event
    BY <1>5, DomainDispatch, Zenon
  <2>2. e = ByOp(r, ServerSettingCreatedEvent(r.id), ServerSettingUpdatedEvent(r.id),
                 ServerSettingDeletedEvent(r.id))
    BY <2>1 DEF serverSettingDomain, Domain
  <2>3. e \in {ServerSettingCreatedEvent(r.id), ServerSettingUpdatedEvent(r.id), ServerSettingDeletedEvent(r.id)}
    BY <1>0, <2>2, Zenon DEF ByOp
  <2> QED
    BY <1>5, <2>3
       DEF ServerSettingCreatedEvent, ServerSettingUpdatedEvent, ServerSettingDeletedEvent, Event,
           IsEvent, Fits
<1>6. CASE r.id \in DeviceGroups
  <2>1. e = deviceGroupDomain(r).event
    BY <1>6, DomainDispatch, Zenon
  <2>2. e = ByOp(r, DeviceGroupCreatedWithMembersEvent(r.id, r.arg), DeviceGroupUpdatedWithMembersEvent(r.id, r.arg),
                 DeviceGroupDeletedEvent(r.id))
    BY <2>1 DEF deviceGroupDomain, Domain
  <2>3. e \in {DeviceGroupCreatedWithMembersEvent(r.id, r.arg), DeviceGroupUpdatedWithMembersEvent(r.id, r.arg), DeviceGroupDeletedEvent(r.id)}
    BY <1>0, <2>2, Zenon DEF ByOp
  <2> QED
    BY <1>6, <2>3
       DEF DeviceGroupCreatedWithMembersEvent, DeviceGroupUpdatedWithMembersEvent, DeviceGroupDeletedEvent, Event,
           IsEvent, Fits
<1>7. CASE r.id \in Devices
  <2>1. e = deviceDomain(r).event
    BY <1>7, DomainDispatch, Zenon
  <2> QED
    BY <1>0, <1>7, <2>1
       DEF deviceDomain, Domain, AgentOwnerUpdatedEvent, AgentDeletedEvent, Event, IsEvent,
           Fits
<1>8. CASE r.id \in Users
  <2>1. e = userDomain(r).event
    BY <1>8, DomainDispatch, Zenon
  <2> QED
    BY <1>0, <1>8, <2>1
       DEF userDomain, Domain, UserManagedDeletedEvent, Event, IsEvent, Fits
<1>9. CASE r.id \in Tokens
  <2>1. \/ r.op = "create" /\ e = PersonalAccessTokenMintedEvent(r.id, r.arg.subject)
        \/ r.op = "update" /\ e = PersonalAccessTokenUpdatedEvent(r.id, r.arg)
        \/ r.op = "delete" /\ e = PersonalAccessTokenDeletedEvent(r.id)
    <3>1. e = apiTokenDomain(r, s).event
      BY <1>9, DomainDispatch, Zenon
    <3> QED
      BY <1>0, <3>1 DEF apiTokenDomain, Domain, ByOp
  <2>2. CASE r.op = "create" /\ e = PersonalAccessTokenMintedEvent(r.id, r.arg.subject)
    <3>1. r.arg.subject \in Users
      BY <1>9, <2>2, RequestOps, Zenon
    <3>2. /\ e.stream = r.id /\ e.type = "PersonalAccessTokenMinted" /\ IsEvent(e)
          /\ e.arg = [subject |-> r.arg.subject, revoked |-> FALSE]
      BY <2>2 DEF PersonalAccessTokenMintedEvent, Event, IsEvent
    <3>3. e.arg \in TokenData
      BY <3>1, <3>2 DEF TokenData
    <3> QED
      BY <1>9, <3>2, <3>3, Zenon DEF Fits
  <2>3. CASE r.op = "update" /\ e = PersonalAccessTokenUpdatedEvent(r.id, r.arg)
    <3>1. r.arg \in TokenData
      BY <1>9, <2>3, RequestOps, Zenon
    <3> QED
      BY <1>9, <2>3, <3>1 DEF PersonalAccessTokenUpdatedEvent, Event, IsEvent, Fits
  <2>4. CASE e = PersonalAccessTokenDeletedEvent(r.id)
    BY <1>9, <2>4 DEF PersonalAccessTokenDeletedEvent, Event, IsEvent, Fits
  <2> QED
    BY <2>1, <2>2, <2>3, <2>4, Zenon
<1>10. CASE r.id \in OIDCProviders
  <2>1. e = identityProviderDomain(r).event
    BY <1>10, DomainDispatch, Zenon
  <2>2. e = ByOp(r, OIDCProviderConfigCreatedEvent(r.id, FALSE), OIDCProviderConfigUpdatedEvent(r.id, r.arg),
                 OIDCProviderConfigDeletedEvent(r.id))
    BY <2>1 DEF identityProviderDomain, Domain
  <2>3. e \in {OIDCProviderConfigCreatedEvent(r.id, FALSE), OIDCProviderConfigUpdatedEvent(r.id, r.arg), OIDCProviderConfigDeletedEvent(r.id)}
    BY <1>0, <2>2, ZenonT(60) DEF ByOp
  <2> QED
    BY <1>10, <2>3
       DEF OIDCProviderConfigCreatedEvent, OIDCProviderConfigUpdatedEvent, OIDCProviderConfigDeletedEvent, Event,
           IsEvent, Fits
<1>11. CASE r.id \in SCIMProviders
  <2>1. e \in {SCIMProviderCreatedEvent(r.id), SCIMProviderTokenRotatedEvent(r.id),
               SCIMProviderDisabledEvent(r.id), SCIMProviderDeletedEvent(r.id)}
    <3>1. scimUpdateEvent(r) \in {SCIMProviderTokenRotatedEvent(r.id),
                                  SCIMProviderDisabledEvent(r.id)}
      BY Zenon DEF scimUpdateEvent
    <3>2. e = ByOp(r, SCIMProviderCreatedEvent(r.id), scimUpdateEvent(r),
                   SCIMProviderDeletedEvent(r.id))
      <4>1. e = scimConfigurationDomain(r).event
        BY <1>11, DomainDispatch, Zenon
      <4> QED
        BY <4>1 DEF scimConfigurationDomain, Domain
    <3> QED
      BY <1>0, <3>1, <3>2, Zenon DEF ByOp
  <2> QED
    BY <1>11, <2>1
       DEF SCIMProviderCreatedEvent, SCIMProviderTokenRotatedEvent, SCIMProviderDisabledEvent,
           SCIMProviderDeletedEvent, Event, IsEvent, Fits
<1> QED
  BY <1>1, <1>2, <1>3, <1>4, <1>5, <1>6, <1>7, <1>8, <1>9, <1>10, <1>11, RequestOps, ZenonT(60)
     DEF Streams

-----------------------------------------------------------------------------
(* Reach *)

\* What a read through a scope finds of a deciding object, the scope reaches.
LEMMA FoundIsReached ==
  ASSUME NEW t, NEW k \in Targets \cup Tokens \cup Assignments, NEW s, ByID(t, k, s)
  PROVE  k \in Reached(t, s)
<1>1. k \in Streams
  BY Zenon DEF Targets, Streams
<1>2. CASE k \in DeviceGroups
  BY <1>1, <1>2, StreamTypesAssumption, Zenon
     DEF ByID, DeviceGroupByID, GetScopedDeviceGroup, Reached, Reaches
<1>3. CASE k \in UserGroups
  BY <1>1, <1>3, StreamTypesAssumption, Zenon
     DEF ByID, UserGroupByID, GetScopedManagedUserGroup, Reached, Reaches
<1>4. CASE k \in Users
  BY <1>1, <1>4, StreamTypesAssumption, Zenon
     DEF ByID, ScopedUserByID, GetScopedUserByID, Reached, Reaches
<1>5. CASE k \in Devices
  BY <1>1, <1>5, StreamTypesAssumption, Zenon
     DEF ByID, ScopedDevice, GetScopedDevice, Reached, Reaches
<1>6. CASE k \in Tokens
  BY <1>1, <1>6, StreamTypesAssumption, Zenon
     DEF ByID, ScopedPersonalAccessTokenByID, GetScopedPersonalAccessToken, Reached, Reaches
<1>7. CASE k \in Assignments
  BY <1>1, <1>7, StreamTypesAssumption, Zenon
     DEF ByID, AssignmentByID, GetScopedAssignment, Reached, Reaches
<1> QED
  BY <1>2, <1>3, <1>4, <1>5, <1>6, <1>7, Zenon DEF Targets

\* The deciding object of a request is an object, and one that the kernel reads
\* or compares with the groups of the scope.
LEMMA DecisiveObject ==
  ASSUME NEW r \in Requests
  PROVE  /\ Decisive(r) \in Streams
         /\ r.id \in Tokens \cup Assignments \cup Users \cup Devices
              => Decisive(r) \in Targets \cup Tokens \cup Assignments
<1>1. CASE r.op = "create" /\ r.id \in Tokens
  <2>1. Decisive(r) = r.arg.subject
    BY <1>1, StreamTypesAssumption, Zenon DEF Decisive
  <2> QED
    BY <1>1, <2>1, RequestOps, Zenon DEF Targets, Streams
<1>2. CASE r.op = "create" /\ r.id \in Assignments
  <2>1. Decisive(r) = r.arg.target
    BY <1>2, StreamTypesAssumption, Zenon DEF Decisive
  <2> QED
    BY <1>2, <2>1, RequestOps, Zenon DEF Targets, Streams
<1>3. CASE ~(r.op = "create" /\ r.id \in Tokens \cup Assignments)
  <2>1. Decisive(r) = r.id
    BY <1>3, Zenon DEF Decisive
  <2> QED
    BY <2>1, RequestOps, Zenon DEF Targets, Streams
<1> QED
  BY <1>1, <1>2, <1>3, Zenon

\* Sequences are what the log and the lists of reads are made of.
LEMMA SequenceIsLog ==
  ASSUME NEW S, NEW u \in Seq(S)
  PROVE  IsLog(u)
BY DEF IsLog

\* A read at the head of a list, and one that follows nothing, is in the list.
LEMMA FirstRead ==
  ASSUME NEW a, NEW b, NEW x, NEW y, NEW z,
         \/ a = <<x>> /\ b \in {<<>>, <<y>>, <<y, z>>}
         \/ a = <<>> /\ b \in {<<x>>, <<x, y>>}
  PROVE  Lists(a \o b, x)
<1> DEFINE S == {x, y, z}
<1>1. a \in Seq(S) /\ b \in Seq(S)
  <2>1. /\ <<>> \in Seq(S) /\ <<x>> \in Seq(S) /\ <<y>> \in Seq(S)
        /\ <<x, y>> \in Seq(S) /\ <<y, z>> \in Seq(S)
    OBVIOUS
  <2> HIDE DEF S
  <2> QED
    BY <2>1, Zenon
<1>2. \/ Len(a) = 1 /\ a[1] = x
      \/ Len(a) = 0 /\ Len(b) > 0 /\ b[1] = x
  OBVIOUS
<1> HIDE DEF S
<1>3. /\ a \o b \in Seq(S) /\ Len(a \o b) = Len(a) + Len(b)
      /\ Len(a) \in Nat /\ Len(b) \in Nat
  BY <1>1
<1>4. \A i \in 1 .. Len(a) + Len(b) :
        (a \o b)[i] = IF i <= Len(a) THEN a[i] ELSE b[i - Len(a)]
  BY <1>1
<1>5. 1 \in 1 .. Len(a) + Len(b)
  BY <1>2, <1>3
<1>6. (a \o b)[1] = x
  <2>1. (a \o b)[1] = IF 1 <= Len(a) THEN a[1] ELSE b[1 - Len(a)]
    BY <1>4, <1>5, Zenon
  <2> QED
    BY <1>2, <1>3, <2>1
<1>7. IsLog(a \o b)
  BY <1>3, SequenceIsLog, Zenon
<1> QED
  BY <1>3, <1>5, <1>6, <1>7, Zenon DEF Lists

\* A scope that admits a request reaches the deciding object, or the kernel still
\* has to read that object through the scope.
LEMMA Covered ==
  ASSUME NEW t, NEW r \in Requests, NEW s, NEW d, d = managementDomains(r, GlobalScope),
         scopeAllows(d.relation, r.op, r.id, s),
         NEW todo,
         todo = requireScopedMutationTarget(d, r, s) \o managementDomains(r, s).reads
  PROVE  \/ Decisive(r) \in Reached(t, s)
         \/ /\ Decisive(r) \in Targets \cup Tokens \cup Assignments
            /\ Lists(todo, Read(Decisive(r), s, "any"))
<1>0. r.id \in Tokens \cup Assignments \cup Users \cup Devices
        => Decisive(r) \in Targets \cup Tokens \cup Assignments
  BY DecisiveObject, Zenon
<1>1. CASE s.global
  BY <1>1, DecisiveObject, Zenon DEF Reached, Reaches
<1>2. CASE ~s.global /\ r.id \notin DeviceGroups \cup Devices \cup Users \cup Tokens \cup Assignments
  <2>1. d.relation \in {"transitive", "global"}
    <3>1. CASE r.id \in Actions \cup ActionSets
      BY <3>1, DomainDispatch DEF actionDomain, actionSetDomain, Domain
    <3>2. CASE r.id \in Policies
      BY <3>2, DomainDispatch DEF compliancePolicyDomain, Domain
    <3>3. CASE r.id \in Settings
      BY <3>3, DomainDispatch DEF serverSettingDomain, Domain
    <3>4. CASE r.id \in OIDCProviders
      BY <3>4, DomainDispatch
         DEF identityProviderDomain, Domain, ByOp, OIDCProviderConfigCreatedEvent,
             OIDCProviderConfigUpdatedEvent, OIDCProviderConfigDeletedEvent, Event
    <3>5. CASE r.id \in SCIMProviders
      BY <3>5, DomainDispatch DEF scimConfigurationDomain, Domain
    <3> QED
      BY <1>2, <3>1, <3>2, <3>3, <3>4, <3>5, RequestOps, ZenonT(60) DEF Streams
  <2>2. r.op \notin {"get", "list"}
    BY RequestOps, Zenon
  <2> QED
    BY <1>2, <2>1, <2>2, Zenon DEF scopeAllows
<1>3. CASE r.id \in DeviceGroups
  <2>1. d.relation = "devicegroup"
    BY <1>3, DomainDispatch DEF deviceGroupDomain, Domain
  <2>2. s.global \/ r.id \in s.dgs
    BY <2>1, Zenon DEF scopeAllows
  <2>3. Decisive(r) = r.id
    BY <1>3, StreamTypesAssumption, Zenon DEF Decisive
  <2> QED
    BY <2>2, <2>3, DecisiveObject, Zenon DEF Reached, Reaches
<1>4. CASE ~s.global /\ r.id \in Devices
  <2>0. d = deviceDomain(r) /\ managementDomains(r, s) = deviceDomain(r)
    BY <1>4, DomainDispatch, ZenonT(60)
  <2>1. d.relation = "device" /\ r.op # "create"
    BY <1>4, <2>0, RequestOps DEF deviceDomain, Domain
  <2>2. Decisive(r) = r.id
    BY <2>1, Zenon DEF Decisive
  <2>3. requireScopedMutationTarget(d, r, s) = <<Read(r.id, s, "any")>>
    BY <1>4, <2>1, Zenon DEF requireScopedMutationTarget
  <2>4. managementDomains(r, s).reads \in {<<>>, <<Read(r.id, GlobalScope, "any")>>}
    BY <2>0 DEF deviceDomain, Domain
  <2> QED
    BY <1>0, <1>4, <2>2, <2>3, <2>4, FirstRead, Zenon
<1>5. CASE ~s.global /\ r.id \in Users
  <2>0. d = userDomain(r) /\ managementDomains(r, s) = userDomain(r)
    BY <1>5, DomainDispatch, ZenonT(60)
  <2>1. d.relation = "user" /\ r.op = "delete"
    BY <1>5, <2>0, RequestOps DEF userDomain, Domain
  <2>2. Decisive(r) = r.id
    BY <2>1, Zenon DEF Decisive
  <2>3. CASE s.self = r.id
    BY <1>5, <2>2, <2>3, DecisiveObject, Zenon DEF Reached, Reaches
  <2>4. CASE s.self # r.id
    <3>1. requireScopedMutationTarget(d, r, s) = <<Read(r.id, s, "any")>>
      BY <1>5, <2>1, <2>4, Zenon DEF requireScopedMutationTarget
    <3>2. managementDomains(r, s).reads = <<>>
      BY <2>0 DEF userDomain, Domain
    <3> QED
      BY <1>0, <1>5, <2>2, <3>1, <3>2, FirstRead, Zenon
  <2> QED
    BY <2>3, <2>4, Zenon
<1>6. CASE ~s.global /\ r.id \in Tokens
  <2>0. d = apiTokenDomain(r, GlobalScope) /\ managementDomains(r, s) = apiTokenDomain(r, s)
    BY <1>6, DomainDispatch, ZenonT(60)
  <2>1. d.relation = "owned"
    BY <2>0 DEF apiTokenDomain, Domain
  <2>2. CASE r.op = "create"
    <3>1. Decisive(r) = r.arg.subject
      BY <1>6, <2>2, StreamTypesAssumption, Zenon DEF Decisive
    <3>2. requireScopedMutationTarget(d, r, s) = <<>>
      BY <2>2, Zenon DEF requireScopedMutationTarget
    <3>3. managementDomains(r, s).reads = <<Read(r.arg.subject, s, "any")>>
      BY <2>0, <2>2 DEF apiTokenDomain, Domain
    <3> QED
      BY <1>0, <1>6, <3>1, <3>2, <3>3, FirstRead, Zenon
  <2>3. CASE r.op # "create"
    <3>1. Decisive(r) = r.id
      BY <2>3, Zenon DEF Decisive
    <3>2. requireScopedMutationTarget(d, r, s) = <<Read(r.id, s, "any")>>
      BY <1>6, <2>1, <2>3, ZenonT(60) DEF requireScopedMutationTarget
    <3>3. managementDomains(r, s).reads
            \in {<<>>, <<Read(r.arg.subject, s, "any"), Read(r.id, GlobalScope, "token")>>}
      BY <2>0, <2>3 DEF apiTokenDomain, Domain
    <3> QED
      BY <1>0, <1>6, <3>1, <3>2, <3>3, FirstRead, ZenonT(60)
  <2> QED
    BY <2>2, <2>3, Zenon
<1>7. CASE ~s.global /\ r.id \in Assignments
  <2>0. d = assignmentDomain(r, GlobalScope) /\ managementDomains(r, s) = assignmentDomain(r, s)
    BY <1>7, DomainDispatch, Zenon
  <2>1. d.relation = "assignment"
    BY <2>0 DEF assignmentDomain, Domain
  <2>2. CASE r.op = "create"
    <3>1. Decisive(r) = r.arg.target
      BY <1>7, <2>2, StreamTypesAssumption, ZenonT(60) DEF Decisive
    <3>2. requireScopedMutationTarget(d, r, s) = <<>>
      BY <2>2, Zenon DEF requireScopedMutationTarget
    <3>3. managementDomains(r, s).reads
            = <<Read(r.arg.target, s, "any"), Read(r.arg.source, s, "any")>>
      BY <2>0, <2>2 DEF assignmentDomain, validateAssignmentTargetScope, Domain
    <3> QED
      BY <1>0, <1>7, <3>1, <3>2, <3>3, FirstRead, Zenon
  <2>3. CASE r.op # "create"
    <3>1. Decisive(r) = r.id
      BY <2>3, Zenon DEF Decisive
    <3>2. requireScopedMutationTarget(d, r, s) = <<Read(r.id, s, "any")>>
      BY <1>7, <2>1, <2>3, Zenon DEF requireScopedMutationTarget
    <3>3. managementDomains(r, s).reads = <<>>
      BY <2>0, <2>3 DEF assignmentDomain, Domain
    <3> QED
      BY <1>0, <1>7, <3>1, <3>2, <3>3, FirstRead, Zenon
  <2> QED
    BY <2>2, <2>3, Zenon
<1> QED
  BY <1>1, <1>2, <1>3, <1>4, <1>5, <1>6, <1>7, Zenon

-----------------------------------------------------------------------------
(* Calls and sessions *)

\* Requests under way take in what their scopes reach of the new table; nothing
\* else of a call changes.
LEMMA WitnessedCalls ==
  ASSUME NEW t, NEW new, NEW q, AllOK(t, q), NEW w, w = Witnessed(new, q)
  PROVE  /\ AllOK(new, w)
         /\ \A c \in Callers : w[c].pc = q[c].pc /\ (q[c].pc # "crud" => w[c] = q[c])
<1>1. w = [c \in Callers |-> w[c]]
  BY Zenon DEF Witnessed
<1>2. ASSUME NEW c \in Callers
      PROVE  /\ CallOK(new, w[c]) /\ w[c].pc = q[c].pc
             /\ q[c].pc # "crud" => w[c] = q[c]
  <2>0. CallOK(t, q[c])
    BY Zenon DEF AllOK
  <2>1. CASE q[c].pc # "crud"
    <3>1. w[c] = q[c]
      BY <2>1, Zenon DEF Witnessed
    <3> QED
      BY <2>0, <2>1, <3>1, Zenon DEF CallOK
  <2>2. CASE q[c].pc = "crud"
    <3> DEFINE more == q[c].reached \cup Reached(new, q[c].scope)
    <3>1. w[c] = [q[c] EXCEPT !.reached = more]
      BY <2>2, Zenon DEF Witnessed
    <3>2. CrudOK(t, q[c])
      BY <2>0, <2>2, Zenon DEF CallOK
    <3>3. /\ IsCrud(w[c]) /\ w[c].pc = "crud" /\ w[c].request = q[c].request
          /\ w[c].scope = q[c].scope /\ w[c].todo = q[c].todo /\ w[c].reached = more
      BY <3>1, <3>2 DEF CrudOK, IsCrud
    <3>4. CrudOK(new, w[c])
      BY <3>2, <3>3, Zenon DEF CrudOK, ToRead
    <3> QED
      BY <2>2, <3>3, <3>4, Zenon DEF CallOK
  <2> QED
    BY <2>1, <2>2, Zenon
<1> QED
  BY <1>1, <1>2, Zenon DEF AllOK

\* A call goes on while the table stands.
LEMMA CallGoesOn ==
  ASSUME CallsOK, NEW c \in Callers, NEW q, CallOK(table, q),
         call' = [call EXCEPT ![c] = q], UNCHANGED table
  PROVE  /\ CallsOK' /\ call'[c] = q
         /\ \A d \in Callers : d # c => call'[d] = call[d]
BY Zenon DEF CallsOK, AllOK

\* What the sessions need of a step that starts none.
LEMMA SessionsKept ==
  ASSUME SessionsOK, UNCHANGED sessions,
         states' \in [States -> [provider : OIDCProviders, stored : BOOLEAN] \cup {NoRow}],
         \A l \in Logins \cup States : Spent(l) => Spent(l)',
         \A c \in Callers : \A l \in Logins \cup States : Owes(call'[c], l) => Owes(call[c], l)
  PROVE  SessionsOK'
BY Zenon DEF SessionsOK

\* An append keeps spent logins spent; the consumption that is accepted finds its
\* login unspent and leaves it spent.
LEMMA AppendLogins ==
  ASSUME StoreOK, NEW e, IsEvent(e), Fits(e), NEW q, AppendEvent(e, q)
  PROVE  /\ \A l \in Logins : Live(table, l) /\ table[l].data.consumed
                                => Live(table', l) /\ table'[l].data.consumed
         /\ e.type = "BootstrapLoginConsumed" /\ e.stream \in Logins
              => /\ ~(Live(table, e.stream) /\ table[e.stream].data.consumed)
                 /\ Live(table', e.stream) /\ table'[e.stream].data.consumed
<1> DEFINE n == Numbering(e)
           out == project(table, n)
<1>1. /\ Fits(n) /\ n.stream = e.stream /\ n.type = e.type /\ n.version \in Nat
  BY NumberedEvent, Zenon
<1>2. table' = out.table /\ out.ok
  BY DEF AppendEvent, Appends
<1>3. IsTable(table)
  BY DEF StoreOK
<1>4. Frame(table, n, out)
  BY <1>1, <1>3, ProjectTable, Zenon
<1>5. ASSUME NEW l \in Logins, Live(table, l), table[l].data.consumed
      PROVE  Live(out.table, l) /\ out.table[l].data.consumed
  <2>1. CASE l = e.stream
    BY <1>1, <1>3, <1>5, <2>1, LoginProjectors DEF Live
  <2>2. CASE l # e.stream
    <3>1. out.table[l] = table[l]
      BY <1>1, <1>4, <2>2, Zenon DEF Frame, Streams
    <3> QED
      BY <1>5, <3>1, Zenon DEF Live
  <2> QED
    BY <2>1, <2>2, ZenonT(60)
<1>6. ASSUME e.type = "BootstrapLoginConsumed", e.stream \in Logins
      PROVE  /\ ~(Live(table, e.stream) /\ table[e.stream].data.consumed)
             /\ Live(out.table, e.stream) /\ out.table[e.stream].data.consumed
  BY <1>1, <1>2, <1>3, <1>6, LoginProjectors, Zenon DEF Live
<1> QED
  BY <1>2, <1>5, <1>6, Zenon

\* An append by a caller that then owes no session keeps the invariant.
LEMMA AppendStep ==
  ASSUME IInv, NEW e, IsEvent(e), Fits(e), NEW q, AppendEvent(e, q),
         AllOK(table, q),
         \A c \in Callers : q[c] = call[c] \/ q[c] = Idle,
         UNCHANGED <<states, sessions>>
  PROVE  IInv'
<1>1. StoreOK'
  BY AppendStore, Zenon DEF IInv
<1>2. call' = Witnessed(table', q)
  BY Zenon DEF AppendEvent
<1>3. /\ AllOK(table', call')
      /\ \A c \in Callers : /\ call'[c].pc = q[c].pc
                            /\ q[c].pc # "crud" => call'[c] = q[c]
  BY <1>2, WitnessedCalls
<1>7. CallsOK'
  BY <1>3, Zenon DEF CallsOK
<1>4. \A l \in Logins \cup States : Spent(l) => Spent(l)'
  BY AppendLogins, Zenon DEF Spent, IInv
<1>5. \A c \in Callers : \A l \in Logins \cup States : Owes(call'[c], l) => Owes(call[c], l)
  BY <1>3 DEF Owes, Idle
<1>6. SessionsOK'
  BY <1>4, <1>5, SessionsKept, Zenon DEF IInv, SessionsOK
<1> QED
  BY <1>1, <1>7, <1>6, Zenon DEF IInv

\* A call that goes on, or ends, and owes no session by it keeps the invariant.
LEMMA CallStep ==
  ASSUME IInv, NEW c \in Callers, NEW q, CallOK(table, q), call' = [call EXCEPT ![c] = q],
         UNCHANGED <<table, events, sessions, states>>,
         \A l \in Logins \cup States : Owes(q, l) => Owes(call[c], l)
  PROVE  IInv'
<1>1. /\ CallsOK' /\ call'[c] = q
      /\ \A d \in Callers : d # c => call'[d] = call[d]
  BY CallGoesOn, Zenon DEF IInv
<1>2. StoreOK'
  BY Zenon DEF IInv, StoreOK
<1>3. \A l \in Logins \cup States : Spent(l) => Spent(l)'
  BY Zenon DEF Spent
<1>4. \A d \in Callers : \A l \in Logins \cup States : Owes(call'[d], l) => Owes(call[d], l)
  BY <1>1, Zenon
<1>5. states' \in [States -> [provider : OIDCProviders, stored : BOOLEAN] \cup {NoRow}]
  BY Zenon DEF IInv, SessionsOK
<1>6. SessionsOK'
  BY <1>3, <1>4, <1>5, SessionsKept, Zenon DEF IInv
<1> QED
  BY <1>1, <1>2, <1>6, Zenon DEF IInv

\* An idle call is in order and owes nothing.
LEMMA IdleCall ==
  ASSUME NEW t
  PROVE  CallOK(t, Idle) /\ \A l : ~Owes(Idle, l)
BY Zenon DEF CallOK, Owes, Idle

\* A call that ends with an append or without an effect.
LEMMA IdleCalls ==
  ASSUME IInv, NEW c \in Callers, NEW q, q = [call EXCEPT ![c] = Idle]
  PROVE  /\ AllOK(table, q) /\ q[c] = Idle
         /\ \A d \in Callers : q[d] = call[d] \/ q[d] = Idle
         /\ \A d \in Callers : d # c => q[d] = call[d]
BY IdleCall, Zenon DEF IInv, CallsOK, AllOK

\* The effect of a step on the store: none, or one append, by which no request of
\* the kernel that has reads left to make ends.
Writes(e, q) ==
  /\ IsEvent(e) /\ Fits(e) /\ AppendEvent(e, q) /\ AllOK(table, q)
  /\ \A c \in Callers : \/ q[c] = call[c]
                        \/ call[c].pc # "crud"
                        \/ call[c].todo = <<>>
Effect == UNCHANGED store \/ \E e, q : Writes(e, q)

\* Ends: a call that is refused.
LEMMA EndsStep ==
  ASSUME IInv, NEW c \in Callers, Ends(c), UNCHANGED <<states, sessions>>
  PROVE  IInv' /\ Effect
<1>1. CallOK(table, Idle) /\ \A l : ~Owes(Idle, l)
  BY IdleCall, Zenon
<1>2. call' = [call EXCEPT ![c] = Idle] /\ UNCHANGED <<table, events>>
  BY Zenon DEF Ends, store
<1> HIDE DEF Idle
<1>3. IInv'
  BY <1>1, <1>2, CallStep, Zenon
<1> QED
  BY <1>2, <1>3, Zenon DEF Effect, store

\* A call that ends with its append.
LEMMA LastAppend ==
  ASSUME IInv, NEW c \in Callers, NEW e, IsEvent(e), Fits(e),
         AppendEvent(e, [call EXCEPT ![c] = Idle]), UNCHANGED <<states, sessions>>,
         call[c].pc # "crud" \/ call[c].todo = <<>>
  PROVE  IInv' /\ Effect
<1> DEFINE q == [call EXCEPT ![c] = Idle]
<1>1. AppendEvent(e, q)
  BY Zenon
<1>2. /\ AllOK(table, q)
      /\ \A d \in Callers : q[d] = call[d] \/ q[d] = Idle
      /\ \A d \in Callers : d # c => q[d] = call[d]
  BY IdleCalls, ZenonT(60)
<1> HIDE DEF q
<1>3. IInv'
  BY <1>1, <1>2, AppendStep, Zenon
<1>4. Writes(e, q)
  BY <1>1, <1>2, Zenon DEF Writes
<1> QED
  BY <1>3, <1>4, Zenon DEF Effect

\* A call that is one append.
LEMMA OnlyAppend ==
  ASSUME IInv, NEW e, IsEvent(e), Fits(e), AppendEvent(e, call), UNCHANGED <<states, sessions>>
  PROVE  IInv' /\ Effect
<1>1. AllOK(table, call)
  BY Zenon DEF IInv, CallsOK
<1>2. IInv'
  BY <1>1, AppendStep, Zenon
<1>3. Writes(e, call)
  BY <1>1, Zenon DEF Writes
<1> QED
  BY <1>2, <1>3, Zenon DEF Effect

\* A read that was not the first is still to be made, and none is when the list is empty.
LEMMA RestOfReads ==
  ASSUME NEW todo, NEW read, Lists(todo, read)
  PROVE  /\ todo # <<>>
         /\ Head(todo) # read => Lists(Tail(todo), read)
<1>1. todo \in Seq({todo[i] : i \in 1 .. Len(todo)}) /\ Len(todo) \in Nat
  BY DEF Lists, IsLog
<1>2. PICK i \in 1 .. Len(todo) : todo[i] = read
  BY Zenon DEF Lists
<1>3. todo # <<>>
  BY <1>1, <1>2
<1>4. ASSUME Head(todo) # read
      PROVE  Lists(Tail(todo), read)
  <2>1. i - 1 \in 1 .. Len(Tail(todo)) /\ Tail(todo)[i - 1] = read
    BY <1>1, <1>2, <1>3, <1>4
  <2>2. Tail(todo) \in Seq({todo[j] : j \in 1 .. Len(todo)})
    BY <1>1, <1>3
  <2> QED
    BY <2>1, <2>2, SequenceIsLog, Zenon DEF Lists
<1> QED
  BY <1>3, <1>4, Zenon

-----------------------------------------------------------------------------
(* Every action preserves the invariant and makes one append at most *)

\* authorize: what decides the request is in reach, or its scoped read comes first.
LEMMA AuthorizeStep ==
  ASSUME IInv, NEW c \in Callers, authorize(c)
  PROVE  IInv' /\ Effect
<1>1. UNCHANGED <<table, events, sessions, states>>
  BY Zenon DEF authorize, store, services
<1>2. PICK r \in Requests :
        LET d == managementDomains(r, GlobalScope)
            s == ScopeOf(Subject[c], d)
        IN /\ scopeAllows(d.relation, r.op, r.id, s)
           /\ call' = [call EXCEPT ![c] =
                [pc |-> "crud", request |-> r, scope |-> s,
                 expected |-> Version(r.id) + r.ahead,
                 todo |-> requireScopedMutationTarget(d, r, s) \o managementDomains(r, s).reads,
                 reached |-> Reached(table, s)]]
  BY Zenon DEF authorize
<1> DEFINE d == managementDomains(r, GlobalScope)
           s == ScopeOf(Subject[c], d)
           todo == requireScopedMutationTarget(d, r, s) \o managementDomains(r, s).reads
           expected == Version(r.id) + r.ahead
           q == [pc |-> "crud", request |-> r, scope |-> s, expected |-> expected,
                 todo |-> todo, reached |-> Reached(table, s)]
<1>3. \/ Decisive(r) \in Reached(table, s)
      \/ /\ Decisive(r) \in Targets \cup Tokens \cup Assignments
         /\ Lists(todo, Read(Decisive(r), s, "any"))
  BY <1>2, Covered, Zenon
<1>4. call' = [call EXCEPT ![c] = q]
  BY <1>2, Zenon
<1> HIDE DEF s, todo, expected
<1>5. /\ IsCrud(q) /\ q.pc = "crud" /\ q.request = r /\ q.scope = s /\ q.todo = todo
      /\ q.reached = Reached(table, s)
  BY Zenon DEF IsCrud
<1> HIDE DEF q
<1>6. CrudOK(table, q)
  BY <1>3, <1>5, Zenon DEF CrudOK, ToRead
<1>7. CallOK(table, q) /\ \A l : ~Owes(q, l)
  BY <1>5, <1>6, Zenon DEF CallOK, Owes
<1>8. IInv'
  BY <1>1, <1>4, <1>7, CallStep, Zenon
<1> QED
  BY <1>1, <1>8, Zenon DEF Effect, store

\* validateDomainMutationScope: a scoped read that finds its object shows that the
\* object is in reach; the other reads leave the list of those still to be made.
LEMMA ReadStep ==
  ASSUME IInv, NEW c \in Callers, validateDomainMutationScope(c)
  PROVE  IInv' /\ Effect
<1> DEFINE q == call[c]
           w == [q EXCEPT !.todo = Tail(q.todo)]
<1>1. /\ UNCHANGED <<table, events, sessions, states>>
      /\ q.pc = "crud"
  BY Zenon DEF validateDomainMutationScope, store, services
<1>2. CrudOK(table, q)
  BY <1>1, Zenon DEF IInv, CallsOK, AllOK, CallOK
<1>3. CASE call' = [call EXCEPT ![c] = Idle]
  BY <1>1, <1>3, EndsStep, Zenon DEF Ends, store
<1>4. CASE Satisfied(q, Head(q.todo)) /\ call' = [call EXCEPT ![c] = w]
  <2> DEFINE rest == Tail(q.todo)
  <2>0. w = [q EXCEPT !.todo = rest]
    BY Zenon
  <2> HIDE DEF q, w, rest
  <2>1. /\ IsCrud(w) /\ w.pc = "crud" /\ w.request = q.request /\ w.scope = q.scope
        /\ w.todo = rest /\ w.reached = q.reached
    BY <1>2, <2>0 DEF CrudOK, IsCrud
  <2> DEFINE k == Decisive(q.request)
             read == Read(k, q.scope, "any")
  <2>2. k \in w.reached \/ ToRead(w)
    <3>1. CASE k \in q.reached
      BY <2>1, <3>1, Zenon
    <3>2. CASE ToRead(q) /\ Head(q.todo) = read
      <4>1. ByID(table, k, q.scope)
        BY <1>4, <3>2 DEF Satisfied, Read
      <4>2. k \in Reached(table, q.scope)
        BY <3>2, <4>1, FoundIsReached, Zenon DEF ToRead
      <4> QED
        BY <1>2, <2>1, <4>2, ZenonT(60) DEF CrudOK
    <3>3. CASE ToRead(q) /\ Head(q.todo) # read
      <4>1. Lists(Tail(q.todo), read)
        BY <3>3, RestOfReads, Zenon DEF ToRead
      <4> QED
        BY <2>1, <3>3, <4>1, Zenon DEF ToRead, rest
    <3> QED
      BY <1>2, <3>1, <3>2, <3>3, Zenon DEF CrudOK
  <2>3. CallOK(table, w) /\ \A l : ~Owes(w, l)
    BY <1>2, <2>1, <2>2, Zenon DEF CallOK, CrudOK, Owes
  <2>4. IInv'
    BY <1>1, <1>4, <2>3, CallStep, Zenon
  <2> QED
    BY <1>1, <2>4, Zenon DEF Effect, store
<1>5. call' = [call EXCEPT ![c] = IF Satisfied(q, Head(q.todo)) THEN w ELSE Idle]
  BY Zenon DEF validateDomainMutationScope
<1> HIDE DEF q, w
<1> QED
  BY <1>3, <1>4, <1>5, Zenon

\* create, update, delete: the append of the request's event, or its refusal.
LEMMA MutateStep ==
  ASSUME IInv, NEW c \in Callers, mutate(c)
  PROVE  IInv' /\ Effect
<1>1. call[c].pc = "crud" /\ call[c].todo = <<>> /\ UNCHANGED <<states, sessions>>
  BY Zenon DEF mutate, services
<1>2. call[c].request \in Requests
  BY <1>1, Zenon DEF IInv, CallsOK, AllOK, CallOK, CrudOK
<1> DEFINE e == managementDomains(call[c].request, call[c].scope).event
<1>3. IsEvent(e) /\ Fits(e)
  BY <1>2, RequestEvent, Zenon
<1>4. AppendEvent(e, [call EXCEPT ![c] = Idle]) \/ Ends(c)
  BY Zenon DEF mutate
<1> HIDE DEF e
<1> QED
  BY <1>1, <1>3, <1>4, LastAppend, EndsStep, Zenon

\* API tokens, SCIM providers and inventories: one append, or a read and then a
\* pinned append.
LEMMA PendingStep ==
  ASSUME IInv, NEW c \in Callers, NEW e, IsEvent(e), Fits(e), NEW version,
         Pending(c, e, version), UNCHANGED <<table, events, sessions, states>>
  PROVE  IInv' /\ Effect
<1> DEFINE q == [pc |-> "append", event |-> e, version |-> version]
<1>1. call' = [call EXCEPT ![c] = q]
  BY Zenon DEF Pending
<1>2. q.pc = "append" /\ q.event = e
  BY Zenon
<1> HIDE DEF q
<1>3. CallOK(table, q) /\ \A l : ~Owes(q, l)
  BY <1>2, Zenon DEF CallOK, Owes
<1> QED
  BY <1>1, <1>3, CallStep, ZenonT(60) DEF Effect, store

\* The calls on tokens, SCIM providers, inventories and logins that append.
LEMMA ManagementStep ==
  ASSUME IInv, NEW c \in Callers,
         \/ MintPAT(c) \/ RevokePAT(c)
         \/ CreateSCIMProvider(c) \/ RotateSCIMProvider(c) \/ DisableSCIMProviderCall(c)
         \/ AppendPending(c) \/ RecordInventory(c) \/ MintLogin(c)
  PROVE  IInv' /\ Effect
<1>1. CASE MintPAT(c)
  <2>1. PICK k \in Tokens, u \in Users : AppendEvent(PersonalAccessTokenMintedEvent(k, u), call)
    BY <1>1, Zenon DEF MintPAT, AppendEventWithVersion
  <2>2. /\ IsEvent(PersonalAccessTokenMintedEvent(k, u))
        /\ Fits(PersonalAccessTokenMintedEvent(k, u))
    BY Zenon DEF PersonalAccessTokenMintedEvent, Event, IsEvent, Fits, TokenData
  <2> QED
    BY <1>1, <2>1, <2>2, OnlyAppend, Zenon DEF MintPAT, services
<1>2. CASE RevokePAT(c)
  <2>1. PICK k \in Tokens : Pending(c, PersonalAccessTokenRevokedEvent(k), table[k].version)
    BY <1>2, Zenon DEF RevokePAT
  <2>2. /\ IsEvent(PersonalAccessTokenRevokedEvent(k))
        /\ Fits(PersonalAccessTokenRevokedEvent(k))
    BY Zenon DEF PersonalAccessTokenRevokedEvent, Event, IsEvent, Fits
  <2> QED
    BY <1>2, <2>1, <2>2, PendingStep, Zenon DEF RevokePAT, services, store
<1>3. CASE CreateSCIMProvider(c)
  <2>1. PICK p \in SCIMProviders : AppendEvent(SCIMProviderCreatedEvent(p), call)
    BY <1>3, Zenon DEF CreateSCIMProvider, AppendEventWithVersion
  <2>2. IsEvent(SCIMProviderCreatedEvent(p)) /\ Fits(SCIMProviderCreatedEvent(p))
    BY Zenon DEF SCIMProviderCreatedEvent, Event, IsEvent, Fits
  <2> QED
    BY <1>3, <2>1, <2>2, OnlyAppend, Zenon DEF CreateSCIMProvider, services
<1>4. CASE RotateSCIMProvider(c)
  <2>1. PICK p \in SCIMProviders : Pending(c, SCIMProviderTokenRotatedEvent(p), table[p].version)
    BY <1>4, Zenon DEF RotateSCIMProvider
  <2>2. IsEvent(SCIMProviderTokenRotatedEvent(p)) /\ Fits(SCIMProviderTokenRotatedEvent(p))
    BY Zenon DEF SCIMProviderTokenRotatedEvent, Event, IsEvent, Fits
  <2> QED
    BY <1>4, <2>1, <2>2, PendingStep, Zenon DEF RotateSCIMProvider, services, store
<1>5. CASE DisableSCIMProviderCall(c)
  <2>1. PICK p \in SCIMProviders : Pending(c, SCIMProviderDisabledEvent(p), table[p].version)
    BY <1>5, Zenon DEF DisableSCIMProviderCall
  <2>2. IsEvent(SCIMProviderDisabledEvent(p)) /\ Fits(SCIMProviderDisabledEvent(p))
    BY Zenon DEF SCIMProviderDisabledEvent, Event, IsEvent, Fits
  <2> QED
    BY <1>5, <2>1, <2>2, PendingStep, Zenon DEF DisableSCIMProviderCall, services, store
<1>6. CASE AppendPending(c)
  <2>1. /\ call[c].pc = "append" /\ UNCHANGED <<states, sessions>>
        /\ AppendEvent(call[c].event, [call EXCEPT ![c] = Idle]) \/ Ends(c)
    BY <1>6, Zenon DEF AppendPending, Pinned, services
  <2>2. IsEvent(call[c].event) /\ Fits(call[c].event)
    BY <2>1, Zenon DEF IInv, CallsOK, AllOK, CallOK
  <2> QED
    BY <2>1, <2>2, LastAppend, EndsStep, Zenon
<1>7. CASE RecordInventory(c)
  <2>0. PICK i \in Inventories :
          \E e \in {InventorySnapshotEvent(i), InventoryTombstoneEvent(i)} : AppendEvent(e, call)
    BY <1>7, Zenon DEF RecordInventory
  <2>1. PICK e \in {InventorySnapshotEvent(i), InventoryTombstoneEvent(i)} : AppendEvent(e, call)
    BY <2>0, Zenon
  <2>2. IsEvent(e) /\ Fits(e)
    BY DEF InventorySnapshotEvent, InventoryTombstoneEvent, Event, IsEvent, Fits
  <2> QED
    BY <1>7, <2>1, <2>2, OnlyAppend, Zenon DEF RecordInventory, services
<1>8. CASE MintLogin(c)
  <2>1. PICK l \in Logins, u \in Users : AppendEvent(BootstrapLoginMintedEvent(l, u), call)
    BY <1>8, Zenon DEF MintLogin, AppendEventWithVersion
  <2>2. IsEvent(BootstrapLoginMintedEvent(l, u)) /\ Fits(BootstrapLoginMintedEvent(l, u))
    BY Zenon DEF BootstrapLoginMintedEvent, Event, IsEvent, Fits
  <2> QED
    BY <1>8, <2>1, <2>2, OnlyAppend, Zenon DEF MintLogin, services
<1> QED
  BY <1>1, <1>2, <1>3, <1>4, <1>5, <1>6, <1>7, <1>8, ZenonT(60)

\* What the sessions need of the step that spends a login or state: only an unspent
\* one is spent, so nobody else owes a session from it, and none was started.
LEMMA NewDebt ==
  ASSUME SessionsOK, UNCHANGED sessions, NEW l \in Logins \cup States, ~Spent(l), Spent(l)',
         states' \in [States -> [provider : OIDCProviders, stored : BOOLEAN] \cup {NoRow}],
         \A m \in Logins \cup States : Spent(m) => Spent(m)', NEW c \in Callers,
         \A d \in Callers : \A m \in Logins \cup States :
           Owes(call'[d], m) => Owes(call[d], m) \/ (d = c /\ m = l)
  PROVE  SessionsOK'
<1>1. sessions[l] = 0 /\ \A d \in Callers : ~Owes(call[d], l)
  BY Zenon DEF SessionsOK
<1>2. ASSUME NEW m \in Logins \cup States
      PROVE  /\ sessions'[m] = 1 => Spent(m)'
             /\ \A d \in Callers : Owes(call'[d], m) => Spent(m)' /\ sessions'[m] = 0
             /\ \A d, f \in Callers : Owes(call'[d], m) /\ Owes(call'[f], m) => d = f
  <2>1. /\ sessions[m] = 1 => Spent(m)
        /\ \A d \in Callers : Owes(call[d], m) => Spent(m) /\ sessions[m] = 0
        /\ \A d, f \in Callers : Owes(call[d], m) /\ Owes(call[f], m) => d = f
    BY Zenon DEF SessionsOK
  <2> QED
    BY <1>1, <2>1, ZenonT(60)
<1>3. sessions' \in [Logins \cup States -> {0, 1}]
  BY Zenon DEF SessionsOK
<1> QED
  BY <1>2, <1>3, Zenon DEF SessionsOK

\* SpendLogin: the consumption is accepted once, and then a session is owed.
LEMMA SpendStep ==
  ASSUME IInv, NEW c \in Callers, SpendLogin(c)
  PROVE  IInv' /\ Effect
<1>1. call[c].pc = "spend" /\ UNCHANGED <<states, sessions>>
  BY Zenon DEF SpendLogin, services
<1>2. PICK l \in Logins : l = call[c].login
  BY <1>1, Zenon DEF IInv, CallsOK, AllOK, CallOK
<1> DEFINE e == BootstrapLoginConsumedEvent(l)
           x == SessionFor(l, call[c].user)
           q == [call EXCEPT ![c] = x]
<1>3. IsEvent(e) /\ Fits(e) /\ e.type = "BootstrapLoginConsumed" /\ e.stream = l
  BY <1>2, Zenon DEF BootstrapLoginConsumedEvent, Event, IsEvent, Fits
<1>4. CASE Ends(c)
  BY <1>1, <1>4, EndsStep, Zenon
<1>5. CASE AppendEvent(e, q)
  <2>1. x.pc = "session" /\ x.from = l
    BY Zenon DEF SessionFor
  <2> HIDE DEF e, x
  <2>2. CallOK(table, x)
    BY <1>2, <2>1, Zenon DEF CallOK
  <2>3. /\ AllOK(table, q) /\ q[c] = x /\ \A d \in Callers : d # c => q[d] = call[d]
    BY <2>2, Zenon DEF IInv, CallsOK, AllOK
  <2> HIDE DEF q
  <2>4. StoreOK'
    BY <1>3, <1>5, AppendStore, Zenon DEF IInv
  <2>5. call' = Witnessed(table', q)
    BY <1>5, Zenon DEF AppendEvent
  <2>6. /\ AllOK(table', call')
        /\ \A d \in Callers : call'[d].pc = q[d].pc /\ (q[d].pc # "crud" => call'[d] = q[d])
    BY <2>3, <2>5, WitnessedCalls
  <2>7. /\ \A m \in Logins : Live(table, m) /\ table[m].data.consumed
                               => Live(table', m) /\ table'[m].data.consumed
        /\ ~(Live(table, l) /\ table[l].data.consumed)
        /\ Live(table', l) /\ table'[l].data.consumed
    BY <1>2, <1>3, <1>5, AppendLogins, Zenon DEF IInv
  <2>8. /\ \A m \in Logins \cup States : Spent(m) => Spent(m)'
        /\ ~Spent(l) /\ Spent(l)'
    BY <1>1, <1>2, <2>7, AccessAssumption, Zenon DEF Spent
  <2>9. \A d \in Callers : \A m \in Logins \cup States :
          Owes(call'[d], m) => Owes(call[d], m) \/ (d = c /\ m = l)
    BY <2>1, <2>3, <2>6, Zenon DEF Owes
  <2>10. states' \in [States -> [provider : OIDCProviders, stored : BOOLEAN] \cup {NoRow}]
    BY <1>1, Zenon DEF IInv, SessionsOK
  <2>11. SessionsOK'
    BY <1>1, <1>2, <2>8, <2>9, <2>10, NewDebt, ZenonT(60) DEF IInv
  <2>12. Writes(e, q)
    BY <1>1, <1>3, <1>5, <2>3, ZenonT(60) DEF Writes
  <2> QED
    BY <2>4, <2>6, <2>11, <2>12, ZenonT(60) DEF IInv, CallsOK, Effect
<1> QED
  BY <1>2, <1>4, <1>5, Zenon DEF SpendLogin

\* StartSession: the debt is paid, or dropped.
LEMMA SessionStep ==
  ASSUME IInv, NEW c \in Callers, StartSession(c)
  PROVE  IInv' /\ Effect
<1> DEFINE l == call[c].from
<1>1. /\ call[c].pc = "session" /\ UNCHANGED <<table, events, states>>
      /\ call' = [call EXCEPT ![c] = Idle]
      /\ sessions' \in {[sessions EXCEPT ![l] = @ + 1], sessions}
  BY Zenon DEF StartSession, store
<1>2. l \in Logins \cup States
  BY <1>1, Zenon DEF IInv, CallsOK, AllOK, CallOK
<1>3. Owes(call[c], l) /\ Spent(l) /\ sessions[l] = 0
  BY <1>1, <1>2, Zenon DEF Owes, IInv, SessionsOK
<1>4. \A m \in Logins \cup States : Spent(m)' = Spent(m)
  BY <1>1, Zenon DEF Spent
<1> HIDE DEF l
<1>5. /\ CallsOK' /\ call'[c] = Idle
      /\ \A d \in Callers : d # c => call'[d] = call[d]
  BY <1>1, IdleCall, CallGoesOn, Zenon DEF IInv
<1>6. \A d \in Callers : \A m \in Logins \cup States :
        Owes(call'[d], m) => d # c /\ Owes(call[d], m)
  BY <1>5, IdleCall, Zenon
<1>7. /\ sessions' \in [Logins \cup States -> {0, 1}]
      /\ \A m \in Logins \cup States : m # l => sessions'[m] = sessions[m]
  BY <1>1, <1>2, <1>3 DEF IInv, SessionsOK
<1>8. ASSUME NEW m \in Logins \cup States
      PROVE  /\ sessions'[m] = 1 => Spent(m)'
             /\ \A d \in Callers : Owes(call'[d], m) => Spent(m)' /\ sessions'[m] = 0
             /\ \A d, f \in Callers : Owes(call'[d], m) /\ Owes(call'[f], m) => d = f
  <2>1. /\ sessions[m] = 1 => Spent(m)
        /\ \A d \in Callers : Owes(call[d], m) => Spent(m) /\ sessions[m] = 0
        /\ \A d, f \in Callers : Owes(call[d], m) /\ Owes(call[f], m) => d = f
    BY Zenon DEF IInv, SessionsOK
  <2> QED
    BY <1>3, <1>4, <1>6, <1>7, <2>1, Zenon
<1>9. states' \in [States -> [provider : OIDCProviders, stored : BOOLEAN] \cup {NoRow}]
  BY <1>1, Zenon DEF IInv, SessionsOK
<1>10. SessionsOK'
  BY <1>7, <1>8, <1>9, Zenon DEF SessionsOK
<1>11. StoreOK'
  BY <1>1, Zenon DEF IInv, StoreOK
<1> QED
  BY <1>1, <1>5, <1>10, <1>11, ZenonT(60) DEF IInv, Effect, store

\* OIDC: a state is stored once, and the call that deletes it owes a session; what
\* the clean-up deletes starts none.
LEMMA OIDCStep ==
  ASSUME IInv, NEW c \in Callers, StartOIDC(c) \/ StoreOIDCLoginState(c)
  PROVE  IInv' /\ Effect
<1> DEFINE typed == [provider : OIDCProviders, stored : BOOLEAN]
<1>1. UNCHANGED <<table, events, sessions>>
  BY Zenon DEF StartOIDC, StoreOIDCLoginState, store
<1>2. states \in [States -> typed \cup {NoRow}] /\ NoRow \notin typed
  BY AccessAssumption, Zenon DEF IInv, SessionsOK
<1>3. /\ states' \in [States -> typed \cup {NoRow}]
      /\ \A s \in States : states[s] # NoRow /\ ~states[s].stored => states'[s] = states[s]
  <2>1. CASE StartOIDC(c)
    <3>1. PICK kept \in SUBSET States :
            states' = [s \in States |-> IF states[s] # NoRow /\ s \notin kept
                                        THEN [states[s] EXCEPT !.stored = FALSE] ELSE states[s]]
      BY <2>1, Zenon DEF StartOIDC, DeleteExpiredOIDCLoginStates
    <3>2. ASSUME NEW s \in States, states[s] # NoRow
          PROVE  /\ [states[s] EXCEPT !.stored = FALSE] \in typed
                 /\ ~states[s].stored => [states[s] EXCEPT !.stored = FALSE] = states[s]
      BY <1>2, <3>2, Zenon
    <3> QED
      BY <1>2, <3>1, <3>2, Zenon
  <2>2. CASE StoreOIDCLoginState(c)
    <3>1. call[c].provider \in OIDCProviders
      BY <2>2, Zenon DEF StoreOIDCLoginState, IInv, CallsOK, AllOK, CallOK
    <3>2. PICK s \in States :
            /\ states[s] = NoRow
            /\ states' = [states EXCEPT ![s] = [provider |-> call[c].provider, stored |-> TRUE]]
      BY <2>2, Zenon DEF StoreOIDCLoginState
    <3>3. [provider |-> call[c].provider, stored |-> TRUE] \in typed
      BY <3>1, Zenon
    <3> QED
      BY <1>2, <3>2, <3>3, Zenon
  <2> QED
    BY <2>1, <2>2, Zenon
<1>4. PICK q : /\ call' = [call EXCEPT ![c] = q]
               /\ CallOK(table, q) /\ \A l : ~Owes(q, l)
  <2>1. CASE StartOIDC(c)
    <3>1. PICK p \in OIDCProviders : call' = [call EXCEPT ![c] = [pc |-> "bind", provider |-> p]]
      BY <2>1, Zenon DEF StartOIDC
    <3>2. /\ CallOK(table, [pc |-> "bind", provider |-> p])
          /\ \A l : ~Owes([pc |-> "bind", provider |-> p], l)
      BY Zenon DEF CallOK, Owes
    <3> QED
      BY <3>1, <3>2, Zenon
  <2>2. CASE StoreOIDCLoginState(c)
    BY <2>2, IdleCall, Zenon DEF StoreOIDCLoginState
  <2> QED
    BY <2>1, <2>2, Zenon
<1>5. /\ CallsOK' /\ call'[c] = q
      /\ \A d \in Callers : d # c => call'[d] = call[d]
  BY <1>1, <1>4, CallGoesOn, Zenon DEF IInv
<1>6. \A l \in Logins \cup States : Spent(l) => Spent(l)'
  BY <1>1, <1>3, Zenon DEF Spent
<1>7. \A d \in Callers : \A l \in Logins \cup States : Owes(call'[d], l) => Owes(call[d], l)
  BY <1>4, <1>5, ZenonT(60)
<1>8. SessionsOK'
  BY <1>1, <1>3, <1>6, <1>7, SessionsKept, Zenon DEF IInv
<1>9. StoreOK'
  BY <1>1, Zenon DEF IInv, StoreOK
<1> QED
  BY <1>1, <1>5, <1>8, <1>9, Zenon DEF IInv, Effect, store

\* CompleteOIDC: the state is deleted by the call that reads it.
LEMMA CompleteStep ==
  ASSUME IInv, NEW c \in Callers, CompleteOIDC(c)
  PROVE  IInv' /\ Effect
<1> DEFINE typed == [provider : OIDCProviders, stored : BOOLEAN]
<1>1. UNCHANGED <<table, events, sessions>>
  BY Zenon DEF CompleteOIDC, store
<1>2. PICK s \in States, expired \in BOOLEAN :
        /\ Issued(s) /\ states' = ConsumedOIDCLoginState(s)
        /\ call' = [call EXCEPT ![c] =
             IF expired THEN Idle
             ELSE [pc |-> "exchange", state |-> s, provider |-> states[s].provider]]
  BY Zenon DEF CompleteOIDC
<1>3. states \in [States -> typed \cup {NoRow}] /\ NoRow \notin typed
  BY AccessAssumption, Zenon DEF IInv, SessionsOK
<1>4. /\ states[s] \in typed /\ states[s].stored
      /\ states' = [states EXCEPT ![s] = [states[s] EXCEPT !.stored = FALSE]]
  BY <1>2, <1>3, Zenon DEF Issued, ConsumedOIDCLoginState
<1>5. [states[s] EXCEPT !.stored = FALSE] \in typed /\ ~[states[s] EXCEPT !.stored = FALSE].stored
  BY <1>4, Zenon
<1>6. /\ states' \in [States -> typed \cup {NoRow}]
      /\ states'[s] # NoRow /\ ~states'[s].stored
      /\ \A l \in States : l # s => states'[l] = states[l]
  BY <1>3, <1>4, <1>5, Zenon
<1>7. /\ \A l \in Logins \cup States : Spent(l) => Spent(l)'
      /\ ~Spent(s) /\ Spent(s)'
  BY <1>1, <1>4, <1>6, AccessAssumption, Zenon DEF Spent
<1> DEFINE x == [pc |-> "exchange", state |-> s, provider |-> states[s].provider]
<1>8. /\ CallOK(table, x) /\ CallOK(table, Idle)
      /\ \A l : ~Owes(Idle, l)
      /\ \A l : Owes(x, l) => l = s
  BY IdleCall, Zenon DEF CallOK, Owes
<1>9. PICK q \in {Idle, x} : call' = [call EXCEPT ![c] = q]
  BY <1>2, Zenon
<1> HIDE DEF x
<1>10. /\ CallsOK' /\ call'[c] = q
       /\ \A d \in Callers : d # c => call'[d] = call[d]
  BY <1>1, <1>8, <1>9, CallGoesOn, Zenon DEF IInv
<1>11. \A d \in Callers : \A l \in Logins \cup States :
         Owes(call'[d], l) => Owes(call[d], l) \/ (d = c /\ l = s)
  BY <1>8, <1>9, <1>10, Zenon
<1>12. SessionsOK'
  BY <1>1, <1>6, <1>7, <1>11, NewDebt, ZenonT(60) DEF IInv
<1>13. StoreOK'
  BY <1>1, Zenon DEF IInv, StoreOK
<1> QED
  BY <1>1, <1>10, <1>12, <1>13, Zenon DEF IInv, Effect, store

\* The other calls owe what they owed, and leave the store as it is.
LEMMA ServiceStep ==
  ASSUME IInv, NEW c \in Callers,
         \/ ConsumeLogin(c) \/ ExchangeOIDC(c) \/ CheckSCIM(c) \/ CompareSCIM(c)
         \/ BindExecutionOutputToDevice(c) \/ AppendExecutionOutput(c)
  PROVE  IInv' /\ Effect
<1>1. UNCHANGED <<table, events, sessions, states>>
  BY Zenon DEF ConsumeLogin, ExchangeOIDC, CheckSCIM, CompareSCIM, BindExecutionOutputToDevice,
         AppendExecutionOutput, store, services
<1>2. Effect
  BY <1>1, Zenon DEF Effect, store
<1>3. CASE \E q : /\ call' = [call EXCEPT ![c] = q] /\ CallOK(table, q)
                  /\ \A l \in Logins \cup States : Owes(q, l) => Owes(call[c], l)
  BY <1>1, <1>2, <1>3, CallStep, Zenon
<1>4. CASE UNCHANGED call
  BY <1>1, <1>2, <1>4, Zenon DEF IInv, StoreOK, CallsOK, SessionsOK, Spent
<1>5. CASE ConsumeLogin(c)
  <2>1. PICK l \in Logins :
          call' = [call EXCEPT ![c] = [pc |-> "spend", login |-> l, version |-> table[l].version,
                                       user |-> table[l].data.user]]
    BY <1>5, Zenon DEF ConsumeLogin
  <2> DEFINE q == [pc |-> "spend", login |-> l, version |-> table[l].version,
                   user |-> table[l].data.user]
  <2>2. q.pc = "spend" /\ q.login = l
    BY Zenon
  <2> HIDE DEF q
  <2>3. CallOK(table, q) /\ \A m : ~Owes(q, m)
    BY <2>2, Zenon DEF CallOK, Owes
  <2> QED
    BY <1>3, <2>1, <2>3, Zenon DEF q
<1>6. CASE ExchangeOIDC(c)
  <2>1. CASE call' = [call EXCEPT ![c] = Idle]
    BY <1>3, <2>1, IdleCall, Zenon
  <2>2. ASSUME NEW u \in Users, call' = [call EXCEPT ![c] = SessionFor(call[c].state, u)]
        PROVE  IInv' /\ Effect
    <3> DEFINE q == SessionFor(call[c].state, u)
    <3>1. call[c].pc = "exchange" /\ call[c].state \in States
      BY <1>6, Zenon DEF ExchangeOIDC, IInv, CallsOK, AllOK, CallOK
    <3>2. q.pc = "session" /\ q.from = call[c].state
      BY Zenon DEF SessionFor
    <3> HIDE DEF q
    <3>3. /\ CallOK(table, q)
          /\ \A l \in Logins \cup States : Owes(q, l) => Owes(call[c], l)
      BY <3>1, <3>2, Zenon DEF CallOK, Owes
    <3> QED
      BY <1>3, <2>2, <3>3, Zenon DEF q
  <2> QED
    BY <1>6, <2>1, <2>2, Zenon DEF ExchangeOIDC
<1>7. CASE CheckSCIM(c)
  <2>1. PICK p, a, bearer :
          \/ call' = [call EXCEPT ![c] = [pc |-> "compare", provider |-> p, address |-> a,
                                          bearer |-> bearer]]
          \/ UNCHANGED call
    BY <1>7, Zenon DEF CheckSCIM
  <2> DEFINE q == [pc |-> "compare", provider |-> p, address |-> a, bearer |-> bearer]
  <2>2. q.pc = "compare"
    BY Zenon
  <2>3. call' = [call EXCEPT ![c] = q] \/ UNCHANGED call
    BY <2>1, Zenon
  <2> HIDE DEF q
  <2>4. CallOK(table, q) /\ \A l : ~Owes(q, l)
    BY <2>2, Zenon DEF CallOK, Owes
  <2> QED
    BY <1>3, <1>4, <2>3, <2>4, Zenon
<1>8. CASE CompareSCIM(c)
  BY <1>3, <1>8, IdleCall, Zenon DEF CompareSCIM
<1>9. CASE BindExecutionOutputToDevice(c) \/ AppendExecutionOutput(c)
  BY <1>4, <1>9, Zenon DEF BindExecutionOutputToDevice, AppendExecutionOutput
<1> QED
  BY <1>5, <1>6, <1>7, <1>8, <1>9, Zenon

\* Every step.
LEMMA Step ==
  ASSUME IInv, [Next]_vars
  PROVE  IInv' /\ Effect
<1>1. CASE UNCHANGED vars
  BY <1>1, Zenon DEF vars, Effect, store, IInv, StoreOK, CallsOK, SessionsOK, Spent
<1>2. CASE GrantDeleted
  BY <1>2, Zenon DEF GrantDeleted, services, Effect, store, IInv, StoreOK, CallsOK, SessionsOK, Spent
<1> QED
  BY <1>1, <1>2, AuthorizeStep, ReadStep, MutateStep, ManagementStep, SpendStep, SessionStep,
     OIDCStep, CompleteStep, ServiceStep, ZenonT(60) DEF Next

\* The set-up's rows and log, and no call under way.
LEMMA Initially ==
  ASSUME Init
  PROVE  IInv
<1>1. StoreOK
  BY SetupAssumption, Zenon DEF Init, StoreOK, SetupEvents
<1>2. \A c \in Callers : call[c] = Idle
  BY Zenon DEF Init
<1>3. CallsOK
  BY <1>2, IdleCall, Zenon DEF Init, CallsOK, AllOK
<1>4. \A c \in Callers : \A l : ~Owes(call[c], l)
  BY <1>2, IdleCall, Zenon
<1>5. SessionsOK
  BY <1>4 DEF Init, SessionsOK
<1> QED
  BY <1>1, <1>3, <1>5, Zenon DEF IInv

-----------------------------------------------------------------------------
(* Theorems *)

\* The inductive invariant of the management plane: rows of their kinds and logs
\* they agree with, requests that have what decides them in reach or still to read,
\* and one session at most, started or owed, of every spent login.
THEOREM Invariance == Spec => []IInv
<1>1. Init => IInv
  BY Initially, Zenon
<1>2. IInv /\ [Next]_vars => IInv'
  BY Step, Zenon
<1> QED
  BY <1>1, <1>2, PTL DEF Spec

\* A break-glass login and an OIDC authorization state start one session at most
\* (Consume, StartSession, Complete), for any number of callers.
THEOREM OneSessionTheorem == Spec => []OneSessionPerLogin
<1>1. IInv => OneSessionPerLogin
  <2> SUFFICES ASSUME IInv, NEW l \in Logins \cup States
               PROVE  sessions[l] <= 1
    BY Zenon DEF OneSessionPerLogin
  <2>1. sessions[l] \in {0, 1}
    BY Zenon DEF IInv, SessionsOK
  <2> QED
    BY <2>1
<1> QED
  BY <1>1, Invariance, PTL

\* No request changes what its scope did not reach between its authorization and its
\* append (authorize, requireScopedMutationTarget, validateDomainMutationScope,
\* mutate), whatever other callers change meanwhile.
THEOREM ConfinedTheorem == Spec => ConfinedWrites
<1>1. ASSUME IInv, [Next]_vars, NEW c \in Callers,
             call[c].pc = "crud", call'[c] = Idle, events' # events
      PROVE  Decisive(call[c].request) \in call[c].reached
  <2>1. PICK e, q : Writes(e, q)
    BY <1>1, Step, Zenon DEF Effect, store
  <2>2. call'[c].pc = q[c].pc
    BY <2>1, WitnessedCalls DEF Writes, AppendEvent
  <2>3. q[c] # call[c]
    BY <1>1, <2>2 DEF Idle
  <2>4. call[c].todo = <<>>
    BY <1>1, <2>1, <2>3, Zenon DEF Writes
  <2>5. CrudOK(table, call[c])
    BY <1>1, Zenon DEF IInv, CallsOK, AllOK, CallOK
  <2>6. ~ToRead(call[c])
    BY <2>4, RestOfReads, Zenon DEF ToRead
  <2> QED
    BY <2>5, <2>6, Zenon DEF CrudOK
<1>2. IInv /\ [Next]_vars
        => [\A c \in Callers :
              (call[c].pc = "crud" /\ call'[c] = Idle /\ events' # events)
                => Decisive(call[c].request) \in call[c].reached]_vars
  BY <1>1, Zenon
<1> QED
  BY <1>2, Invariance, PTL DEF Spec, ConfinedWrites

\* What ended stays ended: no append of any handler brings back a deleted object, a
\* revoked token, a spent login or a bearer that was rotated away, disabled or deleted.
THEOREM NothingReturnsTheorem == Spec => NothingReturns
<1>1. ASSUME IInv, [Next]_vars
      PROVE  StaysEnded
  <2>1. CASE UNCHANGED store
    BY <2>1, Zenon DEF store, StaysEnded, Accepts, Live
  <2>2. CASE \E e, q : Writes(e, q)
    BY <1>1, <2>2, AppendStaysEnded, Zenon DEF Writes, IInv
  <2> QED
    BY <1>1, <2>1, <2>2, Step, Zenon DEF Effect
<1>2. IInv /\ [Next]_vars => [StaysEnded]_vars
  BY <1>1, Zenon
<1> QED
  BY <1>2, Invariance, PTL DEF Spec, NothingReturns, StaysEnded

-----------------------------------------------------------------------------
(* Lists and gets *)

\* Each list statement selects what its get statement finds.
LEMMA ListIsPage ==
  ASSUME NEW t, NEW ks \in Kinds, NEW any \in ks, NEW s, NEW n
  PROVE  ListOf(t, any, s, n) = Page({k \in ks : ByID(t, k, s)}, n)
<1> DEFINE found == {k \in ks : ByID(t, k, s)}
<1> USE StreamTypesAssumption
<1>1. CASE ks = Actions
  <2>1. found = {a \in Actions : Live(t, a) /\ (s.global \/ AssignedWithin(t, a, s))}
    BY <1>1, Zenon DEF ByID, ManagedActionByID, GetScopedManagedAction
  <2> QED
    BY <1>1, <2>1, Zenon DEF ListOf, ListManagedActions, ListScopedManagedActions
<1>2. CASE ks = ActionSets
  <2>1. found = {a \in ActionSets : Live(t, a) /\ (s.global \/ AssignedWithin(t, a, s))}
    BY <1>2, Zenon DEF ByID, ManagedActionSetByID, GetScopedManagedActionSet
  <2> QED
    BY <1>2, <2>1, Zenon DEF ListOf, ListManagedActionSets, ListScopedManagedActionSets
<1>3. CASE ks = Assignments
  <2>1. found = {a \in Assignments : Live(t, a) /\
                   (s.global \/ t[a].data.target \in s.dgs \cup s.ugs \cup {s.self})}
    BY <1>3, Zenon DEF ByID, AssignmentByID, GetScopedAssignment
  <2> QED
    BY <1>3, <2>1, Zenon DEF ListOf, ListAssignments, ListScopedAssignments
<1>4. CASE ks = Policies
  <2>1. found = {p \in Policies : Live(t, p) /\ s.global}
    BY <1>4, Zenon DEF ByID, CompliancePolicyByID, GetCompliancePolicy
  <2> QED
    BY <1>4, <2>1, Zenon DEF ListOf, ListCompliancePolicies
<1>5. CASE ks = Settings
  <2>1. found = {k \in Settings : Live(t, k)}
    BY <1>5, Zenon DEF ByID, ServerSettingByID, GetServerSetting
  <2> QED
    BY <1>5, <2>1, Zenon DEF ListOf, ListServerSettings
<1>6. CASE ks = DeviceGroups
  <2>1. found = {g \in DeviceGroups : Live(t, g) /\ (s.global \/ g \in s.dgs)}
    BY <1>6, Zenon DEF ByID, DeviceGroupByID, GetScopedDeviceGroup
  <2> QED
    BY <1>6, <2>1, Zenon DEF ListOf, ListDeviceGroups, ListScopedDeviceGroups
<1>7. CASE ks = Devices
  <2>1. found = {d \in Devices : Live(t, d) /\ (s.global \/ InDeviceGroup(t, d, s))}
    BY <1>7, Zenon DEF ByID, ScopedDevice, GetScopedDevice
  <2> QED
    BY <1>7, <2>1, Zenon DEF ListOf, ListScopedDevices
<1>8. CASE ks = Inventories
  <2> DEFINE shown == {d \in Devices : /\ Live(t, InventoryOf[d]) /\ ~t[InventoryOf[d]].data.deleted
                                       /\ s.global \/ InDeviceGroup(t, d, s)}
  <2>1. \A k \in Inventories : ByID(t, k, s) <=> \E d \in shown : InventoryOf[d] = k
    BY Zenon DEF ByID, InventorySnapshotByID, GetScopedInventorySnapshot
  <2>2. \A d \in shown : InventoryOf[d] \in Inventories
    BY ResourcesAssumption, Zenon
  <2> HIDE DEF shown
  <2>3. found = {InventoryOf[d] : d \in shown}
    BY <1>8, <2>1, <2>2, ZenonT(60)
  <2> QED
    BY <1>8, <2>3, Zenon DEF ListOf, ListInventorySnapshots, ListScopedInventorySnapshots, shown
<1>9. CASE ks = Users
  <2>1. found = {u \in Users : Live(t, u) /\ (s.global \/ u = s.self \/ InAnyGroup(t, u, s))}
    BY <1>9, Zenon DEF ByID, ScopedUserByID, GetScopedUserByID
  <2> QED
    BY <1>9, <2>1, Zenon DEF ListOf, ListScopedUsers
<1>10. CASE ks = UserGroups
  <2>1. found = {g \in UserGroups : Live(t, g) /\ (s.global \/ g \in s.ugs)}
    BY <1>10, Zenon DEF ByID, UserGroupByID, GetScopedManagedUserGroup
  <2> QED
    BY <1>10, <2>1, Zenon DEF ListOf, ListUserGroups, ListScopedManagedUserGroups
<1>11. CASE ks = Tokens
  <2>1. found = {k \in Tokens : Live(t, k) /\ (\/ s.global
                                               \/ t[k].data.subject = s.self
                                               \/ InAnyGroup(t, t[k].data.subject, s))}
    BY <1>11, Zenon DEF ByID, ScopedPersonalAccessTokenByID, GetScopedPersonalAccessToken
  <2> QED
    BY <1>11, <2>1, Zenon DEF ListOf, ListScopedPersonalAccessTokens
<1>12. CASE ks = OIDCProviders
  <2>1. found = {p \in OIDCProviders : Live(t, p)}
    BY <1>12, Zenon DEF ByID, OIDCProviderConfigBySlug, GetOIDCProviderConfig
  <2> QED
    BY <1>12, <2>1, Zenon DEF ListOf, ListOIDCProviderConfigs
<1>13. CASE ks = SCIMProviders
  <2>1. found = {p \in SCIMProviders : Live(t, p)}
    BY <1>13, Zenon DEF ByID, SCIMProviderMetadataBySlug, GetSCIMProvider
  <2> QED
    BY <1>13, <2>1, Zenon DEF ListOf, ListSCIMProviders
<1> QED
  BY <1>1, <1>2, <1>3, <1>4, <1>5, <1>6, <1>7, <1>8, <1>9, <1>10, <1>11, <1>12, <1>13, ZenonT(60) DEF Kinds

\* What grants compose to: a scope of the user's own, and all of a global-only
\* permission or nothing of it.
LEMMA ReachShape ==
  ASSUME NEW u, NEW p, NEW reach, reach = ResolveEffectiveAccess(u, p).reach
  PROVE  /\ reach = [global |-> reach.global, dgs |-> reach.dgs, ugs |-> reach.ugs,
                     self |-> reach.self]
         /\ reach.self \in {u, NoUser}
         /\ AuthorizeContext(u, p) /\ p \in GlobalOnly => reach.global
<1>1. PICK grants : ResolveEffectiveAccess(u, p) = Resolve(grants, u, p)
  BY Zenon DEF ResolveEffectiveAccess
<1> DEFINE held == {g \in grants : p \in g.permissions /\ (g.scope.global \/ p \notin GlobalOnly)}
           dgs == UNION {g.scope.dgs : g \in held}
           ugs == UNION {g.scope.ugs : g \in held}
           self == IF \E g \in held : g.scope.self # NoUser THEN u ELSE NoUser
           composed == IF \E g \in held : g.scope.global THEN GlobalScope
                       ELSE Scope(FALSE, dgs, ugs, self)
<1>5. Resolve(grants, u, p) = [granted |-> held # {}, reach |-> composed]
  BY Zenon DEF Resolve
<1>6. reach = composed /\ (AuthorizeContext(u, p) => held # {})
  <2>1. reach = composed
    BY <1>1, <1>5
  <2>2. AuthorizeContext(u, p) = Resolve(grants, u, p).granted
    BY <1>1, Zenon DEF AuthorizeContext
  <2>3. Resolve(grants, u, p).granted = (held # {})
    <3> DEFINE some == held # {}
    <3>1. some \in BOOLEAN /\ Resolve(grants, u, p) = [granted |-> some, reach |-> composed]
      BY <1>5, Zenon
    <3> HIDE DEF some, composed
    <3>2. Resolve(grants, u, p).granted = some
      BY <3>1
    <3> QED
      BY <3>2, Zenon DEF some
  <2> QED
    BY <2>1, <2>2, <2>3, Zenon
<1>3. CASE reach = GlobalScope
  BY <1>3 DEF GlobalScope, Scope
<1>4. CASE reach # GlobalScope
  <2>1. reach = [global |-> FALSE, dgs |-> dgs, ugs |-> ugs, self |-> self]
    BY <1>4, <1>6, Zenon DEF Scope
  <2>2. self \in {u, NoUser}
    BY Zenon
  <2>3. held # {} => p \notin GlobalOnly
    BY <1>4, <1>6, Zenon
  <2> HIDE DEF held, dgs, ugs, self
  <2>4. reach = [global |-> reach.global, dgs |-> reach.dgs, ugs |-> reach.ugs,
                 self |-> reach.self]
    BY <2>1, Zenon
  <2>5. reach.self = self
    BY <2>1
  <2> QED
    BY <1>6, <2>2, <2>3, <2>4, <2>5, Zenon
<1> QED
  BY <1>3, <1>4, Zenon

\* The part of a reach that a kind of object takes keeps the rest of it.
LEMMA DomainScopeParts ==
  ASSUME NEW reach, reach = [global |-> reach.global, dgs |-> reach.dgs, ugs |-> reach.ugs,
                             self |-> reach.self],
         NEW relation \in {"transitive", "assignment", "devicegroup", "device", "user",
                           "usergroup", "owned", "global"},
         NEW s, s = DomainScope(relation, reach)
  PROVE  s.global = reach.global /\ s.self = reach.self
<1>1. CASE relation \in {"transitive", "assignment"}
  BY <1>1, Zenon DEF DomainScope
<1>2. CASE relation \in {"devicegroup", "device"}
  <2>1. s = [reach EXCEPT !.ugs = {}]
    BY <1>2, Zenon DEF DomainScope
  <2> QED
    BY <2>1, Zenon
<1>3. CASE relation \in {"user", "usergroup", "owned"}
  <2>1. s = [reach EXCEPT !.dgs = {}]
    BY <1>3, Zenon DEF DomainScope
  <2> QED
    BY <2>1, Zenon
<1>4. CASE relation = "global"
  <2>1. s = [reach EXCEPT !.dgs = {}, !.ugs = {}]
    BY <1>4, Zenon DEF DomainScope
  <2> QED
    BY <2>1, Zenon
<1> QED
  BY <1>1, <1>2, <1>3, <1>4, Zenon

\* How the kinds of objects relate to scopes, and the permissions that are global only.
LEMMA ReadDomains ==
  ASSUME NEW ks \in Kinds, NEW k \in ks, NEW d, d = ReadDomain[k]
  PROVE  /\ ks \in {Actions, ActionSets} => d.relation = "transitive"
         /\ ks = Assignments => d.relation = "assignment"
         /\ ks = Policies => d.relation = "global"
         /\ ks \in {Settings, OIDCProviders, SCIMProviders}
              => d.relation = "global" /\ d.permission \in GlobalOnly
         /\ ks = DeviceGroups => d.relation = "devicegroup"
         /\ ks \in {Devices, Inventories} => d.relation = "device"
         /\ ks = Users => d.relation = "user"
         /\ ks = UserGroups => d.relation = "usergroup"
         /\ ks = Tokens => d.relation = "owned"
<1> DEFINE r == [op |-> "get", id |-> k, arg |-> NoRow]
<1>1. d = managementDomains(r, GlobalScope) /\ r.id = k
  BY Zenon DEF ReadDomain
<1> HIDE DEF r
<1>2. /\ ks = Actions => d = actionDomain(r)
      /\ ks = ActionSets => d = actionSetDomain(r)
      /\ ks = Assignments => d = assignmentDomain(r, GlobalScope)
      /\ ks = Policies => d = compliancePolicyDomain(r)
      /\ ks = Settings => d = serverSettingDomain(r)
      /\ ks = OIDCProviders => d = identityProviderDomain(r)
      /\ ks = SCIMProviders => d = scimConfigurationDomain(r)
      /\ ks = DeviceGroups => d = deviceGroupDomain(r)
      /\ ks = Devices => d = deviceDomain(r)
      /\ ks = Inventories => d = inventoryDomain(r)
      /\ ks = Users => d = userDomain(r)
      /\ ks = UserGroups => d = userGroupDomain(r)
      /\ ks = Tokens => d = apiTokenDomain(r, GlobalScope)
  BY <1>1, DomainDispatch, Zenon
<1>3. ks \in {Actions, ActionSets} => d.relation = "transitive"
  <2>1. ks \in {Actions, ActionSets} =>
         d = actionDomain(r) \/ d = actionSetDomain(r)
    BY <1>2, Zenon
  <2> QED
    BY <2>1 DEF actionDomain, actionSetDomain, Domain
<1>4. ks = Assignments => d.relation = "assignment"
  <2>1. ks = Assignments => d = assignmentDomain(r, GlobalScope)
    BY <1>2, Zenon
  <2> QED
    BY <2>1 DEF assignmentDomain, Domain
<1>5. ks = Policies => d.relation = "global"
  <2>1. ks = Policies => d = compliancePolicyDomain(r)
    BY <1>2, Zenon
  <2> QED
    BY <2>1 DEF compliancePolicyDomain, Domain
<1>6. ks = Settings => d.relation = "global" /\ d.permission \in GlobalOnly
  <2>1. ks = Settings => d = serverSettingDomain(r)
    BY <1>2, Zenon
  <2>2. d = serverSettingDomain(r) => d.relation = "global" /\ d.permission = "server_settings.manage"
    BY DEF serverSettingDomain, Domain
  <2>3. "server_settings.manage" \in GlobalOnly
    BY AccessAssumption, Zenon
  <2> QED
    BY <2>1, <2>2, <2>3, Zenon
<1>7. ks = OIDCProviders => d.relation = "global" /\ d.permission \in GlobalOnly
  <2>1. ks = OIDCProviders => d = identityProviderDomain(r)
    BY <1>2, Zenon
  <2>2. d = identityProviderDomain(r) => d.relation = "global" /\ d.permission = "identity_providers.manage"
    BY DEF identityProviderDomain, Domain
  <2>3. "identity_providers.manage" \in GlobalOnly
    BY AccessAssumption, Zenon
  <2> QED
    BY <2>1, <2>2, <2>3, Zenon
<1>8. ks = SCIMProviders => d.relation = "global" /\ d.permission \in GlobalOnly
  <2>1. ks = SCIMProviders => d = scimConfigurationDomain(r)
    BY <1>2, Zenon
  <2>2. d = scimConfigurationDomain(r) => d.relation = "global" /\ d.permission = "scim_configuration.manage"
    BY DEF scimConfigurationDomain, Domain
  <2>3. "scim_configuration.manage" \in GlobalOnly
    BY AccessAssumption, Zenon
  <2> QED
    BY <2>1, <2>2, <2>3, Zenon
<1>9. ks = DeviceGroups => d.relation = "devicegroup"
  <2>1. ks = DeviceGroups => d = deviceGroupDomain(r)
    BY <1>2, Zenon
  <2> QED
    BY <2>1 DEF deviceGroupDomain, Domain
<1>10. ks \in {Devices, Inventories} => d.relation = "device"
  <2>1. ks \in {Devices, Inventories} =>
         d = deviceDomain(r) \/ d = inventoryDomain(r)
    BY <1>2, Zenon
  <2> QED
    BY <2>1 DEF deviceDomain, inventoryDomain, Domain
<1>11. ks = Users => d.relation = "user"
  <2>1. ks = Users => d = userDomain(r)
    BY <1>2, Zenon
  <2> QED
    BY <2>1 DEF userDomain, Domain
<1>12. ks = UserGroups => d.relation = "usergroup"
  <2>1. ks = UserGroups => d = userGroupDomain(r)
    BY <1>2, Zenon
  <2> QED
    BY <2>1 DEF userGroupDomain, Domain
<1>13. ks = Tokens => d.relation = "owned"
  <2>1. ks = Tokens => d = apiTokenDomain(r, GlobalScope)
    BY <1>2, Zenon
  <2> QED
    BY <2>1 DEF apiTokenDomain, Domain
<1> QED
  BY <1>3, <1>4, <1>5, <1>6, <1>7, <1>8, <1>9, <1>10, <1>11, <1>12, <1>13, ZenonT(60)

\* What a statement finds within a scope, scopeAllows has let through.
LEMMA FoundIsAllowed ==
  ASSUME IsTable(table), NEW u \in Users, NEW ks \in Kinds, NEW any \in ks, NEW k \in ks,
         NEW d, d = ReadDomain[any], AuthorizeContext(u, d.permission),
         NEW s, s = ScopeOf(u, d), ByID(table, k, s)
  PROVE  scopeAllows(d.relation, "get", k, s)
<1> DEFINE reach == ResolveEffectiveAccess(u, d.permission).reach
<1>1. /\ d.relation \in {"transitive", "assignment", "devicegroup", "device", "user",
                         "usergroup", "owned", "global"}
  BY ReadDomains DEF Kinds
<1>2. s = DomainScope(d.relation, reach)
  BY Zenon DEF ScopeOf
<1>3. /\ reach = [global |-> reach.global, dgs |-> reach.dgs, ugs |-> reach.ugs,
                  self |-> reach.self]
      /\ d.permission \in GlobalOnly => reach.global
  BY ReachShape, Zenon
<1> HIDE DEF reach
<1>4. s.global = reach.global
  BY <1>1, <1>2, <1>3, DomainScopeParts, ZenonT(60)
<1>5. d.permission \in GlobalOnly => s.global
  BY <1>3, <1>4, Zenon
<1>6. NoUser \notin Targets
  BY ResourcesAssumption, Zenon DEF Targets, Streams
<1>7. /\ \A x : InDeviceGroup(table, x, s) => s.dgs # {}
      /\ \A x : InManagedGroup(table, x, s) \/ InAnyGroup(table, x, s) => s.ugs # {}
  BY Zenon DEF InDeviceGroup, InAnyGroup, InManagedGroup, MemberOf
<1> USE StreamTypesAssumption
<1>8. CASE ks \in {Actions, ActionSets}
  <2>1. s.global \/ AssignedWithin(table, k, s)
    BY <1>8, Zenon DEF ByID, ManagedActionByID, GetScopedManagedAction, ManagedActionSetByID,
                GetScopedManagedActionSet
  <2>2. ASSUME AssignedWithin(table, k, s) PROVE AnyScope(s)
    <3>1. PICK a \in Assignments :
            /\ Live(table, a)
            /\ \/ table[a].data.target \in s.dgs \cup s.ugs \cup {s.self}
               \/ InManagedGroup(table, table[a].data.target, s)
               \/ InDeviceGroup(table, table[a].data.target, s)
      BY <2>2, Zenon DEF AssignedWithin
    <3>2. table[a].data.target \in Targets
      BY <3>1, ZenonT(60) DEF IsTable
    <3> QED
      BY <1>6, <1>7, <3>1, <3>2, ZenonT(60) DEF AnyScope
  <2>3. d.relation = "transitive"
    BY <1>8, ReadDomains, ZenonT(60)
  <2> QED
    BY <2>1, <2>2, <2>3, Zenon DEF scopeAllows
<1>9. CASE ks = Assignments
  <2>1. /\ Live(table, k)
        /\ s.global \/ table[k].data.target \in s.dgs \cup s.ugs \cup {s.self}
    BY <1>9, ZenonT(60) DEF ByID, AssignmentByID, GetScopedAssignment
  <2>2. s.global \/ AnyScope(s)
    BY <1>6, <1>9, <2>1 DEF AnyScope, IsTable
  <2>3. d.relation = "assignment"
    BY <1>9, ReadDomains, ZenonT(60)
  <2> QED
    BY <2>2, <2>3, Zenon DEF scopeAllows
<1>10. CASE ks = Policies
  BY <1>10, Zenon DEF ByID, CompliancePolicyByID, GetCompliancePolicy, scopeAllows
<1>11. CASE ks \in {Settings, OIDCProviders, SCIMProviders}
  <2>1. d.permission \in GlobalOnly
    BY <1>11, ReadDomains, ZenonT(60)
  <2> QED
    BY <1>5, <2>1, Zenon DEF scopeAllows
<1>12. CASE ks = DeviceGroups
  BY <1>12, ReadDomains, ZenonT(60) DEF ByID, DeviceGroupByID, GetScopedDeviceGroup, scopeAllows
<1>13. CASE ks \in {Devices, Inventories}
  <2>1. s.global \/ \E x : InDeviceGroup(table, x, s)
    BY <1>13, Zenon DEF ByID, ScopedDevice, GetScopedDevice, InventorySnapshotByID,
                 GetScopedInventorySnapshot
  <2>2. d.relation = "device"
    BY <1>13, ReadDomains, ZenonT(60)
  <2> QED
    BY <1>7, <2>1, <2>2, Zenon DEF scopeAllows
<1>14. CASE ks = Users
  <2>1. s.global \/ k = s.self \/ InAnyGroup(table, k, s)
    BY <1>14, Zenon DEF ByID, ScopedUserByID, GetScopedUserByID
  <2>2. d.relation = "user"
    BY <1>14, ReadDomains, ZenonT(60)
  <2> QED
    BY <1>7, <2>1, <2>2, Zenon DEF scopeAllows
<1>15. CASE ks = UserGroups
  <2>1. s.global \/ k \in s.ugs
    BY <1>15, Zenon DEF ByID, UserGroupByID, GetScopedManagedUserGroup
  <2> QED
    BY <1>15, <2>1, ReadDomains, ZenonT(60) DEF scopeAllows
<1>16. CASE ks = Tokens
  <2>1. /\ Live(table, k)
        /\ \/ s.global \/ table[k].data.subject = s.self
           \/ InAnyGroup(table, table[k].data.subject, s)
    BY <1>16, Zenon DEF ByID, ScopedPersonalAccessTokenByID, GetScopedPersonalAccessToken
  <2>2. table[k].data.subject \in Targets
    BY <1>16, <2>1, Zenon DEF IsTable, Rows, TokenData, Targets
  <2>3. d.relation = "owned"
    BY <1>16, ReadDomains, ZenonT(60)
  <2>4. s.self = table[k].data.subject => s.self # NoUser
    BY <1>6, <2>2, ZenonT(60)
  <2> QED
    BY <1>7, <2>1, <2>3, <2>4, Zenon DEF scopeAllows
<1> QED
  BY <1>8, <1>9, <1>10, <1>11, <1>12, <1>13, <1>14, <1>15, <1>16, ZenonT(60) DEF Kinds

\* A page of a kind of object holds the first of exactly the objects the reader can
\* get: authorize, scopeAllows and the list and get statements of every domain agree,
\* and an audit page stays within the reader's reach (list, get, ListAuditEvents).
THEOREM ListsTheorem == Spec => []ListsMatchGets
<1>1. ASSUME IInv, NEW u \in Users, NEW ks \in Kinds, NEW any \in ks, NEW n, NEW r,
             r = Reader(u, any)
      PROVE  list(r, any, n) = Page({k \in ks : get(r, k)}, n)
  <2> DEFINE d == ReadDomain[any]
             s == ScopeOf(u, d)
  <2>1. IsTable(table)
    BY <1>1, Zenon DEF IInv, StoreOK
  <2>2. r = [ok |-> AuthorizeContext(u, d.permission), relation |-> d.relation, scope |-> s]
    BY <1>1, Zenon DEF Reader
  <2> HIDE DEF d, s
  <2>3. r.ok = AuthorizeContext(u, d.permission) /\ r.relation = d.relation /\ r.scope = s
    BY <2>2, Zenon
  <2>4. CASE r.ok
    <3>1. \A k \in ks : ByID(table, k, s) => scopeAllows(d.relation, "get", k, s)
      BY <1>1, <2>1, <2>3, <2>4, FoundIsAllowed, Zenon DEF d, s
    <3>2. {k \in ks : get(r, k)} = {k \in ks : ByID(table, k, s)}
      BY <2>3, <2>4, <3>1, ZenonT(60) DEF get
    <3>3. ListOf(table, any, s, n) = Page({k \in ks : ByID(table, k, s)}, n)
      BY <1>1, ListIsPage
    <3> QED
      BY <2>3, <2>4, <3>2, <3>3, ZenonT(60) DEF list
  <2>5. CASE ~r.ok
    <3>1. {k \in ks : get(r, k)} = {}
      BY <2>5, Zenon DEF get
    <3>2. Page({}, n) = {}
      BY Zenon DEF Page
    <3> QED
      BY <2>5, <3>1, <3>2, Zenon DEF list
  <2> QED
    BY <2>4, <2>5, Zenon
<1>2. ASSUME NEW u \in Users, NEW s, s = ResolveEffectiveAccess(u, auditDomain.permission).reach
      PROVE  ListAuditEvents(s) \subseteq Reached(table, s)
  <2>1. s.self \in {u, NoUser}
    BY <1>2, ReachShape, Zenon
  <2> SUFFICES ASSUME NEW k \in ListAuditEvents(s)
               PROVE  k \in Reached(table, s)
    BY Zenon
  <2>2. k \in Streams /\ k # NoUser
    BY ResourcesAssumption, Zenon DEF ListAuditEvents, ListScopedAuditEvents
  <2>3. \A x : InManagedGroup(table, x, s) => InAnyGroup(table, x, s)
    BY Zenon DEF InAnyGroup
  <2> QED
    BY <2>1, <2>2, <2>3, Zenon DEF ListAuditEvents, ListScopedAuditEvents, Reached, Reaches
<1>3. ASSUME NEW s
      PROVE  ListExecutions(s) = {x \in Executions : ExecutionByID(x, s)}
  BY Zenon DEF ListExecutions, ListScopedExecutions, ExecutionByID, GetScopedExecution
<1>4. IInv => ListsMatchGets
  <2> SUFFICES ASSUME IInv, NEW u \in {Subject[c] : c \in Callers}
               PROVE  /\ \A ks \in Kinds \ {{}} :
                           LET any == CHOOSE k \in ks : TRUE
                               r == Reader(u, any)
                               found == {k \in ks : get(r, k)}
                           IN \A n \in PageLimits : list(r, any, n) = Page(found, n)
                      /\ LET s == ResolveEffectiveAccess(u, executionDomain.permission).reach
                         IN ListExecutions(s) = {x \in Executions : ExecutionByID(x, s)}
                      /\ LET s == ResolveEffectiveAccess(u, auditDomain.permission).reach
                         IN ListAuditEvents(s) \subseteq Reached(table, s)
    BY Zenon DEF ListsMatchGets
  <2>1. u \in Users
    BY AccessAssumption, Zenon
  <2>2. ASSUME NEW ks \in Kinds \ {{}}
        PROVE  LET any == CHOOSE k \in ks : TRUE
                   r == Reader(u, any)
                   found == {k \in ks : get(r, k)}
               IN \A n \in PageLimits : list(r, any, n) = Page(found, n)
    <3> DEFINE any == CHOOSE k \in ks : TRUE
    <3>1. any \in ks
      BY Zenon
    <3> HIDE DEF any
    <3>2. \A n \in PageLimits :
            list(Reader(u, any), any, n) = Page({k \in ks : get(Reader(u, any), k)}, n)
      BY <1>1, <2>1, <3>1
    <3> QED
      BY <3>2, Zenon DEF any
  <2> QED
    BY <1>2, <1>3, <2>1, <2>2, Zenon
<1> QED
  BY <1>4, Invariance, PTL

-----------------------------------------------------------------------------
(* The limits, throughout *)

INSTANCE FiniteSetTheorems

\* The library's facts about finite sets are the ones the limits rest on.
LEMMA CountingFacts == Counting
<1>1. \A S : IsFiniteSet(S) => Cardinality(S) \in Nat
  BY FS_CardinalityType, Zenon
<1>2. ASSUME NEW S, NEW T \in SUBSET S, IsFiniteSet(S)
      PROVE  IsFiniteSet(T) /\ Cardinality(T) <= Cardinality(S)
  BY <1>2, FS_Subset, Zenon
<1>3. ASSUME NEW S, NEW x \in S, IsFiniteSet(S)
      PROVE  Cardinality(S \ {x}) = Cardinality(S) - 1
  BY <1>3, FS_RemoveElement, Zenon
<1>4. ASSUME NEW S, NEW x, IsFiniteSet(S)
      PROVE  /\ IsFiniteSet(S \cup {x})
             /\ x \notin S => Cardinality(S \cup {x}) = Cardinality(S) + 1
  <2>1. /\ IsFiniteSet(S \cup {x})
        /\ Cardinality(S \cup {x}) = IF x \in S THEN Cardinality(S) ELSE Cardinality(S) + 1
    BY <1>4, FS_AddElement, Zenon
  <2> QED
    BY <2>1, Zenon
<1> QED
  BY <1>1, <1>2, <1>3, <1>4, Zenon DEF Counting

\* The limits hold at the start and every step keeps them.
LEMMA LimitsInitially ==
  ASSUME Init
  PROVE  LimiterOK /\ OutputsOK
<1>1. \A c \in Callers : call[c].pc = "idle"
  BY Zenon DEF Init, Idle
<1>2. failures = [b \in Buckets |-> 0] /\ 0 \in Nat /\ ~(0 > 0)
  BY DEF Init
<1>3. Filled(failures) = {} /\ failures \in [Buckets -> Nat]
  BY <1>2, Zenon DEF Filled
<1>4. IsFiniteSet({}) /\ Cardinality({}) = 0
  BY FS_EmptySet, Zenon
<1>5. Cardinality({}) <= BucketCapacity
  BY <1>4, LimitsAssumption
<1>6. TableOK(failures)
  BY <1>3, <1>4, <1>5, Zenon DEF TableOK
<1>7. ASSUME NEW b \in Buckets PROVE WindowOK(failures, call, b)
  <2>1. Limit(b) \in Nat /\ Limit(b) > 0
    BY CountingFacts, LimitTypes, Zenon
  <2>2. failures[b] < Limit(b)
    BY <1>2, <2>1
  <2> QED
    BY <2>2, Zenon DEF WindowOK
<1>8. OutputsOK
  BY Zenon DEF Init, OutputsOK
<1> QED
  BY <1>1, <1>6, <1>7, <1>8, Zenon DEF LimiterOK

\* Every step keeps the limits, and leaves a truncated output as it is.
LEMMA LimitsStep ==
  ASSUME IInv, LimiterOK, OutputsOK, [Next]_vars
  PROVE  /\ LimiterOK' /\ OutputsOK'
         /\ \A x \in Executions : outputs[x] # NoRow /\ outputs[x].truncated
                                    => outputs'[x] = outputs[x]
<1> DEFINE Kept == /\ LimiterOK' /\ OutputsOK'
                   /\ \A x \in Executions : outputs[x] # NoRow /\ outputs[x].truncated
                                              => outputs'[x] = outputs[x]
<1> SUFFICES Kept
  OBVIOUS
<1>1. Counting
  BY CountingFacts, Zenon
<1>2. CrudCalls
  BY Zenon DEF IInv, CallsOK, AllOK, CallOK, CrudOK, CrudCalls
<1>3. call = [d \in Callers |-> call[d]]
  BY <1>2, Zenon DEF CrudCalls
<1>4. CASE Quiet /\ UNCHANGED outputs
  BY <1>1, <1>3, <1>4, LimiterStep, Zenon DEF OutputsOK
<1>5. CASE UNCHANGED vars \/ GrantDeleted
  <2>1. UNCHANGED <<call, failures, outputs>>
    BY <1>5, Zenon DEF vars, GrantDeleted, services
  <2> QED
    BY <1>4, <2>1, Zenon DEF Quiet
<1>6. ASSUME NEW c \in Callers, Other(c) PROVE Kept
  BY <1>2, <1>4, <1>6, OthersQuiet, Zenon
<1>7. ASSUME NEW c \in Callers, CheckSCIM(c) \/ CompareSCIM(c) PROVE Kept
  <2>1. UNCHANGED outputs
    BY <1>7, Zenon DEF CheckSCIM, CompareSCIM
  <2>2. LimiterOK'
    BY <1>1, <1>3, <1>7, LimiterStep, Zenon
  <2> QED
    BY <2>1, <2>2, Zenon DEF OutputsOK
<1>8. ASSUME NEW c \in Callers, BindExecutionOutputToDevice(c) \/ AppendExecutionOutput(c)
      PROVE  Kept
  <2>1. Quiet
    BY <1>8, Zenon DEF BindExecutionOutputToDevice, AppendExecutionOutput, Quiet
  <2> QED
    BY <1>1, <1>3, <1>8, <2>1, LimiterStep, OutputsStep, Zenon
<1>9. \/ UNCHANGED vars \/ GrantDeleted
      \/ \E c \in Callers : \/ Other(c) \/ CheckSCIM(c) \/ CompareSCIM(c)
                            \/ BindExecutionOutputToDevice(c) \/ AppendExecutionOutput(c)
  BY ZenonT(60) DEF Next, Other
<1> HIDE DEF Kept
<1> QED
  BY <1>5, <1>6, <1>7, <1>8, <1>9, Zenon

\* What the two invariants say of the limits.
LEMMA WithinLimits ==
  ASSUME LimiterOK, OutputsOK
  PROVE  /\ \A b \in Buckets : failures[b] < Limit(b) + Cardinality(Callers)
         /\ Cardinality(Filled(failures)) <= BucketCapacity
         /\ \A x \in Executions : outputs[x] # NoRow =>
              /\ outputs[x].bytes = Total(outputs[x].stored)
              /\ outputs[x].bytes <= MaxBytes /\ Len(outputs[x].stored) <= MaxChunks
<1>1. ASSUME NEW b \in Buckets PROVE failures[b] < Limit(b) + Cardinality(Callers)
  <2>1. Limit(b) \in Nat /\ Cardinality(Callers) \in Nat
    BY CountingFacts, LimitTypes, Zenon
  <2>2. failures[b] \in Nat /\ WindowOK(failures, call, b)
    BY Zenon DEF LimiterOK, TableOK
  <2>3. Cardinality(Comparing(call, b)) \in Nat
    BY CountingFacts, ComparingCounted, Zenon
  <2> QED
    BY <2>1, <2>2, <2>3 DEF WindowOK
<1>2. \A x \in Executions : outputs[x] # NoRow =>
        /\ outputs[x].bytes = Total(outputs[x].stored)
        /\ outputs[x].bytes <= MaxBytes /\ Len(outputs[x].stored) <= MaxChunks
  BY TotalIsSum, Zenon DEF OutputsOK, OutputOK
<1> QED
  BY <1>1, <1>2, Zenon DEF LimiterOK, TableOK

\* The limits hold throughout, beside the invariant of the other theorems.
LEMMA LimitsAlways == Spec => [](IInv /\ LimiterOK /\ OutputsOK)
<1>1. Init => IInv /\ LimiterOK /\ OutputsOK
  BY Initially, LimitsInitially, Zenon
<1>2. IInv /\ LimiterOK /\ OutputsOK /\ [Next]_vars => IInv' /\ LimiterOK' /\ OutputsOK'
  BY Step, LimitsStep, Zenon
<1> QED
  BY <1>1, <1>2, PTL DEF Spec

\* What callers accumulate stays bounded (Check and RecordFailure of the SCIM limiter,
\* AppendExecutionOutput), for any number of callers, windows and executions and any
\* limits: requests that passed the check together take a window over its limit by one
\* each, and the byte count of an output is the sum of the chunks it keeps.
THEOREM LimitsTheorem == Spec => LimitsKept
<1> DEFINE Bounded ==
      /\ \A b \in Buckets : failures[b] < Limit(b) + Cardinality(Callers)
      /\ Cardinality(Filled(failures)) <= BucketCapacity
      /\ \A x \in Executions : outputs[x] # NoRow =>
           /\ outputs[x].bytes = Total(outputs[x].stored)
           /\ outputs[x].bytes <= MaxBytes /\ Len(outputs[x].stored) <= MaxChunks
<1>1. LimiterOK /\ OutputsOK => Bounded
  BY WithinLimits, Zenon
<1>2. Spec => []Bounded
  BY <1>1, LimitsAlways, PTL
<1>3. Bounded' /\ IInv /\ LimiterOK /\ OutputsOK /\ [Next]_vars
        => [/\ \A b \in Buckets : failures'[b] < Limit(b) + Cardinality(Callers)
            /\ Cardinality(Filled(failures')) <= BucketCapacity
            /\ \A x \in Executions : outputs'[x] # NoRow =>
                 /\ outputs'[x].bytes = Total(outputs'[x].stored)
                 /\ outputs'[x].bytes <= MaxBytes /\ Len(outputs'[x].stored) <= MaxChunks
                 /\ outputs[x] # NoRow /\ outputs[x].truncated => outputs'[x] = outputs[x]]_vars
  BY LimitsStep, Zenon DEF Filled
<1> HIDE DEF Bounded
<1> QED
  BY <1>2, <1>3, LimitsAlways, PTL DEF Spec, LimitsKept
=============================================================================
