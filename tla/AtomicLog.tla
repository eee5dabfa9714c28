------------------------------ MODULE AtomicLog ------------------------------
(***************************************************************************)
(* What the event store promises its callers: a log of events and the      *)
(* projection rows computed from it, changed together and only by whole    *)
(* appends.  There are no transactions, locks, retries or rebuilds here.   *)
(***************************************************************************)
EXTENDS Integers

CONSTANTS Streams, Ops, Rows, NoRow, Refused, Project(_, _, _)

VARIABLES log, row

Versions(E, s) == {e.version : e \in {x \in E : x.stream = s}}

Greatest(S) == CHOOSE x \in S : \A y \in S : x >= y
Length(E, s) == Greatest(Versions(E, s) \cup {0})

RowAt(E, s, v) ==
  IF v = 0 THEN NoRow
  ELSE (CHOOSE e \in E : e.stream = s /\ e.version = v).after

Init ==
  /\ log = {}
  /\ row = [s \in Streams |-> NoRow]

\* The new events extend each stream without gap or overlap, each is accepted
\* by its projector from the row its predecessor left, and the rows move to
\* the end of the new log in the same step.
Append ==
  LET new == log' \ log IN
  /\ log \subseteq log'
  /\ new # {}
  /\ \A s \in Streams : Versions(new, s) = (Length(log, s) + 1) .. Length(log', s)
  /\ \A d, e \in log' : d.stream = e.stream /\ d.version = e.version => d = e
  /\ \A e \in new :
       /\ e.after = Project(RowAt(log', e.stream, e.version - 1), e.op, e.version)
       /\ e.after \in Rows
  /\ row' = [s \in Streams |-> RowAt(log', s, Length(log', s))]

Spec == Init /\ [][Append]_<<log, row>>
=============================================================================
