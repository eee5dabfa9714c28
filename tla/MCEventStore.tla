---------------------------- MODULE MCEventStore ----------------------------
(* Instances of EventStore for TLC, with the registration-token projectors. *)
EXTENDS EventStore

Token == INSTANCE TokenProjection WITH MaxGatewayDNSNames <- 1

CONSTANTS a, b, w1, w2

\* One expiry: the store's append path does not look at the clock.
Mint == Token!RegistrationTokenMintedEvent(1, 1)
Consume == Token!RegistrationTokenConsumedEvent
Disable == Token!RegistrationTokenDisabledEvent
Update == Token!RegistrationTokenUpdatedEvent(2, 1, FALSE)
Delete == Token!RegistrationTokenDeletedEvent

MCOps == {Mint, Consume, Disable, Update, Delete}

MCRows ==
  {NoRow} \cup [version : 1 .. MaxVersion, purpose : {"agent"}, dnsNames : {<<>>}, maxUses : 1 .. 2,
                uses : 0 .. 2, expiresAt : {1}, disabled : BOOLEAN]

MCProject(r, op, v) == Token!registrationTokenEventDefinitions(r, op, v)

Req(mode, expected, items) == [mode |-> mode, expected |-> expected, items |-> items]
On(s, op) == [stream |-> s, op |-> op]

\* Two streams, every append function, batches that lock the streams in
\* opposite orders, and the calls that return before opening a transaction.
AppendRequests == {
  Req("auto", 0, <<On(a, Consume)>>),
  Req("pinned", 0, <<On(a, Mint)>>),
  Req("pinned", 1, <<On(a, Disable)>>),
  Req("batch", 0, <<On(a, Mint), On(b, Mint)>>),
  Req("batch", 0, <<On(b, Mint), On(a, Consume)>>),
  Req("batch", 0, <<>>),
  Req("pinnedBatch", 1, <<On(a, Consume), On(a, Delete)>>),
  Req("pinnedBatch", 1, <<On(a, Consume), On(b, Disable)>>),
  Req("pinnedBatch", MaxVersion - 1, <<On(a, Consume), On(a, Disable)>>),
  Req("callback", 0, <<On(a, Update)>>)
}

\* Writers that race a rebuild over two rows.
RebuildRequests == {
  Req("pinned", 0, <<On(a, Mint)>>),
  Req("auto", 0, <<On(a, Consume)>>),
  Req("auto", 0, <<On(a, Delete)>>),
  Req("batch", 0, <<On(b, Mint), On(a, Update)>>),
  Req("batch", 0, <<On(a, Update), On(b, Disable)>>)
}
=============================================================================
