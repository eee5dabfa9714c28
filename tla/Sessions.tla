------------------------------ MODULE Sessions ------------------------------
(***************************************************************************)
(* Human sessions: refresh-token families (auth/refresh.go,                *)
(* store/refresh_families.go) and the session version of a user            *)
(* (store/session_invalidation.go, store/users.go).  Callers run           *)
(* StartSession and Rotate concurrently; each database read and each       *)
(* append is one step, and an append is the atomic, version-pinned append  *)
(* that EventStore implements.                                             *)
(*                                                                         *)
(* A refresh token is a number; its JWT carries the subject and the        *)
(* session version it was minted with.  Requests that name no stored token *)
(* change nothing and are left out.                                        *)
(***************************************************************************)
EXTENDS Integers

CONSTANTS
  Users,
  Families,         \* identifiers of refresh families
  Callers,          \* concurrent RPCs
  RevokeAttempts,   \* refreshRevocationAttempts
  MaxTokens,        \* bound: tokens minted
  MaxSession,       \* bound: session version of a user
  NoRow             \* no such row

Tokens == 1 .. MaxTokens

UserRow == [session : 1 .. MaxSession, disabled : BOOLEAN]
FamilyRow == [subject : Users, version : Nat, active : Tokens, revoked : BOOLEAN]
TokenRow == [family : Families, session : 1 .. MaxSession, superseded : BOOLEAN]

ASSUME SessionsAssumption ==
  /\ RevokeAttempts \in Nat \ {0} /\ MaxTokens \in Nat /\ MaxSession \in Nat \ {0}
  /\ NoRow \notin UserRow \cup FamilyRow \cup TokenRow

VARIABLES
  user,      \* user projection: session version and disabled flag, or NoRow
  family,    \* refresh_families
  token,     \* refresh_tokens, with the session version in the JWT
  expired,   \* tokens past their expiry
  call,      \* the RPC each caller is executing
  presented  \* history: how many Rotate calls presented a token (0, 1, many)

vars == <<user, family, token, expired, call, presented>>

\* An RPC that holds nothing: before its first step and after its last.
Done(result) ==
  [pc |-> result, token |-> NoRow, subject |-> NoRow, user |-> NoRow, seen |-> NoRow,
   attempt |-> 0]

Init ==
  /\ user = [u \in Users |-> [session |-> 1, disabled |-> FALSE]]
  /\ family = [f \in Families |-> NoRow]
  /\ token = [t \in Tokens |-> NoRow]
  /\ expired = {}
  /\ call = [c \in Callers |-> Done("none")]
  /\ presented = [t \in Tokens |-> 0]

Stored == {t \in Tokens : token[t] # NoRow}

\* The digest of a fresh random token.
Fresh == CHOOSE t \in Tokens : t \notin Stored

\* GetRefreshFamilyToken: the token row joined with its family.
RefreshFamilyToken(t) ==
  LET f == token[t].family IN
  [family |-> f, subject |-> family[f].subject, version |-> family[f].version,
   active |-> family[f].active, revoked |-> family[f].revoked,
   superseded |-> token[t].superseded]

\* A caller's RPC ends with the given result.
Return(c, result) == call' = [call EXCEPT ![c] = Done(result)]

Ended == {"none", "ok", "rejected", "unavailable"}

-----------------------------------------------------------------------------
(* StartSession *)

\* The user is read before the family is created.
StartSession(c) ==
  /\ call[c].pc \in Ended
  /\ \E u \in Users :
       IF user[u] = NoRow \/ user[u].disabled
       THEN Return(c, "rejected")
       ELSE call' = [call EXCEPT ![c] = [Done("start") EXCEPT !.subject = u, !.user = user[u]]]
  /\ UNCHANGED <<user, family, token, expired, presented>>

projectRefreshFamilyStart(f, subject, session) ==
  /\ family' = [family EXCEPT ![f] =
       [subject |-> subject, version |-> 1, active |-> Fresh, revoked |-> FALSE]]
  /\ token' = [token EXCEPT ![Fresh] = [family |-> f, session |-> session, superseded |-> FALSE]]

\* AppendEventWithVersion at 0 on a fresh family identifier; the answer of the
\* commit may be lost.
PersistFamilyStart(c) ==
  /\ call[c].pc = "start"
  /\ Stored # Tokens
  /\ \E f \in Families :
       /\ family[f] = NoRow
       /\ projectRefreshFamilyStart(f, call[c].subject, call[c].user.session)
  /\ \E result \in {"ok", "unavailable"} : Return(c, result)
  /\ UNCHANGED <<user, expired, presented>>

-----------------------------------------------------------------------------
(* Rotate *)

Rotate(c, t) ==
  /\ call[c].pc \in Ended
  /\ t \in Stored
  /\ presented' = [presented EXCEPT ![t] = IF @ < 2 THEN @ + 1 ELSE @]
  /\ call' = [call EXCEPT ![c] = [Done("user") EXCEPT !.token = t, !.seen = RefreshFamilyToken(t)]]
  /\ UNCHANGED <<user, family, token, expired>>

\* Mutant: the session version in the token is not compared.
AdmitsAnySession(c, u) ==
  LET t == call[c].token IN
  LET state == call[c].seen IN
  /\ t \notin expired
  /\ u # NoRow /\ ~u.disabled
  /\ ~state.revoked /\ ~state.superseded
  /\ state.active = t

\* The checks of Rotate on the token, the family it read and the user.
Admits(c, u) ==
  LET t == call[c].token IN
  LET state == call[c].seen IN
  /\ t \notin expired
  /\ u # NoRow /\ ~u.disabled
  /\ token[t].session = u.session
  /\ ~state.revoked /\ ~state.superseded
  /\ state.active = t

\* UserByID, then the decision: rotate, revoke the family, or reject.
ReadUser(c) ==
  /\ call[c].pc = "user"
  /\ LET u == user[call[c].seen.subject] IN
       IF Admits(c, u)
       THEN call' = [call EXCEPT ![c].pc = "rotate", ![c].user = u]
       ELSE IF call[c].seen.superseded /\ ~call[c].seen.revoked
       THEN call' = [call EXCEPT ![c].pc = "reread"]
       ELSE Return(c, "rejected")
  /\ UNCHANGED <<user, family, token, expired, presented>>

\* Mutant: the old token is not marked superseded.
projectRotationKeepsOld(f, previous, session) ==
  /\ ~family[f].revoked /\ family[f].active = previous
  /\ family' = [family EXCEPT ![f].version = @ + 1, ![f].active = Fresh]
  /\ token' = [token EXCEPT ![Fresh] = [family |-> f, session |-> session, superseded |-> FALSE]]

projectRefreshTokenRotation(f, previous, session) ==
  /\ ~family[f].revoked /\ family[f].active = previous
  /\ family' = [family EXCEPT ![f].version = @ + 1, ![f].active = Fresh]
  /\ token' = [token EXCEPT ![previous].superseded = TRUE,
                            ![Fresh] = [family |-> f, session |-> session, superseded |-> FALSE]]

\* Mutant: every append error, a lost answer included, is taken for a conflict.
PersistRotationAnyError(c) ==
  /\ call[c].pc = "rotate"
  /\ Stored # Tokens
  /\ LET state == call[c].seen IN
       IF family[state.family].version = state.version
       THEN /\ projectRefreshTokenRotation(state.family, call[c].token, call[c].user.session)
            /\ Return(c, "ok") \/ call' = [call EXCEPT ![c].pc = "reread"]
       ELSE /\ call' = [call EXCEPT ![c].pc = "reread"]
            /\ UNCHANGED <<family, token>>
  /\ UNCHANGED <<user, expired, presented>>

\* Mutant: a conflict is retried on whatever token is active by then.
PersistRotationBlind(c) ==
  /\ call[c].pc = "rotate"
  /\ Stored # Tokens
  /\ LET f == call[c].seen.family IN
       projectRefreshTokenRotation(f, family[f].active, call[c].user.session)
  /\ Return(c, "ok")
  /\ UNCHANGED <<user, expired, presented>>

\* The append of the rotation, pinned to the version that was read.
PersistRotation(c) ==
  /\ call[c].pc = "rotate"
  /\ Stored # Tokens
  /\ LET state == call[c].seen IN
       IF family[state.family].version = state.version
       THEN /\ projectRefreshTokenRotation(state.family, call[c].token, call[c].user.session)
            /\ \E result \in {"ok", "unavailable"} : Return(c, result)
       ELSE /\ call' = [call EXCEPT ![c].pc = "reread"]
            /\ UNCHANGED <<family, token>>
  /\ UNCHANGED <<user, expired, presented>>

-----------------------------------------------------------------------------
(* revokeReplayed *)

RereadToken(c) ==
  /\ call[c].pc = "reread"
  /\ LET state == RefreshFamilyToken(call[c].token) IN
       IF state.revoked \/ ~state.superseded
       THEN Return(c, "rejected")
       ELSE call' = [call EXCEPT ![c].pc = "revoke", ![c].seen = state]
  /\ UNCHANGED <<user, family, token, expired, presented>>

projectRefreshFamilyRevocation(f, replayed) ==
  /\ ~family[f].revoked
  /\ token[replayed].family = f /\ token[replayed].superseded
  /\ family' = [family EXCEPT ![f].version = @ + 1, ![f].revoked = TRUE]

\* Mutant: a lost race is taken for a revocation.
RevocationConflictIgnored(c) == Return(c, "rejected")

\* Another append won: try again, up to the number of attempts.
RevocationConflict(c) ==
  IF call[c].attempt + 1 < RevokeAttempts
  THEN call' = [call EXCEPT ![c].pc = "reread", ![c].attempt = @ + 1]
  ELSE Return(c, "unavailable")

PersistRevocation(c) ==
  /\ call[c].pc = "revoke"
  /\ LET state == call[c].seen IN
       IF family[state.family].version = state.version
       THEN /\ projectRefreshFamilyRevocation(state.family, call[c].token)
            /\ \E result \in {"rejected", "unavailable"} : Return(c, result)
       ELSE RevocationConflict(c) /\ UNCHANGED family
  /\ UNCHANGED <<user, token, expired, presented>>

\* A read or an append fails, or the caller goes away.
Fail(c) ==
  /\ call[c].pc \notin Ended
  /\ Return(c, "unavailable")
  /\ UNCHANGED <<user, family, token, expired, presented>>

-----------------------------------------------------------------------------
(* Users and time *)

\* UserDisabled, RoleRevoked and OIDCIdentityUnlinked events.
projectSessionInvalidation(u, disable) ==
  /\ user[u] # NoRow
  /\ user[u].session < MaxSession
  /\ user' = [user EXCEPT ![u] = [session |-> @.session + 1, disabled |-> @.disabled \/ disable]]
  /\ UNCHANGED <<family, token, expired, call, presented>>

\* UserManagedDeleted and SCIMUserDeprovisioned events.
projectUserDeletion(u) ==
  /\ user[u] # NoRow
  /\ user' = [user EXCEPT ![u] = NoRow]
  /\ UNCHANGED <<family, token, expired, call, presented>>

Expire(t) ==
  /\ t \in Stored \ expired
  /\ expired' = expired \cup {t}
  /\ UNCHANGED <<user, family, token, call, presented>>

-----------------------------------------------------------------------------
CallStep(c) ==
  \/ PersistFamilyStart(c) \/ ReadUser(c) \/ PersistRotation(c)
  \/ RereadToken(c) \/ PersistRevocation(c)

Next ==
  \/ \E c \in Callers : StartSession(c) \/ CallStep(c) \/ Fail(c)
  \/ \E c \in Callers, t \in Tokens : Rotate(c, t)
  \/ \E u \in Users : projectUserDeletion(u) \/ \E d \in BOOLEAN : projectSessionInvalidation(u, d)
  \/ \E t \in Tokens : Expire(t)

Spec == Init /\ [][Next]_vars

-----------------------------------------------------------------------------
(* Properties *)

\* A family has one token that can still be rotated, and it is the one the
\* family row names: rotation supersedes the old token and stores the new one
\* with the family in a single append.
OneActiveToken ==
  \A t \in Stored :
    LET f == token[t].family IN
    /\ family[f] # NoRow
    /\ ~token[t].superseded <=> family[f].active = t

\* A Rotate that is rejected because its token was already superseded, or
\* because it lost the race to rotate it, leaves the whole family revoked.
ReplayRevokes ==
  [][\A c \in Callers :
       /\ call[c].pc \in {"user", "rotate", "reread", "revoke"}
       /\ call[c].seen.superseded \/ call[c].pc \in {"reread", "revoke"}
       /\ call'[c].pc = "rejected"
       => family'[call[c].seen.family].revoked]_vars

\* Only a replay revokes a family: a client that presents each token once
\* keeps its session whatever fails or expires.
RevokedByReplay ==
  \A f \in Families :
    family[f] # NoRow /\ family[f].revoked
      => \E t \in Stored : token[t].family = f /\ presented[t] = 2

\* An invalidation ends every session started before it: all tokens of a
\* family carry the session version it was started with, also when a rotation
\* was in flight while the user's version advanced.
SessionVersionKept ==
  \A s, t \in Stored : token[s].family = token[t].family => token[s].session = token[t].session

\* A refresh token is exchanged at most once: a Rotate answers with new tokens
\* only in the step that supersedes the token presented to it, so of two racing
\* calls with the same token at most one wins.
OneWinner ==
  [][\A c \in Callers :
       call[c].pc = "rotate" /\ call'[c].pc = "ok"
         => ~token[call[c].token].superseded /\ token'[call[c].token].superseded]_vars
=============================================================================
