--------------------------- MODULE SessionsProofs ---------------------------
(***************************************************************************)
(* The theorems about Sessions, for any users, families and callers and    *)
(* any number of tokens, session versions and revocation attempts.         *)
(***************************************************************************)
EXTENDS Sessions, TLAPS

(* The inductive invariant *)

Rotating == {"user", "rotate", "reread", "revoke"}

SeenRow ==
  [family : Families, subject : Users, version : Nat, active : Tokens,
   revoked : BOOLEAN, superseded : BOOLEAN]

CallRow ==
  [pc : Ended \cup Rotating \cup {"start"}, token : Tokens \cup {NoRow},
   subject : Users \cup {NoRow}, user : UserRow \cup {NoRow},
   seen : SeenRow \cup {NoRow}, attempt : Nat]

RowsOK ==
  /\ user \in [Users -> UserRow \cup {NoRow}]
  /\ family \in [Families -> FamilyRow \cup {NoRow}]
  /\ token \in [Tokens -> TokenRow \cup {NoRow}]
  /\ call \in [Callers -> CallRow]
  /\ presented \in [Tokens -> 0 .. 2]

\* The active token of a family is a stored token of that family.
ActiveStored ==
  \A f \in Families :
    family[f] # NoRow
      => family[f].active \in Stored /\ token[family[f].active].family = f

\* The token can no longer be rotated, and never will be.
Spent(t) == token[t].superseded \/ family[token[t].family].revoked

\* What a caller read of a family is a past state of it: the present one while
\* the version has not moved, and flags that are never taken back otherwise.
SeenFits(t, seen, tokenRow, familyRow) ==
  /\ seen \in SeenRow /\ seen.family = tokenRow.family
  /\ seen.version <= familyRow.version
  /\ seen.version = familyRow.version
       => /\ seen.active = familyRow.active
          /\ seen.revoked = familyRow.revoked
          /\ seen.superseded = tokenRow.superseded
  /\ seen.version # familyRow.version /\ seen.active = t
       => tokenRow.superseded \/ familyRow.revoked
  /\ seen.superseded => tokenRow.superseded
  /\ seen.revoked => familyRow.revoked

SeenOK(c) ==
  /\ call[c].token \in Stored
  /\ SeenFits(call[c].token, call[c].seen,
              token[call[c].token], family[call[c].seen.family])

\* What each step of Rotate has established for the next one.
StageOK(c) ==
  LET t == call[c].token IN
  LET seen == call[c].seen IN
  /\ call[c].pc = "rotate"
       => /\ ~seen.revoked /\ ~seen.superseded /\ seen.active = t
          /\ call[c].user \in UserRow /\ call[c].user.session = token[t].session
  /\ call[c].pc \in {"reread", "revoke"} => Spent(t)
  /\ call[c].pc = "revoke" => seen.superseded /\ ~seen.revoked

CallOK(c) ==
  /\ call[c].pc = "start" => call[c].user \in UserRow /\ call[c].subject \in Users
  /\ call[c].pc \in Rotating => SeenOK(c) /\ StageOK(c)

\* Every call on a token, and the rotation that superseded it, presented it.
PresentedOK ==
  /\ \A t \in Stored : token[t].superseded => presented[t] >= 1
  /\ \A c \in Callers :
       call[c].pc \in Rotating
         => /\ presented[call[c].token] >= 1
            /\ token[call[c].token].superseded => presented[call[c].token] = 2
  /\ \A c, d \in Callers :
       c # d /\ call[c].pc \in Rotating /\ call[d].pc \in Rotating
             /\ call[c].token = call[d].token
         => presented[call[c].token] = 2

IInv ==
  /\ RowsOK
  /\ ActiveStored
  /\ OneActiveToken
  /\ SessionVersionKept
  /\ RevokedByReplay
  /\ PresentedOK
  /\ \A c \in Callers : CallOK(c)

-----------------------------------------------------------------------------
\* No sessions yet.
LEMMA InitInv == Init => IInv
<1> SUFFICES ASSUME Init PROVE IInv
  BY Zenon
<1>1. RowsOK
  <2>1. user \in [Users -> UserRow \cup {NoRow}]
    BY SessionsAssumption DEF Init, UserRow
  <2>2. call \in [Callers -> CallRow]
    BY Zenon DEF Init, CallRow, Done, Ended
  <2> QED BY <2>1, <2>2 DEF Init, RowsOK
<1>2. \A c \in Callers : call[c].pc = "none"
  BY Zenon DEF Init, Done
<1>3. Stored = {}
  BY Zenon DEF Init, Stored
<1>4. ActiveStored /\ RevokedByReplay
  BY Zenon DEF Init, ActiveStored, RevokedByReplay
<1>5. OneActiveToken /\ SessionVersionKept
  BY <1>3, Zenon DEF OneActiveToken, SessionVersionKept
<1>6. PresentedOK
  BY <1>2, <1>3, Zenon DEF PresentedOK, Rotating
<1>7. \A c \in Callers : CallOK(c)
  BY <1>2, Zenon DEF CallOK, Rotating
<1> QED BY <1>1, <1>4, <1>5, <1>6, <1>7, Zenon DEF IInv

\* What a caller has seen fits rows of a later version, unless it saw its own
\* token active and the token is not spent by the step.
LEMMA FitsLater ==
  ASSUME NEW t, NEW seen, NEW tokenRow, NEW familyRow, NEW tokenNow, NEW familyNow,
         SeenFits(t, seen, tokenRow, familyRow),
         tokenNow.family = tokenRow.family,
         familyRow.version \in Nat, familyNow.version = familyRow.version + 1,
         tokenRow.superseded => tokenNow.superseded,
         familyRow.revoked => familyNow.revoked,
         seen.version = familyRow.version /\ seen.active = t
           => tokenNow.superseded \/ familyNow.revoked
  PROVE  SeenFits(t, seen, tokenNow, familyNow)
<1>1. seen.version \in Nat /\ seen.version <= familyRow.version
  BY Zenon DEF SeenFits, SeenRow
<1>2. seen.version <= familyNow.version /\ seen.version # familyNow.version
  BY <1>1
<1> QED BY <1>2, ZenonT(60) DEF SeenFits

\* The rows a caller has seen are there.
LEMMA SeenFacts ==
  ASSUME NEW c \in Callers, SeenOK(c)
  PROVE  /\ call[c].token \in Stored /\ call[c].token \in Tokens
         /\ call[c].seen \in SeenRow /\ call[c].seen.family \in Families
         /\ call[c].seen.family = token[call[c].token].family
         /\ call[c].seen.subject \in Users
<1>1. call[c].token \in Stored /\ call[c].token \in Tokens
  BY Zenon DEF SeenOK, Stored
<1>2. call[c].seen \in SeenRow /\ call[c].seen.family = token[call[c].token].family
  BY ZenonT(60) DEF SeenOK, SeenFits
<1> QED BY <1>1, <1>2, Zenon DEF SeenRow

\* A caller whose call, token row and family row stand still has seen the same.
LEMMA SeenKept ==
  ASSUME NEW d \in Callers, SeenOK(d),
         call'[d].token = call[d].token, call'[d].seen = call[d].seen,
         call[d].token \in Stored',
         token'[call[d].token] = token[call[d].token],
         family'[token[call[d].token].family] = family[token[call[d].token].family]
  PROVE  /\ SeenOK(d)'
         /\ Spent(call[d].token)' = Spent(call[d].token)
<1>1. call[d].seen.family = token[call[d].token].family
  BY SeenFacts, Zenon
<1>2. SeenOK(d)'
  BY <1>1, ZenonT(60) DEF SeenOK
<1> QED BY <1>1, <1>2, Zenon DEF Spent

\* The same of a call that stands still as a whole.
LEMMA StageKept ==
  ASSUME NEW d \in Callers, SeenOK(d), call'[d] = call[d],
         call[d].token \in Stored',
         token'[call[d].token] = token[call[d].token],
         family'[token[call[d].token].family] = family[token[call[d].token].family]
  PROVE  SeenOK(d)' /\ (StageOK(d) => StageOK(d)')
<1>1. SeenOK(d)' /\ (Spent(call[d].token)' <=> Spent(call[d].token))
  BY SeenKept, Zenon
<1> QED BY <1>1, Zenon DEF StageOK

\* The rows, and with them what is said of other callers, stand still.
RowsStill == UNCHANGED <<family, token, presented>>

\* Steps that leave the rows alone: it is enough to look at the caller that
\* moved, which keeps its token if it is still rotating.
LEMMA StillStep ==
  ASSUME IInv, RowsStill, NEW c \in Callers, NEW r \in CallRow,
         user' \in [Users -> UserRow \cup {NoRow}],
         call' = [call EXCEPT ![c] = r],
         r.pc \in Rotating => call[c].pc \in Rotating /\ r.token = call[c].token,
         CallOK(c)'
  PROVE  IInv'
<1>1. RowsOK'
  BY Zenon DEF IInv, RowsOK, RowsStill
<1>2. Stored' = Stored
  BY Zenon DEF RowsStill, Stored
<1>3. ActiveStored' /\ OneActiveToken' /\ SessionVersionKept' /\ RevokedByReplay'
  BY <1>2 DEF IInv, RowsStill, ActiveStored, OneActiveToken, SessionVersionKept, RevokedByReplay
<1>4. \A d \in Callers : d # c => call'[d] = call[d]
  BY Zenon DEF IInv, RowsOK
<1>5. call'[c] = r
  BY Zenon DEF IInv, RowsOK
<1>6. PresentedOK'
  <2>1. \A d \in Callers : call'[d].pc \in Rotating
                             => call[d].pc \in Rotating /\ call'[d].token = call[d].token
    BY <1>4, <1>5, Zenon
  <2> QED BY <2>1, <1>2 DEF IInv, PresentedOK, RowsStill
<1>7. \A d \in Callers : CallOK(d)'
  <2> SUFFICES ASSUME NEW d \in Callers, d # c PROVE CallOK(d)'
    BY Zenon
  <2>1. CallOK(d)
    BY Zenon DEF IInv
  <2>2. call'[d] = call[d]
    BY SMTT(60), <1>4
  <2>3. SeenOK(d) /\ StageOK(d) => SeenOK(d)' /\ StageOK(d)'
    BY <2>2, <1>2, StageKept, SeenFacts, Zenon DEF RowsStill
  <2> QED BY <2>1, <2>2, <2>3, Zenon DEF CallOK
<1> QED BY <1>1, <1>3, <1>6, <1>7, Zenon DEF IInv

\* Return, in any step that leaves the rows alone.
LEMMA ReturnStep ==
  ASSUME IInv, RowsStill, user' = user, NEW c \in Callers, NEW result \in Ended,
         Return(c, result)
  PROVE  IInv'
<1>1. Done(result) \in CallRow /\ Done(result).pc = result
  BY Zenon DEF Done, CallRow
<1>2. call'[c].pc = result
  BY <1>1, Zenon DEF Return, IInv, RowsOK
<1>3. result \notin Rotating /\ result # "start"
  BY Zenon DEF Ended, Rotating
<1>4. CallOK(c)'
  BY <1>2, <1>3, Zenon DEF CallOK, Rotating
<1>5. user' \in [Users -> UserRow \cup {NoRow}]
  BY Zenon DEF IInv, RowsOK
<1> QED BY <1>1, <1>3, <1>4, <1>5, StillStep, ZenonT(60) DEF Return

\* The join of a stored token and its family is a row.
LEMMA ReadRow ==
  ASSUME IInv, NEW t \in Stored
  PROVE  /\ RefreshFamilyToken(t) \in SeenRow
         /\ token[t] \in TokenRow
         /\ family[token[t].family] \in FamilyRow
<1>1. t \in Tokens /\ token[t] \in TokenRow
  BY Zenon DEF Stored, IInv, RowsOK
<1>2. token[t].family \in Families
  BY <1>1, Zenon DEF TokenRow
<1>3. family[token[t].family] \in FamilyRow
  BY <1>2 DEF IInv, RowsOK, OneActiveToken
<1>4. RefreshFamilyToken(t) \in SeenRow
  BY <1>1, <1>2, <1>3, Zenon DEF TokenRow, FamilyRow, SeenRow, RefreshFamilyToken
<1> QED BY <1>1, <1>3, <1>4, Zenon

\* The fields of that row.
LEMMA ReadFields ==
  ASSUME IInv, NEW t \in Stored
  PROVE  LET state == RefreshFamilyToken(t) IN
         /\ state \in SeenRow
         /\ state.family = token[t].family
         /\ state.version = family[state.family].version
         /\ state.version \in Nat
         /\ state.active = family[state.family].active
         /\ state.revoked = family[state.family].revoked
         /\ state.superseded = token[t].superseded
BY ReadRow, Zenon DEF RefreshFamilyToken, FamilyRow

\* StartSession reads a user that is there.
LEMMA StartSessionStep == ASSUME IInv, NEW c \in Callers, StartSession(c) PROVE IInv'
<1>1. RowsStill /\ user' = user
  BY Zenon DEF StartSession, RowsStill
<1>2. PICK u \in Users :
        IF user[u] = NoRow \/ user[u].disabled
        THEN Return(c, "rejected")
        ELSE call' = [call EXCEPT ![c] = [Done("start") EXCEPT !.subject = u, !.user = user[u]]]
  BY Zenon DEF StartSession
<1>3. CASE user[u] = NoRow \/ user[u].disabled
  BY <1>1, <1>2, <1>3, ReturnStep, Zenon DEF Ended
<1>4. CASE ~(user[u] = NoRow \/ user[u].disabled)
  <2> DEFINE r == [Done("start") EXCEPT !.subject = u, !.user = user[u]]
  <2>1. user[u] \in UserRow
    BY <1>4, Zenon DEF IInv, RowsOK
  <2>2. r \in CallRow /\ r.pc = "start" /\ r.user = user[u] /\ r.subject = u
    BY <2>1, ZenonT(60) DEF Done, CallRow
  <2>3. call' = [call EXCEPT ![c] = r]
    BY <1>2, <1>4, Zenon
  <2>4. call'[c] = r
    BY <2>3, Zenon DEF IInv, RowsOK
  <2>5. CallOK(c)'
    BY <2>1, <2>2, <2>4, Zenon DEF CallOK, Rotating
  <2>6. r.pc \notin Rotating
    BY <2>2, Zenon DEF Rotating
  <2>7. user' \in [Users -> UserRow \cup {NoRow}]
    BY <1>1, Zenon DEF IInv, RowsOK
  <2> HIDE DEF r
  <2> QED BY <1>1, <2>2, <2>3, <2>5, <2>6, <2>7, StillStep, ZenonT(60)
<1> QED BY <1>3, <1>4, Zenon

\* ReadUser decides on what it holds: only a checked token goes on to rotate,
\* only a superseded one to revoke.
LEMMA ReadUserStep == ASSUME IInv, NEW c \in Callers, ReadUser(c) PROVE IInv'
<1>1. RowsStill /\ user' = user
  BY Zenon DEF ReadUser, RowsStill
<1>2. user' \in [Users -> UserRow \cup {NoRow}] /\ call[c] \in CallRow
  BY <1>1, Zenon DEF IInv, RowsOK
<1>3. call[c].pc = "user" /\ SeenOK(c)
  BY Zenon DEF ReadUser, IInv, CallOK, Rotating
<1> DEFINE t == call[c].token
           seen == call[c].seen
           u == user[seen.subject]
<1>4. CASE Admits(c, u)
  <2> DEFINE r == [call[c] EXCEPT !.pc = "rotate", !.user = u]
  <2>1. u \in UserRow
    BY <1>3, <1>4, SeenFacts, Zenon DEF Admits, IInv, RowsOK
  <2>2. r \in CallRow /\ r.pc = "rotate" /\ r.token = t /\ r.seen = seen /\ r.user = u
    BY <1>2, <2>1, ZenonT(60) DEF CallRow, Rotating
  <2>3. call' = [call EXCEPT ![c] = r]
    BY <1>4, <1>2, ZenonT(60) DEF ReadUser, IInv, RowsOK, CallRow
  <2> HIDE DEF r, u
  <2>4. call'[c] = r
    BY SMTT(60), <2>3 DEF IInv, RowsOK
  <2>5. SeenOK(c)'
    BY <1>1, <1>3, <2>2, <2>4, SeenKept, SeenFacts, Zenon DEF RowsStill, Stored
  <2>6. /\ ~seen.revoked /\ ~seen.superseded /\ seen.active = t
        /\ u.session = token[t].session
    BY <1>4, Zenon DEF Admits
  <2>7. StageOK(c)'
    BY <1>1, <2>1, <2>2, <2>4, <2>6, Zenon DEF StageOK, RowsStill
  <2>8. CallOK(c)'
    BY <2>2, <2>4, <2>5, <2>7, Zenon DEF CallOK
  <2>9. call[c].pc \in Rotating
    BY <1>3, Zenon DEF Rotating
  <2> QED BY <1>1, <1>2, <2>2, <2>3, <2>8, <2>9, StillStep, ZenonT(60)
<1>5. CASE ~Admits(c, u) /\ seen.superseded /\ ~seen.revoked
  <2> DEFINE r == [call[c] EXCEPT !.pc = "reread"]
  <2>1. r \in CallRow /\ r.pc = "reread" /\ r.token = t /\ r.seen = seen
    BY <1>2, Zenon DEF CallRow, Rotating
  <2>2. call' = [call EXCEPT ![c] = r]
    BY <1>5, <1>2, Zenon DEF ReadUser, IInv, RowsOK, CallRow
  <2> HIDE DEF r, u
  <2>3. call'[c] = r
    BY SMTT(60), <2>2 DEF IInv, RowsOK
  <2>4. SeenOK(c)'
    BY <1>1, <1>3, <2>1, <2>3, SeenKept, SeenFacts, Zenon DEF RowsStill, Stored
  <2>5. StageOK(c)'
    <3>1. Spent(t)
      BY <1>3, <1>5, ZenonT(60) DEF SeenOK, SeenFits, Spent
    <3> QED BY <1>1, <1>5, <2>1, <2>3, <3>1, Zenon DEF StageOK, RowsStill, Spent
  <2>6. CallOK(c)'
    BY <2>1, <2>3, <2>4, <2>5, Zenon DEF CallOK
  <2>7. call[c].pc \in Rotating
    BY <1>3 DEF Rotating
  <2> QED BY <1>1, <1>2, <2>1, <2>2, <2>6, <2>7, StillStep, ZenonT(60)
<1>6. CASE ~Admits(c, u) /\ ~(seen.superseded /\ ~seen.revoked)
  <2>1. Return(c, "rejected")
    BY <1>6, Zenon DEF ReadUser
  <2> QED BY <1>1, <2>1, ReturnStep, Zenon DEF Ended
<1> QED BY <1>4, <1>5, <1>6, Zenon

\* A reread finds the family revoked or its token superseded.
LEMMA RereadTokenStep == ASSUME IInv, NEW c \in Callers, RereadToken(c) PROVE IInv'
<1>1. RowsStill /\ user' = user
  BY Zenon DEF RereadToken, RowsStill
<1>2. user' \in [Users -> UserRow \cup {NoRow}] /\ call[c] \in CallRow
  BY <1>1 DEF IInv, RowsOK
<1>3. call[c].pc = "reread" /\ SeenOK(c) /\ StageOK(c)
  BY Zenon DEF RereadToken, IInv, CallOK, Rotating
<1> DEFINE t == call[c].token
           state == RefreshFamilyToken(t)
<1>4. CASE state.revoked \/ ~state.superseded
  <2>1. Return(c, "rejected")
    BY <1>4, Zenon DEF RereadToken
  <2> QED BY <1>1, <2>1, ReturnStep DEF Ended
<1>5. CASE ~(state.revoked \/ ~state.superseded)
  <2> DEFINE r == [call[c] EXCEPT !.pc = "revoke", !.seen = state]
  <2>1. call' = [call EXCEPT ![c] = r]
    BY <1>5, <1>2, ZenonT(60) DEF RereadToken, IInv, RowsOK, CallRow
  <2>2. t \in Stored
    BY <1>3, Zenon DEF SeenOK, SeenFits
  <2>3. state \in SeenRow
    BY <2>2, ReadRow, Zenon
  <2>4. r \in CallRow /\ r.pc = "revoke" /\ r.token = t /\ r.seen = state
    BY <1>2, <2>3, ZenonT(60) DEF CallRow, Rotating
  <2> HIDE DEF r
  <2>5. call'[c] = r
    BY <2>1, Zenon DEF IInv, RowsOK
  <2>6. SeenOK(c)'
    BY <1>1, <2>2, <2>4, <2>5, ReadFields DEF SeenOK, SeenFits, RowsStill, Stored
  <2>7. StageOK(c)'
    BY <1>1, <1>3, <1>5, <2>4, <2>5, Zenon DEF StageOK, RowsStill, Spent
  <2>8. CallOK(c)'
    BY <2>4, <2>5, <2>6, <2>7, Zenon DEF CallOK
  <2>9. call[c].pc \in Rotating
    BY <1>3, Zenon DEF Rotating
  <2> QED BY <1>1, <1>2, <2>1, <2>4, <2>8, <2>9, StillStep, ZenonT(60)
<1> QED BY <1>4, <1>5, Zenon

\* Fail.
LEMMA FailStep == ASSUME IInv, NEW c \in Callers, Fail(c) PROVE IInv'
BY ReturnStep, Zenon DEF Fail, RowsStill, Ended

\* Steps of users and time touch no session row and no call.
LEMMA UserStep ==
  ASSUME IInv, RowsStill, call' = call, user' \in [Users -> UserRow \cup {NoRow}]
  PROVE  IInv'
<1>1. Stored' = Stored
  BY Zenon DEF RowsStill, Stored
<1>2. RowsOK' /\ PresentedOK'
  BY <1>1, Zenon DEF IInv, RowsOK, PresentedOK, RowsStill
<1>3. ActiveStored' /\ OneActiveToken' /\ SessionVersionKept' /\ RevokedByReplay'
  BY <1>1, Zenon DEF IInv, RowsStill, ActiveStored, OneActiveToken, SessionVersionKept, RevokedByReplay
<1>4. \A d \in Callers : CallOK(d)'
  <2> SUFFICES ASSUME NEW d \in Callers PROVE CallOK(d)'
    BY SMTT(60)
  <2>1. SeenOK(d) /\ StageOK(d) => SeenOK(d)' /\ StageOK(d)'
    BY <1>1, StageKept, SeenFacts, Zenon DEF RowsStill
  <2> QED BY <2>1, Zenon DEF IInv, CallOK
<1> QED BY <1>2, <1>3, <1>4, Zenon DEF IInv

\* Session invalidation and user deletion.
LEMMA InvalidationStep ==
  ASSUME IInv, NEW u \in Users, NEW d \in BOOLEAN,
         projectSessionInvalidation(u, d) \/ projectUserDeletion(u)
  PROVE  IInv'
<1>1. RowsStill /\ call' = call
  BY Zenon DEF projectSessionInvalidation, projectUserDeletion, RowsStill
<1>2. user' \in [Users -> UserRow \cup {NoRow}]
  <2>1. user \in [Users -> UserRow \cup {NoRow}]
    BY Zenon DEF IInv, RowsOK
  <2>2. CASE projectUserDeletion(u)
    BY <2>1, <2>2, Zenon DEF projectUserDeletion
  <2>3. CASE projectSessionInvalidation(u, d)
    <3>1. user[u] \in UserRow /\ user[u].session < MaxSession
      BY <2>1, <2>3, Zenon DEF projectSessionInvalidation
    <3>2. [session |-> user[u].session + 1, disabled |-> user[u].disabled \/ d] \in UserRow
      BY <3>1, SessionsAssumption DEF UserRow
    <3> QED BY <2>1, <2>3, <3>2, Zenon DEF projectSessionInvalidation
  <2> QED BY <2>2, <2>3, Zenon
<1> QED BY <1>1, <1>2, UserStep, Zenon

\* A token expires.
LEMMA ExpireStep == ASSUME IInv, NEW t \in Tokens, Expire(t) PROVE IInv'
<1>1. RowsStill /\ call' = call /\ user' = user
  BY Zenon DEF Expire, RowsStill
<1> QED BY <1>1, UserStep, Zenon DEF IInv, RowsOK

\* Rotate reads the family and counts the presentation.
LEMMA RotateStep ==
  ASSUME IInv, NEW c \in Callers, NEW t \in Tokens, Rotate(c, t) PROVE IInv'
<1> DEFINE r == [Done("user") EXCEPT !.token = t, !.seen = RefreshFamilyToken(t)]
<1>1. t \in Stored /\ call[c].pc \in Ended /\ UNCHANGED <<user, family, token>>
  BY Zenon DEF Rotate
<1>2. r \in CallRow /\ r.pc = "user" /\ r.token = t /\ r.seen = RefreshFamilyToken(t)
  BY <1>1, ReadRow, ZenonT(60) DEF Done, CallRow, Rotating
<1>3. call' = [call EXCEPT ![c] = r]
  BY Zenon DEF Rotate
<1> HIDE DEF r
<1>4. call'[c] = r /\ \A d \in Callers : d # c => call'[d] = call[d]
  BY <1>3, Zenon DEF IInv, RowsOK
<1>5. /\ presented' \in [Tokens -> 0 .. 2]
      /\ presented'[t] = (IF presented[t] < 2 THEN presented[t] + 1 ELSE presented[t])
      /\ \A s \in Tokens : s # t => presented'[s] = presented[s]
  BY DEF Rotate, IInv, RowsOK
<1>6. RowsOK'
  BY <1>1, <1>2, <1>3, <1>5, Zenon DEF IInv, RowsOK
<1>7. Stored' = Stored
  BY <1>1, Zenon DEF Stored
<1>8. \A s \in Tokens : presented'[s] >= presented[s] /\ presented'[s] \in 0 .. 2
  BY <1>5 DEF IInv, RowsOK
<1>9. ActiveStored' /\ OneActiveToken' /\ SessionVersionKept'
  BY <1>1, <1>7, Zenon DEF IInv, ActiveStored, OneActiveToken, SessionVersionKept
<1>10. RevokedByReplay'
  <2> SUFFICES ASSUME NEW f \in Families, family[f] # NoRow, family[f].revoked
               PROVE  \E s \in Stored : token[s].family = f /\ presented'[s] = 2
    BY <1>1, <1>7, Zenon DEF RevokedByReplay
  <2>1. PICK s \in Stored : token[s].family = f /\ presented[s] = 2
    BY Zenon DEF IInv, RevokedByReplay
  <2>2. presented'[s] = 2
    BY <2>1, <1>8 DEF Stored
  <2> QED BY <2>1, <2>2, Zenon
<1>11. PresentedOK'
  <2>1. presented[t] \in 0 .. 2 /\ Stored \subseteq Tokens
    BY Zenon DEF IInv, RowsOK, Stored
  <2>2. presented'[t] >= 1
    BY <1>5, <2>1
  <2>3. \A s \in Stored : token[s].superseded => presented'[s] >= 1
    BY <1>8, <2>1, <2>2 DEF IInv, PresentedOK, RowsOK
  <2>4. presented[t] >= 1 => presented'[t] = 2
    BY <1>5, <2>1
  <2>5. token[t].superseded => presented'[t] = 2
    BY <1>1, <2>4, Zenon DEF IInv, PresentedOK
  <2>6. \A d \in Callers : d # c /\ call[d].pc \in Rotating
          => /\ call[d].token \in Tokens
             /\ presented'[call[d].token] >= 1
             /\ token[call[d].token].superseded => presented'[call[d].token] = 2
             /\ call[d].token = t => presented'[t] = 2
    <3> SUFFICES ASSUME NEW d \in Callers, call[d].pc \in Rotating
                 PROVE  /\ call[d].token \in Tokens
                        /\ presented'[call[d].token] >= 1
                        /\ token[call[d].token].superseded => presented'[call[d].token] = 2
                        /\ call[d].token = t => presented'[t] = 2
      BY SMTT(60)
    <3>1. call[d].token \in Tokens
      BY Zenon DEF IInv, CallOK, SeenOK, SeenFits, Stored
    <3>2. presented[call[d].token] >= 1 /\ (token[call[d].token].superseded => presented[call[d].token] = 2)
      BY Zenon DEF IInv, PresentedOK
    <3>3. presented[call[d].token] \in 0 .. 2
      BY <3>1, Zenon DEF IInv, RowsOK
    <3> QED BY <3>1, <3>2, <3>3, <1>8, <2>4
  <2>7. \A d, e \in Callers :
          d # e /\ d # c /\ e # c /\ call[d].pc \in Rotating /\ call[e].pc \in Rotating
                /\ call[d].token = call[e].token
            => presented'[call[d].token] = 2
    BY <1>8, <2>6 DEF IInv, PresentedOK, RowsOK
  <2>8. \A d \in Callers : call'[d].pc \in Rotating
          => /\ presented'[call'[d].token] >= 1
             /\ token[call'[d].token].superseded => presented'[call'[d].token] = 2
    BY <1>2, <1>4, <2>2, <2>5, <2>6, Zenon
  <2>9. \A d, e \in Callers :
          d # e /\ call'[d].pc \in Rotating /\ call'[e].pc \in Rotating
                /\ call'[d].token = call'[e].token
            => presented'[call'[d].token] = 2
    BY <1>2, <1>4, <2>6, <2>7
  <2> QED BY <1>1, <1>7, <2>3, <2>8, <2>9, Zenon DEF PresentedOK
<1>12. \A d \in Callers : CallOK(d)'
  <2>1. SeenOK(c)'
    BY <1>1, <1>2, <1>4, <1>7, ReadFields DEF SeenOK, SeenFits
  <2>2. CallOK(c)'
    BY <2>1, <1>2, <1>4, Zenon DEF CallOK, StageOK
  <2> SUFFICES ASSUME NEW d \in Callers, d # c PROVE CallOK(d)'
    BY SMTT(60), <2>2
  <2>3. SeenOK(d) /\ StageOK(d) => SeenOK(d)' /\ StageOK(d)'
    BY <1>1, <1>4, <1>7, StageKept, SeenFacts, Zenon
  <2> QED BY <1>4, <2>3, Zenon DEF IInv, CallOK
<1> QED BY <1>6, <1>9, <1>10, <1>11, <1>12, Zenon DEF IInv

\* A fresh token is not stored, so no call holds it.
LEMMA FreshToken == ASSUME Stored # Tokens PROVE Fresh \in Tokens /\ Fresh \notin Stored
<1>1. \E t \in Tokens : t \notin Stored
  BY Zenon DEF Stored
<1> QED BY <1>1, Zenon DEF Fresh

\* A call that returns, while rows change, leaves the other calls as they are.
LEMMA Returned ==
  ASSUME RowsOK, NEW c \in Callers, NEW result \in Ended, Return(c, result)
  PROVE  /\ call' \in [Callers -> CallRow]
         /\ call'[c].pc = result
         /\ CallOK(c)'
         /\ \A d \in Callers : d # c => call'[d] = call[d]
         /\ \A d \in Callers : call'[d].pc \in Rotating => d # c
<1>1. Done(result) \in CallRow /\ Done(result).pc = result
  BY Zenon DEF Done, CallRow
<1>2. call' \in [Callers -> CallRow] /\ call'[c].pc = result
  BY <1>1, Zenon DEF Return, RowsOK
<1>3. \A d \in Callers : d # c => call'[d] = call[d]
  BY Zenon DEF Return, RowsOK
<1>4. result \notin Rotating /\ result # "start"
  BY Zenon DEF Ended, Rotating
<1> QED BY <1>2, <1>3, <1>4, Zenon DEF CallOK

\* The first token of a family.
LEMMA PersistFamilyStartStep ==
  ASSUME IInv, NEW c \in Callers, PersistFamilyStart(c) PROVE IInv'
<1>1. PICK f \in Families :
        family[f] = NoRow /\ projectRefreshFamilyStart(f, call[c].subject, call[c].user.session)
  BY Zenon DEF PersistFamilyStart
<1>2. PICK result \in {"ok", "unavailable"} : Return(c, result)
  BY Zenon DEF PersistFamilyStart
<1>3. result \in Ended
  BY Zenon DEF Ended
<1>4. UNCHANGED <<user, expired, presented>> /\ call[c].pc = "start"
  BY Zenon DEF PersistFamilyStart
<1>5. call[c].user \in UserRow /\ call[c].subject \in Users
  BY <1>4, Zenon DEF IInv, CallOK
<1>6. Fresh \in Tokens /\ Fresh \notin Stored
  BY FreshToken, Zenon DEF PersistFamilyStart
<1> DEFINE n == Fresh
           row == [subject |-> call[c].subject, version |-> 1, active |-> n, revoked |-> FALSE]
           new == [family |-> f, session |-> call[c].user.session, superseded |-> FALSE]
<1>7. family' = [family EXCEPT ![f] = row] /\ token' = [token EXCEPT ![n] = new]
  BY <1>1, Zenon DEF projectRefreshFamilyStart
<1>8. row \in FamilyRow /\ row.active = n /\ ~row.revoked
  BY <1>5, <1>6, Zenon DEF FamilyRow
<1>9. new \in TokenRow /\ new.family = f /\ ~new.superseded
  BY <1>5, Zenon DEF TokenRow, UserRow
<1>10. row # NoRow /\ new # NoRow
  BY <1>8, <1>9, SessionsAssumption, ZenonT(60)
<1> HIDE DEF n, row, new
<1>11. n \in Tokens /\ n \notin Stored
  BY <1>6, Zenon DEF n
<1>12. /\ family'[f] = row /\ \A g \in Families : g # f => family'[g] = family[g]
       /\ token'[n] = new /\ \A t \in Tokens : t # n => token'[t] = token[t]
  BY <1>7, <1>11, Zenon DEF IInv, RowsOK
<1>13. RowsOK /\ ActiveStored /\ OneActiveToken /\ Stored \subseteq Tokens
  BY Zenon DEF IInv, Stored
<1>14. RowsOK'
  BY <1>2, <1>3, <1>4, <1>7, <1>8, <1>9, <1>13, Returned, ZenonT(60) DEF RowsOK
<1>15. Stored' = Stored \cup {n}
  BY <1>10, <1>11, <1>12, Zenon DEF Stored
<1>16. \A t \in Stored : /\ token'[t] = token[t] /\ token[t].family # f
                         /\ token[t].family \in Families
                         /\ family'[token[t].family] = family[token[t].family]
  BY <1>1, <1>11, <1>12, <1>13, ReadRow, Zenon DEF OneActiveToken, TokenRow
<1>17. ActiveStored'
  BY <1>8, <1>9, <1>12, <1>13, <1>15, <1>16 DEF ActiveStored
<1>18. OneActiveToken'
  BY <1>8, <1>9, <1>10, <1>11, <1>12, <1>13, <1>15, <1>16 DEF OneActiveToken
<1>19. SessionVersionKept'
  BY <1>9, <1>12, <1>15, <1>16 DEF IInv, SessionVersionKept
<1>20. RevokedByReplay'
  BY <1>4, <1>8, <1>12, <1>15, <1>16 DEF IInv, RevokedByReplay
<1>21. \A d \in Callers : d # c => call'[d] = call[d]
  BY SMTT(60), <1>2, <1>3, <1>13, Returned
<1>22. \A d \in Callers : call'[d].pc \in Rotating => d # c /\ call'[d] = call[d] /\ call[d].token \in Stored
  BY SMTT(60), <1>2, <1>3, <1>13, <1>21, Returned DEF IInv, CallOK, SeenOK
<1>23. PresentedOK'
  BY <1>4, <1>9, <1>12, <1>15, <1>16, <1>22 DEF IInv, PresentedOK
<1>24. \A d \in Callers : CallOK(d)'
  <2>1. CallOK(c)'
    BY <1>2, <1>3, <1>13, Returned, Zenon
  <2> SUFFICES ASSUME NEW d \in Callers, d # c PROVE CallOK(d)'
    BY SMTT(60), <2>1
  <2>2. SeenOK(d) /\ StageOK(d) => SeenOK(d)' /\ StageOK(d)'
    BY <1>15, <1>16, <1>21, StageKept, SeenFacts, Zenon
  <2> QED BY <1>21, <2>2, Zenon DEF IInv, CallOK
<1> QED BY <1>14, <1>17, <1>18, <1>19, <1>20, <1>23, <1>24, Zenon DEF IInv

\* A committed rotation: the version did not move since the read, so the token
\* presented is the active one, and every other call that read it is spent.
LEMMA RotatedStep ==
  ASSUME IInv, NEW c \in Callers, PersistRotation(c),
         family[call[c].seen.family].version = call[c].seen.version
  PROVE  IInv'
<1> DEFINE p == call[c].token
           f == call[c].seen.family
           n == Fresh
           row == [family[f] EXCEPT !.version = @ + 1, !.active = n]
           old == [token[p] EXCEPT !.superseded = TRUE]
           new == [family |-> f, session |-> call[c].user.session, superseded |-> FALSE]
<1>1. projectRefreshTokenRotation(f, p, call[c].user.session)
  BY Zenon DEF PersistRotation
<1>2. PICK result \in {"ok", "unavailable"} : Return(c, result)
  BY Zenon DEF PersistRotation
<1>3. result \in Ended
  BY Zenon DEF Ended
<1>4. UNCHANGED <<user, presented>> /\ call[c].pc = "rotate"
  BY Zenon DEF PersistRotation
<1>5. SeenOK(c) /\ StageOK(c)
  BY <1>4, Zenon DEF IInv, CallOK, Rotating
<1>6. n \in Tokens /\ n \notin Stored
  BY FreshToken, Zenon DEF PersistRotation
<1>7. p \in Stored /\ f = token[p].family /\ f \in Families /\ p \in Tokens
  BY <1>5, SeenFacts, Zenon
<1>8. family[f].active = p /\ ~family[f].revoked /\ ~token[p].superseded
  BY <1>1, <1>7, ZenonT(60) DEF projectRefreshTokenRotation, IInv, OneActiveToken
<1>9. call[c].user.session = token[p].session /\ call[c].user \in UserRow
  BY <1>4, <1>5, Zenon DEF StageOK
<1>10. token[p] \in TokenRow /\ family[f] \in FamilyRow
  BY <1>7, ReadRow, Zenon
<1>11. /\ row \in FamilyRow /\ row.active = n /\ ~row.revoked
       /\ row.version = family[f].version + 1 /\ family[f].version \in Nat
  <2>1. family[f].version \in Nat /\ family[f].version + 1 \in Nat
    BY <1>10 DEF FamilyRow
  <2>2. row \in FamilyRow
    BY <1>6, <1>10, <2>1, ZenonT(60) DEF FamilyRow
  <2>3. row.active = n /\ row.revoked = family[f].revoked /\ row.version = family[f].version + 1
    BY <1>10, Zenon DEF FamilyRow
  <2> QED BY <1>8, <2>1, <2>2, <2>3, Zenon
<1>12. old \in TokenRow /\ old.family = f /\ old.session = token[p].session /\ old.superseded
  BY <1>7, <1>10, ZenonT(60) DEF TokenRow
<1>13. new \in TokenRow /\ new.family = f /\ new.session = token[p].session /\ ~new.superseded
  BY <1>7, <1>9, Zenon DEF TokenRow, UserRow
<1>14. row # NoRow /\ old # NoRow /\ new # NoRow
  BY <1>11, <1>12, <1>13, SessionsAssumption, ZenonT(60)
<1>15. RowsOK /\ Stored \subseteq Tokens
  BY Zenon DEF IInv, Stored
<1>16. p # n
  BY <1>6, <1>7, Zenon
<1>17. family' = [family EXCEPT ![f] = row]
  BY <1>1, <1>7, <1>10, <1>15, ZenonT(60) DEF projectRefreshTokenRotation, RowsOK, FamilyRow
<1>18. token' = [token EXCEPT ![p] = old, ![n] = new]
  BY <1>1, <1>7, <1>10, <1>15, ZenonT(60) DEF projectRefreshTokenRotation, RowsOK, TokenRow
<1> HIDE DEF n, row, old, new, p, f
<1>19. /\ family'[f] = row /\ \A g \in Families : g # f => family'[g] = family[g]
       /\ token'[n] = new /\ token'[p] = old
       /\ \A t \in Tokens : t # n /\ t # p => token'[t] = token[t]
  BY <1>6, <1>7, <1>15, <1>16, <1>17, <1>18, Zenon DEF RowsOK
<1>20. RowsOK'
  <2>1. call' \in [Callers -> CallRow]
    BY SMTT(60), <1>2, <1>3, <1>15, Returned
  <2> QED BY <1>4, <1>11, <1>12, <1>13, <1>15, <1>17, <1>18, <2>1, ZenonT(60) DEF RowsOK
<1>21. Stored' = Stored \cup {n}
  BY <1>6, <1>7, <1>14, <1>19, Zenon DEF Stored
<1>22. \A t \in Stored : /\ token'[t].family = token[t].family
                         /\ token'[t].session = token[t].session
                         /\ token'[t].superseded <=> (token[t].superseded \/ t = p)
                         /\ token[t].family \in Families
  <2> SUFFICES ASSUME NEW t \in Stored
               PROVE  /\ token'[t].family = token[t].family
                      /\ token'[t].session = token[t].session
                      /\ token'[t].superseded <=> (token[t].superseded \/ t = p)
                      /\ token[t].family \in Families
    BY Zenon
  <2>1. token[t] \in TokenRow /\ t # n /\ t \in Tokens
    BY SMTT(60), <1>6, <1>15, ReadRow
  <2>2. CASE t = p
    BY <2>1, <2>2, <1>7, <1>12, <1>19, Zenon
  <2>3. CASE t # p
    <3>1. token'[t] = token[t]
      BY <2>1, <2>3, <1>19, Zenon
    <3> QED BY <3>1, <2>1, <2>3, Zenon DEF TokenRow
  <2> QED BY <2>2, <2>3, Zenon
<1>23. ActiveStored'
  <2> SUFFICES ASSUME NEW g \in Families, family'[g] # NoRow
               PROVE  family'[g].active \in Stored' /\ token'[family'[g].active].family = g
    BY Zenon DEF ActiveStored
  <2>1. CASE g = f
    BY <2>1, <1>11, <1>13, <1>19, <1>21, Zenon
  <2>2. CASE g # f
    BY SMTT(60), <2>2, <1>19, <1>21, <1>22 DEF IInv, ActiveStored
  <2> QED BY <2>1, <2>2, Zenon
<1>24. OneActiveToken'
  <2> SUFFICES ASSUME NEW t \in Stored'
               PROVE  /\ family'[token'[t].family] # NoRow
                      /\ ~token'[t].superseded <=> family'[token'[t].family].active = t
    BY Zenon DEF OneActiveToken
  <2>1. CASE t = n
    BY <2>1, <1>11, <1>13, <1>14, <1>19, Zenon
  <2>2. CASE t \in Stored /\ token[t].family = f
    <3>1. t # n /\ family'[f].active = n /\ family'[f] # NoRow
      BY <2>2, <1>6, <1>11, <1>14, <1>19, Zenon
    <3>2. ~token[t].superseded => t = p
      BY <2>2, <1>8, Zenon DEF IInv, OneActiveToken
    <3> QED BY <2>2, <3>1, <3>2, <1>22, Zenon
  <2>3. CASE t \in Stored /\ token[t].family # f
    <3>1. t # p /\ family'[token[t].family] = family[token[t].family]
      BY <2>3, <1>7, <1>19, <1>22, Zenon
    <3> QED BY <2>3, <3>1, <1>22 DEF IInv, OneActiveToken
  <2> QED BY <2>1, <2>2, <2>3, <1>21, Zenon
<1>25. SessionVersionKept'
  <2>1. \A t \in Stored : token[t].family = f => token[t].session = token[p].session
    BY SMTT(60), <1>7 DEF IInv, SessionVersionKept
  <2> QED BY <2>1, <1>13, <1>19, <1>21, <1>22 DEF IInv, SessionVersionKept
<1>26. RevokedByReplay'
  <2> SUFFICES ASSUME NEW g \in Families, family'[g] # NoRow, family'[g].revoked
               PROVE  \E t \in Stored' : token'[t].family = g /\ presented'[t] = 2
    BY Zenon DEF RevokedByReplay
  <2>1. g # f /\ family'[g] = family[g]
    BY <1>11, <1>19, Zenon
  <2>2. PICK t \in Stored : token[t].family = g /\ presented[t] = 2
    BY <2>1, Zenon DEF IInv, RevokedByReplay
  <2> QED BY <2>2, <1>4, <1>21, <1>22, Zenon
<1>27. \A d \in Callers : d # c => call'[d] = call[d]
  BY <1>2, <1>3, <1>15, Returned, Zenon
<1>28. \A d \in Callers :
         call'[d].pc \in Rotating => d # c /\ call'[d] = call[d] /\ call[d].token \in Stored
  BY <1>2, <1>3, <1>15, <1>27, Returned, ZenonT(60) DEF IInv, CallOK, SeenOK, SeenFits
<1>29. PresentedOK'
  <2>1. call[c].pc \in Rotating /\ call[c].token = p
    BY <1>4, Zenon DEF Rotating, p
  <2>2. presented[p] >= 1
    BY <2>1, Zenon DEF IInv, PresentedOK
  <2>3. \A d \in Callers : d # c /\ call[d].pc \in Rotating /\ call[d].token = p
                             => presented[p] = 2
    BY SMTT(60), <2>1 DEF IInv, PresentedOK
  <2>4. \A t \in Stored' : token'[t].superseded => presented'[t] >= 1
    BY SMTT(60), <2>2, <1>4, <1>13, <1>19, <1>21, <1>22 DEF IInv, PresentedOK
  <2>5. \A d \in Callers : call'[d].pc \in Rotating
          => /\ presented'[call'[d].token] >= 1
             /\ token'[call'[d].token].superseded => presented'[call'[d].token] = 2
    BY SMTT(60), <2>3, <1>4, <1>22, <1>28 DEF IInv, PresentedOK
  <2>6. \A d, e \in Callers :
          d # e /\ call'[d].pc \in Rotating /\ call'[e].pc \in Rotating
                /\ call'[d].token = call'[e].token
            => presented'[call'[d].token] = 2
    BY <1>4, <1>28, Zenon DEF IInv, PresentedOK
  <2> QED BY <2>4, <2>5, <2>6, Zenon DEF PresentedOK
<1>30. \A d \in Callers : d # c /\ call[d].pc \in Rotating => SeenOK(d)' /\ StageOK(d)'
  <2> SUFFICES ASSUME NEW d \in Callers, d # c, call[d].pc \in Rotating
               PROVE  SeenOK(d)' /\ StageOK(d)'
    BY Zenon
  <2> DEFINE t == call[d].token
             seen == call[d].seen
             g == seen.family
  <2>1. SeenOK(d) /\ StageOK(d) /\ call'[d] = call[d]
    BY SMTT(60), <1>27 DEF IInv, CallOK
  <2>2. t \in Stored /\ t \in Stored' /\ seen \in SeenRow /\ g = token[t].family /\ g \in Families
    BY <2>1, <1>21, SeenFacts, Zenon
  <2>3. token'[t].family = g /\ token'[t].session = token[t].session
    BY <2>2, <1>22, Zenon
  <2>4. token[t].superseded => token'[t].superseded
    BY SMTT(60), <2>2, <1>22
  <2>5. family[g].revoked => family'[g].revoked
    BY SMTT(60), <2>2, <1>8, <1>19 DEF f
  <2>6. Spent(t) => Spent(t)'
    BY <2>1, <2>2, <2>3, <2>4, <2>5, Zenon DEF Spent
  <2>7. SeenOK(d)'
    <3>1. CASE g = f
      <4>1. family[g].version \in Nat /\ family'[g].version = family[g].version + 1
        BY <3>1, <1>11, <1>19, Zenon
      <4>2. seen.version = family[g].version /\ seen.active = t => Spent(t)'
        <5> SUFFICES ASSUME seen.version = family[g].version, seen.active = t
                     PROVE  Spent(t)'
          BY Zenon
        <5>1. seen.active = family[g].active
          BY <2>1, ZenonT(60) DEF SeenOK, SeenFits
        <5>2. t = p
          BY <5>1, <3>1, <1>8, Zenon
        <5>3. token'[t].superseded
          BY <5>2, <1>12, <1>19, ZenonT(60)
        <5> QED BY <2>1, <5>3, ZenonT(60) DEF Spent
      <4>3. SeenFits(t, seen, token[t], family[g])
        BY <2>1, ZenonT(60) DEF SeenOK
      <4>4. SeenFits(t, seen, token'[t], family'[g])
        <5>1. seen.version = family[g].version /\ seen.active = t
                => token'[t].superseded \/ family'[g].revoked
          BY <2>1, <2>3, <4>2, ZenonT(60) DEF Spent
        <5>2. token'[t].family = token[t].family
          BY <2>2, <2>3, Zenon
        <5> HIDE DEF t, seen, g
        <5> QED BY <2>4, <2>5, <4>1, <4>3, <5>1, <5>2, FitsLater, Zenon
      <4> QED BY <2>1, <2>2, <4>4, ZenonT(60) DEF SeenOK
    <3>2. CASE g # f
      <4>1. family'[g] = family[g] /\ token'[t] = token[t]
        BY SMTT(60), <2>2, <3>2, <1>6, <1>7, <1>15, <1>19
      <4> QED BY <2>1, <2>2, <4>1, SeenKept, ZenonT(60)
    <3> QED BY <3>1, <3>2, Zenon
  <2>8. StageOK(d)'
    BY SMTT(60), <2>1, <2>3, <2>6 DEF StageOK
  <2> QED BY <2>7, <2>8, Zenon
<1>31. \A d \in Callers : CallOK(d)'
  <2>1. CallOK(c)'
    BY <1>2, <1>3, <1>15, Returned, Zenon
  <2> QED BY SMTT(60), <2>1, <1>27, <1>30 DEF IInv, CallOK
<1> QED BY <1>20, <1>23, <1>24, <1>25, <1>26, <1>29, <1>31, Zenon DEF IInv

\* A lost race: the version moved, so the token that was active is spent.
LEMMA RotationConflictStep ==
  ASSUME IInv, NEW c \in Callers, PersistRotation(c),
         family[call[c].seen.family].version # call[c].seen.version
  PROVE  IInv'
<1> DEFINE r == [call[c] EXCEPT !.pc = "reread"]
<1>1. RowsStill /\ user' = user /\ call[c].pc = "rotate"
  BY Zenon DEF PersistRotation, RowsStill
<1>2. user' \in [Users -> UserRow \cup {NoRow}] /\ call[c] \in CallRow
  BY <1>1, Zenon DEF IInv, RowsOK
<1>3. SeenOK(c) /\ StageOK(c) /\ call[c].pc \in Rotating
  BY SMTT(60), <1>1 DEF IInv, CallOK, Rotating
<1>4. Spent(call[c].token)
  <2>1. call[c].seen.active = call[c].token
    BY <1>1, <1>3, ZenonT(60) DEF StageOK
  <2> QED BY <1>3, <2>1, ZenonT(60) DEF SeenOK, SeenFits, Spent
<1>5. r \in CallRow /\ r.pc = "reread" /\ r.token = call[c].token /\ r.seen = call[c].seen
  BY <1>2, Zenon DEF CallRow, Rotating
<1>6. call' = [call EXCEPT ![c] = r]
  BY <1>2, Zenon DEF PersistRotation, IInv, RowsOK, CallRow
<1> HIDE DEF r
<1>7. call'[c] = r
  BY <1>6, Zenon DEF IInv, RowsOK
<1>8. SeenOK(c)'
  BY <1>1, <1>3, <1>5, <1>7, SeenKept, SeenFacts, Zenon DEF RowsStill, Stored
<1>9. StageOK(c)'
  BY SMTT(60), <1>1, <1>4, <1>5, <1>7 DEF StageOK, RowsStill, Spent
<1>10. CallOK(c)'
  BY <1>5, <1>7, <1>8, <1>9, Zenon DEF CallOK
<1> QED BY <1>1, <1>2, <1>3, <1>5, <1>6, <1>10, StillStep, ZenonT(60)

\* A committed revocation: the family is spent for every call.
LEMMA RevokedStep ==
  ASSUME IInv, NEW c \in Callers, PersistRevocation(c),
         family[call[c].seen.family].version = call[c].seen.version
  PROVE  IInv'
<1> DEFINE p == call[c].token
           f == call[c].seen.family
           row == [family[f] EXCEPT !.version = @ + 1, !.revoked = TRUE]
<1>1. projectRefreshFamilyRevocation(f, p)
  BY Zenon DEF PersistRevocation
<1>2. PICK result \in {"rejected", "unavailable"} : Return(c, result)
  BY Zenon DEF PersistRevocation
<1>3. result \in Ended
  BY Zenon DEF Ended
<1>4. UNCHANGED <<user, token, presented>> /\ call[c].pc \in Rotating
  BY SMTT(60) DEF PersistRevocation, Rotating
<1>5. SeenOK(c)
  BY SMTT(60), <1>4 DEF IInv, CallOK
<1>6. p \in Stored /\ f = token[p].family /\ f \in Families /\ token[p].superseded
  BY <1>1, <1>5, SeenFacts, Zenon DEF projectRefreshFamilyRevocation
<1>7. family[f] \in FamilyRow
  BY <1>6, ReadRow, Zenon
<1>8. /\ row \in FamilyRow /\ row.active = family[f].active /\ row.revoked
      /\ row.version = family[f].version + 1 /\ family[f].version \in Nat
  <2>1. family[f].version \in Nat /\ family[f].version + 1 \in Nat
    BY <1>7 DEF FamilyRow
  <2>2. row \in FamilyRow
    BY <1>7, <2>1, ZenonT(60) DEF FamilyRow
  <2> QED BY <1>7, <2>1, <2>2, Zenon DEF FamilyRow
<1>9. row # NoRow
  BY SMTT(60), <1>8, SessionsAssumption
<1>10. family' = [family EXCEPT ![f] = row]
  BY <1>1, <1>6, <1>7, ZenonT(60) DEF projectRefreshFamilyRevocation, IInv, RowsOK, FamilyRow
<1>11. presented[p] = 2
  BY SMTT(60), <1>4, <1>6 DEF IInv, PresentedOK
<1> HIDE DEF p, f, row
<1>12. family'[f] = row /\ \A g \in Families : g # f => family'[g] = family[g]
  BY SMTT(60), <1>6, <1>10 DEF IInv, RowsOK
<1>13. RowsOK /\ Stored' = Stored
  BY <1>4, Zenon DEF IInv, Stored
<1>14. RowsOK'
  <2>1. call' \in [Callers -> CallRow]
    BY <1>2, <1>3, <1>13, Returned, Zenon
  <2> QED BY <1>4, <1>8, <1>10, <1>13, <2>1, ZenonT(60) DEF RowsOK
<1>15. \A g \in Families : /\ family'[g] = NoRow <=> family[g] = NoRow
                           /\ family[g] # NoRow => family'[g].active = family[g].active
  BY <1>7, <1>8, <1>9, <1>12, SessionsAssumption, Zenon
<1>16. \A t \in Stored : token[t].family \in Families
  BY SMTT(60), ReadRow DEF TokenRow
<1>17. ActiveStored' /\ OneActiveToken' /\ SessionVersionKept'
  BY <1>4, <1>13, <1>15, <1>16 DEF IInv, ActiveStored, OneActiveToken, SessionVersionKept
<1>18. RevokedByReplay'
  BY <1>4, <1>6, <1>11, <1>12, <1>13, Zenon DEF IInv, RevokedByReplay
<1>19. \A d \in Callers : d # c => call'[d] = call[d]
  BY SMTT(60), <1>2, <1>3, <1>13, Returned
<1>20. \A d \in Callers : call'[d].pc \in Rotating => d # c /\ call'[d] = call[d]
  BY SMTT(60), <1>2, <1>3, <1>13, <1>19, Returned
<1>21. PresentedOK'
  BY <1>4, <1>13, <1>20 DEF IInv, PresentedOK
<1>22. \A d \in Callers : d # c /\ call[d].pc \in Rotating => SeenOK(d)' /\ StageOK(d)'
  <2> SUFFICES ASSUME NEW d \in Callers, d # c, call[d].pc \in Rotating
               PROVE  SeenOK(d)' /\ StageOK(d)'
    BY SMTT(60)
  <2> DEFINE t == call[d].token
             seen == call[d].seen
  <2>1. SeenOK(d) /\ StageOK(d) /\ call'[d] = call[d]
    BY <1>19, Zenon DEF IInv, CallOK
  <2>2. t \in Stored /\ seen.family = token[t].family /\ seen.family \in Families
    BY <2>1, SeenFacts, Zenon
  <2>3. Spent(t) => Spent(t)'
    <3>1. family[seen.family].revoked => family'[seen.family].revoked
      BY <1>8, <1>12, <2>2, ZenonT(60)
    <3> QED BY <1>4, <2>1, <2>2, <3>1, ZenonT(60) DEF Spent
  <2>4. StageOK(d)'
    BY <1>4, <2>1, <2>3, Zenon DEF StageOK
  <2>5. CASE seen.family = f
    <3>1. family[f].version \in Nat /\ family'[f].version = family[f].version + 1
      BY <1>8, <1>12, Zenon
    <3>2. family'[f].revoked /\ token'[t] = token[t]
      BY <1>4, <1>8, <1>12, Zenon
    <3>3. SeenFits(t, seen, token[t], family[f])
      BY <2>1, <2>5, ZenonT(60) DEF SeenOK
    <3>4. SeenFits(t, seen, token'[t], family'[f])
      <4> HIDE DEF t, seen
      <4> QED BY <3>1, <3>2, <3>3, FitsLater, Zenon
    <3>5. SeenOK(d)'
      BY <1>13, <2>1, <2>2, <2>5, <3>4, ZenonT(60) DEF SeenOK
    <3> QED BY <2>4, <3>5, Zenon
  <2>6. CASE seen.family # f
    <3>1. family'[seen.family] = family[seen.family]
      BY <1>12, <2>2, <2>6, Zenon
    <3>2. SeenOK(d)'
      BY <1>4, <1>13, <2>1, <2>2, <3>1, SeenKept, ZenonT(60)
    <3> QED BY <2>4, <3>2
  <2> QED BY <2>5, <2>6, Zenon
<1>23. \A d \in Callers : CallOK(d)'
  <2>1. CallOK(c)'
    BY <1>2, <1>3, <1>13, Returned, Zenon
  <2> QED BY SMTT(60), <2>1, <1>19, <1>22 DEF IInv, CallOK
<1> QED BY <1>14, <1>17, <1>18, <1>21, <1>23, Zenon DEF IInv

\* A revocation that lost a race is tried again or given up.
LEMMA RevocationConflictStep ==
  ASSUME IInv, NEW c \in Callers, PersistRevocation(c),
         family[call[c].seen.family].version # call[c].seen.version
  PROVE  IInv'
<1>1. RowsStill /\ user' = user /\ call[c].pc = "revoke" /\ RevocationConflict(c)
  BY Zenon DEF PersistRevocation, RowsStill
<1>2. user' \in [Users -> UserRow \cup {NoRow}] /\ call[c] \in CallRow
  BY <1>1, Zenon DEF IInv, RowsOK
<1>3. SeenOK(c) /\ StageOK(c) /\ call[c].pc \in Rotating
  BY <1>1, Zenon DEF IInv, CallOK, Rotating
<1>4. CASE ~(call[c].attempt + 1 < RevokeAttempts)
  BY <1>1, <1>4, ReturnStep, Zenon DEF RevocationConflict, Ended
<1>5. CASE call[c].attempt + 1 < RevokeAttempts
  <2> DEFINE r == [call[c] EXCEPT !.pc = "reread", !.attempt = @ + 1]
  <2>1. r \in CallRow /\ r.pc = "reread" /\ r.token = call[c].token /\ r.seen = call[c].seen
    <3>1. call[c].attempt + 1 \in Nat
      BY <1>2 DEF CallRow
    <3>2. r \in CallRow
      BY <1>2, <3>1, ZenonT(60) DEF CallRow, Rotating
    <3> QED BY <1>2, <3>2, Zenon DEF CallRow
  <2>2. call' = [call EXCEPT ![c] = r]
    BY <1>1, <1>2, <1>5, Zenon DEF RevocationConflict, IInv, RowsOK, CallRow
  <2> HIDE DEF r
  <2>3. call'[c] = r
    BY <2>2 DEF IInv, RowsOK
  <2>4. SeenOK(c)'
    BY <1>1, <1>3, <2>1, <2>3, ZenonT(60) DEF SeenOK, SeenFits, RowsStill, Stored, Spent
  <2>5. StageOK(c)'
    BY <1>1, <1>3, <2>1, <2>3, Zenon DEF StageOK, RowsStill, Spent
  <2>6. CallOK(c)'
    BY <2>1, <2>3, <2>4, <2>5 DEF CallOK
  <2> QED BY <1>1, <1>2, <1>3, <2>1, <2>2, <2>6, StillStep, ZenonT(60)
<1> QED BY SMTT(60), <1>4, <1>5

-----------------------------------------------------------------------------
\* Every step preserves the invariant.
LEMMA NextInv == IInv /\ [Next]_vars => IInv'
<1> SUFFICES ASSUME IInv, [Next]_vars PROVE IInv'
  BY SMTT(60)
<1>1. CASE UNCHANGED vars
  <2>1. RowsStill /\ call' = call /\ user' = user
    BY <1>1, Zenon DEF vars, RowsStill
  <2> QED BY <2>1, UserStep, Zenon DEF IInv, RowsOK
<1>2. ASSUME NEW c \in Callers, StartSession(c) \/ CallStep(c) \/ Fail(c) PROVE IInv'
  <2>1. CASE StartSession(c)
    BY <2>1, StartSessionStep, Zenon
  <2>2. CASE PersistFamilyStart(c)
    BY <2>2, PersistFamilyStartStep
  <2>3. CASE ReadUser(c)
    BY <2>3, ReadUserStep
  <2>4. CASE PersistRotation(c)
    BY <2>4, RotatedStep, RotationConflictStep, Zenon
  <2>5. CASE RereadToken(c)
    BY <2>5, RereadTokenStep
  <2>6. CASE PersistRevocation(c)
    BY <2>6, RevokedStep, RevocationConflictStep
  <2>7. CASE Fail(c)
    BY <2>7, FailStep
  <2> QED BY <1>2, <2>1, <2>2, <2>3, <2>4, <2>5, <2>6, <2>7, Zenon DEF CallStep
<1>3. ASSUME NEW c \in Callers, NEW t \in Tokens, Rotate(c, t) PROVE IInv'
  BY <1>3, RotateStep, Zenon
<1>4. ASSUME NEW u \in Users, NEW d \in BOOLEAN,
             projectSessionInvalidation(u, d) \/ projectUserDeletion(u)
      PROVE  IInv'
  BY <1>4, InvalidationStep, Zenon
<1>5. ASSUME NEW t \in Tokens, Expire(t) PROVE IInv'
  BY <1>5, ExpireStep, Zenon
<1>6. ASSUME NEW u \in Users, projectUserDeletion(u) PROVE IInv'
  BY <1>4, <1>6, ZenonT(60)
<1> QED BY <1>1, <1>2, <1>3, <1>4, <1>5, <1>6, Zenon DEF Next

\* The inductive invariant holds throughout.
THEOREM Invariant == Spec => []IInv
<1> QED BY InitInv, NextInv, PTL DEF Spec

\* In every family exactly the token named by the family row can be rotated.
THEOREM SingleActiveToken == Spec => []OneActiveToken
<1>1. IInv => OneActiveToken
  BY Zenon DEF IInv
<1> QED BY <1>1, Invariant, PTL

\* No token of a family outlives a session invalidation by a rotation that was
\* in flight: all its tokens carry the version the session started with.
THEOREM SessionsEndWithVersion == Spec => []SessionVersionKept
<1>1. IInv => SessionVersionKept
  BY Zenon DEF IInv
<1> QED BY <1>1, Invariant, PTL

\* A client that presents each of its tokens once never loses its session to
\* replay detection.
THEOREM OnlyReplayRevokes == Spec => []RevokedByReplay
<1>1. IInv => RevokedByReplay
  BY SMTT(60) DEF IInv
<1> QED BY <1>1, Invariant, PTL

\* A call moves by its own steps only.
LEMMA OwnStep ==
  ASSUME IInv, Next, NEW c \in Callers, call'[c] # call[c], call[c].pc \in Rotating
  PROVE  ReadUser(c) \/ PersistRotation(c) \/ RereadToken(c) \/ PersistRevocation(c) \/ Fail(c)
<1>1. call \in [Callers -> CallRow] /\ call[c].pc \notin Ended /\ call[c].pc # "start"
  BY Zenon DEF IInv, RowsOK, Rotating, Ended
<1>2. ASSUME NEW d \in Callers, StartSession(d) \/ PersistFamilyStart(d) PROVE FALSE
  BY <1>1, <1>2, ZenonT(60) DEF StartSession, PersistFamilyStart, Return
<1>3. ASSUME NEW d \in Callers, NEW t \in Tokens, Rotate(d, t) PROVE FALSE
  BY <1>1, <1>3, Zenon DEF Rotate
<1>4. ASSUME NEW d \in Callers, d # c,
             ReadUser(d) \/ PersistRotation(d) \/ RereadToken(d) \/ PersistRevocation(d) \/ Fail(d)
      PROVE  FALSE
  BY SMTT(60), <1>1, <1>4 DEF ReadUser, PersistRotation, RereadToken, PersistRevocation, Fail, Return,
                    RevocationConflict
<1>5. ASSUME NEW u \in Users, NEW d \in BOOLEAN,
             projectUserDeletion(u) \/ projectSessionInvalidation(u, d)
      PROVE  FALSE
  BY <1>5, Zenon DEF projectUserDeletion, projectSessionInvalidation
<1>6. ASSUME NEW t \in Tokens, Expire(t) PROVE FALSE
  BY <1>6, Zenon DEF Expire
<1>7. ASSUME NEW u \in Users, projectUserDeletion(u) PROVE FALSE
  BY <1>7, Zenon DEF projectUserDeletion
<1> QED BY SMTT(60), <1>2, <1>3, <1>4, <1>5, <1>6, <1>7 DEF Next, CallStep

\* A rejected replay, or a lost race to rotate, leaves the family revoked.
THEOREM RejectedReplayRevokes == Spec => ReplayRevokes
<1>1. ASSUME IInv, [Next]_vars, NEW c \in Callers, call[c].pc \in Rotating,
             call[c].seen.superseded \/ call[c].pc \in {"reread", "revoke"},
             call'[c].pc = "rejected"
      PROVE  family'[call[c].seen.family].revoked
  <2>1. call'[c] # call[c]
    BY <1>1, Zenon DEF Rotating
  <2>2. Next
    BY SMTT(60), <1>1, <2>1 DEF vars
  <2>3. SeenOK(c) /\ StageOK(c) /\ call \in [Callers -> CallRow] /\ call[c] \in CallRow
    BY <1>1, Zenon DEF IInv, CallOK, RowsOK
  <2>4. \A result \in Ended : Return(c, result) => call'[c].pc = result
    BY SMTT(60), <1>1, Returned DEF IInv
  <2>5. CASE ReadUser(c)
    <3>1. call[c].pc = "user" /\ UNCHANGED family
      BY <2>5, Zenon DEF ReadUser
    <3>2. call[c].seen.superseded
      BY <1>1, <3>1, Zenon
    <3>3. call[c].seen.revoked
      BY <1>1, <2>3, <2>5, <3>2 DEF ReadUser, Return, CallRow
    <3> QED BY <2>3, <3>1, <3>3, Zenon DEF SeenOK, SeenFits
  <2>6. CASE PersistRotation(c)
    BY <1>1, <2>3, <2>4, <2>6 DEF PersistRotation, Return, CallRow, Done
  <2>7. CASE RereadToken(c)
    <3>1. call[c].pc = "reread" /\ UNCHANGED family /\ call[c].token \in Stored
      BY <2>3, <2>7, Zenon DEF RereadToken, SeenOK, SeenFits
    <3>2. RefreshFamilyToken(call[c].token).revoked \/ ~RefreshFamilyToken(call[c].token).superseded
      BY SMTT(60), <1>1, <2>3, <2>7 DEF RereadToken, CallRow
    <3>3. Spent(call[c].token)
      BY SMTT(60), <2>3, <3>1 DEF StageOK
    <3> QED BY <1>1, <2>3, <3>1, <3>2, <3>3, ReadFields, ZenonT(60) DEF Spent, SeenOK, SeenFits
  <2>8. CASE PersistRevocation(c)
    <3>1. CASE family[call[c].seen.family].version = call[c].seen.version
      <4>1. projectRefreshFamilyRevocation(call[c].seen.family, call[c].token)
        BY SMTT(60), <2>8, <3>1 DEF PersistRevocation
      <4>2. call[c].seen.family \in Families /\ family[call[c].seen.family] \in FamilyRow
        BY ZenonT(60), <1>1, <2>3, ReadRow DEF SeenOK, SeenFits, SeenRow
      <4> QED BY SMTT(60), <1>1, <4>1, <4>2 DEF projectRefreshFamilyRevocation, IInv, RowsOK, FamilyRow
    <3>2. CASE family[call[c].seen.family].version # call[c].seen.version
      <4>1. RevocationConflict(c)
        BY <2>8, <3>2, Zenon DEF PersistRevocation
      <4> QED BY SMTT(60), <1>1, <2>3, <2>4, <4>1 DEF RevocationConflict, CallRow, Ended
    <3> QED BY SMTT(60), <3>1, <3>2
  <2>9. CASE Fail(c)
    BY <1>1, <2>4, <2>9, Zenon DEF Fail, Ended
  <2> QED BY <1>1, <2>1, <2>2, <2>5, <2>6, <2>7, <2>8, <2>9, OwnStep, Zenon
<1>2. IInv /\ [Next]_vars
        => [\A c \in Callers :
              /\ call[c].pc \in {"user", "rotate", "reread", "revoke"}
              /\ call[c].seen.superseded \/ call[c].pc \in {"reread", "revoke"}
              /\ call'[c].pc = "rejected"
              => family'[call[c].seen.family].revoked]_vars
  BY <1>1, Zenon DEF Rotating
<1> QED BY <1>2, Invariant, PTL DEF Spec, ReplayRevokes

\* A refresh token is exchanged at most once.
THEOREM ExchangedOnce == Spec => OneWinner
<1>1. ASSUME IInv, [Next]_vars, NEW c \in Callers, call[c].pc = "rotate", call'[c].pc = "ok"
      PROVE  ~token[call[c].token].superseded /\ token'[call[c].token].superseded
  <2>1. call'[c] # call[c] /\ call[c].pc \in Rotating
    BY <1>1, Zenon DEF Rotating
  <2>2. Next
    BY SMTT(60), <1>1, <2>1 DEF vars
  <2>3. SeenOK(c) /\ StageOK(c) /\ RowsOK /\ call[c] \in CallRow
    BY SMTT(60), <1>1, <2>1 DEF IInv, CallOK, RowsOK
  <2>4. ~Fail(c)
    BY <1>1, <2>3, Returned, Zenon DEF Fail, Ended
  <2>5. PersistRotation(c)
    BY <1>1, <2>1, <2>2, <2>4, OwnStep, ZenonT(60) DEF ReadUser, RereadToken, PersistRevocation
  <2>6. family[call[c].seen.family].version = call[c].seen.version
    BY <1>1, <2>3, <2>5, ZenonT(60) DEF PersistRotation, RowsOK, CallRow
  <2>7. projectRefreshTokenRotation(call[c].seen.family, call[c].token, call[c].user.session)
    BY SMTT(60), <2>5, <2>6 DEF PersistRotation
  <2>8. call[c].token \in Stored /\ Fresh \notin Stored /\ call[c].token \in Tokens
    BY <2>3, <2>5, FreshToken, SeenFacts, Zenon DEF PersistRotation
  <2>9. token[call[c].token] \in TokenRow
    BY SMTT(60), <1>1, <2>8, ReadRow
  <2>10. ~token[call[c].token].superseded
    BY SMTT(60), <1>1, <2>3, <2>6 DEF SeenOK, SeenFits, StageOK
  <2>11. token'[call[c].token].superseded
    BY <2>3, <2>7, <2>8, <2>9, Zenon DEF projectRefreshTokenRotation, RowsOK, TokenRow
  <2> QED BY <2>10, <2>11, Zenon
<1>2. IInv /\ [Next]_vars
        => [\A c \in Callers :
              call[c].pc = "rotate" /\ call'[c].pc = "ok"
                => ~token[call[c].token].superseded /\ token'[call[c].token].superseded]_vars
  BY <1>1, Zenon
<1> QED BY <1>2, Invariant, PTL DEF Spec, OneWinner
=============================================================================
