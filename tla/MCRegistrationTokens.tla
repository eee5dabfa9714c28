------------------------ MODULE MCRegistrationTokens ------------------------
(* Instance of RegistrationTokens for TLC: the callers are interchangeable. *)
EXTENDS RegistrationTokens, TLC

\* None, one name, more names than a token may hold.
MCDNSLists == {<<>>, <<"n1">>, <<"n1", "n2">>}
\* A lower and a higher limit, a disabling update, and one without a limit, which is refused.
MCUpdates ==
  {[maxUses |-> n, expiresAt |-> MaxTime + 1, disabled |-> FALSE] : n \in UseLimits}
    \cup {[maxUses |-> 2, expiresAt |-> 1, disabled |-> TRUE]}
CallerSymmetry == Permutations(Callers)
=============================================================================
