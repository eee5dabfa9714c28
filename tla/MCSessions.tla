----------------------------- MODULE MCSessions -----------------------------
(* Instance of Sessions for TLC: the callers are interchangeable. *)
EXTENDS Sessions, TLC

CallerSymmetry == Permutations(Callers)
=============================================================================
