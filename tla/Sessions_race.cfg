CONSTANTS
  Users = {u1}
  Families = {f1}
  Callers = {c1, c2}
  RevokeAttempts = 2
  MaxTokens = 4
  MaxSession = 2
  NoRow = NoRow
SYMMETRY CallerSymmetry
SPECIFICATION Spec
INVARIANTS OneActiveToken RevokedByReplay SessionVersionKept
PROPERTIES ReplayRevokes OneWinner
