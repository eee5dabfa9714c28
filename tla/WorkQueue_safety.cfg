CONSTANTS
  w1 = w1
  w2 = w2
  k1 = k1
  k2 = k2
  Workers = {w1, w2}
  Works = {k1, k2}
  Registered = {k1}
  RunDelays = {0, 1}
  MaxAttempts = 3
  BaseDelay = 1
  MaxDelay = 3
  MaxOverdue = 1
  MaxLosses = 2
SPECIFICATION FairSpec
INVARIANTS NothingDropped RunsBounded
PROPERTIES NotResurrected RetriesBackOff WorkSettles
