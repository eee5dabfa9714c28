SPECIFICATION FairSpec
CONSTANTS
  s1 = s1
  s2 = s2
  i1 = i1
  i2 = i2
  Sources = {s1, s2}
  NoSource = NoSource
  Successor = i2
  Issuers = {i1, i2}
  IssuerOf <- MCIssuerOf
  Before <- MCBefore
  Workers = {w1, w2}
  Subscribers = {g1}
  MaxFaults = 1
INVARIANTS ReceiptMeansListed NoWorkLost
PROPERTIES ListsOnlyGrow RevocationsArrive
CHECK_DEADLOCK FALSE
