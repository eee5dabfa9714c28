SPECIFICATION FairSpec
CONSTANTS
  s1 = s1
  s2 = s2
  i1 = i1
  i2 = i2
  Sources = {s1}
  NoSource = NoSource
  Successor = i2
  Issuers = {i1, i2}
  IssuerOf <- MCIssuerOf
  Before <- MCBefore
  Workers = {w1}
  Subscribers = {g1, g2}
  MaxFaults = 0
PROPERTIES RevocationsArrive
CHECK_DEADLOCK FALSE
