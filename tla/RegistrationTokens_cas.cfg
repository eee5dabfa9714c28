CONSTANTS
  NoRow = NoRow
  Refused = Refused
  Callers = {c1, c2}
  CasAttempts = 2
  UseLimits = {0, 1, 2}
  MaxGatewayDNSNames = 1
  Updates <- MCUpdates
  DNSLists <- MCDNSLists
  MaxVersion = 4
  MaxTime = 1
SYMMETRY CallerSymmetry
SPECIFICATION Spec
INVARIANTS EveryGrantClaimed UsesWithinLimit
PROPERTIES KillSwitch ContentionIsProgress
