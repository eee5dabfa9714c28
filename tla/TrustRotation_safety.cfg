SPECIFICATION Spec
CONSTANTS
  Roots = {r0, r1}
  NoRoot = NoRoot
  Absent = Absent
  Deleted = Deleted
  FirstRoot = r0
  Agents = {a1}
  Gateways = {g1}
  MaxRotations = 1
  MaxAgentCerts = 2
  MaxGatewayCerts = 2
INVARIANTS LeavesFollowIssuer InstalledTrust TrustCoversLeaves
CHECK_DEADLOCK FALSE
