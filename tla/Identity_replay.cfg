CONSTANTS
  u0 = u0  u1 = u1  u2 = u2
  m1 = m1  m2 = m2
  s1 = s1  s2 = s2  o1 = o1
  sg0 = sg0  sg1 = sg1  ug0 = ug0  ug1 = ug1  r0 = r0  r1 = r1  g1 = g1
  x1 = x1  x2 = x2  n1 = n1  n2 = n2
  c1 = c1  c2 = c2
  Users = {u0, u1, u2}
  Emails = {m1, m2}
  SCIMIds = {s1, s2}
  OIDCIds = {o1}
  SCIMGroups = {sg0, sg1}
  UserGroups = {ug0, ug1}
  Roles = {r0, r1}
  Grants = {g1}
  ExternalIds = {x1, x2}
  GroupNames = {n1, n2}
  RoleNames = {n1, n2}
  Callers = {c1, c2}
  NoRow = NoRow
  NoCaller = NoCaller
  Order <- MCOrder
  Setup <- MCSetup
  MaxCalls = 2
SPECIFICATION Spec
SYMMETRY Symmetry
CHECK_DEADLOCK FALSE
INVARIANT ReplayIsOneToOne
