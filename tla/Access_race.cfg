SPECIFICATION Spec
CONSTANTS
  act = act
  set = set
  asg = asg
  asgOld = asgOld
  pol = pol
  stg = stg
  dg = dg
  d1 = d1
  d2 = d2
  inv1 = inv1
  inv2 = inv2
  adm = adm
  mgr = mgr
  mem = mem
  ug = ug
  sg = sg
  tok = tok
  tokOld = tokOld
  idp = idp
  scp = scp
  scpOld = scpOld
  lgn = lgn
  c1 = c1
  c2 = c2
  s1 = s1
  x1 = x1
  a1 = a1
  NoRow = NoRow
  NoUser = NoUser
  Actions = {act}
  ActionSets = {set}
  Assignments = {asg, asgOld}
  Policies = {pol}
  Settings = {stg}
  DeviceGroups = {dg}
  Devices = {d1, d2}
  Inventories = {inv1, inv2}
  Users = {adm, mgr, mem}
  UserGroups = {ug}
  SCIMGroups = {sg}
  Tokens = {tok, tokOld}
  OIDCProviders = {idp}
  SCIMProviders = {scp, scpOld}
  Logins = {lgn}
  InventoryOf <- MCInventoryOf
  Order <- MCOrder
  Callers = {c1, c2}
  Subject <- MCSubject
  Grants <- MCGrants
  GlobalOnly <- MCGlobalOnly
  Requests <- MCRequests
  Setup <- MCSetup
  StaticProviders = {idp}
  States = {s1}
  Executions = {x1}
  MaxChunks = 2
  MaxBytes = 2
  MaxChunkBytes = 2
  ChunkSizes = {1, 2, 3}
  PageLimits = {2}
  Addresses = {a1}
  PerProvider = 1
  PerProviderIP = 1
  BucketCapacity = 3
  MaxCalls = 3
INVARIANTS
  OneSessionPerLogin
  ManagementReplays
  ListsMatchGets
PROPERTIES
  ConfinedWrites
  NothingReturns
  LimitsKept
CHECK_DEADLOCK FALSE
