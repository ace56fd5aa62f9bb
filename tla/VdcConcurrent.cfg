SPECIFICATION FairSpec
CONSTANTS
  RangeStart = 0
  RangeEnd = 0
  NodePortStart = 1
  NodePortEnd = 7
  o1 = o1
  o2 = o2
  o3 = o3
  a1 = a1
  b1 = b1
  b2 = b2
  b3 = b3
  c1 = c1
  e1 = e1
  m1 = m1
  m2 = m2
  n1 = n1
  Infras = {o1, o2, o3, a1}
  Default = {a1}
  Existing = {o2}
  Foreign = {1, 3}
  Hidden = {5}
  Dals = {"near", "far"}
  WithAddress <- MCWithAddress
  VdmPorts <- MCVdmPorts
  Requests = {b1, b2, c1, e1, n1}
  Job <- MCJob
  MaxInFlight = 2
  Faulty = {"cluster", "store", "provider"}
  MaxFaults = 1
  NoInfra = NoInfra
  NotThere = NotThere
  Bare = Bare
INVARIANTS
  TypeOK
PROPERTIES
  IdentityStays
CHECK_DEADLOCK FALSE
