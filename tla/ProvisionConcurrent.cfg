SPECIFICATION FairSpec
CONSTANTS
  RangeStart = 0
  RangeEnd = 0
  NodePortStart = 1
  NodePortEnd = 3
  TraefikPort = 1
  Absent = Absent
  Bare = Bare
  i1 = i1
  s1 = s1
  s2 = s2
  s3 = s3
  d1 = d1
  d2 = d2
  t1 = t1
  k1 = k1
  x1 = x1
  x2 = x2
  g1 = g1
  Requests = {i1, s1, d1, d2, t1, x1}
  Job <- MCJob
  MaxInFlight = 2
  Faulty = {"cluster", "provider"}
  MaxFaults = 1
INVARIANTS
  CopiesAreSound
  ServiceDeployed
  DeletedForGood
PROPERTIES
  EveryRequestEnds
CHECK_DEADLOCK FALSE
