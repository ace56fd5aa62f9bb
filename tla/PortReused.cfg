SPECIFICATION Spec
CONSTANTS
  RangeStart = 0
  RangeEnd = 0
  NodePortStart = 1
  NodePortEnd = 3
  TraefikPort = 2
  Absent = Absent
  Bare = Bare
  i1 = i1
  s1 = s1
  s2 = s2
  s3 = s3
  d1 = d1
  d2 = d2
  t1 = t1
  k1 = k1
  x1 = x1
  x2 = x2
  g1 = g1
  Requests = {g1, s1, s2}
  Job <- MCJob
  MaxInFlight = 1
  Faulty = {}
  MaxFaults = 0
PROPERTIES
  UnusedPort
CHECK_DEADLOCK FALSE
