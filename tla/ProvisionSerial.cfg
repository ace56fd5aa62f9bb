SPECIFICATION FairSpec
CONSTANTS
  RangeStart = 0
  RangeEnd = 0
  NodePortStart = 1
  NodePortEnd = 1
  TraefikPort = 1
  Absent = Absent
  Bare = Bare
  i1 = i1
  s1 = s1
  s2 = s2
  s3 = s3
  d1 = d1
  d2 = d2
  t1 = t1
  k1 = k1
  x1 = x1
  x2 = x2
  g1 = g1
  Requests = {g1, s1, s2, s3, d1, d2, k1}
  Job <- MCJob
  MaxInFlight = 1
  Faulty = {"cluster", "store", "provider"}
  MaxFaults = 1
INVARIANTS
  CopiesAreSound
  ListedRuns
PROPERTIES
  RetrySucceeds
CHECK_DEADLOCK FALSE
