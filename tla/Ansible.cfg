SPECIFICATION FairSpec
CONSTANTS
  n1 = n1
  n2 = n2
  v1 = v1
  k1 = k1
  k2 = k2
  g1 = g1
  z1 = z1
  Nodes = {n1, n2}
  Master = n1
  Requests = {v1, k1, k2, g1, z1}
  Wanted <- MCWanted
  MaxInFlight = 1
  Faulty = {"disk", "host", "store"}
  MaxFaults = 1
  Missing = Missing
INVARIANTS
  TypeOK
  DoneIsDeployed
  RecordedIsThere
PROPERTIES
  RetryInstalls
CHECK_DEADLOCK FALSE
