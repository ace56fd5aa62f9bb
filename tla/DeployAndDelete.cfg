SPECIFICATION FairSpec
CONSTANTS
  n1 = n1
  n2 = n2
  i1 = i1
  i2 = i2
  c1 = c1
  c2 = c2
  x1 = x1
  x2 = x2
  x3 = x3
  Nodes = {n1, n2}
  DataDrives = {}
  Deletions = {x1, x2, x3}
  Ips = {"ip1", "ip2"}
  Faulty = {"create", "drive", "slowDrive", "boot", "slowBoot", "poll", "action", "slowStop", "delete", "store", "ips"}
  MaxFaults = 1
  MaxLost = 1
  Infras = {i1, i2}
  NodesOf <- TwoOfOne
  HasSecret = {i1, i2}
  Creations = {c1}
  InfrasOf <- Together
  Cleaners = {c1}
  Target <- Raced
INVARIANTS
  StoredIsComplete
  DeletedIsGone
PROPERTIES
  FollowsLifecycle
  EveryRequestIsAnswered
CHECK_DEADLOCK FALSE
