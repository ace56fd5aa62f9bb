SPECIFICATION ReliableSpec
CONSTANTS
  n1 = n1
  n2 = n2
  i1 = i1
  i2 = i2
  c1 = c1
  c2 = c2
  x1 = x1
  x2 = x2
  x3 = x3
  Nodes = {n1, n2}
  DataDrives = {}
  Deletions = {x1, x2}
  Ips = {"ip1", "ip2"}
  Faulty = {"delete"}
  MaxFaults = 1
  MaxLost = 0
  Infras = {i1}
  NodesOf <- OneOfTwo
  HasSecret = {i1}
  Creations = {c1}
  InfrasOf <- Alone
  Cleaners = {}
  Target <- FirstTwice
PROPERTIES
  DeletionSucceeds
CHECK_DEADLOCK FALSE
