SPECIFICATION CloudSpec
CONSTANTS
  n1 = n1
  n2 = n2
  x1 = x1
  Nodes = {n1, n2}
  DataDrives = {"data"}
  Deletions = {x1}
  Ips = {"ip1", "ip2"}
  Faulty = {"create", "drive", "slowDrive", "boot", "action"}
  MaxFaults = 2
  MaxLost = 0
SYMMETRY Symmetric
INVARIANTS
  FailedNodeIsGone
  CreatedNodeIsComplete
CHECK_DEADLOCK FALSE
