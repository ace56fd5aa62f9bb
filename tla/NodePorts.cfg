SPECIFICATION Spec
CONSTANTS
  RangeStart = 0
  RangeEnd = 0
  NodePortStart = 1
  NodePortEnd = 6
  CallPorts <- MCCallPorts
INVARIANTS
  TypeOK
  PortsSorted
  NothingLost
PROPERTIES
  ImplementsPool
