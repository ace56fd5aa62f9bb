SPECIFICATION FairSpec
CONSTANTS
  Statuses = {"creating", "unmounted", "broken"}
  Awaited = "creating"
  Interval = 3
  Timeouts <- MCTimeouts
INVARIANTS
  AnswerIsChange
  WaitIsBounded
PROPERTIES
  PollEnds
CHECK_DEADLOCK FALSE
