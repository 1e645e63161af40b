SPECIFICATION FairSpec
CONSTANTS
  a = a
  b = b
  None = None
  Targets <- TwoTargets
  MaxVersion = 3
  FirstVersion = 2
  Requests <- AllRequests
INVARIANTS
  StampIsPosition
  ReportedFailureIsACause
  NothingOutlivesTheHandler
PROPERTIES
  ImplementsMergedWatch
  OneEndEndsAll
CHECK_DEADLOCK FALSE
