SPECIFICATION Spec
CONSTANTS
  a = a
  b = b
  None = None
  Targets <- TwoTargets
  MaxVersion = 3
  FirstVersion = 2
  Requests <- NamedResumes
INVARIANT EveryWatchResumes
CHECK_DEADLOCK FALSE
