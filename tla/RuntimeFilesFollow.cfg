SPECIFICATION FairSpec
CONSTANTS
  State = State
  Absent = Absent
  k1 = k1
  k2 = k2
  Kubeconfigs <- TwoKubeconfigs
  MaxWrites = 2
INVARIANTS
  ReportedIsWhole
PROPERTIES
  WatchedChangeActsOn
  StateFileIsFollowed
  RemovedStateStops
CHECK_DEADLOCK FALSE
