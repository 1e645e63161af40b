SPECIFICATION FairSpec
CONSTANTS
  r1 = r1
  r2 = r2
  Requests <- TwoRequests
  Upgrades <- OneUpgrade
  IdleDelay = 1
  ShutdownTimeout = 1
  UnusedAge = 1
  TTL = 1
  MaxChanges = 2
INVARIANTS
  CounterIsExact
  ReloadInterruptsNothing
  NoLostReload
PROPERTIES
  PendingReloadHappens
  IdleServerEnds
  FileErrorStops
  TTLEndsQuietServers
  ImplementsLifecycle
CHECK_DEADLOCK FALSE
