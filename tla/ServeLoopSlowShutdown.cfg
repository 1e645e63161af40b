SPECIFICATION Spec
CONSTANTS
  r1 = r1
  r2 = r2
  Requests <- TwoRequests
  Upgrades <- OneUpgrade
  IdleDelay = 1
  ShutdownTimeout = 1
  UnusedAge = 2
  TTL = 1
  MaxChanges = 1
INVARIANT DrainedServerIsReplaced
CHECK_DEADLOCK FALSE
