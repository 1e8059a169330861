SPECIFICATION FairSpec
CONSTANTS
  Secrets = {a, b}
  a = a
  b = b
  MaxServices = 1
  MaxFired = 2
  AdapterFails = FALSE
  Watched = {1}
INVARIANTS TypeOK ClipboardTracked TimerCovers LockLeavesNothing
PROPERTIES ClearedInTime
CHECK_DEADLOCK FALSE
