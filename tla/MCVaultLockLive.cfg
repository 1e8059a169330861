CONSTANTS
  Lockers = {w1}
  MaxStray = 1
  NoThread = NoThread
  AutoLockEnabled = TRUE
  PanicKeys = {}
  Tray = FALSE
  AutoClears = FALSE
  SwitchAnywhere = FALSE
SPECIFICATION FairSpec
PROPERTIES IdleLocks LockCarriedThrough
CHECK_DEADLOCK FALSE
