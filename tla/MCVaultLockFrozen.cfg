CONSTANTS
  Lockers = {w1}
  MaxStray = 0
  NoThread = NoThread
  AutoLockEnabled = TRUE
  PanicKeys = {}
  Tray = FALSE
  AutoClears = FALSE
  SwitchAnywhere = FALSE
SPECIFICATION FairSpec
PROPERTIES LockCompletes
CHECK_DEADLOCK FALSE
