CONSTANTS
  Lockers = {w1}
  MaxStray = 1
  NoThread = NoThread
  AutoLockEnabled = TRUE
  PanicKeys = {"tk", "hot"}
  Tray = FALSE
  AutoClears = FALSE
  SwitchAnywhere = TRUE
SPECIFICATION Spec
SYMMETRY LockerSymmetry
INVARIANTS NothingLeftBehind WatchdogArmed
CHECK_DEADLOCK FALSE
