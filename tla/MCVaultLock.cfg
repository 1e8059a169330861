CONSTANTS
  Lockers = {w1, w2}
  MaxStray = 1
  NoThread = NoThread
  AutoLockEnabled = TRUE
  PanicKeys = {}
  Tray = TRUE
  AutoClears = TRUE
  SwitchAnywhere = FALSE
SPECIFICATION Spec
SYMMETRY LockerSymmetry
INVARIANTS TypeOK LockDue NothingLeftBehind WatchdogArmed CoveredWhenLocked MenuFollowsSession
CHECK_DEADLOCK FALSE
