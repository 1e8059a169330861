SPECIFICATION Spec
CONSTANTS
  timer = timer
  monitor = monitor
  Background = {timer, monitor}
  MaxLogins = 1
  MaxEvents = 6
  MaxCrashes = 1
  VerifyLimit = 3
  Rotates = TRUE
  NoThread = NoThread
SYMMETRY BackgroundSymmetry
INVARIANTS TypeOK ChainIntact NothingRefused
PROPERTIES RefinesChain
CHECK_DEADLOCK FALSE
