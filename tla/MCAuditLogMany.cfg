SPECIFICATION FairSpec
CONSTANTS
  Background = {}
  MaxLogins = 2
  MaxEvents = 5
  MaxCrashes = 1
  VerifyLimit = 5
  Rotates = TRUE
  NoThread = NoThread
INVARIANTS AckedDurable VerifierExact
PROPERTIES AppendOnly LoggingEnds
CHECK_DEADLOCK FALSE
