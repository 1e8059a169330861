SPECIFICATION Spec
CONSTANTS
  Secrets = {a}
  a = a
  MaxServices = 2
  MaxFired = 1
  AdapterFails = TRUE
  Watched = {}
INVARIANTS BusTracked
CHECK_DEADLOCK FALSE
