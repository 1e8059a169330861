SPECIFICATION FairSpec
CONSTANTS
  Titles = {"x", " x", "y"}
  Users = {"u", " u", ""}
  NoUser = ""
  Gone = Gone
  Strip <- MCStrip
  Files <- MCFiles
  Vaults <- MCVaults
  Jobs = {1}
  Interval = 2
  MaxId = 7
  MaxSuffix = 2
  MaxTemp = 2
  Budgets <- MCBudgets
INVARIANTS CountedIsStored SkipMakesNoTwin OverwrittenIsBackedUp OwedIsCheckpointed
PROPERTIES ImportEnds
CHECK_DEADLOCK FALSE
