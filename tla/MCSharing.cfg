SPECIFICATION Spec
CONSTANTS
  EntryIds = {1}
  Values = {"v", "gone"}
  Gone = "gone"
  Keys = {"k", "l"}
  MinDays = 1
  MaxDays = 1
  Days = {1, 2}
  MaxTime = 2
  Entries0 <- MCEntries
  MaxShares = 2
  MaxEvents = 2
INVARIANTS LiveRecordsAgree RecordedUnlessUndone ReadInTime
PROPERTIES KeptOnDisk
CHECK_DEADLOCK FALSE
