SPECIFICATION Spec
CONSTANTS
  t1 = t1
  t2 = t2
  noFile = noFile
  noPassword = noPassword
  Threads = {t1, t2}
  Names = {"near.json", "far.csv"}
  Near = {"near.json"}
  Ext <- MCExt
  Texts <- MCTexts
  Strip <- MCStrip
  Forbidden = {"bad"}
  Marked = {"it's"}
  Garbled <- MCGarbled
  NoteUrls = {"sn"}
  Tags = {"t", "bad"}
  EntryIds = {0, 1, 2}
  Fresh = 0
  Passwords = {"p"}
  NoPassword = noPassword
  NoFile = noFile
  Weight <- MCWeight
  ExportLimit = 3
  ImportLimit = 2
  Vaults <- MCVaults
  Found <- MCFound
  Requests <- MCRequests
  Edited = {" a"}
  MaxExports = 2
  MaxReads = 2
  MaxEvents = 2
  MaxAll = 3
INVARIANTS TempsCleared SecretsCovered ImportedIsExported OursComesBack
PROPERTIES RefinesAtomicFile
SYMMETRY Symmetry
CHECK_DEADLOCK FALSE
