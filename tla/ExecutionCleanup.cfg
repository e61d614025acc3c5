SPECIFICATION Spec
CONSTANTS
  Scopes = {a}
  SyncRequests = {s1, s2}
  Tasks = {t1}
  MaxRuns = 2
  MaxOverlap = 1
  OnlineCleanup = TRUE
  MaxCrashes = 0
  MaxErrors = 1
  NoRun = NoRun
  NoResult = NoResult
  NoScope = NoScope
PROPERTIES CleanupSparesFreshResults
CHECK_DEADLOCK FALSE
