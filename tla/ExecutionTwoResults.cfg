SPECIFICATION Spec
CONSTANTS
  Scopes = {a}
  SyncRequests = {s1, s2}
  Tasks = {t1}
  MaxRuns = 3
  MaxOverlap = 2
  OnlineCleanup = FALSE
  MaxCrashes = 0
  MaxErrors = 1
  NoRun = NoRun
  NoResult = NoResult
  NoScope = NoScope
INVARIANTS OneResultPerScope
CHECK_DEADLOCK FALSE
