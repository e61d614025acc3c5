SPECIFICATION FairSpec
CONSTANTS
  Scopes = {a}
  SyncRequests = {s1, s2}
  Tasks = {t1, t2}
  MaxRuns = 3
  MaxOverlap = 2
  OnlineCleanup = TRUE
  MaxCrashes = 1
  MaxErrors = 1
  NoRun = NoRun
  NoResult = NoResult
  NoScope = NoScope
INVARIANTS TypeOK ItemsBelongToRuns NoStrandedRun
PROPERTIES RunsEnd
CHECK_DEADLOCK FALSE
