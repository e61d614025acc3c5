SPECIFICATION Spec
CONSTANTS
  Scopes = {a, b}
  SyncRequests = {s1, s2, s3}
  Tasks = {t1, t2}
  MaxRuns = 3
  MaxOverlap = 1
  OnlineCleanup = FALSE
  MaxCrashes = 1
  MaxErrors = 0
  NoRun = NoRun
  NoResult = NoResult
  NoScope = NoScope
SYMMETRY Interchangeable
INVARIANTS OneResultPerScope FindingsAreListed
PROPERTIES BackgroundRunsMoveForward KeepsBoard
CHECK_DEADLOCK FALSE
