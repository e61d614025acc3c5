SPECIFICATION FairSpec
CONSTANTS
  Chunks = {k1, k2}
  Workers = {w1, w2}
  FirstWorker = w1
  Clients = {u1}
  StaleViews = FALSE
  MaxCrashes = 1
  NoOne = NoOne
  NoFiles = NoFiles
  NoRun = NoRun
INVARIANTS
  TypeOK
  CompletedIsWhole
  ResultsAreGrounded
PROPERTIES
  KeepsLifecycle
  RunsEnd
CHECK_DEADLOCK FALSE
