SPECIFICATION Spec
CONSTANTS
  Chunks = {k1, k2}
  Workers = {w1, w2}
  FirstWorker = w1
  Clients = {u1}
  StaleViews = TRUE
  MaxCrashes = 1
  NoOne = NoOne
  NoFiles = NoFiles
  NoRun = NoRun
INVARIANT OneWorker
CHECK_DEADLOCK FALSE
