SPECIFICATION Spec
CONSTANTS
  Clients = {c1, c2}
  Types = {t1, t2}
  Bodies = {b1, b2}
  MaxRules = 2
  MaxVersions = 2
  MaxLock = 3
  MaxInFlight = 1
  NoRecord = NoRecord
  NoContent = NoContent
  NoView = NoView
SYMMETRY Interchangeable
INVARIANTS RowTellsItsState
PROPERTIES NoSilentOverwrite PublishedTypeIsStable OnlyPublishingReachesRuntime KeepsBook
