SPECIFICATION Spec
CONSTANTS
  Clients = {c1, c2}
  Types = {t1, t2}
  Bodies = {b1, b2}
  MaxRules = 1
  MaxVersions = 2
  MaxLock = 2
  MaxInFlight = 2
  NoRecord = NoRecord
  NoContent = NoContent
  NoView = NoView
SYMMETRY Interchangeable
PROPERTIES NoSilentOverwrite
