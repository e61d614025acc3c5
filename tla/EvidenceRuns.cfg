CONSTANTS
  Kinds = {"feishu", "local_file"}
  Refs = {a, b}
  Images = {a}
  Sources <- MCSources
  Requests = {r1, r2}
  MaxReads = 2
  MaxFaults = 1
  MaxCrossed = 1
  NoOne = NoOne
  NoRow = NoRow
  NoRows = NoRows
  a = a
  b = b
  r1 = r1
  r2 = r2
SPECIFICATION FairSpec
CHECK_DEADLOCK FALSE
INVARIANTS
  TypeOK
  CleanedKeepsNothing
  ReadyIsReadable
  EvidenceIsGrounded
  OnlyAdoptedPasses
PROPERTIES
  ExpiredIsCleaned
  KeepsGate
