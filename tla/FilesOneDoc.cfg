SPECIFICATION Spec
CONSTANTS
  Docs = {d1}
  Paths = {p1, p2}
  Listed = {p1, p2}
  NoDoc = NoDoc
  NoPath = NoPath
  ResultCap = 1
  MaxRevision = 1
INVARIANTS
  CleanIsStored
PROPERTIES
  SavesAsPromised
  WaitingStarts
