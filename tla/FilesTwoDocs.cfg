SPECIFICATION Spec
CONSTANTS
  Docs = {d1, d2}
  Paths = {p1}
  Listed = {}
  NoDoc = NoDoc
  NoPath = NoPath
  ResultCap = 1
  MaxRevision = 0
PROPERTIES
  EverySaveAnswered
