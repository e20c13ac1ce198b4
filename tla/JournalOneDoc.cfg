SPECIFICATION Spec
CONSTANTS
  Docs = {d1}
  QueueCap = 2
  MaxRevision = 2
  MaxFaults = 1
  MaxRestarts = 1
INVARIANTS
  NewestInPipeline
  AckedRecoverable
  CleanExitIsExact
PROPERTIES
  JournalNeverRegresses
  ShutdownCompletes
  RetainedHandedOver
  NewestBecomesDurable
