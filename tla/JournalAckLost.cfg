SPECIFICATION Spec
CONSTANTS
  Docs = {d1, d2}
  QueueCap = 1
  MaxRevision = 2
  MaxFaults = 0
  MaxRestarts = 0
SYMMETRY DocSymmetry
INVARIANT ReportedAckRecovers
