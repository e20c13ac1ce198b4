SPECIFICATION FairSpec
CONSTANTS
  Execs = {x1}
  Files = {f1}
  Ptys = {}
  OutboundQueue = 2
  ReplyQueue = 2
  PipeSize = 1
  MaxPending = 1
  StreamQueue = 1
  MaxCommands = 1
  MaxOperations = 1
  MaxPtys = 1
  Budget = 2
  PtyCost = 1
  ExecCost = 2
  FileCost = 2
  MaxOutputs = 1
INVARIANTS PendingIsAwaited
PROPERTIES DispatchMoves
CHECK_DEADLOCK FALSE
