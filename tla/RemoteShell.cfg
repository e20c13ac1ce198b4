SPECIFICATION FairSpec
CONSTANTS
  Execs = {}
  Files = {}
  Ptys = {p1}
  OutboundQueue = 1
  ReplyQueue = 2
  PipeSize = 1
  MaxPending = 1
  StreamQueue = 1
  MaxCommands = 1
  MaxOperations = 1
  MaxPtys = 1
  Budget = 2
  PtyCost = 2
  ExecCost = 2
  FileCost = 2
  MaxOutputs = 2
INVARIANTS StartedComesFirst HandlesAreTrue
PROPERTIES EndedHandleLeavesNothing HelperFollowsLink
CHECK_DEADLOCK FALSE
