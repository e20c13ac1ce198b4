SPECIFICATION Spec
CONSTANTS
  Execs = {}
  Files = {}
  Ptys = {p1}
  OutboundQueue = 1
  ReplyQueue = 2
  PipeSize = 1
  MaxPending = 1
  StreamQueue = 1
  MaxCommands = 1
  MaxOperations = 1
  MaxPtys = 1
  Budget = 2
  PtyCost = 2
  ExecCost = 2
  FileCost = 2
  MaxOutputs = 2
INVARIANT ShellsDieWithHelper
CHECK_DEADLOCK FALSE
