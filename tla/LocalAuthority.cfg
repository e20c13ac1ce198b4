SPECIFICATION AuthoritySpec
CONSTANTS
  InputQueue = 1
  OutputBudget = 1
  OutputLimit = 1
  MaxWritten = 2
INVARIANTS RunningIsWatched ReturnLeavesNoGroup OkIsWholeOutput
PROPERTIES ExitIsShown NothingLeft ExecReturns PtyAsPromised
CHECK_DEADLOCK FALSE
