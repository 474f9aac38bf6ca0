SPECIFICATION FairSpec
CONSTANTS
  factory = factory
  token = token
  Contracts = {factory, token}
  System = {factory}
  StartBlock = 8
  Recent = 1
  Window = 2
  Birth = 7
  MaxHeight = 12
  MaxLogs = 2
  AllLogs = 3
  MaxFailures = 1
INVARIANTS TypeInv HandledOnceButForFailures NothingSkippedSilently
PROPERTIES RecordedInTime
CHECK_DEADLOCK FALSE
