SPECIFICATION FairSpec
CONSTANTS
  factory = factory
  token = token
  Contracts = {factory, token}
  System = {factory}
  StartBlock = 8
  Recent = 1
  Window = 2
  Birth = 7
  MaxHeight = 12
  MaxLogs = 2
  AllLogs = 3
  MaxFailures = 0

PROPERTIES CatchesUp
CHECK_DEADLOCK FALSE
