SPECIFICATION DiscoverSpec
CONSTANTS
  n1 = n1
  n2 = n2
  Nodes = {n1, n2}
  Tool = tool
  Objects <- MCObjects
  Builds <- MCBuilds
  Devices <- MCDevices
  Refusers = {n2}
  Cond <- MCCond
  Reslnum = 2
  MaxCopies = 2
  Capacity = 3
  MaxChatter = 1
  MaxErrors = 1
CHECK_DEADLOCK FALSE
INVARIANTS
  DiscoverTypeOK
  PrintedIsThere
  AnswersCount
  SelfReportIsRight
PROPERTIES
  DiscoverReturns
