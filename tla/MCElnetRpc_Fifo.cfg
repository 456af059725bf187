SPECIFICATION RpcSpec
CONSTANTS
  prof = prof
  dev = dev
  c1 = c1
  op = op
  d5 = d5
  v1 = v1
  v2 = v2
  v3 = v3
  v4 = v4
  Objects <- MCObjects
  Profile = prof
  EPC <- MCEPC
  InstanceList = d5
  Value <- MCValue
  NoData = nodata
  Table <- MCTable
  InitValue <- MCInitValue
  Address = {c1, s}
  Group = group
  TidMod = 3
  Arriving <- MCArriving
  TheClient = c1
  TheObject = dev
  TheProperty = op
  Clients = {c1}
  Members = {}
  Server = s
  Requests <- Sets
  Asks <- MCAsks
  Fifo = TRUE
  MaxCopies = 1
  Capacity = 2
  MaxCalls = 2
  MaxKills = 1
CHECK_DEADLOCK FALSE
INVARIANTS
  RpcTypeOK
  AcknowledgedSetStays
PROPERTIES
  CallReturns
  NodeQuiets
  ImplementsRegister
