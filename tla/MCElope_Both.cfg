SPECIFICATION ElopeSpec
CONSTANTS
  prof = prof
  dev = dev
  op = op
  fault = fault
  ver = ver
  d5 = d5
  v1 = v1
  v2 = v2
  v3 = v3
  Objects <- MCObjects
  Profile = prof
  EPC <- MCEPC
  InstanceList = d5
  Value <- MCValue
  NoData = nodata
  Table <- MCTable
  InitValue <- MCInitValue
  Address = {a1}
  Group = group
  TidMod = 2
  Arriving <- MCArriving
  NoOne = noone
  Procs = {1}
  Commands <- AllCommands
  MaxKills = 1
CHECK_DEADLOCK FALSE
INVARIANT ListenerIsRight
PROPERTY ChangesAreAnnounced
