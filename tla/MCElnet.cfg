SPECIFICATION Spec
CONSTANTS
  prof = prof
  dev = dev
  ghost = ghost
  op = op
  uid = uid
  ver = ver
  d5 = d5
  v1 = v1
  v2 = v2
  v3 = v3
  Objects <- MCObjects
  Profile = prof
  EPC <- MCEPC
  InstanceList = d5
  Value <- MCValue
  NoData = nodata
  Table <- MCTable
  InitValue <- MCInitValue
  Address = {a1}
  Group = group
  TidMod = 3
  Arriving <- MCArriving
INVARIANTS
  TypeOK
  AnswerIsRecognised
  SetReportIsTrue
  SuccessMeansAll
  ListenerIsRight
PROPERTIES
  ChangesAreAnnounced
  HandlerEnds
