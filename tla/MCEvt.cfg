SPECIFICATION EvtSpec
CONSTANTS
  f1 = f1
  f2 = f2
  k1 = k1
  k2 = k2
  Fds = {f1, f2}
  Keys = {k1, k2}
  InitFds <- MCInitFds
  InitKeys <- MCInitKeys
  Timeouts <- MCTimeouts
  MaxAge = 4
  MaxQueue = 1
  MaxAdded = 1
  MaxFaults = 1
  Back = 2
CHECK_DEADLOCK FALSE
INVARIANTS
  EvtTypeOK
  LoopStaysInList
  HandlerFindsData
  WakesInTime
PROPERTIES
  FdServed
  TimersServed
  DeactivateReturns
