SPECIFICATION ConfSpec
CONSTANTS
  k1 = k1
  k2 = k2
  plain = plain
  blank = blank
  none = none
  Key = {k1, k2}
  Val = {plain, blank}
  Nothing = none
  Reload <- MCReload
  InitFiles <- MCInitFiles
  MaxFaults = 1
  MaxCalls = 5
INVARIANTS
  ConfTypeOK
  OldOrNew
  StoredIsRead
  IterationIsComplete
