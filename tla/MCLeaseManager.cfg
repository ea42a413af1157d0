SPECIFICATION FairSpec
CONSTANTS
  N = 3
  TM = {t1}
  Key = {k1}
  MaxSlot = 3
  MaxRequests = 1
  MaxSkew = 1
  RoundsOverlap = FALSE
  Crashed <- MCCrashed
  Suspects <- MCSuspects
  MayFail <- MCMayFail
INVARIANTS TypeOK OnlyRequestedLeases OneLeaderPerTimeslot
PROPERTIES RoundsEnd
\* the timers stop at the bound MaxSlot
CHECK_DEADLOCK FALSE
