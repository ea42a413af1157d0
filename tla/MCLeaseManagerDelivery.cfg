SPECIFICATION FairSpec
CONSTANTS
  N = 3
  TM = {t1}
  Key = {k1}
  MaxSlot = 1
  MaxRequests = 1
  MaxSkew = 1
  RoundsOverlap = TRUE
  Crashed <- MCCrashed
  Suspects <- MCSuspects
  MayFail = {}
PROPERTY DecisionsReachTMs
\* the timers stop at the bound MaxSlot
CHECK_DEADLOCK FALSE
