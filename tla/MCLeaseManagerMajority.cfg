SPECIFICATION Spec
CONSTANTS
  N = 3
  TM = {t1}
  Key = {k1}
  MaxSlot = 2
  MaxRequests = 1
  MaxSkew = 1
  RoundsOverlap = TRUE
  Crashed <- MCMajorityCrashed
  Suspects <- MCNoSuspects
  MayFail = {}
INVARIANT DecisionHasMajority
\* the timers stop at the bound MaxSlot
CHECK_DEADLOCK FALSE
