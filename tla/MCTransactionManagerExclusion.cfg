SPECIFICATION Spec
CONSTANTS
  N = 3
  c1 = c1
  c2 = c2
  k1 = k1
  k2 = k2
  Client = {c1, c2}
  Key = {k1, k2}
  Tx <- MCTx
  Slot = {1}
  Suspects <- MCNoSuspects
  CrashedIn <- MCNoCrash
  LMReplies = {"some"}
  Decisions = {}
  MayFail = {}
  MaxTries = 1
INVARIANT LeaseExclusion
\* every client has one transaction
CHECK_DEADLOCK FALSE
