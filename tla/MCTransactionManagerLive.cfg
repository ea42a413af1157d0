SPECIFICATION FairSpec
CONSTANTS
  N = 2
  c1 = c1
  c2 = c2
  k1 = k1
  k2 = k2
  Client = {c1, c2}
  Key = {k1, k2}
  Tx <- MCTx
  Slot = {1}
  Suspects <- MCNoSuspects
  CrashedIn <- MCNoCrash
  LMReplies = {"some", "none", "broken"}
  Decisions = {}
  MayFail <- MCOneMayFail
  MaxTries = 2
PROPERTY SubmissionsEnd
\* every client has one transaction
CHECK_DEADLOCK FALSE
