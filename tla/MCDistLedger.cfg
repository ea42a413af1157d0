SPECIFICATION Spec
CONSTANTS
  Replica = {1, 2}
  User = {u1, u2}
  u1 = u1
  u2 = u2
  broker = broker
  x = x
  Account = {broker, x}
  Broker = broker
  Money = 2
  Writes <- MCWrites
  Reads <- MCReads
  MayStop = {2}
  MaxWrites <- MCOneWrite
  MaxGossips = 3
  Overlap = TRUE
INVARIANTS TypeOK KnownUpdatesOnly ExecutedOnce
PROPERTY ImplementsAccounts
CHECK_DEADLOCK FALSE
