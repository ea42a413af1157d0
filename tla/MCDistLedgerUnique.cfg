SPECIFICATION Spec
CONSTANTS
  Replica = {1, 2}
  User = {u1, u2}
  u1 = u1
  u2 = u2
  broker = broker
  x = x
  Account = {broker, x}
  Broker = broker
  Money = 2
  Writes <- MCWrites
  Reads <- MCReads
  MayStop = {2}
  MaxWrites <- MCMaxWrites
  MaxGossips = 1
  Overlap = TRUE
INVARIANT UniqueTimestamps
CHECK_DEADLOCK FALSE
