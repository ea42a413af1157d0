SPECIFICATION Spec
CONSTANTS
  Thread = {t1, t2}
  Name = {f1, f2}
  Flags <- MCFlags
  Inodes = 4
  Blocks = 9
  Handles = 2
  DirSize = 2
  Entries = 2
  IntSize = 2
  Direct = 1
  Lengths = {1, 7}
  MaxOps = 3
SYMMETRY MCSymmetry
INVARIANTS TypeOK BlocksNotShared BytesHaveBlocks HandlesLeadToFiles
\* every thread has MaxOps operations
CHECK_DEADLOCK FALSE
