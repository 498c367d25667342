CONSTANTS
  Procs = {p1, p2}
  Blocks = {b1, b2}
  LOGBLOCKS = 4
  MAXOPBLOCKS = 2
  OpBlocks = 2
  MaxOps = 3
  MaxSyncs = 1
  MaxCrashes = 2
SPECIFICATION FairSpec
INVARIANTS PinsMatchLog  SyncIsDurable
PROPERTIES AtomicOperations SleepersReturn
CHECK_DEADLOCK FALSE
