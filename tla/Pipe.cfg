CONSTANTS
  NPROC = 3
  PIPESIZE = 2
  UINT = 4
  MaxN = 2
  Killable = {1}
  MaxCalls = 4
SPECIFICATION FairSpec
INVARIANTS Fifo SleepersHaveReason
 
CHECK_DEADLOCK FALSE
