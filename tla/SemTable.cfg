CONSTANTS
  NSEM = 2
  NPROC = 3
  Value = 1
  Careful = TRUE
  MaxOpens = 3
  MaxCalls = 4
SPECIFICATION FairSpec
 
PROPERTIES ClosedReturns
CHECK_DEADLOCK FALSE
