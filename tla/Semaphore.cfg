CONSTANTS
  NPROC = 4
  InitValue = 1
  Killable = {1, 2}
  MaxCalls = 5
SPECIFICATION FairSpec
INVARIANTS SemInv
PROPERTIES  GrantedReturns
CHECK_DEADLOCK FALSE
