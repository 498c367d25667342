CONSTANTS
  NPROC = 4
  KillTargets = {2, 3}
  MaxPid = 5
  MaxKills = 1
SPECIFICATION FairSpec
INVARIANTS ParentAlive FreeIsClean
PROPERTIES OrphansReaped
