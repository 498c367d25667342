SPECIFICATION Spec
CONSTANTS
  InitProc = init
  Procs = {p1, p2}
  Images <- MCImages
  Requests <- MCRequests
  Sources <- MCSources
  NINODES = 4
  NBLOCKS = 5
  BSIZE = 3
  NDIRECT = 1
  NINDIRECT = 2
  Chunk = 2
  NFILE = 1
  MaxCalls = 3
  MaxCrashes = 1
SYMMETRY Symmetry
INVARIANTS LinksCounted BlocksExact FilesHoldOwnData RefsExact NoOrphans
