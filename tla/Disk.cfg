SPECIFICATION Spec
CONSTANTS
  Procs = {1, 2, 3}
  Blocks = {1, 2, 3, 4}
  Requests <- MCRequests
  NBUF = 3
  NUM = 8
  StartIdx = 65534
  MaxOps = 3
INVARIANTS ReadsLatest UnusedIsWritten DescriptorsExact
PROPERTY RequestsFinish
