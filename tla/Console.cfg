SPECIFICATION Spec
CONSTANTS
  Readers = {"r1", "r2"}
  Writers = {"w1", "w2"}
  Keys = {"a", "nl", "cr", "^H", "^U", "^D", "nul"}
  INPUT_BUF_SIZE = 2
  UINT = 8
  Start = 7
  Batch = 2
  Fifo = 3
  RxFifo = 1
  Budgets <- MCBudgets
INVARIANTS  OutputOnce
PROPERTY WritersEnd
CHECK_DEADLOCK FALSE
