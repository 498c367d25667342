CONSTANTS
  Sems = {s1, s2}
  Pids = {p1, p2}
  SEM_EVENT_LOG_SIZE = 3
  MAX_GANTT_EVENTS = 3
  MAX_GANTT_PIDS = 2
  COLUMNS = 2
  Nested = FALSE
  MaxEvents = 4
  MaxTicks = 2
SPECIFICATION Spec
INVARIANTS EventsInOrder 
SYMMETRY Symmetry
CHECK_DEADLOCK FALSE
