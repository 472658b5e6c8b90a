SPECIFICATION LoopSpec
CONSTANTS
  NULL = NULL
  Main = main
  Threads = {main, t1}
  Objects = {x1, x2, x3}
  PreAlloc = 1
INVARIANTS ExecutedThenDeleted
PROPERTIES EventsAreExecuted
CHECK_DEADLOCK FALSE
