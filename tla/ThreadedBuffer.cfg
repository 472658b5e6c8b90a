SPECIFICATION FairTBSpec
CONSTANTS
  NULL = NULL
  Owners = {owner}
  Controllers = {owner}
  MaxStarts = 2
  Producers = {p1}
  Objects = {x1, x2}
  Policies = {"stopped", "empty"}
INVARIANTS ProcessedOnceInOrder EndsCleanly
PROPERTIES ThreadSpec WorkGetsDone
CHECK_DEADLOCK FALSE
