SPECIFICATION Spec
CONSTANTS
  Threads = {t1, t2}
  NULL = NULL
  NONE = NONE
  NsPerMs = 2
  MsPerSec = 2
  Timeouts = {1, 2, 3}
  MaxTime = 12
  MaxNesting = 1
  LookupThreads = {t1, t2}
  sNonValidHostName <- MCNonValid
  Answers <- MCAnswers
  Leftovers <- MCLeftovers
  Beyond = {3}
  MaxBeyond = 1
  Uris <- MCUris
  Numbers <- MCNumbers
  DefaultPorts <- MCDefaultPorts
  MaxCalls = 4
INVARIANT NeverOverdue
INVARIANT UriComesBack
INVARIANT RequestsGoToTheirHost
INVARIANT CachedOncePerThread
PROPERTY GivesUpInTime
SYMMETRY MCSymmetry
CHECK_DEADLOCK FALSE
