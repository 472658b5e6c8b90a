SPECIFICATION Spec
CONSTANTS
  NULL = NULL
  Threads = {t1, t2}
  Objects = {x1, x2, x3}
  PreAlloc = 2
INVARIANTS FifoInv FifoOrder NeverWrapsNorWaits
PROPERTIES EmptyAnswerIsTrue ImplementsQueue
SYMMETRY Symmetric
