SPECIFICATION FairSocketsSpec
CONSTANTS
  Messages = {m1, m2}
  Longer = m1
  Length <- MCLength
  autosplit_size = 2
  ReceiveSize = 2
  Room = 3
  MaxConnections = 2
  NULL = NULL
CHECK_DEADLOCK FALSE
INVARIANT StreamIsWhole
PROPERTY SentArrives
