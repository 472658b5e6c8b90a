SPECIFICATION FairThreadSpec
CONSTANTS
  Owners = {owner}
  Controllers = {owner, other}
  MaxStarts = 4
INVARIANTS AtMostOneLoop DestroyedCleanly
PROPERTIES StopAndWaitHasWaited CallsReturn
CHECK_DEADLOCK FALSE
