SPECIFICATION FairDownloaderSpec
CONSTANTS
  Responses <- MCTooMuch
  MaxRequests = 1
PROPERTY StopAndWaitReturns
CHECK_DEADLOCK FALSE
