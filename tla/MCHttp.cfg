SPECIFICATION FairDownloaderSpec
CONSTANTS
  Responses <- MCResponses
  MaxRequests = 2
INVARIANTS DeliveredInOrder
PROPERTIES FileIsComplete DownloadEnds
CHECK_DEADLOCK FALSE
