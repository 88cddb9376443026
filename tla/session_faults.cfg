SPECIFICATION FairSpec
CONSTANTS
  Size = 4
  SendSize = 2
  PeriodicThreads = FALSE
  PatientPlayer = TRUE
  MaxRequests = 2
  MaxTimeouts = 1
  MaxErrors = 1
PROPERTIES
  RemovedWhenClosed
  DownloadEnds
\* A stalled download, and a request that waits for it, poll without a change.
CHECK_DEADLOCK FALSE
