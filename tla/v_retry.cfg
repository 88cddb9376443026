SPECIFICATION FairSpec
CONSTANTS
  Size = 4
  SendSize = 2
  PeriodicThreads = FALSE
  PatientPlayer = FALSE
  MaxRequests = 2
  MaxTimeouts = 1
  MaxErrors = 0
INVARIANTS
  SentIsDownloaded
