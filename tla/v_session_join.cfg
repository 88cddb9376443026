SPECIFICATION FairSpec
CONSTANTS
  Size = 4
  SendSize = 2
  PeriodicThreads = FALSE
  PatientPlayer = TRUE
  MaxRequests = 1
  MaxTimeouts = 0
  MaxErrors = 0
INVARIANTS
  OwnSession
