SPECIFICATION FairSpec
CONSTANTS
  Size = 4
  SendSize = 2
  PeriodicThreads = TRUE
  PatientPlayer = TRUE
  MaxRequests = 2
  MaxTimeouts = 0
  MaxErrors = 0
INVARIANTS
  TypeOK
  PlayedInOrder
  OwnSession
  SentIsDownloaded
  NothingLeft
  NeverFaults
PROPERTIES
  EveryRequestEnds
