SPECIFICATION FairSpec
CONSTANTS
  Size = 12
  InitSegSize = 3
  BufferSize = 2
  PipelineFactor = 2
  FixedSegmentMode = FALSE
  RecoveryMode = TRUE
  MinimumEnergyMode = TRUE
  Connected = TRUE
  MaxSegments = 8
  MaxFailures = 0
INVARIANTS
  InFlightMatches
  DataAtItsOffset
  PipelineFlagMeansQueued
  NothingStranded
  ReadyIsComplete
PROPERTIES
  ImplementsDownload
  Ends
