SPECIFICATION FairSpec
CONSTANTS
  Size = 10
  InitSegSize = 4
  BufferSize = 2
  PipelineFactor = 1
  FixedSegmentMode = TRUE
  RecoveryMode = TRUE
  MinimumEnergyMode = TRUE
  Connected = FALSE
  MaxSegments = 5
  MaxFailures = 1
INVARIANTS
  Bookkeeping
  BytesDoneCounts
PROPERTIES
  ImplementsDownload
  InterruptedIsRestarted
CHECK_DEADLOCK FALSE
