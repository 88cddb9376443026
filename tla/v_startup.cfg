SPECIFICATION Spec
CONSTANTS
  Size = 9
  InitSegSize = 3
  BufferSize = 2
  PipelineFactor = 1
  FixedSegmentMode = TRUE
  RecoveryMode = FALSE
  MinimumEnergyMode = FALSE
  Connected = FALSE
  MaxSegments = 8
  MaxFailures = 0
INVARIANTS
  ReadyIsComplete
CHECK_DEADLOCK FALSE
