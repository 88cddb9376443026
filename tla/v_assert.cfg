SPECIFICATION Spec
CONSTANTS
  Size = 9
  InitSegSize = 3
  BufferSize = 2
  PipelineFactor = 2
  FixedSegmentMode = FALSE
  RecoveryMode = FALSE
  MinimumEnergyMode = FALSE
  Connected = TRUE
  MaxSegments = 8
  MaxFailures = 0
INVARIANTS
  AssertionsHold
