SPECIFICATION FairSpec
CONSTANTS
  Size = 12
  InitSegSize = 3
  BufferSize = 2
  PipelineFactor = 1
  FixedSegmentMode = TRUE
  RecoveryMode = FALSE
  MinimumEnergyMode = FALSE
  Connected = TRUE
  MaxSegments = 8
  MaxFailures = 0
INVARIANTS
  TypeOK
  EachByteOnce
  InorderIsStored
  NeverCrashes
  AssertionsHold
PROPERTIES
  Completes
