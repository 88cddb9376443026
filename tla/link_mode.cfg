SPECIFICATION Spec
CONSTANTS
  Sizes = {3, 5}
  Rate = {1, 8}
  MAX_NUM_EST_QMISS = 2
  MAX_NUM_GLITCH = 2
  MaxSessions = 2
INVARIANTS
  TypeOK
  MissesAreBounded
  OrderIsByEnergy
