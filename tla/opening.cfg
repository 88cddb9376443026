SPECIFICATION FairSpec
CONSTANTS
  Files = {1, 2, 3, 5, 9}
  Options <- MCOptions
  KB = 2
  DEFAULT_SEGMENT = 2
  MAX_REDIR = 5
  INT_MAX = 99
INVARIANTS
  TypeOK
  SizeIsTrue
  EngineCanStart
PROPERTIES
  OpeningEnds
