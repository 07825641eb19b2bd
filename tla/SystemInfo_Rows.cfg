SPECIFICATION InfoSpec
CONSTANTS
  BASE_WEIGHT = 1
  AVOID_WEIGHT = 2
  Rows <- MCRows
  Lower <- MCLower
CHECK_DEADLOCK FALSE
INVARIANTS
  NamesResolve
  ColourTellsClass
  SecurityNearest
