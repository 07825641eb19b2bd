SPECIFICATION Spec
CONSTANTS
  BASE_WEIGHT = 1
  AVOID_WEIGHT = 2
  System <- MCSystem
  TypeOf <- MCTypeOf
  Loaded <- DyingFrigateHole
  AvoidSets <- MCAvoidSets
CHECK_DEADLOCK FALSE
INVARIANTS
  NoRouteReturnsEmpty
