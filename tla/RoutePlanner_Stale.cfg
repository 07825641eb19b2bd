SPECIFICATION PlannerSpec
CONSTANTS
  BASE_WEIGHT = 1
  AVOID_WEIGHT = 2
  System <- MCSystem
  TypeOf <- MCTypeOf
  Jumps <- FewJumps
  TheraId = 5
  SIDOf <- MCSIDOf
  Lower <- MCLower
  Encode <- MCEncode
  Requests <- FewRequests
  MaxOpen = 7
  NovaAnswers <- FewNovaAnswers
  TheraAnswers <- FewTheraAnswers
CHECK_DEADLOCK FALSE
INVARIANTS
  RouteUpToDate
