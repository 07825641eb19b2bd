SPECIFICATION PlannerSpec
CONSTANTS
  BASE_WEIGHT = 1
  AVOID_WEIGHT = 2
  System <- MCSystem
  TypeOf <- MCTypeOf
  Jumps <- MCJumps
  TheraId = 5
  SIDOf <- MCSIDOf
  Lower <- MCLower
  Encode <- MCEncode
  Requests <- MCRequests
  MaxOpen = 7
  NovaAnswers <- MCNovaAnswers
  TheraAnswers <- MCTheraAnswers
CHECK_DEADLOCK FALSE
INVARIANTS
  PlannerTypeOK
  FinderMapExplained
  DescriptionsFresh
  PageAnswersRequest
  GatesShownAsGates
  UnchangedChainDescribed
  NamesCurrent
  TagsAgree
PROPERTIES
  AnsweredUnlessSiggyHangs
  NotServedForever
