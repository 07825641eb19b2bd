SPECIFICATION Spec
CONSTANTS
  BASE_WEIGHT = 1
  AVOID_WEIGHT = 2
  System <- MCSystem
  TypeOf <- MCTypeOf
  Loaded <- AllMaps
  AvoidSets <- MCAvoidSets
CHECK_DEADLOCK FALSE
INVARIANTS
  TypeOK
  CurrentStaysOnTop
  DistancesTight
  FrontierComplete
  EmptyMeansUnreachable
  RouteCertified
  DistanceBounded
  NoEntryWaitsTwice
  SameAsBefore
PROPERTIES
  SettledInOrder
  CallRunsDown
  AnswersAreShortest
  EveryCallEnds
