SPECIFICATION ParserSpec
CONSTANTS
  BASE_WEIGHT = 1
  AVOID_WEIGHT = 100
  SIDOf <- MCSIDOf
  Lower <- MCLower
  Encode <- MCEncode
  Requests <- PlainRequests
INVARIANTS
  OutcomeFromURIAlone
