SPECIFICATION FairFetchSpec
CONSTANTS
  Answers <- MCAnswers
  HexOf <- MCHexOf
  LengthOf <- MCLengthOf
  Opening <- MCOpening
  Closing <- MCClosing
CHECK_DEADLOCK FALSE
INVARIANTS
  FetchTypeOK
  ChunksNotLost
  EarlyBytesForgotten
PROPERTIES
  WholeOrNothing
  ExchangeRunsDown
  ExchangeEnds
