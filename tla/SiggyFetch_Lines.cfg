SPECIFICATION FetchSpec
CONSTANTS
  Answers <- MultiLineAnswers
  HexOf <- MCHexOf
  LengthOf <- MCLengthOf
  Opening <- MCOpening
  Closing <- MCClosing
CHECK_DEADLOCK FALSE
INVARIANTS
  DoneAtLengthZero
