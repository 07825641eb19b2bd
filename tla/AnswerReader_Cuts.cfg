SPECIFICATION JsonSpec
CONSTANTS
  Texts <- MCTexts
  Scalars <- MCScalars
  ElementName <- MCElementName
  Trees <- MCTrees
  Size <- MCSize
CHECK_DEADLOCK FALSE
INVARIANTS
  JsonTypeOK
  ReadsWhole
  CutIsRefused
  CutIsPartial
  CutNeverInvents
