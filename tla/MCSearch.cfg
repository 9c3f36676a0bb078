SPECIFICATION Spec
CONSTANTS
  Letters <- MCLetters
  searchData <- MCsearchData
  Texts <- MCTexts
  Label <- MCLabel
  MaxTimers = 2
  MaxPosted = 1
INVARIANTS
  TypeOK
  InactiveShowsLabel
  LastIsInFrame
  VisibleMatch
  UpUndoesDown
CHECK_DEADLOCK FALSE
