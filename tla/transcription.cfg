SPECIFICATION FairSpec
CONSTANT MaxOperations = 2
INVARIANTS
  SavedAlone
PROPERTIES
  CancelIsFinal
  CancelEnds
CHECK_DEADLOCK FALSE
