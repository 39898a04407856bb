SPECIFICATION FairSpec
CONSTANTS
  MaxOps = 2
  MaxMoves = 2
INVARIANTS
  NoSecondClient
  ScreenTellsTheTruth
PROPERTIES
  LogoutIsAuthoritative
  OperationEnds
CHECK_DEADLOCK FALSE
