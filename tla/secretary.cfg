SPECIFICATION FairSpec
CONSTANTS
  Accounts = {a1}
  NoAccount = NoAccount
  Initially = 2
  MaxMessage = 3
  PageSize = 2
  Changing = {2}
  MaxEpoch = 3
  MaxVersion = 3
  MaxFaults = 1
  MaxStarts = 2
INVARIANTS
  NothingSkipped
PROPERTIES
  NothingUnasked
  DeletedIsFinal
  ImportEnds
CHECK_DEADLOCK FALSE
