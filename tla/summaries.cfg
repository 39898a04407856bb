SPECIFICATION SummaryFairSpec
CONSTANTS
  LastDay = 2
  MaxChanges = 1
  MaxReplies = 1
  MaxManual = 1
  MaxFaults = 1
  MaxStarts = 2
PROPERTIES
  SummariesEnd
  RepliesFirst
CHECK_DEADLOCK FALSE
