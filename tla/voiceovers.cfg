SPECIFICATION FairSpec
CONSTANTS
  MaxRecords = 2
  MaxRenders = 1
  MaxSamples = 1
  MaxFaults = 1
  MaxStarts = 2
INVARIANTS
  SlotIsHeld
PROPERTIES
  RestartKeeps
  WorkEnds
CHECK_DEADLOCK FALSE
