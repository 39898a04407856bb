SPECIFICATION FairSpec
CONSTANTS
  c1 = c1
  c2 = c2
  Clients <- MCClients
  Calls <- MCCalls
  MaxQueueSize = 1
  MaxUpdates <- MCUpdates
  MaxBreaks = 1
INVARIANTS
  NoCallLeftBehind
  NoGap
PROPERTIES
  ImplementsClientService
  NativeReleased
  CloseReturns
CHECK_DEADLOCK FALSE
