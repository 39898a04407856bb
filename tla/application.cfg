SPECIFICATION FairSpec
CONSTANTS
  r1 = r1
  r2 = r2
  s1 = s1
  p1 = p1
  t1 = t1
  Requests <- MCRequests
  Sessions <- MCSessions
  Peers <- MCPeers
  Tasks <- MCTasks
  Chunks <- MCChunks
  MaxMessages = 2
INVARIANTS
  PhasesInOrder
  ClosedIsDown
PROPERTIES
  TasksAreQuiet
  CloseReturns
CHECK_DEADLOCK FALSE
