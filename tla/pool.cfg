SPECIFICATION FairSpec
CONSTANTS
  j1 = j1
  j2 = j2
  j3 = j3
  j4 = j4
  w1 = w1
  NoJob = NoJob
  Jobs <- MCJobs
  Timed <- MCHurried
  Workers <- MCWorkers
  PoolSize = 1
  QueueSize = 2
INVARIANTS
  QueueWaitsForAFullPool
PROPERTIES
  ImplementsService
  QueueMoves
  CloseCompletes
CHECK_DEADLOCK FALSE
