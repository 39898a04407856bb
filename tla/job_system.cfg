SPECIFICATION SystemSpec
CONSTANTS
  j1 = j1
  j2 = j2
  j3 = j3
  j4 = j4
  w1 = w1
  w2 = w2
  w3 = w3
  NoJob = NoJob
  Jobs <- MCJobs
  Timed <- MCJobs
  Workers <- MCWorkers
  PoolSize = 2
  QueueSize = 1
SYMMETRY MCSymmetry
INVARIANTS
  PoolAndThreadAgree
  CancelReachesItsJob
CHECK_DEADLOCK FALSE
