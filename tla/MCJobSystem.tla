---------------------------- MODULE MCJobSystem ----------------------------
\* Model values for checking JobSystem: jobs and workers are interchangeable.
EXTENDS JobSystem, PoolImplementsService

CONSTANTS j1, j2, j3, j4, w1, w2, w3

MCJobs == {j1, j2, j3, j4}
MCWorkers == {w1, w2, w3}

MCSymmetry == Permutations(MCJobs) \cup Permutations(MCWorkers)
=============================================================================
