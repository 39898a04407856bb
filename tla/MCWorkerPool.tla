---------------------------- MODULE MCWorkerPool ----------------------------
(* An instance of WorkerPool.tla and its refinement: one thread at a time,   *)
(* so one slot, and four jobs, one of which has no time limit.               *)
EXTENDS PoolImplementsService
CONSTANTS j1, j2, j3, j4, w1

MCJobs == {j1, j2, j3, j4}
MCHurried == {j1, j2, j3}
MCWorkers == {w1}
=============================================================================
