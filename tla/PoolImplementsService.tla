----------------------- MODULE PoolImplementsService -----------------------
(***************************************************************************)
(* The worker pool implements the job service: threads, slots, grace       *)
(* timers and the phases of close() are hidden, what remains is the line,  *)
(* the jobs that hold a thread, and the promises.                          *)
(***************************************************************************)
EXTENDS WorkerPool

begun == {j \in Jobs : state[j] = "running"}

servicePhase ==
  CASE phase = "open" -> "open"
    [] phase \in {"draining", "terminating"} -> "closing"
    [] phase = "closed" -> "closed"

Service == INSTANCE JobService WITH
  Places <- PoolSize, LineSize <- QueueSize,
  waiting <- queue, running <- Held, begun <- begun, phase <- servicePhase

\* Whatever the threads do, the pool is a first-come first-served service: a
\* freed place goes to the head of the line in the step that frees it, no job
\* is run twice, none is settled twice, a success comes only from a job that
\* held a place, and nothing is refused for want of room while there is room.
ImplementsService == Service!Spec
=============================================================================
