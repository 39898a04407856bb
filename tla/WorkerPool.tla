----------------------------- MODULE WorkerPool -----------------------------
(***************************************************************************)
(* The worker pool of the framework (lib/framework/src/WorkerPool.ts) with *)
(* the guard JobRunner puts in front of it: a bounded FIFO queue, at most  *)
(* PoolSize worker threads, cancellation with a grace period, replacement  *)
(* of dead threads, and bounded shutdown.                                  *)
(*                                                                         *)
(* The pool runs on one thread, so every callback (run, a message, an      *)
(* exit, a timer, the continuation of close) is one atomic action.  The    *)
(* worker threads are the environment: any message at any time, an exit at *)
(* any time.  JobSystem composes the pool with threads that keep the       *)
(* protocol of job-worker.ts.                                              *)
(*                                                                         *)
(* A WorkerEntry is a slot of Workers; a slot is reused once its thread    *)
(* has exited, which nothing in the code can observe: an exited entry is   *)
(* referenced only by the grace timer of a job it no longer holds.         *)
(***************************************************************************)
EXTENDS Naturals, Sequences, SequencesExt, FiniteSets

CONSTANTS
  Jobs,       \* the calls of JobRunner.run() a behaviour may make
  Timed,      \* those with a timeout (of their own, or defaultTimeout)
  Workers,    \* slots for worker entries, more than the pool may use
  PoolSize,   \* config.poolSize
  QueueSize,  \* config.queueSize
  NoJob       \* "undefined" in entry.task, and the id of no job in a message

ASSUME JobsAssumption ==
  /\ Timed \subseteq Jobs
  /\ NoJob \notin Jobs
ASSUME PoolAssumption ==
  /\ IsFiniteSet(Workers)
  /\ PoolSize \in Nat \ {0}
  /\ PoolSize <= Cardinality(Workers)
  /\ QueueSize \in Nat

VARIABLES
  state,        \* task.state of each job: "new", "queued" or "running"
  outcome,      \* how the job's promise was settled, or "pending"
  grace,        \* is the job's graceHandle armed?
  queue,        \* #queue
  workers,      \* #workers, the entries whose thread has not exited
  task,         \* entry.task of each slot
  terminating,  \* entry.terminating of each slot
  phase         \* how far close() has come

jobVars == <<state, outcome, grace>>
vars == <<state, outcome, grace, queue, workers, task, terminating, phase>>

Outcomes == {"aborted", "timedOut", "queueFull", "closed", "unclonable",
             "succeeded", "failed", "terminated"}
Statuses == {"success", "clone-error", "error", "unknown"}
Messages == [id : Jobs \cup {NoJob}, status : Statuses]
Phases == {"open", "draining", "terminating", "closed"}

TypeOK ==
  /\ state \in [Jobs -> {"new", "queued", "running"}]
  /\ outcome \in [Jobs -> Outcomes \cup {"pending"}]
  /\ grace \in [Jobs -> BOOLEAN]
  /\ queue \in Seq(Jobs)
  /\ workers \in SUBSET Workers
  /\ task \in [Workers -> Jobs \cup {NoJob}]
  /\ terminating \in [Workers -> BOOLEAN]
  /\ phase \in Phases

Init ==
  /\ state = [j \in Jobs |-> "new"]
  /\ outcome = [j \in Jobs |-> "pending"]
  /\ grace = [j \in Jobs |-> FALSE]
  /\ queue = <<>>
  /\ workers = {}
  /\ task = [w \in Workers |-> NoJob]
  /\ terminating = [w \in Workers |-> FALSE]
  /\ phase = "open"

-----------------------------------------------------------------------------
Closed == phase # "open"
Idle(w) == task[w] = NoJob /\ ~terminating[w]
Submittable(j) == state[j] = "new" /\ outcome[j] = "pending"
Queued == Range(queue)

\* #settle: the first decision wins, later ones change nothing.
Settle(j, result) ==
  IF outcome[j] = "pending" THEN [outcome EXCEPT ![j] = result] ELSE outcome

\* #start on an entry of the pool.
Start(w, j) ==
  /\ state' = [state EXCEPT ![j] = "running"]
  /\ task' = [task EXCEPT ![w] = j]

\* #createWorker followed by #start, in a slot that is free once the
\* entries Alive are the ones that remain.
StartNew(j, Alive) ==
  \E w \in Workers \ Alive :
    /\ workers' = Alive \cup {w}
    /\ state' = [state EXCEPT ![j] = "running"]
    /\ task' = [v \in Workers |->
                  IF v = w THEN j ELSE IF v \in Alive THEN task[v] ELSE NoJob]
    /\ terminating' = [v \in Workers |-> v \in Alive /\ terminating[v]]

\* indexOf and splice of #cancel; a job has one place in the queue at most.
Without(j) ==
  IF j \notin Queued THEN queue
  ELSE RemoveAt(queue, CHOOSE i \in DOMAIN queue : queue[i] = j)

-----------------------------------------------------------------------------
\* run(), the ways in which a job is refused without reaching the pool.
Refuse(j, result) ==
  /\ Submittable(j)
  /\ outcome' = [outcome EXCEPT ![j] = result]
  /\ UNCHANGED <<state, grace, queue, workers, task, terminating, phase>>

\* JobRunner.run() after close().
RefuseClosed(j) == Closed /\ Refuse(j, "closed")
\* The payload does not survive structuredClone.
RefuseUnclonable(j) == ~Closed /\ Refuse(j, "unclonable")
\* The signal is aborted already, or the timeout is zero.
RefuseAborted(j) == ~Closed /\ Refuse(j, "aborted")
RefuseZeroTimeout(j) == ~Closed /\ j \in Timed /\ Refuse(j, "timedOut")

RunOnIdle(j) ==
  /\ ~Closed /\ Submittable(j)
  /\ \E w \in workers : Idle(w) /\ Start(w, j)
  /\ UNCHANGED <<outcome, grace, queue, workers, terminating, phase>>

FreeSlot == Cardinality(workers) < PoolSize

RunOnNew(j) ==
  /\ ~Closed /\ Submittable(j)
  /\ \A w \in workers : ~Idle(w)
  /\ FreeSlot
  /\ StartNew(j, workers)
  /\ UNCHANGED <<outcome, grace, queue, phase>>

PoolBusy == ~FreeSlot /\ \A w \in workers : ~Idle(w)

RefuseQueueFull(j) ==
  /\ ~Closed /\ PoolBusy /\ Len(queue) >= QueueSize
  /\ Refuse(j, "queueFull")

\* Mutant of Enqueue: the newest job waits first.
EnqueueFirst(j) ==
  /\ ~Closed /\ Submittable(j) /\ PoolBusy
  /\ Len(queue) < QueueSize
  /\ state' = [state EXCEPT ![j] = "queued"]
  /\ queue' = <<j>> \o queue
  /\ UNCHANGED <<outcome, grace, workers, task, terminating, phase>>

Enqueue(j) ==
  /\ ~Closed /\ Submittable(j) /\ PoolBusy
  /\ Len(queue) < QueueSize
  /\ state' = [state EXCEPT ![j] = "queued"]
  /\ queue' = Append(queue, j)
  /\ UNCHANGED <<outcome, grace, workers, task, terminating, phase>>

-----------------------------------------------------------------------------
\* #cancel, called by the abort listener and by the timeout; #settle removes
\* both once the job is settled.
CancelQueued(j, result) ==
  /\ outcome[j] = "pending" /\ state[j] = "queued"
  /\ queue' = Without(j)
  /\ outcome' = Settle(j, result)
  /\ UNCHANGED <<state, grace, workers, task, terminating, phase>>

\* Mutant of CancelRunning: no grace timer is armed.
CancelRunningPolitely(j, result) ==
  /\ outcome[j] = "pending" /\ state[j] = "running"
  /\ outcome' = Settle(j, result)
  /\ UNCHANGED <<state, grace, queue, workers, task, terminating, phase>>

CancelRunning(j, result) ==
  /\ outcome[j] = "pending" /\ state[j] = "running"
  /\ outcome' = Settle(j, result)
  /\ grace' = [grace EXCEPT ![j] = TRUE]
  /\ UNCHANGED <<state, queue, workers, task, terminating, phase>>

Cancel(j, result) == CancelQueued(j, result) \/ CancelRunning(j, result)
Abort(j) == Cancel(j, "aborted")
Timeout(j) == j \in Timed /\ Cancel(j, "timedOut")

\* The grace timer terminates the worker that still holds the job.
GraceExpires(j) ==
  /\ grace[j]
  /\ grace' = [grace EXCEPT ![j] = FALSE]
  /\ terminating' = [w \in Workers |->
                       terminating[w] \/ (w \in workers /\ task[w] = j)]
  /\ UNCHANGED <<state, outcome, queue, workers, task, phase>>

-----------------------------------------------------------------------------
\* Mutant of Release: the worker is freed, the queue is not looked at.
ReleaseOnly(w) ==
  /\ grace' = [grace EXCEPT ![task[w]] = FALSE]
  /\ task' = [task EXCEPT ![w] = NoJob]
  /\ UNCHANGED <<state, queue>>

\* #release: the worker takes the next queued job unless the pool is closed.
Release(w) ==
  LET done == task[w] IN
  /\ grace' = [grace EXCEPT ![done] = FALSE]
  /\ IF Closed \/ queue = <<>>
       THEN /\ task' = [task EXCEPT ![w] = NoJob]
            /\ UNCHANGED <<state, queue>>
       ELSE /\ Start(w, Head(queue))
            /\ queue' = Tail(queue)

\* The promise resolves with "success"; the two other statuses reject it.
ReplyOutcome(m) == IF m.status = "success" THEN "succeeded" ELSE "failed"

\* #onMessage for the job the worker holds.
Reply(w, m) ==
  /\ w \in workers
  /\ task[w] # NoJob /\ m.id = task[w] /\ m.status # "unknown"
  /\ outcome' = Settle(task[w], ReplyOutcome(m))
  /\ Release(w)
  /\ UNCHANGED <<workers, terminating, phase>>

\* #onMessage for anything else: #terminateBrokenWorker.
BadMessage(w, m) ==
  /\ w \in workers
  /\ task[w] = NoJob \/ m.id # task[w] \/ m.status = "unknown"
  /\ outcome' = IF task[w] = NoJob THEN outcome ELSE Settle(task[w], "terminated")
  /\ terminating' = [terminating EXCEPT ![w] = TRUE]
  /\ UNCHANGED <<state, grace, queue, workers, task, phase>>

\* #onExit: the dead worker's job is rejected, a queued job gets a new worker.
ExitOutcome(w) ==
  IF task[w] = NoJob THEN outcome ELSE Settle(task[w], "terminated")

ExitReplaced(w) ==
  /\ ~Closed /\ queue # <<>>
  /\ StartNew(Head(queue), workers \ {w})
  /\ queue' = Tail(queue)

ExitUnreplaced(w) ==
  /\ Closed \/ queue = <<>>
  /\ workers' = workers \ {w}
  /\ task' = [task EXCEPT ![w] = NoJob]
  /\ terminating' = [terminating EXCEPT ![w] = FALSE]
  /\ UNCHANGED <<state, queue>>

Exit(w) ==
  /\ w \in workers
  /\ outcome' = ExitOutcome(w)
  /\ ExitReplaced(w) \/ ExitUnreplaced(w)
  /\ UNCHANGED <<grace, phase>>

-----------------------------------------------------------------------------
Held == {task[w] : w \in workers} \ {NoJob}

\* Mutant of TerminateAll: only the idle workers are terminated.
TerminateIdle(settled) ==
  /\ phase' = "terminating"
  /\ outcome' = [j \in Jobs |-> IF j \in Held /\ settled[j] = "pending"
                                  THEN "terminated" ELSE settled[j]]
  /\ terminating' = [w \in Workers |-> w \in workers /\ (terminating[w] \/ Idle(w))]
  /\ UNCHANGED <<state, grace, workers, task>>

\* The second half of close(): reject what still runs, terminate every thread.
TerminateAll(settled) ==
  /\ phase' = "terminating"
  /\ outcome' = [j \in Jobs |-> IF j \in Held /\ settled[j] = "pending"
                                  THEN "terminated" ELSE settled[j]]
  /\ terminating' = [w \in Workers |-> w \in workers]
  /\ UNCHANGED <<state, grace, workers, task>>

\* The first half of close(): it waits only when some worker is busy.  No
\* job starts after this point, so the promises it waits for are those of
\* the workers that are still busy.
AbortedQueue ==
  [j \in Jobs |-> IF j \in Queued /\ outcome[j] = "pending" THEN "aborted" ELSE outcome[j]]

Close ==
  /\ phase = "open"
  /\ queue' = <<>>
  /\ IF Held = {}
       THEN TerminateAll(AbortedQueue)
       ELSE /\ phase' = "draining"
            /\ outcome' = AbortedQueue
            /\ UNCHANGED <<state, grace, workers, task, terminating>>

CloseDrained ==
  /\ phase = "draining" /\ Held = {}
  /\ TerminateAll(outcome)
  /\ UNCHANGED queue

CloseTimeout ==
  /\ phase = "draining" /\ Held # {}
  /\ TerminateAll(outcome)
  /\ UNCHANGED queue

\* Every worker.terminate() has resolved, after the exit listener of the pool.
Terminated == workers = {}

CloseDone ==
  /\ phase = "terminating" /\ Terminated
  /\ phase' = "closed"
  /\ UNCHANGED <<state, outcome, grace, queue, workers, task, terminating>>

-----------------------------------------------------------------------------
Run(j) ==
  \/ RefuseClosed(j) \/ RefuseUnclonable(j) \/ RefuseAborted(j)
  \/ RefuseZeroTimeout(j) \/ RefuseQueueFull(j)
  \/ RunOnIdle(j) \/ RunOnNew(j) \/ Enqueue(j)

OnMessage(w, m) == Reply(w, m) \/ BadMessage(w, m)

Next ==
  \/ \E j \in Jobs : Run(j) \/ Abort(j) \/ Timeout(j) \/ GraceExpires(j)
  \/ \E w \in Workers : Exit(w) \/ \E m \in Messages : OnMessage(w, m)
  \/ Close \/ CloseDrained \/ CloseTimeout \/ CloseDone

Spec == Init /\ [][Next]_vars

\* Timers fire, and a thread told to terminate exits.  Nothing is assumed of
\* the threads' messages, of the callers, or of a thread left alone.
Fairness ==
  /\ \A j \in Jobs : WF_vars(Timeout(j)) /\ WF_vars(GraceExpires(j))
  /\ \A w \in Workers : WF_vars(terminating[w] /\ Exit(w))
  /\ WF_vars(CloseDrained) /\ WF_vars(CloseTimeout) /\ WF_vars(CloseDone)

FairSpec == Spec /\ Fairness

-----------------------------------------------------------------------------
\* A job waits only while all PoolSize workers are taken: no free worker and
\* no free slot is ever overlooked by run, a reply, an exit or a cancel, so
\* that whatever frees a worker also hands out the queue.
QueueWaitsForAFullPool ==
  queue # <<>> => /\ ~Closed
                  /\ Cardinality(workers) = PoolSize
                  /\ \A w \in workers : task[w] # NoJob \/ terminating[w]

\* The pool never has more threads than poolSize nor more waiting jobs than
\* queueSize, through every replacement of a dead thread.
WithinLimits ==
  /\ Cardinality(workers) <= PoolSize
  /\ Len(queue) <= QueueSize

\* A job is in one place: no two workers hold it, it does not wait twice, and
\* what waits is neither settled nor held by a worker.
OnePlacePerJob ==
  /\ \A v, w \in Workers : task[v] = task[w] /\ task[v] # NoJob => v = w
  /\ IsInjective(queue)
  /\ \A j \in Queued : /\ state[j] = "queued" /\ outcome[j] = "pending"
                       /\ \A w \in Workers : task[w] # j

\* A promise nobody has settled belongs to a job that waits in the queue or
\* is held by a live worker: no admitted job is ever forgotten, neither by a
\* cancellation, a dead worker nor shutdown.
NoForgottenJob ==
  \A j \in Jobs :
    state[j] # "new" /\ outcome[j] = "pending" =>
      IF state[j] = "queued" THEN j \in Queued ELSE j \in Held

\* When close() resolves no thread is left and every admitted job is settled.
ClosedIsQuiet ==
  phase = "closed" =>
    /\ workers = {} /\ queue = <<>>
    /\ \A j \in Jobs : state[j] # "new" => outcome[j] # "pending"

\* The inductive strengthening: what the entries, the queue and the phases
\* of close() imply about each other at every step.
SlotsInOrder ==
  /\ \A w \in Workers : w \notin workers => task[w] = NoJob /\ ~terminating[w]
  /\ \A w \in Workers : task[w] # NoJob => state[task[w]] = "running"
  /\ Closed => queue = <<>>
  /\ phase = "closed" => workers = {}

PlacesInv == SlotsInOrder /\ OnePlacePerJob /\ NoForgottenJob
CapacityInv == QueueWaitsForAFullPool /\ WithinLimits
IInv == TypeOK /\ PlacesInv /\ CapacityInv

\* A settled promise keeps its outcome: a late reply, an exit or shutdown
\* never rewrites the decision a cancellation took.
SettledOnce ==
  [][\A j \in Jobs : outcome[j] # "pending" => outcome'[j] = outcome[j]]_vars

\* While a job waits, only jobs ahead of it start and no job gets ahead of it,
\* whatever path starts, queues, cancels or replaces: admission order is
\* start order.
Starts(j) == state[j] # "running" /\ state'[j] = "running"
Before(q, a, b) == \E i, k \in DOMAIN q : i < k /\ q[i] = a /\ q[k] = b
NoOvertaking ==
  [][\A a \in Queued \cap Queued' : \A b \in Jobs :
       Starts(b) \/ Before(queue', b, a) => Before(queue, b, a)]_vars

\* A waiting job leaves the queue although the jobs before it ignore their
\* cancellation: the grace timer, termination and replacement free a worker.
QueueMoves == \A j \in Jobs : j \in Queued ~> j \notin Queued

\* close() resolves whatever the workers do.
CloseCompletes == phase = "draining" ~> phase = "closed"
=============================================================================
