------------------------------ MODULE JobSystem ------------------------------
(***************************************************************************)
(* The pool of WorkerPool.tla composed with threads that run               *)
(* lib/framework/src/job-worker.ts, over the two directions of each        *)
(* thread's MessagePort.                                                   *)
(*                                                                         *)
(* A thread may crash while it runs a job and may stop at any time once    *)
(* the pool has terminated it.  Node delivers what a stopped thread had    *)
(* already posted before it emits "exit"; what is posted to it is lost.    *)
(***************************************************************************)
EXTENDS WorkerPool, SequencesExt

VARIABLES
  inbox,      \* messages on their way to the thread of a slot
  executing,  \* controllers of job-worker.ts: the jobs a thread is running
  signalled,  \* those whose AbortController has been aborted
  outbox,     \* replies on their way to the pool
  stopped     \* the thread has stopped, its exit event is still to come

threadVars == <<inbox, executing, signalled, outbox, stopped>>
systemVars == <<vars, threadVars>>

Commands == [type : {"run", "cancel"}, id : Jobs]
Replies == [id : Jobs, status : {"success", "clone-error", "error"}]

SystemTypeOK ==
  /\ TypeOK
  /\ inbox \in [Workers -> Seq(Commands)]
  /\ executing \in [Workers -> SUBSET Jobs]
  /\ signalled \in [Workers -> SUBSET Jobs]
  /\ outbox \in [Workers -> Seq(Replies)]
  /\ stopped \in [Workers -> BOOLEAN]

SystemInit ==
  /\ Init
  /\ inbox = [w \in Workers |-> <<>>]
  /\ executing = [w \in Workers |-> {}]
  /\ signalled = [w \in Workers |-> {}]
  /\ outbox = [w \in Workers |-> <<>>]
  /\ stopped = [w \in Workers |-> FALSE]

-----------------------------------------------------------------------------
\* Mutants of Posted: a cancel is not posted; a reused worker is not told about
\* its next job.
PostedNoCancel(w) ==
  IF task'[w] # task[w] /\ task'[w] # NoJob
    THEN <<[type |-> "run", id |-> task'[w]]>> ELSE <<>>
PostedToNew(w) ==
  IF task[w] = NoJob /\ task'[w] # NoJob
    THEN <<[type |-> "run", id |-> task'[w]]>>
    ELSE IF \E j \in Jobs : task[w] = j /\ ~grace[j] /\ grace'[j]
           THEN <<[type |-> "cancel", id |-> task[w]]>>
           ELSE <<>>

\* What a step of the pool posts to the thread of w: #start posts "run",
\* #cancel posts "cancel" when it arms the grace timer.
Posted(w) ==
  IF task'[w] # task[w] /\ task'[w] # NoJob
    THEN <<[type |-> "run", id |-> task'[w]]>>
    ELSE IF \E j \in Jobs : task[w] = j /\ ~grace[j] /\ grace'[j]
           THEN <<[type |-> "cancel", id |-> task[w]]>>
           ELSE <<>>

Post(w) == IF stopped[w] THEN inbox[w] ELSE inbox[w] \o Posted(w)

\* A step of the pool that no thread takes part in.
PoolStep ==
  /\ \/ \E j \in Jobs : Run(j) \/ Abort(j) \/ Timeout(j) \/ GraceExpires(j)
     \/ Close \/ CloseDrained \/ CloseTimeout \/ CloseDone
  /\ inbox' = [w \in Workers |-> Post(w)]
  /\ UNCHANGED <<executing, signalled, outbox, stopped>>

\* The pool receives the next reply of a thread.
PoolReceives(w) ==
  /\ outbox[w] # <<>>
  /\ OnMessage(w, Head(outbox[w]))
  /\ outbox' = [outbox EXCEPT ![w] = Tail(@)]
  /\ inbox' = [v \in Workers |-> Post(v)]
  /\ UNCHANGED <<executing, signalled, stopped>>

\* The exit event follows the replies; the slot is ready for a new thread,
\* which may be the one the pool starts in this very step.
PoolSeesExit(w) ==
  /\ stopped[w] /\ outbox[w] = <<>>
  /\ Exit(w)
  /\ stopped' = [stopped EXCEPT ![w] = FALSE]
  /\ inbox' = [v \in Workers |-> IF v = w THEN Posted(w) ELSE Post(v)]
  /\ UNCHANGED <<executing, signalled, outbox>>

-----------------------------------------------------------------------------
\* handleMessage of job-worker.ts up to the call of the job.
ThreadStartsJob(w) ==
  /\ w \in workers /\ ~stopped[w]
  /\ inbox[w] # <<>> /\ Head(inbox[w]).type = "run"
  /\ executing' = [executing EXCEPT ![w] = @ \cup {Head(inbox[w]).id}]
  /\ inbox' = [inbox EXCEPT ![w] = Tail(@)]
  /\ UNCHANGED <<vars, signalled, outbox, stopped>>

\* A cancel for a job that is not running any more is dropped.
ThreadCancelsJob(w) ==
  /\ w \in workers /\ ~stopped[w]
  /\ inbox[w] # <<>> /\ Head(inbox[w]).type = "cancel"
  /\ signalled' = [signalled EXCEPT ![w] = @ \cup ({Head(inbox[w]).id} \cap executing[w])]
  /\ inbox' = [inbox EXCEPT ![w] = Tail(@)]
  /\ UNCHANGED <<vars, executing, outbox, stopped>>

\* The job returns or throws: one reply, then its controller is forgotten.
JobEnds(w, reply) ==
  /\ w \in workers /\ ~stopped[w]
  /\ reply.id \in executing[w]
  /\ outbox' = [outbox EXCEPT ![w] = Append(@, reply)]
  /\ executing' = [executing EXCEPT ![w] = @ \ {reply.id}]
  /\ signalled' = [signalled EXCEPT ![w] = @ \ {reply.id}]
  /\ UNCHANGED <<vars, inbox, stopped>>

\* The thread stops: the pool has terminated it, or the job took it down.
ThreadStops(w) ==
  /\ w \in workers /\ ~stopped[w]
  /\ terminating[w] \/ executing[w] # {}
  /\ stopped' = [stopped EXCEPT ![w] = TRUE]
  /\ inbox' = [inbox EXCEPT ![w] = <<>>]
  /\ executing' = [executing EXCEPT ![w] = {}]
  /\ signalled' = [signalled EXCEPT ![w] = {}]
  /\ UNCHANGED <<vars, outbox>>

ThreadStep(w) ==
  \/ ThreadStartsJob(w) \/ ThreadCancelsJob(w) \/ ThreadStops(w)
  \/ \E reply \in Replies : JobEnds(w, reply)

SystemNext ==
  \/ PoolStep
  \/ \E w \in Workers : PoolReceives(w) \/ PoolSeesExit(w) \/ ThreadStep(w)

SystemSpec == SystemInit /\ [][SystemNext]_systemVars

-----------------------------------------------------------------------------
InTransit(w, j) ==
  \/ \E i \in DOMAIN inbox[w] : inbox[w][i] = [type |-> "run", id |-> j]
  \/ j \in executing[w]
  \/ \E i \in DOMAIN outbox[w] : outbox[w][i].id = j

\* Pool and thread agree: while a thread lives, the job the pool believes it
\* runs is on its way there, being run, or on its way back, and no other is;
\* a thread the pool has forgotten, as all of them after close(), runs nothing.
PoolAndThreadAgree ==
  \A w \in Workers :
    IF w \in workers
      THEN ~stopped[w] => \A j \in Jobs : InTransit(w, j) <=> task[w] = j
      ELSE \A j \in Jobs : ~InTransit(w, j)

\* A cancelled job that a thread still runs has its abort signal, or the
\* cancel is on its way; and no other job is ever signalled: cancels cross
\* replies and the reuse of a thread without being lost or hitting the next
\* job.
Cancelled(j) == outcome[j] \in {"aborted", "timedOut"}
CancelReachesItsJob ==
  \A w \in Workers : \A j \in executing[w] :
    Cancelled(j) <=> \/ j \in signalled[w]
                     \/ \E i \in DOMAIN inbox[w] :
                          inbox[w][i] = [type |-> "cancel", id |-> j]

\* The inductive strengthening of the two.  The conversation with a thread is
\* about one job at a time, the one the pool believes it runs: its "run" waits
\* in the inbox, before every cancel for it, or the job is being run, or its
\* reply is waiting.
RunWaits(box) == \E i \in DOMAIN box : box[i].type = "run"
Conversation(live, box, exec, sig, out, job) ==
  /\ ~live => box = <<>> /\ exec = {}
  /\ exec \subseteq {job} /\ sig \subseteq exec
  /\ Len(out) <= 1 /\ \A i \in DOMAIN out : out[i].id = job
  /\ \A i \in DOMAIN box : box[i].type = "run" =>
       /\ box[i].id = job
       /\ \A k \in DOMAIN box : box[k].id = job => i <= k
  /\ exec # {} => ~RunWaits(box) /\ out = <<>>
  /\ out # <<>> => ~RunWaits(box)
  /\ live /\ job # NoJob => RunWaits(box) \/ exec # {} \/ out # <<>>

\* Only jobs of the set cancelled are signalled or about to be, and the job the
\* thread has, if it is one of them, has its signal or the cancel on its way.
SignalsFit(live, box, sig, out, job, cancelled) ==
  /\ sig \subseteq cancelled
  /\ \A i \in DOMAIN box : box[i].type = "cancel" => box[i].id \in cancelled
  /\ live /\ out = <<>> /\ job \in cancelled =>
       job \in sig \/ \E i \in DOMAIN box : box[i] = [type |-> "cancel", id |-> job]

AllCancelled == {j \in Jobs : Cancelled(j)}
Live(w) == w \in workers /\ ~stopped[w]

Agreement(w) ==
  /\ w \notin workers => ~stopped[w]
  /\ \A i \in DOMAIN inbox[w] : state[inbox[w][i].id] = "running"
  /\ Conversation(Live(w), inbox[w], executing[w], signalled[w], outbox[w], task[w])
  /\ SignalsFit(Live(w), inbox[w], signalled[w], outbox[w], task[w], AllCancelled)

GraceInv == \A j \in Jobs : grace[j] => Cancelled(j)

SystemInv == SystemTypeOK /\ PlacesInv /\ GraceInv /\ \A w \in Workers : Agreement(w)
=============================================================================
