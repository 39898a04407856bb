---------------------------- MODULE SummaryQueue ----------------------------
(***************************************************************************)
(* Summaries and the one local model                                       *)
(* (apps/backend/src/domain/secretary/): the days of a chat are queued in  *)
(* table daily_summaries; every second SummaryScheduledTask takes the model*)
(* and lets a worker thread, with a database connection of its own, do one *)
(* day; the messages of the day change meanwhile in the main thread.  The  *)
(* model is shared with summaries asked for by the user (ChatSummarizer)   *)
(* and with replies, which go first (ModelScheduler).                      *)
(*                                                                         *)
(* A statement of the worker is one action, and so is what the main thread *)
(* does between two awaits.  The rows of a day are known by a version that *)
(* grows with every change of what the worker reads of them: it stands for *)
(* the rows, for their fingerprint and for a text made from them.          *)
(***************************************************************************)
EXTENDS Naturals, Sequences, FiniteSets, FiniteSetsExt, SequencesExt

CONSTANTS
  LastDay,      \* days are 1 .. LastDay
  MaxChanges,   \* bound on changes of messages
  MaxReplies,   \* bound on messages to be answered
  MaxManual,    \* bound on summaries asked for by the user
  MaxFaults,    \* bound on failures of the model, of SQLite and of the worker
  MaxStarts     \* bound on starts of the backend

ASSUME SummaryAssumption ==
  /\ {LastDay, MaxStarts} \subseteq Nat \ {0}
  /\ {MaxChanges, MaxReplies, MaxManual, MaxFaults} \subseteq Nat

VARIABLES
  source,       \* version of the rows of each day
  blank,        \* days without any text left
  unnamed,      \* a message has an author whose name is not known yet
  summary,      \* table daily_summaries
  queue,        \* ModelScheduler.queue
  using,        \* what runs in it
  pass,         \* where the loop of AutoReplyService is
  waiting,      \* messages that wait for a reply
  manual,       \* table chat_summaries
  manualJob,    \* ChatSummarizer.jobs has it
  worker,       \* where SummaryJob is, the day it does and the rows it has read
  stopping,     \* the backend is stopping
  changes, replies, asked, faults, starts

archiveVars == <<source, blank, unnamed, summary, changes>>
schedulerVars == <<queue, using>>
replyVars == <<pass, waiting, replies>>
manualVars == <<manual, manualJob, asked>>
processVars == <<stopping, starts>>
summaryVars == <<archiveVars, schedulerVars, replyVars, manualVars, worker, faults, processVars>>

Days == 1 .. LastDay
Kinds == {"reply", "daily", "manual"}
NoText == 0                              \* versions begin with 1
Versions == 1 .. 1 + MaxChanges
Statuses == {"none", "queued", "running", "ready", "error"}
Row(status, text) == [status |-> status, text |-> text]
NoWorker == [at |-> "none", day |-> 0, version |-> NoText]

SummaryTypeOK ==
  /\ source \in [Days -> Versions] /\ blank \subseteq Days /\ unnamed \in BOOLEAN
  /\ summary \in [Days -> [status : Statuses, text : Versions \cup {NoText}]]
  /\ queue \in Seq(Kinds) /\ using \in Kinds \cup {"none"}
  /\ pass \in {"idle", "reading", "generating", "sending", "rechecking"}
  /\ waiting \in 0 .. MaxReplies /\ manual \in Statuses \ {"queued"} /\ manualJob \in BOOLEAN
  /\ worker \in [at : {"none", "recovers", "picks", "reads", "marks", "summarizes", "checks",
                       "publishes", "requeues", "fails", "done"},
                 day : Days \cup {0}, version : Versions \cup {NoText}]
  /\ stopping \in BOOLEAN
  /\ changes \in 0 .. MaxChanges /\ replies \in 0 .. MaxReplies /\ asked \in 0 .. MaxManual
  /\ faults \in 0 .. MaxFaults /\ starts \in 1 .. MaxStarts

SummaryInit ==
  /\ source = [d \in Days |-> 1] /\ blank = {} /\ unnamed \in BOOLEAN
  /\ summary = [d \in Days |-> Row("none", NoText)]
  /\ queue = <<>> /\ using = "none"
  /\ pass = "idle" /\ waiting = 0 /\ manual = "none" /\ manualJob = FALSE
  /\ worker = NoWorker /\ stopping = FALSE
  /\ changes = 0 /\ replies = 0 /\ asked = 0 /\ faults = 0 /\ starts = 1

Fault == faults < MaxFaults /\ faults' = faults + 1

-----------------------------------------------------------------------------
(* ModelScheduler *)

Summaries == {"daily", "manual"}
IsReply(kind) == kind = "reply"

\* The entries of q of the given kinds, in their order.
Only(q, kinds) ==
  LET only[n \in 0 .. Len(q)] ==
        IF n = 0 THEN <<>>
        ELSE IF q[n] \in kinds THEN Append(only[n - 1], q[n]) ELSE only[n - 1]
  IN only[Len(q)]

\* push() and sort(): replies before summaries, in the order they came.
Inserted(kind) ==
  LET q == Append(queue, kind) IN Only(q, {"reply"}) \o Only(q, Summaries)

\* Mutant of MayStart: summaries do not ask whether replies wait.
MayStartAlways(kind, some) == TRUE

\* allowSummary(): some tells whether replies wait, by the state of their rows.
MayStart(kind, some) == IsReply(kind) \/ ~some

\* drain(), nothing running, with q for the queue: takes the first entry that
\* may start, or gives up until it is called again.
Drain(q, some) ==
  IF q # <<>> /\ MayStart(Head(q), some)
  THEN using' = Head(q) /\ queue' = Tail(q)
  ELSE using' = "none" /\ queue' = q

\* run(kind)
Schedule(kind, some) ==
  IF using = "none" THEN Drain(Inserted(kind), some)
  ELSE queue' = Inserted(kind) /\ UNCHANGED using

-----------------------------------------------------------------------------
(* The rows of a day change, in the main thread *)

\* A new message: the summary of its day is left alone.  Its author may have
\* to be looked up first.
MessageComes(d) ==
  /\ changes < MaxChanges /\ changes' = changes + 1
  /\ source' = [source EXCEPT ![d] = @ + 1] /\ blank' = blank \ {d}
  /\ unnamed' \in {unnamed, TRUE}
  /\ UNCHANGED <<summary, schedulerVars, replyVars, manualVars, worker, faults,
                 processVars>>

\* An edit or a deletion, in one transaction with the summary of the day
\* (saveMessages(), recordMessageContent()).
MessageChanges(d) ==
  /\ changes < MaxChanges /\ changes' = changes + 1
  /\ source' = [source EXCEPT ![d] = @ + 1]
  /\ blank' \in {blank, blank \cup {d}}
  /\ summary' = IF summary[d].status = "none" THEN summary
                ELSE [summary EXCEPT ![d] = Row("queued", NoText)]
  /\ UNCHANGED <<unnamed, schedulerVars, replyVars, manualVars, worker, faults, processVars>>

\* saveAuthor()
AuthorNamed ==
  /\ unnamed /\ unnamed' = FALSE
  /\ UNCHANGED <<source, blank, summary, changes, schedulerVars, replyVars, manualVars,
                 worker, faults, processVars>>

\* enqueueDailySummaries(): an import is complete, or a reply finds no summary.
Enqueue(d) ==
  /\ summary[d].status = "none" /\ d \notin blank /\ ~stopping
  /\ summary' = [summary EXCEPT ![d] = Row("queued", NoText)]
  /\ UNCHANGED <<source, blank, unnamed, changes, schedulerVars, replyVars, manualVars,
                 worker, faults, processVars>>

\* dailySummary(retryDay): the user asks for a day again, unless it is being done.
RetryDay(d) ==
  /\ summary[d].status \in {"ready", "error"} /\ ~stopping
  /\ changes < MaxChanges /\ changes' = changes + 1
  /\ summary' = [summary EXCEPT ![d] = Row("queued", NoText)]
  /\ UNCHANGED <<source, blank, unnamed, schedulerVars, replyVars, manualVars, worker,
                 faults, processVars>>

-----------------------------------------------------------------------------
(* SummaryScheduledTask, and SummaryJob in its worker thread *)

\* Every second, unless the last run has not settled.
TaskRuns ==
  /\ ~stopping /\ using # "daily" /\ ~Contains(queue, "daily")
  /\ Schedule("daily", waiting > 0)
  /\ UNCHANGED <<archiveVars, replyVars, manualVars, worker, faults, processVars>>

\* It has the model: the job goes to a worker.
JobStarts ==
  /\ using = "daily" /\ worker.at = "none"
  /\ worker' = [NoWorker EXCEPT !.at = IF stopping THEN "done" ELSE "recovers"]
  /\ UNCHANGED <<archiveVars, schedulerVars, replyVars, manualVars, faults, processVars>>

\* recoverDailySummaries()
Recovered ==
  [d \in Days |-> IF summary[d].status = "running" THEN [summary[d] EXCEPT !.status = "queued"]
                  ELSE summary[d]]

WorkerRecovers ==
  /\ worker.at = "recovers"
  /\ summary' = Recovered /\ worker' = [worker EXCEPT !.at = "picks"]

\* nextDailySummary(): the earliest, once every author of the chat is known.
WorkerPicks ==
  LET ready == {d \in Days : summary[d].status = "queued" /\ ~unnamed} IN
  /\ worker.at = "picks"
  /\ worker' = IF ready = {} THEN [worker EXCEPT !.at = "done"]
               ELSE [worker EXCEPT !.at = "reads", !.day = Min(ready)]
  /\ UNCHANGED summary

WorkerReads ==
  /\ worker.at = "reads"
  /\ worker' = [worker EXCEPT !.at = IF worker.day \in blank THEN "publishes" ELSE "marks",
                              !.version = source[worker.day]]
  /\ UNCHANGED summary

WorkerMarks ==
  /\ worker.at = "marks"
  /\ summary' = [summary EXCEPT ![worker.day] = Row("running", NoText)]
  /\ worker' = [worker EXCEPT !.at = "summarizes"]

\* The model answers for every part, or the signal is aborted.
WorkerSummarizes ==
  /\ worker.at = "summarizes"
  /\ worker' = [worker EXCEPT !.at = IF stopping THEN "fails" ELSE "checks"]
  /\ UNCHANGED summary

\* The rows have the fingerprint they had when they were read.
Same(d, version) == source[d] = version

WorkerChecks ==
  /\ worker.at = "checks"
  /\ worker' = [worker EXCEPT
       !.at = IF Same(worker.day, worker.version) THEN "publishes" ELSE "requeues"]
  /\ UNCHANGED summary

\* The last statement of a day.
WorkerWrites ==
  /\ worker.at \in {"publishes", "requeues", "fails"}
  /\ summary' = [summary EXCEPT ![worker.day] =
       CASE worker.at = "publishes" -> Row("ready", worker.version)
         [] worker.at = "requeues" -> Row("queued", NoText)
         [] worker.at = "fails" -> Row(IF stopping THEN "queued" ELSE "error", NoText)]
  /\ worker' = [worker EXCEPT !.at = "done"]

\* SQLITE_BUSY: runDailySummary() is tried again from its beginning, or the job
\* fails and leaves the day as it is; any other error fails the day.
WorkerMeetsError ==
  /\ Fault
  /\ \/ /\ worker.at \in {"marks", "publishes", "requeues", "fails"}
        /\ worker' \in {[worker EXCEPT !.at = "reads"], [worker EXCEPT !.at = "done"]}
     \/ worker.at = "recovers" /\ worker' = [worker EXCEPT !.at = "done"]
     \/ worker.at = "summarizes" /\ worker' = [worker EXCEPT !.at = "fails"]
     \/ worker.at \notin {"none", "done"} /\ worker' = [worker EXCEPT !.at = "done"]  \* it dies
  /\ UNCHANGED summary

WorkerSteps ==
  /\ \/ /\ \/ WorkerRecovers \/ WorkerPicks \/ WorkerReads \/ WorkerMarks
           \/ WorkerSummarizes \/ WorkerChecks \/ WorkerWrites
        /\ UNCHANGED faults
     \/ WorkerMeetsError
  /\ UNCHANGED <<source, blank, unnamed, changes, schedulerVars, replyVars, manualVars,
                 processVars>>

\* The promise of the job settles: the model is free for the next.
JobSettles ==
  /\ using = "daily" /\ worker.at = "done" /\ worker' = NoWorker
  /\ Drain(queue, waiting > 0)
  /\ UNCHANGED <<archiveVars, replyVars, manualVars, faults, processVars>>

-----------------------------------------------------------------------------
(* AutoReplyService, as far as it shares the model: hasWaitingReplies, drain(),*)
(* and the resume() at the end of tick()                                       *)

\* A message to be answered; tick() begins a pass unless there is one.
ReplyNeeded ==
  /\ ~stopping /\ replies < MaxReplies
  /\ replies' = replies + 1 /\ waiting' = waiting + 1
  /\ pass' = IF pass = "idle" THEN "reading" ELSE pass
  /\ UNCHANGED <<archiveVars, schedulerVars, manualVars, worker, faults, processVars>>

\* The timer, once a second: nothing to answer, or not yet.
PassBegins ==
  /\ ~stopping /\ pass = "idle"
  /\ pass' \in IF waiting > 0 THEN {"reading", "rechecking"} ELSE {"rechecking"}
  /\ UNCHANGED <<archiveVars, schedulerVars, waiting, replies, manualVars, worker, faults,
                 processVars>>

\* The message and its chat have been read: the model is asked for a reply.
ReplyAsksModel ==
  /\ pass = "reading" /\ waiting > 0 /\ pass' = "generating"
  /\ Schedule("reply", waiting > 0)
  /\ UNCHANGED <<archiveVars, waiting, replies, manualVars, worker, faults, processVars>>

\* Generated, or failed: the entry ends, and what is next in the queue starts.
ReplyGenerated ==
  /\ using = "reply" /\ pass = "generating" /\ pass' = "sending"
  /\ Drain(queue, waiting > 0)
  /\ UNCHANGED <<archiveVars, waiting, replies, manualVars, worker, faults, processVars>>

\* The message is done with: sent, skipped, cancelled or given up, or it will be
\* tried again later.  A pass goes on as long as there are others.
ReplyEnds ==
  /\ pass \in {"reading", "sending"}
  /\ waiting' \in {n \in {waiting, waiting - 1} : n \in Nat}
  /\ pass' \in IF waiting' > 0 THEN {"reading", "rechecking"} ELSE {"rechecking"}
  /\ UNCHANGED <<archiveVars, schedulerVars, replies, manualVars, worker, faults, processVars>>

\* Its five minutes are over; if it waits for the model, it leaves the queue.
ReplyExpires ==
  /\ waiting > 0 /\ waiting' = waiting - 1
  /\ IF pass = "generating" /\ Contains(queue, "reply")
     THEN queue' = Only(queue, Summaries) /\ pass' = "sending"
     ELSE UNCHANGED <<queue, pass>>
  /\ UNCHANGED <<archiveVars, using, replies, manualVars, worker, faults, processVars>>

\* Mutant of Resumed: the end of a pass does not concern the model.
ResumedNever == UNCHANGED schedulerVars

\* resume()
Resumed == IF using = "none" THEN Drain(queue, waiting > 0) ELSE UNCHANGED schedulerVars

\* The chats that were paused have been looked at: the pass is over.
PassEnds ==
  /\ pass = "rechecking" /\ pass' = "idle"
  /\ Resumed
  /\ UNCHANGED <<archiveVars, waiting, replies, manualVars, worker, faults, processVars>>

-----------------------------------------------------------------------------
(* ChatSummarizer: a summary for the user *)

ManualStarts ==
  /\ ~stopping /\ ~manualJob /\ asked < MaxManual /\ blank # Days
  /\ asked' = asked + 1 /\ manual' = "running" /\ manualJob' = TRUE
  /\ Schedule("manual", waiting > 0)
  /\ UNCHANGED <<archiveVars, replyVars, worker, faults, processVars>>

ManualFinishes ==
  /\ using = "manual" /\ manual' \in {"ready", "error"} /\ manualJob' = FALSE
  /\ Drain(queue, waiting > 0)
  /\ UNCHANGED <<archiveVars, replyVars, asked, worker, faults, processVars>>

\* get(): a record that says running without a job was interrupted.
Shown == IF manual = "running" /\ ~manualJob THEN "error" ELSE manual

-----------------------------------------------------------------------------
(* The backend *)

\* close(): tasks and replies are aborted; what waits for the model is gone.
BackendStops ==
  /\ ~stopping /\ stopping' = TRUE
  /\ queue' = <<>> /\ waiting' = 0 /\ pass' = "idle"
  /\ using' = IF using = "reply" THEN "none" ELSE using
  /\ UNCHANGED <<archiveVars, replies, manualVars, worker, faults, starts>>

\* It starts again, having stopped or died at any moment.
BackendRestarts ==
  /\ starts < MaxStarts /\ starts' = starts + 1
  /\ stopping' = FALSE /\ worker' = NoWorker
  /\ queue' = <<>> /\ using' = "none" /\ pass' = "idle" /\ waiting' = 0
  /\ manualJob' = FALSE
  /\ UNCHANGED <<archiveVars, replies, manual, asked, faults>>

-----------------------------------------------------------------------------

DayChanges == \E d \in Days : MessageComes(d) \/ MessageChanges(d)
DayQueued == \E d \in Days : Enqueue(d) \/ RetryDay(d)

SummaryNext ==
  \/ DayChanges \/ AuthorNamed \/ DayQueued
  \/ TaskRuns \/ JobStarts \/ WorkerSteps \/ JobSettles
  \/ ReplyNeeded \/ PassBegins \/ ReplyAsksModel \/ ReplyGenerated \/ ReplyEnds \/ ReplyExpires
  \/ PassEnds
  \/ ManualStarts \/ ManualFinishes
  \/ BackendStops \/ BackendRestarts

SummarySpec == SummaryInit /\ [][SummaryNext]_summaryVars

\* Cron and timers fire, the worker goes on, model and Telegram answer or time
\* out, the authors are found, and a message waits for five minutes at most.
SummaryFairSpec ==
  /\ SummarySpec
  /\ WF_summaryVars(TaskRuns) /\ WF_summaryVars(JobStarts) /\ WF_summaryVars(WorkerSteps) /\ WF_summaryVars(JobSettles)
  /\ WF_summaryVars(AuthorNamed) /\ WF_summaryVars(PassBegins) /\ WF_summaryVars(PassEnds)
  /\ WF_summaryVars(ReplyGenerated) /\ WF_summaryVars(ReplyEnds) /\ WF_summaryVars(ReplyExpires)
  /\ WF_summaryVars(ManualFinishes)

-----------------------------------------------------------------------------
(* Properties *)

\* A day that is queued or being done comes to its end, whatever else wants the
\* model, whichever worker dies and however often the backend starts (resume()
\* after every pass of the replies, recoverDailySummaries(), retryBusy()); nor
\* does a summary the user asked for seem to run for ever, even if the backend
\* died while it did (get() of ChatSummarizer).
SummariesEnd ==
  /\ \A d \in Days : summary[d].status \in {"queued", "running"} ~>
                       summary[d].status \in {"ready", "error"} \/ stopping
  /\ Shown = "running" ~> Shown # "running" \/ stopping

\* The inductive strengthening: no reply waits behind a summary, versions and
\* waiting messages are counted, and a worker at work has a day.
RepliesAhead ==
  \A i, k \in DOMAIN queue : i < k /\ IsReply(queue[k]) => IsReply(queue[i])
CountsInv ==
  /\ \A d \in Days : source[d] <= 1 + changes
  /\ waiting <= replies
  /\ worker.at \notin {"none", "recovers", "picks", "done"} => worker.day \in Days
SummaryInv == SummaryTypeOK /\ RepliesAhead /\ CountsInv

\* Work that nobody waits for never takes the model while a message waits for
\* its reply (the order of the queue, and hasWaitingReplies).
RepliesFirst ==
  [][(using' # using /\ using' \in {"daily", "manual"}) =>
       waiting' = 0 /\ ~Contains(queue', "reply")]_summaryVars
=============================================================================
