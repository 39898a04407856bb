---------------------------- MODULE Transcription ----------------------------
(***************************************************************************)
(* The transcription service: class Service of                             *)
(* apps/transcription-backend/src/transcription/service.py with the worker *)
(* processes of processes.py and the files of storage.py.                  *)
(*                                                                         *)
(* One operation at a time: a file is uploaded (or a link given), prepared,*)
(* recognised and diarised by two processes, and saved.  The service is an *)
(* asyncio program: what runs between two awaits of one coroutine is one   *)
(* action.  Its coroutines are                                             *)
(*    the main task   run(), or finish() after a failed upload,            *)
(*    the jobs        run_worker() of each role,                           *)
(*    the canceller   cancel_and_finish(),                                 *)
(*    the finalizers  finalize(), shielded, one for each of its callers,   *)
(*    the upload      of the request that carries the file,                *)
(* and a cancellation is delivered to a task where it waits.               *)
(*                                                                         *)
(* Texts, stages and events are left out; operations are numbered.         *)
(***************************************************************************)
EXTENDS Naturals

CONSTANT MaxOperations   \* bound on reserve()

ASSUME OperationsAssumption == MaxOperations \in Nat \ {0}

VARIABLES
  current,    \* the operation, 0 before the first
  kind,       \* "file" or "youtube", for each operation
  status,     \* snapshot.status
  timer,      \* timeout_task waits for the upload to begin
  upload,     \* the request that carries the file
  main,       \* the main task, the outcome it is to save, the jobs it waits
              \* for, and whether a cancellation is on its way to it
  job,        \* the run_worker() of each role and its result
  canceller,  \* with the main task it found in self.task, if any
  finalizer,  \* of the main task and of the canceller
  making,     \* the operation whose directory a thread of run() is making
  directory,  \* has the operation a temporary directory?
  saved,      \* the status transcript.txt and transcript.json show
  orphans,    \* roles of which a process outlives its run_worker()
  cleanup_failed,
  serving     \* FALSE once close() has begun

tasks == <<upload, main, job, canceller, finalizer>>
vars == <<current, kind, status, timer, tasks, making, directory, saved, orphans,
          cleanup_failed, serving>>

Operations == 1..MaxOperations
Roles == {"preparation", "asr", "diarization"}
Models == {"asr", "diarization"}
Callers == {"main", "canceller"}
TERMINAL == {"completed", "cancelled", "failed"}
Files == {"txt", "json"}

NoMain == [pc |-> "none", op |-> 0, outcome |-> "completed", pending |-> {},
           cancelled |-> FALSE]
NoUpload == [pc |-> "none", op |-> 0]
NoJob == [pc |-> "none", result |-> "none"]
NoCanceller == [pc |-> "none", op |-> 0, previous |-> FALSE]
NoFinalizer == [pc |-> "none", op |-> 0, status |-> "none"]

Statuses == TERMINAL \cup {"none", "awaiting_upload", "running", "cancelling"}
Uploads == [pc : {"none", "opening", "streaming"}, op : 0..MaxOperations]
Mains ==
  [pc : {"none", "created", "making", "preparing", "working", "stopping", "unwinding",
         "finishing", "saving", "settling"},
   op : 0..MaxOperations, outcome : {"completed", "failed"},
   pending : SUBSET Models, cancelled : BOOLEAN]
JobStates == [pc : {"none", "running", "reaping", "ended"},
              result : {"none", "ok", "failed", "cancelled"}]
Cancellers == [pc : {"none", "created", "task", "upload", "saving"},
               op : 0..MaxOperations, previous : BOOLEAN]
Finalizers == [pc : {"none", "created", "removing", "writing", "done"},
               op : 0..MaxOperations, status : TERMINAL \cup {"none"}]

TypeOK ==
  /\ current \in 0..MaxOperations
  /\ kind \in [Operations -> {"file", "youtube"}]
  /\ status \in [Operations -> Statuses]
  /\ timer \in BOOLEAN
  /\ upload \in Uploads
  /\ main \in Mains
  /\ job \in [Roles -> JobStates]
  /\ canceller \in Cancellers
  /\ finalizer \in [Callers -> Finalizers]
  /\ making \in 0..MaxOperations
  /\ directory \in [Operations -> BOOLEAN]
  /\ saved \in [Operations -> [Files -> TERMINAL \cup {"none"}]]
  /\ orphans \in SUBSET Roles
  /\ cleanup_failed \in BOOLEAN /\ serving \in BOOLEAN

Init ==
  /\ current = 0
  /\ kind \in [Operations -> {"file", "youtube"}]
  /\ status = [o \in Operations |-> "none"]
  /\ timer = FALSE
  /\ upload = NoUpload /\ main = NoMain
  /\ job = [r \in Roles |-> NoJob]
  /\ canceller = NoCanceller
  /\ finalizer = [p \in Callers |-> NoFinalizer]
  /\ making = 0
  /\ directory = [o \in Operations |-> FALSE]
  /\ saved = [o \in Operations |-> [f \in Files |-> "none"]]
  /\ orphans = {}
  /\ cleanup_failed = FALSE /\ serving = TRUE

-----------------------------------------------------------------------------

\* self.task.done(): self.task is the canceller once there is one.
TaskDone == IF canceller.op = current THEN canceller.pc = "none" ELSE main.pc = "none"

Settled == IF current = 0 THEN TRUE ELSE status[current] \in TERMINAL
MayReserve == Settled /\ ~cleanup_failed /\ TaskDone

\* A new main task: run(), or finish() of an operation that failed early.
Run(o) == [NoMain EXCEPT !.pc = "created", !.op = o]
FinishFailed(o) == [NoMain EXCEPT !.pc = "finishing", !.op = o, !.outcome = "failed"]

\* reserve().  A repeated request id is answered without any effect.
Reserve ==
  LET o == current + 1 IN
  /\ serving /\ current < MaxOperations /\ MayReserve
  /\ current' = o
  /\ status' = [status EXCEPT ![o] =
                  IF kind[o] = "file" THEN "awaiting_upload" ELSE "running"]
  /\ timer' = (kind[o] = "file")
  /\ main' = IF kind[o] = "file" THEN NoMain ELSE Run(o)
  /\ upload' = NoUpload
  /\ job' = [r \in Roles |-> NoJob]
  /\ finalizer' = [p \in Callers |-> NoFinalizer]
  /\ UNCHANGED <<kind, canceller, making, directory, saved, orphans, cleanup_failed, serving>>

\* expire(): nobody began to upload in time.
Expire ==
  /\ timer /\ timer' = FALSE
  /\ IF status[current] = "awaiting_upload" /\ upload.pc = "none"
       THEN /\ status' = [status EXCEPT ![current] = "running"]
            /\ main' = FinishFailed(current)
       ELSE UNCHANGED <<status, main>>
  /\ UNCHANGED <<current, kind, upload, job, canceller, finalizer, making, directory, saved,
                 orphans, cleanup_failed, serving>>

-----------------------------------------------------------------------------
UploadBegins ==
  /\ serving /\ current # 0
  /\ kind[current] = "file" /\ status[current] = "awaiting_upload" /\ upload.pc = "none"
  /\ upload' = [pc |-> "opening", op |-> current]
  /\ timer' = FALSE
  /\ UNCHANGED <<current, kind, status, main, job, canceller, finalizer, making, directory,
                 saved, orphans, cleanup_failed, serving>>

\* The temporary directory and the file in it.
UploadOpens ==
  /\ upload.pc = "opening"
  /\ upload' = [upload EXCEPT !.pc = "streaming"]
  /\ directory' = [directory EXCEPT ![upload.op] = TRUE]
  /\ UNCHANGED <<current, kind, status, timer, main, job, canceller, finalizer, making, saved,
                 orphans, cleanup_failed, serving>>

\* The body has ended, the upload has failed, or it has noticed, within a tenth
\* of a second, that the operation is being cancelled.
UploadEnds(ok) ==
  LET o == upload.op IN
  /\ upload.pc = "streaming" \/ (upload.pc = "opening" /\ ~ok)
  /\ upload' = NoUpload
  /\ IF status[o] = "cancelling" THEN UNCHANGED <<status, main>>
     ELSE /\ status' = [status EXCEPT ![o] = "running"]
          /\ main' = IF ok THEN Run(o) ELSE FinishFailed(o)
  /\ UNCHANGED <<current, kind, timer, job, canceller, finalizer, making, directory, saved,
                 orphans, cleanup_failed, serving>>

-----------------------------------------------------------------------------
\* run_worker() of a role.  The process says "done" and exits with 0 ...
JobSucceeds(r) ==
  /\ job[r].pc = "running"
  /\ job' = [job EXCEPT ![r] = [pc |-> "ended", result |-> "ok"]]
  /\ UNCHANGED <<current, kind, status, timer, upload, main, canceller, finalizer, making,
                 directory, saved, orphans, cleanup_failed, serving>>

\* ... or cannot be started, breaks, or sends what cannot be accepted.
JobFails(r) ==
  /\ job[r].pc = "running"
  /\ \E pc \in {"reaping", "ended"} :
       job' = [job EXCEPT ![r] = [pc |-> pc, result |-> "failed"]]
  /\ UNCHANGED <<current, kind, status, timer, upload, main, canceller, finalizer, making,
                 directory, saved, orphans, cleanup_failed, serving>>

\* The finally of run_worker(): SIGTERM, three seconds, SIGKILL, wait.
JobReaped(r) ==
  /\ job[r].pc = "reaping"
  /\ job' = [job EXCEPT ![r].pc = "ended"]
  /\ UNCHANGED <<current, kind, status, timer, upload, main, canceller, finalizer, making,
                 directory, saved, orphans, cleanup_failed, serving>>

\* CancelledError in the jobs of the roles R.  One that is being reaped leaves
\* its finally between SIGTERM and SIGKILL.
Live(r) == job[r].pc \in {"running", "reaping"}
CancelJobs(R) ==
  /\ job' = [r \in Roles |->
       IF r \notin R \/ ~Live(r) THEN job[r]
       ELSE [pc |-> IF job[r].pc = "running" THEN "reaping" ELSE "ended",
             result |-> "cancelled"]]
  /\ orphans' = orphans \cup {r \in R : job[r].pc = "reaping"}

OrphanExits(r) ==
  /\ r \in orphans /\ orphans' = orphans \ {r}
  /\ UNCHANGED <<current, kind, status, timer, tasks, making, directory, saved, cleanup_failed,
                 serving>>

-----------------------------------------------------------------------------
Go(pc) == main' = [main EXCEPT !.pc = pc]
Awake(pc) == main.pc = pc /\ ~main.cancelled

\* finish(): the finalizer is a task of its own.
Finalize(caller, o, outcome) ==
  finalizer' = [finalizer EXCEPT ![caller] = [pc |-> "created", op |-> o, status |-> outcome]]
Finish(outcome) ==
  /\ main' = [main EXCEPT !.pc = "saving", !.outcome = outcome, !.pending = {}]
  /\ Finalize("main", main.op, outcome)

\* run() and its first await, a thread that makes the directory.
MainStarts ==
  /\ Awake("created") /\ Go("making")
  /\ making' = main.op
  /\ UNCHANGED <<current, kind, status, timer, upload, job, canceller, finalizer, directory,
                 saved, orphans, cleanup_failed, serving>>

\* The thread ends, whether or not run() still waits for it.
DirectoryMade(ok) ==
  /\ making # 0 /\ making' = 0
  /\ directory' = [directory EXCEPT ![making] = @ \/ ok]
  /\ IF ~(Awake("making") /\ main.op = making) THEN UNCHANGED <<main, job, finalizer>>
     ELSE IF ok THEN /\ Go("preparing")
                     /\ job' = [job EXCEPT !["preparation"].pc = "running"]
                     /\ UNCHANGED finalizer
     ELSE Finish("failed") /\ UNCHANGED job
  /\ UNCHANGED <<current, kind, status, timer, upload, canceller, saved, orphans,
                 cleanup_failed, serving>>

Prepared ==
  /\ Awake("preparing") /\ job["preparation"].pc = "ended"
  /\ IF job["preparation"].result = "ok"
       THEN /\ main' = [main EXCEPT !.pc = "working", !.pending = Models]
            /\ job' = [r \in Roles |->
                         IF r \in Models THEN [NoJob EXCEPT !.pc = "running"] ELSE job[r]]
            /\ UNCHANGED finalizer
       ELSE Finish("failed") /\ UNCHANGED job
  /\ UNCHANGED <<current, kind, status, timer, upload, canceller, making, directory, saved,
                 orphans, cleanup_failed, serving>>

\* asyncio.wait() returns: a failed diarization leaves the recognition running,
\* a failed recognition stops the diarization.
Collect ==
  LET ended == {r \in main.pending : job[r].pc = "ended"}
      left == main.pending \ ended
      outcome == IF \E r \in ended : job[r].result # "ok" THEN "failed" ELSE main.outcome
      stop == "asr" \in ended /\ job["asr"].result # "ok"
  IN /\ Awake("working") /\ ended # {}
     /\ IF left = {} THEN Finish(outcome) /\ UNCHANGED <<job, orphans>>
        ELSE /\ main' = [main EXCEPT !.pc = IF stop THEN "stopping" ELSE @,
                                     !.outcome = outcome, !.pending = left]
             /\ IF stop THEN CancelJobs(left) ELSE UNCHANGED <<job, orphans>>
             /\ UNCHANGED finalizer
     /\ UNCHANGED <<current, kind, status, timer, upload, canceller, making, directory, saved,
                    cleanup_failed, serving>>

Stopped ==
  /\ Awake("stopping") /\ \A r \in main.pending : ~Live(r)
  /\ Finish(main.outcome)
  /\ UNCHANGED <<current, kind, status, timer, upload, job, canceller, making, directory, saved,
                 orphans, cleanup_failed, serving>>

\* finish() as a main task of its own.
FinishStarts ==
  /\ Awake("finishing") /\ Finish(main.outcome)
  /\ UNCHANGED <<current, kind, status, timer, upload, job, canceller, making, directory, saved,
                 orphans, cleanup_failed, serving>>

Returns == main' = [main EXCEPT !.pc = "none", !.pending = {}, !.cancelled = FALSE]
Catches(pc) == main' = [main EXCEPT !.pc = pc, !.cancelled = FALSE]

\* Mutant of Shielded: finish() does not wait for its finalizer.
Unshielded == main.pc = "saving" /\ Returns

\* The shield of finish(): a cancelled finish() still waits for its finalizer.
Shielded == main.pc = "saving" /\ Catches("settling")

\* The cancellation reaches the main task where it waits.
MainCancelled ==
  /\ main.cancelled
  /\ \/ /\ main.pc \in {"created", "finishing", "making"} /\ Returns
        /\ UNCHANGED <<job, orphans>>
     \/ /\ main.pc \in {"preparing", "working", "stopping"} /\ Catches("unwinding")
        /\ CancelJobs(IF main.pc = "preparing" THEN {"preparation"} ELSE main.pending)
     \/ Shielded /\ UNCHANGED <<job, orphans>>
  /\ UNCHANGED <<current, kind, status, timer, upload, canceller, finalizer, making, directory,
                 saved, cleanup_failed, serving>>

\* The finally of run() has waited for the jobs; finish() for its finalizer.
MainReturns ==
  /\ \/ main.pc = "unwinding" /\ \A r \in Roles : ~Live(r)
     \/ main.pc = "settling" /\ finalizer["main"].pc = "done"
     \/ Awake("saving") /\ finalizer["main"].pc = "done"
  /\ Returns
  /\ UNCHANGED <<current, kind, status, timer, upload, job, canceller, finalizer, making,
                 directory, saved, orphans, cleanup_failed, serving>>

-----------------------------------------------------------------------------
\* cancel(), which close() also calls.
Cancelling ==
  /\ status' = [status EXCEPT ![current] = "cancelling"]
  /\ timer' = FALSE
  /\ canceller' = [pc |-> "created", op |-> current, previous |-> main.pc # "none"]
Cancel ==
  /\ serving /\ ~Settled /\ status[current] # "cancelling"
  /\ Cancelling
  /\ UNCHANGED <<current, kind, upload, main, job, finalizer, making, directory, saved, orphans,
                 cleanup_failed, serving>>

\* close(), at shutdown: no more requests are taken.
Close ==
  /\ serving /\ serving' = FALSE
  /\ IF Settled \/ status[current] = "cancelling"
       THEN timer' = FALSE /\ UNCHANGED <<status, canceller>>
       ELSE Cancelling
  /\ UNCHANGED <<current, kind, upload, main, job, finalizer, making, directory, saved, orphans,
                 cleanup_failed>>

CancelPrevious ==
  /\ canceller.pc = "created"
  /\ canceller' = [canceller EXCEPT !.pc = IF canceller.previous THEN "task" ELSE "upload"]
  /\ main' = IF canceller.previous /\ main.pc # "none" THEN [main EXCEPT !.cancelled = TRUE]
             ELSE main
  /\ UNCHANGED <<current, kind, status, timer, upload, job, finalizer, making, directory, saved,
                 orphans, cleanup_failed, serving>>

PreviousGone ==
  /\ canceller.pc = "task" /\ main.pc = "none"
  /\ canceller' = [canceller EXCEPT !.pc = "upload"]
  /\ UNCHANGED <<current, kind, status, timer, upload, main, job, finalizer, making, directory,
                 saved, orphans, cleanup_failed, serving>>

\* upload_done
UploadGone == upload.pc = "none"

CancelFinishes ==
  /\ canceller.pc = "upload" /\ UploadGone
  /\ canceller' = [canceller EXCEPT !.pc = "saving"]
  /\ Finalize("canceller", canceller.op, "cancelled")
  /\ UNCHANGED <<current, kind, status, timer, upload, main, job, making, directory, saved,
                 orphans, cleanup_failed, serving>>

CancellerReturns ==
  /\ canceller.pc = "saving" /\ finalizer["canceller"].pc = "done"
  /\ canceller' = [canceller EXCEPT !.pc = "none"]
  /\ UNCHANGED <<current, kind, status, timer, upload, main, job, finalizer, making, directory,
                 saved, orphans, cleanup_failed, serving>>

-----------------------------------------------------------------------------
\* finalize() up to its first await, if there is a directory to remove.
FinalizerStarts(p) ==
  LET f == finalizer[p] IN
  /\ f.pc = "created"
  /\ finalizer' = [finalizer EXCEPT ![p].pc = IF directory[f.op] THEN "removing" ELSE "writing"]
  /\ UNCHANGED <<current, kind, status, timer, upload, main, job, canceller, making, directory,
                 saved, orphans, cleanup_failed, serving>>

\* rmtree, in a thread.
DirectoryRemoved(p, ok) ==
  LET f == finalizer[p] IN
  /\ f.pc = "removing"
  /\ finalizer' = [finalizer EXCEPT ![p].pc = "writing", ![p].status = IF ok THEN @ ELSE "failed"]
  /\ directory' = [directory EXCEPT ![f.op] = ~ok]
  /\ cleanup_failed' = (cleanup_failed \/ ~ok)
  /\ UNCHANGED <<current, kind, status, timer, upload, main, job, canceller, making, saved,
                 orphans, serving>>

\* Mutant of Withheld: a terminal status is published whoever is waiting.
Outspoken(p) == FALSE

\* save_result() replaces the text, then the JSON; an error stops it.
Outcome(f, written) == IF written = Files THEN f.status ELSE "failed"

\* A result that was being saved when the operation was cancelled: the
\* canceller will save and publish another.
Withheld(p) == status[finalizer[p].op] = "cancelling" /\ p = "main"

\* The end of finalize().
ResultWritten(p, written) ==
  LET f == finalizer[p] IN
  /\ f.pc = "writing"
  /\ saved' = [saved EXCEPT ![f.op] =
                 [x \in Files |-> IF x \in written THEN f.status ELSE @[x]]]
  /\ status' = IF Withheld(p) THEN status ELSE [status EXCEPT ![f.op] = Outcome(f, written)]
  /\ finalizer' = [finalizer EXCEPT ![p].pc = "done"]
  /\ UNCHANGED <<current, kind, timer, upload, main, job, canceller, making, directory, orphans,
                 cleanup_failed, serving>>

Finalizing(p) ==
  \/ FinalizerStarts(p)
  \/ \E ok \in BOOLEAN : DirectoryRemoved(p, ok)
  \/ \E written \in {{}, {"txt"}, Files} : ResultWritten(p, written)

-----------------------------------------------------------------------------
MainStep ==
  \/ MainStarts \/ Prepared \/ Collect \/ Stopped \/ FinishStarts \/ MainCancelled \/ MainReturns
CancellerStep == CancelPrevious \/ PreviousGone \/ CancelFinishes \/ CancellerReturns

Next ==
  \/ Reserve \/ Expire \/ Cancel \/ Close
  \/ UploadBegins \/ UploadOpens \/ \E ok \in BOOLEAN : UploadEnds(ok) \/ DirectoryMade(ok)
  \/ \E r \in Roles : JobSucceeds(r) \/ JobFails(r) \/ JobReaped(r) \/ OrphanExits(r)
  \/ MainStep \/ CancellerStep
  \/ \E p \in Callers : Finalizing(p)

Spec == Init /\ [][Next]_vars

\* Mutant of Notices: a stalled upload is waited for.
NoticesNothing == FALSE /\ UploadEnds(FALSE)

\* A cancelled upload does not wait for the sender.
Notices == status[upload.op] = "cancelling" /\ UploadEnds(TRUE)

\* Coroutines that can run do, threads end, and a process that is being reaped
\* is killed.  Nothing is assumed of users, senders or running processes.
Fairness ==
  /\ WF_vars(MainStep) /\ WF_vars(CancellerStep)
  /\ WF_vars(UploadOpens) /\ WF_vars(upload.pc # "none" /\ Notices)
  /\ WF_vars(\E ok \in BOOLEAN : DirectoryMade(ok))
  /\ \A r \in Roles : WF_vars(JobReaped(r))
  /\ \A p \in Callers : WF_vars(Finalizing(p))

FairSpec == Spec /\ Fairness

-----------------------------------------------------------------------------
\* Whatever coroutine is left belongs to the current operation.  receive() and
\* failure() write to self.current: a job, a finish or an upload of an earlier
\* operation would write into the next one.
NothingOfAnOlderOperation ==
  /\ main.pc # "none" => main.op = current
  /\ upload.pc # "none" => upload.op = current
  /\ canceller.pc # "none" => canceller.op = current
  /\ \A p \in Callers : finalizer[p].pc \notin {"none", "done"} => finalizer[p].op = current
  /\ (\E r \in Roles : Live(r)) => main.pc \in {"preparing", "working", "stopping", "unwinding"}

\* A result is saved by one finalizer at a time, with no upload writing to the
\* directory it removes and no job adding to the text it saves.
SavedAlone ==
  \A p \in Callers : finalizer[p].pc \in {"created", "removing", "writing"} =>
    /\ upload.pc = "none" /\ \A r \in Roles : ~Live(r)
    /\ \A q \in Callers \ {p} : finalizer[q].pc \notin {"created", "removing", "writing"}

Saving(p) == finalizer[p].pc \in {"created", "removing", "writing"}

\* Who may be at work for the current operation at one time: the upload, the
\* main task behind it, or the canceller behind both, each with its own.
StageInv ==
  /\ main.pc # "none" => upload.pc = "none"
  /\ \A r \in Roles : Live(r) =>
       \/ main.pc = "unwinding"
       \/ main.pc = "preparing" /\ r = "preparation"
       \/ main.pc \in {"working", "stopping"} /\ r \in main.pending
  /\ Saving("main") => main.pc \in {"saving", "settling"}
  /\ Saving("canceller") => canceller.pc = "saving"
  /\ canceller.pc \in {"upload", "saving"} => main.pc = "none"
  /\ canceller.pc = "created" /\ ~canceller.previous => main.pc = "none"
  /\ canceller.pc = "saving" => upload.pc = "none"

\* What the status says of who is at work.
StatusInv ==
  /\ \A o \in Operations : o > current => status[o] = "none"
  /\ current = 0 => ~timer /\ main.pc = "none" /\ upload.pc = "none" /\ canceller.pc = "none"
  /\ upload.pc # "none" => status[current] \in {"awaiting_upload", "cancelling"}
  /\ main.pc # "none" =>
       \/ status[current] \in {"running", "cancelling"}
       \/ main.pc \in {"saving", "settling"} /\ ~Saving("main") /\ status[current] \in TERMINAL
  /\ canceller.pc # "none" =>
       IF canceller.pc = "saving" /\ ~Saving("canceller") THEN status[current] \in TERMINAL
       ELSE status[current] = "cancelling"
  /\ current # 0 /\ canceller.op = current /\ canceller.pc = "none" =>
       main.pc = "none" /\ upload.pc = "none" /\ status[current] \in TERMINAL
  /\ current # 0 /\ status[current] = "awaiting_upload" =>
       main.pc = "none" /\ canceller.op # current
  /\ canceller.op <= current
  /\ Saving("main") => finalizer["main"].status \in {"completed", "failed"}
  /\ Saving("canceller") => finalizer["canceller"].status \in {"cancelled", "failed"}

\* The inductive invariant behind the safety properties.
IInv == TypeOK /\ NothingOfAnOlderOperation /\ StageInv /\ StatusInv

\* An accepted cancellation is never overtaken by a result that was being saved,
\* and a published end is final.
CancelIsFinal ==
  [][\A o \in Operations :
       /\ status[o] = "cancelling" => status'[o] \in {"cancelling", "cancelled", "failed"}
       /\ status[o] \in TERMINAL => status'[o] = status[o]]_vars

\* An accepted cancellation ends the operation, whatever the sender of the file
\* and the processes do.
CancelEnds == \A o \in Operations : status[o] = "cancelling" ~> status[o] \in TERMINAL
=============================================================================
