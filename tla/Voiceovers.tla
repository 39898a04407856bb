------------------------------ MODULE Voiceovers ------------------------------
(***************************************************************************)
(* Voice-over records: class Voiceovers of                                 *)
(* apps/transcription-backend/src/transcription/voiceover.py, with the     *)
(* busy check of api.py.  A record is reserved, uploaded if it is a file,  *)
(* prepared, given voices, rendered, perhaps rendered again, and deleted.  *)
(* One slot (self.active) is shared with the transcription.                *)
(*                                                                         *)
(* It is an asyncio program: what runs between two awaits of a coroutine is*)
(* one action.  The coroutines of a record are its upload, its task        *)
(* (prepare() or render()), the producers that render() starts, _delete(), *)
(* and replace_speaker_sample().  Each holds the record object and saves   *)
(* it, whether or not it is still in self.records.                         *)
(*                                                                         *)
(* Texts, clips, stages and event streams are left out; saving succeeds.   *)
(***************************************************************************)
EXTENDS Naturals, FiniteSets

CONSTANTS
  MaxRecords,   \* records are 1 .. MaxRecords
  MaxRenders,   \* bound on synthesize() and retry_phrase()
  MaxSamples,   \* bound on replace_speaker_sample()
  MaxFaults,    \* bound on cleanups that fail
  MaxStarts     \* bound on starts of the service

ASSUME VoiceoversAssumption ==
  /\ {MaxRecords, MaxStarts} \subseteq Nat \ {0}
  /\ {MaxRenders, MaxSamples, MaxFaults} \subseteq Nat

VARIABLES
  records,      \* self.records
  used,         \* records ever reserved
  status,       \* record.status
  row,          \* table records: the status and _held_slot of each
  active,       \* self.active, 0 for None
  upload,       \* where upload() of each is
  task,         \* where prepare() or render() of each is
  producers,    \* records with producers of render() that run
  deletion,     \* where _delete() of each is
  sample,       \* where replace_speaker_sample() of each is
  transcribing, \* the transcription has an operation
  renders, samples, faults, starts,
  returned      \* history: a start has found a row that was saved too late

coroutines == <<upload, task, producers, deletion, sample>>
counters == <<renders, samples, faults, starts, returned>>
vars == <<records, used, status, row, active, coroutines, transcribing, counters>>

Ids == 1 .. MaxRecords
Started == {"awaiting_upload", "preparing", "awaiting_voices", "synthesizing"}
Viewable == {"completed", "incomplete"}
Statuses == Started \cup Viewable \cup {"none", "failed", "deleting", "delete_failed"}
Rows == [status : Statuses, held : BOOLEAN]
NoRow == [status |-> "none", held |-> FALSE]

TypeOK ==
  /\ records \subseteq Ids /\ used \in 0 .. MaxRecords
  /\ status \in [Ids -> Statuses] /\ row \in [Ids -> Rows]
  /\ active \in 0 .. MaxRecords
  /\ upload \in [Ids -> {"none", "waiting", "writing", "ending"}]
  /\ task \in [Ids -> {"none", "toPrepare", "toRender", "preparing", "recognizing", "aborting", "sampling",
                       "failing", "reaping", "rendering", "assembling", "cleaning", "stopping"}]
  /\ producers \subseteq Ids
  /\ deletion \in [Ids -> {"none", "stopping", "waiting", "removing"}]
  /\ sample \in [Ids -> {"none", "reading", "converting"}]
  /\ transcribing \in BOOLEAN
  /\ renders \in 0 .. MaxRenders /\ samples \in 0 .. MaxSamples
  /\ faults \in 0 .. MaxFaults /\ starts \in 1 .. MaxStarts /\ returned \in BOOLEAN

Init ==
  /\ records = {} /\ used = 0 /\ active = 0
  /\ status = [r \in Ids |-> "none"] /\ row = [r \in Ids |-> NoRow]
  /\ upload = [r \in Ids |-> "none"] /\ task = [r \in Ids |-> "none"]
  /\ producers = {} /\ deletion = [r \in Ids |-> "none"] /\ sample = [r \in Ids |-> "none"]
  /\ transcribing = FALSE
  /\ renders = 0 /\ samples = 0 /\ faults = 0 /\ starts = 1 /\ returned = FALSE

-----------------------------------------------------------------------------
\* save(): the row is inserted or replaced, whatever became of the record.
Saved(r, s) == [row EXCEPT ![r] = [status |-> s, held |-> active = r]]

Becomes(r, s) == status' = [status EXCEPT ![r] = s] /\ row' = Saved(r, s)

\* Mutant of Freed: whoever has failed, the slot is free.
FreedAnyway(r) == 0
Freed(r) == IF active = r THEN 0 ELSE active

\* fail()
Fail(r) == Becomes(r, "failed") /\ active' = Freed(r)

\* check_available(), and what the routes of one record ask.
Available == active = 0 /\ ~transcribing
AvailableTo(r) == active = r \/ Available

-----------------------------------------------------------------------------
(* Reserving and uploading *)

Reserve ==
  LET r == used + 1 IN
  /\ used < MaxRecords /\ Available
  /\ used' = r /\ records' = records \cup {r} /\ active' = r
  /\ \E s \in {"awaiting_upload", "preparing"} :
       /\ status' = [status EXCEPT ![r] = s]
       /\ row' = [row EXCEPT ![r] = [status |-> s, held |-> FALSE]]  \* before it is active
       /\ task' = [task EXCEPT ![r] = IF s = "preparing" THEN "toPrepare" ELSE "none"]
  /\ UNCHANGED <<upload, producers, deletion, sample, transcribing, counters>>

UploadBegins(r) ==
  /\ r \in records /\ status[r] = "awaiting_upload" /\ upload[r] = "none"
  /\ upload' = [upload EXCEPT ![r] = "waiting"]
  /\ UNCHANGED <<records, used, status, row, active, task, producers, deletion, sample,
                 transcribing, counters>>

\* A chunk is written by a thread, or the body has ended.
UploadReads(r) ==
  /\ upload[r] = "waiting" /\ status[r] # "deleting"
  /\ \E next \in {"writing", "ending"} : upload' = [upload EXCEPT ![r] = next]
  /\ UNCHANGED <<records, used, status, row, active, task, producers, deletion, sample,
                 transcribing, counters>>

\* After the loop: nobody looks at the status again.
UploadDone(r) ==
  /\ upload' = [upload EXCEPT ![r] = "none"] /\ task' = [task EXCEPT ![r] = "toPrepare"]
  /\ Becomes(r, "preparing")

\* The loop goes on unless the record is being deleted; then it ends as it does
\* at the end of the body.
UploadResumes(r) ==
  /\ \/ upload[r] = "writing" /\ status[r] # "deleting"
        /\ upload' = [upload EXCEPT ![r] = "waiting"] /\ UNCHANGED <<status, row, task>>
     \/ upload[r] = "writing" /\ status[r] = "deleting" /\ UploadDone(r)
     \/ upload[r] = "ending" /\ UploadDone(r)
  /\ UNCHANGED <<records, used, active, producers, deletion, sample, transcribing, counters>>

\* The client goes away, or the disk is full.
UploadFails(r) ==
  /\ upload[r] \in {"waiting", "writing"} /\ upload' = [upload EXCEPT ![r] = "none"]
  /\ IF status[r] = "deleting" THEN UNCHANGED <<status, row, active>> ELSE Fail(r)
  /\ UNCHANGED <<records, used, task, producers, deletion, sample, transcribing, counters>>

UploadLeaves(r) ==
  /\ upload[r] = "waiting" /\ status[r] = "deleting"
  /\ upload' = [upload EXCEPT ![r] = "none"]
  /\ UNCHANGED <<records, used, status, row, active, task, producers, deletion, sample,
                 transcribing, counters>>

-----------------------------------------------------------------------------
(* prepare() *)

Moves(r, from, to) == task[r] = from /\ task' = [task EXCEPT ![r] = to]

\* A phase saves the record before and after its process.
PrepareStarts(r) ==
  /\ Moves(r, "toPrepare", "preparing")
  /\ row' = Saved(r, status[r])
  /\ UNCHANGED <<status, active, producers>>

\* Recognition and diarization in a task group.
PrepareRecognizes(r) ==
  /\ Moves(r, "preparing", "recognizing") /\ row' = Saved(r, status[r])
  /\ UNCHANGED <<status, active, producers>>

\* There is speech; separation, samples, context follow.
PrepareSamples(r) ==
  /\ Moves(r, "recognizing", "sampling") /\ row' = Saved(r, status[r])
  /\ UNCHANGED <<status, active, producers>>

NoSpeech(r) ==
  /\ Moves(r, "recognizing", "none") /\ Fail(r) /\ UNCHANGED producers

\* The user is to choose voices, or render() follows at once.
Prepared(r) ==
  /\ \/ Moves(r, "sampling", "none") /\ Becomes(r, "awaiting_voices") /\ UNCHANGED producers
     \/ /\ Moves(r, "sampling", "rendering") /\ Becomes(r, "synthesizing")
        /\ producers' = producers \cup {r}
  /\ UNCHANGED active

\* A process fails; it is reaped (run_worker()) before the task hears of it.
PhaseFails(r) ==
  /\ Moves(r, "preparing", "failing") \/ Moves(r, "sampling", "failing")
     \/ Moves(r, "assembling", "failing")
  /\ UNCHANGED <<status, row, active, producers>>

\* One of the two of the group has failed, the other is cancelled.
GroupFails(r) ==
  /\ Moves(r, "recognizing", "aborting") /\ UNCHANGED <<status, row, active, producers>>

\* Mutant of Failed: the error is not one that prepare() expects.
FailedUnexpectedly(r) ==
  /\ Moves(r, "failing", "none") \/ Moves(r, "aborting", "none")
  /\ UNCHANGED <<status, row, active, producers>>

\* The processes are gone: the error is that of the record, even if the task was
\* cancelled while it waited for the group.
Failed(r) ==
  /\ Moves(r, "failing", "none") \/ Moves(r, "aborting", "none")
  /\ Fail(r) /\ UNCHANGED producers

Reaped(r) ==
  /\ Moves(r, "reaping", "none") /\ UNCHANGED <<status, row, active, producers>>

-----------------------------------------------------------------------------
(* render() *)

RenderStarts(r) ==
  /\ Moves(r, "toRender", "rendering") /\ producers' = producers \cup {r}
  /\ row' = Saved(r, status[r]) /\ UNCHANGED <<status, active>>

\* Every phrase has been placed: the producers have ended, the media are made.
RenderAssembles(r) ==
  /\ Moves(r, "rendering", "assembling") /\ producers' = producers \ {r}
  /\ row' = Saved(r, status[r]) /\ UNCHANGED <<status, active>>

RenderCompletes(r) ==
  /\ Moves(r, "assembling", "none")
  /\ \E s \in Viewable : Becomes(r, s)
  /\ active' = 0
  /\ UNCHANGED producers

\* The record has failed; finally, what render() started is to end.
RenderFails(r) ==
  /\ Moves(r, "rendering", "cleaning") /\ Fail(r) /\ UNCHANGED producers

\* The preview has been closed: the producers are cancelled, and waited for.
RenderStops(r) ==
  /\ Moves(r, "cleaning", "stopping") /\ UNCHANGED <<status, row, active, producers>>

RenderStopped(r) ==
  /\ Moves(r, "stopping", "none") /\ producers' = producers \ {r}
  /\ UNCHANGED <<status, row, active>>

TaskSteps(r) ==
  /\ \/ PrepareStarts(r) \/ PrepareRecognizes(r) \/ PrepareSamples(r) \/ NoSpeech(r) \/ Prepared(r)
     \/ PhaseFails(r) \/ GroupFails(r) \/ Failed(r) \/ Reaped(r)
     \/ RenderStarts(r) \/ RenderAssembles(r) \/ RenderCompletes(r) \/ RenderFails(r)
     \/ RenderStops(r) \/ RenderStopped(r)
  /\ UNCHANGED <<records, used, upload, deletion, sample, transcribing, counters>>

\* A producer reports a phrase.
ProducerSaves(r) ==
  /\ r \in producers /\ row' = Saved(r, status[r])
  /\ UNCHANGED <<records, used, status, active, coroutines, transcribing, counters>>

\* Producers that nobody cancels end when they have done every phrase.
ProducersEnd(r) ==
  /\ r \in producers /\ task[r] = "none" /\ producers' = producers \ {r}
  /\ UNCHANGED <<records, used, status, row, active, upload, task, deletion, sample,
                 transcribing, counters>>

\* synthesize() and retry_phrase(); the second is not for awaiting_voices.
Synthesize(r) ==
  /\ r \in records /\ status[r] \in {"awaiting_voices"} \cup Viewable /\ AvailableTo(r)
  /\ renders < MaxRenders /\ renders' = renders + 1
  /\ active' = r /\ status' = [status EXCEPT ![r] = "synthesizing"]
  /\ row' = [row EXCEPT ![r] = [status |-> "synthesizing", held |-> TRUE]]
  /\ task' = [task EXCEPT ![r] = "toRender"]
  /\ UNCHANGED <<records, used, upload, producers, deletion, sample, transcribing, samples,
                 faults, starts, returned>>

-----------------------------------------------------------------------------
(* _delete(): repeated requests wait for the one that runs *)

\* Task.cancel(): what a cancellation does to the task where it waits.  The
\* group that aborts already takes no notice; one inside a finally ends it.
AfterCancel(pc) ==
  CASE pc \in {"preparing", "recognizing", "sampling", "assembling"} -> "reaping"
    [] pc = "aborting" -> "aborting"
    [] pc = "rendering" -> "cleaning"
    [] OTHER -> "none"

DeleteBegins(r) ==
  /\ r \in records /\ deletion[r] = "none"
  /\ Becomes(r, "deleting")
  /\ task' = [task EXCEPT ![r] = AfterCancel(@)]
  /\ producers' = IF task[r] = "stopping" THEN producers \ {r} ELSE producers
  /\ deletion' = [deletion EXCEPT ![r] = "stopping"]
  /\ UNCHANGED <<records, used, active, upload, sample, transcribing, counters>>

\* The task has ended.
DeleteWaits(r) ==
  /\ deletion[r] = "stopping" /\ task[r] = "none"
  /\ deletion' = [deletion EXCEPT ![r] = "waiting"]
  /\ UNCHANGED <<records, used, status, row, active, upload, task, producers, sample,
                 transcribing, counters>>

\* So has the upload, as the poll sees it: a thread removes the files.
DeleteRemoves(r) ==
  /\ deletion[r] = "waiting" /\ upload[r] = "none"
  /\ deletion' = [deletion EXCEPT ![r] = "removing"]
  /\ UNCHANGED <<records, used, status, row, active, upload, task, producers, sample, transcribing,
                 counters>>

DeleteCompletes(r) ==
  /\ deletion[r] = "removing" /\ deletion' = [deletion EXCEPT ![r] = "none"]
  /\ records' = records \ {r} /\ row' = [row EXCEPT ![r] = NoRow]
  /\ active' = Freed(r)
  /\ UNCHANGED <<used, status, upload, task, producers, sample, transcribing, counters>>

\* The slot stays with it until a later deletion succeeds.
DeleteFails(r) ==
  /\ deletion[r] = "removing" /\ deletion' = [deletion EXCEPT ![r] = "none"]
  /\ faults < MaxFaults /\ faults' = faults + 1
  /\ Becomes(r, "delete_failed")
  /\ UNCHANGED <<records, used, active, upload, task, producers, sample, transcribing,
                 renders, samples, starts, returned>>

DeleteSteps(r) == DeleteWaits(r) \/ DeleteRemoves(r) \/ DeleteCompletes(r)

-----------------------------------------------------------------------------
(* replace_speaker_sample(): what it asks at the beginning it does not ask again *)

SampleBegins(r) ==
  /\ r \in records /\ status[r] \in {"awaiting_voices"} \cup Viewable /\ sample[r] = "none"
  /\ samples < MaxSamples /\ samples' = samples + 1
  /\ sample' = [sample EXCEPT ![r] = "reading"]
  /\ UNCHANGED <<records, used, status, row, active, upload, task, producers, deletion,
                 transcribing, renders, faults, starts, returned>>

SampleReads(r) ==
  /\ sample[r] = "reading" /\ r \in records /\ deletion[r] # "removing"
  /\ sample' = [sample EXCEPT ![r] = "converting"]
  /\ UNCHANGED <<records, used, status, row, active, upload, task, producers, deletion,
                 transcribing, counters>>

SampleEnds(r) ==
  /\ sample[r] = "converting" /\ sample' = [sample EXCEPT ![r] = "none"]
  /\ row' = Saved(r, status[r])
  /\ UNCHANGED <<records, used, status, active, upload, task, producers, deletion,
                 transcribing, counters>>

SampleFails(r) ==
  /\ sample[r] # "none" /\ sample' = [sample EXCEPT ![r] = "none"]
  /\ UNCHANGED <<records, used, status, row, active, upload, task, producers, deletion,
                 transcribing, counters>>

-----------------------------------------------------------------------------
(* The transcription, and the service as a whole *)

TranscriptionStarts ==
  /\ Available /\ transcribing' = TRUE
  /\ UNCHANGED <<records, used, status, row, active, coroutines, counters>>

TranscriptionEnds ==
  /\ transcribing /\ transcribing' = FALSE
  /\ UNCHANGED <<records, used, status, row, active, coroutines, counters>>

\* Mutant of Interrupted: a deletion that was interrupted is a failure.
InterruptedLikeAny(s) == IF s \in Viewable THEN s ELSE "failed"

\* What the constructor makes of the status in a row.
Interrupted(s) ==
  CASE s \in {"deleting", "delete_failed"} -> "delete_failed"
    [] s \in Viewable \cup {"failed"} -> s
    [] OTHER -> "failed"

\* A record that has been deleted has a row again: a coroutine that still held it
\* has saved it.  The next start puts it back into the library.
CameBack == \E r \in Ids \ records : row[r] # NoRow

\* The process ends at any moment and starts again.
Restart ==
  LET kept == {r \in Ids : row[r].status # "none"}
      shows == [r \in Ids |-> IF r \in kept THEN Interrupted(row[r].status) ELSE status[r]]
      holders == {r \in kept : row[r].held /\ shows[r] = "delete_failed"}
  IN
  /\ starts < MaxStarts /\ starts' = starts + 1 /\ returned' = (returned \/ CameBack)
  /\ records' = kept /\ status' = shows
  /\ IF holders = {} THEN active' = 0 ELSE active' \in holders
  /\ row' = [r \in Ids |->
       IF r \in kept /\ (row[r].status # shows[r] \/ shows[r] = "delete_failed")
       THEN [status |-> shows[r], held |-> r \in holders] ELSE row[r]]
  /\ upload' = [r \in Ids |-> "none"] /\ task' = [r \in Ids |-> "none"]
  /\ producers' = {} /\ deletion' = [r \in Ids |-> "none"] /\ sample' = [r \in Ids |-> "none"]
  /\ transcribing' = FALSE
  /\ UNCHANGED <<used, renders, samples, faults>>

-----------------------------------------------------------------------------

Uploading(r) ==
  UploadBegins(r) \/ UploadReads(r) \/ UploadResumes(r) \/ UploadFails(r) \/ UploadLeaves(r)
Rendering(r) == TaskSteps(r) \/ ProducerSaves(r) \/ ProducersEnd(r) \/ Synthesize(r)
Deleting(r) == DeleteBegins(r) \/ DeleteSteps(r) \/ DeleteFails(r)
Sampling(r) == SampleBegins(r) \/ SampleReads(r) \/ SampleEnds(r) \/ SampleFails(r)

Next ==
  \/ Reserve
  \/ \E r \in Ids : Uploading(r) \/ Rendering(r) \/ Deleting(r) \/ Sampling(r)
  \/ TranscriptionStarts \/ TranscriptionEnds
  \/ Restart

Spec == Init /\ [][Next]_vars

\* Coroutines that can run do; processes and threads end; an upload looks at the
\* status ten times a second.
FairSpec ==
  /\ Spec
  /\ \A r \in Ids : /\ WF_vars(TaskSteps(r)) /\ WF_vars(DeleteSteps(r))
                    /\ WF_vars(UploadResumes(r)) /\ WF_vars(UploadLeaves(r))

-----------------------------------------------------------------------------
(* The inductive invariant behind the safety properties *)

\* A record that is yet to be reserved has left no trace.
FreshInv ==
  \A r \in Ids :
    /\ r <= used => status[r] # "none"
    /\ r > used => /\ r \notin records /\ row[r] = NoRow
                   /\ upload[r] = "none" /\ task[r] = "none" /\ deletion[r] = "none"
                   /\ r \notin producers /\ sample[r] = "none"

\* What uploads or is being deleted is in the library, which is as the rows say;
\* nothing runs before the upload, and none of it while the files are removed.
LibraryInv ==
  /\ \A r \in records : row[r].status = status[r]
  /\ \A r \in Ids : deletion[r] # "none" \/ upload[r] # "none" => r \in records
  /\ \A r \in records : status[r] = "awaiting_upload" =>
       task[r] = "none" /\ deletion[r] = "none"
  /\ \A r \in Ids : upload[r] # "none" =>
       task[r] = "none" /\ status[r] \in {"awaiting_upload", "deleting"}
  /\ \A r \in Ids : deletion[r] = "removing" => upload[r] = "none"
  /\ active # 0 => active \in records /\ ~transcribing

\* Whoever may still end with the slot, or free it, has it.
AtWork(r) ==
  status[r] \in Started \/ upload[r] # "none" \/ task[r] \notin {"none", "cleaning", "stopping"}

\* A cleanup that is due and has the slot says so in its row.
Cleanup(r) == status[r] \in {"deleting", "delete_failed"}

SlotInv ==
  /\ ~CameBack => \A r \in records : AtWork(r) => active = r
  /\ \A r \in records : Cleanup(r) /\ active = r => row[r].held
  /\ ~CameBack /\ ~returned => \A r \in records : Cleanup(r) /\ row[r].held => active = r

IInv == TypeOK /\ FreshInv /\ LibraryInv /\ SlotInv

-----------------------------------------------------------------------------
(* Properties *)

\* A record that is under way or waits for its voices has the slot, and no
\* transcription runs beside it: neither the end of another record nor a failed
\* cleanup takes it away (self.active, check_available()).  This holds as long as
\* no deleted record has come back, which a late save of its row can bring about.
SlotIsHeld ==
  \A r \in records : status[r] \in Started /\ ~CameBack => active = r /\ ~transcribing

\* What the library shows of a record that is not under way is what a restart
\* would make of its row: every change of status is saved with the step that
\* makes it.
RowShows ==
  \A r \in records : status[r] \notin Started =>
    Interrupted(row[r].status) = Interrupted(status[r])

\* A cleanup that failed, or was interrupted, keeps the slot over a restart if it
\* had it before (_held_slot), unless a deleted record has ever come back: the
\* render() of one frees the slot of another, which then is held in two rows.
CleanupKeepsSlot ==
  [][\A r \in Ids :
       /\ status[r] \in {"deleting", "delete_failed"} /\ active = r
       /\ starts' # starts /\ ~returned'
       => active' = r /\ status'[r] = "delete_failed"]_vars

\* A restart loses nothing, neither what is shown nor the slot.
RestartKeeps == []RowShows /\ CleanupKeepsSlot

\* A record in work comes to an end of it, though its processes fail or are
\* cancelled, and a deletion removes the record or says that it could not.
WorkEnds ==
  \A r \in Ids :
    /\ r \in records /\ status[r] \in {"preparing", "synthesizing"} ~>
         status[r] \notin {"preparing", "synthesizing"} \/ r \notin records
    /\ deletion[r] # "none" ~>
         deletion[r] = "none" /\ (r \in records => status[r] # "deleting")
=============================================================================
