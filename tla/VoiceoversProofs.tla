-------------------------- MODULE VoiceoversProofs --------------------------
(***************************************************************************)
(* Theorems about Voiceovers.tla, for any numbers of records, renders,     *)
(* failures and starts: who is under way has the slot, a row shows what    *)
(* the library shows, and a cleanup keeps its slot over a restart.         *)
(*                                                                         *)
(* All steps but two concern one record: AtOneRecord says what such a step *)
(* must do to keep the invariant, and a lemma per kind of step that it     *)
(* does.                                                                   *)
(***************************************************************************)
EXTENDS Voiceovers, TLAPS

USE VoiceoversAssumption

-----------------------------------------------------------------------------
(* Rows and traces *)

LEMMA SavedFacts ==
  ASSUME TypeOK, NEW r \in Ids, NEW s \in Statuses
  PROVE  /\ Saved(r, s) \in [Ids -> Rows]
         /\ Saved(r, s)[r].status = s
         /\ Saved(r, s)[r].held <=> active = r
         /\ \A q \in Ids \ {r} : Saved(r, s)[q] = row[q]
         /\ s # "none" => Saved(r, s)[r] # NoRow
<1> DEFINE new == [status |-> s, held |-> active = r]
<1>1. new \in Rows /\ new.status = s /\ (new.held <=> active = r)
  BY DEF Rows
<1>2. NoRow.status = "none"
  BY DEF NoRow
<1>3. Saved(r, s) = [row EXCEPT ![r] = new]
  BY DEF Saved
<1> HIDE DEF new
<1>4. QED
  BY <1>1, <1>2, <1>3 DEF TypeOK

\* save() of a record whose status is as it was.
LEMMA SavedAgain ==
  ASSUME TypeOK, NEW r \in Ids, status[r] # "none", row' = Saved(r, status[r])
  PROVE  /\ row' \in [Ids -> Rows] /\ row'[r].status = status[r]
         /\ row'[r].held <=> active = r
         /\ row'[r] # NoRow
         /\ \A q \in Ids \ {r} : row'[q] = row[q]
<1>1. status[r] \in Statuses
  BY DEF TypeOK
<1>2. QED
  BY <1>1, SavedFacts

\* A change of status is saved with it.
LEMMA BecomesFacts ==
  ASSUME TypeOK, NEW r \in Ids, NEW s \in Statuses \ {"none"}, Becomes(r, s)
  PROVE  /\ status' \in [Ids -> Statuses] /\ status'[r] = s
         /\ row' \in [Ids -> Rows] /\ row'[r].status = s
         /\ row'[r].held <=> active = r
         /\ row'[r] # NoRow
         /\ \A q \in Ids \ {r} : status'[q] = status[q] /\ row'[q] = row[q]
<1>1. status' = [status EXCEPT ![r] = s] /\ status \in [Ids -> Statuses]
  BY DEF Becomes, TypeOK
<1>2. row' = Saved(r, s)
  BY DEF Becomes
<1>3. QED
  BY <1>1, <1>2, SavedFacts

LEMMA BecomesElsewhere ==
  ASSUME TypeOK, NEW r \in Ids, NEW s, Becomes(r, s)
  PROVE  \A q \in Ids \ {r} : status'[q] = status[q] /\ row'[q] = row[q]
BY DEF Becomes, Saved, TypeOK

\* Only a record that has been reserved leaves a trace.
LEMMA Traces ==
  ASSUME IInv, NEW r \in Ids,
         \/ r \in records \/ r \in producers
         \/ upload[r] # "none" \/ task[r] # "none" \/ deletion[r] # "none" \/ sample[r] # "none"
  PROVE  r <= used /\ status[r] # "none" /\ r # 0
BY DEF IInv, TypeOK, FreshInv, Ids

-----------------------------------------------------------------------------
(* Steps that concern one record *)

\* What such a step leaves alone.
Elsewhere(r) ==
  /\ used' = used /\ returned' = returned
  /\ \A q \in Ids \ {r} :
       /\ q \in records' <=> q \in records
       /\ status'[q] = status[q] /\ row'[q] = row[q]
       /\ upload'[q] = upload[q] /\ task'[q] = task[q] /\ deletion'[q] = deletion[q]
       /\ sample'[q] = sample[q] /\ (q \in producers' <=> q \in producers)

\* The record is as the invariant wants it, and so are its row and the slot.
Here(r) ==
  /\ r <= used /\ status'[r] # "none"
  /\ r \in records' => r \in records /\ row'[r].status = status'[r]
  /\ \/ row'[r] = row[r] /\ (r \in records' <=> r \in records)
     \/ row'[r] # NoRow \/ r \in records
  /\ deletion'[r] # "none" \/ upload'[r] # "none" => r \in records'
  /\ upload'[r] # "none" => task'[r] = "none" /\ status'[r] \in {"awaiting_upload", "deleting"}
  /\ r \in records' /\ status'[r] = "awaiting_upload" => task'[r] = "none" /\ deletion'[r] = "none"
  /\ deletion'[r] = "removing" => upload'[r] = "none"

TheSlot(r) ==
  /\ active' # 0 => active' \in records' /\ ~transcribing'
  /\ active' \in {active, 0, r}
  /\ \/ CameBack \/ active' = active \/ active \in {0, r}
     \/ r \notin records' /\ row'[r] # NoRow
  /\ r \in records' /\ AtWork(r)' /\ ~CameBack => active' = r
  /\ r \in records' /\ Cleanup(r)' /\ active' = r => row'[r].held
  /\ r \in records' /\ Cleanup(r)' /\ row'[r].held /\ ~CameBack /\ ~returned => active' = r

LEMMA AtOneRecord ==
  ASSUME IInv, TypeOK', NEW r \in Ids, Elsewhere(r), Here(r), TheSlot(r)
  PROVE  IInv'
<1>1. FreshInv'
  BY DEF IInv, TypeOK, FreshInv, Elsewhere, Here, Ids
<1>2. LibraryInv'
  <2>1. records' \subseteq Ids /\ records' \subseteq records
    BY DEF TypeOK, Elsewhere, Here
  <2>2. \A q \in records' : row'[q].status = status'[q]
    BY <2>1 DEF IInv, LibraryInv, Elsewhere, Here
  <2>3. \A q \in Ids : /\ deletion'[q] # "none" \/ upload'[q] # "none" => q \in records'
                       /\ upload'[q] # "none" =>
                            task'[q] = "none" /\ status'[q] \in {"awaiting_upload", "deleting"}
                       /\ deletion'[q] = "removing" => upload'[q] = "none"
    BY DEF IInv, LibraryInv, Elsewhere, Here
  <2>4. \A q \in records' : status'[q] = "awaiting_upload" =>
          task'[q] = "none" /\ deletion'[q] = "none"
    BY <2>1 DEF IInv, LibraryInv, Elsewhere, Here
  <2>5. QED
    BY <2>2, <2>3, <2>4 DEF LibraryInv, TheSlot
<1>3. CameBack => CameBack'
  BY DEF CameBack, Elsewhere, Here
<1>4. \A q \in Ids \ {r} : (AtWork(q)' <=> AtWork(q)) /\ (Cleanup(q)' <=> Cleanup(q))
  BY DEF AtWork, Cleanup, Elsewhere
<1>5. r \notin records' /\ row'[r] # NoRow => CameBack'
  BY DEF CameBack
<1>6. records' \subseteq Ids /\ returned' = returned
  BY DEF TypeOK, Elsewhere
<1>7. ASSUME NEW q \in records', q # r
      PROVE  /\ ~CameBack' /\ AtWork(q)' => active' = q
             /\ Cleanup(q)' /\ active' = q => row'[q].held
             /\ ~CameBack' /\ ~returned' /\ Cleanup(q)' /\ row'[q].held => active' = q
  <2>1. q \in records /\ q # 0 /\ row'[q] = row[q] /\ q \in Ids \ {r}
    BY <1>6, <1>7 DEF Elsewhere, Ids
  <2>2. ~CameBack' /\ active = q => active' = q
    BY <1>3, <1>5, <1>7, <2>1 DEF TheSlot
  <2>3. active' = q => active = q
    BY <1>7, <2>1 DEF TheSlot
  <2>4. QED
    BY <1>3, <1>4, <1>6, <2>1, <2>2, <2>3 DEF IInv, SlotInv
<1>8. SlotInv'
  BY <1>3, <1>6, <1>7 DEF SlotInv, TheSlot
<1>9. QED
  BY <1>1, <1>2, <1>8 DEF IInv

-----------------------------------------------------------------------------
(* Uploads *)

\* Only the stage of the upload changes.
LEMMA UploadProceedsStep ==
  ASSUME IInv, NEW r \in Ids, UploadBegins(r) \/ UploadReads(r) \/ UploadLeaves(r)
  PROVE  IInv'
<1>1. TypeOK /\ r <= used /\ status[r] # "none" /\ r # 0
  BY Traces DEF IInv, UploadBegins, UploadReads, UploadLeaves
<1>2. TypeOK'
  BY <1>1 DEF TypeOK, counters, UploadBegins, UploadReads, UploadLeaves
<1>3. Elsewhere(r)
  BY <1>1 DEF Elsewhere, TypeOK, counters, UploadBegins, UploadReads, UploadLeaves
<1>4. Here(r)
  BY <1>1 DEF IInv, Here, LibraryInv, UploadBegins, UploadReads, UploadLeaves
<1>5. TheSlot(r)
  BY DEF IInv, TheSlot, LibraryInv, SlotInv, AtWork, Cleanup, Started, UploadBegins,
     UploadReads, UploadLeaves
<1>6. QED
  BY <1>2, <1>3, <1>4, <1>5, AtOneRecord

\* The upload ends with a record that prepares, has failed or is being deleted.
LEMMA UploadEndsStep ==
  ASSUME IInv, NEW r \in Ids, UploadResumes(r) \/ UploadFails(r)
  PROVE  IInv'
<1>1. TypeOK /\ r <= used /\ status[r] # "none" /\ r # 0
  BY Traces DEF IInv, UploadResumes, UploadFails
<1>2. TypeOK'
  BY <1>1, BecomesFacts DEF TypeOK, Started, counters, UploadResumes, UploadFails,
     UploadDone, Fail, Freed, Statuses
<1>3. Elsewhere(r)
  BY <1>1, BecomesElsewhere DEF Elsewhere, TypeOK, coroutines, counters, UploadResumes,
     UploadFails, UploadDone, Fail
<1>4. Here(r)
  BY <1>1, BecomesFacts DEF IInv, Here, TypeOK, LibraryInv, Statuses, Started,
     UploadResumes, UploadFails, UploadDone, Fail
<1>5. TheSlot(r)
  BY BecomesFacts DEF IInv, TheSlot, LibraryInv, SlotInv, AtWork, Cleanup, TypeOK, Statuses,
     Started, UploadResumes, UploadFails, UploadDone, Fail, Freed
<1>6. QED
  BY <1>2, <1>3, <1>4, <1>5, AtOneRecord

-----------------------------------------------------------------------------
(* prepare() and render() *)

\* The task reports progress and saves the record.
LEMMA TaskSavesStep ==
  ASSUME IInv, NEW r \in Ids,
         PrepareStarts(r) \/ PrepareRecognizes(r) \/ PrepareSamples(r) \/ RenderStarts(r)
         \/ RenderAssembles(r),
         UNCHANGED <<records, used, upload, deletion, sample, transcribing, counters>>
  PROVE  IInv'
<1>1. TypeOK /\ r <= used /\ status[r] # "none" /\ r # 0
  BY Traces DEF IInv, PrepareStarts, PrepareRecognizes, PrepareSamples, RenderStarts,
     RenderAssembles, Moves
<1>2. /\ row' \in [Ids -> Rows] /\ row'[r].status = status[r]
      /\ (row'[r].held <=> active = r) /\ row'[r] # NoRow
      /\ \A q \in Ids \ {r} : row'[q] = row[q]
  BY <1>1, SavedAgain DEF PrepareStarts, PrepareRecognizes, PrepareSamples, RenderStarts,
     RenderAssembles
<1>3. TypeOK'
  BY <1>1, <1>2 DEF TypeOK, counters, PrepareStarts, PrepareRecognizes, PrepareSamples,
     RenderStarts, RenderAssembles, Moves
<1>4. Elsewhere(r)
  BY <1>1, <1>2 DEF Elsewhere, TypeOK, counters, PrepareStarts, PrepareRecognizes,
     PrepareSamples, RenderStarts, RenderAssembles, Moves
<1>5. Here(r)
  BY <1>1, <1>2 DEF IInv, Here, LibraryInv, PrepareStarts, PrepareRecognizes,
     PrepareSamples, RenderStarts, RenderAssembles, Moves
<1>6. TheSlot(r)
  BY <1>2 DEF IInv, TheSlot, LibraryInv, SlotInv, AtWork, PrepareStarts, PrepareRecognizes,
     PrepareSamples, RenderStarts, RenderAssembles, Moves
<1>7. QED
  BY <1>3, <1>4, <1>5, <1>6, AtOneRecord

\* The task waits for what it has stopped, or has been stopped.
LEMMA TaskProceedsStep ==
  ASSUME IInv, NEW r \in Ids,
         PhaseFails(r) \/ GroupFails(r) \/ Reaped(r) \/ RenderStops(r) \/ RenderStopped(r),
         UNCHANGED <<records, used, upload, deletion, sample, transcribing, counters>>
  PROVE  IInv'
<1>1. TypeOK /\ r <= used /\ status[r] # "none" /\ r # 0
  BY Traces DEF IInv, PhaseFails, GroupFails, Reaped, RenderStops, RenderStopped, Moves
<1>2. TypeOK'
  BY <1>1 DEF TypeOK, counters, PhaseFails, GroupFails, Reaped, RenderStops, RenderStopped,
     Moves
<1>3. Elsewhere(r)
  BY <1>1 DEF Elsewhere, TypeOK, counters, PhaseFails, GroupFails, Reaped, RenderStops,
     RenderStopped, Moves
<1>4. Here(r)
  BY <1>1 DEF IInv, Here, LibraryInv, PhaseFails, GroupFails, Reaped, RenderStops,
     RenderStopped, Moves
<1>5. TheSlot(r)
  BY DEF IInv, TheSlot, LibraryInv, SlotInv, AtWork, Cleanup, TypeOK, PhaseFails,
     GroupFails, Reaped, RenderStops, RenderStopped, Moves
<1>6. QED
  BY <1>2, <1>3, <1>4, <1>5, AtOneRecord

\* The task fails and frees the slot.
LEMMA TaskFailsStep ==
  ASSUME IInv, NEW r \in Ids, NoSpeech(r) \/ Failed(r) \/ RenderFails(r),
         UNCHANGED <<records, used, upload, deletion, sample, transcribing, counters>>
  PROVE  IInv'
<1>1. TypeOK /\ r <= used /\ status[r] # "none" /\ r # 0
  BY Traces DEF IInv, NoSpeech, Failed, RenderFails, Moves
<1>2. TypeOK'
  BY <1>1, BecomesFacts DEF TypeOK, counters, NoSpeech, Failed, RenderFails, Moves, Fail,
     Freed, Statuses
<1>3. Elsewhere(r)
  BY <1>1, BecomesElsewhere DEF Elsewhere, TypeOK, coroutines, counters, NoSpeech, Failed,
     RenderFails, Moves, Fail
<1>4. Here(r)
  BY <1>1, BecomesFacts DEF IInv, Here, LibraryInv, Statuses, NoSpeech, Failed, RenderFails,
     Moves, Fail
<1>5. TheSlot(r)
  BY BecomesFacts DEF IInv, TheSlot, LibraryInv, AtWork, Cleanup, TypeOK, Statuses, Started,
     NoSpeech, Failed, RenderFails, Moves, Fail, Freed
<1>6. QED
  BY <1>2, <1>3, <1>4, <1>5, AtOneRecord

\* The voices can be chosen.
LEMMA PreparedStep ==
  ASSUME IInv, NEW r \in Ids, Prepared(r),
         UNCHANGED <<records, used, upload, deletion, sample, transcribing, counters>>
  PROVE  IInv'
<1>1. TypeOK /\ r <= used /\ status[r] # "none" /\ r # 0
  BY Traces DEF IInv, Prepared, Moves
<1>2. TypeOK'
  BY <1>1, BecomesFacts DEF TypeOK, Started, counters, Prepared, Moves, Statuses
<1>3. Elsewhere(r)
  BY <1>1, BecomesElsewhere DEF Elsewhere, TypeOK, counters, Prepared, Moves
<1>4. Here(r)
  BY <1>1, BecomesFacts DEF IInv, Here, LibraryInv, Statuses, Started, Prepared, Moves
<1>5. TheSlot(r)
  BY BecomesFacts DEF IInv, TheSlot, LibraryInv, SlotInv, AtWork, Statuses, Started,
     Prepared, Moves
<1>6. QED
  BY <1>2, <1>3, <1>4, <1>5, AtOneRecord

\* The render is complete; it frees the slot, whoever has it.
LEMMA RenderCompletesStep ==
  ASSUME IInv, NEW r \in Ids, RenderCompletes(r),
         UNCHANGED <<records, used, upload, deletion, sample, transcribing, counters>>
  PROVE  IInv'
<1>1. TypeOK /\ r <= used /\ status[r] # "none" /\ r # 0
  BY Traces DEF IInv, RenderCompletes, Moves
<1>2. PICK s \in Viewable : Becomes(r, s)
  BY DEF RenderCompletes
<1>3. s \in Statuses \ {"none"} /\ s \notin Started /\ s \notin {"deleting", "delete_failed"}
  BY DEF Viewable, Statuses, Started
<1>4. /\ status' \in [Ids -> Statuses] /\ status'[r] = s
      /\ row' \in [Ids -> Rows] /\ row'[r].status = s /\ row'[r] # NoRow
      /\ \A q \in Ids \ {r} : status'[q] = status[q] /\ row'[q] = row[q]
  BY <1>1, <1>2, <1>3, BecomesFacts
<1>5. TypeOK'
  BY <1>1, <1>4 DEF TypeOK, counters, RenderCompletes, Moves
<1>6. Elsewhere(r)
  BY <1>1, BecomesElsewhere DEF Elsewhere, counters, RenderCompletes, Moves
<1>7. Here(r)
  BY <1>1, <1>4 DEF IInv, Here, LibraryInv, Viewable, RenderCompletes, Moves
<1>8. TheSlot(r)
  <2>1. task[r] = "assembling" /\ task'[r] = "none" /\ active' = 0 /\ records' = records
        /\ upload'[r] = upload[r]
    BY <1>1 DEF TypeOK, RenderCompletes, Moves
  <2>2. r \in records /\ ~CameBack => active = r
    BY <2>1 DEF IInv, SlotInv, AtWork
  <2>3. r \in records => upload[r] = "none"
    BY <2>1 DEF IInv, LibraryInv
  <2>4. ~Cleanup(r)' /\ (r \in records => ~AtWork(r)')
    BY <1>3, <1>4, <2>1, <2>3 DEF Cleanup, AtWork
  <2>5. QED
    BY <1>4, <2>1, <2>2, <2>4 DEF TheSlot
<1>9. QED
  BY <1>5, <1>6, <1>7, <1>8, AtOneRecord

\* A producer of the render saves the record as it finds it.
LEMMA ProducerSavesStep ==
  ASSUME IInv, NEW r \in Ids, ProducerSaves(r)
  PROVE  IInv'
<1>1. TypeOK /\ r <= used /\ status[r] # "none" /\ r # 0
  BY Traces DEF IInv, ProducerSaves
<1>2. /\ row' \in [Ids -> Rows] /\ row'[r].status = status[r]
      /\ (row'[r].held <=> active = r) /\ row'[r] # NoRow
      /\ \A q \in Ids \ {r} : row'[q] = row[q]
  BY <1>1, SavedAgain DEF ProducerSaves
<1>3. TypeOK'
  BY <1>1, <1>2 DEF TypeOK, coroutines, counters, ProducerSaves
<1>4. Elsewhere(r)
  BY <1>2 DEF Elsewhere, coroutines, counters, ProducerSaves
<1>5. Here(r)
  BY <1>1, <1>2 DEF IInv, Here, LibraryInv, coroutines, ProducerSaves
<1>6. TheSlot(r)
  BY <1>2 DEF IInv, TheSlot, LibraryInv, SlotInv, AtWork, coroutines, ProducerSaves
<1>7. QED
  BY <1>3, <1>4, <1>5, <1>6, AtOneRecord

\* The producers end without a trace.
LEMMA ProducersEndStep ==
  ASSUME IInv, NEW r \in Ids, ProducersEnd(r)
  PROVE  IInv'
<1>1. TypeOK /\ r <= used /\ status[r] # "none" /\ r # 0
  BY Traces DEF IInv, ProducersEnd
<1>2. TypeOK'
  BY <1>1 DEF TypeOK, counters, ProducersEnd
<1>3. Elsewhere(r)
  BY DEF Elsewhere, counters, ProducersEnd
<1>4. Here(r)
  BY <1>1 DEF IInv, Here, LibraryInv, ProducersEnd
<1>5. TheSlot(r)
  BY DEF IInv, TheSlot, LibraryInv, SlotInv, AtWork, Cleanup, ProducersEnd
<1>6. QED
  BY <1>2, <1>3, <1>4, <1>5, AtOneRecord

\* A render begins where the slot is free, or with its own record.
LEMMA SynthesizeStep ==
  ASSUME IInv, NEW r \in Ids, Synthesize(r)
  PROVE  IInv'
<1>1. TypeOK /\ r <= used /\ status[r] # "none" /\ r # 0
  BY Traces DEF IInv, Synthesize
<1>2. TypeOK'
  <2>1. /\ [status |-> "synthesizing", held |-> TRUE] \in Rows
        /\ "synthesizing" \in Statuses
    BY DEF Rows, Statuses, Started
  <2>2. row' \in [Ids -> Rows] /\ status' \in [Ids -> Statuses]
    BY <1>1, <2>1 DEF TypeOK, Synthesize
  <2>3. active' \in 0 .. MaxRecords /\ renders' \in 0 .. MaxRenders
    BY <1>1 DEF TypeOK, Synthesize, Ids
  <2>4. QED
    BY <1>1, <2>2, <2>3 DEF TypeOK, Synthesize
<1>3. Elsewhere(r)
  BY DEF Elsewhere, Synthesize
<1>4. Here(r)
  BY <1>1 DEF IInv, Here, TypeOK, LibraryInv, Viewable, Synthesize
<1>5. TheSlot(r)
  BY DEF IInv, TheSlot, LibraryInv, TypeOK, Synthesize, AvailableTo, Available
<1>6. QED
  BY <1>2, <1>3, <1>4, <1>5, AtOneRecord

-----------------------------------------------------------------------------
(* Deletions *)

\* A deletion begins: it cancels the task.
LEMMA DeleteBeginsStep ==
  ASSUME IInv, NEW r \in Ids, DeleteBegins(r)
  PROVE  IInv'
<1>1. TypeOK /\ r <= used /\ status[r] # "none" /\ r # 0
  BY Traces DEF IInv, DeleteBegins
<1>2. TypeOK'
  BY <1>1, BecomesFacts DEF TypeOK, counters, DeleteBegins, AfterCancel, Statuses
<1>3. Elsewhere(r)
  BY <1>1, BecomesElsewhere DEF Elsewhere, coroutines, counters, DeleteBegins
<1>4. Here(r)
  BY <1>1, BecomesFacts DEF IInv, Here, LibraryInv, Statuses, DeleteBegins, AfterCancel
<1>5. TheSlot(r)
  BY BecomesFacts DEF IInv, TheSlot, LibraryInv, SlotInv, AtWork, Statuses, Started,
     DeleteBegins, AfterCancel
<1>6. QED
  BY <1>2, <1>3, <1>4, <1>5, AtOneRecord

\* It has waited for the task, or for the upload.
LEMMA DeleteProceedsStep ==
  ASSUME IInv, NEW r \in Ids, DeleteWaits(r) \/ DeleteRemoves(r)
  PROVE  IInv'
<1>1. TypeOK /\ r <= used /\ status[r] # "none" /\ r # 0
  BY Traces DEF IInv, DeleteWaits, DeleteRemoves
<1>2. TypeOK'
  BY <1>1 DEF TypeOK, counters, DeleteWaits, DeleteRemoves
<1>3. Elsewhere(r)
  BY <1>1 DEF Elsewhere, TypeOK, counters, DeleteWaits, DeleteRemoves
<1>4. Here(r)
  BY <1>1 DEF IInv, Here, TypeOK, LibraryInv, DeleteWaits, DeleteRemoves
<1>5. TheSlot(r)
  BY DEF IInv, TheSlot, LibraryInv, SlotInv, AtWork, Cleanup, DeleteWaits, DeleteRemoves
<1>6. QED
  BY <1>2, <1>3, <1>4, <1>5, AtOneRecord

\* The files, the row and the record are gone.
LEMMA DeleteCompletesStep ==
  ASSUME IInv, NEW r \in Ids, DeleteCompletes(r)
  PROVE  IInv'
<1>1. TypeOK /\ r <= used /\ status[r] # "none" /\ r # 0
  BY Traces DEF IInv, DeleteCompletes
<1>2. TypeOK'
  <2>1. NoRow \in Rows
    BY DEF NoRow, Rows, Statuses
  <2>2. QED
    BY <1>1, <2>1 DEF TypeOK, counters, DeleteCompletes, Freed
<1>3. Elsewhere(r)
  BY DEF Elsewhere, coroutines, counters, DeleteCompletes
<1>4. Here(r)
  BY <1>1 DEF IInv, Here, TypeOK, LibraryInv, DeleteCompletes
<1>5. TheSlot(r)
  BY DEF IInv, TheSlot, LibraryInv, DeleteCompletes, Freed
<1>6. QED
  BY <1>2, <1>3, <1>4, <1>5, AtOneRecord

\* The cleanup has failed.
LEMMA DeleteFailsStep ==
  ASSUME IInv, NEW r \in Ids, DeleteFails(r)
  PROVE  IInv'
<1>1. TypeOK /\ r <= used /\ status[r] # "none" /\ r # 0
  BY Traces DEF IInv, DeleteFails
<1>2. TypeOK'
  BY <1>1, BecomesFacts DEF TypeOK, DeleteFails, Statuses
<1>3. Elsewhere(r)
  BY <1>1, BecomesElsewhere DEF Elsewhere, DeleteFails
<1>4. Here(r)
  BY <1>1, BecomesFacts DEF IInv, Here, LibraryInv, Statuses, DeleteFails
<1>5. TheSlot(r)
  BY BecomesFacts DEF IInv, TheSlot, LibraryInv, SlotInv, AtWork, Statuses, Started,
     DeleteFails
<1>6. QED
  BY <1>2, <1>3, <1>4, <1>5, AtOneRecord

-----------------------------------------------------------------------------
(* Samples *)

\* Only the stage of the request changes.
LEMMA SampleProceedsStep ==
  ASSUME IInv, NEW r \in Ids, SampleBegins(r) \/ SampleReads(r) \/ SampleFails(r)
  PROVE  IInv'
<1>1. TypeOK /\ r <= used /\ status[r] # "none" /\ r # 0
  BY Traces DEF IInv, SampleBegins, SampleReads, SampleFails
<1>2. TypeOK'
  BY <1>1 DEF TypeOK, counters, SampleBegins, SampleReads, SampleFails
<1>3. Elsewhere(r)
  BY <1>1 DEF Elsewhere, TypeOK, counters, SampleBegins, SampleReads, SampleFails
<1>4. Here(r)
  BY <1>1 DEF IInv, Here, LibraryInv, SampleBegins, SampleReads, SampleFails
<1>5. TheSlot(r)
  BY DEF IInv, TheSlot, LibraryInv, SlotInv, AtWork, Cleanup, SampleBegins, SampleReads,
     SampleFails
<1>6. QED
  BY <1>2, <1>3, <1>4, <1>5, AtOneRecord

\* The request saves its record, deleted or not.
LEMMA SampleEndsStep ==
  ASSUME IInv, NEW r \in Ids, SampleEnds(r)
  PROVE  IInv'
<1>1. TypeOK /\ r <= used /\ status[r] # "none" /\ r # 0
  BY Traces DEF IInv, SampleEnds
<1>2. /\ row' \in [Ids -> Rows] /\ row'[r].status = status[r]
      /\ (row'[r].held <=> active = r) /\ row'[r] # NoRow
      /\ \A q \in Ids \ {r} : row'[q] = row[q]
  BY <1>1, SavedAgain DEF SampleEnds
<1>3. TypeOK'
  BY <1>1, <1>2 DEF TypeOK, counters, SampleEnds
<1>4. Elsewhere(r)
  BY <1>2 DEF Elsewhere, counters, SampleEnds
<1>5. Here(r)
  BY <1>1, <1>2 DEF IInv, Here, LibraryInv, SampleEnds
<1>6. TheSlot(r)
  BY <1>2 DEF IInv, TheSlot, LibraryInv, SlotInv, AtWork, SampleEnds
<1>7. QED
  BY <1>3, <1>4, <1>5, <1>6, AtOneRecord

-----------------------------------------------------------------------------
(* Steps of the whole service *)

LEMMA InitIInv == Init => IInv
<1> SUFFICES ASSUME Init PROVE IInv
  OBVIOUS
<1>1. TypeOK
  <2>1. NoRow \in Rows
    BY DEF NoRow, Rows, Statuses
  <2>2. status \in [Ids -> Statuses] /\ row \in [Ids -> Rows]
    BY <2>1 DEF Init, Statuses
  <2>3. /\ upload \in [Ids -> {"none", "waiting", "writing", "ending"}]
        /\ deletion \in [Ids -> {"none", "stopping", "waiting", "removing"}]
        /\ sample \in [Ids -> {"none", "reading", "converting"}]
    BY DEF Init
  <2>4. /\ used \in 0 .. MaxRecords /\ active \in 0 .. MaxRecords /\ starts \in 1 .. MaxStarts
        /\ renders \in 0 .. MaxRenders /\ samples \in 0 .. MaxSamples /\ faults \in 0 .. MaxFaults
    BY DEF Init
  <2>5. /\ records \subseteq Ids /\ producers \subseteq Ids
        /\ transcribing \in BOOLEAN /\ returned \in BOOLEAN
    BY DEF Init
  <2>6. task \in [Ids -> {"none"}]
    BY DEF Init
  <2>7. QED
    BY <2>2, <2>3, <2>4, <2>5, <2>6 DEF TypeOK
<1>2. FreshInv
  BY DEF Init, FreshInv, Ids
<1>3. LibraryInv /\ SlotInv
  BY DEF Init, LibraryInv, SlotInv
<1>4. QED
  BY <1>1, <1>2, <1>3 DEF IInv

\* The record is new, and nobody has the slot.
LEMMA ReserveStep ==
  ASSUME IInv, Reserve
  PROVE  IInv'
<1> PICK r \in Nat : r = used + 1
  BY DEF IInv, TypeOK
<1>0. /\ TypeOK /\ used \in Nat /\ r \in Ids /\ r > used /\ active = 0 /\ ~transcribing
      /\ used' = r /\ records' = records \cup {r} /\ active' = r
  BY DEF IInv, TypeOK, Reserve, Available, Ids
<1>1. /\ r \notin records /\ row[r] = NoRow /\ upload[r] = "none" /\ task[r] = "none"
      /\ deletion[r] = "none"
  BY <1>0 DEF IInv, FreshInv
<1>2. PICK s \in {"awaiting_upload", "preparing"} :
        /\ status' = [status EXCEPT ![r] = s]
        /\ row' = [row EXCEPT ![r] = [status |-> s, held |-> FALSE]]
        /\ task' = [task EXCEPT ![r] = IF s = "preparing" THEN "toPrepare" ELSE "none"]
  BY DEF Reserve
<1>3. /\ s \in Statuses /\ [status |-> s, held |-> FALSE] \in Rows
      /\ [status |-> s, held |-> FALSE] # NoRow
  BY <1>2 DEF Statuses, Started, Rows, NoRow
<1>4. /\ status' \in [Ids -> Statuses] /\ row' \in [Ids -> Rows]
      /\ status'[r] = s /\ row'[r].status = s /\ row'[r] # NoRow
      /\ task'[r] = IF s = "preparing" THEN "toPrepare" ELSE "none"
      /\ \A q \in Ids \ {r} : status'[q] = status[q] /\ row'[q] = row[q] /\ task'[q] = task[q]
  BY <1>0, <1>2, <1>3 DEF TypeOK
<1>5. UNCHANGED <<upload, producers, deletion, sample, transcribing, counters>>
  BY DEF Reserve
<1>6. TypeOK'
  BY <1>0, <1>2, <1>4, <1>5 DEF TypeOK, counters, Ids
<1>7. FreshInv'
  BY <1>0, <1>2, <1>4, <1>5 DEF IInv, FreshInv, Ids
<1>8. LibraryInv'
  BY <1>0, <1>1, <1>2, <1>4, <1>5 DEF IInv, TypeOK, LibraryInv
<1>9. SlotInv'
  <2>1. CameBack => CameBack'
    BY <1>0, <1>1, <1>4 DEF CameBack
  <2>2. \A q \in records : q \in Ids \ {r} /\ q # 0
    BY <1>0, <1>1 DEF TypeOK, Ids
  <2>3. \A q \in records : (AtWork(q)' <=> AtWork(q)) /\ (Cleanup(q)' <=> Cleanup(q))
    BY <1>4, <1>5, <2>2 DEF AtWork, Cleanup
  <2>4. ~Cleanup(r)'
    BY <1>2, <1>4 DEF Cleanup
  <2>5. QED
    BY <1>0, <1>4, <1>5, <2>1, <2>2, <2>3, <2>4 DEF IInv, SlotInv, counters
<1>10. QED
  BY <1>6, <1>7, <1>8, <1>9 DEF IInv

\* The service starts again with the rows it finds.
LEMMA RestartStep ==
  ASSUME IInv, Restart
  PROVE  IInv'
<1> DEFINE kept == {r \in Ids : row[r].status # "none"}
           shows == [r \in Ids |-> IF r \in kept THEN Interrupted(row[r].status) ELSE status[r]]
           holders == {r \in kept : row[r].held /\ shows[r] = "delete_failed"}
           new(r) == [status |-> shows[r], held |-> r \in holders]
           resaved(r) == r \in kept /\ (row[r].status # shows[r] \/ shows[r] = "delete_failed")
<1>0. /\ TypeOK /\ records' = kept /\ status' = shows /\ used' = used
      /\ (IF holders = {} THEN active' = 0 ELSE active' \in holders)
      /\ row' = [r \in Ids |-> IF resaved(r) THEN new(r) ELSE row[r]]
      /\ upload' = [r \in Ids |-> "none"] /\ task' = [r \in Ids |-> "none"]
      /\ producers' = {} /\ deletion' = [r \in Ids |-> "none"]
      /\ sample' = [r \in Ids |-> "none"]
      /\ transcribing' = FALSE /\ returned' = (returned \/ CameBack)
      /\ renders' = renders /\ samples' = samples /\ faults' = faults
      /\ starts' \in 1 .. MaxStarts
  <2>1. TypeOK /\ starts' \in 1 .. MaxStarts
    BY DEF IInv, TypeOK, Restart
  <2>2. QED
    BY <2>1, Zenon DEF Restart
<1>1. \A x \in Statuses \ {"none"} :
        /\ Interrupted(x) \in Statuses \ {"none"} /\ Interrupted(x) \notin Started
        /\ Interrupted(x) = "delete_failed" <=> x \in {"deleting", "delete_failed"}
        /\ Interrupted(x) # "deleting"
  BY DEF Interrupted, Statuses, Started, Viewable
<1>2. \A r \in Ids : row[r].status \in Statuses /\ (row[r].held \in BOOLEAN)
  BY <1>0 DEF TypeOK, Rows
<1>3. \A r \in kept : /\ r \in Ids /\ shows[r] = Interrupted(row[r].status)
                      /\ shows[r] \in Statuses \ {"none"} /\ shows[r] \notin Started
                      /\ shows[r] # "deleting"
                      /\ shows[r] = "delete_failed" <=> row[r].status \in {"deleting", "delete_failed"}
  BY <1>1, <1>2
<1>4. shows \in [Ids -> Statuses]
  BY <1>0, <1>3 DEF TypeOK
<1>5. \A r \in Ids : new(r) \in Rows /\ new(r).status = shows[r] /\ (new(r).held <=> r \in holders)
  <2>1. \A r \in Ids : shows[r] \in Statuses /\ (r \in holders) \in BOOLEAN
    BY <1>4
  <2> HIDE DEF kept, shows, holders
  <2>2. QED
    BY <2>1 DEF Rows
<1>6. \A r \in Ids \ kept : row[r].status = "none" /\ ~resaved(r) /\ shows[r] = status[r]
  OBVIOUS
<1>7. holders \subseteq kept /\ \A r \in holders : resaved(r) /\ row[r].held
        /\ row[r].status \in {"deleting", "delete_failed"}
  BY <1>3
<1>8. \A r \in kept : shows[r] = "delete_failed" => resaved(r)
  OBVIOUS
<1>9. \A r \in kept : ~resaved(r) => row[r].status = shows[r]
  OBVIOUS
<1> HIDE DEF kept, shows, holders, new, resaved
<1>10. row' \in [Ids -> Rows]
       /\ \A r \in Ids : row'[r] = IF resaved(r) THEN new(r) ELSE row[r]
  BY <1>0, <1>5 DEF TypeOK
<1>11. kept \subseteq Ids /\ (active' # 0 => active' \in holders)
  BY <1>0, <1>3
<1>12. TypeOK'
  <2>1. active' \in 0 .. MaxRecords
    <3>1. active' \in Ids \/ active' = 0
      BY <1>7, <1>11
    <3>2. QED
      BY <3>1 DEF Ids
  <2>2. returned' \in BOOLEAN
    BY <1>0
  <2>3. QED
    BY <1>0, <1>4, <1>10, <1>11, <2>1, <2>2 DEF TypeOK
<1>13. FreshInv'
  <2>1. ASSUME NEW r \in Ids, r > used
        PROVE  r \notin kept /\ row'[r] = NoRow
    <3>1. row[r] = NoRow
      BY <2>1 DEF IInv, FreshInv
    <3>2. r \notin kept
      BY <3>1 DEF kept, NoRow
    <3>3. QED
      BY <1>6, <1>10, <3>1, <3>2
  <2>2. ASSUME NEW r \in Ids, r <= used
        PROVE  shows[r] # "none"
    BY <1>3, <1>6, <2>2 DEF IInv, FreshInv
  <2>3. QED
    BY <1>0, <2>1, <2>2 DEF FreshInv
<1>14. LibraryInv'
  <2>1. \A r \in kept : row'[r].status = shows[r]
    BY <1>5, <1>9, <1>10, <1>11
  <2>2. QED
    BY <1>0, <1>3, <1>7, <1>11, <2>1 DEF LibraryInv, Started
<1>15. SlotInv'
  <2>1. \A r \in kept : ~AtWork(r)'
    BY <1>0, <1>3 DEF AtWork
  <2>2. \A r \in kept : Cleanup(r)' => resaved(r) /\ (row'[r].held <=> r \in holders)
    BY <1>0, <1>3, <1>5, <1>8, <1>10 DEF Cleanup
  <2>3. 0 \notin kept
    BY <1>11 DEF Ids
  <2>4. ASSUME ~returned, ~CameBack, NEW r \in holders
        PROVE  r = active
    <3>1. r \in Ids /\ row[r] # NoRow
      BY <1>3, <1>7, <2>4 DEF NoRow
    <3>2. r \in records
      BY <2>4, <3>1 DEF CameBack
    <3>3. Cleanup(r) /\ row[r].held
      BY <1>7, <2>4, <3>2 DEF IInv, LibraryInv, Cleanup
    <3>4. QED
      BY <2>4, <3>2, <3>3 DEF IInv, SlotInv
  <2>5. \A r \in kept : ~returned' /\ r \in holders => active' = r
    BY <1>0, <2>4
  <2>6. QED
    BY <1>0, <1>11, <2>1, <2>2, <2>3, <2>5 DEF SlotInv
<1>16. QED
  BY <1>12, <1>13, <1>14, <1>15 DEF IInv

LEMMA OutsideStep ==
  ASSUME IInv, TranscriptionStarts \/ TranscriptionEnds \/ UNCHANGED vars
  PROVE  IInv'
<1>1. /\ UNCHANGED <<records, used, status, row, active, coroutines, counters>>
      /\ transcribing' \in BOOLEAN /\ (active # 0 => ~transcribing')
  <2>1. transcribing \in BOOLEAN /\ (active # 0 => ~transcribing)
    BY DEF IInv, TypeOK, LibraryInv
  <2>2. CASE TranscriptionStarts
    BY <2>1, <2>2 DEF TranscriptionStarts, Available
  <2>3. CASE TranscriptionEnds
    BY <2>1, <2>3 DEF TranscriptionEnds
  <2>4. CASE UNCHANGED vars
    BY <2>1, <2>4 DEF vars
  <2>5. QED
    BY <2>2, <2>3, <2>4
<1>2. TypeOK' /\ FreshInv'
  BY <1>1 DEF IInv, TypeOK, FreshInv, coroutines, counters
<1>3. LibraryInv'
  BY <1>1 DEF IInv, LibraryInv, coroutines
<1>4. SlotInv'
  BY <1>1 DEF IInv, SlotInv, AtWork, Cleanup, CameBack, coroutines, counters
<1>5. QED
  BY <1>2, <1>3, <1>4 DEF IInv

LEMMA NextIInv ==
  ASSUME IInv, [Next]_vars
  PROVE  IInv'
<1>1. ASSUME NEW r \in Ids, Uploading(r)
      PROVE  IInv'
  BY <1>1, UploadProceedsStep, UploadEndsStep DEF Uploading
<1>2. ASSUME NEW r \in Ids, TaskSteps(r)
      PROVE  IInv'
  BY <1>2, TaskSavesStep, TaskProceedsStep, TaskFailsStep, PreparedStep, RenderCompletesStep
     DEF TaskSteps
<1>3. ASSUME NEW r \in Ids, Rendering(r)
      PROVE  IInv'
  BY <1>2, <1>3, ProducerSavesStep, ProducersEndStep, SynthesizeStep DEF Rendering
<1>4. ASSUME NEW r \in Ids, Deleting(r)
      PROVE  IInv'
  BY <1>4, DeleteBeginsStep, DeleteProceedsStep, DeleteCompletesStep, DeleteFailsStep
     DEF Deleting, DeleteSteps
<1>5. ASSUME NEW r \in Ids, Sampling(r)
      PROVE  IInv'
  BY <1>5, SampleProceedsStep, SampleEndsStep DEF Sampling
<1>6. QED
  BY <1>1, <1>3, <1>4, <1>5, ReserveStep, RestartStep, OutsideStep DEF Next

-----------------------------------------------------------------------------
(* Theorems *)

\* Library, rows, coroutines and the slot fit each other at any time.
THEOREM Invariance == Spec => []IInv
<1>1. Init => IInv
  BY InitIInv
<1>2. IInv /\ [Next]_vars => IInv'
  BY NextIInv
<1>3. QED
  BY <1>1, <1>2, PTL DEF Spec

\* A record under way has the slot, and there is no transcription beside it, as
\* long as no deleted record has come back.
THEOREM SlotHeld == Spec => []SlotIsHeld
<1>1. IInv => SlotIsHeld
  BY DEF IInv, TypeOK, LibraryInv, SlotInv, AtWork, SlotIsHeld, Ids
<1>2. QED
  BY <1>1, Invariance, PTL

\* A record in the library has a row that shows what it shows.
THEOREM RowsShow == Spec => []RowShows
<1>1. IInv => RowShows
  BY DEF IInv, LibraryInv, RowShows
<1>2. QED
  BY <1>1, Invariance, PTL

\* Only a restart counts the starts.
LEMMA StartsKept ==
  ASSUME [Next]_vars, starts' # starts
  PROVE  Restart
BY DEF Next, Reserve, Uploading, UploadBegins, UploadReads, UploadResumes, UploadFails,
   UploadLeaves, Rendering, TaskSteps, ProducerSaves, ProducersEnd, Synthesize, Deleting,
   DeleteBegins, DeleteSteps, DeleteWaits, DeleteRemoves, DeleteCompletes, DeleteFails, Sampling,
   SampleBegins, SampleReads, SampleEnds, SampleFails, TranscriptionStarts, TranscriptionEnds,
   counters, vars

\* The one cleanup whose row says that it has the slot gets it back.
LEMMA RestartKeepsSlot ==
  ASSUME IInv, Restart, ~returned', NEW r \in Ids, Cleanup(r), active = r
  PROVE  active' = r /\ status'[r] = "delete_failed"
<1> DEFINE kept == {q \in Ids : row[q].status # "none"}
           shows == [q \in Ids |-> IF q \in kept THEN Interrupted(row[q].status) ELSE status[q]]
           holders == {q \in kept : row[q].held /\ shows[q] = "delete_failed"}
<1>1. /\ status' = shows /\ (IF holders = {} THEN active' = 0 ELSE active' \in holders)
      /\ ~returned /\ ~CameBack
  BY DEF Restart
<1>2. r \in records /\ row[r].held /\ row[r].status = status[r]
  BY DEF IInv, LibraryInv, SlotInv, Ids
<1>3. r \in kept /\ shows[r] = "delete_failed"
  BY <1>2 DEF Cleanup, Interrupted, Viewable
<1>4. ASSUME NEW q \in holders
      PROVE  q = active
  <2>1. q \in Ids /\ row[q].held /\ row[q].status # "none"
        /\ Interrupted(row[q].status) = "delete_failed"
    OBVIOUS
  <2>2. q \in records
    BY <1>1, <2>1 DEF CameBack, NoRow
  <2>3. row[q].status = status[q] /\ status[q] \in Statuses
    BY <2>1, <2>2 DEF IInv, TypeOK, LibraryInv
  <2>4. Cleanup(q)
    BY <2>1, <2>3 DEF Cleanup, Interrupted, Statuses, Started, Viewable
  <2>5. QED
    BY <1>1, <2>1, <2>2, <2>4 DEF IInv, SlotInv
<1>5. r \in holders
  BY <1>2, <1>3
<1>6. QED
  BY <1>1, <1>3, <1>4, <1>5

\* A restart loses nothing that the library shows, and leaves the slot to the
\* cleanup that has it.
THEOREM RestartsKeep == Spec => RestartKeeps
<1> DEFINE Kept == \A r \in Ids :
             /\ status[r] \in {"deleting", "delete_failed"} /\ active = r
             /\ starts' # starts /\ ~returned'
             => active' = r /\ status'[r] = "delete_failed"
<1>1. IInv /\ [Next]_vars => Kept
  BY StartsKept, RestartKeepsSlot DEF Cleanup
<1>2. Spec => [][Kept]_vars
  BY <1>1, Invariance, PTL DEF Spec
<1>3. QED
  BY <1>2, RowsShow, PTL DEF RestartKeeps, CleanupKeepsSlot
=============================================================================
