------------------------ MODULE TranscriptionProofs ------------------------
(***************************************************************************)
(* Theorems about Transcription.tla, for any number of operations: what is *)
(* left of one operation never touches the next, a result is saved by one  *)
(* coroutine at a time, and an accepted cancellation is final.             *)
(*                                                                         *)
(* Every step lemma is about one action, the code of one coroutine between *)
(* two awaits, and keeps the four parts of the inductive invariant: the    *)
(* types, whose work is left, who is at work, and what the status says of  *)
(* them.                                                                   *)
(***************************************************************************)
EXTENDS Transcription, TLAPS

USE OperationsAssumption

-----------------------------------------------------------------------------
(* What the tasks are made of *)

LEMMA NewMainFacts ==
  ASSUME NEW o \in 0..MaxOperations
  PROVE  /\ Run(o) \in Mains /\ Run(o).pc = "created" /\ Run(o).op = o
         /\ FinishFailed(o) \in Mains /\ FinishFailed(o).pc = "finishing"
         /\ FinishFailed(o).op = o
         /\ NoMain \in Mains /\ NoMain.pc = "none"
<1>1. NoMain \in Mains /\ NoMain.pc = "none"
  BY DEF NoMain, Mains
<1>2. \A pc \in {"created", "finishing"}, r \in {"completed", "failed"} :
        [NoMain EXCEPT !.pc = pc, !.op = o, !.outcome = r] \in Mains
  BY <1>1 DEF Mains
<1>3. Run(o) \in Mains /\ Run(o).pc = "created" /\ Run(o).op = o
  BY <1>1 DEF Run, NoMain, Mains
<1>4. FinishFailed(o) \in Mains /\ FinishFailed(o).pc = "finishing" /\ FinishFailed(o).op = o
  BY <1>1, <1>2 DEF FinishFailed, NoMain
<1>5. QED
  BY <1>1, <1>3, <1>4

\* finish() hands the outcome to a finalizer of its own and waits.
LEMMA FinishFacts ==
  ASSUME TypeOK, NEW outcome \in {"completed", "failed"}, Finish(outcome)
  PROVE  /\ main' \in Mains /\ main'.pc = "saving" /\ main'.op = main.op
         /\ main'.cancelled = main.cancelled
         /\ finalizer' \in [Callers -> Finalizers]
         /\ finalizer'["main"] = [pc |-> "created", op |-> main.op, status |-> outcome]
         /\ finalizer'["canceller"] = finalizer["canceller"]
<1>1. main.op \in 0..MaxOperations
  BY DEF TypeOK, Mains
<1>2. main' = [main EXCEPT !.pc = "saving", !.outcome = outcome, !.pending = {}]
  BY DEF Finish
<1>3. finalizer' = [finalizer EXCEPT !["main"] =
                       [pc |-> "created", op |-> main.op, status |-> outcome]]
  BY DEF Finish, Finalize
<1>4. [pc |-> "created", op |-> main.op, status |-> outcome] \in Finalizers
  BY <1>1 DEF Finalizers, TERMINAL
<1>5. QED
  BY <1>2, <1>3, <1>4 DEF TypeOK, Mains, Callers

\* A cancellation ends jobs and starts none.
LEMMA CancelJobsFacts ==
  ASSUME TypeOK, NEW R \in SUBSET Roles, CancelJobs(R)
  PROVE  /\ job' \in [Roles -> JobStates]
         /\ orphans' \in SUBSET Roles
         /\ \A r \in Roles : Live(r)' => Live(r)
<1> DEFINE stopped(r) == [pc |-> IF job[r].pc = "running" THEN "reaping" ELSE "ended",
                         result |-> "cancelled"]
<1>1. \A r \in Roles : stopped(r) \in JobStates
  BY DEF JobStates
<1>2. job' = [r \in Roles |-> IF r \notin R \/ ~Live(r) THEN job[r] ELSE stopped(r)]
  BY DEF CancelJobs
<1> HIDE DEF stopped
<1>3. job' \in [Roles -> JobStates]
  BY <1>1, <1>2 DEF TypeOK
<1>4. \A r \in Roles : Live(r)' => Live(r)
  BY <1>2 DEF Live
<1>5. QED
  BY <1>3, <1>4 DEF CancelJobs, TypeOK

\* Somebody is at work, so that there is an operation and it is the current one.
LEMMA AtWork ==
  ASSUME IInv
  PROVE  /\ main.pc # "none" => current \in Operations /\ main.op = current
         /\ upload.pc # "none" => current \in Operations /\ upload.op = current
         /\ canceller.pc # "none" => current \in Operations /\ canceller.op = current
         /\ \A p \in Callers : Saving(p) => current \in Operations /\ finalizer[p].op = current
         /\ timer => current \in Operations
<1>1. current \in Nat /\ (current # 0 => current \in Operations)
  BY DEF IInv, TypeOK, Operations
<1>2. QED
  BY <1>1 DEF IInv, NothingOfAnOlderOperation, StageInv, StatusInv, Saving, Callers

LEMMA InitIInv == Init => IInv
<1> SUFFICES ASSUME Init PROVE IInv
  OBVIOUS
<1>1. TypeOK
  <2>1. main \in Mains
    BY NewMainFacts DEF Init
  <2>2. upload \in Uploads /\ canceller \in Cancellers
    BY DEF Init, NoUpload, NoCanceller, Uploads, Cancellers
  <2>3. job \in [Roles -> JobStates] /\ finalizer \in [Callers -> Finalizers]
    BY DEF Init, NoJob, NoFinalizer, JobStates, Finalizers
  <2>4. saved \in [Operations -> [Files -> TERMINAL \cup {"none"}]]
    BY DEF Init
  <2>5. status \in [Operations -> Statuses] /\ directory \in [Operations -> BOOLEAN]
    BY DEF Init, Statuses
  <2>6. current \in 0..MaxOperations /\ making \in 0..MaxOperations /\ orphans \in SUBSET Roles
    BY DEF Init
  <2>7. /\ timer \in BOOLEAN /\ kind \in [Operations -> {"file", "youtube"}]
        /\ cleanup_failed \in BOOLEAN /\ serving \in BOOLEAN
    BY DEF Init
  <2>8. QED
    BY <2>1, <2>2, <2>3, <2>4, <2>5, <2>6, <2>7 DEF TypeOK
<1>2. NothingOfAnOlderOperation /\ StageInv
  BY DEF Init, NothingOfAnOlderOperation, StageInv, Live, Saving, NoMain, NoUpload, NoJob,
     NoCanceller, NoFinalizer, Callers
<1>3. StatusInv
  BY DEF Init, StatusInv, Saving, NoMain, NoUpload, NoCanceller, NoFinalizer, Callers
<1>4. QED
  BY <1>1, <1>2, <1>3 DEF IInv


LEMMA ReserveStep ==
  ASSUME IInv, Reserve
  PROVE  IInv'
<1> DEFINE o == current + 1
<1>0. o \in Operations /\ current \in Nat
  BY DEF IInv, TypeOK, Reserve, Operations
<1>1. TypeOK'
  <2>1. main' \in Mains
    BY <1>0, NewMainFacts DEF Reserve, Operations
  <2>2. status' \in [Operations -> Statuses]
    BY DEF IInv, TypeOK, Reserve, Statuses
  <2>3. current' \in 0..MaxOperations /\ timer' \in BOOLEAN
    BY <1>0 DEF Reserve, Operations
  <2>4. upload' \in Uploads /\ job' \in [Roles -> JobStates]
        /\ finalizer' \in [Callers -> Finalizers]
    BY DEF Reserve, NoUpload, NoJob, NoFinalizer, Uploads, JobStates, Finalizers
  <2>5. QED
    BY <2>1, <2>2, <2>3, <2>4 DEF IInv, TypeOK, Reserve
<1>2. main'.pc # "none" => main'.op = current' /\ main'.pc = "created"
  BY <1>0, NewMainFacts DEF Reserve, Operations
<1>3. upload'.pc = "none" /\ (\A p \in Callers : finalizer'[p].pc = "none")
  BY DEF Reserve, NoUpload, NoFinalizer
<1>4. \A r \in Roles : ~Live(r)'
  BY DEF Reserve, NoJob, Live
<1>5. canceller' = canceller /\ canceller.pc = "none" /\ canceller.op <= current
  BY DEF Reserve, MayReserve, TaskDone, IInv, StatusInv, NothingOfAnOlderOperation
<1>6. NothingOfAnOlderOperation' /\ StageInv'
  BY <1>2, <1>3, <1>4, <1>5 DEF NothingOfAnOlderOperation, StageInv, Live, Saving, Callers
<1>7. StatusInv'
  <2>1. canceller.op \in Nat /\ current' = current + 1 /\ canceller'.op # current'
    BY <1>0, <1>5 DEF IInv, TypeOK, Cancellers, Reserve
  <2>2. \A x \in Operations : x > current' => status'[x] = "none"
    BY <1>0 DEF Reserve, IInv, StatusInv, TypeOK, Operations
  <2>3. status'[current'] = IF kind[o] = "file" THEN "awaiting_upload" ELSE "running"
    BY <1>0 DEF Reserve, IInv, TypeOK
  <2>4. main'.pc # "none" => kind[o] # "file"
    BY NewMainFacts DEF Reserve
  <2>5. QED
    BY <1>0, <1>2, <1>3, <1>5, <2>1, <2>2, <2>3, <2>4 DEF StatusInv, Saving, Callers
<1>8. QED
  BY <1>1, <1>6, <1>7 DEF IInv

LEMMA ExpireStep ==
  ASSUME IInv, Expire
  PROVE  IInv'
<1>0. TypeOK /\ current \in Operations /\ timer' = FALSE
  BY AtWork DEF IInv, Expire
<1>1. CASE status[current] = "awaiting_upload" /\ upload.pc = "none"
  <2>1. /\ main' = FinishFailed(current)
        /\ status' = [status EXCEPT ![current] = "running"]
    BY <1>1 DEF Expire
  <2>2. main' \in Mains /\ main'.pc = "finishing" /\ main'.op = current
    BY <1>0, <2>1, NewMainFacts DEF Operations
  <2>3. status' \in [Operations -> Statuses] /\ status'[current] = "running"
        /\ (\A o \in Operations \ {current} : status'[o] = status[o])
    BY <1>0, <2>1 DEF TypeOK, Statuses
  <2>4. main.pc = "none" /\ canceller.pc = "none" /\ canceller.op # current
    BY <1>0, <1>1 DEF IInv, NothingOfAnOlderOperation, StatusInv, Operations
  <2>5. TypeOK'
    BY <1>0, <2>2, <2>3 DEF TypeOK, Expire
  <2>6. (\A r \in Roles : ~Live(r)) /\ (\A p \in Callers : ~Saving(p))
    BY <2>4 DEF IInv, NothingOfAnOlderOperation, StageInv, Callers
  <2>7. (\A r \in Roles : ~Live(r)') /\ (\A p \in Callers : ~Saving(p)')
    BY <2>6 DEF Expire, Live, Saving
  <2>8. NothingOfAnOlderOperation'
    BY <1>0, <1>1, <2>2, <2>4, <2>7 DEF IInv, NothingOfAnOlderOperation, Expire
  <2>9. StageInv'
    BY <1>1, <2>2, <2>4, <2>7 DEF StageInv, Expire, Callers
  <2>10. StatusInv'
    BY <1>0, <1>1, <2>2, <2>3, <2>4, <2>7 DEF IInv, StatusInv, Expire, Callers, Operations
  <2>11. QED
    BY <2>5, <2>8, <2>9, <2>10 DEF IInv
<1>2. CASE ~(status[current] = "awaiting_upload" /\ upload.pc = "none")
  BY <1>0, <1>2 DEF IInv, TypeOK, NothingOfAnOlderOperation, StageInv, StatusInv, Live, Saving,
     Expire
<1>3. QED
  BY <1>1, <1>2

LEMMA CancellingStep ==
  ASSUME IInv, ~Settled, status[current] # "cancelling", Cancelling, serving' \in BOOLEAN,
         UNCHANGED <<current, kind, upload, main, job, finalizer, making, directory, saved,
                     orphans, cleanup_failed>>
  PROVE  IInv'
<1>0. /\ TypeOK /\ current \in Operations
      /\ status[current] \in Statuses \ (TERMINAL \cup {"cancelling"})
  BY DEF IInv, TypeOK, Settled, Operations
<1>1. /\ canceller' = [pc |-> "created", op |-> current, previous |-> main.pc # "none"]
      /\ timer' = FALSE /\ status' = [status EXCEPT ![current] = "cancelling"]
  BY DEF Cancelling
<1>2. canceller'.pc = "created" /\ canceller'.op = current
      /\ canceller'.previous = (main.pc # "none")
  BY <1>1
<1>3. canceller' \in Cancellers
  BY <1>0, <1>1 DEF Cancellers, Operations
<1>4. status' \in [Operations -> Statuses] /\ status'[current] = "cancelling"
      /\ (\A o \in Operations \ {current} : status'[o] = status[o])
  BY <1>0, <1>1 DEF TypeOK, Statuses
<1>5. TypeOK'
  BY <1>0, <1>1, <1>3, <1>4 DEF TypeOK
<1>6. canceller.pc = "none"
  BY <1>0 DEF IInv, StatusInv
<1>7. (\A r \in Roles : Live(r)' <=> Live(r)) /\ (\A p \in Callers : Saving(p)' <=> Saving(p))
  BY DEF Live, Saving
<1>8. NothingOfAnOlderOperation'
  BY <1>2, <1>7 DEF IInv, NothingOfAnOlderOperation
<1>9. StageInv'
  BY <1>2, <1>6, <1>7 DEF IInv, StageInv, Callers
<1>10. StatusInv'
  <2>1. current \in Nat
    BY <1>0 DEF Operations
  <2>2. main.pc # "none" => status[current] \in {"running", "cancelling"}
    BY <1>0 DEF IInv, StatusInv
  <2>3. ~Saving("canceller")
    BY <1>6 DEF IInv, StageInv
  <2>4. QED
    BY <1>0, <1>1, <1>2, <1>4, <1>6, <1>7, <2>1, <2>2, <2>3
    DEF IInv, StatusInv, Callers, Operations
<1>11. QED
  BY <1>5, <1>8, <1>9, <1>10 DEF IInv

LEMMA CloseStep ==
  ASSUME IInv, Close
  PROVE  IInv'
<1>1. CASE Settled \/ status[current] = "cancelling"
  BY <1>1 DEF IInv, TypeOK, NothingOfAnOlderOperation, StageInv, StatusInv, Live, Saving, Close
<1>2. CASE ~Settled /\ status[current] # "cancelling"
  BY <1>2, CancellingStep DEF Close
<1>3. QED
  BY <1>1, <1>2


LEMMA CancelStep ==
  ASSUME IInv, Cancel
  PROVE  IInv'
BY CancellingStep DEF Cancel, IInv, TypeOK

LEMMA UploadBeginsStep ==
  ASSUME IInv, UploadBegins
  PROVE  IInv'
<1>1. TypeOK'
  BY DEF IInv, TypeOK, UploadBegins, Uploads
<1>2. NothingOfAnOlderOperation'
  BY DEF IInv, NothingOfAnOlderOperation, Live, UploadBegins
<1>3. StageInv'
  BY DEF IInv, NothingOfAnOlderOperation, StageInv, StatusInv, Live, Saving, UploadBegins
<1>4. StatusInv'
  BY DEF IInv, StatusInv, Saving, UploadBegins
<1>5. QED
  BY <1>1, <1>2, <1>3, <1>4 DEF IInv

LEMMA UploadOpensStep ==
  ASSUME IInv, UploadOpens
  PROVE  IInv'
<1>1. TypeOK'
  BY DEF IInv, TypeOK, UploadOpens, Uploads
<1>2. NothingOfAnOlderOperation'
  BY DEF IInv, NothingOfAnOlderOperation, Live, UploadOpens
<1>3. StageInv'
  BY DEF IInv, StageInv, Live, Saving, UploadOpens
<1>4. StatusInv'
  BY DEF IInv, StatusInv, Saving, UploadOpens
<1>5. QED
  BY <1>1, <1>2, <1>3, <1>4 DEF IInv

LEMMA UploadEndsStep ==
  ASSUME IInv, NEW ok \in BOOLEAN, UploadEnds(ok)
  PROVE  IInv'
<1>0. /\ TypeOK /\ current \in Operations /\ upload.op = current /\ upload.pc # "none"
      /\ main.pc = "none" /\ upload' = NoUpload
  BY AtWork DEF IInv, UploadEnds, StageInv
<1>1. upload' \in Uploads /\ upload'.pc = "none"
  BY <1>0 DEF NoUpload, Uploads
<1>2. (\A r \in Roles : ~Live(r)) /\ (\A p \in Callers : ~Saving(p))
  BY <1>0 DEF IInv, NothingOfAnOlderOperation, StageInv, Callers
<1>3. (\A r \in Roles : ~Live(r)') /\ (\A p \in Callers : ~Saving(p)')
  BY <1>2 DEF UploadEnds, Live, Saving
<1>4. CASE status[current] = "cancelling"
  <2>1. UNCHANGED <<main, status, canceller, current, finalizer, timer>>
    BY <1>0, <1>4 DEF UploadEnds
  <2>2. TypeOK'
    BY <1>0, <1>1, <2>1 DEF TypeOK, UploadEnds
  <2>3. NothingOfAnOlderOperation' /\ StageInv'
    BY <1>0, <1>1, <1>3, <2>1 DEF IInv, NothingOfAnOlderOperation, StageInv, Callers
  <2>4. StatusInv'
    BY <1>0, <1>1, <1>2, <1>3, <1>4, <2>1 DEF IInv, StatusInv, Callers
  <2>5. QED
    BY <2>2, <2>3, <2>4 DEF IInv
<1>5. CASE status[current] # "cancelling"
  <2>1. /\ status' = [status EXCEPT ![current] = "running"]
        /\ main' = IF ok THEN Run(current) ELSE FinishFailed(current)
        /\ UNCHANGED <<canceller, current, finalizer, timer>>
    BY <1>0, <1>5 DEF UploadEnds
  <2>2. main' \in Mains /\ main'.pc \in {"created", "finishing"} /\ main'.op = current
    BY <1>0, <2>1, NewMainFacts DEF Operations
  <2>3. status' \in [Operations -> Statuses] /\ status'[current] = "running"
        /\ (\A o \in Operations \ {current} : status'[o] = status[o])
    BY <1>0, <2>1 DEF TypeOK, Statuses
  <2>4. status[current] = "awaiting_upload"
    BY <1>0, <1>5 DEF IInv, StatusInv
  <2>5. canceller.pc = "none" /\ canceller.op # current
    BY <1>0, <2>4 DEF IInv, NothingOfAnOlderOperation, StatusInv, Operations
  <2>6. TypeOK'
    BY <1>0, <1>1, <2>2, <2>3 DEF TypeOK, UploadEnds
  <2>7. NothingOfAnOlderOperation' /\ StageInv'
    BY <1>0, <1>1, <1>3, <2>1, <2>2, <2>5
    DEF IInv, NothingOfAnOlderOperation, StageInv, Callers
  <2>8. StatusInv'
    BY <1>0, <1>1, <1>2, <1>3, <2>1, <2>2, <2>3, <2>5
    DEF IInv, StatusInv, Callers, Operations
  <2>9. QED
    BY <2>6, <2>7, <2>8 DEF IInv
<1>6. QED
  BY <1>4, <1>5

\* The main task hands over to its finalizer, when no job is left.
LEMMA FinishStep ==
  ASSUME IInv, NEW outcome \in {"completed", "failed"}, Finish(outcome),
         main.pc \notin {"none", "saving", "settling"}, \A r \in Roles : ~Live(r),
         making' \in 0..MaxOperations, directory' \in [Operations -> BOOLEAN],
         UNCHANGED <<current, kind, status, timer, upload, job, canceller, saved, orphans,
                     cleanup_failed, serving>>
  PROVE  IInv'
<1>0. TypeOK /\ current \in Operations /\ main.op = current /\ upload.pc = "none"
  BY AtWork DEF IInv, StageInv
<1>1. /\ main' \in Mains /\ main'.pc = "saving" /\ main'.op = current
      /\ finalizer' \in [Callers -> Finalizers]
      /\ finalizer'["main"].op = current /\ finalizer'["main"].status = outcome
      /\ finalizer'["canceller"] = finalizer["canceller"]
  BY <1>0, FinishFacts
<1>2. TypeOK'
  BY <1>0, <1>1 DEF TypeOK
<1>3. (\A r \in Roles : ~Live(r)') /\ (Saving("canceller")' <=> Saving("canceller"))
  BY <1>1 DEF Live, Saving
<1>4. NothingOfAnOlderOperation' /\ StageInv'
  BY <1>0, <1>1, <1>3 DEF IInv, NothingOfAnOlderOperation, StageInv, Callers, Saving
<1>5. StatusInv'
  <2>1. status[current] \in {"running", "cancelling"}
    BY <1>0 DEF IInv, StatusInv
  <2>2. main.pc # "none" /\ ~Saving("canceller")
    BY DEF IInv, StageInv
  <2>3. QED
    BY <1>0, <1>1, <1>3, <2>1, <2>2 DEF IInv, StatusInv, Operations, Callers
<1>6. QED
  BY <1>2, <1>4, <1>5 DEF IInv

\* The main task goes on with the jobs its stage allows.
LEMMA OnwardStep ==
  ASSUME IInv, main.pc \notin {"none", "saving", "settling"},
         main' \in Mains, main'.op = main.op, main'.pc \notin {"none", "saving", "settling"},
         job' \in [Roles -> JobStates], orphans' \in SUBSET Roles,
         \A r \in Roles : Live(r)' =>
           \/ main'.pc = "unwinding"
           \/ main'.pc = "preparing" /\ r = "preparation"
           \/ main'.pc \in {"working", "stopping"} /\ r \in main'.pending,
         making' \in 0..MaxOperations, directory' \in [Operations -> BOOLEAN],
         UNCHANGED <<current, kind, status, timer, upload, canceller, finalizer, saved,
                     cleanup_failed, serving>>
  PROVE  IInv'
<1>0. TypeOK /\ current \in Operations /\ main.op = current /\ upload.pc = "none"
  BY AtWork DEF IInv, StageInv
<1>1. TypeOK'
  BY <1>0 DEF TypeOK
<1>2. \A p \in Callers : Saving(p)' <=> Saving(p)
  BY DEF Saving
<1>3. NothingOfAnOlderOperation' /\ StageInv'
  BY <1>0, <1>2 DEF IInv, NothingOfAnOlderOperation, StageInv, Callers
<1>4. StatusInv'
  BY <1>0, <1>2 DEF IInv, StatusInv, Callers
<1>5. QED
  BY <1>1, <1>3, <1>4 DEF IInv

\* Only these stages have a job.
LEMMA Jobless ==
  ASSUME IInv, main.pc \notin {"preparing", "working", "stopping", "unwinding"}
  PROVE  \A r \in Roles : ~Live(r)
BY DEF IInv, StageInv

LEMMA MainStartsStep ==
  ASSUME IInv, MainStarts
  PROVE  IInv'
<1>0. TypeOK /\ main.pc = "created" /\ main.op \in 0..MaxOperations
      /\ \A r \in Roles : ~Live(r)
  BY Jobless DEF IInv, TypeOK, Mains, MainStarts, Awake
<1>1. main' \in Mains /\ main'.op = main.op /\ main'.pc = "making"
  BY <1>0 DEF TypeOK, Mains, MainStarts, Go
<1>2. \A r \in Roles : ~Live(r)'
  BY <1>0 DEF MainStarts, Live
<1>3. making' \in 0..MaxOperations
  BY <1>0 DEF MainStarts
<1>4. QED
  BY <1>0, <1>1, <1>2, <1>3, OnwardStep DEF TypeOK, MainStarts

LEMMA DirectoryMadeStep ==
  ASSUME IInv, NEW ok \in BOOLEAN, DirectoryMade(ok)
  PROVE  IInv'
<1>0. TypeOK /\ making' = 0 /\ making' \in 0..MaxOperations
  BY DEF IInv, DirectoryMade
<1>1. directory' \in [Operations -> BOOLEAN]
  BY <1>0 DEF TypeOK, DirectoryMade
<1>2. CASE ~(Awake("making") /\ main.op = making)
  BY <1>0, <1>1, <1>2 DEF IInv, TypeOK, NothingOfAnOlderOperation, StageInv, StatusInv, Live,
     Saving, DirectoryMade
<1>3. CASE Awake("making") /\ main.op = making /\ ok
  <2>1. main.pc = "making" /\ \A r \in Roles : ~Live(r)
    BY <1>3, Jobless DEF Awake
  <2>2. main' \in Mains /\ main'.op = main.op /\ main'.pc = "preparing"
    BY <1>0, <1>3 DEF TypeOK, Mains, DirectoryMade, Go
  <2>3. job' = [job EXCEPT !["preparation"].pc = "running"]
    BY <1>3 DEF DirectoryMade
  <2>4. job' \in [Roles -> JobStates]
    BY <1>0, <2>3 DEF TypeOK, JobStates
  <2>5. \A r \in Roles : Live(r)' => r = "preparation"
    BY <1>0, <2>1, <2>3 DEF TypeOK, Live
  <2>6. QED
    BY <1>0, <1>1, <1>3, <2>1, <2>2, <2>4, <2>5, OnwardStep DEF TypeOK, DirectoryMade
<1>4. CASE Awake("making") /\ main.op = making /\ ~ok
  <2>1. main.pc = "making" /\ \A r \in Roles : ~Live(r)
    BY <1>4, Jobless DEF Awake
  <2>2. QED
    BY <1>0, <1>1, <1>4, <2>1, FinishStep DEF DirectoryMade
<1>5. QED
  BY <1>2, <1>3, <1>4

LEMMA PreparedStep ==
  ASSUME IInv, Prepared
  PROVE  IInv'
<1>0. TypeOK /\ main.pc = "preparing" /\ job["preparation"].pc = "ended"
  BY DEF IInv, Prepared, Awake
<1>1. \A r \in Roles : ~Live(r)
  BY <1>0 DEF IInv, StageInv, Live
<1>2. CASE job["preparation"].result = "ok"
  <2>1. /\ main' = [main EXCEPT !.pc = "working", !.pending = Models]
        /\ job' = [r \in Roles |->
                     IF r \in Models THEN [NoJob EXCEPT !.pc = "running"] ELSE job[r]]
    BY <1>2 DEF Prepared
  <2>2. main' \in Mains /\ main'.op = main.op /\ main'.pc = "working" /\ main'.pending = Models
    BY <1>0, <2>1 DEF TypeOK, Mains
  <2>3. [NoJob EXCEPT !.pc = "running"] \in JobStates
    BY DEF NoJob, JobStates
  <2>4. job' \in [Roles -> JobStates]
    BY <1>0, <2>1, <2>3 DEF TypeOK
  <2>5. \A r \in Roles : Live(r)' => r \in Models
    BY <1>1, <2>1 DEF Live
  <2>6. QED
    BY <1>0, <1>2, <2>2, <2>4, <2>5, OnwardStep DEF TypeOK, Prepared
<1>3. CASE job["preparation"].result # "ok"
  BY <1>0, <1>1, <1>3, FinishStep DEF TypeOK, Prepared
<1>4. QED
  BY <1>2, <1>3

LEMMA CollectStep ==
  ASSUME IInv, Collect
  PROVE  IInv'
<1> DEFINE ended == {r \in main.pending : job[r].pc = "ended"}
           left == main.pending \ ended
           outcome == IF \E r \in ended : job[r].result # "ok" THEN "failed" ELSE main.outcome
           stop == "asr" \in ended /\ job["asr"].result # "ok"
<1>0. /\ TypeOK /\ main.pc = "working" /\ main.pending \in SUBSET Models
      /\ outcome \in {"completed", "failed"} /\ left \in SUBSET Roles
  BY DEF IInv, TypeOK, Mains, Collect, Awake, Models, Roles
<1>1. \A r \in Roles : Live(r) => r \in left
  BY <1>0 DEF IInv, StageInv, Live
<1>2. UNCHANGED <<current, kind, status, timer, upload, canceller, making, directory, saved,
                  cleanup_failed, serving>>
  BY DEF Collect
<1>3. CASE left = {}
  <2>1. Finish(outcome) /\ UNCHANGED <<job, orphans>>
    BY <1>3 DEF Collect
  <2> HIDE DEF outcome
  <2>2. QED
    BY <1>0, <1>1, <1>2, <1>3, <2>1, FinishStep DEF TypeOK
<1>4. CASE left # {}
  <2>1. /\ main' = [main EXCEPT !.pc = IF stop THEN "stopping" ELSE @,
                                !.outcome = outcome, !.pending = left]
        /\ finalizer' = finalizer
        /\ IF stop THEN CancelJobs(left) ELSE UNCHANGED <<job, orphans>>
    BY <1>4 DEF Collect
  <2> HIDE DEF outcome, stop
  <2>2. left \in SUBSET Models
    BY <1>0
  <2> HIDE DEF left
  <2>3. /\ main' \in Mains /\ main'.op = main.op /\ main'.pending = left
        /\ main'.pc \in {"working", "stopping"}
    BY <1>0, <2>1, <2>2 DEF TypeOK, Mains
  <2>4. /\ job' \in [Roles -> JobStates] /\ orphans' \in SUBSET Roles
        /\ \A r \in Roles : Live(r)' => Live(r)
    BY <1>0, <2>1, CancelJobsFacts DEF TypeOK, Live
  <2>5. QED
    BY <1>0, <1>1, <1>2, <2>1, <2>3, <2>4, OnwardStep DEF TypeOK
<1>5. QED
  BY <1>3, <1>4

LEMMA StoppedStep ==
  ASSUME IInv, Stopped
  PROVE  IInv'
<1>1. TypeOK /\ main.pc = "stopping" /\ main.outcome \in {"completed", "failed"}
  BY DEF IInv, TypeOK, Mains, Stopped, Awake
<1>2. \A r \in Roles : ~Live(r)
  BY <1>1 DEF IInv, StageInv, Stopped
<1>3. QED
  BY <1>1, <1>2, FinishStep DEF TypeOK, Stopped

LEMMA FinishStartsStep ==
  ASSUME IInv, FinishStarts
  PROVE  IInv'
<1>1. TypeOK /\ main.pc = "finishing" /\ main.outcome \in {"completed", "failed"}
  BY DEF IInv, TypeOK, Mains, FinishStarts, Awake
<1>2. QED
  BY <1>1, Jobless, FinishStep DEF TypeOK, FinishStarts

\* The main task ends, with nothing of its own at work.
LEMMA ReturnsStep ==
  ASSUME IInv, main.pc # "none", Returns, ~Saving("main"), \A r \in Roles : ~Live(r),
         UNCHANGED <<current, kind, status, timer, upload, job, canceller, finalizer, making,
                     directory, saved, orphans, cleanup_failed, serving>>
  PROVE  IInv'
<1>0. TypeOK
  BY DEF IInv
<1>1. main' \in Mains /\ main'.pc = "none"
  BY <1>0 DEF TypeOK, Mains, Returns
<1>2. TypeOK'
  BY <1>0, <1>1 DEF TypeOK
<1>3. (\A r \in Roles : ~Live(r)') /\ (\A p \in Callers : Saving(p)' <=> Saving(p))
  BY DEF Live, Saving
<1>4. NothingOfAnOlderOperation' /\ StageInv'
  BY <1>1, <1>3 DEF IInv, NothingOfAnOlderOperation, StageInv, Callers
<1>5. StatusInv'
  BY <1>1, <1>3 DEF IInv, StatusInv, Callers
<1>6. QED
  BY <1>2, <1>4, <1>5 DEF IInv

LEMMA MainCancelledStep ==
  ASSUME IInv, MainCancelled
  PROVE  IInv'
<1>0. TypeOK /\ UNCHANGED <<current, kind, status, timer, upload, canceller, finalizer, making,
                            directory, saved, cleanup_failed, serving>>
  BY DEF IInv, MainCancelled
<1>1. CASE /\ main.pc \in {"created", "finishing", "making"} /\ Returns
           /\ UNCHANGED <<job, orphans>>
  <2>1. ~Saving("main")
    BY <1>1 DEF IInv, StageInv
  <2>2. QED
    BY <1>0, <1>1, <2>1, Jobless, ReturnsStep
<1>2. CASE /\ main.pc \in {"preparing", "working", "stopping"} /\ Catches("unwinding")
           /\ CancelJobs(IF main.pc = "preparing" THEN {"preparation"} ELSE main.pending)
  <2>1. main' \in Mains /\ main'.op = main.op /\ main'.pc = "unwinding"
    BY <1>0, <1>2 DEF TypeOK, Mains, Catches
  <2>2. (IF main.pc = "preparing" THEN {"preparation"} ELSE main.pending) \in SUBSET Roles
    BY <1>0 DEF TypeOK, Mains, Models, Roles
  <2>3. job' \in [Roles -> JobStates] /\ orphans' \in SUBSET Roles
    BY <1>0, <1>2, <2>2, CancelJobsFacts
  <2>4. QED
    BY <1>0, <1>2, <2>1, <2>3, OnwardStep DEF TypeOK
<1>3. CASE Shielded /\ UNCHANGED <<job, orphans>>
  <2>1. main.pc = "saving" /\ main' \in Mains /\ main'.op = main.op /\ main'.pc = "settling"
    BY <1>0, <1>3 DEF TypeOK, Mains, Shielded, Catches
  <2>2. TypeOK'
    BY <1>0, <1>3, <2>1 DEF TypeOK
  <2>3. /\ \A r \in Roles : Live(r)' <=> Live(r)
        /\ \A p \in Callers : Saving(p)' <=> Saving(p)
    BY <1>0, <1>3 DEF Live, Saving
  <2>4. NothingOfAnOlderOperation' /\ StageInv'
    BY <1>0, <1>3, <2>1, <2>3 DEF IInv, NothingOfAnOlderOperation, StageInv, Callers
  <2>5. StatusInv'
    BY <1>0, <1>3, <2>1, <2>3 DEF IInv, StatusInv, Callers
  <2>6. QED
    BY <2>2, <2>4, <2>5 DEF IInv
<1>4. QED
  BY <1>1, <1>2, <1>3 DEF MainCancelled

LEMMA MainReturnsStep ==
  ASSUME IInv, MainReturns
  PROVE  IInv'
<1>1. CASE main.pc = "unwinding" /\ \A r \in Roles : ~Live(r)
  <2>1. ~Saving("main")
    BY <1>1 DEF IInv, StageInv
  <2>2. QED
    BY <1>1, <2>1, ReturnsStep DEF MainReturns
<1>2. CASE main.pc \in {"saving", "settling"} /\ finalizer["main"].pc = "done"
  BY <1>2, Jobless, ReturnsStep DEF MainReturns, Saving
<1>3. QED
  BY <1>1, <1>2 DEF MainReturns, Awake

LEMMA JobSucceedsStep ==
  ASSUME IInv, NEW r \in Roles, JobSucceeds(r)
  PROVE  IInv'
<1>1. TypeOK'
  BY DEF IInv, TypeOK, JobSucceeds, JobStates
<1>2. NothingOfAnOlderOperation'
  BY DEF IInv, NothingOfAnOlderOperation, Live, JobSucceeds
<1>3. StageInv'
  BY DEF IInv, StageInv, Live, Saving, JobSucceeds
<1>4. StatusInv'
  BY DEF IInv, StatusInv, Saving, JobSucceeds
<1>5. QED
  BY <1>1, <1>2, <1>3, <1>4 DEF IInv

LEMMA JobFailsStep ==
  ASSUME IInv, NEW r \in Roles, JobFails(r)
  PROVE  IInv'
<1>1. TypeOK'
  BY DEF IInv, TypeOK, JobFails, JobStates
<1>2. NothingOfAnOlderOperation'
  BY DEF IInv, NothingOfAnOlderOperation, Live, JobFails
<1>3. StageInv'
  BY DEF IInv, StageInv, Live, Saving, JobFails
<1>4. StatusInv'
  BY DEF IInv, StatusInv, Saving, JobFails
<1>5. QED
  BY <1>1, <1>2, <1>3, <1>4 DEF IInv

LEMMA JobReapedStep ==
  ASSUME IInv, NEW r \in Roles, JobReaped(r)
  PROVE  IInv'
<1>1. TypeOK'
  BY DEF IInv, TypeOK, JobReaped, JobStates
<1>2. NothingOfAnOlderOperation'
  BY DEF IInv, NothingOfAnOlderOperation, Live, JobReaped
<1>3. StageInv'
  BY DEF IInv, StageInv, Live, Saving, JobReaped
<1>4. StatusInv'
  BY DEF IInv, StatusInv, Saving, JobReaped
<1>5. QED
  BY <1>1, <1>2, <1>3, <1>4 DEF IInv

LEMMA OrphanExitsStep ==
  ASSUME IInv, NEW r \in Roles, OrphanExits(r)
  PROVE  IInv'
<1>1. TypeOK'
  BY DEF IInv, TypeOK, OrphanExits, tasks
<1>2. NothingOfAnOlderOperation'
  BY DEF IInv, NothingOfAnOlderOperation, Live, OrphanExits, tasks
<1>3. StageInv'
  BY DEF IInv, StageInv, Live, Saving, OrphanExits, tasks
<1>4. StatusInv'
  BY DEF IInv, StatusInv, Saving, OrphanExits, tasks
<1>5. QED
  BY <1>1, <1>2, <1>3, <1>4 DEF IInv

LEMMA CancelPreviousStep ==
  ASSUME IInv, CancelPrevious
  PROVE  IInv'
<1>1. TypeOK'
  BY DEF IInv, TypeOK, CancelPrevious, Mains, Cancellers
<1>2. NothingOfAnOlderOperation'
  BY DEF IInv, NothingOfAnOlderOperation, Live, CancelPrevious
<1>3. StageInv'
  BY DEF IInv, StageInv, Live, Saving, CancelPrevious
<1>4. StatusInv'
  BY DEF IInv, StatusInv, Saving, CancelPrevious
<1>5. QED
  BY <1>1, <1>2, <1>3, <1>4 DEF IInv

LEMMA PreviousGoneStep ==
  ASSUME IInv, PreviousGone
  PROVE  IInv'
<1>1. TypeOK'
  BY DEF IInv, TypeOK, PreviousGone, Cancellers
<1>2. NothingOfAnOlderOperation'
  BY DEF IInv, NothingOfAnOlderOperation, Live, PreviousGone
<1>3. StageInv'
  BY DEF IInv, StageInv, Live, Saving, PreviousGone
<1>4. StatusInv'
  BY DEF IInv, StatusInv, Saving, PreviousGone
<1>5. QED
  BY <1>1, <1>2, <1>3, <1>4 DEF IInv

LEMMA CancelFinishesStep ==
  ASSUME IInv, CancelFinishes
  PROVE  IInv'
<1>1. TypeOK'
  BY DEF IInv, TypeOK, CancelFinishes, Finalize, Cancellers, Finalizers, TERMINAL
<1>2. NothingOfAnOlderOperation'
  BY DEF IInv, NothingOfAnOlderOperation, Live, CancelFinishes, Finalize
<1>3. StageInv'
  BY DEF IInv, StageInv, Live, Saving, CancelFinishes, Finalize, UploadGone
<1>4. StatusInv'
  BY DEF IInv, TypeOK, StatusInv, Saving, CancelFinishes, Finalize, Callers
<1>5. QED
  BY <1>1, <1>2, <1>3, <1>4 DEF IInv

LEMMA CancellerReturnsStep ==
  ASSUME IInv, CancellerReturns
  PROVE  IInv'
<1>1. TypeOK'
  BY DEF IInv, TypeOK, CancellerReturns, Cancellers
<1>2. NothingOfAnOlderOperation'
  BY DEF IInv, NothingOfAnOlderOperation, Live, CancellerReturns
<1>3. StageInv'
  BY DEF IInv, StageInv, Live, Saving, CancellerReturns
<1>4. StatusInv'
  BY DEF IInv, StageInv, StatusInv, Saving, CancellerReturns
<1>5. QED
  BY <1>1, <1>2, <1>3, <1>4 DEF IInv

LEMMA FinalizerStartsStep ==
  ASSUME IInv, NEW p \in Callers, FinalizerStarts(p)
  PROVE  IInv'
<1>1. TypeOK'
  BY DEF IInv, TypeOK, FinalizerStarts, Finalizers, Callers
<1>2. NothingOfAnOlderOperation'
  BY DEF IInv, NothingOfAnOlderOperation, Live, FinalizerStarts
<1>3. StageInv'
  BY DEF IInv, StageInv, Live, Saving, FinalizerStarts
<1>4. StatusInv'
  BY DEF IInv, StatusInv, Saving, FinalizerStarts
<1>5. QED
  BY <1>1, <1>2, <1>3, <1>4 DEF IInv

LEMMA DirectoryRemovedStep ==
  ASSUME IInv, NEW p \in Callers, NEW ok \in BOOLEAN, DirectoryRemoved(p, ok)
  PROVE  IInv'
<1>1. TypeOK'
  BY DEF IInv, TypeOK, DirectoryRemoved, Finalizers, TERMINAL
<1>2. NothingOfAnOlderOperation'
  BY DEF IInv, TypeOK, NothingOfAnOlderOperation, Live, DirectoryRemoved
<1>3. StageInv'
  BY DEF IInv, TypeOK, StageInv, Live, Saving, DirectoryRemoved, Callers
<1>4. StatusInv'
  <2>1. /\ finalizer' = [finalizer EXCEPT ![p].pc = "writing",
                                           ![p].status = IF ok THEN @ ELSE "failed"]
        /\ finalizer \in [Callers -> Finalizers] /\ Saving(p)
    BY DEF DirectoryRemoved, IInv, TypeOK, Saving
  <2>2. /\ finalizer'[p].pc = "writing"
        /\ finalizer'[p].status \in {finalizer[p].status, "failed"}
        /\ \A q \in Callers \ {p} : finalizer'[q] = finalizer[q]
    BY <2>1 DEF Finalizers
  <2>3. \A q \in Callers : Saving(q)' <=> Saving(q)
    BY <2>1, <2>2 DEF Saving
  <2>4. QED
    BY <2>2, <2>3 DEF IInv, StatusInv, DirectoryRemoved, Callers
<1>5. QED
  BY <1>1, <1>2, <1>3, <1>4 DEF IInv

LEMMA ResultWrittenStep ==
  ASSUME IInv, NEW p \in Callers, NEW written \in {{}, {"txt"}, Files}, ResultWritten(p, written)
  PROVE  IInv'
<1>0. /\ TypeOK /\ current \in Operations /\ Saving(p) /\ finalizer[p].op = current
      /\ UNCHANGED <<current, timer, upload, main, job, canceller>>
  BY AtWork DEF IInv, ResultWritten, Saving
<1>1. TypeOK'
  BY DEF IInv, TypeOK, ResultWritten, Outcome, Statuses, Finalizers, TERMINAL
<1>2. /\ finalizer'[p].pc = "done" /\ finalizer'[p].status = finalizer[p].status
      /\ \A q \in Callers \ {p} : finalizer'[q] = finalizer[q]
  BY <1>0 DEF ResultWritten, TypeOK, Finalizers
<1>3. \A r \in Roles : ~Live(r)
  BY <1>0 DEF IInv, NothingOfAnOlderOperation, StageInv, Callers
<1>4. (\A r \in Roles : ~Live(r)') /\ ~Saving(p)'
      /\ \A q \in Callers \ {p} : ~Saving(q) /\ ~Saving(q)'
  BY <1>0, <1>2, <1>3 DEF IInv, StageInv, Live, Saving, Callers
<1>5. NothingOfAnOlderOperation' /\ StageInv'
  BY <1>0, <1>2, <1>4 DEF IInv, NothingOfAnOlderOperation, StageInv, Callers, Saving
<1>6. Outcome(finalizer[p], written) \in TERMINAL
  BY <1>0 DEF IInv, StatusInv, Outcome, TERMINAL, Callers
<1>7. CASE p = "main"
  <2>1. canceller.pc # "saving" /\ main.pc \in {"saving", "settling"}
    BY <1>0, <1>7 DEF IInv, StageInv
  <2>2. /\ \A o \in Operations \ {current} : status'[o] = status[o]
        /\ status'[current] = IF status[current] = "cancelling" THEN "cancelling"
                             ELSE Outcome(finalizer[p], written)
    BY <1>0, <1>7 DEF ResultWritten, Withheld, TypeOK
  <2>3. QED
    BY <1>0, <1>1, <1>2, <1>4, <1>5, <1>6, <1>7, <2>1, <2>2
    DEF IInv, StatusInv, Operations, Callers, TERMINAL
<1>8. CASE p = "canceller"
  <2>1. canceller.pc = "saving" /\ main.pc = "none" /\ upload.pc = "none"
    BY <1>0, <1>8 DEF IInv, StageInv
  <2>2. /\ \A o \in Operations \ {current} : status'[o] = status[o]
        /\ status'[current] = Outcome(finalizer[p], written)
    BY <1>0, <1>8 DEF ResultWritten, Withheld, TypeOK
  <2>3. QED
    BY <1>0, <1>1, <1>2, <1>4, <1>5, <1>6, <1>8, <2>1, <2>2
    DEF IInv, StatusInv, Operations, Callers, TERMINAL
<1>9. QED
  BY <1>7, <1>8 DEF Callers

-----------------------------------------------------------------------------
LEMMA Unmoved ==
  ASSUME IInv, UNCHANGED vars
  PROVE  IInv'
<1>1. TypeOK' /\ NothingOfAnOlderOperation'
  BY DEF IInv, TypeOK, NothingOfAnOlderOperation, Live, vars, tasks
<1>2. StageInv' /\ StatusInv'
  BY DEF IInv, StageInv, StatusInv, Live, Saving, vars, tasks
<1>3. QED
  BY <1>1, <1>2 DEF IInv

LEMMA NextIInv ==
  ASSUME IInv, [Next]_vars
  PROVE  IInv'
<1>1. CASE Reserve \/ Expire \/ Cancel \/ Close \/ UploadBegins \/ UploadOpens
  BY <1>1, ReserveStep, ExpireStep, CancelStep, CloseStep, UploadBeginsStep, UploadOpensStep
<1>2. ASSUME NEW ok \in BOOLEAN, UploadEnds(ok) \/ DirectoryMade(ok)
      PROVE  IInv'
  BY <1>2, UploadEndsStep, DirectoryMadeStep
<1>3. ASSUME NEW r \in Roles, JobSucceeds(r) \/ JobFails(r) \/ JobReaped(r) \/ OrphanExits(r)
      PROVE  IInv'
  BY <1>3, JobSucceedsStep, JobFailsStep, JobReapedStep, OrphanExitsStep
<1>4. CASE MainStep
  BY <1>4, MainStartsStep, PreparedStep, CollectStep, StoppedStep, FinishStartsStep,
     MainCancelledStep, MainReturnsStep DEF MainStep
<1>5. CASE CancellerStep
  BY <1>5, CancelPreviousStep, PreviousGoneStep, CancelFinishesStep, CancellerReturnsStep
  DEF CancellerStep
<1>6. ASSUME NEW p \in Callers, Finalizing(p)
      PROVE  IInv'
  BY <1>6, FinalizerStartsStep, DirectoryRemovedStep, ResultWrittenStep DEF Finalizing
<1>7. CASE UNCHANGED vars
  BY <1>7, Unmoved
<1>8. QED
  BY <1>1, <1>2, <1>3, <1>4, <1>5, <1>6, <1>7 DEF Next

\* Whoever is at work, and what the status says of them, is as the inductive
\* invariant tells.
THEOREM Invariance == Spec => []IInv
<1>1. Init => IInv
  BY InitIInv
<1>2. IInv /\ [Next]_vars => IInv'
  BY NextIInv
<1>3. QED
  BY <1>1, <1>2, PTL DEF Spec

\* No coroutine that is left over from an earlier operation writes into the
\* next one, because reserve() waits for the task and the task for everybody.
THEOREM NothingLeftOver == Spec => []NothingOfAnOlderOperation
<1>1. IInv => NothingOfAnOlderOperation
  BY DEF IInv
<1>2. QED
  BY <1>1, Invariance, PTL

\* finalize() removes the directory and saves the result with no upload, no
\* process and no other finalizer beside it.
THEOREM ResultsSavedAlone == Spec => []SavedAlone
<1>1. ASSUME IInv
      PROVE  SavedAlone
  <2>1. ASSUME NEW p \in Callers, Saving(p)
        PROVE  /\ upload.pc = "none" /\ \A r \in Roles : ~Live(r)
               /\ \A q \in Callers \ {p} : ~Saving(q)
    BY <1>1, <2>1 DEF IInv, NothingOfAnOlderOperation, StageInv, Callers
  <2>2. QED
    BY <2>1 DEF SavedAlone, Saving
<1>2. QED
  BY <1>1, Invariance, PTL

-----------------------------------------------------------------------------
(* A cancellation is final *)

\* What a step may make of the statuses.
StatusStep ==
  \A o \in Operations :
    /\ status[o] = "cancelling" => status'[o] \in {"cancelling", "cancelled", "failed"}
    /\ status[o] \in TERMINAL => status'[o] = status[o]

LEMMA StatusKept ==
  ASSUME status' = status
  PROVE  StatusStep
BY DEF StatusStep

LEMMA ReserveStatus ==
  ASSUME IInv, Reserve
  PROVE  StatusStep
<1>1. /\ status \in [Operations -> Statuses] /\ current + 1 \in Operations /\ current \in Nat
      /\ status[current + 1] = "none"
  BY DEF IInv, TypeOK, StatusInv, Reserve, Operations
<1>2. QED
  BY <1>1 DEF StatusStep, Reserve, TERMINAL

\* Before the operation runs it is waiting for its file.
LEMMA RunningStatus ==
  ASSUME IInv, status[current] = "awaiting_upload",
         status' = [status EXCEPT ![current] = "running"]
  PROVE  StatusStep
BY DEF IInv, TypeOK, StatusStep, TERMINAL

LEMMA CancellingStatus ==
  ASSUME IInv, ~Settled, Cancelling
  PROVE  StatusStep
<1>1. current = 0 \/ status[current] \notin TERMINAL
  BY DEF Settled
<1>2. status' = [status EXCEPT ![current] = "cancelling"] /\ status \in [Operations -> Statuses]
  BY DEF Cancelling, IInv, TypeOK
<1>3. QED
  BY <1>1, <1>2 DEF StatusStep, Operations

LEMMA ResultStatus ==
  ASSUME IInv, NEW p \in Callers, NEW written \in {{}, {"txt"}, Files}, ResultWritten(p, written)
  PROVE  StatusStep
<1>0. /\ current \in Operations /\ Saving(p) /\ finalizer[p].op = current
      /\ status \in [Operations -> Statuses]
  BY AtWork DEF IInv, TypeOK, ResultWritten, Saving
<1>1. status[current] \notin TERMINAL
  BY <1>0 DEF IInv, StageInv, StatusInv, TERMINAL, Callers
<1>2. CASE p = "main"
  BY <1>0, <1>1, <1>2 DEF StatusStep, ResultWritten, Withheld
<1>3. CASE p = "canceller"
  <2>1. Outcome(finalizer[p], written) \in {"cancelled", "failed"}
    BY <1>0, <1>3 DEF IInv, StatusInv, Outcome
  <2>2. QED
    BY <1>0, <1>1, <1>3, <2>1 DEF StatusStep, ResultWritten, Withheld
<1>4. QED
  BY <1>2, <1>3 DEF Callers

LEMMA NextStatus ==
  ASSUME IInv, [Next]_vars
  PROVE  StatusStep
<1>1. CASE Reserve
  BY <1>1, ReserveStatus
<1>2. CASE Expire
  BY <1>2, RunningStatus, StatusKept DEF Expire
<1>3. CASE Cancel \/ Close
  BY <1>3, CancellingStatus, StatusKept DEF Cancel, Close
<1>4. ASSUME NEW ok \in BOOLEAN, UploadEnds(ok)
      PROVE  StatusStep
  <2>1. upload.op = current /\ status[current] \in {"awaiting_upload", "cancelling"}
    BY <1>4, AtWork DEF UploadEnds, IInv, StatusInv
  <2>2. QED
    BY <1>4, <2>1, RunningStatus, StatusKept DEF UploadEnds
<1>5. ASSUME NEW p \in Callers, Finalizing(p)
      PROVE  StatusStep
  BY <1>5, ResultStatus, StatusKept DEF Finalizing, FinalizerStarts, DirectoryRemoved
<1>6. CASE UploadBegins \/ UploadOpens \/ (\E ok \in BOOLEAN : DirectoryMade(ok))
  BY <1>6, StatusKept DEF UploadBegins, UploadOpens, DirectoryMade
<1>7. CASE \E r \in Roles : JobSucceeds(r) \/ JobFails(r) \/ JobReaped(r) \/ OrphanExits(r)
  BY <1>7, StatusKept DEF JobSucceeds, JobFails, JobReaped, OrphanExits
<1>8. CASE MainStep
  BY <1>8, StatusKept DEF MainStep, MainStarts, Prepared, Collect, Stopped, FinishStarts,
     MainCancelled, MainReturns
<1>9. CASE CancellerStep
  BY <1>9, StatusKept DEF CancellerStep, CancelPrevious, PreviousGone, CancelFinishes,
     CancellerReturns
<1>10. CASE UNCHANGED vars
  BY <1>10, StatusKept DEF vars
<1>11. QED
  BY <1>1, <1>2, <1>3, <1>4, <1>5, <1>6, <1>7, <1>8, <1>9, <1>10 DEF Next

\* An accepted cancellation is never overtaken by the result that was being
\* saved, and a published end is final.
THEOREM CancellationStands == Spec => CancelIsFinal
<1>1. IInv /\ [Next]_vars => [StatusStep]_vars
  BY NextStatus
<1>2. Spec => [][StatusStep]_vars
  BY <1>1, Invariance, PTL DEF Spec
<1>3. QED
  BY <1>2, PTL DEF CancelIsFinal, StatusStep
=============================================================================
