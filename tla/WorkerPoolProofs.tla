-------------------------- MODULE WorkerPoolProofs --------------------------
(***************************************************************************)
(* Theorems about the worker pool, for any jobs, workers and limits, in    *)
(* three parts: the pool of WorkerPool.tla; that it is the job service of  *)
(* JobService.tla; and its composition with the threads, JobSystem.tla.    *)
(*                                                                         *)
(* The third part says that the pool and its threads agree on what runs, a *)
(* cancel reaches the job it is meant for and no other, and the            *)
(* composition is still the pool, so that it is a job service too.  The    *)
(* conversation with one thread is a matter of a few values, its two       *)
(* queues, the job it runs and the job the pool believes it runs: the      *)
(* first lemmas there say what each event of a conversation does to them,  *)
(* and the step lemmas find the event in the actions.                      *)
(***************************************************************************)
EXTENDS JobSystem, PoolImplementsService, SequenceTheorems, FiniteSetTheorems, TLAPS

-----------------------------------------------------------------------------
(* What the operations on a queue do to its places, range and distinctness *)

\* Removing one place of a sequence.
LEMMA RemoveAtFacts ==
  ASSUME NEW S, NEW s \in Seq(S), NEW i \in 1..Len(s)
  PROVE  /\ RemoveAt(s, i) \in Seq(S)
         /\ Len(RemoveAt(s, i)) = Len(s) - 1
         /\ \A k \in 1..(Len(s) - 1) :
              RemoveAt(s, i)[k] = IF k < i THEN s[k] ELSE s[k + 1]
<1> DEFINE a == SubSeq(s, 1, i - 1)
           b == SubSeq(s, i + 1, Len(s))
<1>1. Len(s) \in Nat /\ \A k \in 1..Len(s) : s[k] \in S
  BY LenProperties, ElementOfSeq
<1>2. /\ a \in Seq(S) /\ Len(a) = i - 1
      /\ \A k \in 1..(i - 1) : a[k] = s[k]
  <2>1. \A k \in 1..(i - 1) : s[k] \in S
    BY <1>1
  <2>2. QED
    BY <1>1, <2>1, SubSeqProperties
<1>3. /\ b \in Seq(S) /\ Len(b) = Len(s) - i
      /\ \A k \in 1..(Len(s) - i) : b[k] = s[i + k]
  <2>1. \A k \in (i + 1)..Len(s) : s[k] \in S
    BY <1>1
  <2>2. QED
    BY <1>1, <2>1, SubSeqProperties
<1>4. RemoveAt(s, i) = a \o b
  BY DEF RemoveAt
<1> HIDE DEF a, b
<1>5. /\ a \o b \in Seq(S)
      /\ Len(a \o b) = Len(a) + Len(b)
      /\ \A k \in 1..(Len(a) + Len(b)) :
           (a \o b)[k] = IF k <= Len(a) THEN a[k] ELSE b[k - Len(a)]
  BY <1>2, <1>3, ConcatProperties
<1>6. QED
  BY <1>1, <1>2, <1>3, <1>4, <1>5

\* What is left of a sequence without repetitions when one place is removed.
LEMMA RemoveAtRange ==
  ASSUME NEW S, NEW s \in Seq(S), IsInjective(s), NEW i \in 1..Len(s)
  PROVE  /\ IsInjective(RemoveAt(s, i))
         /\ Range(RemoveAt(s, i)) = Range(s) \ {s[i]}
<1> DEFINE r == RemoveAt(s, i)
<1>1. /\ Len(s) \in Nat /\ DOMAIN s = 1..Len(s)
      /\ r \in Seq(S) /\ Len(r) = Len(s) - 1
      /\ \A k \in 1..(Len(s) - 1) : r[k] = IF k < i THEN s[k] ELSE s[k + 1]
  BY LenProperties, RemoveAtFacts
<1>2. DOMAIN r = 1..(Len(s) - 1)
  BY <1>1, LenProperties
<1> HIDE DEF r
<1>3. IsInjective(r)
  <2>1. SUFFICES ASSUME NEW a \in DOMAIN r, NEW b \in DOMAIN r, r[a] = r[b]
                 PROVE  a = b
    BY DEF IsInjective
  <2>2. PICK c \in DOMAIN s, d \in DOMAIN s :
          /\ r[a] = s[c] /\ c = IF a < i THEN a ELSE a + 1
          /\ r[b] = s[d] /\ d = IF b < i THEN b ELSE b + 1
    BY <1>1, <1>2
  <2>3. c = d
    BY <2>1, <2>2 DEF IsInjective
  <2>4. QED
    BY <1>1, <1>2, <2>2, <2>3
<1>4. Range(r) \subseteq Range(s) \ {s[i]}
  BY <1>1, <1>2 DEF IsInjective, Range
<1>5. ASSUME NEW k \in DOMAIN s, s[k] # s[i] PROVE s[k] \in Range(r)
  <2>1. CASE k < i
    BY <1>1, <1>2, <2>1 DEF Range
  <2>2. CASE k > i
    <3>1. k - 1 \in DOMAIN r /\ r[k - 1] = s[k]
      BY <1>1, <1>2, <2>2
    <3>2. QED
      BY <3>1 DEF Range
  <2>3. QED
    BY <1>1, <1>5, <2>1, <2>2
<1>6. QED
  BY <1>3, <1>4, <1>5 DEF r, Range

\* Adding an element at the end.
LEMMA AppendRange ==
  ASSUME NEW S, NEW s \in Seq(S), NEW e \in S
  PROVE  /\ Range(Append(s, e)) = Range(s) \cup {e}
         /\ IsInjective(s) /\ e \notin Range(s) => IsInjective(Append(s, e))
<1> DEFINE r == Append(s, e)
<1>1. /\ Len(s) \in Nat /\ DOMAIN s = 1..Len(s)
      /\ r \in Seq(S) /\ Len(r) = Len(s) + 1
      /\ \A k \in 1..Len(s) : r[k] = s[k]
      /\ r[Len(s) + 1] = e
  BY LenProperties, AppendProperties
<1>2. DOMAIN r = 1..(Len(s) + 1)
  BY <1>1, LenProperties
<1> HIDE DEF r
<1>3. Range(r) = Range(s) \cup {e}
  <2>1. Range(r) \subseteq Range(s) \cup {e}
    BY <1>1, <1>2 DEF Range
  <2>2. Range(s) \subseteq Range(r)
    BY <1>1, <1>2 DEF Range
  <2>3. e \in Range(r)
    BY <1>1, <1>2 DEF Range
  <2>4. QED
    BY <2>1, <2>2, <2>3
<1>4. IsInjective(s) /\ e \notin Range(s) => IsInjective(r)
  BY <1>1, <1>2 DEF IsInjective, Range
<1>5. QED
  BY <1>3, <1>4 DEF r

\* Taking the first element.
LEMMA TailRange ==
  ASSUME NEW S, NEW s \in Seq(S), s # <<>>
  PROVE  /\ Head(s) \in S /\ Head(s) \in Range(s)
         /\ Tail(s) \in Seq(S) /\ Len(Tail(s)) = Len(s) - 1
         /\ Range(Tail(s)) \subseteq Range(s)
         /\ Range(s) = Range(Tail(s)) \cup {Head(s)}
         /\ IsInjective(s) => /\ IsInjective(Tail(s))
                              /\ Head(s) \notin Range(Tail(s))
<1> DEFINE r == Tail(s)
<1>1. /\ Len(s) \in Nat /\ Len(s) > 0 /\ DOMAIN s = 1..Len(s)
      /\ Head(s) = s[1]
  BY LenProperties, EmptySeq
<1>2. /\ r \in Seq(S) /\ Len(r) = Len(s) - 1
      /\ \A k \in 1..Len(r) : r[k] = s[k + 1]
      /\ Head(s) \in S
  BY HeadTailProperties
<1>3. DOMAIN r = 1..(Len(s) - 1)
  BY <1>2, LenProperties
<1> HIDE DEF r
<1>4. Head(s) \in Range(s)
  BY <1>1 DEF Range
<1>5. Range(r) \subseteq Range(s)
  BY <1>1, <1>2, <1>3 DEF Range
<1>6. ASSUME NEW k \in DOMAIN s, s[k] # Head(s) PROVE s[k] \in Range(r)
  <2>1. k - 1 \in DOMAIN r /\ r[k - 1] = s[k]
    BY <1>1, <1>2, <1>3, <1>6
  <2>2. QED
    BY <2>1 DEF Range
<1>7. Range(s) = Range(r) \cup {Head(s)}
  BY <1>4, <1>5, <1>6 DEF Range
<1>8. ASSUME IsInjective(s) PROVE IsInjective(r) /\ Head(s) \notin Range(r)
  <2>1. ASSUME NEW a \in DOMAIN r, NEW b \in DOMAIN r, r[a] = r[b]
        PROVE  a = b
    <3>1. /\ a + 1 \in DOMAIN s /\ b + 1 \in DOMAIN s
          /\ s[a + 1] = s[b + 1]
      BY <1>1, <1>2, <1>3, <2>1
    <3>2. a + 1 = b + 1
      BY <1>8, <3>1 DEF IsInjective
    <3>3. QED
      BY <1>3, <3>2
  <2>2. ASSUME NEW a \in DOMAIN r PROVE r[a] # Head(s)
    <3>1. a + 1 \in DOMAIN s /\ 1 \in DOMAIN s /\ r[a] = s[a + 1] /\ a + 1 # 1
      BY <1>1, <1>2, <1>3
    <3>2. s[a + 1] # s[1]
      BY <1>8, <3>1 DEF IsInjective
    <3>3. QED
      BY <1>1, <3>1, <3>2
  <2>3. QED
    BY <2>1, <2>2 DEF IsInjective, Range
<1>9. QED
  BY <1>2, <1>4, <1>5, <1>7, <1>8 DEF r

-----------------------------------------------------------------------------
(* The pool *)

\* The queue that #cancel leaves.
LEMMA WithoutFacts ==
  ASSUME TypeOK, NEW j \in Jobs
  PROVE  /\ Without(j) \in Seq(Jobs)
         /\ Len(Without(j)) <= Len(queue)
         /\ IsInjective(queue) => /\ IsInjective(Without(j))
                                  /\ Range(Without(j)) = Queued \ {j}
<1> DEFINE n == CHOOSE i \in DOMAIN queue : queue[i] = j
<1>1. queue \in Seq(Jobs) /\ Len(queue) \in Nat /\ DOMAIN queue = 1..Len(queue)
  BY LenProperties DEF TypeOK
<1>2. CASE j \notin Queued
  BY <1>1, <1>2 DEF Without, Queued
<1>3. CASE j \in Queued
  <2>1. n \in 1..Len(queue) /\ queue[n] = j
    BY <1>1, <1>3 DEF Queued, Range
  <2>2. Without(j) = RemoveAt(queue, n)
    BY <1>3 DEF Without
  <2> HIDE DEF n
  <2>3. QED
    BY <1>1, <2>1, <2>2, RemoveAtFacts, RemoveAtRange DEF Queued
<1>4. QED
  BY <1>2, <1>3

-----------------------------------------------------------------------------
LEMMA SettleType ==
  ASSUME TypeOK, NEW j \in Jobs, NEW r \in Outcomes
  PROVE  Settle(j, r) \in [Jobs -> Outcomes \cup {"pending"}]
BY DEF TypeOK, Settle

LEMMA StartNewType ==
  ASSUME TypeOK, NEW j \in Jobs, NEW Alive \in SUBSET workers, StartNew(j, Alive)
  PROVE  /\ state' \in [Jobs -> {"new", "queued", "running"}]
         /\ workers' \in SUBSET Workers
         /\ task' \in [Workers -> Jobs \cup {NoJob}]
         /\ terminating' \in [Workers -> BOOLEAN]
BY DEF TypeOK, StartNew

LEMMA TerminateAllType ==
  ASSUME TypeOK, NEW settled \in [Jobs -> Outcomes \cup {"pending"}],
         TerminateAll(settled), queue' \in Seq(Jobs)
  PROVE  TypeOK'
<1>1. outcome' \in [Jobs -> Outcomes \cup {"pending"}]
  <2>1. "terminated" \in Outcomes
    BY DEF Outcomes
  <2>2. QED
    BY <2>1 DEF TerminateAll
<1>2. terminating' \in [Workers -> BOOLEAN]
  BY DEF TerminateAll
<1>3. QED
  BY <1>1, <1>2 DEF TerminateAll, TypeOK, Phases

LEMMA TypeStep == TypeOK /\ [Next]_vars => TypeOK'
<1> SUFFICES ASSUME TypeOK, [Next]_vars PROVE TypeOK'
  OBVIOUS
<1> USE DEF Outcomes, Phases
<1>1. ASSUME NEW j \in Jobs, Run(j) PROVE TypeOK'
  <2>1. ASSUME NEW r \in Outcomes, Refuse(j, r) PROVE TypeOK'
    BY <2>1 DEF Refuse, TypeOK
  <2>2. CASE RunOnIdle(j)
    BY <2>2 DEF RunOnIdle, Start, TypeOK
  <2>3. CASE RunOnNew(j)
    BY <2>3, StartNewType DEF RunOnNew, TypeOK
  <2>4. CASE Enqueue(j)
    BY <2>4, AppendProperties DEF Enqueue, TypeOK
  <2>5. QED
    BY <1>1, <2>1, <2>2, <2>3, <2>4
       DEF Run, RefuseClosed, RefuseUnclonable, RefuseAborted,
           RefuseZeroTimeout, RefuseQueueFull
<1>2. ASSUME NEW j \in Jobs, Abort(j) \/ Timeout(j) PROVE TypeOK'
  <2>1. PICK r \in Outcomes : CancelQueued(j, r) \/ CancelRunning(j, r)
    BY <1>2 DEF Abort, Timeout, Cancel
  <2>2. CASE CancelQueued(j, r)
    BY <2>2, SettleType, WithoutFacts DEF CancelQueued, TypeOK
  <2>3. CASE CancelRunning(j, r)
    BY <2>3, SettleType DEF CancelRunning, TypeOK
  <2>4. QED
    BY <2>1, <2>2, <2>3
<1>3. ASSUME NEW j \in Jobs, GraceExpires(j) PROVE TypeOK'
  BY <1>3 DEF GraceExpires, TypeOK
<1>4. ASSUME NEW w \in Workers, NEW m \in Messages, Reply(w, m) PROVE TypeOK'
  <2>1. task[w] \in Jobs
    BY <1>4 DEF Reply, TypeOK
  <2>2. outcome' \in [Jobs -> Outcomes \cup {"pending"}]
    BY <1>4, <2>1, SettleType DEF Reply, ReplyOutcome
  <2>3. CASE Closed \/ queue = <<>>
    BY <1>4, <2>1, <2>2, <2>3 DEF Reply, Release, TypeOK
  <2>4. CASE ~(Closed \/ queue = <<>>)
    <3>1. Head(queue) \in Jobs /\ Tail(queue) \in Seq(Jobs)
      BY <2>4, HeadTailProperties DEF TypeOK
    <3>2. QED
      BY <1>4, <2>1, <2>2, <2>4, <3>1 DEF Reply, Release, Start, TypeOK
  <2>5. QED
    BY <2>3, <2>4
<1>5. ASSUME NEW w \in Workers, NEW m \in Messages, BadMessage(w, m) PROVE TypeOK'
  <2>1. outcome' \in [Jobs -> Outcomes \cup {"pending"}]
    BY <1>5, SettleType DEF BadMessage, TypeOK
  <2>2. QED
    BY <1>5, <2>1 DEF BadMessage, TypeOK
<1>6. ASSUME NEW w \in Workers, Exit(w) PROVE TypeOK'
  <2>1. outcome' \in [Jobs -> Outcomes \cup {"pending"}]
    BY <1>6, SettleType DEF Exit, ExitOutcome, TypeOK
  <2>2. CASE ExitReplaced(w)
    <3>1. Head(queue) \in Jobs /\ Tail(queue) \in Seq(Jobs)
      BY <2>2, HeadTailProperties DEF ExitReplaced, TypeOK
    <3>2. StartNew(Head(queue), workers \ {w})
      BY <2>2 DEF ExitReplaced
    <3>3. QED
      BY <1>6, <2>1, <2>2, <3>1, <3>2, StartNewType DEF Exit, ExitReplaced, TypeOK
  <2>3. CASE ExitUnreplaced(w)
    BY <1>6, <2>1, <2>3 DEF Exit, ExitUnreplaced, TypeOK
  <2>4. QED
    BY <1>6, <2>2, <2>3 DEF Exit
<1>7. CASE Close
  <2>1. AbortedQueue \in [Jobs -> Outcomes \cup {"pending"}] /\ <<>> \in Seq(Jobs)
    BY EmptySeq DEF AbortedQueue, TypeOK
  <2>2. CASE Held = {}
    BY <1>7, <2>1, <2>2, TerminateAllType DEF Close
  <2>3. CASE Held # {}
    BY <1>7, <2>1, <2>3 DEF Close, TypeOK
  <2>4. QED
    BY <2>2, <2>3
<1>8. CASE CloseDrained \/ CloseTimeout
  <2>1. TerminateAll(outcome) /\ queue' = queue
    BY <1>8 DEF CloseDrained, CloseTimeout
  <2>2. QED
    BY <2>1, TerminateAllType DEF TypeOK
<1>9. CASE CloseDone
  BY <1>9 DEF CloseDone, TypeOK
<1>10. CASE UNCHANGED vars
  BY <1>10 DEF vars, TypeOK
<1>11. QED
  BY <1>1, <1>2, <1>3, <1>4, <1>5, <1>6, <1>7, <1>8, <1>9, <1>10 DEF Next, OnMessage

\* Every variable of the pool keeps its type, whatever the threads send.
THEOREM TypeCorrect == Spec => []TypeOK
<1>1. Init => TypeOK
  BY EmptySeq DEF Init, TypeOK, Outcomes, Phases
<1>2. QED
  BY <1>1, TypeStep, PTL DEF Spec
-----------------------------------------------------------------------------
\* Where the jobs are: one step lemma for each kind of step of the pool.
LEMMA RefusePlaces ==
  ASSUME TypeOK, PlacesInv, NEW j \in Jobs, NEW r \in Outcomes, Refuse(j, r)
  PROVE  PlacesInv'
<1>1. j \notin Queued /\ state[j] = "new"
  BY DEF PlacesInv, OnePlacePerJob, Refuse, Submittable
<1>2. SlotsInOrder'
  BY DEF PlacesInv, SlotsInOrder, Refuse, Closed
<1>3. OnePlacePerJob'
  BY <1>1 DEF PlacesInv, OnePlacePerJob, Refuse, Queued, TypeOK
<1>4. NoForgottenJob'
  BY <1>1 DEF PlacesInv, NoForgottenJob, Refuse, Queued, Held, TypeOK
<1>5. QED
  BY <1>2, <1>3, <1>4 DEF PlacesInv

LEMMA RunOnIdlePlaces ==
  ASSUME TypeOK, PlacesInv, NEW j \in Jobs, RunOnIdle(j)
  PROVE  PlacesInv'
<1>1. PICK w \in workers : Idle(w) /\ Start(w, j)
  BY DEF RunOnIdle
<1>2. /\ w \in Workers /\ task[w] = NoJob
      /\ task' = [task EXCEPT ![w] = j] /\ state' = [state EXCEPT ![j] = "running"]
      /\ queue' = queue /\ outcome' = outcome /\ workers' = workers
      /\ terminating' = terminating /\ phase' = phase
  BY <1>1 DEF RunOnIdle, Idle, Start, TypeOK
<1>3. /\ j \notin Queued /\ state[j] = "new"
      /\ \A v \in Workers : task[v] # j
  BY JobsAssumption DEF PlacesInv, SlotsInOrder, OnePlacePerJob, RunOnIdle, Submittable, TypeOK
<1>4. SlotsInOrder'
  BY <1>1, <1>2, <1>3, JobsAssumption DEF PlacesInv, SlotsInOrder, Closed, TypeOK
<1>5. OnePlacePerJob'
  BY <1>2, <1>3 DEF PlacesInv, OnePlacePerJob, Queued, TypeOK
<1>6. NoForgottenJob'
  BY <1>1, <1>2, <1>3, JobsAssumption DEF PlacesInv, NoForgottenJob, Queued, Held, TypeOK
<1>7. QED
  BY <1>4, <1>5, <1>6 DEF PlacesInv

\* A new worker for a job that was not held by anyone.
LEMMA StartNewPlaces ==
  ASSUME TypeOK, PlacesInv, ~Closed,
         NEW j \in Jobs, NEW Alive \in SUBSET workers, StartNew(j, Alive),
         \A v \in Workers : task[v] # j,
         queue' \in Seq(Jobs), IsInjective(queue'), Queued' = Queued \ {j},
         outcome' \in [Jobs -> Outcomes \cup {"pending"}],
         \A k \in Jobs : /\ outcome'[k] = "pending" => outcome[k] = "pending"
                         /\ k \in Queued => outcome'[k] = outcome[k],
         \A v \in workers \ Alive :
           task[v] # NoJob => outcome'[task[v]] # "pending",
         phase' = phase
  PROVE  PlacesInv'
<1>1. PICK w \in Workers \ Alive :
        /\ workers' = Alive \cup {w}
        /\ state' = [state EXCEPT ![j] = "running"]
        /\ task' = [v \in Workers |->
                      IF v = w THEN j ELSE IF v \in Alive THEN task[v] ELSE NoJob]
        /\ terminating' = [v \in Workers |-> v \in Alive /\ terminating[v]]
  BY DEF StartNew
<1>a. ASSUME NEW v \in Workers
      PROVE  task'[v] = IF v = w THEN j ELSE IF v \in Alive THEN task[v] ELSE NoJob
  BY <1>1
<1>2. SlotsInOrder'
  <2>1. ASSUME NEW v \in Workers, v \notin workers'
        PROVE  task'[v] = NoJob /\ ~terminating'[v]
    BY <1>1, <2>1
  <2>2. ASSUME NEW v \in Workers, task'[v] # NoJob
        PROVE  state'[task'[v]] = "running"
    BY <1>1, <1>a, <2>2 DEF PlacesInv, SlotsInOrder, TypeOK
  <2>3. ~Closed' /\ phase' # "closed"
    BY DEF Closed
  <2>4. QED
    BY <2>1, <2>2, <2>3 DEF SlotsInOrder
<1>3. OnePlacePerJob'
  <2>1. ASSUME NEW u \in Workers, NEW v \in Workers,
               task'[u] = task'[v], task'[u] # NoJob
        PROVE  u = v
    BY <1>a, <2>1 DEF PlacesInv, OnePlacePerJob
  <2>2. ASSUME NEW k \in Queued'
        PROVE  /\ state'[k] = "queued" /\ outcome'[k] = "pending"
               /\ \A v \in Workers : task'[v] # k
    <3>1. k \in Queued /\ k # j /\ k \in Jobs
      BY <2>2, RangeOfSeq DEF Queued, TypeOK
    <3>2. QED
      BY <1>1, <1>a, <3>1, JobsAssumption DEF PlacesInv, OnePlacePerJob, TypeOK
  <2>3. QED
    BY <2>1, <2>2 DEF OnePlacePerJob
<1>4. NoForgottenJob'
  <2>1. SUFFICES ASSUME NEW k \in Jobs, state'[k] # "new", outcome'[k] = "pending"
                 PROVE  IF state'[k] = "queued" THEN k \in Queued' ELSE k \in Held'
    BY DEF NoForgottenJob
  <2>2. CASE k = j
    BY <1>1, <2>2, JobsAssumption DEF Held, TypeOK
  <2>3. CASE k # j /\ state[k] = "queued"
    BY <1>1, <2>1, <2>3 DEF PlacesInv, NoForgottenJob, TypeOK
  <2>4. CASE k # j /\ state[k] # "queued"
    <3>1. PICK v \in workers : task[v] = k
      BY <1>1, <2>1, <2>4 DEF PlacesInv, NoForgottenJob, Held, TypeOK
    <3>2. v \in Alive
      BY <2>1, <3>1, JobsAssumption
    <3>3. task'[v] = k /\ v \in workers'
      BY <1>1, <3>1, <3>2 DEF TypeOK
    <3>4. QED
      BY <1>1, <2>1, <2>4, <3>3, JobsAssumption DEF Held, TypeOK
  <2>5. QED
    BY <2>2, <2>3, <2>4
<1>5. QED
  BY <1>2, <1>3, <1>4 DEF PlacesInv
LEMMA RunOnNewPlaces ==
  ASSUME TypeOK, PlacesInv, NEW j \in Jobs, RunOnNew(j)
  PROVE  PlacesInv'
<1>1. /\ j \notin Queued /\ state[j] = "new"
      /\ \A v \in Workers : task[v] # j
  BY JobsAssumption DEF PlacesInv, SlotsInOrder, OnePlacePerJob, RunOnNew, Submittable, TypeOK
<1>2. /\ ~Closed /\ StartNew(j, workers)
      /\ queue' = queue /\ outcome' = outcome /\ phase' = phase
      /\ IsInjective(queue)
  BY DEF RunOnNew, PlacesInv, OnePlacePerJob
<1>3. Queued' = Queued \ {j} /\ queue' \in Seq(Jobs) /\ IsInjective(queue')
  BY <1>1, <1>2 DEF Queued, TypeOK
<1>4. outcome' \in [Jobs -> Outcomes \cup {"pending"}]
  BY <1>2 DEF TypeOK
<1>5. QED
  BY <1>1, <1>2, <1>3, <1>4, StartNewPlaces

LEMMA EnqueuePlaces ==
  ASSUME TypeOK, PlacesInv, NEW j \in Jobs, Enqueue(j)
  PROVE  PlacesInv'
<1>1. /\ j \notin Queued /\ state[j] = "new" /\ outcome[j] = "pending"
      /\ \A v \in Workers : task[v] # j
  BY JobsAssumption DEF PlacesInv, SlotsInOrder, OnePlacePerJob, Enqueue, Submittable, TypeOK
<1>2. /\ ~Closed /\ queue' = Append(queue, j) /\ state' = [state EXCEPT ![j] = "queued"]
      /\ outcome' = outcome /\ workers' = workers /\ task' = task
      /\ terminating' = terminating /\ phase' = phase
  BY DEF Enqueue
<1>3. Queued' = Queued \cup {j} /\ IsInjective(queue')
  BY <1>1, <1>2, AppendRange DEF PlacesInv, OnePlacePerJob, Queued, TypeOK
<1>4. SlotsInOrder'
  BY <1>1, <1>2 DEF PlacesInv, SlotsInOrder, Closed, TypeOK
<1>5. OnePlacePerJob'
  BY <1>1, <1>2, <1>3 DEF PlacesInv, OnePlacePerJob, TypeOK
<1>6. NoForgottenJob'
  BY <1>1, <1>2, <1>3 DEF PlacesInv, NoForgottenJob, Held, TypeOK
<1>7. QED
  BY <1>4, <1>5, <1>6 DEF PlacesInv

LEMMA CancelPlaces ==
  ASSUME TypeOK, PlacesInv, NEW j \in Jobs, NEW r \in Outcomes, Cancel(j, r)
  PROVE  PlacesInv'
<1>1. r # "pending" /\ outcome' = [outcome EXCEPT ![j] = r]
  BY DEF Cancel, CancelQueued, CancelRunning, Settle, Outcomes
<1>2. /\ state' = state /\ workers' = workers /\ task' = task
      /\ terminating' = terminating /\ phase' = phase
  BY DEF Cancel, CancelQueued, CancelRunning
<1>3. CASE CancelQueued(j, r)
  <2>1. /\ queue' = Without(j) /\ IsInjective(queue')
        /\ Queued' = Queued \ {j}
        /\ state[j] = "queued"
    BY <1>3, WithoutFacts DEF CancelQueued, PlacesInv, OnePlacePerJob, Queued
  <2>2. Closed => queue' = <<>>
    <3>1. ASSUME Closed PROVE j \notin Queued
      BY <3>1, EmptySeq DEF PlacesInv, SlotsInOrder, Queued, Range
    <3>2. QED
      BY <2>1, <3>1 DEF PlacesInv, SlotsInOrder, Without
  <2>3. SlotsInOrder'
    BY <1>2, <2>2 DEF PlacesInv, SlotsInOrder, Closed
  <2>4. OnePlacePerJob'
    BY <1>1, <1>2, <2>1 DEF PlacesInv, OnePlacePerJob, TypeOK
  <2>5. NoForgottenJob'
    BY <1>1, <1>2, <2>1 DEF PlacesInv, NoForgottenJob, Held, TypeOK
  <2>6. QED
    BY <2>3, <2>4, <2>5 DEF PlacesInv
<1>4. CASE CancelRunning(j, r)
  <2>1. queue' = queue /\ state[j] = "running"
    BY <1>4 DEF CancelRunning
  <2>2. SlotsInOrder'
    BY <1>2, <2>1 DEF PlacesInv, SlotsInOrder, Closed
  <2>3. OnePlacePerJob'
    BY <1>1, <1>2, <2>1 DEF PlacesInv, OnePlacePerJob, Queued, TypeOK
  <2>4. NoForgottenJob'
    BY <1>1, <1>2, <2>1 DEF PlacesInv, NoForgottenJob, Held, Queued, TypeOK
  <2>5. QED
    BY <2>2, <2>3, <2>4 DEF PlacesInv
<1>5. QED
  BY <1>3, <1>4 DEF Cancel

LEMMA GracePlaces ==
  ASSUME TypeOK, PlacesInv, NEW j \in Jobs, GraceExpires(j)
  PROVE  PlacesInv'
<1>1. SlotsInOrder'
  BY DEF PlacesInv, SlotsInOrder, GraceExpires, Closed
<1>2. OnePlacePerJob' /\ NoForgottenJob'
  BY DEF PlacesInv, OnePlacePerJob, NoForgottenJob, GraceExpires, Held, Queued
<1>3. QED
  BY <1>1, <1>2 DEF PlacesInv

LEMMA BadMessagePlaces ==
  ASSUME TypeOK, PlacesInv, NEW w \in Workers, NEW m \in Messages, BadMessage(w, m)
  PROVE  PlacesInv'
<1>1. /\ w \in workers /\ terminating' = [terminating EXCEPT ![w] = TRUE]
      /\ state' = state /\ queue' = queue /\ workers' = workers
      /\ task' = task /\ phase' = phase
  BY DEF BadMessage
<1>2. /\ \A k \in Jobs : outcome'[k] = "pending" => outcome[k] = "pending"
      /\ \A k \in Jobs : task[w] # k => outcome'[k] = outcome[k]
  BY JobsAssumption DEF BadMessage, Settle, TypeOK
<1>3. SlotsInOrder'
  BY <1>1 DEF PlacesInv, SlotsInOrder, Closed, TypeOK
<1>4. OnePlacePerJob'
  BY <1>1, <1>2, RangeOfSeq DEF PlacesInv, OnePlacePerJob, Queued, TypeOK
<1>5. NoForgottenJob'
  BY <1>1, <1>2 DEF PlacesInv, NoForgottenJob, Held, Queued
<1>6. QED
  BY <1>3, <1>4, <1>5 DEF PlacesInv
\* A worker that answers frees itself, or takes the first job of the queue.
LEMMA ReplyPlaces ==
  ASSUME TypeOK, PlacesInv, NEW w \in Workers, NEW m \in Messages, Reply(w, m)
  PROVE  PlacesInv'
<1> DEFINE d == task[w]
<1>1. /\ d \in Jobs /\ w \in workers /\ workers' = workers
      /\ terminating' = terminating /\ phase' = phase
  BY DEF Reply, TypeOK
<1>2. /\ \A k \in Jobs : k # d => outcome'[k] = outcome[k]
      /\ outcome'[d] # "pending"
  BY <1>1 DEF Reply, ReplyOutcome, Settle, TypeOK
<1>3. \A v \in Workers : v # w => task[v] # d
  BY <1>1, JobsAssumption DEF PlacesInv, OnePlacePerJob
<1>4. d \notin Queued /\ state[d] = "running"
  BY <1>1, JobsAssumption DEF PlacesInv, OnePlacePerJob, SlotsInOrder
<1>5. CASE Closed \/ queue = <<>>
  <2>1. task' = [task EXCEPT ![w] = NoJob] /\ state' = state /\ queue' = queue
    BY <1>5 DEF Reply, Release
  <2>2. SlotsInOrder'
    BY <1>1, <2>1 DEF PlacesInv, SlotsInOrder, Closed, TypeOK
  <2>3. OnePlacePerJob'
    BY <1>1, <1>2, <1>4, <2>1, RangeOfSeq, JobsAssumption
       DEF PlacesInv, OnePlacePerJob, Queued, TypeOK
  <2>4. NoForgottenJob'
    BY <1>1, <1>2, <2>1 DEF PlacesInv, NoForgottenJob, Held, Queued, TypeOK
  <2>5. QED
    BY <2>2, <2>3, <2>4 DEF PlacesInv
<1>6. CASE ~(Closed \/ queue = <<>>)
  <2> DEFINE n == Head(queue)
  <2>1. /\ task' = [task EXCEPT ![w] = n] /\ state' = [state EXCEPT ![n] = "running"]
        /\ queue' = Tail(queue) /\ ~Closed
    BY <1>6 DEF Reply, Release, Start
  <2>2. /\ n \in Jobs /\ n \in Queued /\ Queued' = Queued \ {n} /\ IsInjective(queue')
    BY <1>6, <2>1, TailRange DEF PlacesInv, OnePlacePerJob, Queued, TypeOK
  <2>3. \A v \in Workers : task[v] # n
    BY <2>2 DEF PlacesInv, OnePlacePerJob
  <2> HIDE DEF n
  <2>4. SlotsInOrder'
    BY <1>1, <2>1, <2>2 DEF PlacesInv, SlotsInOrder, Closed, TypeOK
  <2>5. OnePlacePerJob'
    <3>1. ASSUME NEW u \in Workers, NEW v \in Workers,
                 task'[u] = task'[v], task'[u] # NoJob
          PROVE  u = v
      BY <2>1, <2>3, <3>1 DEF PlacesInv, OnePlacePerJob, TypeOK
    <3>2. ASSUME NEW k \in Queued'
          PROVE  /\ state'[k] = "queued" /\ outcome'[k] = "pending"
                 /\ \A v \in Workers : task'[v] # k
      <4>1. k \in Jobs /\ k \in Queued /\ k # n /\ k # d
        BY <1>4, <2>2, <3>2, RangeOfSeq DEF Queued, TypeOK
      <4>2. QED
        BY <1>2, <2>1, <2>2, <4>1 DEF PlacesInv, OnePlacePerJob, TypeOK
    <3>3. QED
      BY <2>2, <3>1, <3>2 DEF OnePlacePerJob
  <2>6. NoForgottenJob'
    <3>1. SUFFICES ASSUME NEW k \in Jobs, state'[k] # "new", outcome'[k] = "pending"
                   PROVE  IF state'[k] = "queued" THEN k \in Queued' ELSE k \in Held'
      BY DEF NoForgottenJob
    <3>2. CASE k = n
      BY <1>1, <2>1, <2>2, <3>2, JobsAssumption DEF Held, TypeOK
    <3>3. CASE k # n
      BY <1>1, <1>2, <2>1, <2>2, <3>1, <3>3 DEF PlacesInv, NoForgottenJob, Held, TypeOK
    <3>4. QED
      BY <3>2, <3>3
  <2>7. QED
    BY <2>4, <2>5, <2>6 DEF PlacesInv
<1>7. QED
  BY <1>5, <1>6

\* A dead worker takes its own job with it and no other.
LEMMA ExitPlaces ==
  ASSUME TypeOK, PlacesInv, NEW w \in Workers, Exit(w)
  PROVE  PlacesInv'
<1>1. w \in workers /\ phase' = phase /\ outcome' = ExitOutcome(w)
  BY DEF Exit
<1>2. outcome' \in [Jobs -> Outcomes \cup {"pending"}]
  BY TypeStep DEF Next, TypeOK
<1>3. \A k \in Jobs : /\ outcome'[k] = "pending" => outcome[k] = "pending"
                      /\ task[w] # k => outcome'[k] = outcome[k]
                      /\ task[w] = k => outcome'[k] # "pending"
  BY <1>1, JobsAssumption DEF ExitOutcome, Settle, TypeOK
<1>4. \A k \in Queued : k \in Jobs /\ task[w] # k
  BY RangeOfSeq DEF PlacesInv, OnePlacePerJob, Queued, TypeOK
<1>5. CASE ExitReplaced(w)
  <2> DEFINE n == Head(queue)
  <2>1. /\ ~Closed /\ queue # <<>> /\ StartNew(n, workers \ {w}) /\ queue' = Tail(queue)
    BY <1>5 DEF ExitReplaced
  <2>2. /\ n \in Jobs /\ n \in Queued /\ Queued' = Queued \ {n}
        /\ IsInjective(queue') /\ queue' \in Seq(Jobs)
    BY <2>1, TailRange DEF PlacesInv, OnePlacePerJob, Queued, TypeOK
  <2>3. \A v \in Workers : task[v] # n
    BY <2>2 DEF PlacesInv, OnePlacePerJob
  <2> HIDE DEF n
  <2>4. \A v \in workers \ (workers \ {w}) : task[v] # NoJob => outcome'[task[v]] # "pending"
    BY <1>3 DEF TypeOK
  <2>5. QED
    BY <1>1, <1>2, <1>3, <1>4, <2>1, <2>2, <2>3, <2>4, StartNewPlaces
<1>6. CASE ExitUnreplaced(w)
  <2>1. /\ workers' = workers \ {w} /\ task' = [task EXCEPT ![w] = NoJob]
        /\ terminating' = [terminating EXCEPT ![w] = FALSE]
        /\ state' = state /\ queue' = queue
    BY <1>6 DEF ExitUnreplaced
  <2>2. SlotsInOrder'
    BY <1>1, <2>1 DEF PlacesInv, SlotsInOrder, Closed, TypeOK
  <2>3. OnePlacePerJob'
    BY <1>3, <1>4, <2>1, JobsAssumption DEF PlacesInv, OnePlacePerJob, Queued, TypeOK
  <2>4. NoForgottenJob'
    BY <1>1, <1>3, <2>1 DEF PlacesInv, NoForgottenJob, Held, Queued, TypeOK
  <2>5. QED
    BY <2>2, <2>3, <2>4 DEF PlacesInv
<1>7. QED
  BY <1>5, <1>6 DEF Exit

\* Shutdown settles the queue, later the jobs still held, and drops nothing.
LEMMA ClosePlaces ==
  ASSUME TypeOK, PlacesInv, Close \/ CloseDrained \/ CloseTimeout \/ CloseDone
  PROVE  PlacesInv'
<1>1. /\ state' = state /\ workers' = workers /\ task' = task
      /\ \A w \in Workers : w \notin workers => ~terminating'[w]
  BY DEF PlacesInv, SlotsInOrder, Close, CloseDrained, CloseTimeout, CloseDone, TerminateAll
<1>2. \A k \in Jobs : outcome'[k] = "pending" => outcome[k] = "pending"
  BY DEF Close, CloseDrained, CloseTimeout, CloseDone, TerminateAll, AbortedQueue
<1>3. queue' = <<>> /\ Closed' /\ (phase' = "closed" => workers' = {})
  BY DEF PlacesInv, SlotsInOrder, Closed, Close, CloseDrained, CloseTimeout, CloseDone, Terminated,
         TerminateAll
<1>4. \A k \in Jobs : k \in Queued => outcome'[k] # "pending"
  <2>1. CASE Close
    BY <2>1 DEF Close, TerminateAll, AbortedQueue
  <2>2. CASE ~Close
    <3>1. queue = <<>>
      BY <2>2 DEF PlacesInv, SlotsInOrder, Closed, CloseDrained, CloseTimeout, CloseDone
    <3>2. QED
      BY <3>1 DEF Queued, Range
  <2>3. QED
    BY <2>1, <2>2
<1>5. Queued' = {} /\ IsInjective(queue')
  BY <1>3 DEF Queued, Range, IsInjective
<1>6. SlotsInOrder'
  BY <1>1, <1>3 DEF PlacesInv, SlotsInOrder
<1>7. OnePlacePerJob'
  BY <1>1, <1>5 DEF PlacesInv, OnePlacePerJob
<1>8. NoForgottenJob'
  BY <1>1, <1>2, <1>4, <1>5 DEF PlacesInv, NoForgottenJob, Held
<1>9. QED
  BY <1>6, <1>7, <1>8 DEF PlacesInv

LEMMA PlacesStep == TypeOK /\ PlacesInv /\ [Next]_vars => PlacesInv'
<1> SUFFICES ASSUME TypeOK, PlacesInv, [Next]_vars PROVE PlacesInv'
  OBVIOUS
<1>1. ASSUME NEW j \in Jobs, Run(j) PROVE PlacesInv'
  BY <1>1, RefusePlaces, RunOnIdlePlaces, RunOnNewPlaces, EnqueuePlaces
     DEF Run, RefuseClosed, RefuseUnclonable, RefuseAborted, RefuseZeroTimeout,
         RefuseQueueFull, Outcomes
<1>2. ASSUME NEW j \in Jobs, Abort(j) \/ Timeout(j) PROVE PlacesInv'
  BY <1>2, CancelPlaces DEF Abort, Timeout, Outcomes
<1>3. ASSUME NEW w \in Workers, NEW m \in Messages, OnMessage(w, m) PROVE PlacesInv'
  BY <1>3, ReplyPlaces, BadMessagePlaces DEF OnMessage
<1>4. CASE UNCHANGED vars
  BY <1>4 DEF vars, PlacesInv, SlotsInOrder, OnePlacePerJob, NoForgottenJob,
              Closed, Queued, Held
<1>5. QED
  BY <1>1, <1>2, <1>3, <1>4, GracePlaces, ExitPlaces, ClosePlaces DEF Next
-----------------------------------------------------------------------------
\* How many workers and waiting jobs there are.
LEMMA WorkerCount ==
  ASSUME TypeOK
  PROVE  /\ IsFiniteSet(workers) /\ Cardinality(workers) \in Nat
         /\ \A w \in workers : Cardinality(workers \ {w}) = Cardinality(workers) - 1
         /\ \A w \in Workers \ workers :
              Cardinality(workers \cup {w}) = Cardinality(workers) + 1
         /\ \A w \in workers : \A v \in Workers \ (workers \ {w}) :
              Cardinality((workers \ {w}) \cup {v}) = Cardinality(workers)
<1>1. IsFiniteSet(workers)
  BY PoolAssumption, FS_Subset DEF TypeOK
<1>2. Cardinality(workers) \in Nat
  BY <1>1, FS_CardinalityType
<1>3. \A w \in workers : /\ IsFiniteSet(workers \ {w})
                         /\ Cardinality(workers \ {w}) = Cardinality(workers) - 1
  BY <1>1, FS_RemoveElement
<1>4. \A w \in Workers \ workers :
        Cardinality(workers \cup {w}) = Cardinality(workers) + 1
  BY <1>1, FS_AddElement
<1>5. \A w \in workers : \A v \in Workers \ (workers \ {w}) :
        Cardinality((workers \ {w}) \cup {v}) = Cardinality(workers \ {w}) + 1
  BY <1>3, FS_AddElement
<1>6. ASSUME NEW w \in workers, NEW v \in Workers \ (workers \ {w})
      PROVE  Cardinality((workers \ {w}) \cup {v}) = Cardinality(workers)
  <2>1. /\ Cardinality((workers \ {w}) \cup {v}) = Cardinality(workers \ {w}) + 1
        /\ Cardinality(workers \ {w}) = Cardinality(workers) - 1
    BY <1>3, <1>5
  <2>2. QED
    BY <1>2, <2>1
<1>7. QED
  BY <1>1, <1>2, <1>3, <1>4, <1>6

LEMMA LimitsStep == TypeOK /\ WithinLimits /\ [Next]_vars => WithinLimits'
<1> SUFFICES ASSUME TypeOK, WithinLimits, [Next]_vars PROVE WithinLimits'
  OBVIOUS
<1> USE PoolAssumption
<1>1. Len(queue) \in Nat /\ Cardinality(workers) \in Nat
  BY LenProperties, WorkerCount DEF TypeOK
<1>2. ASSUME NEW j \in Jobs, Run(j) PROVE WithinLimits'
  <2>1. ASSUME NEW r \in Outcomes, Refuse(j, r) PROVE WithinLimits'
    BY <2>1 DEF Refuse, WithinLimits
  <2>2. CASE RunOnIdle(j)
    BY <2>2 DEF RunOnIdle, WithinLimits
  <2>3. CASE RunOnNew(j)
    <3>1. PICK w \in Workers \ workers : workers' = workers \cup {w}
      BY <2>3 DEF RunOnNew, StartNew
    <3>2. QED
      BY <1>1, <2>3, <3>1, WorkerCount DEF RunOnNew, FreeSlot, WithinLimits
  <2>4. CASE Enqueue(j)
    <3>1. Len(queue') = Len(queue) + 1
      BY <2>4, AppendProperties DEF Enqueue, TypeOK
    <3>2. QED
      BY <1>1, <2>4, <3>1 DEF Enqueue, WithinLimits
  <2>5. QED
    BY <1>2, <2>1, <2>2, <2>3, <2>4
       DEF Run, RefuseClosed, RefuseUnclonable, RefuseAborted,
           RefuseZeroTimeout, RefuseQueueFull, Outcomes
<1>3. ASSUME NEW j \in Jobs, Abort(j) \/ Timeout(j) PROVE WithinLimits'
  <2>1. workers' = workers /\ (queue' = queue \/ queue' = Without(j))
    BY <1>3 DEF Abort, Timeout, Cancel, CancelQueued, CancelRunning
  <2>2. Len(Without(j)) <= Len(queue) /\ Len(Without(j)) \in Nat
    BY WithoutFacts, LenProperties
  <2>3. QED
    BY <1>1, <2>1, <2>2 DEF WithinLimits
<1>4. ASSUME NEW w \in Workers, NEW m \in Messages, OnMessage(w, m) PROVE WithinLimits'
  <2>1. workers' = workers /\ (queue' = queue \/ (queue # <<>> /\ queue' = Tail(queue)))
    BY <1>4 DEF OnMessage, Reply, BadMessage, Release
  <2>2. QED
    BY <1>1, <2>1, TailRange DEF WithinLimits, TypeOK
<1>5. ASSUME NEW w \in Workers, Exit(w) PROVE WithinLimits'
  <2>1. CASE ExitReplaced(w)
    <3>1. /\ queue # <<>> /\ queue' = Tail(queue)
          /\ \E v \in Workers \ (workers \ {w}) : workers' = (workers \ {w}) \cup {v}
      BY <2>1 DEF ExitReplaced, StartNew
    <3>2. QED
      BY <1>1, <1>5, <3>1, WorkerCount, TailRange DEF WithinLimits, TypeOK, Exit
  <2>2. CASE ExitUnreplaced(w)
    BY <1>1, <1>5, <2>2, WorkerCount DEF ExitUnreplaced, Exit, WithinLimits
  <2>3. QED
    BY <1>5, <2>1, <2>2 DEF Exit
<1>6. CASE Close \/ CloseDrained \/ CloseTimeout \/ CloseDone
  <2>1. workers' = workers /\ (queue' = queue \/ queue' = <<>>)
    BY <1>6 DEF Close, CloseDrained, CloseTimeout, CloseDone, TerminateAll
  <2>2. QED
    BY <1>1, <2>1, EmptySeq DEF WithinLimits
<1>7. CASE UNCHANGED vars
  BY <1>7 DEF vars, WithinLimits
<1>8. QED
  BY <1>2, <1>3, <1>4, <1>5, <1>6, <1>7 DEF Next, GraceExpires, WithinLimits

\* The queue is handed on by every step that frees a worker.
LEMMA FullPoolStep ==
  TypeOK /\ PlacesInv /\ CapacityInv /\ [Next]_vars => QueueWaitsForAFullPool'
<1> SUFFICES ASSUME TypeOK, PlacesInv, CapacityInv, [Next]_vars, queue' # <<>>
             PROVE  /\ ~Closed' /\ Cardinality(workers') = PoolSize
                    /\ \A w \in workers' : task'[w] # NoJob \/ terminating'[w]
  BY DEF QueueWaitsForAFullPool
<1> DEFINE Full == /\ ~Closed' /\ Cardinality(workers') = PoolSize
                   /\ \A w \in workers' : task'[w] # NoJob \/ terminating'[w]
<1> USE PoolAssumption
<1>1. queue # <<>> => /\ ~Closed /\ Cardinality(workers) = PoolSize
                      /\ \A w \in workers : task[w] # NoJob \/ terminating[w]
  BY DEF CapacityInv, QueueWaitsForAFullPool
<1>2. ASSUME NEW j \in Jobs, Run(j) PROVE Full
  <2>1. ASSUME NEW r \in Outcomes, Refuse(j, r) PROVE Full
    BY <1>1, <2>1 DEF Refuse, Closed
  <2>2. CASE RunOnIdle(j)
    BY <1>1, <2>2 DEF RunOnIdle, Idle
  <2>3. CASE RunOnNew(j)
    BY <1>1, <2>3, WorkerCount DEF RunOnNew, FreeSlot
  <2>4. CASE Enqueue(j)
    <3>1. Cardinality(workers) = PoolSize
      BY <2>4, WorkerCount DEF Enqueue, PoolBusy, FreeSlot, CapacityInv, WithinLimits
    <3>2. QED
      BY <2>4, <3>1 DEF Enqueue, PoolBusy, FreeSlot, Idle, Closed
  <2>5. QED
    BY <1>2, <2>1, <2>2, <2>3, <2>4
       DEF Run, RefuseClosed, RefuseUnclonable, RefuseAborted,
           RefuseZeroTimeout, RefuseQueueFull, Outcomes
<1>3. ASSUME NEW j \in Jobs, Abort(j) \/ Timeout(j) PROVE Full
  <2>1. /\ workers' = workers /\ task' = task /\ terminating' = terminating
        /\ phase' = phase /\ (queue' = queue \/ queue' = Without(j))
    BY <1>3 DEF Abort, Timeout, Cancel, CancelQueued, CancelRunning
  <2>2. queue # <<>>
    <3>1. queue = <<>> => Without(j) = queue
      BY EmptySeq DEF Without, Queued, Range
    <3>2. QED
      BY <2>1, <3>1
  <2>3. QED
    BY <1>1, <2>1, <2>2 DEF Closed
<1>4. ASSUME NEW j \in Jobs, GraceExpires(j) PROVE Full
  BY <1>1, <1>4 DEF GraceExpires, Closed, TypeOK
<1>5. ASSUME NEW w \in Workers, NEW m \in Messages, Reply(w, m) PROVE Full
  <2>1. queue # <<>> /\ ~Closed
    BY <1>5, <1>1 DEF Reply, Release
  <2>2. /\ Head(queue) \in Jobs /\ Head(queue) # NoJob
        /\ task' = [task EXCEPT ![w] = Head(queue)]
    BY <1>5, <2>1, TailRange, JobsAssumption DEF Reply, Release, Start, TypeOK
  <2>3. QED
    BY <1>1, <1>5, <2>1, <2>2 DEF Reply, Closed, TypeOK
<1>6. ASSUME NEW w \in Workers, NEW m \in Messages, BadMessage(w, m) PROVE Full
  BY <1>1, <1>6 DEF BadMessage, Closed, TypeOK
<1>7. ASSUME NEW w \in Workers, Exit(w) PROVE Full
  <2>1. w \in workers /\ phase' = phase /\ ExitReplaced(w)
    BY <1>1, <1>7 DEF Exit, ExitUnreplaced
  <2>2. queue # <<>> /\ Head(queue) # NoJob
    BY <2>1, TailRange, JobsAssumption DEF ExitReplaced, TypeOK
  <2>3. PICK v \in Workers \ (workers \ {w}) :
          /\ workers' = (workers \ {w}) \cup {v}
          /\ task' = [u \in Workers |->
                        IF u = v THEN Head(queue)
                        ELSE IF u \in workers \ {w} THEN task[u] ELSE NoJob]
          /\ terminating' = [u \in Workers |-> u \in workers \ {w} /\ terminating[u]]
    BY <2>1 DEF ExitReplaced, StartNew
  <2>4. Cardinality(workers') = PoolSize /\ ~Closed'
    BY <1>1, <2>1, <2>2, <2>3, WorkerCount DEF Closed
  <2>5. ASSUME NEW u \in workers' PROVE task'[u] # NoJob \/ terminating'[u]
    BY <1>1, <2>2, <2>3 DEF TypeOK
  <2>6. QED
    BY <2>4, <2>5
<1>8. CASE Close \/ CloseDrained \/ CloseTimeout \/ CloseDone
  <2>1. queue' = <<>> \/ (queue' = queue /\ Closed)
    BY <1>8 DEF Close, CloseDrained, CloseTimeout, CloseDone, TerminateAll, Closed
  <2>2. QED
    BY <1>1, <2>1
<1>9. CASE UNCHANGED vars
  BY <1>1, <1>9 DEF vars, Closed
<1>10. QED
  BY <1>2, <1>3, <1>4, <1>5, <1>6, <1>7, <1>8, <1>9 DEF Next, OnMessage
-----------------------------------------------------------------------------
\* The inductive invariant.
THEOREM InductiveInvariant == Spec => []IInv
<1>1. Init => IInv
  <2> SUFFICES ASSUME Init PROVE IInv
    OBVIOUS
  <2>1. TypeOK
    BY EmptySeq DEF Init, TypeOK, Outcomes, Phases
  <2>2. Queued = {} /\ IsInjective(queue) /\ Len(queue) = 0
    BY EmptySeq DEF Init, Queued, Range, IsInjective
  <2>3. PlacesInv
    BY <2>2 DEF Init, PlacesInv, SlotsInOrder, OnePlacePerJob, NoForgottenJob, Closed
  <2>4. CapacityInv
    BY <2>2, FS_EmptySet, PoolAssumption
       DEF Init, CapacityInv, QueueWaitsForAFullPool, WithinLimits
  <2>5. QED
    BY <2>1, <2>3, <2>4 DEF IInv
<1>2. IInv /\ [Next]_vars => IInv'
  BY TypeStep, PlacesStep, LimitsStep, FullPoolStep DEF IInv, CapacityInv
<1>3. QED
  BY <1>1, <1>2, PTL DEF Spec

\* No free worker and no free slot is ever overlooked while a job waits:
\* run, replies, exits, cancellations and shutdown never lose a wakeup.
THEOREM QueueNeverStranded == Spec => []QueueWaitsForAFullPool
<1>1. IInv => QueueWaitsForAFullPool
  BY DEF IInv, CapacityInv
<1>2. QED
  BY <1>1, InductiveInvariant, PTL

\* poolSize and queueSize bound the threads and the waiting jobs.
THEOREM LimitsHold == Spec => []WithinLimits
<1>1. IInv => WithinLimits
  BY DEF IInv, CapacityInv
<1>2. QED
  BY <1>1, InductiveInvariant, PTL

\* A job waits once or is held by one worker, never both.
THEOREM JobsHaveOnePlace == Spec => []OnePlacePerJob
<1>1. IInv => OnePlacePerJob
  BY DEF IInv, PlacesInv
<1>2. QED
  BY <1>1, InductiveInvariant, PTL

\* An unsettled admitted job is always still in the pool's hands.
THEOREM NothingForgotten == Spec => []NoForgottenJob
<1>1. IInv => NoForgottenJob
  BY DEF IInv, PlacesInv
<1>2. QED
  BY <1>1, InductiveInvariant, PTL

\* After close() there is no thread, no queue and no unsettled admitted job.
THEOREM CloseIsComplete == Spec => []ClosedIsQuiet
<1>1. IInv => ClosedIsQuiet
  <2> SUFFICES ASSUME IInv, phase = "closed"
               PROVE  /\ workers = {} /\ queue = <<>>
                      /\ \A j \in Jobs : state[j] # "new" => outcome[j] # "pending"
    BY DEF ClosedIsQuiet
  <2>1. workers = {} /\ queue = <<>>
    BY DEF IInv, PlacesInv, SlotsInOrder, Closed
  <2>2. Held = {} /\ Queued = {}
    BY <2>1 DEF Held, Queued, Range
  <2>3. QED
    BY <2>1, <2>2 DEF IInv, PlacesInv, NoForgottenJob
<1>2. QED
  BY <1>1, InductiveInvariant, PTL

\* The first outcome of a job is its last: cancellation, a late reply, a dead
\* worker and shutdown never overwrite each other's decision.
THEOREM OutcomesAreFinal == Spec => SettledOnce
<1>1. TypeOK /\ [Next]_vars =>
        [\A j \in Jobs : outcome[j] # "pending" => outcome'[j] = outcome[j]]_vars
  <2> SUFFICES ASSUME TypeOK, Next, NEW j \in Jobs, outcome[j] # "pending"
               PROVE  outcome'[j] = outcome[j]
    OBVIOUS
  <2>1. \A k \in Jobs : \A r : Settle(k, r)[j] = outcome[j]
    BY DEF Settle, TypeOK
  <2>2. ASSUME NEW k \in Jobs, Run(k) PROVE outcome'[j] = outcome[j]
    BY <2>2 DEF Run, RefuseClosed, RefuseUnclonable, RefuseAborted, RefuseZeroTimeout,
                RefuseQueueFull, Refuse, Submittable, RunOnIdle, RunOnNew, Enqueue, TypeOK
  <2>3. ASSUME NEW k \in Jobs, Abort(k) \/ Timeout(k) PROVE outcome'[j] = outcome[j]
    BY <2>1, <2>3 DEF Abort, Timeout, Cancel, CancelQueued, CancelRunning
  <2>4. ASSUME NEW w \in Workers, NEW m \in Messages, OnMessage(w, m)
        PROVE  outcome'[j] = outcome[j]
    BY <2>1, <2>4 DEF OnMessage, Reply, BadMessage, TypeOK
  <2>5. ASSUME NEW w \in Workers, Exit(w) PROVE outcome'[j] = outcome[j]
    BY <2>1, <2>5 DEF Exit, ExitOutcome, TypeOK
  <2>6. ASSUME Close \/ CloseDrained \/ CloseTimeout \/ CloseDone
        PROVE  outcome'[j] = outcome[j]
    BY <2>6 DEF Close, CloseDrained, CloseTimeout, CloseDone, TerminateAll, AbortedQueue
  <2>7. QED
    BY <2>2, <2>3, <2>4, <2>5, <2>6 DEF Next, GraceExpires
<1>2. QED
  BY <1>1, TypeCorrect, PTL DEF Spec, SettledOnce

\* What the queue operations do to the order of those who wait.
LEMMA OrderFacts ==
  ASSUME NEW S, NEW q \in Seq(S), NEW a \in Range(q), NEW b
  PROVE  /\ \A e \in S : e \notin Range(q) /\ Before(Append(q, e), b, a) => Before(q, b, a)
         /\ \A i \in 1..Len(q) : Before(RemoveAt(q, i), b, a) => Before(q, b, a)
         /\ Before(Tail(q), b, a) => Before(q, b, a)
         /\ a \in Range(Tail(q)) => Before(q, Head(q), a)
<1>1. /\ Len(q) \in Nat /\ DOMAIN q = 1..Len(q) /\ q # <<>>
      /\ Tail(q) \in Seq(S) /\ Len(Tail(q)) = Len(q) - 1 /\ Head(q) = q[1]
      /\ \A k \in 1..(Len(q) - 1) : Tail(q)[k] = q[k + 1]
      /\ DOMAIN Tail(q) = 1..(Len(q) - 1)
  <2>1. Len(q) \in Nat /\ DOMAIN q = 1..Len(q)
    BY LenProperties
  <2>2. q # <<>>
    BY EmptySeq DEF Range
  <2>3. QED
    BY <2>1, <2>2, HeadTailProperties, LenProperties
<1>2. ASSUME NEW e \in S, e \notin Range(q), Before(Append(q, e), b, a)
      PROVE  Before(q, b, a)
  <2>1. /\ Append(q, e) \in Seq(S) /\ Len(Append(q, e)) = Len(q) + 1
        /\ \A k \in 1..Len(q) : Append(q, e)[k] = q[k]
        /\ Append(q, e)[Len(q) + 1] = e
    BY AppendProperties
  <2>2. DOMAIN Append(q, e) = 1..(Len(q) + 1)
    BY <1>1, <2>1, LenProperties
  <2>3. PICK i \in 1..(Len(q) + 1), k \in 1..(Len(q) + 1) :
          i < k /\ Append(q, e)[i] = b /\ Append(q, e)[k] = a
    BY <1>2, <2>2 DEF Before
  <2>4. k # Len(q) + 1
    BY <1>2, <2>1, <2>3
  <2>5. i \in 1..Len(q) /\ k \in 1..Len(q) /\ q[i] = b /\ q[k] = a
    BY <1>1, <2>1, <2>3, <2>4
  <2>6. QED
    BY <1>1, <2>3, <2>5 DEF Before
<1>3. ASSUME NEW i \in 1..Len(q), Before(RemoveAt(q, i), b, a)
      PROVE  Before(q, b, a)
  <2>1. /\ RemoveAt(q, i) \in Seq(S) /\ Len(RemoveAt(q, i)) = Len(q) - 1
        /\ \A k \in 1..(Len(q) - 1) :
             RemoveAt(q, i)[k] = IF k < i THEN q[k] ELSE q[k + 1]
    BY RemoveAtFacts
  <2>2. DOMAIN RemoveAt(q, i) = 1..(Len(q) - 1)
    BY <1>1, <2>1, LenProperties
  <2>3. PICK m \in 1..(Len(q) - 1), n \in 1..(Len(q) - 1) :
          m < n /\ RemoveAt(q, i)[m] = b /\ RemoveAt(q, i)[n] = a
    BY <1>3, <2>2 DEF Before
  <2>4. PICK u \in 1..Len(q), v \in 1..Len(q) : u < v /\ q[u] = b /\ q[v] = a
    <3> DEFINE f(k) == IF k < i THEN k ELSE k + 1
    <3>1. f(m) \in 1..Len(q) /\ f(n) \in 1..Len(q) /\ f(m) < f(n)
      BY <1>1, <2>3
    <3>2. q[f(m)] = b /\ q[f(n)] = a
      BY <2>1, <2>3
    <3> HIDE DEF f
    <3>3. QED
      BY <3>1, <3>2
  <2>5. QED
    BY <1>1, <2>4 DEF Before
<1>4. ASSUME Before(Tail(q), b, a) PROVE Before(q, b, a)
  <2>1. PICK m \in 1..(Len(q) - 1), n \in 1..(Len(q) - 1) :
          m < n /\ q[m + 1] = b /\ q[n + 1] = a
    BY <1>1, <1>4 DEF Before
  <2>2. m + 1 \in DOMAIN q /\ n + 1 \in DOMAIN q /\ m + 1 < n + 1
    BY <1>1, <2>1
  <2>3. QED
    BY <2>1, <2>2 DEF Before
<1>5. ASSUME a \in Range(Tail(q)) PROVE Before(q, Head(q), a)
  <2>1. PICK n \in 1..(Len(q) - 1) : q[n + 1] = a
    BY <1>1, <1>5 DEF Range
  <2>2. 1 \in DOMAIN q /\ n + 1 \in DOMAIN q /\ 1 < n + 1
    BY <1>1, <2>1
  <2>3. QED
    BY <1>1, <2>1, <2>2 DEF Before
<1>6. QED
  BY <1>2, <1>3, <1>4, <1>5

\* Jobs start in the order in which they were admitted: while a job waits,
\* only jobs ahead of it start, and no job gets ahead of it.
THEOREM StartsInOrder == Spec => NoOvertaking
<1>1. IInv /\ [Next]_vars =>
        [\A a \in Queued \cap Queued' : \A b \in Jobs :
           Starts(b) \/ Before(queue', b, a) => Before(queue, b, a)]_vars
  <2> SUFFICES ASSUME IInv, Next, NEW a \in Queued \cap Queued', NEW b \in Jobs,
                      Starts(b) \/ Before(queue', b, a)
               PROVE  Before(queue, b, a)
    OBVIOUS
  <2>1. /\ TypeOK /\ queue \in Seq(Jobs) /\ queue # <<>>
        /\ ~Closed /\ Cardinality(workers) = PoolSize
        /\ \A w \in workers : task[w] # NoJob \/ terminating[w]
        /\ a \in Range(queue) /\ a \in Range(queue')
    BY EmptySeq DEF IInv, CapacityInv, QueueWaitsForAFullPool, TypeOK, Queued, Range
  <2>2. ASSUME queue' = queue, ~Starts(b) PROVE Before(queue, b, a)
    BY <2>2
  <2>3. ASSUME NEW k \in Jobs, Run(k) PROVE Before(queue, b, a)
    <3>1. ~RunOnIdle(k) /\ ~RunOnNew(k)
      BY <2>1, PoolAssumption DEF RunOnIdle, RunOnNew, Idle, FreeSlot
    <3>2. CASE Enqueue(k)
      <4>1. queue' = Append(queue, k) /\ ~Starts(b) /\ k \notin Range(queue)
        BY <2>1, <3>2 DEF Enqueue, Starts, Submittable, IInv, PlacesInv, OnePlacePerJob,
                          Queued, TypeOK
      <4>2. QED
        BY <2>1, <4>1, OrderFacts
    <3>3. CASE ~Enqueue(k)
      <4>1. queue' = queue /\ state' = state
        BY <2>3, <3>1, <3>3 DEF Run, RefuseClosed, RefuseUnclonable, RefuseAborted,
             RefuseZeroTimeout, RefuseQueueFull, Refuse
      <4>2. QED
        BY <2>2, <4>1 DEF Starts
    <3>4. QED
      BY <3>2, <3>3
  <2>4. ASSUME NEW k \in Jobs, Abort(k) \/ Timeout(k) \/ GraceExpires(k)
        PROVE  Before(queue, b, a)
    <3>1. state' = state /\ (queue' = queue \/ queue' = Without(k))
      BY <2>4 DEF Abort, Timeout, Cancel, CancelQueued, CancelRunning, GraceExpires
    <3>2. CASE queue' = queue
      BY <2>2, <3>1, <3>2 DEF Starts
    <3>3. CASE k \in Queued /\ queue' = Without(k)
      <4>1. \E i \in 1..Len(queue) : queue' = RemoveAt(queue, i)
        BY <2>1, <3>3, LenProperties DEF Without, Queued, Range
      <4>2. Before(queue', b, a)
        BY <3>1 DEF Starts
      <4>3. QED
        BY <2>1, <4>1, <4>2, OrderFacts
    <3>4. QED
      BY <3>1, <3>2, <3>3 DEF Without
  <2>5. ASSUME queue' = Tail(queue), Starts(b) => b = Head(queue)
        PROVE  Before(queue, b, a)
    BY <2>1, <2>5, OrderFacts
  <2>6. ASSUME NEW w \in Workers, NEW m \in Messages, OnMessage(w, m)
        PROVE  Before(queue, b, a)
    <3>1. CASE Reply(w, m)
      BY <2>1, <2>5, <3>1 DEF Reply, Release, Start, Starts, TypeOK
    <3>2. CASE BadMessage(w, m)
      BY <2>2, <3>2 DEF BadMessage, Starts
    <3>3. QED
      BY <2>6, <3>1, <3>2 DEF OnMessage
  <2>7. ASSUME NEW w \in Workers, Exit(w) PROVE Before(queue, b, a)
    <3>1. /\ queue' = Tail(queue)
          /\ state' = [state EXCEPT ![Head(queue)] = "running"]
      BY <2>1, <2>7 DEF Exit, ExitReplaced, ExitUnreplaced, StartNew
    <3>2. QED
      BY <2>1, <2>5, <3>1 DEF Starts, TypeOK
  <2>8. ASSUME Close \/ CloseDrained \/ CloseTimeout \/ CloseDone
        PROVE  Before(queue, b, a)
    <3>1. queue' = <<>>
      BY <2>1, <2>8 DEF Close, CloseDrained, CloseTimeout, CloseDone, Closed
    <3>2. QED
      BY <2>1, <3>1 DEF Range
  <2>9. QED
    BY <2>3, <2>4, <2>6, <2>7, <2>8 DEF Next
<1>2. QED
  BY <1>1, InductiveInvariant, PTL DEF Spec, NoOvertaking

-----------------------------------------------------------------------------
(* The pool implements the job service.  Each action of the pool is mapped *)
(* to an action of JobService or to a stutter; the inductive invariant says*)
(* why a freed place, and never an overlooked one, serves the head of the  *)
(* line.                                                                   *)

\* The operators both modules take from the library.
LEMMA Same ==
  ASSUME NEW s, NEW i
  PROVE  /\ Service!Range(s) = Range(s)
         /\ Service!RemoveAt(s, i) = RemoveAt(s, i)
         /\ Service!Cardinality(s) = Cardinality(s)
BY DEF Service!Range, Range, Service!RemoveAt, RemoveAt, Service!Cardinality, Cardinality

\* A place is a worker with a job, so a worker without one is a free place.
LEMMA HeldCount ==
  ASSUME TypeOK
  PROVE  /\ Cardinality(Held) \in Nat
         /\ Cardinality(Held) <= Cardinality(workers)
         /\ \A w \in workers :
              task[w] = NoJob => Cardinality(Held) < Cardinality(workers)
<1> DEFINE busy == {w \in workers : task[w] # NoJob}
           holds == [w \in busy |-> task[w]]
<1>1. IsFiniteSet(workers) /\ Cardinality(workers) \in Nat
  BY WorkerCount
<1>2. IsFiniteSet(busy) /\ Cardinality(busy) <= Cardinality(workers)
  BY <1>1, FS_Subset
<1>3. holds \in Surjection(busy, Held)
  BY DEF Surjection, Held
<1> HIDE DEF holds
<1>4. IsFiniteSet(Held) /\ Cardinality(Held) <= Cardinality(busy)
  BY <1>2, <1>3, FS_Surjection
<1>5. Cardinality(Held) \in Nat /\ Cardinality(busy) \in Nat
  BY <1>2, <1>4, FS_CardinalityType
<1>6. ASSUME NEW w \in workers, task[w] = NoJob
      PROVE  Cardinality(Held) < Cardinality(workers)
  <2>1. Cardinality(workers \ {w}) = Cardinality(workers) - 1
    BY WorkerCount
  <2>2. IsFiniteSet(workers \ {w}) /\ busy \in SUBSET (workers \ {w})
    BY <1>1, <1>6, FS_RemoveElement
  <2>3. Cardinality(busy) <= Cardinality(workers \ {w})
    BY <2>2, FS_Subset
  <2> HIDE DEF busy
  <2>4. QED
    BY <1>1, <1>4, <1>5, <2>1, <2>3
<1> HIDE DEF busy
<1>7. QED
  BY <1>1, <1>2, <1>4, <1>5, <1>6

-----------------------------------------------------------------------------
\* Calls that are refused, or admitted to a worker or to the line.
LEMMA RefuseMaps ==
  ASSUME IInv, NEW j \in Jobs, NEW result \in Outcomes, Refuse(j, result),
         result \in {"closed", "queueFull", "unclonable", "aborted", "timedOut"},
         result = "closed" <=> Closed,
         result = "queueFull" => Len(queue) >= QueueSize
  PROVE  Service!Refuse(j, result)
<1>1. /\ state[j] = "new" /\ outcome[j] = "pending"
      /\ outcome' = [outcome EXCEPT ![j] = result]
      /\ state' = state /\ queue' = queue /\ workers' = workers
      /\ task' = task /\ phase' = phase
  BY DEF Refuse, Submittable
<1>2. j \notin Range(queue)
  BY <1>1 DEF IInv, PlacesInv, OnePlacePerJob, Queued
<1>3. Service!Fresh(j) /\ Service!Settled(j, result) = outcome'
  BY <1>1, <1>2, Same DEF Service!Fresh, Service!Pending, Service!Settled, begun
<1>4. servicePhase # "open" <=> Closed
  BY DEF servicePhase, Closed, IInv, TypeOK, Phases
<1>5. Held' = Held /\ begun' = begun /\ servicePhase' = servicePhase
  BY <1>1 DEF Held, begun, servicePhase
<1>6. QED
  BY <1>1, <1>3, <1>4, <1>5 DEF Service!Refuse

\* A job that starts on arrival finds the line empty and a free place.
LEMMA StartMaps ==
  ASSUME IInv, NEW j \in Jobs, RunOnIdle(j) \/ RunOnNew(j)
  PROVE  Service!Serve(j)
<1> USE DEF IInv, PlacesInv, CapacityInv
<1>1. /\ ~Closed /\ state[j] = "new" /\ outcome[j] = "pending"
      /\ queue' = queue /\ outcome' = outcome /\ phase' = phase
      /\ state' = [state EXCEPT ![j] = "running"]
  BY DEF RunOnIdle, RunOnNew, Start, StartNew, Submittable
<1>2. queue = <<>> /\ Cardinality(Held) < PoolSize
  <2>1. Cardinality(Held) \in Nat /\ Cardinality(workers) \in Nat /\ PoolSize \in Nat
    BY HeldCount, WorkerCount, PoolAssumption
  <2>2. CASE RunOnIdle(j)
    <3>1. PICK w \in workers : Idle(w)
      BY <2>2 DEF RunOnIdle
    <3>2. QED
      BY <2>1, <3>1, HeldCount DEF Idle, QueueWaitsForAFullPool, WithinLimits
  <2>3. CASE RunOnNew(j)
    BY <2>1, <2>3, HeldCount DEF RunOnNew, FreeSlot, QueueWaitsForAFullPool
  <2>4. QED
    BY <2>2, <2>3
<1>3. Held' = Held \cup {j}
  <2>1. CASE RunOnIdle(j)
    <3>1. PICK w \in workers : Idle(w) /\ Start(w, j)
      BY <2>1 DEF RunOnIdle
    <3>2. workers' = workers /\ w \in Workers /\ task' = [task EXCEPT ![w] = j]
      BY <2>1, <3>1 DEF RunOnIdle, Start, TypeOK
    <3>3. task[w] = NoJob /\ j # NoJob /\ task \in [Workers -> Jobs \cup {NoJob}]
      BY <3>1, JobsAssumption DEF Idle, TypeOK
    <3>4. QED
      BY <3>1, <3>2, <3>3 DEF Held, TypeOK
  <2>2. CASE RunOnNew(j)
    <3>1. PICK w \in Workers \ workers :
            /\ workers' = workers \cup {w}
            /\ task' = [v \in Workers |->
                          IF v = w THEN j ELSE IF v \in workers THEN task[v] ELSE NoJob]
      BY <2>2 DEF RunOnNew, StartNew
    <3>2. j # NoJob /\ workers \subseteq Workers
      BY JobsAssumption DEF TypeOK
    <3>3. QED
      BY <3>1, <3>2 DEF Held
  <2>3. QED
    BY <2>1, <2>2
<1>4. begun' = begun \cup {j}
  BY <1>1 DEF begun, TypeOK
<1>5. servicePhase = "open" /\ servicePhase' = servicePhase
  BY <1>1 DEF servicePhase, Closed
<1>6. Service!Fresh(j)
  BY <1>1, <1>2, Same DEF Service!Fresh, Service!Pending, begun, OnePlacePerJob, Queued
<1>7. QED
  BY <1>1, <1>2, <1>3, <1>4, <1>5, <1>6, Same DEF Service!Serve, Service!HasPlace

LEMMA EnqueueMaps ==
  ASSUME IInv, NEW j \in Jobs, Enqueue(j)
  PROVE  Service!Wait(j)
<1>1. /\ ~Closed /\ state[j] = "new" /\ outcome[j] = "pending"
      /\ queue' = Append(queue, j) /\ Len(queue) < QueueSize
      /\ outcome' = outcome /\ phase' = phase /\ workers' = workers /\ task' = task
      /\ state' = [state EXCEPT ![j] = "queued"]
  BY DEF Enqueue, Submittable
<1>2. Held' = Held /\ begun' = begun
  BY <1>1 DEF Held, begun, IInv, TypeOK
<1>3. servicePhase = "open" /\ servicePhase' = servicePhase
  BY <1>1 DEF servicePhase, Closed
<1>4. Service!Fresh(j)
  BY <1>1, Same DEF Service!Fresh, Service!Pending, begun, IInv, PlacesInv,
                    OnePlacePerJob, Queued
<1>5. QED
  BY <1>1, <1>2, <1>3, <1>4 DEF Service!Wait

-----------------------------------------------------------------------------
\* A cancelled job gives up its place in the line, or is settled where it runs.
LEMMA CancelMaps ==
  ASSUME IInv, NEW j \in Jobs, NEW result \in {"aborted", "timedOut"}, Cancel(j, result)
  PROVE  Service!GiveUp(j, result) \/ Service!Decide(j, result)
<1> USE DEF IInv, PlacesInv
<1>1. Service!Settled(j, result) = Settle(j, result)
  BY DEF Service!Settled, Service!Pending, Settle
<1>2. CASE CancelQueued(j, result)
  <2>1. /\ outcome[j] = "pending" /\ queue' = Without(j) /\ j \in Queued
        /\ outcome' = Settle(j, result)
        /\ state' = state /\ workers' = workers /\ task' = task /\ phase' = phase
    BY <1>2 DEF CancelQueued, NoForgottenJob
  <2>2. \E i \in DOMAIN queue : queue[i] = j /\ queue' = RemoveAt(queue, i)
    BY <2>1 DEF Without, Queued, Range
  <2>3. Held' = Held /\ begun' = begun /\ servicePhase' = servicePhase
    BY <2>1 DEF Held, begun, servicePhase
  <2>4. QED
    BY <1>1, <2>1, <2>2, <2>3, Same DEF Service!GiveUp, Service!Pending
<1>3. CASE CancelRunning(j, result)
  <2>1. /\ j \in Held /\ outcome' = Settle(j, result)
        /\ state' = state /\ queue' = queue /\ workers' = workers
        /\ task' = task /\ phase' = phase
    BY <1>3 DEF CancelRunning, NoForgottenJob
  <2>2. Held' = Held /\ begun' = begun /\ servicePhase' = servicePhase
    BY <2>1 DEF Held, begun, servicePhase
  <2>3. QED
    BY <1>1, <2>1, <2>2 DEF Service!Decide
<1>4. QED
  BY <1>2, <1>3 DEF Cancel

-----------------------------------------------------------------------------
\* What the worker w held is released: the head of the line, if there is one,
\* takes its place, on the same worker or on one that replaces it.
LEMMA ReleaseMaps ==
  ASSUME IInv, NEW w \in workers, task[w] # NoJob, Release(w), UNCHANGED workers
  PROVE  Service!HandOver({task[w]})
<1> USE DEF IInv, PlacesInv
<1>1. /\ w \in Workers /\ workers \subseteq Workers /\ workers' = workers
      /\ task \in [Workers -> Jobs \cup {NoJob}]
      /\ \A v \in Workers \ {w} : task[v] # task[w]
  BY DEF TypeOK, OnePlacePerJob
<1>2. CASE Closed \/ queue = <<>>
  <2>1. /\ queue = <<>> /\ queue' = queue /\ state' = state
        /\ task' = [task EXCEPT ![w] = NoJob]
    BY <1>2 DEF Release, SlotsInOrder
  <2>2. Held' = Held \ {task[w]} /\ begun' = begun
    BY <1>1, <2>1 DEF Held, begun
  <2>3. QED
    BY <2>1, <2>2 DEF Service!HandOver
<1>3. CASE ~Closed /\ queue # <<>>
  <2> DEFINE h == Head(queue)
  <2>1. /\ queue' = Tail(queue)
        /\ task' = [task EXCEPT ![w] = h] /\ state' = [state EXCEPT ![h] = "running"]
    BY <1>3 DEF Release, Start
  <2>2. h \in Jobs /\ h # NoJob /\ \A v \in Workers : task[v] # h
    BY <1>3, TailRange, JobsAssumption DEF TypeOK, OnePlacePerJob, Queued
  <2> HIDE DEF h
  <2>3. Held' = (Held \ {task[w]}) \cup {h}
    BY <1>1, <2>1, <2>2 DEF Held
  <2>4. begun' = begun \cup {h}
    BY <2>1, <2>2 DEF begun, TypeOK
  <2>5. QED
    BY <1>3, <2>1, <2>3, <2>4 DEF Service!HandOver, h
<1>4. QED
  BY <1>2, <1>3

LEMMA ReplyMaps ==
  ASSUME IInv, NEW w \in Workers, NEW m \in Messages, Reply(w, m)
  PROVE  Service!Leave(task[w], ReplyOutcome(m))
<1>1. w \in workers /\ task[w] # NoJob /\ workers' = workers /\ phase' = phase
      /\ outcome' = Settle(task[w], ReplyOutcome(m)) /\ Release(w)
  BY DEF Reply
<1>2. task[w] \in Held /\ ReplyOutcome(m) \in {"succeeded", "failed"}
  BY <1>1 DEF Held, ReplyOutcome
<1>3. Service!Settled(task[w], ReplyOutcome(m)) = outcome'
  BY <1>1 DEF Service!Settled, Service!Pending, Settle
<1>4. Service!HandOver({task[w]})
  BY <1>1, ReleaseMaps
<1>5. servicePhase' = servicePhase
  BY <1>1 DEF servicePhase
<1>6. QED
  BY <1>2, <1>3, <1>4, <1>5 DEF Service!Leave

\* A thread that breaks the protocol settles its job, if it has one.
LEMMA BadMessageMaps ==
  ASSUME IInv, NEW w \in Workers, NEW m \in Messages, BadMessage(w, m)
  PROVE  \/ task[w] # NoJob /\ Service!Decide(task[w], "terminated")
         \/ UNCHANGED Service!vars
<1>1. /\ w \in workers /\ workers' = workers /\ task' = task /\ state' = state
      /\ queue' = queue /\ phase' = phase
      /\ outcome' = IF task[w] = NoJob THEN outcome ELSE Settle(task[w], "terminated")
  BY DEF BadMessage
<1>2. Held' = Held /\ begun' = begun /\ servicePhase' = servicePhase
  BY <1>1 DEF Held, begun, servicePhase
<1>3. CASE task[w] = NoJob
  BY <1>1, <1>2, <1>3 DEF Service!vars
<1>4. CASE task[w] # NoJob
  <2>1. task[w] \in Held
    BY <1>1, <1>4 DEF Held
  <2>2. Service!Settled(task[w], "terminated") = outcome'
    BY <1>1, <1>4 DEF Service!Settled, Service!Pending, Settle
  <2>3. QED
    BY <1>1, <1>2, <1>4, <2>1, <2>2 DEF Service!Decide
<1>5. QED
  BY <1>3, <1>4

\* A thread that is gone leaves its place to the head of the line.
LEMMA ExitMaps ==
  ASSUME IInv, NEW w \in Workers, Exit(w)
  PROVE  \/ task[w] # NoJob /\ Service!Leave(task[w], "terminated")
         \/ Service!Repair
         \/ UNCHANGED Service!vars
<1> USE DEF IInv, PlacesInv, CapacityInv
<1> DEFINE left == {task[w]} \ {NoJob}
<1>1. /\ w \in workers /\ workers \subseteq Workers
      /\ task \in [Workers -> Jobs \cup {NoJob}]
      /\ outcome' = ExitOutcome(w) /\ phase' = phase
      /\ ExitReplaced(w) \/ ExitUnreplaced(w)
      /\ \A v \in Workers \ {w} : task[v] = task[w] => task[w] = NoJob
  BY DEF Exit, TypeOK, OnePlacePerJob
<1>2. servicePhase' = servicePhase
  BY <1>1 DEF servicePhase
<1>3. CASE ExitUnreplaced(w)
  <2>1. /\ queue = <<>> /\ queue' = queue /\ state' = state
        /\ workers' = workers \ {w} /\ task' = [task EXCEPT ![w] = NoJob]
    BY <1>3 DEF ExitUnreplaced, SlotsInOrder
  <2>2. Held' = Held \ left /\ begun' = begun
    BY <1>1, <2>1 DEF Held, begun
  <2>3. CASE task[w] = NoJob
    <3>1. outcome' = outcome /\ Held' = Held
      BY <1>1, <2>2, <2>3 DEF ExitOutcome
    <3>2. QED
      BY <1>2, <2>1, <2>2, <3>1 DEF Service!vars
  <2>4. CASE task[w] # NoJob
    <3>1. task[w] \in Held /\ Service!Settled(task[w], "terminated") = outcome'
      BY <1>1, <2>4 DEF Held, Service!Settled, Service!Pending, Settle, ExitOutcome
    <3>2. Service!HandOver({task[w]})
      BY <2>1, <2>2, <2>4 DEF Service!HandOver
    <3>3. QED
      BY <1>2, <2>4, <3>1, <3>2 DEF Service!Leave
  <2>5. QED
    BY <2>3, <2>4
<1>4. CASE ExitReplaced(w)
  <2> DEFINE h == Head(queue)
             Alive == workers \ {w}
  <2>1. /\ queue # <<>> /\ queue' = Tail(queue)
        /\ state' = [state EXCEPT ![h] = "running"]
        /\ \E v \in Workers \ Alive :
             /\ workers' = Alive \cup {v}
             /\ task' = [u \in Workers |->
                           IF u = v THEN h ELSE IF u \in Alive THEN task[u] ELSE NoJob]
    BY <1>4 DEF ExitReplaced, StartNew
  <2>2. h \in Jobs /\ h # NoJob /\ \A v \in Workers : task[v] # h
    BY <2>1, TailRange, JobsAssumption DEF TypeOK, OnePlacePerJob, Queued
  <2> HIDE DEF h
  <2>3. Held' = (Held \ left) \cup {h}
    <3>1. PICK v \in Workers \ Alive :
            /\ workers' = Alive \cup {v}
            /\ task' = [u \in Workers |->
                          IF u = v THEN h ELSE IF u \in Alive THEN task[u] ELSE NoJob]
      BY <2>1
    <3>2. Held' = ({task[u] : u \in Alive} \cup {h}) \ {NoJob}
      BY <1>1, <3>1 DEF Held
    <3>3. {task[u] : u \in Alive} \ {NoJob} = Held \ left
      BY <1>1 DEF Held
    <3>4. QED
      BY <2>2, <3>2, <3>3
  <2>4. begun' = begun \cup {h}
    BY <2>1, <2>2 DEF begun, TypeOK
  <2>5. Service!HandOver(left)
    BY <2>1, <2>3, <2>4 DEF Service!HandOver, h
  <2>6. CASE task[w] = NoJob
    <3>1. outcome' = outcome /\ left = {}
      BY <1>1, <2>6 DEF ExitOutcome
    <3>2. Cardinality(Held) < PoolSize
      BY <1>1, <2>6, HeldCount, WorkerCount, PoolAssumption DEF WithinLimits
    <3>3. QED
      BY <1>2, <2>1, <2>5, <3>1, <3>2, Same DEF Service!Repair, Service!HasPlace
  <2>7. CASE task[w] # NoJob
    <3>1. task[w] \in Held /\ Service!Settled(task[w], "terminated") = outcome'
      BY <1>1, <2>7 DEF Held, Service!Settled, Service!Pending, Settle, ExitOutcome
    <3>2. left = {task[w]}
      BY <2>7
    <3>3. QED
      BY <1>2, <2>5, <2>7, <3>1, <3>2 DEF Service!Leave
  <2>8. QED
    BY <2>6, <2>7
<1>5. QED
  BY <1>1, <1>3, <1>4

-----------------------------------------------------------------------------
\* close(): the line is dismissed first, running jobs are forced later, and
\* the service is over when no thread is left.
LEMMA CloseMaps ==
  ASSUME IInv, Close
  PROVE  Service!Close
<1> USE DEF IInv, TypeOK
<1>1. /\ phase = "open" /\ phase' \in {"draining", "terminating"}
      /\ queue' = <<>> /\ state' = state /\ workers' = workers /\ task' = task
  BY DEF Close, TerminateAll
<1>2. outcome' = AbortedQueue
  <2>1. CASE Held = {}
    BY <2>1 DEF Close, TerminateAll, AbortedQueue
  <2>2. CASE Held # {}
    BY <2>2 DEF Close
  <2>3. QED
    BY <2>1, <2>2
<1>3. servicePhase = "open" /\ servicePhase' = "closing"
  BY <1>1 DEF servicePhase
<1>4. Held' = Held /\ begun' = begun
  BY <1>1 DEF Held, begun
<1>5. QED
  BY <1>1, <1>2, <1>3, <1>4, Same DEF Service!Close, Service!Pending, AbortedQueue, Queued

LEMMA ForceMaps ==
  ASSUME IInv, CloseDrained \/ CloseTimeout
  PROVE  Service!Force
<1> USE DEF IInv, TypeOK
<1>1. /\ phase = "draining" /\ phase' = "terminating" /\ queue' = queue
      /\ state' = state /\ workers' = workers /\ task' = task
      /\ outcome' = [j \in Jobs |-> IF j \in Held /\ outcome[j] = "pending"
                                      THEN "terminated" ELSE outcome[j]]
  BY DEF CloseDrained, CloseTimeout, TerminateAll
<1>2. servicePhase = "closing" /\ servicePhase' = "closing"
  BY <1>1 DEF servicePhase
<1>3. Held' = Held /\ begun' = begun
  BY <1>1 DEF Held, begun
<1>4. QED
  BY <1>1, <1>2, <1>3 DEF Service!Force, Service!Pending

LEMMA FinishMaps ==
  ASSUME IInv, CloseDone
  PROVE  Service!Finish
<1>1. /\ phase = "terminating" /\ phase' = "closed" /\ workers = {}
      /\ queue' = queue /\ state' = state /\ workers' = workers /\ task' = task
      /\ outcome' = outcome
  BY DEF CloseDone, Terminated
<1>2. servicePhase = "closing" /\ servicePhase' = "closed"
  BY <1>1 DEF servicePhase
<1>3. Held = {} /\ Held' = Held /\ begun' = begun
  BY <1>1 DEF Held, begun
<1>4. QED
  BY <1>1, <1>2, <1>3 DEF Service!Finish

-----------------------------------------------------------------------------
\* Every step of the pool is a step of the service, or none.
LEMMA StepMaps == IInv /\ [Next]_vars => [Service!Next]_(Service!vars)
<1> SUFFICES ASSUME IInv, [Next]_vars PROVE Service!Next \/ UNCHANGED Service!vars
  OBVIOUS
<1>1. ASSUME NEW j \in Jobs, Run(j) PROVE Service!Next
  <2>1. CASE RefuseClosed(j)
    <3>1. Service!Refuse(j, "closed")
      BY <2>1, RefuseMaps DEF RefuseClosed, Outcomes
    <3>2. QED
      BY <3>1 DEF Service!Next, Service!Results
  <2>2. ASSUME NEW r \in {"unclonable", "aborted", "timedOut"}, ~Closed, Refuse(j, r)
        PROVE  Service!Next
    <3>1. Service!Refuse(j, r)
      BY <2>2, RefuseMaps DEF Outcomes
    <3>2. QED
      BY <3>1 DEF Service!Next, Service!Results
  <2>3. CASE RefuseQueueFull(j)
    <3>1. Service!Refuse(j, "queueFull")
      BY <2>3, RefuseMaps DEF RefuseQueueFull, Outcomes
    <3>2. QED
      BY <3>1 DEF Service!Next, Service!Results
  <2>4. CASE RunOnIdle(j) \/ RunOnNew(j)
    BY <2>4, StartMaps DEF Service!Next
  <2>5. CASE Enqueue(j)
    BY <2>5, EnqueueMaps DEF Service!Next
  <2>6. QED
    BY <1>1, <2>1, <2>2, <2>3, <2>4, <2>5
       DEF Run, RefuseUnclonable, RefuseAborted, RefuseZeroTimeout
<1>2. ASSUME NEW j \in Jobs, Abort(j) \/ Timeout(j) PROVE Service!Next
  <2>1. PICK r \in {"aborted", "timedOut"} : Cancel(j, r)
    BY <1>2 DEF Abort, Timeout
  <2>2. Service!GiveUp(j, r) \/ Service!Decide(j, r)
    BY <2>1, CancelMaps
  <2>3. QED
    BY <2>2 DEF Service!Next, Service!Results
<1>3. ASSUME NEW j \in Jobs, GraceExpires(j) PROVE UNCHANGED Service!vars
  BY <1>3 DEF GraceExpires, Service!vars, Held, begun, servicePhase
<1>4. ASSUME NEW w \in Workers, Exit(w) PROVE Service!Next \/ UNCHANGED Service!vars
  <2>1. task[w] # NoJob => task[w] \in Jobs
    BY DEF IInv, TypeOK
  <2>2. QED
    BY <1>4, <2>1, ExitMaps DEF Service!Next, Service!Results
<1>5. ASSUME NEW w \in Workers, NEW m \in Messages, OnMessage(w, m)
      PROVE  Service!Next \/ UNCHANGED Service!vars
  <2>1. task[w] # NoJob => task[w] \in Jobs
    BY DEF IInv, TypeOK
  <2>2. CASE Reply(w, m)
    <3>1. ReplyOutcome(m) \in Service!Results /\ task[w] # NoJob
      BY <2>2 DEF ReplyOutcome, Service!Results, Reply
    <3>2. QED
      BY <2>1, <2>2, <3>1, ReplyMaps DEF Service!Next
  <2>3. CASE BadMessage(w, m)
    BY <2>1, <2>3, BadMessageMaps DEF Service!Next, Service!Results
  <2>4. QED
    BY <1>5, <2>2, <2>3 DEF OnMessage
<1>6. CASE Close \/ CloseDrained \/ CloseTimeout \/ CloseDone
  BY <1>6, CloseMaps, ForceMaps, FinishMaps DEF Service!Next
<1>7. CASE UNCHANGED vars
  BY <1>7 DEF vars, Service!vars, Held, begun, servicePhase
<1>8. QED
  BY <1>1, <1>2, <1>3, <1>4, <1>5, <1>6, <1>7 DEF Next

\* The pool, whatever its threads do, is a first-come first-served service
\* that runs and settles each job once.
THEOREM PoolIsAService == Spec => ImplementsService
<1>1. Init => Service!Init
  BY DEF Init, Service!Init, Held, begun, servicePhase
<1>2. QED
  BY <1>1, StepMaps, InductiveInvariant, PTL DEF Spec, ImplementsService, Service!Spec

-----------------------------------------------------------------------------
(* Events of one conversation *)

LEMMA PostedLast ==
  ASSUME NEW S, NEW s \in Seq(S), NEW e \in S
  PROVE  /\ s \o <<e>> \in Seq(S) /\ s \o <<e>> # <<>>
         /\ Len(s) \in Nat /\ DOMAIN s = 1 .. Len(s)
         /\ DOMAIN (s \o <<e>>) = 1 .. Len(s) + 1
         /\ \A i \in 1 .. Len(s) : (s \o <<e>>)[i] = s[i]
         /\ (s \o <<e>>)[Len(s) + 1] = e
<1>1. s \o <<e>> = Append(s, e)
  BY AppendIsConcat
<1>2. QED
  BY <1>1, AppendProperties, LenProperties

LEMMA TakenFirst ==
  ASSUME NEW S, NEW s \in Seq(S), s # <<>>
  PROVE  /\ Head(s) \in S /\ Head(s) = s[1] /\ Tail(s) \in Seq(S)
         /\ Len(s) \in Nat /\ Len(s) >= 1 /\ DOMAIN s = 1 .. Len(s)
         /\ DOMAIN Tail(s) = 1 .. Len(s) - 1
         /\ \A i \in 1 .. Len(s) - 1 : Tail(s)[i] = s[i + 1]
BY HeadTailProperties, LenProperties, EmptySeq

\* The pool cancels the job of a live thread.
LEMMA CancelPosted ==
  ASSUME NEW box \in Seq(Commands), NEW exec \in SUBSET Jobs, NEW sig \in SUBSET Jobs,
         NEW out \in Seq(Replies), NEW job \in Jobs,
         Conversation(TRUE, box, exec, sig, out, job)
  PROVE  Conversation(TRUE, box \o <<[type |-> "cancel", id |-> job]>>, exec, sig, out, job)
<1> DEFINE c == [type |-> "cancel", id |-> job]
           new == box \o <<c>>
<1>1. c \in Commands
  BY DEF Commands
<1>2. /\ Len(box) \in Nat /\ DOMAIN box = 1 .. Len(box) /\ DOMAIN new = 1 .. Len(box) + 1
      /\ \A i \in 1 .. Len(box) : new[i] = box[i]
      /\ new[Len(box) + 1] = c
  BY <1>1, PostedLast
<1> HIDE DEF new
<1>3. RunWaits(new) <=> RunWaits(box)
  BY <1>2 DEF RunWaits
<1>4. ASSUME NEW i \in DOMAIN new, new[i].type = "run"
      PROVE  /\ new[i].id = job
             /\ \A k \in DOMAIN new : new[k].id = job => i <= k
  <2>1. i \in DOMAIN box /\ box[i].type = "run"
    BY <1>2, <1>4
  <2>2. QED
    BY <1>2, <2>1 DEF Conversation
<1>5. QED
  BY <1>3, <1>4 DEF Conversation, new

\* The pool gives a job nobody has heard of to a thread that has none.
LEMMA JobPosted ==
  ASSUME NEW box \in Seq(Commands), NEW j \in Jobs,
         ~RunWaits(box), \A i \in DOMAIN box : box[i].id # j
  PROVE  Conversation(TRUE, box \o <<[type |-> "run", id |-> j]>>, {}, {}, <<>>, j)
<1> DEFINE c == [type |-> "run", id |-> j]
           new == box \o <<c>>
<1>1. c \in Commands
  BY DEF Commands
<1>2. /\ Len(box) \in Nat /\ DOMAIN box = 1 .. Len(box) /\ DOMAIN new = 1 .. Len(box) + 1
      /\ \A i \in 1 .. Len(box) : new[i] = box[i]
      /\ new[Len(box) + 1] = c
  BY <1>1, PostedLast
<1> HIDE DEF new
<1>3. RunWaits(new)
  BY <1>2 DEF RunWaits
<1>4. ASSUME NEW i \in DOMAIN new, new[i].type = "run"
      PROVE  new[i].id = j /\ \A k \in DOMAIN new : new[k].id = j => i <= k
  BY <1>2, <1>4 DEF RunWaits
<1>5. QED
  BY <1>3, <1>4 DEF Conversation, new

\* The thread begins the job.
LEMMA JobBegun ==
  ASSUME NEW box \in Seq(Commands), NEW exec \in SUBSET Jobs, NEW sig \in SUBSET Jobs,
         NEW out \in Seq(Replies), NEW job,
         Conversation(TRUE, box, exec, sig, out, job),
         box # <<>>, Head(box).type = "run"
  PROVE  Conversation(TRUE, Tail(box), exec \cup {Head(box).id}, sig, out, job)
<1>1. /\ Head(box) = box[1] /\ Len(box) \in Nat /\ Len(box) >= 1 /\ DOMAIN box = 1 .. Len(box)
      /\ DOMAIN Tail(box) = 1 .. Len(box) - 1
      /\ \A i \in 1 .. Len(box) - 1 : Tail(box)[i] = box[i + 1]
  BY TakenFirst
<1>2. RunWaits(box) /\ box[1].id = job
  BY <1>1 DEF RunWaits, Conversation
<1>3. ~RunWaits(Tail(box))
  <2>1. ASSUME NEW i \in DOMAIN Tail(box), Tail(box)[i].type = "run" PROVE FALSE
    <3>1. i + 1 \in DOMAIN box /\ box[i + 1].type = "run" /\ 1 \in DOMAIN box
      BY <1>1, <2>1
    <3>2. i + 1 <= 1
      BY <1>2, <3>1 DEF Conversation
    <3>3. QED
      BY <1>1, <3>2
  <2>2. QED
    BY <2>1 DEF RunWaits
<1>4. exec = {} /\ sig = {} /\ out = <<>>
  BY <1>2 DEF Conversation
<1>5. QED
  BY <1>1, <1>2, <1>3, <1>4 DEF Conversation, RunWaits

\* The thread takes a cancel.
LEMMA CancelTaken ==
  ASSUME NEW box \in Seq(Commands), NEW exec \in SUBSET Jobs, NEW sig \in SUBSET Jobs,
         NEW out \in Seq(Replies), NEW job,
         Conversation(TRUE, box, exec, sig, out, job),
         box # <<>>, Head(box).type = "cancel"
  PROVE  Conversation(TRUE, Tail(box), exec, sig \cup ({Head(box).id} \cap exec), out, job)
<1>1. /\ Head(box) = box[1] /\ Len(box) \in Nat /\ Len(box) >= 1 /\ DOMAIN box = 1 .. Len(box)
      /\ DOMAIN Tail(box) = 1 .. Len(box) - 1
      /\ \A i \in 1 .. Len(box) - 1 : Tail(box)[i] = box[i + 1]
  BY TakenFirst
<1>2. RunWaits(Tail(box)) <=> RunWaits(box)
  <2>1. ASSUME NEW i \in DOMAIN box, box[i].type = "run" PROVE RunWaits(Tail(box))
    <3>1. i # 1
      BY <1>1, <2>1
    <3>2. i - 1 \in DOMAIN Tail(box) /\ Tail(box)[i - 1] = box[i]
      BY <1>1, <3>1
    <3>3. QED
      BY <2>1, <3>2 DEF RunWaits
  <2>2. ASSUME NEW i \in DOMAIN Tail(box), Tail(box)[i].type = "run" PROVE RunWaits(box)
    <3>1. i + 1 \in DOMAIN box /\ box[i + 1].type = "run"
      BY <1>1, <2>2
    <3>2. QED
      BY <3>1 DEF RunWaits
  <2>3. QED
    BY <2>1, <2>2 DEF RunWaits
<1>3. ASSUME NEW i \in DOMAIN Tail(box), Tail(box)[i].type = "run"
      PROVE  /\ Tail(box)[i].id = job
             /\ \A k \in DOMAIN Tail(box) : Tail(box)[k].id = job => i <= k
  <2>1. i + 1 \in DOMAIN box /\ box[i + 1].type = "run" /\ Tail(box)[i] = box[i + 1]
    BY <1>1, <1>3
  <2>2. box[i + 1].id = job /\ \A k \in DOMAIN box : box[k].id = job => i + 1 <= k
    BY <2>1 DEF Conversation
  <2>3. ASSUME NEW k \in DOMAIN Tail(box), Tail(box)[k].id = job PROVE i <= k
    <3>1. k + 1 \in DOMAIN box /\ box[k + 1].id = job
      BY <1>1, <2>3
    <3>2. QED
      BY <1>1, <2>2, <3>1
  <2>4. QED
    BY <2>1, <2>2, <2>3
<1>4. QED
  BY <1>2, <1>3 DEF Conversation

\* The job ends and the thread posts its reply.
LEMMA JobReplied ==
  ASSUME NEW box \in Seq(Commands), NEW exec \in SUBSET Jobs, NEW sig \in SUBSET Jobs,
         NEW out \in Seq(Replies), NEW job, NEW reply \in Replies,
         Conversation(TRUE, box, exec, sig, out, job), reply.id \in exec
  PROVE  Conversation(TRUE, box, exec \ {reply.id}, sig \ {reply.id}, Append(out, reply), job)
<1>1. out = <<>> /\ ~RunWaits(box) /\ reply.id = job /\ exec = {job}
  BY DEF Conversation
<1>2. /\ Append(out, reply) # <<>> /\ Len(Append(out, reply)) <= 1
      /\ \A i \in DOMAIN Append(out, reply) : Append(out, reply)[i] = reply
  BY <1>1
<1>3. QED
  BY <1>1, <1>2 DEF Conversation

\* The pool has received the reply: the conversation is over.
LEMMA ReplyReceived ==
  ASSUME NEW live \in BOOLEAN, NEW box \in Seq(Commands), NEW exec \in SUBSET Jobs,
         NEW sig \in SUBSET Jobs, NEW out \in Seq(Replies), NEW job,
         Conversation(live, box, exec, sig, out, job), out # <<>>
  PROVE  /\ Head(out).id = job /\ Tail(out) = <<>>
         /\ ~RunWaits(box) /\ exec = {} /\ sig = {}
<1>1. /\ Head(out) = out[1] /\ Len(out) \in Nat /\ Len(out) >= 1 /\ DOMAIN out = 1 .. Len(out)
      /\ Tail(out) \in Seq(Replies) /\ Len(Tail(out)) = Len(out) - 1
  BY TakenFirst, HeadTailProperties
<1>2. Len(out) = 1
  BY <1>1 DEF Conversation
<1>3. Tail(out) = <<>>
  <2>1. \A s \in Seq(Replies) : Len(s) = 0 => s = <<>>
    BY EmptySeq
  <2>2. Tail(out) \in Seq(Replies) /\ Len(Tail(out)) = 0
    BY <1>1, <1>2
  <2>3. QED
    BY <2>1, <2>2
<1>4. QED
  BY <1>1, <1>2, <1>3 DEF Conversation

-----------------------------------------------------------------------------
(* The same events, as far as cancels are concerned *)

LEMMA CancelPostedFits ==
  ASSUME NEW box \in Seq(Commands), NEW sig, NEW out, NEW job \in Jobs,
         NEW C, NEW D, C \subseteq D, job \in D,
         SignalsFit(TRUE, box, sig, out, job, C)
  PROVE  SignalsFit(TRUE, box \o <<[type |-> "cancel", id |-> job]>>, sig, out, job, D)
<1> DEFINE c == [type |-> "cancel", id |-> job]
           new == box \o <<c>>
<1>1. c \in Commands
  BY DEF Commands
<1>2. /\ Len(box) \in Nat /\ DOMAIN box = 1 .. Len(box) /\ DOMAIN new = 1 .. Len(box) + 1
      /\ \A i \in 1 .. Len(box) : new[i] = box[i]
      /\ new[Len(box) + 1] = c
  BY <1>1, PostedLast
<1> HIDE DEF new
<1>3. \A i \in DOMAIN new : new[i].type = "cancel" => new[i].id \in D
  BY <1>2 DEF SignalsFit
<1>4. \E i \in DOMAIN new : new[i] = c
  BY <1>2
<1>5. QED
  BY <1>3, <1>4 DEF SignalsFit, new

LEMMA OthersCancelledFits ==
  ASSUME NEW live \in BOOLEAN, NEW box, NEW sig, NEW out, NEW job,
         NEW C, NEW D, C \subseteq D, job \in D => job \in C,
         SignalsFit(live, box, sig, out, job, C)
  PROVE  SignalsFit(live, box, sig, out, job, D)
BY DEF SignalsFit

LEMMA JobPostedFits ==
  ASSUME NEW box \in Seq(Commands), NEW j \in Jobs, NEW C, NEW D, C \subseteq D, j \notin D,
         \A i \in DOMAIN box : box[i].type = "cancel" => box[i].id \in C
  PROVE  SignalsFit(TRUE, box \o <<[type |-> "run", id |-> j]>>, {}, <<>>, j, D)
<1> DEFINE c == [type |-> "run", id |-> j]
           new == box \o <<c>>
<1>1. c \in Commands
  BY DEF Commands
<1>2. /\ Len(box) \in Nat /\ DOMAIN box = 1 .. Len(box) /\ DOMAIN new = 1 .. Len(box) + 1
      /\ \A i \in 1 .. Len(box) : new[i] = box[i]
      /\ new[Len(box) + 1] = c
  BY <1>1, PostedLast
<1> HIDE DEF new
<1>3. \A i \in DOMAIN new : new[i].type = "cancel" => new[i].id \in D
  BY <1>2
<1>4. QED
  BY <1>3 DEF SignalsFit, new

LEMMA JobBegunFits ==
  ASSUME NEW box \in Seq(Commands), NEW sig, NEW out, NEW job, NEW C,
         SignalsFit(TRUE, box, sig, out, job, C), box # <<>>, Head(box).type = "run"
  PROVE  SignalsFit(TRUE, Tail(box), sig, out, job, C)
<1>1. /\ Head(box) = box[1] /\ Len(box) \in Nat /\ Len(box) >= 1 /\ DOMAIN box = 1 .. Len(box)
      /\ DOMAIN Tail(box) = 1 .. Len(box) - 1
      /\ \A i \in 1 .. Len(box) - 1 : Tail(box)[i] = box[i + 1]
  BY TakenFirst
<1>2. \A i \in DOMAIN Tail(box) : Tail(box)[i].type = "cancel" => Tail(box)[i].id \in C
  BY <1>1 DEF SignalsFit
<1>3. ASSUME NEW i \in DOMAIN box, box[i] = [type |-> "cancel", id |-> job]
      PROVE  \E k \in DOMAIN Tail(box) : Tail(box)[k] = [type |-> "cancel", id |-> job]
  <2>1. i # 1
    BY <1>1, <1>3
  <2>2. i - 1 \in DOMAIN Tail(box) /\ Tail(box)[i - 1] = box[i]
    BY <1>1, <2>1
  <2>3. QED
    BY <1>3, <2>2
<1>4. QED
  BY <1>2, <1>3 DEF SignalsFit

\* The cancel is for the job the thread runs, whose signal is aborted, or for
\* one that has ended: the job that waits has its "run" before its cancels.
LEMMA CancelTakenFits ==
  ASSUME NEW box \in Seq(Commands), NEW exec \in SUBSET Jobs, NEW sig \in SUBSET Jobs,
         NEW out \in Seq(Replies), NEW job, NEW C, C \subseteq Jobs,
         Conversation(TRUE, box, exec, sig, out, job),
         SignalsFit(TRUE, box, sig, out, job, C), box # <<>>, Head(box).type = "cancel"
  PROVE  SignalsFit(TRUE, Tail(box), sig \cup ({Head(box).id} \cap exec), out, job, C)
<1>1. /\ Head(box) = box[1] /\ Len(box) \in Nat /\ Len(box) >= 1 /\ DOMAIN box = 1 .. Len(box)
      /\ DOMAIN Tail(box) = 1 .. Len(box) - 1
      /\ \A i \in 1 .. Len(box) - 1 : Tail(box)[i] = box[i + 1]
  BY TakenFirst
<1> DEFINE c == [type |-> "cancel", id |-> job]
<1>2. /\ \A i \in DOMAIN Tail(box) : Tail(box)[i].type = "cancel" => Tail(box)[i].id \in C
      /\ Head(box).id \in C
  BY <1>1 DEF SignalsFit
<1>3. ASSUME out = <<>>, job \in C, job \notin sig, Head(box).id # job \/ job \notin exec
      PROVE  \E k \in DOMAIN Tail(box) : Tail(box)[k] = c
  <2>1. PICK i \in DOMAIN box : box[i] = c
    BY <1>3 DEF SignalsFit
  <2>2. i # 1
    <3>1. SUFFICES ASSUME i = 1 PROVE FALSE
      OBVIOUS
    <3>2. Head(box).id = job /\ job \notin exec
      BY <1>1, <1>3, <2>1, <3>1
    <3>3. job # NoJob /\ exec = {}
      BY <1>3, <3>2, JobsAssumption DEF Conversation
    <3>4. PICK k \in DOMAIN box : box[k].type = "run"
      BY <1>3, <3>3 DEF Conversation, RunWaits
    <3>5. k <= 1
      BY <1>1, <3>1, <3>2, <3>4 DEF Conversation
    <3>6. k = 1
      BY <1>1, <3>4, <3>5
    <3>7. QED
      BY <1>1, <3>4, <3>6
  <2>3. i - 1 \in DOMAIN Tail(box) /\ Tail(box)[i - 1] = box[i]
    BY <1>1, <2>2
  <2>4. QED
    BY <2>1, <2>3
<1>4. sig \cup ({Head(box).id} \cap exec) \subseteq C
  BY <1>2 DEF SignalsFit
<1>5. QED
  BY <1>2, <1>3, <1>4 DEF SignalsFit

-----------------------------------------------------------------------------
(* What a step of the pool means for the conversations *)

\* A step of the pool starts only jobs that nobody has heard of, and the only
\* jobs of a worker that it cancels are those whose grace timer it arms.
PoolEffect ==
  /\ \A j \in Jobs : state[j] = "running" => state'[j] = "running"
  /\ AllCancelled \subseteq AllCancelled'
  /\ \A j \in Jobs : grace'[j] => j \in AllCancelled'
  /\ \A w \in Workers : task'[w] # task[w] /\ task'[w] # NoJob =>
       /\ state[task'[w]] # "running" /\ state'[task'[w]] = "running"
       /\ task'[w] \notin AllCancelled'
  /\ \A w \in Workers : task'[w] = task[w] /\ task[w] # NoJob =>
       \/ task[w] \in AllCancelled' => task[w] \in AllCancelled
       \/ ~grace[task[w]] /\ grace'[task[w]]

LEMMA SettleCancels ==
  ASSUME TypeOK, NEW j \in Jobs, NEW r \in Outcomes, outcome' = Settle(j, r)
  PROVE  /\ AllCancelled \subseteq AllCancelled'
         /\ AllCancelled' \subseteq AllCancelled \cup {j}
         /\ r \notin {"aborted", "timedOut"} => AllCancelled' = AllCancelled
         /\ r \in {"aborted", "timedOut"} /\ outcome[j] = "pending" => j \in AllCancelled'
BY DEF AllCancelled, Cancelled, Settle, TypeOK

\* Steps that leave every worker its job, or take it away.
LEMMA QuietEffect ==
  ASSUME TypeOK, GraceInv,
         \A w \in Workers : task'[w] = task[w] \/ task'[w] = NoJob,
         \A j \in Jobs : grace'[j] => grace[j],
         \A j \in Jobs : state[j] = "running" => state'[j] = "running",
         AllCancelled \subseteq AllCancelled',
         \A w \in Workers : task[w] \in AllCancelled' => task[w] \in AllCancelled
  PROVE  PoolEffect
BY DEF PoolEffect, AllCancelled, GraceInv

\* Steps that start the job j and settle nothing but, perhaps, another one.
LEMMA StartingEffect ==
  ASSUME TypeOK, GraceInv,
         NEW j \in Jobs, state[j] # "running", outcome[j] = "pending", outcome'[j] = "pending",
         state' = [state EXCEPT ![j] = "running"],
         \A w \in Workers : task'[w] \in {task[w], j, NoJob},
         \A i \in Jobs : grace'[i] => grace[i],
         AllCancelled' = AllCancelled
  PROVE  PoolEffect
<1>1. j \notin AllCancelled
  BY DEF AllCancelled, Cancelled
<1>2. \A i \in Jobs : state[i] = "running" => state'[i] = "running"
  BY DEF TypeOK
<1>3. QED
  BY <1>1, <1>2 DEF PoolEffect, AllCancelled, GraceInv, TypeOK

\* The head of the queue has not begun, and nobody has decided about it.
LEMMA HeadIsFresh ==
  ASSUME TypeOK, PlacesInv, queue # <<>>
  PROVE  /\ Head(queue) \in Jobs /\ state[Head(queue)] = "queued"
         /\ outcome[Head(queue)] = "pending"
         /\ \A w \in Workers : task[w] # Head(queue)
<1>1. Head(queue) \in Jobs /\ Head(queue) \in Queued
  BY TailRange DEF TypeOK, Queued
<1>2. QED
  BY <1>1 DEF PlacesInv, OnePlacePerJob

LEMMA PoolStepEffect ==
  ASSUME TypeOK, PlacesInv, GraceInv, Next
  PROVE  PoolEffect
<1> USE JobsAssumption
<1>1. \A w \in Workers : task[w] # NoJob => task[w] \in Jobs /\ state[task[w]] = "running"
                                         /\ task[w] \notin Queued
  BY DEF PlacesInv, SlotsInOrder, OnePlacePerJob, TypeOK
<1>2. ASSUME NEW j \in Jobs, NEW r \in Outcomes, Refuse(j, r) PROVE PoolEffect
  <2>1. /\ state' = state /\ task' = task /\ grace' = grace /\ state[j] = "new"
        /\ outcome' = Settle(j, r)
    BY <1>2 DEF Refuse, Submittable, Settle
  <2>2. \A w \in Workers : task[w] # j
    BY <1>1, <2>1
  <2>3. AllCancelled \subseteq AllCancelled' /\ AllCancelled' \subseteq AllCancelled \cup {j}
    BY <2>1, SettleCancels
  <2>4. QED
    BY <2>1, <2>2, <2>3, QuietEffect
<1>3. ASSUME NEW j \in Jobs, RunOnIdle(j) \/ RunOnNew(j) PROVE PoolEffect
  <2>1. /\ state[j] = "new" /\ outcome[j] = "pending"
        /\ outcome' = outcome /\ grace' = grace
        /\ state' = [state EXCEPT ![j] = "running"]
        /\ \A w \in Workers : task'[w] \in {task[w], j, NoJob}
    BY <1>3 DEF RunOnIdle, RunOnNew, Start, StartNew, Submittable, TypeOK
  <2>2. AllCancelled' = AllCancelled
    BY <2>1 DEF AllCancelled, Cancelled
  <2>3. QED
    BY <2>1, <2>2, StartingEffect
<1>4. ASSUME NEW j \in Jobs, Enqueue(j) PROVE PoolEffect
  <2>1. /\ state[j] = "new" /\ state' = [state EXCEPT ![j] = "queued"]
        /\ outcome' = outcome /\ grace' = grace /\ task' = task
    BY <1>4 DEF Enqueue, Submittable
  <2>2. \A i \in Jobs : state[i] = "running" => state'[i] = "running"
    BY <2>1 DEF TypeOK
  <2>3. AllCancelled' = AllCancelled
    BY <2>1 DEF AllCancelled, Cancelled
  <2>4. QED
    BY <2>1, <2>2, <2>3, QuietEffect
<1>5. ASSUME NEW j \in Jobs, NEW r \in {"aborted", "timedOut"}, Cancel(j, r) PROVE PoolEffect
  <2>1. r \in Outcomes
    BY DEF Outcomes
  <2>2. CASE CancelQueued(j, r)
    <3>1. /\ state[j] = "queued" /\ outcome' = Settle(j, r)
          /\ state' = state /\ grace' = grace /\ task' = task
      BY <2>2 DEF CancelQueued
    <3>2. \A w \in Workers : task[w] # j
      BY <1>1, <3>1
    <3>3. AllCancelled \subseteq AllCancelled' /\ AllCancelled' \subseteq AllCancelled \cup {j}
      BY <2>1, <3>1, SettleCancels
    <3>4. QED
      BY <3>1, <3>2, <3>3, QuietEffect
  <2>3. CASE CancelRunning(j, r)
    <3>1. /\ outcome[j] = "pending" /\ outcome' = Settle(j, r)
          /\ grace' = [grace EXCEPT ![j] = TRUE] /\ state' = state /\ task' = task
      BY <2>3 DEF CancelRunning
    <3>2. /\ AllCancelled \subseteq AllCancelled' /\ AllCancelled' \subseteq AllCancelled \cup {j}
          /\ j \in AllCancelled'
      BY <2>1, <3>1, SettleCancels
    <3>3. ~grace[j] /\ grace'[j] /\ \A i \in Jobs : i # j => grace'[i] = grace[i]
      BY <3>1 DEF GraceInv, Cancelled, TypeOK
    <3>4. \A i \in Jobs : grace[i] => i \in AllCancelled
      BY DEF AllCancelled, GraceInv
    <3>5. \A i \in Jobs : grace'[i] => i \in AllCancelled'
      BY <3>2, <3>3, <3>4
    <3>6. \A w \in Workers : task'[w] = task[w]
      BY <3>1
    <3>7. \A w \in Workers : task[w] # NoJob =>
            \/ task[w] \in AllCancelled' => task[w] \in AllCancelled
            \/ ~grace[task[w]] /\ grace'[task[w]]
      BY <3>2, <3>3
    <3>8. QED
      BY <3>1, <3>2, <3>5, <3>6, <3>7 DEF PoolEffect
  <2>4. QED
    BY <1>5, <2>2, <2>3 DEF Cancel
<1>6. ASSUME NEW j \in Jobs, GraceExpires(j) PROVE PoolEffect
  <2>1. /\ state' = state /\ outcome' = outcome /\ task' = task
        /\ \A i \in Jobs : grace'[i] => grace[i]
    BY <1>6 DEF GraceExpires, TypeOK
  <2>2. AllCancelled' = AllCancelled
    BY <2>1 DEF AllCancelled, Cancelled
  <2>3. QED
    BY <2>1, <2>2, QuietEffect
<1>7. ASSUME NEW w \in Workers, NEW m \in Messages, Reply(w, m) PROVE PoolEffect
  <2> DEFINE d == task[w]
  <2>1. /\ d \in Jobs /\ d # NoJob /\ Release(w)
        /\ outcome' = Settle(d, ReplyOutcome(m))
    BY <1>1, <1>7 DEF Reply
  <2>2. ReplyOutcome(m) \in Outcomes /\ ReplyOutcome(m) \notin {"aborted", "timedOut"}
    BY DEF ReplyOutcome, Outcomes
  <2>3. AllCancelled' = AllCancelled
    BY <2>1, <2>2, SettleCancels
  <2>4. \A i \in Jobs : grace'[i] => grace[i]
    BY <2>1 DEF Release, TypeOK
  <2>5. CASE Closed \/ queue = <<>>
    <3>1. state' = state /\ \A v \in Workers : task'[v] \in {task[v], NoJob}
      BY <2>1, <2>5 DEF Release, TypeOK
    <3>2. QED
      BY <2>3, <2>4, <3>1, QuietEffect
  <2>6. CASE ~(Closed \/ queue = <<>>)
    <3> DEFINE h == Head(queue)
    <3>1. h \in Jobs /\ state[h] = "queued" /\ outcome[h] = "pending" /\ h # d
      BY <2>6, HeadIsFresh
    <3>2. /\ state' = [state EXCEPT ![h] = "running"]
          /\ \A v \in Workers : task'[v] \in {task[v], h, NoJob}
      BY <2>1, <2>6 DEF Release, Start, TypeOK
    <3>3. outcome'[h] = "pending"
      BY <2>1, <3>1 DEF Settle, TypeOK
    <3>4. QED
      BY <2>3, <2>4, <3>1, <3>2, <3>3, StartingEffect
  <2>7. QED
    BY <2>5, <2>6
<1>8. ASSUME NEW w \in Workers, NEW m \in Messages, BadMessage(w, m) PROVE PoolEffect
  <2>1. /\ state' = state /\ task' = task /\ grace' = grace
        /\ \/ outcome' = outcome
           \/ task[w] \in Jobs /\ outcome' = Settle(task[w], "terminated")
    BY <1>1, <1>8 DEF BadMessage
  <2>2. AllCancelled' = AllCancelled
    BY <2>1, SettleCancels DEF AllCancelled, Cancelled, Outcomes
  <2>3. QED
    BY <2>1, <2>2, QuietEffect
<1>9. ASSUME NEW w \in Workers, Exit(w) PROVE PoolEffect
  <2>1. /\ grace' = grace
        /\ \/ outcome' = outcome
           \/ task[w] \in Jobs /\ outcome' = Settle(task[w], "terminated")
    BY <1>1, <1>9 DEF Exit, ExitOutcome
  <2>2. AllCancelled' = AllCancelled
    BY <2>1, SettleCancels DEF AllCancelled, Cancelled, Outcomes
  <2>3. CASE ExitReplaced(w)
    <3> DEFINE h == Head(queue)
    <3>1. h \in Jobs /\ state[h] = "queued" /\ outcome[h] = "pending" /\ h # task[w]
      BY <2>3, HeadIsFresh DEF ExitReplaced
    <3>2. /\ state' = [state EXCEPT ![h] = "running"]
          /\ \A v \in Workers : task'[v] \in {task[v], h, NoJob}
      BY <2>3 DEF ExitReplaced, StartNew, TypeOK
    <3>3. outcome'[h] = "pending"
      BY <2>1, <3>1 DEF Settle, TypeOK
    <3>4. QED
      BY <2>1, <2>2, <3>1, <3>2, <3>3, StartingEffect
  <2>4. CASE ExitUnreplaced(w)
    <3>1. state' = state /\ \A v \in Workers : task'[v] \in {task[v], NoJob}
      BY <2>4 DEF ExitUnreplaced, TypeOK
    <3>2. QED
      BY <2>1, <2>2, <3>1, QuietEffect
  <2>5. QED
    BY <1>9, <2>3, <2>4 DEF Exit
<1>10. CASE Close \/ CloseDrained \/ CloseTimeout \/ CloseDone
  <2>1. state' = state /\ task' = task /\ grace' = grace
    BY <1>10 DEF Close, CloseDrained, CloseTimeout, CloseDone, TerminateAll
  <2>2. \A j \in Jobs : outcome'[j] # outcome[j] =>
          /\ outcome[j] = "pending"
          /\ (outcome'[j] = "aborted" /\ j \in Queued) \/ outcome'[j] = "terminated"
    BY <1>10 DEF Close, CloseDrained, CloseTimeout, CloseDone, TerminateAll, AbortedQueue, TypeOK
  <2>3. AllCancelled \subseteq AllCancelled' /\ AllCancelled' \subseteq AllCancelled \cup Queued
    BY <2>2 DEF AllCancelled, Cancelled
  <2>4. \A w \in Workers : task[w] \notin AllCancelled' \/ task[w] \in AllCancelled
    BY <1>1, <2>3 DEF AllCancelled
  <2>5. QED
    BY <2>1, <2>3, <2>4, QuietEffect
<1>11. QED
  BY <1>2, <1>3, <1>4, <1>5, <1>6, <1>7, <1>8, <1>9, <1>10
     DEF Next, Run, RefuseClosed, RefuseUnclonable, RefuseAborted, RefuseZeroTimeout,
         RefuseQueueFull, Abort, Timeout, OnMessage, Outcomes

-----------------------------------------------------------------------------
(* What a step of the pool does to one conversation *)

\* Posted(w) by the ways in which the worker's job can change.
LEMMA PostedFacts ==
  ASSUME SystemTypeOK, PoolEffect, NEW w \in Workers
  PROVE  /\ task'[w] # task[w] /\ task'[w] # NoJob =>
              Posted(w) = <<[type |-> "run", id |-> task'[w]]>>
         /\ task'[w] = task[w] =>
              \/ Posted(w) = <<>>
              \/ /\ task[w] \in Jobs /\ task[w] \in AllCancelled'
                 /\ Posted(w) = <<[type |-> "cancel", id |-> task[w]]>>
         /\ task'[w] = task[w] /\ task[w] # NoJob /\ Posted(w) = <<>> =>
              (task[w] \in AllCancelled' => task[w] \in AllCancelled)
         /\ task'[w] = NoJob /\ (task[w] # NoJob => ~grace'[task[w]] \/ grace[task[w]]) =>
              Posted(w) = <<>>
<1>1. task[w] \in Jobs \cup {NoJob} /\ <<[type |-> "cancel", id |-> task[w]]>> # <<>>
  BY DEF SystemTypeOK, TypeOK
<1>2. QED
  BY <1>1, JobsAssumption DEF Posted, PoolEffect

\* Nothing is said to a thread that is not there.
LEMMA NobodyThere ==
  ASSUME NEW w \in Workers, inbox'[w] = <<>>, task'[w] = task[w],
         w \in workers' <=> w \in workers, stopped'[w] = stopped[w],
         executing'[w] = executing[w], signalled'[w] = signalled[w], outbox'[w] = outbox[w],
         w \notin workers => ~stopped[w],
         AllCancelled \subseteq AllCancelled',
         Conversation(Live(w), inbox[w], executing[w], signalled[w], outbox[w], task[w]),
         SignalsFit(Live(w), inbox[w], signalled[w], outbox[w], task[w], AllCancelled),
         ~Live(w), inbox[w] = <<>>
  PROVE  Agreement(w)'
<1>1. ~Live(w)' /\ Live(w)' = Live(w)
  BY DEF Live
<1>2. \A i \in DOMAIN inbox'[w] : FALSE
  BY EmptySeq
<1>3. Conversation(Live(w), inbox[w], executing[w], signalled[w], outbox[w], task[w])'
  BY <1>1 DEF Conversation
<1>4. SignalsFit(Live(w), inbox[w], signalled[w], outbox[w], task[w], AllCancelled)'
  BY <1>1, <1>2 DEF SignalsFit
<1>5. QED
  BY <1>2, <1>3, <1>4 DEF Agreement

\* The worker keeps its job, or goes on having none.
LEMMA KeptAgrees ==
  ASSUME SystemTypeOK, PlacesInv, PoolEffect, NEW w \in Workers, Agreement(w),
         task'[w] = task[w], w \in workers' <=> w \in workers, stopped'[w] = stopped[w],
         inbox'[w] = Post(w), executing'[w] = executing[w], signalled'[w] = signalled[w],
         outbox'[w] = outbox[w]
  PROVE  Agreement(w)'
<1> DEFINE box == inbox[w]
           new == inbox'[w]
           job == task[w]
<1>1. /\ box \in Seq(Commands) /\ executing[w] \in SUBSET Jobs /\ signalled[w] \in SUBSET Jobs
      /\ outbox[w] \in Seq(Replies) /\ job \in Jobs \cup {NoJob}
      /\ Live(w)' = Live(w) /\ Live(w) \in BOOLEAN
  BY DEF SystemTypeOK, TypeOK, Live
<1>2. /\ Conversation(Live(w), box, executing[w], signalled[w], outbox[w], job)
      /\ SignalsFit(Live(w), box, signalled[w], outbox[w], job, AllCancelled)
      /\ \A i \in DOMAIN box : state[box[i].id] = "running" /\ state'[box[i].id] = "running"
      /\ w \notin workers => ~stopped[w]
  <2>1. \A i \in DOMAIN box : box[i].id \in Jobs
    <3>1. \A i \in DOMAIN box : box[i] \in Commands
      BY <1>1, ElementOfSeq, LenProperties
    <3>2. QED
      BY <3>1 DEF Commands
  <2>2. QED
    BY <2>1 DEF Agreement, PoolEffect
<1>3. AllCancelled \subseteq AllCancelled'
  BY DEF PoolEffect
<1>4. job # NoJob => state'[job] = "running"
  BY <1>1, JobsAssumption DEF PlacesInv, SlotsInOrder, PoolEffect
<1>5. CASE ~Live(w)
  <2>1. box = <<>>
    BY <1>2, <1>5 DEF Conversation
  <2>2. new = <<>>
    <3>1. CASE stopped[w]
      BY <2>1, <3>1 DEF Post
    <3>2. CASE ~stopped[w]
      <4>1. job = NoJob
        BY <1>5, <3>2 DEF Live, PlacesInv, SlotsInOrder
      <4>2. Posted(w) = <<>>
        BY <4>1, JobsAssumption DEF Posted
      <4>3. QED
        BY <2>1, <3>2, <4>2, ConcatEmptySeq, EmptySeq DEF Post
    <3>3. QED
      BY <3>1, <3>2
  <2>3. QED
    BY <1>2, <1>3, <1>5, <2>1, <2>2, NobodyThere
<1>6. CASE Live(w)
  <2>1. new = box \o Posted(w)
    BY <1>6 DEF Live, Post
  <2>2. CASE Posted(w) = <<>>
    <3>1. new = box
      BY <1>1, <2>1, <2>2, ConcatEmptySeq
    <3>2. job \in AllCancelled' => job \in AllCancelled
      BY <2>2, PostedFacts, JobsAssumption DEF AllCancelled
    <3>3. SignalsFit(Live(w), box, signalled[w], outbox[w], job, AllCancelled')
      BY <1>1, <1>2, <1>3, <3>2, OthersCancelledFits
    <3>4. QED
      BY <1>1, <1>2, <3>1, <3>3 DEF Agreement
  <2>3. CASE Posted(w) # <<>>
    <3> DEFINE c == [type |-> "cancel", id |-> job]
    <3>1. job \in Jobs /\ job \in AllCancelled' /\ new = box \o <<c>>
      BY <2>1, <2>3, PostedFacts
    <3>2. Conversation(TRUE, new, executing[w], signalled[w], outbox[w], job)
      BY <1>1, <1>2, <1>6, <3>1, CancelPosted
    <3>3. SignalsFit(TRUE, new, signalled[w], outbox[w], job, AllCancelled')
      BY <1>1, <1>2, <1>3, <1>6, <3>1, CancelPostedFits
    <3>4. \A i \in DOMAIN new : state'[new[i].id] = "running"
      <4>1. c \in Commands /\ job # NoJob
        BY <3>1, JobsAssumption DEF Commands
      <4>2. /\ Len(box) \in Nat /\ DOMAIN box = 1 .. Len(box)
            /\ DOMAIN new = 1 .. Len(box) + 1 /\ new[Len(box) + 1] = c
            /\ \A i \in 1 .. Len(box) : new[i] = box[i]
        BY <1>1, <3>1, <4>1, PostedLast
      <4> HIDE DEF new
      <4>3. QED
        BY <1>2, <1>4, <4>1, <4>2
    <3>5. Live(w)' /\ w \in workers'
      BY <1>1, <1>6 DEF Live
    <3>6. QED
      BY <3>2, <3>3, <3>4, <3>5 DEF Agreement
  <2>4. QED
    BY <2>2, <2>3
<1>7. QED
  BY <1>5, <1>6

\* A conversation without a job is about nothing.
LEMMA NothingToSay ==
  ASSUME NEW live \in BOOLEAN, NEW box \in Seq(Commands), NEW exec \in SUBSET Jobs,
         NEW sig \in SUBSET Jobs, NEW out \in Seq(Replies),
         Conversation(live, box, exec, sig, out, NoJob)
  PROVE  ~RunWaits(box) /\ exec = {} /\ sig = {} /\ out = <<>>
<1>1. exec = {} /\ sig = {}
  BY JobsAssumption DEF Conversation
<1>2. \A i \in DOMAIN box : box[i].id \in Jobs
  <2>1. \A i \in DOMAIN box : box[i] \in Commands
    BY ElementOfSeq, LenProperties
  <2>2. QED
    BY <2>1 DEF Commands
<1>3. ~RunWaits(box)
  BY <1>2, JobsAssumption DEF Conversation, RunWaits
<1>4. out = <<>>
  <2>1. SUFFICES ASSUME out # <<>> PROVE FALSE
    OBVIOUS
  <2>2. Head(out) \in Replies /\ Head(out).id = NoJob
    <3>1. Head(out) \in Replies
      BY <2>1, TakenFirst
    <3>2. Head(out).id = NoJob
      BY <2>1, ReplyReceived
    <3>3. QED
      BY <3>1, <3>2
  <2>3. QED
    BY <2>2, JobsAssumption DEF Replies
<1>5. QED
  BY <1>1, <1>3, <1>4

\* The worker is given a job; base is what its inbox holds of earlier ones.
LEMMA HiredAgrees ==
  ASSUME SystemTypeOK, PoolEffect, NEW w \in Workers, NEW base \in Seq(Commands),
         task'[w] \in Jobs, task'[w] # task[w], w \in workers', stopped'[w] \in BOOLEAN,
         ~RunWaits(base),
         \A i \in DOMAIN base : state[base[i].id] = "running",
         \A i \in DOMAIN base : base[i].type = "cancel" => base[i].id \in AllCancelled,
         inbox'[w] = IF stopped'[w] THEN <<>> ELSE base \o Posted(w),
         executing'[w] = {}, signalled'[w] = {}, outbox'[w] = <<>>
  PROVE  Agreement(w)'
<1> DEFINE job == task'[w]
           c == [type |-> "run", id |-> job]
<1>1. /\ Posted(w) = <<c>> /\ job # NoJob /\ c \in Commands
      /\ state[job] # "running" /\ state'[job] = "running" /\ job \notin AllCancelled'
  BY PostedFacts, JobsAssumption DEF PoolEffect, Commands
<1>2. AllCancelled \subseteq AllCancelled'
  BY DEF PoolEffect
<1>3. CASE stopped'[w]
  <2>1. Live(w)' = FALSE /\ inbox'[w] = <<>>
    BY <1>3 DEF Live
  <2>2. \A i \in DOMAIN inbox'[w] : state'[inbox'[w][i].id] = "running"
    <3>1. \A s : s = <<>> => \A i \in DOMAIN s : FALSE
      BY EmptySeq
    <3>2. QED
      BY <2>1, <3>1
  <2>3. Conversation(FALSE, <<>>, {}, {}, <<>>, job)
    BY EmptySeq DEF Conversation, RunWaits
  <2>4. SignalsFit(FALSE, <<>>, {}, <<>>, job, AllCancelled')
    BY EmptySeq DEF SignalsFit
  <2>5. QED
    BY <1>3, <2>1, <2>2, <2>3, <2>4 DEF Agreement
<1>4. CASE ~stopped'[w]
  <2> DEFINE new == base \o <<c>>
  <2>1. inbox'[w] = new /\ Live(w)'
    BY <1>1, <1>4 DEF Live
  <2>2. \A i \in DOMAIN base : base[i].id # job
    BY <1>1
  <2>3. Conversation(TRUE, new, {}, {}, <<>>, job)
    BY <2>2, JobPosted
  <2>4. SignalsFit(TRUE, new, {}, <<>>, job, AllCancelled')
    BY <1>1, <1>2, JobPostedFits
  <2>5. \A i \in DOMAIN new : state'[new[i].id] = "running"
    <3>1. /\ Len(base) \in Nat /\ DOMAIN base = 1 .. Len(base)
          /\ DOMAIN new = 1 .. Len(base) + 1 /\ new[Len(base) + 1] = c
          /\ \A i \in 1 .. Len(base) : new[i] = base[i]
      BY <1>1, PostedLast
    <3>2. \A i \in DOMAIN base : base[i].id \in Jobs
      <4>1. \A i \in DOMAIN base : base[i] \in Commands
        BY ElementOfSeq, LenProperties
      <4>2. QED
        BY <4>1 DEF Commands
    <3>3. \A i \in DOMAIN base : state'[base[i].id] = "running"
      BY <3>2 DEF PoolEffect
    <3> HIDE DEF new
    <3>4. QED
      BY <1>1, <3>1, <3>3
  <2>6. QED
    BY <2>1, <2>3, <2>4, <2>5 DEF Agreement
<1>5. QED
  BY <1>3, <1>4

\* The worker's job is over and there is no other.
LEMMA DismissedAgrees ==
  ASSUME SystemTypeOK, PoolEffect, NEW w \in Workers, NEW base \in Seq(Commands),
         task'[w] = NoJob, w \notin workers' => ~stopped'[w],
         ~RunWaits(base), ~Live(w)' => base = <<>>,
         \A i \in DOMAIN base : state[base[i].id] = "running",
         \A i \in DOMAIN base : base[i].type = "cancel" => base[i].id \in AllCancelled,
         inbox'[w] = base, executing'[w] = {}, signalled'[w] = {}, outbox'[w] = <<>>
  PROVE  Agreement(w)'
<1>1. \A i \in DOMAIN base : base[i].id \in Jobs
  <2>1. \A i \in DOMAIN base : base[i] \in Commands
    BY ElementOfSeq, LenProperties
  <2>2. QED
    BY <2>1 DEF Commands
<1>2. \A i \in DOMAIN base : state'[base[i].id] = "running"
  BY <1>1 DEF PoolEffect
<1>3. AllCancelled \subseteq AllCancelled' /\ NoJob \notin AllCancelled'
  BY JobsAssumption DEF PoolEffect, AllCancelled
<1>4. Conversation(Live(w)', base, {}, {}, <<>>, NoJob)
  BY EmptySeq DEF Conversation, RunWaits
<1>5. SignalsFit(Live(w)', base, {}, <<>>, NoJob, AllCancelled')
  BY <1>3 DEF SignalsFit
<1>6. QED
  BY <1>2, <1>4, <1>5 DEF Agreement

\* A worker without a job is given one.
LEMMA EngagedAgrees ==
  ASSUME SystemTypeOK, PoolEffect, NEW w \in Workers, Agreement(w),
         task[w] = NoJob, task'[w] \in Jobs, w \in workers', stopped'[w] = stopped[w],
         inbox'[w] = Post(w), executing'[w] = executing[w], signalled'[w] = signalled[w],
         outbox'[w] = outbox[w]
  PROVE  Agreement(w)'
<1>1. /\ inbox[w] \in Seq(Commands) /\ executing[w] \in SUBSET Jobs
      /\ signalled[w] \in SUBSET Jobs /\ outbox[w] \in Seq(Replies)
      /\ Live(w) \in BOOLEAN /\ stopped[w] \in BOOLEAN
  BY DEF SystemTypeOK, Live
<1>2. Conversation(Live(w), inbox[w], executing[w], signalled[w], outbox[w], NoJob)
  BY DEF Agreement
<1>3. ~RunWaits(inbox[w]) /\ executing[w] = {} /\ signalled[w] = {} /\ outbox[w] = <<>>
  BY <1>1, <1>2, NothingToSay
<1>4. stopped[w] => inbox[w] = <<>>
  BY <1>2 DEF Conversation, Live
<1>5. inbox'[w] = IF stopped'[w] THEN <<>> ELSE inbox[w] \o Posted(w)
  BY <1>4 DEF Post
<1>6. /\ \A i \in DOMAIN inbox[w] : state[inbox[w][i].id] = "running"
      /\ \A i \in DOMAIN inbox[w] : inbox[w][i].type = "cancel" => inbox[w][i].id \in AllCancelled
  BY DEF Agreement, SignalsFit
<1>7. task'[w] # task[w]
  BY JobsAssumption
<1>8. QED
  BY <1>1, <1>3, <1>5, <1>6, <1>7, HiredAgrees

-----------------------------------------------------------------------------
(* The steps of the pool *)

LEMMA PoolStepAgrees ==
  ASSUME SystemInv, PoolStep
  PROVE  \A w \in Workers : Agreement(w)'
<1>1. Next
  BY DEF PoolStep, Next
<1>2. /\ SystemTypeOK /\ TypeOK /\ PlacesInv /\ PoolEffect
      /\ \A w \in Workers : Agreement(w)
  BY <1>1, PoolStepEffect DEF SystemInv, SystemTypeOK
<1>3. \A w \in Workers :
        /\ inbox'[w] = Post(w) /\ stopped'[w] = stopped[w] /\ executing'[w] = executing[w]
        /\ signalled'[w] = signalled[w] /\ outbox'[w] = outbox[w]
  BY DEF PoolStep
<1> DEFINE Keeps(w) == task'[w] = task[w] /\ (w \in workers' <=> w \in workers)
           Engaged(w) == task[w] = NoJob /\ task'[w] \in Jobs /\ w \in workers'
<1>4. ASSUME NEW w \in Workers
      PROVE  Keeps(w) \/ Engaged(w)
  <2>1. CASE task' = task /\ workers' = workers
    BY <2>1
  <2>2. ASSUME NEW j \in Jobs, RunOnIdle(j)
        PROVE  Keeps(w) \/ Engaged(w)
    <3>1. PICK u \in workers : Idle(u) /\ Start(u, j)
      BY <2>2 DEF RunOnIdle
    <3>2. workers' = workers /\ task[u] = NoJob /\ task' = [task EXCEPT ![u] = j]
      BY <2>2, <3>1 DEF RunOnIdle, Idle, Start
    <3>3. QED
      BY <1>2, <3>2 DEF TypeOK
  <2>3. ASSUME NEW j \in Jobs, RunOnNew(j)
        PROVE  Keeps(w) \/ Engaged(w)
    <3>1. PICK u \in Workers \ workers :
            /\ workers' = workers \cup {u}
            /\ task' = [v \in Workers |->
                  IF v = u THEN j ELSE IF v \in workers THEN task[v] ELSE NoJob]
      BY <2>3 DEF RunOnNew, StartNew
    <3>2. w \notin workers => task[w] = NoJob
      BY <1>2 DEF PlacesInv, SlotsInOrder
    <3>3. QED
      BY <3>1, <3>2
  <2>4. QED
    BY <2>1, <2>2, <2>3
       DEF PoolStep, Run, RefuseClosed, RefuseUnclonable, RefuseAborted, RefuseZeroTimeout,
           RefuseQueueFull, Refuse, Enqueue, Abort, Timeout, Cancel, CancelQueued, CancelRunning,
           GraceExpires, Close, CloseDrained, CloseTimeout, CloseDone, TerminateAll
<1>5. QED
  BY <1>2, <1>3, <1>4, KeptAgrees, EngagedAgrees

\* The pool receives the reply it waits for, from a thread that keeps to the
\* protocol: it is never a bad message.
LEMMA RepliesAreGood ==
  ASSUME SystemInv, NEW w \in Workers, outbox[w] # <<>>
  PROVE  /\ Head(outbox[w]) \in Messages /\ Head(outbox[w]).status # "unknown"
         /\ task[w] \in Jobs /\ Head(outbox[w]).id = task[w]
         /\ Tail(outbox[w]) = <<>>
         /\ ~RunWaits(inbox[w]) /\ executing[w] = {} /\ signalled[w] = {}
<1>1. /\ inbox[w] \in Seq(Commands) /\ executing[w] \in SUBSET Jobs
      /\ signalled[w] \in SUBSET Jobs /\ outbox[w] \in Seq(Replies) /\ Live(w) \in BOOLEAN
  BY DEF SystemInv, SystemTypeOK, Live
<1>2. Conversation(Live(w), inbox[w], executing[w], signalled[w], outbox[w], task[w])
  BY DEF SystemInv, Agreement
<1>3. Head(outbox[w]) \in Replies
  BY <1>1, TakenFirst
<1>4. /\ Head(outbox[w]).id = task[w] /\ Tail(outbox[w]) = <<>>
      /\ ~RunWaits(inbox[w]) /\ executing[w] = {} /\ signalled[w] = {}
  BY <1>1, <1>2, ReplyReceived
<1>5. /\ Head(outbox[w]) \in Messages /\ Head(outbox[w]).status # "unknown"
      /\ Head(outbox[w]).id \in Jobs
  BY <1>3 DEF Replies, Messages, Statuses
<1>6. QED
  BY <1>4, <1>5

LEMMA ReceiveAgrees ==
  ASSUME SystemInv, NEW w \in Workers, PoolReceives(w)
  PROVE  \A v \in Workers : Agreement(v)'
<1> DEFINE m == Head(outbox[w])
<1>1. /\ m \in Messages /\ m.status # "unknown" /\ task[w] \in Jobs /\ m.id = task[w]
      /\ Tail(outbox[w]) = <<>>
      /\ ~RunWaits(inbox[w]) /\ executing[w] = {} /\ signalled[w] = {}
  BY RepliesAreGood DEF PoolReceives
<1>2. Reply(w, m)
  BY <1>1, JobsAssumption DEF PoolReceives, OnMessage, BadMessage
<1>3. Next
  BY <1>1, <1>2 DEF Next, OnMessage
<1>4. /\ SystemTypeOK /\ TypeOK /\ PlacesInv /\ PoolEffect
      /\ \A v \in Workers : Agreement(v)
  BY <1>3, PoolStepEffect DEF SystemInv, SystemTypeOK
<1>5. \A v \in Workers :
        /\ inbox'[v] = Post(v) /\ stopped'[v] = stopped[v] /\ executing'[v] = executing[v]
        /\ signalled'[v] = signalled[v] /\ outbox'[v] = IF v = w THEN <<>> ELSE outbox[v]
  BY <1>1, <1>4 DEF PoolReceives, SystemTypeOK
<1>6. /\ w \in workers /\ workers' = workers /\ task[w] # NoJob
      /\ \A i \in Jobs : grace'[i] => grace[i]
  BY <1>2, <1>4 DEF Reply, Release, TypeOK
<1>7. /\ \A v \in Workers : v # w => task'[v] = task[v]
      /\ \/ task'[w] = NoJob
         \/ task'[w] \in Jobs /\ task'[w] # task[w]
  <2>1. CASE Closed \/ queue = <<>>
    BY <1>2, <1>4, <2>1 DEF Reply, Release, TypeOK
  <2>2. CASE ~(Closed \/ queue = <<>>)
    <3>1. Head(queue) \in Jobs /\ task[w] # Head(queue)
      BY <1>4, <2>2, HeadIsFresh
    <3>2. task' = [task EXCEPT ![w] = Head(queue)]
      BY <1>2, <2>2 DEF Reply, Release, Start
    <3>3. QED
      BY <1>4, <3>1, <3>2 DEF TypeOK
  <2>3. QED
    BY <2>1, <2>2
<1>8. \A v \in Workers : v # w => Agreement(v)'
  BY <1>4, <1>5, <1>6, <1>7, KeptAgrees
<1>9. /\ inbox[w] \in Seq(Commands) /\ stopped[w] \in BOOLEAN
      /\ stopped[w] => inbox[w] = <<>>
      /\ \A i \in DOMAIN inbox[w] : state[inbox[w][i].id] = "running"
      /\ \A i \in DOMAIN inbox[w] : inbox[w][i].type = "cancel" => inbox[w][i].id \in AllCancelled
  BY <1>4 DEF SystemTypeOK, Agreement, Conversation, SignalsFit, Live
<1>10. CASE task'[w] = NoJob
  <2>1. Posted(w) = <<>>
    BY <1>1, <1>4, <1>6, <1>10, PostedFacts
  <2>2. inbox'[w] = inbox[w]
    BY <1>5, <1>9, <2>1, ConcatEmptySeq DEF Post
  <2>3. ~Live(w)' => inbox[w] = <<>>
    BY <1>5, <1>6, <1>9 DEF Live
  <2>4. Agreement(w)'
    BY <1>1, <1>4, <1>5, <1>6, <1>9, <1>10, <2>2, <2>3, DismissedAgrees
  <2>5. QED
    BY <1>8, <2>4
<1>11. CASE task'[w] \in Jobs /\ task'[w] # task[w]
  <2>1. inbox'[w] = IF stopped'[w] THEN <<>> ELSE inbox[w] \o Posted(w)
    BY <1>5, <1>9 DEF Post
  <2>2. Agreement(w)'
    BY <1>1, <1>4, <1>5, <1>6, <1>9, <1>11, <2>1, HiredAgrees
  <2>3. QED
    BY <1>8, <2>2
<1>12. QED
  BY <1>7, <1>10, <1>11

\* A thread has exited.  Its slot is free for the thread that replaces it.
LEMMA ExitSeenAgrees ==
  ASSUME SystemInv, NEW w \in Workers, PoolSeesExit(w)
  PROVE  \A v \in Workers : Agreement(v)'
<1>1. Exit(w) /\ Next
  BY DEF PoolSeesExit, Next
<1>2. /\ SystemTypeOK /\ TypeOK /\ PlacesInv /\ PoolEffect
      /\ \A v \in Workers : Agreement(v)
  BY <1>1, PoolStepEffect DEF SystemInv, SystemTypeOK
<1>3. /\ w \in workers /\ \A i \in Jobs : grace'[i] => grace[i]
  BY <1>1 DEF Exit
<1>4. \A v \in Workers : v # w =>
        /\ inbox'[v] = Post(v) /\ stopped'[v] = stopped[v] /\ executing'[v] = executing[v]
        /\ signalled'[v] = signalled[v] /\ outbox'[v] = outbox[v]
  BY <1>2 DEF PoolSeesExit, SystemTypeOK
<1>5. /\ inbox'[w] = Posted(w) /\ stopped'[w] = FALSE /\ executing'[w] = {}
      /\ signalled'[w] = {} /\ outbox'[w] = <<>>
  BY <1>2 DEF PoolSeesExit, SystemTypeOK, Agreement, Conversation, Live
<1> DEFINE Keeps(v) == task'[v] = task[v] /\ (v \in workers' <=> v \in workers)
           Engaged(v) == task[v] = NoJob /\ task'[v] \in Jobs /\ v \in workers'
           Dismissed == task'[w] = NoJob /\ w \notin workers'
           Replaced == task'[w] \in Jobs /\ task'[w] # task[w] /\ w \in workers'
<1>6. /\ \A v \in Workers : v # w => Keeps(v) \/ Engaged(v)
      /\ Dismissed \/ Replaced
  <2>1. \A v \in Workers : v \notin workers => task[v] = NoJob
    BY <1>2 DEF PlacesInv, SlotsInOrder
  <2>2. CASE ExitUnreplaced(w)
    BY <1>2, <2>2 DEF ExitUnreplaced, TypeOK
  <2>3. CASE ExitReplaced(w)
    <3> DEFINE h == Head(queue)
               Alive == workers \ {w}
    <3>1. h \in Jobs /\ \A v \in Workers : task[v] # h
      BY <1>2, <2>3, HeadIsFresh DEF ExitReplaced
    <3>2. PICK u \in Workers \ Alive :
            /\ workers' = Alive \cup {u}
            /\ task' = [v \in Workers |->
                  IF v = u THEN h ELSE IF v \in Alive THEN task[v] ELSE NoJob]
      BY <2>3 DEF ExitReplaced, StartNew
    <3> HIDE DEF h
    <3>3. ASSUME NEW v \in Workers, v # w PROVE Keeps(v) \/ Engaged(v)
      BY <2>1, <3>1, <3>2, <3>3
    <3>4. Dismissed \/ Replaced
      BY <3>1, <3>2
    <3>5. QED
      BY <3>3, <3>4
  <2>4. QED
    BY <1>1, <2>2, <2>3 DEF Exit
<1>7. \A v \in Workers : v # w => Agreement(v)'
  BY <1>2, <1>4, <1>6, KeptAgrees, EngagedAgrees
<1>8. /\ <<>> \in Seq(Commands) /\ ~RunWaits(<<>>)
      /\ \A i \in DOMAIN <<>> : FALSE
  BY EmptySeq DEF RunWaits
<1>9. CASE Dismissed
  <2>1. inbox'[w] = <<>>
    <3>1. task[w] # NoJob => ~grace'[task[w]] \/ grace[task[w]]
      BY <1>2, <1>3 DEF TypeOK
    <3>2. QED
      BY <1>2, <1>5, <1>9, <3>1, PostedFacts
  <2>2. Agreement(w)'
    BY <1>2, <1>5, <1>8, <1>9, <2>1, DismissedAgrees
  <2>3. QED
    BY <1>7, <2>2
<1>10. CASE Replaced
  <2>1. Posted(w) = <<[type |-> "run", id |-> task'[w]]>>
    BY <1>2, <1>10, PostedFacts, JobsAssumption
  <2>2. inbox'[w] = <<>> \o Posted(w)
    <3>1. [type |-> "run", id |-> task'[w]] \in Commands
      BY <1>10 DEF Commands
    <3>2. Posted(w) \in Seq(Commands)
      BY <2>1, <3>1
    <3>3. QED
      BY <1>5, <3>2, ConcatEmptySeq
  <2>3. Agreement(w)'
    BY <1>2, <1>5, <1>8, <1>10, <2>2, HiredAgrees
  <2>4. QED
    BY <1>7, <2>3
<1>11. QED
  BY <1>6, <1>9, <1>10

-----------------------------------------------------------------------------
(* The steps of the threads *)

\* What the thread of w does is no business of another thread, and the pool
\* has yet to hear of it.
LEMMA ThreadStepAgrees ==
  ASSUME SystemInv, NEW w \in Workers, ThreadStep(w)
  PROVE  \A v \in Workers : Agreement(v)'
<1>1. /\ SystemTypeOK /\ Agreement(w) /\ w \in workers /\ ~stopped[w] /\ Live(w) = TRUE
      /\ UNCHANGED vars /\ AllCancelled' = AllCancelled /\ AllCancelled \subseteq Jobs
  BY DEF SystemInv, ThreadStep, ThreadStartsJob, ThreadCancelsJob, ThreadStops, JobEnds, Live,
         vars, AllCancelled, Cancelled
<1>2. \A v \in Workers : v # w => Agreement(v)'
  <2>1. ASSUME NEW v \in Workers, v # w PROVE Agreement(v)'
    <3>1. /\ inbox'[v] = inbox[v] /\ executing'[v] = executing[v]
          /\ signalled'[v] = signalled[v] /\ outbox'[v] = outbox[v] /\ stopped'[v] = stopped[v]
      BY <1>1, <2>1 DEF SystemTypeOK, ThreadStep, ThreadStartsJob, ThreadCancelsJob, ThreadStops,
                        JobEnds
    <3>2. Live(v)' = Live(v)
      BY <1>1, <3>1 DEF Live, vars
    <3>3. Agreement(v)
      BY DEF SystemInv
    <3>4. QED
      BY <1>1, <3>1, <3>2, <3>3 DEF Agreement, vars
  <2>2. QED
    BY <2>1
<1> DEFINE box == inbox[w]
<1>3. /\ box \in Seq(Commands) /\ executing[w] \in SUBSET Jobs /\ signalled[w] \in SUBSET Jobs
      /\ outbox[w] \in Seq(Replies)
      /\ \A i \in DOMAIN box : state[box[i].id] = "running"
      /\ Conversation(TRUE, box, executing[w], signalled[w], outbox[w], task[w])
      /\ SignalsFit(TRUE, box, signalled[w], outbox[w], task[w], AllCancelled)
  BY <1>1 DEF SystemTypeOK, Agreement
<1>4. ASSUME box # <<>> PROVE \A i \in DOMAIN Tail(box) : state[Tail(box)[i].id] = "running"
  <2>1. /\ DOMAIN box = 1 .. Len(box) /\ DOMAIN Tail(box) = 1 .. Len(box) - 1
        /\ \A i \in 1 .. Len(box) - 1 : Tail(box)[i] = box[i + 1]
        /\ Len(box) \in Nat
    BY <1>3, <1>4, TakenFirst
  <2>2. QED
    BY <1>3, <2>1
<1>5. CASE ThreadStartsJob(w)
  <2>1. /\ box # <<>> /\ Head(box).type = "run"
        /\ executing'[w] = executing[w] \cup {Head(box).id} /\ inbox'[w] = Tail(box)
        /\ signalled'[w] = signalled[w] /\ outbox'[w] = outbox[w] /\ stopped'[w] = stopped[w]
    BY <1>1, <1>5 DEF ThreadStartsJob, SystemTypeOK
  <2>2. Conversation(TRUE, inbox'[w], executing'[w], signalled'[w], outbox'[w], task[w])
    <3>1. Conversation(TRUE, Tail(box), executing[w] \cup {Head(box).id}, signalled[w],
                       outbox[w], task[w])
      BY <1>3, <2>1, JobBegun
    <3>2. QED
      BY <2>1, <3>1
  <2>3. SignalsFit(TRUE, inbox'[w], signalled'[w], outbox'[w], task[w], AllCancelled)
    <3>1. SignalsFit(TRUE, Tail(box), signalled[w], outbox[w], task[w], AllCancelled)
      BY <1>3, <2>1, JobBegunFits
    <3>2. QED
      BY <2>1, <3>1
  <2>4. Live(w)' = TRUE
    BY <1>1, <2>1 DEF Live, vars
  <2>5. Agreement(w)'
    BY <1>1, <1>4, <2>1, <2>2, <2>3, <2>4 DEF Agreement, vars
  <2>6. QED
    BY <1>2, <2>5
<1>6. CASE ThreadCancelsJob(w)
  <2>1. /\ box # <<>> /\ Head(box).type = "cancel"
        /\ signalled'[w] = signalled[w] \cup ({Head(box).id} \cap executing[w])
        /\ executing'[w] = executing[w] /\ inbox'[w] = Tail(box)
        /\ outbox'[w] = outbox[w] /\ stopped'[w] = stopped[w]
    BY <1>1, <1>6 DEF ThreadCancelsJob, SystemTypeOK
  <2>2. Conversation(TRUE, inbox'[w], executing'[w], signalled'[w], outbox'[w], task[w])
    <3>1. Conversation(TRUE, Tail(box), executing[w],
                       signalled[w] \cup ({Head(box).id} \cap executing[w]), outbox[w], task[w])
      BY <1>3, <2>1, CancelTaken
    <3>2. QED
      BY <2>1, <3>1
  <2>3. SignalsFit(TRUE, inbox'[w], signalled'[w], outbox'[w], task[w], AllCancelled)
    <3>1. SignalsFit(TRUE, Tail(box), signalled[w] \cup ({Head(box).id} \cap executing[w]),
                     outbox[w], task[w], AllCancelled)
      BY <1>1, <1>3, <2>1, CancelTakenFits
    <3>2. QED
      BY <2>1, <3>1
  <2>4. Live(w)' = TRUE
    BY <1>1, <2>1 DEF Live, vars
  <2>5. Agreement(w)'
    BY <1>1, <1>4, <2>1, <2>2, <2>3, <2>4 DEF Agreement, vars
  <2>6. QED
    BY <1>2, <2>5
<1>7. ASSUME NEW reply \in Replies, JobEnds(w, reply) PROVE Agreement(w)'
  <2>1. /\ reply.id \in executing[w] /\ outbox'[w] = Append(outbox[w], reply)
        /\ executing'[w] = executing[w] \ {reply.id} /\ inbox'[w] = box
        /\ signalled'[w] = signalled[w] \ {reply.id} /\ stopped'[w] = stopped[w]
    BY <1>1, <1>7 DEF JobEnds, SystemTypeOK
  <2>2. Conversation(TRUE, inbox'[w], executing'[w], signalled'[w], outbox'[w], task[w])
    <3>1. Conversation(TRUE, box, executing[w] \ {reply.id}, signalled[w] \ {reply.id},
                       Append(outbox[w], reply), task[w])
      BY <1>3, <2>1, JobReplied
    <3>2. QED
      BY <2>1, <3>1
  <2>3. SignalsFit(TRUE, inbox'[w], signalled'[w], outbox'[w], task[w], AllCancelled)
    <3>1. Append(outbox[w], reply) # <<>>
      BY <1>3
    <3>2. QED
      BY <1>3, <2>1, <3>1 DEF SignalsFit
  <2>4. Live(w)' = TRUE
    BY <1>1, <2>1 DEF Live, vars
  <2>5. QED
    BY <1>1, <1>3, <2>1, <2>2, <2>3, <2>4 DEF Agreement, vars
<1>8. CASE ThreadStops(w)
  <2>1. /\ stopped'[w] = TRUE /\ inbox'[w] = <<>> /\ executing'[w] = {} /\ signalled'[w] = {}
        /\ outbox'[w] = outbox[w]
    BY <1>1, <1>8 DEF ThreadStops, SystemTypeOK
  <2>2. ~RunWaits(<<>>) /\ \A i \in DOMAIN <<>> : FALSE
    BY EmptySeq DEF RunWaits
  <2>3. Conversation(FALSE, <<>>, {}, {}, outbox[w], task[w])
    BY <1>3, <2>2 DEF Conversation
  <2>4. SignalsFit(FALSE, <<>>, {}, outbox[w], task[w], AllCancelled)
    BY <2>2 DEF SignalsFit
  <2>5. Live(w)' = FALSE
    BY <2>1 DEF Live
  <2>6. \A i \in DOMAIN inbox'[w] : state[inbox'[w][i].id] = "running"
    BY <2>1, <2>2
  <2>7. Agreement(w)'
    BY <1>1, <2>1, <2>3, <2>4, <2>5, <2>6 DEF Agreement, vars
  <2>8. QED
    BY <1>2, <2>7
<1>9. QED
  BY <1>2, <1>5, <1>6, <1>7, <1>8 DEF ThreadStep

-----------------------------------------------------------------------------
(* Theorems *)

\* Every step of the system is a step of the pool or none of its business.
LEMMA PoolTakesSteps ==
  ASSUME SystemTypeOK, [SystemNext]_systemVars
  PROVE  [Next]_vars
<1>1. ASSUME NEW w \in Workers, PoolReceives(w) PROVE Next
  <2>1. Head(outbox[w]) \in Replies
    BY <1>1, TakenFirst DEF PoolReceives, SystemTypeOK
  <2>2. Head(outbox[w]) \in Messages
    BY <2>1 DEF Replies, Messages, Statuses
  <2>3. QED
    BY <1>1, <2>2 DEF PoolReceives, Next
<1>2. ASSUME NEW w \in Workers, ThreadStep(w) PROVE UNCHANGED vars
  BY <1>2 DEF ThreadStep, ThreadStartsJob, ThreadCancelsJob, ThreadStops, JobEnds
<1>3. CASE PoolStep
  BY <1>3 DEF PoolStep, Next
<1>4. ASSUME NEW w \in Workers, PoolSeesExit(w) PROVE Next
  BY <1>4 DEF PoolSeesExit, Next
<1>5. CASE UNCHANGED systemVars
  BY <1>5 DEF systemVars
<1>6. QED
  BY <1>1, <1>2, <1>3, <1>4, <1>5 DEF SystemNext

\* What the pool posts is a command, to a thread that may be new.
LEMMA PostType ==
  ASSUME SystemTypeOK, TypeOK', NEW w \in Workers
  PROVE  Posted(w) \in Seq(Commands) /\ Post(w) \in Seq(Commands)
<1>1. /\ task'[w] \in Jobs \cup {NoJob} /\ inbox[w] \in Seq(Commands)
      /\ <<>> \in Seq(Commands)
  BY EmptySeq DEF SystemTypeOK, TypeOK
<1>2. \A j \in Jobs : \A t \in {"run", "cancel"} : <<[type |-> t, id |-> j]>> \in Seq(Commands)
  BY DEF Commands
<1>3. Posted(w) \in Seq(Commands)
  BY <1>1, <1>2 DEF Posted
<1>4. QED
  BY <1>1, <1>3, ConcatProperties DEF Post

LEMMA SystemTypeStep ==
  ASSUME SystemTypeOK, [SystemNext]_systemVars
  PROVE  SystemTypeOK'
<1>1. TypeOK'
  BY PoolTakesSteps, TypeStep DEF SystemTypeOK
<1>2. \A w \in Workers : Posted(w) \in Seq(Commands) /\ Post(w) \in Seq(Commands)
  BY <1>1, PostType
<1>3. CASE PoolStep
  BY <1>1, <1>2, <1>3 DEF PoolStep, SystemTypeOK
<1>4. ASSUME NEW w \in Workers, PoolReceives(w) PROVE SystemTypeOK'
  <2>1. Tail(outbox[w]) \in Seq(Replies)
    BY <1>4, TakenFirst DEF PoolReceives, SystemTypeOK
  <2>2. QED
    BY <1>1, <1>2, <1>4, <2>1 DEF PoolReceives, SystemTypeOK
<1>5. ASSUME NEW w \in Workers, PoolSeesExit(w) PROVE SystemTypeOK'
  BY <1>1, <1>2, <1>5 DEF PoolSeesExit, SystemTypeOK
<1>6. ASSUME NEW w \in Workers, ThreadStartsJob(w) PROVE SystemTypeOK'
  <2>1. Tail(inbox[w]) \in Seq(Commands) /\ Head(inbox[w]) \in Commands
    BY <1>6, TakenFirst DEF ThreadStartsJob, SystemTypeOK
  <2>2. QED
    BY <1>1, <1>6, <2>1 DEF ThreadStartsJob, SystemTypeOK, Commands
<1>7. ASSUME NEW w \in Workers, ThreadCancelsJob(w) PROVE SystemTypeOK'
  <2>1. Tail(inbox[w]) \in Seq(Commands) /\ Head(inbox[w]) \in Commands
    BY <1>7, TakenFirst DEF ThreadCancelsJob, SystemTypeOK
  <2>2. QED
    BY <1>1, <1>7, <2>1 DEF ThreadCancelsJob, SystemTypeOK, Commands
<1>8. ASSUME NEW w \in Workers, NEW reply \in Replies, JobEnds(w, reply) PROVE SystemTypeOK'
  <2>1. Append(outbox[w], reply) \in Seq(Replies)
    BY <1>8 DEF SystemTypeOK
  <2>2. QED
    BY <1>1, <1>8, <2>1 DEF JobEnds, SystemTypeOK
<1>9. ASSUME NEW w \in Workers, ThreadStops(w) PROVE SystemTypeOK'
  <2>1. <<>> \in Seq(Commands)
    BY EmptySeq
  <2>2. QED
    BY <1>1, <1>9, <2>1 DEF ThreadStops, SystemTypeOK
<1>10. CASE UNCHANGED systemVars
  BY <1>1, <1>10 DEF systemVars, threadVars, SystemTypeOK
<1>11. QED
  BY <1>3, <1>4, <1>5, <1>6, <1>7, <1>8, <1>9, <1>10 DEF SystemNext, ThreadStep

LEMMA SystemStep == SystemInv /\ [SystemNext]_systemVars => SystemInv'
<1> SUFFICES ASSUME SystemInv, [SystemNext]_systemVars PROVE SystemInv'
  OBVIOUS
<1>1. /\ SystemTypeOK /\ TypeOK /\ PlacesInv /\ GraceInv /\ [Next]_vars
      /\ \A w \in Workers : Agreement(w)
  BY PoolTakesSteps DEF SystemInv, SystemTypeOK
<1>2. SystemTypeOK' /\ PlacesInv'
  BY <1>1, SystemTypeStep, PlacesStep
<1>3. GraceInv'
  <2>1. CASE Next
    <3>1. PoolEffect
      BY <1>1, <2>1, PoolStepEffect
    <3>2. QED
      BY <3>1 DEF PoolEffect, GraceInv, AllCancelled, Cancelled
  <2>2. CASE UNCHANGED vars
    BY <1>1, <2>2 DEF GraceInv, Cancelled, vars
  <2>3. QED
    BY <1>1, <2>1, <2>2
<1>4. \A w \in Workers : Agreement(w)'
  <2>1. CASE UNCHANGED systemVars
    BY <1>1, <2>1 DEF systemVars, threadVars, vars, Agreement, Live, AllCancelled, Cancelled
  <2>2. QED
    BY <2>1, PoolStepAgrees, ReceiveAgrees, ExitSeenAgrees, ThreadStepAgrees DEF SystemNext
<1>5. QED
  BY <1>2, <1>3, <1>4 DEF SystemInv

\* The variables keep their types: queues of commands and replies, sets of
\* jobs, through every message, exit and stop.
THEOREM SystemTypeCorrect == SystemSpec => []SystemTypeOK
<1>1. SystemInit => SystemTypeOK
  BY EmptySeq DEF SystemInit, Init, SystemTypeOK, TypeOK, Outcomes, Phases
<1>2. SystemTypeOK /\ [SystemNext]_systemVars => SystemTypeOK'
  BY SystemTypeStep
<1>3. QED
  BY <1>1, <1>2, PTL DEF SystemSpec

\* With threads that keep to the protocol of job-worker.ts the pool is still
\* the pool of WorkerPool.tla: the composition takes none of its promises away.
THEOREM SystemIsAPool == SystemSpec => Spec
<1>1. SystemInit => Init
  BY DEF SystemInit
<1>2. SystemTypeOK /\ [SystemNext]_systemVars => [Next]_vars
  BY PoolTakesSteps
<1>3. QED
  BY <1>1, <1>2, SystemTypeCorrect, PTL DEF SystemSpec, Spec

\* Hence the runner with its threads is a job service.
THEOREM SystemIsAService == SystemSpec => ImplementsService
BY SystemIsAPool, PoolIsAService, PTL

\* The inductive invariant of the composition: every conversation is about
\* the job the pool believes the thread runs, and cancels fit the outcomes.
THEOREM SystemInvariance == SystemSpec => []SystemInv
<1>1. SystemInit => SystemInv
  <2> SUFFICES ASSUME SystemInit PROVE SystemInv
    OBVIOUS
  <2>1. SystemTypeOK
    BY EmptySeq DEF SystemInit, Init, SystemTypeOK, TypeOK, Outcomes, Phases
  <2>2. PlacesInv /\ GraceInv
    BY DEF SystemInit, Init, PlacesInv, SlotsInOrder, OnePlacePerJob, NoForgottenJob, GraceInv,
           Closed, Queued, Range, IsInjective
  <2>3. ASSUME NEW w \in Workers PROVE Agreement(w)
    <3>1. /\ inbox[w] = <<>> /\ executing[w] = {} /\ signalled[w] = {} /\ outbox[w] = <<>>
          /\ stopped[w] = FALSE /\ task[w] = NoJob
      BY DEF SystemInit, Init
    <3>2. /\ \A s : s = <<>> => \A i \in DOMAIN s : FALSE
          /\ Len(<<>>) = 0
      BY EmptySeq
    <3>3. Conversation(Live(w), inbox[w], executing[w], signalled[w], outbox[w], task[w])
      BY <3>1, <3>2 DEF Conversation, RunWaits
    <3>4. SignalsFit(Live(w), inbox[w], signalled[w], outbox[w], task[w], AllCancelled)
      BY <3>1, <3>2, JobsAssumption DEF SignalsFit, AllCancelled
    <3>5. QED
      BY <3>1, <3>2, <3>3, <3>4 DEF Agreement
  <2>4. QED
    BY <2>1, <2>2, <2>3 DEF SystemInv
<1>2. QED
  BY <1>1, SystemStep, PTL DEF SystemSpec

\* What the pool believes its threads run is what they run: the job of a live
\* thread is on its way, being run, or on its way back, and no other is.
THEOREM ThreadsAgree == SystemSpec => []PoolAndThreadAgree
<1>1. SystemInv => PoolAndThreadAgree
  <2> SUFFICES ASSUME SystemInv, NEW w \in Workers
               PROVE  IF w \in workers
                        THEN ~stopped[w] => \A j \in Jobs : InTransit(w, j) <=> task[w] = j
                        ELSE \A j \in Jobs : ~InTransit(w, j)
    BY DEF PoolAndThreadAgree
  <2>1. /\ inbox[w] \in Seq(Commands) /\ executing[w] \in SUBSET Jobs
        /\ signalled[w] \in SUBSET Jobs /\ outbox[w] \in Seq(Replies) /\ Live(w) \in BOOLEAN
        /\ Conversation(Live(w), inbox[w], executing[w], signalled[w], outbox[w], task[w])
        /\ w \notin workers => task[w] = NoJob
    BY DEF SystemInv, SystemTypeOK, Agreement, Live, PlacesInv, SlotsInOrder
  <2>2. ASSUME NEW j \in Jobs, InTransit(w, j) PROVE task[w] = j
    BY <2>1, <2>2 DEF InTransit, Conversation
  <2>3. ASSUME NEW j \in Jobs, Live(w), task[w] = j PROVE InTransit(w, j)
    <3>1. CASE RunWaits(inbox[w])
      <4>1. PICK i \in DOMAIN inbox[w] : inbox[w][i].type = "run"
        BY <3>1 DEF RunWaits
      <4>2. inbox[w][i] \in Commands
        BY <2>1, ElementOfSeq, LenProperties
      <4>3. inbox[w][i].id = j
        BY <2>1, <2>3, <4>1 DEF Conversation
      <4>4. inbox[w][i] = [type |-> "run", id |-> j]
        BY <4>1, <4>2, <4>3 DEF Commands
      <4>5. QED
        BY <4>4 DEF InTransit
    <3>2. CASE executing[w] # {}
      BY <2>1, <2>3, <3>2 DEF Conversation, InTransit
    <3>3. CASE outbox[w] # <<>>
      <4>1. 1 \in DOMAIN outbox[w]
        BY <2>1, <3>3, TakenFirst
      <4>2. outbox[w][1].id = j
        BY <2>1, <2>3, <4>1 DEF Conversation
      <4>3. QED
        BY <4>1, <4>2 DEF InTransit
    <3>4. QED
      BY <2>1, <2>3, <3>1, <3>2, <3>3, JobsAssumption DEF Conversation
  <2>4. QED
    BY <2>1, <2>2, <2>3, JobsAssumption DEF Live
<1>2. QED
  BY <1>1, SystemInvariance, PTL

\* A cancel reaches the job it is meant for, however it crosses replies and
\* the reuse of a thread, and no other job is ever told to stop.
THEOREM CancelsReach == SystemSpec => []CancelReachesItsJob
<1>1. SystemInv => CancelReachesItsJob
  <2> SUFFICES ASSUME SystemInv, NEW w \in Workers, NEW j \in executing[w]
               PROVE  Cancelled(j) <=> \/ j \in signalled[w]
                                       \/ \E i \in DOMAIN inbox[w] :
                                            inbox[w][i] = [type |-> "cancel", id |-> j]
    BY DEF CancelReachesItsJob
  <2>1. /\ executing[w] \in SUBSET Jobs
        /\ Conversation(Live(w), inbox[w], executing[w], signalled[w], outbox[w], task[w])
        /\ SignalsFit(Live(w), inbox[w], signalled[w], outbox[w], task[w], AllCancelled)
    BY DEF SystemInv, SystemTypeOK, Agreement
  <2>2. j \in Jobs /\ j = task[w] /\ Live(w) /\ outbox[w] = <<>>
    BY <2>1 DEF Conversation
  <2>3. Cancelled(j) <=> j \in AllCancelled
    BY <2>2 DEF AllCancelled
  <2>4. QED
    BY <2>1, <2>2, <2>3 DEF SignalsFit
<1>2. QED
  BY <1>1, SystemInvariance, PTL

\* The pool never takes a thread of the runner for a broken one: a reply
\* always finds the pool waiting for that very job.
RepliesFit ==
  \A w \in Workers : outbox[w] # <<>> =>
    w \in workers /\ Head(outbox[w]).id = task[w] /\ Head(outbox[w]).status # "unknown"

THEOREM NoBadMessage == SystemSpec => []RepliesFit
<1>1. SystemInv => RepliesFit
  BY RepliesAreGood, JobsAssumption DEF RepliesFit, SystemInv, PlacesInv, SlotsInOrder
<1>2. QED
  BY <1>1, SystemInvariance, PTL
=============================================================================
