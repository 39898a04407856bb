----------------------------- MODULE JobService -----------------------------
(***************************************************************************)
(* What WorkerPool promises its callers, without threads, messages or      *)
(* timers: a bounded first-come first-served line in front of a bounded    *)
(* number of places.  A place that comes free is given to the head of the  *)
(* line in the same step; a job is served once at most and settled once;   *)
(* only the end of its service can be its success.                         *)
(*                                                                         *)
(* A cancelled job is settled at once and keeps its place until its        *)
(* service has really ended, as the thread that runs it does.              *)
(***************************************************************************)
EXTENDS Naturals, Sequences, SequencesExt, FiniteSets

CONSTANTS Jobs, Places, LineSize

VARIABLES
  waiting,   \* the line
  running,   \* the jobs that hold a place
  begun,     \* the jobs that were ever given one
  outcome,   \* how a job was settled, or "pending"
  phase      \* "open", "closing" or "closed"

vars == <<waiting, running, begun, outcome, phase>>

Init ==
  /\ waiting = <<>> /\ running = {} /\ begun = {}
  /\ outcome = [j \in Jobs |-> "pending"]
  /\ phase = "open"

-----------------------------------------------------------------------------
Pending(j) == outcome[j] = "pending"
Fresh(j) == j \notin begun /\ j \notin Range(waiting) /\ Pending(j)
HasPlace == Cardinality(running) < Places
Settled(j, result) == IF Pending(j) THEN [outcome EXCEPT ![j] = result] ELSE outcome

\* A call that is never admitted; it says so truthfully.
Refuse(j, result) ==
  /\ Fresh(j)
  /\ result \in {"closed", "queueFull", "unclonable", "aborted", "timedOut"}
  /\ result = "closed" <=> phase # "open"
  /\ result = "queueFull" => Len(waiting) >= LineSize
  /\ outcome' = Settled(j, result)
  /\ UNCHANGED <<waiting, running, begun, phase>>

\* A job is served on arrival only if nobody waits.
Serve(j) ==
  /\ phase = "open" /\ Fresh(j)
  /\ waiting = <<>> /\ HasPlace
  /\ running' = running \cup {j}
  /\ begun' = begun \cup {j}
  /\ UNCHANGED <<waiting, outcome, phase>>

Wait(j) ==
  /\ phase = "open" /\ Fresh(j)
  /\ Len(waiting) < LineSize
  /\ waiting' = Append(waiting, j)
  /\ UNCHANGED <<running, begun, outcome, phase>>

\* A cancelled job leaves the line; the others keep their order.
GiveUp(j, result) ==
  /\ Pending(j) /\ result \in {"aborted", "timedOut"}
  /\ \E i \in DOMAIN waiting : waiting[i] = j /\ waiting' = RemoveAt(waiting, i)
  /\ outcome' = Settled(j, result)
  /\ UNCHANGED <<running, begun, phase>>

\* A running job is settled before its service has ended.
Decide(j, result) ==
  /\ j \in running
  /\ result \in {"aborted", "timedOut", "terminated"}
  /\ outcome' = Settled(j, result)
  /\ UNCHANGED <<waiting, running, begun, phase>>

\* The places of the jobs in left are free: the head of the line takes one.
HandOver(left) ==
  IF waiting = <<>>
    THEN running' = running \ left /\ UNCHANGED <<waiting, begun>>
    ELSE /\ running' = (running \ left) \cup {Head(waiting)}
         /\ begun' = begun \cup {Head(waiting)}
         /\ waiting' = Tail(waiting)

\* The service of a job ends.
Leave(j, result) ==
  /\ j \in running
  /\ result \in {"succeeded", "failed", "terminated"}
  /\ outcome' = Settled(j, result)
  /\ HandOver({j})
  /\ UNCHANGED phase

\* A place that was broken when its job left is usable again.
Repair ==
  /\ waiting # <<>> /\ HasPlace
  /\ HandOver({})
  /\ UNCHANGED <<outcome, phase>>

\* Shutdown: the line is dismissed, running jobs may end or be forced to,
\* and it is over when every place is free.
Close ==
  /\ phase = "open" /\ phase' = "closing"
  /\ outcome' = [j \in Jobs |-> IF j \in Range(waiting) /\ Pending(j)
                                  THEN "aborted" ELSE outcome[j]]
  /\ waiting' = <<>>
  /\ UNCHANGED <<running, begun>>

Force ==
  /\ phase = "closing"
  /\ outcome' = [j \in Jobs |-> IF j \in running /\ Pending(j)
                                  THEN "terminated" ELSE outcome[j]]
  /\ UNCHANGED <<waiting, running, begun, phase>>

Finish ==
  /\ phase = "closing" /\ running = {}
  /\ phase' = "closed"
  /\ UNCHANGED <<waiting, running, begun, outcome>>

Results == {"closed", "queueFull", "unclonable", "aborted", "timedOut",
            "succeeded", "failed", "terminated"}

Next ==
  \/ \E j \in Jobs :
       \/ Serve(j) \/ Wait(j)
       \/ \E result \in Results :
            \/ Refuse(j, result) \/ GiveUp(j, result)
            \/ Decide(j, result) \/ Leave(j, result)
  \/ Repair \/ Close \/ Force \/ Finish

Spec == Init /\ [][Next]_vars
=============================================================================
