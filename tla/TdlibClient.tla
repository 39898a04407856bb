----------------------------- MODULE TdlibClient -----------------------------
(***************************************************************************)
(* The clients of lib/tdlib (client.ts) over the transport they share      *)
(* (transport.ts) and its worker thread (worker.ts), which holds one       *)
(* native TDLib client for each of them.                                   *)
(*                                                                         *)
(* Main thread and worker exchange messages over a port, in order.  An     *)
(* action of the main thread is one callback with the promise reactions it *)
(* sets off; an action of the worker is one message, or what its pump      *)
(* receives from one native client.  A worker that dies takes its native   *)
(* clients with it.  A client for which TDLib has updates has one          *)
(* subscription, made before it starts; updates are numbered.              *)
(***************************************************************************)
EXTENDS Naturals, Sequences, FiniteSets, SequencesExt

CONSTANTS
  Clients,    \* TdlibClient objects
  Calls,      \* the requests of their users, each made once
  MaxQueueSize,  \* of a subscription
  MaxUpdates, \* bounds on the updates of each client
  MaxBreaks   \* bound on failures of a native client and deaths of the worker

ASSUME TdlibAssumption ==
  /\ "close" \notin Calls
  /\ MaxQueueSize \in Nat \ {0} /\ MaxUpdates \in [Clients -> Nat] /\ MaxBreaks \in Nat

VARIABLES
  state,       \* TdlibClient.state
  start,       \* startPromise: where its async function is
  close,       \* closePromise: where performClose is
  release,     \* failureRelease
  pending,     \* the calls a client waits for, "close" its own one
  made,        \* the calls that have been made
  arrived,     \* number of updates received for an active subscription
  active,      \* the clients whose subscription is active
  queue,       \* updates the subscription has not handled
  processing,  \* the clients whose handler is busy with an update
  seen,        \* history: the last update the handler of an active one was given
  registered,  \* WorkerTransport.clients
  waiting,     \* destroyWaiters: who waits for the native client to go
  alive,       \* is there a worker?
  toWorker,    \* messages to the worker
  toMain,      \* messages from it
  native,      \* the native clients of the worker
  asked,       \* requests TDLib has not answered
  breaks       \* number of failures so far

clientVars == <<state, start, close, release, pending, made>>
transportVars == <<registered, waiting, alive, toWorker>>
workerVars == <<toMain, native, asked, breaks>>
updateVars == <<arrived, active, queue, processing, seen>>
vars == <<clientVars, updateVars, transportVars, workerVars>>

Requests == Calls \cup {"close"}
Message(kind, c) == [kind |-> kind, client |-> c, call |-> "close"]

ToWorker == [kind : {"init", "send", "destroy"}, client : Clients, call : Requests]
ToMain == [kind : {"ready", "response", "update", "fatal", "destroyed"},
           client : Clients, call : Requests]

TypeOK ==
  /\ state \in [Clients -> {"created", "started", "closing", "closed", "failed"}]
  /\ start \in [Clients -> {"none", "verifying", "waiting", "undoing", "done", "rejected"}]
  /\ close \in [Clients -> {"none", "asking", "destroying", "awaiting", "done", "rejected"}]
  /\ release \in [Clients -> {"none", "destroying", "done", "rejected"}]
  /\ pending \subseteq Clients \X Requests
  /\ made \subseteq Calls
  /\ active \subseteq Clients /\ processing \subseteq Clients
  /\ arrived \in [Clients -> Nat] /\ seen \in [Clients -> Nat]
  /\ queue \in [Clients -> Seq(Nat)]
  /\ \A c \in Clients : Len(queue[c]) <= MaxQueueSize
  /\ registered \subseteq Clients
  /\ waiting \in [Clients -> SUBSET {"start", "close", "release"}]
  /\ alive \in BOOLEAN
  /\ toWorker \in Seq(ToWorker) /\ toMain \in Seq(ToMain)
  /\ native \subseteq Clients
  /\ asked \subseteq Clients \X Requests
  /\ breaks \in 0 .. MaxBreaks

Init ==
  /\ state = [c \in Clients |-> "created"]
  /\ start = [c \in Clients |-> "none"]
  /\ close = [c \in Clients |-> "none"]
  /\ release = [c \in Clients |-> "none"]
  /\ pending = {} /\ made = {}
  /\ arrived = [c \in Clients |-> 0] /\ active = {c \in Clients : MaxUpdates[c] > 0}
  /\ queue = [c \in Clients |-> <<>>]
  /\ processing = {} /\ seen = [c \in Clients |-> 0]
  /\ registered = {} /\ waiting = [c \in Clients |-> {}]
  /\ alive = FALSE /\ toWorker = <<>> /\ toMain = <<>>
  /\ native = {} /\ asked = {} /\ breaks = 0

-----------------------------------------------------------------------------
(* Starting *)

\* start(): verifyArtifact reads files.
Start(c) ==
  /\ state[c] = "created" /\ start[c] = "none"
  /\ start' = [start EXCEPT ![c] = "verifying"]
  /\ UNCHANGED <<state, close, release, pending, made, updateVars, transportVars, workerVars>>

\* transport.start: a record, a worker if there is none, and "init"; also for
\* a client that has been closed meanwhile.
Verified(c) ==
  /\ start[c] = "verifying"
  /\ start' = [start EXCEPT ![c] = "waiting"]
  /\ registered' = registered \cup {c}
  /\ alive' = TRUE
  /\ toWorker' = Append(toWorker, Message("init", c))
  /\ UNCHANGED <<state, close, release, pending, made, waiting, updateVars, workerVars>>

\* The artifact does not match: the start rejects and the client fails, with
\* nothing to release.
NotVerified(c) ==
  /\ start[c] = "verifying"
  /\ start' = [start EXCEPT ![c] = "rejected"]
  /\ IF state[c] = "created"
       THEN /\ state' = [state EXCEPT ![c] = "failed"]
            /\ release' = [release EXCEPT ![c] = "done"]
       ELSE UNCHANGED <<state, release>>
  /\ UNCHANGED <<close, pending, made, updateVars, transportVars, workerVars>>

\* Mutant of Ready: a start that comes late is not noticed.
ReadyAnyway(c) ==
  /\ state' = [state EXCEPT ![c] = "started"]
  /\ start' = [start EXCEPT ![c] = "done"]
  /\ UNCHANGED <<waiting, toWorker>>

\* The record's promise resolves.  A client that has been closed meanwhile
\* releases what it has just got.
Ready(c) ==
  IF state[c] = "created"
    THEN /\ state' = [state EXCEPT ![c] = "started"]
         /\ start' = [start EXCEPT ![c] = "done"]
         /\ UNCHANGED <<waiting, toWorker>>
    ELSE /\ start' = [start EXCEPT ![c] = "undoing"]
         /\ waiting' = [waiting EXCEPT ![c] = @ \cup {"start"}]
         /\ toWorker' = Append(toWorker, Message("destroy", c))
         /\ UNCHANGED state

-----------------------------------------------------------------------------
(* Calls *)

Invoke(c, q) ==
  /\ state[c] = "started" /\ q \notin made
  /\ made' = made \cup {q}
  /\ pending' = pending \cup {<<c, q>>}
  /\ toWorker' = Append(toWorker, [kind |-> "send", client |-> c, call |-> q])
  /\ UNCHANGED <<state, start, close, release, registered, waiting, alive, updateVars, workerVars>>

\* The caller's signal or timeout: only the wait ends.
Abort(c, q) ==
  /\ <<c, q>> \in pending /\ q # "close"
  /\ pending' = pending \ {<<c, q>>}
  /\ UNCHANGED <<state, start, close, release, made, updateVars, transportVars, workerVars>>

-----------------------------------------------------------------------------
(* Closing *)

\* close(): performClose up to its first wait.
Close(c) ==
  /\ close[c] = "none"
  /\ CASE state[c] = "created" ->
            /\ state' = [state EXCEPT ![c] = "closed"]
            /\ close' = [close EXCEPT ![c] = "done"]
            /\ UNCHANGED <<pending, toWorker>>
       [] state[c] = "started" ->
            /\ state' = [state EXCEPT ![c] = "closing"]
            /\ close' = [close EXCEPT ![c] = "asking"]
            /\ pending' = pending \cup {<<c, "close">>}
            /\ toWorker' = Append(toWorker, [kind |-> "send", client |-> c, call |-> "close"])
       [] state[c] = "failed" ->
            /\ close' = [close EXCEPT ![c] =
                           IF release[c] = "destroying" THEN "awaiting" ELSE release[c]]
            /\ UNCHANGED <<state, pending, toWorker>>
  /\ UNCHANGED <<start, release, made, registered, waiting, alive, updateVars, workerVars>>

\* Mutant of Response: close() ends with the answer of TDLib.
ResponseCloses(c, q) ==
  /\ pending' = pending \ {<<c, q>>}
  /\ close' = [close EXCEPT ![c] = IF q = "close" /\ <<c, q>> \in pending THEN "done" ELSE @]
  /\ UNCHANGED <<waiting, toWorker>>

\* TDLib has answered the close request: performClose destroys the client.
\* The answer to a call nobody waits for is dropped.
Response(c, q) ==
  /\ pending' = pending \ {<<c, q>>}
  /\ IF q = "close" /\ <<c, q>> \in pending
       THEN /\ close' = [close EXCEPT ![c] = "destroying"]
            /\ waiting' = [waiting EXCEPT ![c] = @ \cup {"close"}]
            /\ toWorker' = Append(toWorker, Message("destroy", c))
       ELSE UNCHANGED <<close, waiting, toWorker>>

-----------------------------------------------------------------------------
(* Updates *)

Unsubscribed(S) ==
  /\ active' = active \ S
  /\ queue' = [c \in Clients |-> IF c \in S THEN <<>> ELSE queue[c]]
  /\ arrived' = [c \in Clients |-> IF c \in S THEN 0 ELSE arrived[c]]
  /\ seen' = [c \in Clients |-> IF c \in S THEN 0 ELSE seen[c]]

\* The function onUpdate() has returned.
Unsubscribe(c) ==
  /\ c \in active
  /\ Unsubscribed({c})
  /\ UNCHANGED <<processing, clientVars, transportVars, workerVars>>

\* An update for an active subscription waits, or is handled at once if the
\* handler is free.
Queued(c) ==
  /\ arrived' = [arrived EXCEPT ![c] = @ + 1]
  /\ IF c \in processing
       THEN queue' = [queue EXCEPT ![c] = Append(@, arrived'[c])] /\ UNCHANGED <<processing, seen>>
       ELSE /\ processing' = processing \cup {c}
            /\ seen' = [seen EXCEPT ![c] = arrived'[c]]
            /\ UNCHANGED queue
  /\ UNCHANGED active

\* Mutant of Update: a full queue loses the update, not the subscription.
UpdateDropped(c) ==
  IF c \notin active THEN UNCHANGED updateVars
  ELSE IF Len(queue[c]) = MaxQueueSize
    THEN /\ arrived' = [arrived EXCEPT ![c] = @ + 1]
         /\ UNCHANGED <<active, queue, processing, seen>>
  ELSE Queued(c)

\* handleMessage: an update that finds the queue full ends the subscription.
Update(c) ==
  IF c \notin active THEN UNCHANGED updateVars
  ELSE IF Len(queue[c]) = MaxQueueSize THEN Unsubscribed({c}) /\ UNCHANGED processing
  ELSE Queued(c)

\* drain: the handler is given the next update; if it fails, there is none.
HandlerEnds(c, ok) ==
  /\ c \in processing
  /\ IF ok /\ queue[c] # <<>>
       THEN /\ seen' = [seen EXCEPT ![c] = Head(queue[c])]
            /\ queue' = [queue EXCEPT ![c] = Tail(@)]
            /\ UNCHANGED <<arrived, active, processing>>
       ELSE /\ processing' = processing \ {c}
            /\ Unsubscribed(IF ok THEN {} ELSE {c})
  /\ UNCHANGED <<clientVars, transportVars, workerVars>>

-----------------------------------------------------------------------------
(* Failing *)

Failing(S) == {c \in S : state[c] \notin {"closed", "failed"}}
Of(S) == {p \in pending : p[1] \in S}
Asking(S) == {c \in S : close[c] = "asking"}

\* Mutant of FatalTo: the calls of its users stay open.
FatalUnanswered(c) ==
  /\ state' = [d \in Clients |-> IF d \in Failing({c}) THEN "failed" ELSE state[d]]
  /\ release' = [d \in Clients |-> IF d \in Failing({c}) THEN "destroying" ELSE release[d]]
  /\ waiting' = [d \in Clients |-> waiting[d] \cup IF d \in Failing({c}) THEN {"release"} ELSE {}]
  /\ toWorker' = IF c \in Failing({c}) THEN Append(toWorker, Message("destroy", c)) ELSE toWorker
  /\ UNCHANGED <<pending, close>>

\* fail() of a client with a record: its calls are rejected and it is
\* destroyed; so it is once more by a performClose that was asking.
FatalTo(c) ==
  LET asking == c \in Asking({c}) IN
  IF Failing({c}) = {} THEN UNCHANGED <<state, pending, release, close, waiting, toWorker>>
  ELSE /\ state' = [state EXCEPT ![c] = "failed"]
       /\ pending' = pending \ Of({c})
       /\ release' = [release EXCEPT ![c] = "destroying"]
       /\ close' = [close EXCEPT ![c] = IF asking THEN "destroying" ELSE @]
       /\ waiting' = [waiting EXCEPT ![c] =
                        @ \cup {"release"} \cup IF asking THEN {"close"} ELSE {}]
       /\ toWorker' = toWorker \o [i \in 1 .. IF asking THEN 2 ELSE 1 |-> Message("destroy", c)]

\* The same for a start that is not ready: the record goes, and nothing is
\* left to release.
InitFailed(c) ==
  /\ start' = [start EXCEPT ![c] = "rejected"]
  /\ registered' = registered \ {c}
  /\ IF state[c] = "created"
       THEN /\ state' = [state EXCEPT ![c] = "failed"]
            /\ release' = [release EXCEPT ![c] = "done"]
       ELSE UNCHANGED <<state, release>>

\* The "error" or "exit" event of the worker, with every record: clients fail,
\* and who waits for a native client to go is told that it cannot be confirmed.
WorkerDies ==
  /\ alive /\ breaks < MaxBreaks
  /\ breaks' = breaks + 1
  /\ alive' = FALSE /\ toWorker' = <<>> /\ toMain' = <<>>
  /\ native' = {} /\ asked' = {} /\ registered' = {}
  /\ waiting' = [c \in Clients |-> {}]
  /\ start' = [c \in Clients |-> IF start[c] \in {"waiting", "undoing"} THEN "rejected"
                                 ELSE start[c]]
  /\ state' = [c \in Clients |->
                 IF c \notin Failing(registered) THEN state[c]
                 ELSE IF close[c] = "asking" THEN "closed" ELSE "failed"]
  /\ release' = [c \in Clients |->
                   IF c \in Failing(registered) THEN "done"
                   ELSE IF release[c] = "destroying" THEN "rejected" ELSE release[c]]
  /\ close' = [c \in Clients |->
                 IF close[c] \in {"destroying", "awaiting"} THEN "rejected"
                 ELSE IF close[c] = "asking" THEN "done" ELSE close[c]]
  /\ pending' = pending \ Of(Failing(registered))
  /\ Unsubscribed({c \in Clients : close[c] \in {"asking", "destroying"}})
  /\ UNCHANGED <<made, processing>>

-----------------------------------------------------------------------------
(* Messages to the main thread *)

\* The record goes, everyone who waited for it goes on, and the worker of the
\* last record is terminated.
Destroyed(c) ==
  /\ registered' = registered \ {c}
  /\ waiting' = [waiting EXCEPT ![c] = {}]
  /\ start' = [start EXCEPT ![c] = IF "start" \in waiting[c] THEN "rejected" ELSE @]
  /\ release' = [release EXCEPT ![c] = IF "release" \in waiting[c] THEN "done" ELSE @]
  /\ state' = [state EXCEPT ![c] = IF "close" \in waiting[c] THEN "closed" ELSE @]
  /\ pending' = IF "close" \in waiting[c] THEN pending \ Of({c}) ELSE pending
  /\ close' = [close EXCEPT ![c] =
                 IF @ = "awaiting" \/ "close" \in waiting[c] THEN "done" ELSE @]
  /\ Unsubscribed(IF "close" \in waiting[c] THEN {c} ELSE {})
  /\ IF registered' = {}
       THEN alive' = FALSE /\ toWorker' = <<>> /\ toMain' = <<>> /\ native' = {} /\ asked' = {}
       ELSE toMain' = Tail(toMain) /\ UNCHANGED <<alive, toWorker, native, asked>>

\* A message for a client without a record is ignored.
MainTakes ==
  /\ toMain # <<>>
  /\ LET m == Head(toMain)
         c == m.client
     IN
     IF c \notin registered
       THEN /\ toMain' = Tail(toMain)
            /\ UNCHANGED <<clientVars, updateVars, transportVars, native, asked>>
     ELSE IF m.kind = "destroyed"
       THEN Destroyed(c) /\ UNCHANGED <<made, processing>>
     ELSE IF m.kind = "update"
       THEN /\ toMain' = Tail(toMain)
            /\ Update(c)
            /\ UNCHANGED <<clientVars, transportVars, native, asked>>
     ELSE /\ toMain' = Tail(toMain)
          /\ UNCHANGED <<made, updateVars, alive, native, asked>>
          /\ CASE m.kind = "ready" ->
                    Ready(c) /\ UNCHANGED <<close, release, pending, registered>>
               [] m.kind = "response" ->
                    Response(c, m.call) /\ UNCHANGED <<state, start, release, registered>>
               [] m.kind = "fatal" /\ start[c] = "waiting" ->
                    InitFailed(c) /\ UNCHANGED <<close, pending, waiting, toWorker>>
               [] m.kind = "fatal" /\ start[c] # "waiting" ->
                    FatalTo(c) /\ UNCHANGED <<start, registered>>
  /\ UNCHANGED breaks

-----------------------------------------------------------------------------
(* The worker *)

WorkerFails(c) ==
  /\ native' = native \ {c}
  /\ asked' = {p \in asked : p[1] # c}
  /\ toMain' = Append(toMain, Message("fatal", c))

WorkerTakes(ok) ==
  /\ alive /\ toWorker # <<>>
  /\ toWorker' = Tail(toWorker)
  /\ LET m == Head(toWorker)
         c == m.client
     IN CASE m.kind = "init" /\ ok ->
               /\ native' = native \cup {c}
               /\ toMain' = Append(toMain, Message("ready", c))
               /\ UNCHANGED asked
          [] m.kind = "init" /\ ~ok -> WorkerFails(c)
          [] m.kind = "send" /\ c \in native ->
               asked' = asked \cup {<<c, m.call>>} /\ UNCHANGED <<native, toMain>>
          [] m.kind = "send" /\ c \notin native -> WorkerFails(c)
          [] m.kind = "destroy" ->
               /\ native' = native \ {c}
               /\ asked' = {p \in asked : p[1] # c}
               /\ toMain' = Append(toMain, Message("destroyed", c))
  /\ UNCHANGED <<clientVars, updateVars, registered, waiting, alive, breaks>>

\* TDLib answers a request, and the pump receives it.
Answer(c, q) ==
  /\ <<c, q>> \in asked
  /\ asked' = asked \ {<<c, q>>}
  /\ toMain' = Append(toMain, [kind |-> "response", client |-> c, call |-> q])
  /\ UNCHANGED <<clientVars, updateVars, transportVars, native, breaks>>

\* TDLib has an update for the client, and the pump receives it; one for a
\* client without a subscription changes nothing.
Sends(c) ==
  /\ c \in native \cap active
  /\ arrived[c] + Len(SelectSeq(toMain, LAMBDA m : m = Message("update", c))) < MaxUpdates[c]
  /\ toMain' = Append(toMain, Message("update", c))
  /\ UNCHANGED <<clientVars, updateVars, transportVars, native, asked, breaks>>

\* The pump cannot read what it receives from a client.
Breaks(c) ==
  /\ c \in native /\ breaks < MaxBreaks
  /\ breaks' = breaks + 1
  /\ WorkerFails(c)
  /\ UNCHANGED <<clientVars, updateVars, transportVars>>

-----------------------------------------------------------------------------
Worker == \/ \E ok \in BOOLEAN : WorkerTakes(ok)
          \/ \E c \in Clients, q \in Requests : Answer(c, q)

Next ==
  \/ \E c \in Clients :
       \/ Start(c) \/ Verified(c) \/ NotVerified(c) \/ Close(c) \/ Unsubscribe(c)
       \/ Sends(c) \/ Breaks(c)
       \/ \E ok \in BOOLEAN : HandlerEnds(c, ok)
       \/ \E q \in Calls : Invoke(c, q) \/ Abort(c, q)
  \/ MainTakes \/ Worker \/ WorkerDies

Spec == Init /\ [][Next]_vars

\* Both event loops go on, files can be read, and TDLib answers a close.
Fairness ==
  /\ WF_vars(MainTakes)
  /\ WF_vars(\E ok \in BOOLEAN : WorkerTakes(ok))
  /\ \A c \in Clients : /\ WF_vars(Verified(c) \/ NotVerified(c))
                        /\ WF_vars(Answer(c, "close"))

FairSpec == Spec /\ Fairness

-----------------------------------------------------------------------------
Holds(c) == c \in native \/ \E i \in DOMAIN toWorker : toWorker[i] = Message("init", c)

\* No call stays open in a client that has ended or failed.
NoCallLeftBehind ==
  \A p \in pending : state[p[1]] \in {"started", "closing"}

\* A native client is released by its own end, and by nobody else's.  When
\* close() has resolved it is gone, however a failure, the answer to the close
\* request and the death of the worker cross (.scratch/tdlib-fatal-close/issues/
\* 01-await-release.md), except for a client closed while it starts, whose
\* close() does not wait.  The thread the clients share is terminated only when
\* it holds none, and none is on its way to it.
NativeReleased ==
  /\ [](\A c \in Clients :
          close[c] = "done" /\ start[c] \notin {"verifying", "waiting", "undoing"} => ~Holds(c))
  /\ [][alive /\ ~alive' /\ breaks' = breaks =>
          native = {} /\ \A i \in DOMAIN toWorker : toWorker[i].kind # "init"]_vars

\* A handler that is slow, fails or is taken away never makes its subscription
\* skip, repeat or reorder an update, or leave one lying: what an active one has
\* received and not seen is in its queue, in order, behind a handler at work.
NoGap ==
  \A c \in active :
    /\ queue[c] = [i \in 1 .. arrived[c] - seen[c] |-> seen[c] + i]
    /\ queue[c] # <<>> => c \in processing

\* The inductive strengthening of the three.  How far start(), close() and the
\* release after a failure have come, against the state of the client:
StateInv ==
  \A c \in Clients :
    /\ state[c] = "created" => close[c] = "none" /\ release[c] = "none" /\ start[c] # "done"
    /\ state[c] \in {"started", "closing"} => start[c] = "done"
    /\ state[c] \in {"closing", "closed"} \/ "close" \in waiting[c] => close[c] # "none"
    /\ "start" \in waiting[c] => start[c] = "undoing"
    /\ "release" \in waiting[c] => release[c] # "none"
    /\ start[c] = "done" /\ (close[c] = "done" \/ release[c] = "done") => c \notin native

\* The messages under way fit the start of their client, which is initialised
\* once; after "fatal" or "destroyed" it has no native client, and one that has
\* or will have one has a record.
OnceIn(q, m) == \A i, j \in DOMAIN q : q[i] = m /\ q[j] = m => i = j
WireInv ==
  /\ \A m \in Range(toWorker) :
       IF m.kind = "init" THEN /\ m = Message("init", m.client)
                               /\ start[m.client] = "waiting"
                               /\ m.client \in registered \ native
                          ELSE start[m.client] \in {"undoing", "done", "rejected"}
  /\ \A m \in Range(toMain) :
       /\ start[m.client] \in {"waiting", "undoing", "done", "rejected"}
       /\ Message("init", m.client) \notin Range(toWorker)
       /\ m.kind \in {"fatal", "destroyed"} => m.client \notin native
       /\ m.kind = "destroyed" => start[m.client] # "waiting"
       /\ m.kind = "ready" => /\ m = Message("ready", m.client)
                              /\ m.client \in registered => start[m.client] = "waiting"
  /\ \A c \in Clients : OnceIn(toWorker, Message("init", c)) /\ OnceIn(toMain, Message("ready", c))
  /\ native \subseteq registered
  /\ \A c \in registered : start[c] \in {"waiting", "undoing", "done"}
  /\ \A p \in asked : p[1] \in native

\* Updates are seen in order, none before it has arrived.
SeenInv == \A c \in active : seen[c] <= arrived[c]

IInv == TypeOK /\ StateInv /\ WireInv /\ NoCallLeftBehind /\ SeenInv /\ NoGap

\* close() ends, and a client that has been closed or has failed loses its
\* native client for good, also when its start completes afterwards.
CloseReturns ==
  \A c \in Clients :
    /\ close[c] # "none" ~> close[c] \in {"done", "rejected"}
    /\ state[c] \in {"closed", "failed"} ~> [](c \notin native)
=============================================================================
