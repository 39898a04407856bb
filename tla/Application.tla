----------------------------- MODULE Application -----------------------------
(***************************************************************************)
(* The life cycle of an application (lib/framework/src/Application.ts,     *)
(* ScheduledTaskRuntime.ts): listen() with its hooks, HTTP requests, the   *)
(* sessions of WebSocketTransport, scheduled tasks, and close(), which     *)
(* shuts them down one after the other, each within a time limit - all but *)
(* the node:http server, which it awaits for as long as a peer likes.      *)
(*                                                                         *)
(* The event dispatcher and the job runner, which close() comes to last,   *)
(* are modelled in modules of their own; here they take their time and end.*)
(***************************************************************************)
EXTENDS WebSocketTransport

CONSTANTS
  Requests,  \* the routed HTTP requests a behaviour may see
  Peers,     \* peers that may hold a connection without a routed request
  Tasks      \* scheduled task classes

ASSUME ApplicationAssumption == Requests \cap Peers = {}

VARIABLES
  state,     \* #state
  starting,  \* how far listen() has come
  server,    \* the node:http server
  ready,     \* #runtimeRegistrationReady, and the schedules started
  phase,     \* how far close() has come
  response,  \* the response of each request; an open one is in #activeRequests
  handler,   \* the processing of each request; #activeHttpHandlers if running
  kept,      \* other connections that server.close() waits for: by request,
             \* those kept alive after its response; by peer, those held
  awaiting,  \* which of the two HTTP promises of close() have not resolved
  task,      \* the execution of each task
  reports,   \* what onError has been told about the present one
  cuts,      \* the phases of close() that ended by their time limit
  late       \* history: what arrived after the time limit of its transport

httpVars == <<response, handler, kept, awaiting, late>>
taskVars == <<task, reports>>
lifeVars == <<state, starting, server, ready, phase, cuts>>
vars == <<lifeVars, httpVars, taskVars, wsVars>>

Phases == {"open", "start", "http", "transport", "server", "tasks", "events",
           "jobs", "hook", "closed"}

TypeOK ==
  /\ WsTypeOK
  /\ state \in {"new", "starting", "running", "failed", "closing", "closed"}
  /\ starting \in {"new", "before", "binding", "hook", "done", "failed"}
  /\ server \in {"none", "listening", "closing", "closed"}
  /\ ready \in BOOLEAN
  /\ phase \in Phases
  /\ response \in [Requests -> {"none", "open", "finished", "destroyed"}]
  /\ handler \in [Requests -> {"none", "reading", "middleware", "running", "done"}]
  /\ kept \subseteq Requests \cup Peers
  /\ awaiting \subseteq {"responses", "handlers"}
  /\ task \in [Tasks -> {"idle", "running", "overdue"}]
  /\ reports \in [Tasks -> Nat]
  /\ cuts \subseteq {"http", "transport", "tasks"}
  /\ late \subseteq Requests \cup Sessions

Init ==
  /\ WsInit
  /\ state = "new" /\ starting = "new" /\ server = "none" /\ ready = FALSE
  /\ phase = "open" /\ cuts = {}
  /\ response = [r \in Requests |-> "none"]
  /\ handler = [r \in Requests |-> "none"]
  /\ kept = {} /\ awaiting = {} /\ late = {}
  /\ task = [t \in Tasks |-> "idle"]
  /\ reports = [t \in Tasks |-> 0]

Closing == phase # "open"
Open(rs) == {r \in Requests : rs[r] = "open"}
Running(hs) == {r \in Requests : hs[r] = "running"}
Active == {t \in Tasks : task[t] # "idle"}

-----------------------------------------------------------------------------
(* listen() *)

Listen ==
  /\ state = "new"
  /\ state' = "starting" /\ starting' = "before"
  /\ UNCHANGED <<server, ready, phase, cuts, httpVars, taskVars, wsVars>>

\* beforeAppStart settles; the event dispatcher is started.
BeforeAppStart(ok) ==
  /\ starting = "before"
  /\ starting' = IF ok THEN "binding" ELSE "failed"
  /\ state' = IF ok THEN state ELSE "failed"
  /\ UNCHANGED <<server, ready, phase, cuts, httpVars, taskVars, wsVars>>

BindFails ==
  /\ starting = "binding"
  /\ starting' = "failed" /\ state' = "failed"
  /\ UNCHANGED <<server, ready, phase, cuts, httpVars, taskVars, wsVars>>

\* The listen callback says "running" whatever close() has said before.
Bound ==
  /\ starting = "binding"
  /\ starting' = "hook" /\ state' = "running" /\ server' = "listening"
  /\ UNCHANGED <<ready, phase, cuts, httpVars, taskVars, wsVars>>

\* onAppStart fulfils: schedules and runtime registration, unless closing.
Started ==
  /\ starting = "hook"
  /\ starting' = "done"
  /\ ready' = ~Closing
  /\ UNCHANGED <<state, server, phase, cuts, httpVars, taskVars, wsVars>>

-----------------------------------------------------------------------------
(* HTTP requests *)

\* Input arrives on a new connection while the server listens, or on one that
\* has stayed open without a response under way, also when the server closes.
Reachable(k) == \/ server = "listening" /\ k = kept
                \/ server \in {"listening", "closing"} /\ \E c \in kept : k = kept \ {c}

RequestArrives(r) ==
  /\ response[r] = "none"
  /\ Reachable(kept') /\ kept' \subseteq kept
  /\ response' = [response EXCEPT ![r] = "open"]
  /\ handler' = [handler EXCEPT ![r] = "reading"]
  /\ late' = IF phase \in {"transport", "server"} THEN late \cup {r} ELSE late
  /\ UNCHANGED <<awaiting, lifeVars, taskVars, wsVars>>

\* The promises of #waitForActiveRequests and #waitForHttpHandlers resolve
\* when their set becomes empty.
Awaited(rs, hs) ==
  awaiting' = {a \in awaiting : \/ a = "responses" /\ Open(rs) # {}
                                \/ a = "handlers" /\ Running(hs) # {}}

\* The body is read, or is too large.
BodyRead(r, ok) ==
  /\ handler[r] = "reading"
  /\ handler' = [handler EXCEPT ![r] = IF ok THEN "middleware" ELSE "done"]
  /\ UNCHANGED <<response, kept, awaiting, late, lifeVars, taskVars, wsVars>>

\* Middleware calls the handler, or answers itself.
MiddlewareEnds(r, next) ==
  /\ handler[r] = "middleware"
  /\ handler' = [handler EXCEPT ![r] = IF next THEN "running" ELSE "done"]
  /\ UNCHANGED <<response, kept, awaiting, late, lifeVars, taskVars, wsVars>>

HandlerSettles(r) ==
  /\ handler[r] = "running"
  /\ handler' = [handler EXCEPT ![r] = "done"]
  /\ Awaited(response, handler')
  /\ UNCHANGED <<response, kept, late, lifeVars, taskVars, wsVars>>

\* The response has been written: its connection is kept alive, or not.
ResponseEnds(r, alive) ==
  /\ response[r] = "open" /\ handler[r] = "done"
  /\ response' = [response EXCEPT ![r] = "finished"]
  /\ kept' = IF alive /\ server = "closing" THEN kept \cup {r} ELSE kept
  /\ Awaited(response', handler)
  /\ UNCHANGED <<handler, late, lifeVars, taskVars, wsVars>>

\* What is left of the processing of requests that lose their connection:
\* reading fails, user code goes on.
Abandoned(S) == [r \in Requests |->
                   IF r \in S /\ handler[r] = "reading" THEN "done" ELSE handler[r]]
Destroyed(S) == [r \in Requests |-> IF r \in S THEN "destroyed" ELSE response[r]]

ClientLeaves(r) ==
  /\ response[r] = "open"
  /\ response' = Destroyed({r}) /\ handler' = Abandoned({r})
  /\ Awaited(response', handler')
  /\ UNCHANGED <<kept, late, lifeVars, taskVars, wsVars>>

\* A peer sends nothing on its connection, a part of a request head, the body
\* of an unrouted request without an end, or a handshake that is refused.  The
\* connection is a new one, or, once the server closes, one kept alive.  It is
\* not idle, and nothing but its peer or its next request need end it.
Holds(p) ==
  /\ p \notin kept
  /\ \/ server = "listening" /\ kept' = kept \cup {p}
     \/ server = "closing" /\ \E r \in kept \ Peers : kept' = (kept \ {r}) \cup {p}
  /\ UNCHANGED <<response, handler, awaiting, late, lifeVars, taskVars, wsVars>>

\* keepAliveTimeout, or the peer ends the connection.
ConnectionEnds(c) ==
  /\ c \in kept /\ kept' = kept \ {c}
  /\ UNCHANGED <<response, handler, awaiting, late, lifeVars, taskVars, wsVars>>

-----------------------------------------------------------------------------
(* Scheduled tasks *)

\* The timer finds a task due that is not running.
TaskDue(t) ==
  /\ ready /\ ~Closing /\ task[t] = "idle"
  /\ task' = [task EXCEPT ![t] = "running"]
  /\ reports' = [reports EXCEPT ![t] = 0]
  /\ UNCHANGED <<lifeVars, httpVars, wsVars>>

\* Mutant of TaskSettles: a late rejection is reported too.
TaskSettlesLoudly(t, ok) ==
  /\ task[t] # "idle"
  /\ task' = [task EXCEPT ![t] = "idle"]
  /\ reports' = [reports EXCEPT ![t] = IF ok THEN @ ELSE @ + 1]
  /\ UNCHANGED <<lifeVars, httpVars, wsVars>>

\* run() settles; a rejection is reported unless the time limit has been.
TaskSettles(t, ok) ==
  /\ task[t] # "idle"
  /\ task' = [task EXCEPT ![t] = "idle"]
  /\ reports' = [reports EXCEPT ![t] = IF ok \/ task[t] = "overdue" THEN @ ELSE @ + 1]
  /\ UNCHANGED <<lifeVars, httpVars, wsVars>>

-----------------------------------------------------------------------------
(* close() *)

\* The sessions are closed, the server stops listening and drops idle
\* connections (the held ones are not), and close() waits for what is in the
\* two sets now.
StopServing ==
  /\ server' = "closing"
  /\ awaiting' = {a \in {"responses", "handlers"} :
                    \/ a = "responses" /\ Open(response) # {}
                    \/ a = "handlers" /\ Running(handler) # {}}
  /\ phase' = "http"
  /\ CloseAll
  /\ UNCHANGED <<response, handler, kept, late>>

\* The part of close() behind the wait for a start under way.
Proceed ==
  IF server = "listening" THEN StopServing
  ELSE phase' = "tasks" /\ UNCHANGED <<server, httpVars, wsVars>>

\* Mutant of Close: it does not wait for the start.
CloseAtOnce ==
  /\ ~Closing
  /\ state' = "closing" /\ ready' = FALSE
  /\ Proceed
  /\ UNCHANGED <<starting, cuts, taskVars>>

\* close(), called by the owner, or by listen() itself when onAppStart fails.
Close ==
  /\ ~Closing
  /\ state' = "closing" /\ ready' = FALSE
  /\ IF state = "starting"
       THEN phase' = "start" /\ UNCHANGED <<server, httpVars, wsVars>>
       ELSE Proceed
  /\ UNCHANGED <<starting, cuts, taskVars>>

AppStartFails ==
  /\ starting = "hook"
  /\ starting' = "failed"
  /\ IF Closing THEN UNCHANGED <<state, ready, server, phase, httpVars, wsVars>>
     ELSE state' = "closing" /\ ready' = FALSE /\ Proceed
  /\ UNCHANGED <<cuts, taskVars>>

\* The start under way has ended, one way or the other.
StartAwaited ==
  /\ phase = "start" /\ starting \in {"done", "failed"}
  /\ Proceed
  /\ UNCHANGED <<state, starting, ready, cuts, taskVars>>

\* Both promises have resolved, or http.shutdownTimeout has passed; responses
\* that are open now are destroyed.
EndHttp(cut) ==
  /\ phase = "http" /\ (cut \/ awaiting = {})
  /\ phase' = "transport" /\ awaiting' = {}
  /\ cuts' = IF cut THEN cuts \cup {"http"} ELSE cuts
  /\ response' = Destroyed(Open(response)) /\ handler' = Abandoned(Open(response))
  /\ UNCHANGED <<kept, late, state, starting, server, ready, taskVars, wsVars>>

\* server.close() calls back when no connection is left: no response under way,
\* none kept alive or held, no socket of a session.
ServerEnds ==
  /\ server = "closing" /\ Open(response) = {} /\ kept = {} /\ Sockets = {}
  /\ server' = "closed"
  /\ UNCHANGED <<state, starting, ready, phase, cuts, httpVars, taskVars, wsVars>>

\* Mutant of TransportSettled: the operations of the sessions are forgotten.
TransportClosed ==
  /\ phase = "transport" /\ server = "closed"
  /\ phase' = "server"
  /\ UNCHANGED <<state, starting, server, ready, cuts, httpVars, taskVars, wsVars>>

\* waitForSettlement: the server has closed and no operation is left.
TransportSettled ==
  /\ phase = "transport" /\ server = "closed" /\ Operations = {}
  /\ phase' = "server"
  /\ UNCHANGED <<state, starting, server, ready, cuts, httpVars, taskVars, wsVars>>

TransportTimeout ==
  /\ phase = "transport"
  /\ phase' = "server" /\ cuts' = cuts \cup {"transport"}
  /\ Terminate
  /\ UNCHANGED <<state, starting, server, ready, httpVars, taskVars>>

\* close() waits for the server once more, without a limit.
ServerAwaited ==
  /\ phase = "server" /\ server = "closed"
  /\ phase' = "tasks"
  /\ UNCHANGED <<state, starting, server, ready, cuts, httpVars, taskVars, wsVars>>

\* ScheduledTaskRuntime.close; then the event sender is sealed.
TasksSettled ==
  /\ phase = "tasks" /\ Active = {}
  /\ phase' = "events"
  /\ UNCHANGED <<state, starting, server, ready, cuts, httpVars, taskVars, wsVars>>

TasksTimeout ==
  /\ phase = "tasks" /\ Active # {}
  /\ phase' = "events" /\ cuts' = cuts \cup {"tasks"}
  /\ task' = [t \in Tasks |-> IF t \in Active THEN "overdue" ELSE "idle"]
  /\ reports' = [t \in Tasks |-> IF t \in Active THEN reports[t] + 1 ELSE reports[t]]
  /\ UNCHANGED <<state, starting, server, ready, httpVars, wsVars>>

\* The dispatcher has drained or cut off, the job runner has closed, onAppClose
\* has settled.
Rest ==
  /\ phase' = CASE phase = "events" -> "jobs" [] phase = "jobs" -> "hook"
                [] phase = "hook" -> "closed"
  /\ state' = IF phase = "hook" THEN "closed" ELSE state
  /\ UNCHANGED <<starting, server, ready, cuts, httpVars, taskVars, wsVars>>
ShutdownRest == phase \in {"events", "jobs", "hook"} /\ Rest

-----------------------------------------------------------------------------
UpgradeArrives(s) ==
  /\ Reachable(kept') /\ kept' \subseteq kept
  /\ Upgrade(s)
  /\ late' = IF phase = "server" THEN late \cup {s} ELSE late
  /\ UNCHANGED <<response, handler, awaiting, lifeVars, taskVars>>

HttpStep(r) ==
  \/ RequestArrives(r) \/ HandlerSettles(r) \/ ClientLeaves(r) \/ ConnectionEnds(r)
  \/ \E b \in BOOLEAN : BodyRead(r, b) \/ MiddlewareEnds(r, b) \/ ResponseEnds(r, b)

PeerStep(p) == Holds(p) \/ ConnectionEnds(p)

SessionStep(s) ==
  \/ UpgradeArrives(s)
  \/ WsStep(s) /\ UNCHANGED <<lifeVars, httpVars, taskVars>>

TaskStep(t) == TaskDue(t) \/ \E ok \in BOOLEAN : TaskSettles(t, ok)

Start == Listen \/ BindFails \/ Bound \/ Started \/ \E ok \in BOOLEAN : BeforeAppStart(ok)

Shutdown ==
  \/ AppStartFails \/ StartAwaited \/ ServerEnds \/ TransportSettled \/ TransportTimeout
  \/ ServerAwaited \/ TasksSettled \/ TasksTimeout \/ ShutdownRest
  \/ \E cut \in BOOLEAN : EndHttp(cut)

Next ==
  \/ Start \/ Close \/ Shutdown
  \/ \E r \in Requests : HttpStep(r)
  \/ \E p \in Peers : PeerStep(p)
  \/ \E s \in Sessions : SessionStep(s)
  \/ \E t \in Tasks : TaskStep(t)

Spec == Init /\ [][Next]_vars

\* Timers fire, keepAliveTimeout among them, the server notices that nothing is
\* left, and the hooks of the application settle.  Nothing is assumed of
\* handlers, tasks, onConnect and peers.
Fairness ==
  /\ WF_vars(Bound \/ BindFails) /\ WF_vars(Started)
  /\ WF_vars(\E ok \in BOOLEAN : BeforeAppStart(ok))
  /\ WF_vars(Shutdown)
  /\ \A r \in Requests : WF_vars(ConnectionEnds(r))

FairSpec == Spec /\ Fairness

-----------------------------------------------------------------------------
\* A phase of close() ends only when what it waits for is over, or by its time
\* limit: when the tasks are waited for, no connection is open; if the transport
\* was not cut off, no operation of a session is left; when the sender is
\* sealed, tasks have ended unless they were cut off.
Behind(p) ==
  phase \in CASE p = "server" -> {"tasks", "events", "jobs", "hook", "closed"}
              [] p = "tasks" -> {"events", "jobs", "hook", "closed"}
PhasesInOrder ==
  /\ Behind("server") => /\ Open(response) = {} /\ kept = {} /\ Sockets = {}
                         /\ "transport" \notin cuts => Operations = {}
  /\ Behind("tasks") /\ "tasks" \notin cuts => Active = {}
  /\ phase \notin {"open", "start"} => server # "listening"

\* However a start and a close() cross, nothing is left of the application
\* when close() has ended: no server, no schedule, and no session, except one
\* whose onConnect outlived the cutoff.
ClosedIsDown ==
  phase = "closed" =>
    /\ state = "closed" /\ ~ready
    /\ server \in {"none", "closed"} /\ starting # "binding"
    /\ stored # {} => "transport" \in cuts

\* The inductive strengthening.  How state, start, server and the phase of
\* close() fit each other.
LifeInv ==
  /\ phase = "open" =>
       <<state, starting>> \in {<<"new", "new">>, <<"starting", "before">>,
                                <<"starting", "binding">>, <<"running", "hook">>,
                                <<"running", "done">>, <<"failed", "failed">>}
  /\ Closing => state # "new" /\ ~ready
  /\ phase = "start" => starting # "new"
  /\ phase = "closed" => state = "closed"
  /\ starting \in {"before", "binding"} => phase \in {"open", "start"}
  /\ starting \in {"new", "before", "binding"} => server = "none"
  /\ starting \in {"hook", "done"} => server # "none"
  /\ phase \in {"open", "start"} => server \in {"none", "listening"}
  /\ phase \in {"http", "transport", "server"} => server \in {"closing", "closed"}
  /\ Behind("server") => server \in {"none", "closed"}

\* What is left of requests and sessions when no server is there to be reached;
\* a session has lost its socket before its end only by the cutoff.
Unserved == server \in {"none", "closed"}
ServedInv ==
  /\ Unserved => Open(response) = {} /\ kept = {} /\ Sockets = {}
  /\ server = "none" => Operations = {} /\ \A s \in Sessions : stage[s] = "absent"
  /\ \A s \in stored : stage[s] = "live"
  /\ "transport" \notin cuts =>
       /\ \A s \in Sessions : stage[s] \in {"connecting", "live"} => s \in Sockets
       /\ phase = "server" \/ Behind("server") => Unserved /\ Operations = {}

TasksInv ==
  /\ \A t \in Tasks :
       /\ reports[t] <= 1
       /\ task[t] = "running" => reports[t] = 0
       /\ task[t] = "overdue" => reports[t] = 1 /\ Behind("tasks")
  /\ Behind("tasks") /\ "tasks" \notin cuts => Active = {}

IInv == TypeOK /\ LifeInv /\ ServedInv /\ TasksInv

\* The runs of a task do not overlap, none starts once close() has begun, and
\* each is reported at most once, a late failure after its time limit never.
TasksAreQuiet ==
  [][\A t \in Tasks :
       /\ task'[t] = "running" /\ (task[t] # "running" \/ reports'[t] < reports[t]) =>
            task[t] = "idle" /\ ~Closing
       /\ reports'[t] <= 1]_vars

\* The connections that only their peers can end: those held, and those of
\* upgrades refused by onConnect, which are no longer pending at the cutoff.
AtPeersMercy == kept \cap Peers # {} \/ \E s \in Sockets : stage[s] = "refused"

\* close() ends, although handlers, tasks, onConnect and the peers of responses
\* and sessions hang, if no peer holds a connection of the other kinds for ever
\* - unless input came, on a connection still open, after the time limit of its
\* transport.
CloseReturns ==
  []<>~AtPeersMercy => (Closing ~> phase = "closed" \/ late # {})

=============================================================================
