-------------------------- MODULE TelegramConnection --------------------------
(***************************************************************************)
(* The Telegram session of the backend                                     *)
(* (apps/backend/src/domain/telegram/connection.ts): one TDLib client at a *)
(* time, its authorization, the commands of the user, failures, logging    *)
(* out, and close().                                                       *)
(*                                                                         *)
(* An action is one callback of TelegramConnection.  The client is what    *)
(* TdlibClient.tla promises: start() settles, answers and updates arrive   *)
(* in order, close() resolves when the native client is gone or rejects.   *)
(* TDLib, at the other end, is a small automaton of authorization states   *)
(* that answers what it has been asked before it closes.  Names, links and *)
(* the wording of errors are left out.                                     *)
(***************************************************************************)
EXTENDS Naturals, Sequences, FiniteSets, SequencesExt

CONSTANTS
  MaxOps,    \* bound on accepted commands
  MaxMoves   \* bound on what TDLib and the network do of their own accord

ASSUME ConnectionAssumption == MaxOps \in Nat /\ MaxMoves \in Nat

VARIABLES
  client,      \* state.client
  connection,  \* state.connection
  auth,        \* state.authorization.kind
  op,          \* state.operation; its id counts the accepted commands
  cooling,     \* state.error names a time before which nothing can be done
  allowed,     \* state.allowedActions
  stale,       \* controlVersion has grown since the user's snapshot
  screen,      \* that snapshot
  generation,  \* generation
  boot,        \* the last boot(): its generation, its stage and its variables
  execution,   \* execute() of the last command: its stage and arguments
  open,        \* the clients, by generation, whose close() has not resolved
  releasing,   \* releasing
  release,     \* the promise of releaseClient()
  onRelease,   \* what follows it: the end of a logout, close()
  stopping,    \* stopping
  closing,     \* where close() is
  td,          \* authorization state of TDLib
  asked,       \* requests TDLib has not answered
  inbox,       \* its messages
  moves        \* number of its own moves so far

viewVars == <<client, connection, auth, op, cooling, allowed, stale>>
releaseVars == <<releasing, release, onRelease>>
closeVars == <<stopping, closing>>
tdVars == <<td, asked, inbox, moves>>
vars == <<viewVars, screen, generation, boot, execution, open, releaseVars, closeVars, tdVars>>

Actions == {"connect", "submit_password", "disconnect", "restart"}
AuthStates == {"waitParameters", "phone", "qr", "password", "ready", "other", "loggingOut",
               "closed"}
Kinds == {"initializing", "not_connected", "requesting_qr", "qr", "password", "connected",
          "logging_out", "unsupported"}
Requests == {"setLogStream", "parameters", "getAuthorizationState", "command"}

\* What the client passes on from TDLib: updates, and answers.
Messages ==
  [kind : {"auth"}, value : AuthStates]
    \cup [kind : {"connection"}, value : {"ready", "lost"}]
    \cup [kind : {"getAuthorizationState"}, value : AuthStates \cup {"error"}]
    \cup [kind : Requests \ {"getAuthorizationState"}, value : {"ok", "error", "limited"}]
Operations == [kind : Actions \cup {"none"}, id : 0 .. MaxOps,
               status : {"none", "pending", "completed", "failed"}]
Boots == [generation : Nat,
          stage : {"none", "starting", "silencing", "asking", "done"},
          waits : BOOLEAN,       \* latest: it has seen authorizationStateWaitTdlibParameters
          configured : BOOLEAN,  \* parametersSent
          moved : BOOLEAN]       \* authSequence has grown since getAuthorizationState
Executions == [stage : {"none", "scheduled", "invoking"}, generation : Nat,
               kind : Actions \cup {"none"}, id : 0 .. MaxOps]
NoOp == [kind |-> "none", status |-> "none", id |-> 0]

ViewOK ==
  /\ client \in {"initializing", "running", "failed", "configuration_required"}
  /\ connection \in {"unknown", "ready", "lost"}
  /\ auth \in Kinds /\ op \in Operations
  /\ cooling \in BOOLEAN /\ allowed \subseteq Actions /\ stale \in BOOLEAN
ReleaseOK ==
  /\ releasing \in BOOLEAN
  /\ release \in {"none", "pending", "rejected"}
  /\ onRelease \subseteq {"logout", "close"}
TypeOK ==
  /\ ViewOK /\ ReleaseOK
  /\ screen \in [allowed : SUBSET Actions, auth : Kinds]
  /\ generation \in Nat /\ boot \in Boots /\ execution \in Executions
  /\ open \subseteq Nat
  /\ stopping \in BOOLEAN
  /\ closing \in {"none", "opening", "releasing", "done", "rejected"}
  /\ td \in AuthStates /\ asked \subseteq Requests /\ inbox \in Seq(Messages)
  /\ moves \in 0 .. MaxMoves

Idle == [stage |-> "none", generation |-> 0, kind |-> "none", id |-> 0]
NewBoot(g, stage) ==
  [generation |-> g, stage |-> stage, waits |-> FALSE, configured |-> FALSE, moved |-> FALSE]

Init ==
  /\ client = "initializing" /\ connection = "unknown" /\ auth = "initializing"
  /\ op = NoOp /\ cooling = FALSE /\ allowed = {} /\ stale = FALSE
  /\ screen = [allowed |-> {}, auth |-> "initializing"]
  /\ generation = 0 /\ boot = NewBoot(0, "none") /\ execution = Idle
  /\ open = {} /\ releasing = FALSE /\ release = "none" /\ onRelease = {}
  /\ stopping = FALSE /\ closing = "none"
  /\ td = "waitParameters" /\ asked = {} /\ inbox = <<>> /\ moves = 0

-----------------------------------------------------------------------------
(* The published state *)

Pending == op.status = "pending"

Permitted ==
  IF Pending \/ releasing THEN {}
  ELSE IF client = "failed" THEN {"restart"}
  ELSE IF client # "running" \/ cooling THEN {}
  ELSE IF auth = "not_connected" /\ connection = "ready" THEN {"connect"}
  ELSE IF auth = "password" /\ connection = "ready" THEN {"submit_password"}
  ELSE IF auth = "connected" THEN {"disconnect"}
  ELSE {}

\* Mutant of Publish: new actions are not a new version.
PublishQuietly(control) ==
  /\ allowed' = IF stopping THEN {} ELSE Permitted'
  /\ stale' = (stale \/ control)

\* publish(control): the actions are recomputed from the new state; with them,
\* or when told to, the version changes.
Publish(control) ==
  /\ allowed' = IF stopping THEN {} ELSE Permitted'
  /\ stale' = (stale \/ control \/ allowed' # allowed)

\* setAuthorization(kind), then complete() if the pending operation is in ops.
SetAuthorization(kind, ops) ==
  LET changed == kind # auth
      settled == Pending /\ op.kind \in ops
  IN
  /\ auth' = kind
  /\ cooling' = (cooling /\ ~changed /\ ~settled)
  /\ op' = IF settled THEN [op EXCEPT !.status = "completed"]
           ELSE IF changed /\ op.status = "failed" THEN [NoOp EXCEPT !.id = op.id] ELSE op
  /\ Publish(changed \/ settled)

Current(g) == g = generation /\ ~stopping

-----------------------------------------------------------------------------
(* releaseClient() and fail() *)

\* Mutant of Release: the flag is not set until close() is called.
ReleaseUnannounced(reason) ==
  /\ releasing' = releasing
  /\ release' = IF releasing THEN release ELSE "pending"
  /\ onRelease' = onRelease \cup reason

\* releaseClient() with what follows it; a release under way is joined.
Release(reason) ==
  /\ releasing' = TRUE
  /\ release' = IF releasing THEN release ELSE "pending"
  /\ onRelease' = onRelease \cup reason

\* Mutant of Fail: the operation under way is forgotten.
FailKeepingOperation(g, code) ==
  IF ~Current(g) \/ client = "failed" THEN UNCHANGED <<viewVars, generation, releaseVars>>
  ELSE
    /\ generation' = generation + 1
    /\ client' = IF code = "configuration_error" THEN "configuration_required" ELSE "failed"
    /\ connection' = "unknown" /\ auth' = "initializing" /\ cooling' = FALSE
    /\ op' = op
    /\ Release({})
    /\ Publish(TRUE)

\* fail(g, code): nothing if the boot of generation g is over.
Fail(g, code) ==
  IF ~Current(g) \/ client = "failed" THEN UNCHANGED <<viewVars, generation, releaseVars>>
  ELSE
    /\ generation' = generation + 1
    /\ client' = IF code = "configuration_error" THEN "configuration_required" ELSE "failed"
    /\ connection' = "unknown" /\ auth' = "initializing" /\ cooling' = FALSE
    /\ op' = IF Pending THEN [op EXCEPT !.status = "failed"] ELSE op
    /\ Release({})
    /\ Publish(TRUE)

-----------------------------------------------------------------------------
(* boot() *)

\* boot() up to client.start(), with complete() before it for operations in
\* ops; left is what is open when it begins.
Boot(left, ops) ==
  /\ generation' = generation + 1
  /\ boot' = NewBoot(generation', "starting")
  /\ open' = left \cup {generation'}
  /\ client' = "initializing" /\ connection' = "unknown"
  /\ SetAuthorization("initializing", ops)
  /\ td' = "waitParameters" /\ asked' = {}
  /\ inbox' = <<[kind |-> "auth", value |-> "waitParameters"],
                [kind |-> "connection", value |-> "ready"]>>

\* The owner calls start(), once.
Start ==
  /\ boot.stage = "none" /\ ~stopping
  /\ UNCHANGED <<screen, execution, releaseVars, closeVars, moves>>
  /\ Boot(open, {})

\* client.start() fulfils: logging is switched off before anything else.
StartDone ==
  /\ boot.stage = "starting"
  /\ IF Current(boot.generation) /\ ~releasing
       THEN boot' = [boot EXCEPT !.stage = "silencing"] /\ asked' = {"setLogStream"}
       ELSE boot' = [boot EXCEPT !.stage = "done"] /\ UNCHANGED asked
  /\ UNCHANGED <<viewVars, screen, generation, execution, open, releaseVars, closeVars,
                 td, inbox, moves>>

\* It rejects, and the client reports its failure.
StartFails ==
  /\ boot.stage = "starting"
  /\ boot' = [boot EXCEPT !.stage = "done"]
  /\ Fail(boot.generation, "client_unavailable")
  /\ UNCHANGED <<screen, execution, open, closeVars, tdVars>>

\* onError: the client has failed on its own, and rejects what it was asked.
ClientFails ==
  /\ moves < MaxMoves /\ moves' = moves + 1
  /\ boot.stage \in {"silencing", "asking", "done"} /\ open # {} /\ ~releasing
  /\ boot' = [boot EXCEPT !.stage = "done"]
  /\ asked' = {} /\ inbox' = <<>>
  /\ execution' = IF execution.stage = "invoking" THEN Idle ELSE execution
  /\ Fail(boot.generation, "client_unavailable")
  /\ UNCHANGED <<screen, open, closeVars, td>>

-----------------------------------------------------------------------------
(* What the client says *)

Deliver == inbox' = Tail(inbox)
Hears == Current(boot.generation) /\ ~releasing
Ready == boot.stage \in {"asking", "done"}

Shown(value) ==
  CASE value = "phone" -> "not_connected" [] value = "qr" -> "qr"
    [] value = "password" -> "password"   [] value = "ready" -> "connected"
    [] value = "loggingOut" -> "logging_out" [] value = "other" -> "unsupported"

\* The operations an authorization state completes.
Completes(value) ==
  CASE value \in {"qr", "password"} -> {"connect"}
    [] value = "ready" -> {"connect", "submit_password"}
    [] value = "other" -> Actions
    [] OTHER -> {}

\* onAuthorization, with complete() behind it for operations in ops.
OnAuthorization(value, ops) ==
  IF value # "closed"
    THEN /\ UNCHANGED <<client, connection, generation, releaseVars>>
         /\ SetAuthorization(Shown(value), ops \cup Completes(value))
  ELSE IF auth # "logging_out" THEN Fail(boot.generation, "client_unavailable")
  ELSE /\ UNCHANGED <<client, connection, auth, op, cooling, generation>>
       /\ Release({"logout"})
       /\ Publish(TRUE)

Unmoved == UNCHANGED <<viewVars, generation, releaseVars>>

\* authorization(value) of boot(): the parameters are sent once.
Authorized(value, ops) ==
  IF ~Hears THEN Unmoved /\ UNCHANGED asked
  ELSE IF value = "waitParameters"
    THEN /\ asked' = IF boot.configured THEN asked ELSE asked \cup {"parameters"}
         /\ UNCHANGED <<client, connection, generation, releaseVars>>
         /\ SetAuthorization(auth, ops)
    ELSE OnAuthorization(value, ops) /\ UNCHANGED asked

\* updateAuthorizationState
AuthorizationUpdate ==
  /\ inbox # <<>> /\ Head(inbox).kind = "auth"
  /\ Deliver
  /\ LET value == Head(inbox).value IN
     IF ~Hears THEN Unmoved /\ UNCHANGED <<boot, asked>>
     ELSE IF ~Ready
       THEN boot' = [boot EXCEPT !.waits = TRUE, !.moved = TRUE] /\ Unmoved /\ UNCHANGED asked
       ELSE /\ boot' = [boot EXCEPT !.moved = TRUE,
                                    !.configured = @ \/ value = "waitParameters"]
            /\ Authorized(value, {})
  /\ UNCHANGED <<screen, execution, open, closeVars, td, moves>>

\* updateConnectionState
ConnectionUpdate ==
  /\ inbox # <<>> /\ Head(inbox).kind = "connection"
  /\ Deliver
  /\ UNCHANGED <<client, auth, op, cooling, screen, generation, boot, execution, open,
                 releaseVars, closeVars, td, asked, moves>>
  /\ IF Hears THEN connection' = Head(inbox).value /\ Publish(FALSE)
              ELSE UNCHANGED <<connection, allowed, stale>>

Answered(request) == inbox # <<>> /\ Head(inbox).kind = request /\ Deliver

\* Logging is off: the client is running, and is told its parameters if it
\* waits for them; then its state is asked for.
Silenced ==
  /\ boot.stage = "silencing" /\ Answered("setLogStream")
  /\ IF Head(inbox).value = "error"
       THEN /\ boot' = [boot EXCEPT !.stage = "done"]
            /\ Fail(boot.generation, "client_unavailable")
            /\ UNCHANGED asked
     ELSE IF ~Hears
       THEN boot' = [boot EXCEPT !.stage = "done"] /\ Unmoved /\ UNCHANGED asked
     ELSE /\ client' = "running"
          /\ boot' = [boot EXCEPT !.stage = "asking", !.configured = @ \/ boot.waits,
                                  !.moved = FALSE]
          /\ asked' = {"getAuthorizationState"} \cup IF boot.waits THEN {"parameters"} ELSE {}
          /\ UNCHANGED <<connection, auth, op, cooling, generation, releaseVars>>
          /\ Publish(TRUE)
  /\ UNCHANGED <<screen, execution, open, closeVars, td, moves>>

ParametersAnswered ==
  /\ Answered("parameters")
  /\ IF Head(inbox).value = "error" THEN Fail(boot.generation, "configuration_error")
                                    ELSE Unmoved
  /\ UNCHANGED <<screen, boot, execution, open, closeVars, td, asked, moves>>

\* The state asked for counts unless an update has come since; with it a
\* restart is complete.
AuthorizationAnswered ==
  /\ boot.stage = "asking" /\ Answered("getAuthorizationState")
  /\ LET value == Head(inbox).value IN
     /\ boot' = [boot EXCEPT !.stage = "done",
                             !.configured = @ \/ (value = "waitParameters" /\ ~boot.moved)]
     /\ IF value = "error" THEN Fail(boot.generation, "client_unavailable") /\ UNCHANGED asked
        ELSE IF boot.moved
          THEN /\ UNCHANGED <<client, connection, generation, releaseVars, asked>>
               /\ IF Current(boot.generation) THEN SetAuthorization(auth, {"restart"})
                  ELSE UNCHANGED viewVars
          ELSE Authorized(value, {"restart"})
  /\ UNCHANGED <<screen, execution, open, closeVars, td, moves>>

-----------------------------------------------------------------------------
(* Commands *)

\* The user loads the page, or the socket brings a snapshot.
Look ==
  /\ stale
  /\ screen' = [allowed |-> allowed, auth |-> auth] /\ stale' = FALSE
  /\ UNCHANGED <<client, connection, auth, op, cooling, allowed, generation, boot, execution,
                 open, releaseVars, closeVars, tdVars>>

\* accept(): with the version of the snapshot; its execution is a macrotask.
Accept(action) ==
  /\ ~stale /\ ~Pending /\ action \in allowed
  /\ action = "restart" \/ client = "running"
  /\ op.id < MaxOps
  /\ op' = [kind |-> action, status |-> "pending", id |-> op.id + 1]
  /\ cooling' = FALSE
  /\ auth' = IF action = "connect" THEN "requesting_qr" ELSE auth
  /\ execution' = [stage |-> "scheduled", generation |-> generation, kind |-> action,
                   id |-> op'.id]
  /\ UNCHANGED <<client, connection, screen, generation, boot, open, releaseVars, closeVars,
                 tdVars>>
  /\ Publish(TRUE)

\* execute() is still about the operation that is shown.
Concerned == Current(execution.generation) /\ op.id = execution.id /\ Pending

Execute ==
  /\ execution.stage = "scheduled"
  /\ UNCHANGED <<screen, releaseVars, closeVars, moves>>
  /\ IF ~Concerned \/ (releasing /\ execution.kind # "restart")
       THEN execution' = Idle /\ UNCHANGED <<viewVars, generation, boot, open, td, asked, inbox>>
     ELSE IF execution.kind = "restart"
       THEN Boot(open, {}) /\ execution' = Idle
     ELSE /\ execution' = [execution EXCEPT !.stage = "invoking"]
          /\ asked' = asked \cup {"command"}
          /\ UNCHANGED <<viewVars, generation, boot, open, td, inbox>>

\* Mutant of Refused: the late result of a command counts during a logout.
RefusedInLogout(limited) ==
  IF ~Concerned \/ releasing THEN UNCHANGED viewVars
  ELSE /\ auth' = IF op.kind = "connect" THEN "not_connected" ELSE auth
       /\ op' = [op EXCEPT !.status = "failed"]
       /\ cooling' = limited
       /\ UNCHANGED <<client, connection>>
       /\ Publish(TRUE)

\* A refusal ends the operation, unless something else has, or it is being
\* logged out.
Refused(limited) ==
  IF ~Concerned \/ releasing \/ auth = "logging_out" THEN UNCHANGED viewVars
  ELSE /\ auth' = IF op.kind = "connect" THEN "not_connected" ELSE auth
       /\ op' = [op EXCEPT !.status = "failed"]
       /\ cooling' = limited
       /\ UNCHANGED <<client, connection>>
       /\ Publish(TRUE)

CommandAnswered ==
  /\ Answered("command")
  /\ execution' = Idle
  /\ UNCHANGED <<screen, generation, boot, open, releaseVars, closeVars, td, asked, moves>>
  /\ IF Head(inbox).value = "ok" THEN UNCHANGED viewVars
                                 ELSE Refused(Head(inbox).value = "limited")

\* The time of retryAt has come: the timer publishes.
CoolingEnds ==
  /\ cooling /\ ~stopping
  /\ cooling' = FALSE
  /\ UNCHANGED <<client, connection, auth, op, screen, generation, boot, execution, open,
                 releaseVars, closeVars, tdVars>>
  /\ Publish(FALSE)

-----------------------------------------------------------------------------
(* The end of a client *)

\* What client.close() leaves behind, whichever way it ends: the command it
\* was asked is rejected, unheard, and it says nothing more.
Silent ==
  execution' = IF execution.stage = "invoking" THEN Idle ELSE execution

\* client.close() has resolved.  After a logout the operation is complete and
\* the next client is booted.
Released ==
  /\ release = "pending"
  /\ releasing' = FALSE /\ release' = "none" /\ onRelease' = {}
  /\ closing' = IF "close" \in onRelease THEN "done" ELSE closing
  /\ Silent /\ UNCHANGED <<screen, stopping, moves>>
  /\ IF "logout" \in onRelease /\ Current(boot.generation) THEN Boot({}, Actions)
     ELSE /\ open' = {} /\ asked' = {} /\ inbox' = <<>>
          /\ UNCHANGED <<client, connection, auth, op, cooling, generation, boot, td>>
          /\ Publish(TRUE)

\* It has rejected: the client may still be open, and releasing stays set.
NotReleased ==
  /\ release = "pending" /\ open # {}
  /\ releasing' = TRUE /\ release' = "rejected" /\ onRelease' = {}
  /\ closing' = IF "close" \in onRelease THEN "rejected" ELSE closing
  /\ asked' = {} /\ inbox' = <<>>
  /\ Silent /\ UNCHANGED <<screen, boot, open, stopping, td, moves>>
  /\ IF "logout" \notin onRelease \/ ~Current(boot.generation) \/ client = "failed"
       THEN UNCHANGED <<viewVars, generation>>
       ELSE /\ generation' = generation + 1
            /\ client' = "failed" /\ connection' = "unknown" /\ auth' = "initializing"
            /\ cooling' = FALSE
            /\ op' = IF Pending THEN [op EXCEPT !.status = "failed"] ELSE op
            /\ Publish(TRUE)

-----------------------------------------------------------------------------
(* close() *)

\* close() behind the wait for a start under way: releaseClient, whose promise
\* may have rejected before.
Leave ==
  IF release = "rejected" THEN closing' = "rejected" /\ UNCHANGED <<releaseVars, allowed, stale>>
  ELSE /\ closing' = "releasing"
       /\ Release({"close"})
       /\ allowed' = {} /\ stale' = (stale \/ ~releasing \/ allowed # {})

Close ==
  /\ ~stopping
  /\ stopping' = TRUE
  /\ IF boot.stage = "starting"
       THEN closing' = "opening" /\ UNCHANGED <<releaseVars, allowed, stale>>
       ELSE Leave
  /\ UNCHANGED <<client, connection, auth, op, cooling, screen, generation, boot, execution,
                 open, tdVars>>

Opened ==
  /\ closing = "opening" /\ boot.stage # "starting"
  /\ Leave
  /\ UNCHANGED <<client, connection, auth, op, cooling, screen, generation, boot, execution,
                 open, stopping, tdVars>>

-----------------------------------------------------------------------------
(* TDLib *)

Says(messages) == inbox' = inbox \o messages
Answer(request, value) == <<[kind |-> request, value |-> value]>>
Update(value) == <<[kind |-> "auth", value |-> value]>>

\* The authorization states a request leads to, if it is granted in this one.
Granted(request) ==
  CASE request = "parameters" /\ td = "waitParameters" -> {"phone", "ready"}
    [] request = "command" /\ execution.kind = "connect" /\ td = "phone" -> {"qr"}
    [] request = "command" /\ execution.kind = "submit_password" /\ td = "password" -> {"ready"}
    [] request = "command" /\ execution.kind = "disconnect" /\ td = "ready" -> {"loggingOut"}
    [] OTHER -> {}

TdGrants(request) ==
  /\ request \in asked
  /\ asked' = asked \ {request}
  /\ IF request \in {"setLogStream", "getAuthorizationState"}
       THEN /\ Says(Answer(request, IF request = "setLogStream" THEN "ok" ELSE td))
            /\ UNCHANGED td
       ELSE /\ td' \in Granted(request)
            /\ Says(Update(td') \o Answer(request, "ok"))
  /\ UNCHANGED <<viewVars, screen, generation, boot, execution, open, releaseVars, closeVars,
                 moves>>

TdRefuses(request) ==
  /\ request \in asked
  /\ asked' = asked \ {request}
  /\ \/ Says(Answer(request, "error"))
     \/ request = "command" /\ Says(Answer(request, "limited"))
  /\ UNCHANGED <<viewVars, screen, generation, boot, execution, open, releaseVars, closeVars,
                 td, moves>>

\* The phone confirms or revokes the session, the network comes and goes, and
\* TDLib may close of its own accord.
TdMoves ==
  /\ boot.stage \in {"silencing", "asking", "done"} /\ open # {}
  /\ moves < MaxMoves /\ moves' = moves + 1
  /\ \/ /\ td' \in CASE td = "qr" -> {"ready", "password", "other"}
                     [] td = "ready" -> {"loggingOut", "phone"}
                     [] OTHER -> {}
        /\ Says(Update(td'))
     \/ /\ \E value \in {"ready", "lost"} : Says(<<[kind |-> "connection", value |-> value]>>)
        /\ UNCHANGED td
     \/ /\ td = "ready" /\ asked = {} /\ td' = "closed"
        /\ Says(Update(td'))
  /\ UNCHANGED <<viewVars, screen, generation, boot, execution, open, releaseVars, closeVars,
                 asked>>

\* The end of a logout: everything asked before has been answered.
TdCloses ==
  /\ td = "loggingOut" /\ asked = {} /\ open # {}
  /\ td' = "closed"
  /\ Says(Update("closed"))
  /\ UNCHANGED <<viewVars, screen, generation, boot, execution, open, releaseVars, closeVars,
                 asked, moves>>

-----------------------------------------------------------------------------
Hear ==
  \/ AuthorizationUpdate \/ ConnectionUpdate
  \/ Silenced \/ ParametersAnswered \/ AuthorizationAnswered \/ CommandAnswered

Next ==
  \/ Start \/ StartDone \/ StartFails \/ ClientFails \/ Hear
  \/ Look \/ Execute \/ CoolingEnds
  \/ \E action \in Actions : Accept(action)
  \/ Released \/ NotReleased \/ Close \/ Opened
  \/ \E request \in Requests : TdGrants(request) \/ TdRefuses(request)
  \/ TdMoves \/ TdCloses

Spec == Init /\ [][Next]_vars

\* Callbacks come, a start and a close of the client settle, TDLib answers and
\* ends a logout it has begun.  Nothing is assumed of the user.
Fairness ==
  /\ WF_vars(StartDone \/ StartFails) /\ WF_vars(Hear) /\ WF_vars(Execute)
  /\ WF_vars(Released \/ NotReleased) /\ WF_vars(Opened) /\ WF_vars(CoolingEnds)
  /\ WF_vars(TdCloses)
  /\ \A request \in Requests : WF_vars(TdGrants(request) \/ TdRefuses(request))

FairSpec == Spec /\ Fairness

-----------------------------------------------------------------------------
\* .scratch/tdlib-fatal-close/issues/01-await-release.md: there is never a second
\* client on the directories of one that may still be open, no restart is offered
\* while there is one, and none is open once close() has resolved.
NoSecondClient ==
  /\ Cardinality(open) <= 1
  /\ "restart" \in allowed => open = {}
  /\ closing = "done" => open = {}

\* A user whose snapshot has the current version sees the current step and the
\* commands it allows, although updates, failures and releases come in between.
ScreenTellsTheTruth == ~stale => screen = [allowed |-> allowed, auth |-> auth]

\* connection.ts:403 "LoggingOut is authoritative even if an earlier invoke's
\* result arrives late": a logout that TDLib has announced is not reported as a
\* failed command; only the loss of its client is.
LogoutIsAuthoritative ==
  [][Pending /\ auth = "logging_out" /\ op'.status = "failed" => client' = "failed"]_vars

\* The inductive strengthening of the three.  Only the last boot's client may be
\* open; one that failed is being released or gone; a restart is offered, and
\* one that has been accepted is carried out, only when it is gone.
ClientInv ==
  /\ boot.generation <= generation /\ execution.generation <= generation
  /\ open \subseteq {boot.generation}
  /\ boot.stage = "none" => open = {}
  /\ client = "failed" => boot.generation < generation /\ (open = {} \/ releasing)
  /\ release # "none" => releasing
  /\ "restart" \in allowed => client = "failed" /\ ~releasing
RestartInv ==
  execution.stage = "scheduled" /\ execution.kind = "restart" /\ Pending
    /\ Current(execution.generation) => open = {}
CloseInv ==
  /\ closing # "none" \/ "close" \in onRelease => stopping
  /\ closing = "done" => open = {}

\* TDLib gets its parameters once per boot, and is past waiting for them before
\* it can end a session: a refusal of the parameters and a logout exclude each
\* other.
ParametersInv ==
  /\ boot.stage \in {"none", "starting", "silencing"} => ~boot.configured
  /\ td = "waitParameters" \/ boot.configured
  /\ "parameters" \in asked => td = "waitParameters" /\ boot.configured
  /\ \A m \in Range(inbox) :
       /\ m.kind = "parameters" /\ m.value = "error" =>
            td = "waitParameters" /\ boot.configured /\ "parameters" \notin asked
       /\ m.value = "loggingOut" => td # "waitParameters"
  /\ auth = "logging_out" => td # "waitParameters"

IInv == TypeOK /\ ClientInv /\ RestartInv /\ CloseInv /\ ScreenTellsTheTruth /\ ParametersInv

\* A command that has been accepted does not stay pending, which would refuse
\* every other one for ever; and close() ends.
OperationEnds ==
  /\ Pending ~> ~Pending \/ stopping
  /\ stopping ~> closing \in {"done", "rejected"}
=============================================================================
