# Verification of daevox-platform

TLA+ models of the concurrent core of daevox-platform, TLC configurations that check
them on small instances, and TLAPS proofs of every safety property the runs check, for every
value of the constants. Paths are relative to the repository (`src/`); `PROJECT.json` maps every definition to the lines it models.

## The system

daevox-platform is a set of local applications over a small server framework.

| Component | State it keeps | Operations | What is hard |
|---|---|---|---|
| Worker pool, job runner (`lib/framework/src/WorkerPool.ts`, `JobRunner.ts`) | worker entries, FIFO queue, timers of each job, closing state | `run`, abort, timeout, grace timer, worker messages and exits, `close` | replies, cancels and exits cross; replacement of dead threads; shutdown |
| Job threads (`job-worker.ts`) | controllers of running jobs | run, cancel, reply | a cancel meets a reply or the next job |
| Event dispatcher (`EventDispatcher.ts`) | a bounded mailbox per listener, the active handler, scheduled immediates | push, run one, timeout, settle, drain, cutoff | lost wakeups; late settlements; who reports what |
| Application (`Application.ts`, `ScheduledTaskRuntime.ts`) | life-cycle state, active requests, tasks | listen, close, tasks | closing while starting; order of shutdown; what arrives after a cutoff |
| WebSocket transport and sessions | connections, session store | upgrade, frames, message chain, close | sessions that appear after `closeAll`; peers that keep half a connection |
| TDLib client (`lib/tdlib/src`) | client state, pending calls, subscriptions, the shared worker | start, invoke, updates, close, fail | a start that ends after a close; a worker that dies with several clients |
| Telegram connection (`apps/backend/src/domain/telegram`) | generation, authorization, pending operation, release | boot, commands, release, close | results of an earlier generation; a logout that TDLib began |
| Auto-reply (`domain/auto-reply/service.ts`, `packages/db/src/auto-reply.ts`) | the journal of intents in SQLite, chat switches, memory of the row in process | updates, drain, send, results, recover | slow model between read and send; unknown outcomes; crashes |
| Secretary (`domain/secretary/service.ts`, `history-importer.ts`) | archive, progress of imports, runs of accounts | import, updates, observation, sign in and out | pages, updates and re-reads in any order; crash between pages |
| Summaries (`model-scheduler.ts`, `daily-summary.ts`, `summary-queue.ts`, `summarizer.ts`) | queue of days in SQLite, one model | schedule, summarise, retry, recover | a worker thread beside the main thread; replies that go first |
| Transcription (`apps/transcription-backend`) | the operation's snapshot, tasks, temporary and result files | reserve, upload, run, cancel, finish, close | cancellation at every await; process reaping; partial saves |
| Voice-over (`voiceover.py`, `persistent_worker.py`) | records, their rows and directories, the slot shared with the transcription | reserve, upload, prepare, render, delete | coroutines that hold a record while it is deleted; restart |
| Web client | UI state | - | reconnecting event streams |

They interact so: the application owns the job runner, the dispatcher, the scheduled
tasks and the transport, and closes them in the order requests, sessions, tasks, events,
jobs. Controllers and tasks push events and run jobs; a job runs in a thread that is reached
only by messages. The Telegram connection owns a TDLib client and gives its updates to the
secretary (which stores messages and builds daily summaries in jobs) and to the
auto-reply, which reads chat history, the summary and the model and sends through the
same client. Replies and summaries share one local model through `ModelScheduler`. The
transcription service is a Python process of its own that also makes voice-overs, one thing
at a time; the web client calls both processes over HTTP and event streams.

What makes each component correct: the pool settles every job once, in order, and never
strands one; the dispatcher handles each accepted event once, in order, or says that it
dropped it; the application goes down phase by phase and leaves nothing behind; every call
to TDLib is answered and every native client released; there is one client at a time and
its user sees the truth; the auto-reply sends at most one reply per message, only with
consent and to the text last known; the archive has no holes, nothing unasked and nothing
deleted in it; each day gets its summary; the transcription saves alone, cancels for good
and ends; the voice-over's slot is held by the record that works. `hazards` in
`PROJECT.json` lists where the code could fail to keep this.

## Modules

| Module | Models | Status |
|---|---|---|
| `WorkerPool` | `WorkerPool.ts`, `JobRunner.ts` against workers that send anything and die at any time | checked, safety proved |
| `JobService` | what a pool promises its callers: an abstract service, no threads or messages | implemented by the pool |
| `PoolImplementsService` | the refinement mapping from `WorkerPool` to `JobService` | checked and proved |
| `WorkerPoolProofs` | theorems about `WorkerPool` and `JobSystem`; the refinements | proved |
| `JobSystem` | `WorkerPool` composed with the threads of `job-worker.ts` and the two message channels of each | checked, safety proved |
| `EventDispatcher` | `EventDispatcher.ts` | checked, safety proved |
| `WebSocketTransport` | `WebSocketTransport.ts`, `WebSocketSessionStore.ts` | checked and proved within `Application` |
| `Application` | `Application.ts`, `ScheduledTaskRuntime.ts`, over `WebSocketTransport` | checked, safety proved |
| `TdlibClient` | `client.ts`, `transport.ts`, `worker.ts` of `lib/tdlib`, with an external TDLib | checked, safety proved |
| `ClientService` | what a TDLib client promises who uses it: no worker, messages or records | implemented by the client |
| `ClientImplementsService` | the refinement mapping from `TdlibClient` to `ClientService` | checked and proved |
| `TelegramConnection` | `connection.ts`, over what `ClientService` promises | checked, safety proved |
| `AutoReply` | `auto-reply/service.ts` with the table of `packages/db/src/auto-reply.ts` | checked, safety proved |
| `Secretary` | `service.ts`, `history-importer.ts` and the archive's tables of messages and imports | checked, safety proved |
| `SummaryQueue` | the model scheduler, the summary task, its worker, the table of daily summaries, `ChatSummarizer` | checked, safety proved |
| `Transcription` | `service.py`, `processes.py`, `storage.py` | checked, safety proved |
| `Voiceovers` | `voiceover.py`, the busy check of `api.py` | checked, safety proved |
| `ApplicationProofs` | theorems about `Application` with its transport and `EventDispatcher` | proved |
| `TdlibClientProofs` | theorems about `TdlibClient`; the refinement | proved |
| `AutoReplyProofs` | theorems about `AutoReply` and about `SummaryQueue`, which shares the model with it | proved |
| `TelegramConnectionProofs`, `SecretaryProofs`, `TranscriptionProofs`, `VoiceoversProofs` | theorems about the module they are named for | proved |
| `MC...` | model values and instances for TLC | - |

**Granularity.** TypeScript and asyncio run one callback at a time, so an action is what
the code does between two awaits: a whole handler when it has none. Threads, processes,
timers, Telegram and users are the environment and act between any two of them. A second
thread (`job-worker.ts`, the TDLib worker, `SummaryJob`) has actions of its own.

**WorkerPool.** `workers` is `#workers`, `task` and `terminating` the entries' fields,
`queue` is `#queue`, `grace` the jobs whose grace timer is armed, `outcome` the settled promises.
`Run` is `run()` with its early returns as separate disjuncts (`Refuse...`, `RunOnIdle`,
`RunOnNew`, `Enqueue`, `RefuseQueueFull`); `Abort`, `Timeout` and `GraceExpires` are the
callbacks of a job; `Reply`, `BadMessage` and `Exit` those of a worker; `Close`,
`CloseDrained`, `CloseTimeout`, `CloseDone` the stages of `close()`. Worker identities may be
reused once a thread is gone. Here a worker may send any message at any time.

**JobService** has a line, a set of places and an outcome for each job. A place that comes
free is given to the head of the line in the same step, a job is served at most once and
settled at most once, a success comes only from the end of a service, and a refusal for want
of room is truthful. The mapping of `PoolImplementsService` hides threads, grace timers and
the stages of `close()`: `waiting` is `queue`, `running` the jobs held by workers, `begun`
the jobs that were ever started.

**JobSystem** replaces the free workers of `WorkerPool` by the thread's own code: `inbox`
and `outbox` are the FIFO channels of a MessagePort, `executing` the thread's controllers,
`signalled` the jobs whose signal it has aborted. It extends `WorkerPool` and conjoins each
pool action with the messages it posts.

**EventDispatcher.** Per listener: `pending`, `active`, `scheduled` of a mailbox; per
event its `fate`, its `signal` and what the observer was `told`. Runtime registration
adds a listener; `CloseDispatcher` waits for idle mailboxes, `CutOff` is its timeout.

**Application and WebSocketTransport.** `state` is `#state`, `starting` and `phase` are how
far `listen()` and `close()` have come; `response` and `handler` tell what
`#activeRequests` and `#activeHttpHandlers` hold, and `awaiting` which of the two promises of
`close()` have not resolved (what they wait for is evaluated when `close()` is called). Per
session: `stage` of its upgrade, `socket`, the `chain` of its messages, `hook` for
`onDisconnect`, `stored` for the session store. `cuts` are the phases that ended by
their time limit, `late` is a history variable. `kept` are the other connections that
`server.close()` waits for: those kept alive after a response, and those a peer of `Peers` holds
without a routed request (nothing sent, half a head, an unrouted request without end, a refused
handshake), which are not idle for `node:http` and which nothing else ends. Peers send chunks of whole frames from a small
set; handlers, hooks and tasks may hang or fail. The dispatcher and the runner, which
`close()` comes to last, have modules of their own and simply end here.

**TdlibClient.** Per client: `state`, `start` and `close` (where these coroutines are),
the calls that are `pending`, one subscription with its `queue`; `toWorker` and the
messages back are FIFO ports, `native` what the worker holds. TDLib answers in any order or
never, breaks at any time, and the worker may die with every native client.

**ClientService** has, for each client, the promises of `start()` and `close()`, whether it
takes calls, those that are open, and the lease of one native client. A start fulfils only with
a native client and never after `close()`; the lease is taken once and never again; a client that
ends has no open call, no start under way and no native client. The clients are independent, and
all may end in one step, as they do when their worker dies. The mapping of
`ClientImplementsService` hides worker, ports, records and the stages of both promises; a client
holds its lease from the moment `init` is sent (`Holds`).

**TelegramConnection.** The variables are the fields of the class; `boot` and
`execution` are the coroutines of the last boot and command; `screen` is the snapshot the user
has, `td` the authorization automaton of TDLib, which moves of its own accord
(`MaxMoves`) and answers before it closes. A client is known by its generation; `open` are those
whose `close()` has not resolved.

**AutoReply.** `row` is the journal row of a message, with the reply kept in it, and
`setting` the switch of a chat, both in SQLite; `attempts` are the sends and what really
became of each in Telegram; `proc` is the drain loop and the attempt under way, with the
values it has read; `phase`, `account`, `boundary` and `epoch` are the session, and `text`,
`seen` and `facts` what Telegram holds, what its updates have shown, and the daily summary.
The awaits of `process()` are stages (`ReadIncoming`, `Compose`, `Reread`, `Send`); between
them anything may change. Telegram is external: an answer may be pending, delivered,
failed, refused, late or never come; answers precede the later updates of the same
message, as TDLib delivers them. `Crash` loses what is in memory and `Restart` recovers
the table. `mode = "working"` stands for each enabled setting that
is neither paused nor waiting; the round-robin among chats is a nondeterministic choice;
one account; SQLite does not fail.

**Secretary.** `remote` is the chat at Telegram and `rows`, `observation`, `progress`
are tables; `imports`, `ending` and `job` are the coroutines of `HistoryImporter` and the entry of
its `jobs`, `accountId` and `epoch` the run. A page shows the chat as it was when it
was asked for or as it is when it comes; messages are written, edited and deleted meanwhile.
`Restart` is a new process over the same tables; `DiesBeforeDays` is the end of a process
between the last page and the summaries it queues. One chat per account.

**SummaryQueue.** `queue` and `using` are `ModelScheduler`'s, `summary` is the table of
days, `worker` the thread of `SummaryJob` statement by statement. A `version` of a day stands for
its rows, their fingerprint and a text made from them. `pass` and `waiting` are the
auto-reply service as far as it shares the model.

**Transcription.** `main`, `canceller`, `finalizer`, `job` and `upload` are coroutines,
each with the await it is at; `status` the snapshot's status, `saved` what each result
file shows, `directory` the temporary directory. A cancellation is a flag that reaches a
task where it waits. A worker whose reaping is interrupted becomes an orphan. Whether
the kind of an operation is a file or a link is chosen initially. Texts, stages and the
event stream are left out, so `transcript_integrity_error` is too.

**Voiceovers.** Per record: its `status`, its `row` in SQLite with `_held_slot`, and where its
`upload`, `task` (prepare or render), `producers`, `deletion` and sample upload are; `active`
is the slot. Each coroutine holds the record object and saves it whether or not it is still
in `records`, as in the code. `returned` is a history variable: a start has found such a row.

## Runs

| Run | Question | Bounds |
|---|---|---|
| `pool` | is the pool a job service, is a job ever lost, doubled, overtaken or stranded; does the queue move, does `close()` end? | 4 jobs of which 3 have a time limit, pool 1, queue 2, 1 worker name: every place taken, a job refused, a worker replaced and its name reused |
| `job_system` | do pool and thread agree with messages in flight? | 4 jobs, 3 worker names, pool 2, queue 1: a job is refused because the queue is full; symmetric |
| `events` | is each event accounted for once, in order; do events move, does `close()` return? | 5 events, 2 listeners (one registered at runtime), mailboxes of 2 |
| `application` | does `close()` keep its order, leave nothing and return? | 2 requests, 1 session with 2 messages, 1 peer that holds a connection, 1 task |
| `tdlib_client` | is each client the service it promises; is each call answered, each update seen, each native client released? | 2 clients in turn, 1 call, 3 updates over a queue of 1, 1 break of TDLib or the worker |
| `telegram` | one client, a truthful screen, authoritative logouts, operations that end? | 2 commands and 2 moves of TDLib or the network, so that a boot, a failure and a logout overlap |
| `auto_reply` | one reply, consent, freshness, an honest journal? | 1 message, 2 edits, 2 summaries, 2 switches, 2 sessions, 2 sends, crash and restart |
| `auto_reply_chat` | order in a chat; does every intent end? | 2 messages over a capacity of 2, 2 summaries, 1 edit, 1 switch, 1 session, 1 send each |
| `secretary` | is an import complete, wanted, final and does it end? | 2 messages at first and 3 in all, 1 of them edited or deleted, pages of 2, so that an import takes two pages; 3 changes of account and 3 versions of the observation, 1 fault, 2 starts |
| `summaries` | does every summary end, do replies go first? | 2 days, 1 change, 1 reply, 1 manual summary, 1 fault, 2 starts |
| `transcription` | saved alone, final cancellations that end? | 2 operations, so that the second meets what is left of the first |
| `voiceovers` | who has the slot, what does a restart show, does work end? | 2 records and a transcription, 1 render, 1 sample, 1 failed cleanup, 2 starts |

Deadlock is not checked: each system may rightly stop (everything settled, all
operations used). The bounds are the `Max...` constants and the sets of the MC modules.
They leave each hazard room: every queue can fill, every race has at least two parties,
and each retry one more attempt than the code allows to succeed. Every property has a mutant
in `PROJECT.json`: a plausible bug of a mapped definition under which TLC finds it violated.
Three properties carry a condition that the code needs: `CloseReturns` of the application
supposes that no peer holds a connection for ever that only it can end (`AtPeersMercy`: one
without a routed request, or of a refused upgrade) and excepts input that came after the time
limit of its transport (`late`); `SlotIsHeld` and
`RestartKeeps` behaviours in which a deleted record has come back (`CameBack`, `returned`);
this is explained below.

Each module also states a `TypeOK`, which the proofs use and which serves as a check while
a model changes; the runs spend their properties on the hazards.

### Where code and documentation disagree

Found while modelling, by TLC or by reading; the models follow the code.

1. Pool: `#release` hands the next job to a worker that is being terminated
   (`WorkerPool.ts:415`); the job is rejected with `WorkerTerminatedError`, where
   `lib/framework/.scratch/worker-pool/spec.md:128` promises a replacement.
2. Auto-reply: a reply kept over a flood wait is sent although its daily summary has been
   rebuilt (`auto-reply/service.ts:424`; `.scratch/telegram-auto-reply/issues/04-delivery-lifecycle.md:43`).
3. Transcription: a cancellation inside the `finally` of `run_worker` skips SIGKILL
   (`processes.py:112`), and the next operation may start beside the old process
   (`.scratch/local-transcription/api-ui-contract.md:57`). The text is replaced before the
   JSON; if that fails, a failed operation keeps a text that looks complete
   (`storage.py:47`; `.scratch/local-transcription/spec.md:49`).
4. Application: whether HTTP handlers are waited for is decided when `close()` is called
   (`Application.ts:1557`), so one that starts later within an open request is not
   (`docs/interface/application.md:47`); `close()` during a pending `onAppStart` does not await the
   start; `server.close()` (`:1549`) is awaited without limit (`:1573`), and it waits for every
   connection: a peer that sends nothing, half a request head or an endless unrouted request, or
   keeps its half of a refused upgrade open, delays `close()` for ever, where
   `lib/framework/.scratch/framework-testing/issues/02-graceful-shutdown-under-load.md:24` wants it
   within a bound computed from the timeouts (hence the premise of `CloseReturns`); requests and
   sessions that arrive after the cutoff of their transport are still served
   (`WebSocketTransport.ts:889`; hence its exception).
5. TDLib client: `failureRelease` rejects if the worker dies between `destroy` and its
   confirmation; a failed `init` leaves an idle worker.
6. Telegram connection: a `getMe` that fails (`connection.ts:280`) is never retried.
7. Secretary: `saveUpdate` gives up on SQLITE_BUSY and the message is lost until an import
   sees it; a stale answer may undo an edit; an empty page counts as the end of a chat; messages
   missed while the backend is down are recovered only by a new import.
8. Summaries: comparing a day's rows and publishing its text are two statements of the worker
   (`daily-summary.ts:109`), so a text may be ready that was made from what has changed since;
   new messages never requeue their day.
9. Voice-over: a deletion that overtakes an upload between its last chunk and its end
   (`voiceover.py:429`), or a sample (`:1574`), brings the record back in a row that nothing removes
   (`.scratch/youtube-voiceover/issues/06-player-contract.md:66` promises removal). The end of
   that record's render frees the slot whoever has it (`:1431`), so that a third record may take it
   while another is being deleted, two rows say `held`, and a restart cannot tell which is right;
   `fail()` may free the slot while a render's processes still run.

## Fairness

Liveness is checked under weak fairness of these, and of nothing else:

- *Pool*: timers fire (`Timeout` of jobs with a limit, `GraceExpires`, `CloseTimeout`)
  and a terminated thread exits. Jobs may run for ever and workers may be silent:
  Node guarantees timers and the exit of a terminated worker, nothing about user code.
- *Dispatcher*: immediates and timers fire; handlers may never settle.
- *Application*: timers fire (`keepAliveTimeout` too), `node:http` notices that nothing is
  left, and the hooks of the application settle (the code awaits them without limit). Handlers,
  tasks, `onConnect` and peers may hang; what `close()` needs of peers is a premise of
  `CloseReturns`, not fairness.
- *TDLib client*: both event loops go on, files can be read, TDLib answers a close
  (`close()` has no timeout of its own). Any other answer may never come.
- *Telegram connection*: a start and a close of the client settle, TDLib answers its
  requests and ends a logout it has begun, the cooling timer fires. Users do nothing.
- *Auto-reply*: the drain loop, which a timer starts, takes its steps; the deadline
  passes; an await that is abortable ends at the deadline; TDLib answers `checkChat`.
  The last is an assumption about TDLib: that call has no timeout (`service.ts:329`),
  and while it hangs nothing else is served.
- *Secretary*: Telegram answers a page and a re-read, retry times come, and the task that
  refreshes runs every minute (`secretary-refresh.scheduled-task.ts`).
- *Summaries*: the task runs each second, the worker goes on or dies, model and Telegram
  answer or time out, authors are found, and a message waits for its reply for at most five
  minutes (its deadline).
- *Transcription*: coroutines that can run do, filesystem threads end, and a process that
  is being reaped dies (SIGKILL follows after 3 s). Nothing is assumed of users, of the
  sender of a file or of running worker processes.
- *Voice-over*: coroutines go on, processes and threads end, an upload looks at the status
  ten times a second. Clients may stall.

## Proofs

Every theorem holds for all values of the constants that the assumptions of its module
allow (`...Assumption`, which TLC evaluates on each run). The safety theorems of a module
follow from one invariant, `IInv` (`SystemInv` in `JobSystem`, `EventsInv` in
`EventDispatcher`, `SummaryInv` in `SummaryQueue`), stated in the module itself
next to the properties it strengthens; TLC has confirmed it on the run's instance. It is
a conjunction of named parts, and a lemma for each part or action shows that a step keeps it.

**Worker pool** (`WorkerPoolProofs`). The type invariant, four safety invariants, two action
properties, and the limits on threads and waiting jobs. The invariants are not inductive one
by one. `NoForgottenJob` needs to know that a job in the queue is not with a worker as well,
or settling the one would forget the other; `OnePlacePerJob` needs that a worker outside
`workers` holds nothing, since its name may be taken by a new thread; `ClosedIsQuiet` needs
that a closed pool has no queue. `PlacesInv` joins these facts (`SlotsInOrder`,
`OnePlacePerJob`, `NoForgottenJob`). `CapacityInv` adds `QueueWaitsForAFullPool` with the
limits: that jobs wait only while the pool is full survives the exit of a worker only because
the next job starts in the new thread. `TypeStep`, `PlacesStep`, `LimitsStep` and
`FullPoolStep` take the actions one by one. `OutcomesAreFinal` needs only the types: `Settle`
leaves settled jobs alone; `StartsInOrder` rests on `OrderFacts` about the queue.

**The abstract service** (`WorkerPoolProofs`). `PoolIsAService`: `Spec => ImplementsService`,
every pool, whatever its threads do, is a `JobService`. Each action of the pool maps to one
action of the service or to a stutter; that it does needs `IInv`: a job is served on arrival
only if nobody waits because a queue never stands beside a free place, and the place that a
job leaves goes to the head of the line because its worker holds nothing else.

**Pool and threads** (`WorkerPoolProofs`). `SystemIsAPool`: each step of the composition is a
step of the pool or a stutter, so that the pool's theorems and the refinement hold of it
too (`SystemIsAService`). `ThreadsAgree` and `CancelsReach` need `Conversation`, which lists
what the two channels of one worker can hold together: nothing, a job on its way, a job being
run with at most a cancel behind it, or its reply. `Agreement` joins it to the
signals: only a cancelled job is signalled or has a cancel on its way, and one that its thread
still has is one of the two. With `PlacesInv` and `GraceInv` (a grace timer belongs to a
cancelled job) it is `SystemInv`, from which `NoBadMessage` follows as well: no healthy thread
is taken for a broken one.

**Event dispatcher** (`ApplicationProofs`). `EventsInv` has five parts. `PlacesInv`: an event is
in one mailbox at most, once, and where its `fate` says; `NoLostWakeup`: a mailbox with
something to do has an immediate or a handler whose end schedules one; `ReportsInv`: what
the observer has heard fits the fate of the event; `ClosingInv`: the stages of `close()`
against what it waits for. `AccountedOnce` joins facts of three of them: that a drained
dispatcher holds nothing needs the wakeups. `FirstInFirstOut` is an action property: the
handler started is for the head of a mailbox that holds nothing twice (`IsInjective`), and a
push appends, so that no event overtakes one that was before it.

**Application** (`ApplicationProofs`). `LifeInv` relates `state`, the start, the server and the phase
of `close()`; `ServedInv` says what is left of requests and sessions once no server can be reached, and
that only the cutoff takes the socket of a session before its end; `TasksInv` that a task has been
reported at most once and runs on behind its phase only after its time limit. `EachPhaseEnds` needs the
first two: the server is closed when `close()` goes on to the tasks, and what happens to a session later
must be shown unable to bring it back. For that most actions need only be `Calmed` (nobody gets a socket,
what is over stays over), and `ServedSuffices` covers them at once. `NothingIsLeft` follows from the same
invariant; `QuietTasks` is an action property. A chunk of a peer is parsed by a recursive function,
`Texts`; that it exists is proved by a least counterexample (`<` is well-founded).

**Summaries** (`AutoReplyProofs`). `RepliesGoFirst`: a summary is given the model only while no message
waits for its reply and no reply is queued. `RepliesAhead`, no reply behind a summary in the queue, is
inductive: each step leaves the scheduler `Orderly`, whether it inserts a request or takes the first
that may start. Restricting the queue to some kinds is `SelectSeq`, whose recursion the prover cannot
expand; the lemmas on `Only` say what it keeps, by a least counterexample as above. `CountsInv` bounds the
versions of a day and the messages that wait, which the types need. The proof found an assumption
that was missing: `MaxStarts` is at least 1, since the process that runs has been started.

**TDLib client** (`TdlibClientProofs`). `StateInv` relates `state` to where `start()`, `close()`
and the release after a failure are (a started client has no close behind it; who waits for
the native client has a promise to settle); `WireInv` the messages on both ports to `start`:
a client is initialised once, nothing from before its `init` or after its `destroyed` can
touch it, and a native client that exists or will exist has a record. Both are needed for
`NativesReleased`: the thread is terminated with the last record, which is the end of the
last native client only because no `init` can be under way behind a `destroyed`.
`NoCallStays` uses them only to know the state in which a close request is answered.
`NoUpdateSkipped` is inductive with `SeenInv`: the queue of a subscription is the interval from
the update last seen to the one last arrived, which an arrival extends and the handler shortens.

**The client service** (`TdlibClientProofs`). `ClientIsAService`: `Spec => ImplementsClientService`.
Each step is, for each client, one of the service's or a stutter (`Serves`): one lemma for each
action and each message says so of the client it is about, and that the others are `Left` alone. It
takes two more invariants: `PromiseInv`, who closes or undoes its start waits for the native client
to go, and only in states that fit; `RecordInv`, a started client has a record, and a `destroy` or
`destroyed` on its way to one with a record has somebody waiting for it, or the client would lose its
record and know nothing of it. `ClientIsReliable` draws from it what a user can rely on
(`Reliable`), `TelegramConnection` among them.

**Telegram connection** (`TelegramConnectionProofs`). `ClientInv`: only the client of the last
boot may be open, and a failed one is being released or gone; `RestartInv`: a restart has been
accepted only with no client left; `CloseInv`: how far `close()` has come. With
`ScreenTellsTheTruth`, inductive by itself, they are `SafetyInv`; `OneClient` follows.
`LogoutsStand` needs `ParametersInv`: TDLib refuses its parameters only while it waits for
them, when no logout can have been announced, so that the two never meet in one inbox. Most
steps are `Quiet` (they touch neither client nor release) and `QuietSuffices` covers them at once.

**Auto-reply** (`AutoReplyProofs`). `DeliveryInv`: one attempt of a message
at most may reach the chat, and its row is then handed off, unknown or succeeded; `BodyInv`:
what an open intent would send, or has sent, answers the text it names; `ArrivalInv`: messages
arrive in their order and a process that is down waits for nothing; `LoopInv`: the intent that
the drain loop works on is the first open one of its chat, and while its row is unsent and of
the version read, snapshot and locals tell what row and updates tell; `AskedInv`: a row is as
the send left it while Telegram may still refuse.
`AtMostOneReply` needs all of them, as a retry is decided on a row read before an await.
Most steps change one row or nothing (`Effects`, `EffectsSuffice`); `Receive`, `Begin`,
`Advance` and `Send` have lemmas of their own. Consent and order are action properties of `Send`.

**Secretary** (`SecretaryProofs`). `RunInv`: there is one import at most, it belongs to the run of
the account signed in and to the version of the observation, is not aborted, and its cursor is
the one in `progress`; `HistoryInv`: a chat as it was when a page was asked for is an earlier
state of the chat there is, without a gap up to the newest message that was there at first.
With them `NothingSkipped` is inductive (`PageSaved`): a message that the new cursor covers and
the old one did not was there when the page was made, is not deleted since, and so is on it.
`NothingUnasked` and `DeletedIsFinal` are action properties of the steps that write rows. `Min`
and `Max` get their facts from the library's theorem that `<` is well-founded.

**Transcription** (`TranscriptionProofs`). `NothingOfAnOlderOperation`: whoever is at work works
for the current operation. `StageInv`: the upload comes before the main task and the canceller
saves only behind both; a live process belongs to a stage of the main task, and a finalizer to a
task that waits for it (this is what the shield of `finish()` is for). `SavedAlone` follows
from these two, but they are not inductive without `StatusInv`, what the status says of who is
at work: a main task begins only for an operation that was waiting for its file and not
cancelled, and `reserve()` finds a terminal status only when the task has returned.
`CancelIsFinal` is an action property of the steps that write the status. `OnwardStep`,
`FinishStep` and `ReturnsStep` state once what all the awaits of the main task have in common.

**Voice-over** (`VoiceoversProofs`). All actions but `Restart` and those of the transcription
concern one record; `AtOneRecord` says once what such a step must do to keep `IInv`.
`SlotIsHeld` needs that whoever may still end with the slot has it (`AtWork`): the end of an
upload or a task of any other record would free a slot that is not its own. `RestartKeeps` needs
three parts: `LibraryInv`, every record's row shows its status; `FreshInv`, a record not yet
reserved has no row; `SlotInv`, the cleanup that has the slot says so in its row, and no other
row of a cleanup does. The last part is not inductive once a deleted record has come back:
the proof failed at the end of its render, and TLC then showed with three records how the slot
ends in two rows (divergence 9), a case that two records do not have. Hence `returned`.

**Only model-checked.** Liveness under fairness and ENABLED, which the prover does not
handle: the properties that say that something ends or moves. No module uses RECURSIVE
operators, so all of them are open to proof.

## Not modelled

Real time (any timer may fire at any moment, so neither its length nor the overflow of
`setTimeout` at 2^31 ms is seen); the content of messages, texts, clips and summaries;
HTTP bodies and WebSocket framing below whole frames; model inference; the user interface.
Parts of modelled components that are left out:

- `WebSocketSender`: what is written to peers, and slow ones.
- TDLib's `wait()` and `waitUntilReady()`: conveniences over subscriptions.
- `ChatCatalog` and `AuthorResolver` of the secretary: caches refreshed each minute.
- SQLite failures in the auto-reply, and failures to save in the voice-over; `close()` of
  the voice-over service and both event streams of the Python service.
- In the voice-over, exceptions outside the `except` lists of preparing (`voiceover.py:815`)
  and rendering (`:1432`).
- Replies without end, which would starve the summaries: `MaxReplies` bounds them.
- The persistent TTS worker (`persistent_worker.py`) as a process of its own: a second
  cancellation inside its `close()` skips SIGKILL as in `processes.py`.

Most of the implementation's lines are no candidates for a model: the TDLib types
(`generated/td-api.ts`) alone are more than half of them, and the web client, prompts and
inference scripts most of the rest. `components` in `PROJECT.json` gives each its reason.

## Plan

1. Done: pool, job threads, dispatcher, application with transport and tasks, TDLib client,
   Telegram connection, auto-reply, secretary, summaries, transcription, voice-over; the
   proofs of the safety properties of all of them, and the refinements of the job service and
   the client service.
2. Next: `TelegramConnection` composed with `ClientService` instead of its own variables of
   the client, so that `NoSecondClient` speaks of native clients.
3. Then the parts of the HTTP layer that keep state: event streams and their slow readers
   (`WebSocketSender`, the event stream of the transcription).
