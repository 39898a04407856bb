------------------------------ MODULE Secretary ------------------------------
(***************************************************************************)
(* The archive of the secretary (apps/backend/src/domain/secretary/): the  *)
(* messages of an observed chat reach SQLite by two ways, the updates of   *)
(* Telegram as they come and the import of the last thirty days page by    *)
(* page, while the user signs in and out, switches the observation on and  *)
(* off, the database is busy and the backend stops or dies.                *)
(*                                                                         *)
(* One chat of each account is modelled.  A message is a number, higher    *)
(* when it is newer; of its content only matters whether it is edited or   *)
(* deleted.  Statements between two awaits are one action.  An answer of   *)
(* Telegram shows the chat as it was when it was asked for or as it is when*)
(* it arrives.  Catalog and authors of the chat, protected content and the *)
(* counters shown to the user are left out.                                *)
(***************************************************************************)
EXTENDS Naturals, FiniteSets, FiniteSetsExt

CONSTANTS
  Accounts,
  NoAccount,
  Initially,    \* number of messages there are in a chat at first
  MaxMessage,   \* bound on messages of a chat
  PageSize,     \* limit of getChatHistory
  Changing,     \* bound: the messages that are ever edited or deleted
  MaxEpoch,     \* bound on changes of the account in one process
  MaxVersion,   \* bound on switches of an observation
  MaxFaults,    \* bound on failures of Telegram and of SQLite
  MaxStarts     \* bound on starts of the backend

ASSUME SecretaryAssumption ==
  /\ NoAccount \notin Accounts
  /\ {Initially, MaxMessage, MaxEpoch, MaxVersion, MaxFaults} \subseteq Nat
  /\ Initially <= MaxMessage
  /\ {PageSize, MaxStarts} \subseteq Nat \ {0} /\ Changing \subseteq Nat

VARIABLES
  remote,       \* the chats at Telegram
  oldUpTo,      \* messages up to this one are older than thirty days
  signedIn,     \* the account of the session, once it is authorized
  accountId,    \* accountId: known when getMe has been answered; its run is this epoch
  epoch,        \* accountEpoch
  phase,        \* of the service: open, closing, closed
  rows,         \* table messages
  observation,  \* table observations
  progress,     \* table history_imports
  days,         \* accounts whose chat has rows in table daily_summaries
  imports,      \* the imports that wait for a page
  ending,       \* those whose signal is aborted, by id, until their finally block
  job,          \* the one HistoryImporter.jobs holds for the chat
  retryLater,   \* accounts for which retryAt is in the future
  rereads,      \* edited messages that have been asked for again
  newest,       \* the newest message when the first page of an import came
  faults, starts

remoteVars == <<remote, oldUpTo, signedIn>>
runVars == <<accountId, epoch, phase>>
importVars == <<progress, days, imports, ending, job>>
counters == <<faults, starts>>
vars == <<remoteVars, runVars, rows, observation, importVars, retryLater, rereads, newest, counters>>

Messages == 1 .. MaxMessage
Absent == "absent"
Contents == {"original", "edited"}
Deleted == "deleted"
States == Contents \cup {Absent, Deleted}
Ids == Nat \ {0}
Chats == [Messages -> States]
NoJob == [id |-> 0, version |-> 0]
Imports == [id : Ids, account : Accounts, version : 0 .. MaxVersion, cursor : 0 .. MaxMessage,
            seen : Chats]
NoProgress == [version |-> 0, cursor |-> 0, status |-> "none"]

TypeOK ==
  /\ remote \in [Accounts -> Chats]
  /\ oldUpTo \in [Accounts -> 0 .. MaxMessage]
  /\ {signedIn, accountId} \subseteq Accounts \cup {NoAccount}
  /\ epoch \in 0 .. MaxEpoch
  /\ phase \in {"open", "closing", "closed"}
  /\ rows \in [Accounts -> Chats]
  /\ observation \in [Accounts -> [enabled : BOOLEAN, version : 0 .. MaxVersion]]
  /\ progress \in [Accounts -> [version : 0 .. MaxVersion, cursor : 0 .. MaxMessage,
                                status : {"none", "loading", "ready", "error"}]]
  /\ days \subseteq Accounts /\ retryLater \subseteq Accounts
  /\ imports \subseteq Imports /\ IsFiniteSet(imports)
  /\ ending \subseteq Ids /\ IsFiniteSet(ending)
  /\ job \in [id : Ids, version : 0 .. MaxVersion] \cup {NoJob}
  /\ rereads \subseteq [account : Accounts, message : Messages]
  /\ newest \in [Accounts -> 0 .. MaxMessage]
  /\ faults \in 0 .. MaxFaults /\ starts \in 1 .. MaxStarts

Init ==
  /\ remote = [a \in Accounts |-> [m \in Messages |-> IF m <= Initially THEN "original" ELSE Absent]]
  /\ oldUpTo \in [Accounts -> 0 .. Initially]
  /\ signedIn = NoAccount /\ accountId = NoAccount /\ epoch = 0 /\ phase = "open"
  /\ rows = [a \in Accounts |-> [m \in Messages |-> Absent]]
  /\ observation = [a \in Accounts |-> [enabled |-> FALSE, version |-> 0]]
  /\ progress = [a \in Accounts |-> NoProgress]
  /\ days = {} /\ imports = {} /\ ending = {} /\ job = NoJob /\ retryLater = {} /\ rereads = {}
  /\ newest = [a \in Accounts |-> 0]
  /\ faults = 0 /\ starts = 1

Fault == faults < MaxFaults /\ faults' = faults + 1

-----------------------------------------------------------------------------
(* HistoryImporter *)

\* Mutant of Merged: what is written wins over a deletion.
MergedAnyway(row, content) == content

\* saveMessages(): a message once deleted stays deleted.
Merged(row, content) == IF row = Deleted THEN Deleted ELSE content

\* valid(): its signal is not aborted, and the observation is the one it began for.
Valid(t) == observation[t.account] = [enabled |-> TRUE, version |-> t.version]

\* abort() of those in ts: nothing they wait for reaches them any more.
Abort(ts) == imports' = imports \ ts /\ ending' = ending \cup {t.id : t \in ts}

OfJob == {t \in imports : t.id = job.id}

\* enqueueDailySummaries(): days that have text and no row get one.
Enqueued(a, chat) ==
  IF \E m \in Messages : m > oldUpTo[a] /\ chat[m] \in Contents THEN days \cup {a} ELSE days

\* Mutant of CompletedBefore: the days have been queued when it was completed.
NothingToComplete(a) == days

\* completed() of an import found to be ready.
CompletedBefore(a) == Enqueued(a, rows[a])

\* beginHistoryImport(): goes on with the import of this version or begins it.
Begun(a, version) ==
  IF progress[a].version = version THEN progress[a]
  ELSE [version |-> version, cursor |-> 0, status |-> "loading"]

\* Is there no import of this version in the map, or only an aborted one?  One
\* of an earlier run is aborted.
Again(version) == job = NoJob \/ job.version # version \/ job.id \in ending

\* The first id that no import has.
FreshId ==
  LET used == ending \cup {t.id : t \in imports} IN Min((1 .. Cardinality(used) + 1) \ used)

\* ensure(run, chatId, version), later being the accounts that have to wait
\* before the next attempt.
Ensure(a, version, later) ==
  LET next == Begun(a, version) IN
  \/ ~Again(version) /\ UNCHANGED <<importVars, faults>>
  \/ Again(version) /\ a \in later /\ Abort(OfJob) /\ UNCHANGED <<progress, days, job, faults>>
  \/ Again(version) /\ Abort(OfJob) /\ Fault /\ UNCHANGED <<progress, days, job>>  \* SQLITE_BUSY
  \/ /\ Again(version) /\ a \notin later
     /\ progress' = [progress EXCEPT ![a] = next]
     /\ IF next.status = "ready"
        THEN Abort(OfJob) /\ days' = CompletedBefore(a) /\ UNCHANGED job
        ELSE /\ imports' = (imports \ OfJob) \cup
                  {[id |-> FreshId, account |-> a, version |-> version, cursor |-> next.cursor,
                    seen |-> remote[a]]}
             /\ ending' = ending \cup {t.id : t \in OfJob}
             /\ job' = [id |-> FreshId, version |-> version] /\ UNCHANGED days
     /\ UNCHANGED faults

\* refresh() of a run: ensure() of the chats that are observed.
EnsureObserved(a, later) ==
  IF observation[a].enabled THEN Ensure(a, observation[a].version, later)
  ELSE UNCHANGED <<importVars, faults>>

\* The finally block of an import: its own entry only.
Forgets(id) == job' = IF job.id = id THEN NoJob ELSE job

\* Mutant of Complete: a page that is not full is the last one.
CompleteWhenShort(t, page) == Cardinality(page) < PageSize

\* An empty page, or one with a message older than thirty days, is the last.
Complete(t, page) == page = {} \/ \E m \in page : m <= oldUpTo[t.account]

\* What getChatHistory may answer: the newest messages below the cursor, some
\* or up to the limit.
Pages(t, chat) ==
  LET below == {m \in Messages : chat[m] \in Contents /\ (t.cursor # 0 => m < t.cursor)} IN
  IF below = {} THEN {{}}
  ELSE {p \in SUBSET below : /\ Cardinality(p) \in 1 .. PageSize
                             /\ \A m \in p, n \in below \ p : n < m}

Cursor(t, page) == IF page = {} THEN t.cursor ELSE Min(page)

\* The messages of a page that are not too old.
SaveMessages(t, page, chat) ==
  LET a == t.account IN
  /\ rows' = [rows EXCEPT ![a] = [m \in Messages |->
                IF m \in page /\ m > oldUpTo[a] THEN Merged(rows[a][m], chat[m]) ELSE rows[a][m]]]
  /\ newest' = [newest EXCEPT ![a] =
                  IF t.cursor = 0 THEN Max({0} \cup {m \in Messages : chat[m] # Absent}) ELSE @]

\* saveHistoryPage(): messages and progress in one transaction.
SaveHistoryPage(t, page, chat) ==
  /\ SaveMessages(t, page, chat)
  /\ progress' = [progress EXCEPT
       ![t.account].cursor = Cursor(t, page),
       ![t.account].status = IF Complete(t, page) THEN "ready" ELSE "loading"]

\* The answer to getChatHistory: saved, and the next page asked for.
Page(t, chat) ==
  \/ /\ ~Valid(t)
     /\ imports' = imports \ {t} /\ Forgets(t.id)
     /\ UNCHANGED <<rows, progress, days, newest>>
  \/ /\ Valid(t)
     /\ \E page \in Pages(t, chat) :
          /\ SaveHistoryPage(t, page, chat)
          /\ IF Complete(t, page)
             THEN /\ imports' = imports \ {t} /\ Forgets(t.id)
                  /\ days' = Enqueued(t.account, rows'[t.account])
             ELSE /\ imports' = (imports \ {t}) \cup
                       {[t EXCEPT !.cursor = Cursor(t, page), !.seen = remote[t.account]]}
                  /\ UNCHANGED <<job, days>>

PageArrives ==
  /\ \E t \in imports : \E chat \in {t.seen, remote[t.account]} : Page(t, chat)
  /\ UNCHANGED <<remoteVars, runVars, observation, ending, retryLater, rereads, counters>>

\* An import whose wait was aborted comes to its finally block.
AbortedEnds ==
  \E id \in ending :
    /\ ending' = ending \ {id} /\ Forgets(id)
    /\ UNCHANGED <<remoteVars, runVars, rows, observation, progress, days, imports, retryLater,
                   rereads, newest, counters>>

\* Telegram refuses, the page does not advance the cursor, or the database is
\* busy: failHistoryImport(), unless that fails as well.
PageFails ==
  \E t \in imports :
    /\ Valid(t) /\ Fault
    /\ imports' = imports \ {t} /\ Forgets(t.id)
    /\ \/ /\ progress' = [progress EXCEPT ![t.account].status = "error"]
          /\ retryLater' = retryLater \cup {t.account}
       \/ UNCHANGED <<progress, retryLater>>
    /\ UNCHANGED <<remoteVars, runVars, rows, observation, days, ending, rereads, newest, starts>>

\* The last page is saved and completed() finds the database busy: the import
\* is marked as failed after all.
CompletionFails ==
  \E t \in imports : \E chat \in {t.seen, remote[t.account]} : \E page \in Pages(t, chat) :
    /\ Valid(t) /\ Complete(t, page) /\ Fault
    /\ imports' = imports \ {t} /\ Forgets(t.id)
    /\ SaveMessages(t, page, chat)
    /\ progress' = [progress EXCEPT ![t.account].cursor = Cursor(t, page),
                                    ![t.account].status = "error"]
    /\ retryLater' = retryLater \cup {t.account}
    /\ UNCHANGED <<remoteVars, runVars, observation, days, ending, rereads, starts>>

\* Sixty seconds have passed.
RetryComesDue ==
  /\ retryLater # {} /\ retryLater' = {}
  /\ UNCHANGED <<remoteVars, runVars, rows, observation, importVars, rereads, newest, counters>>

-----------------------------------------------------------------------------
(* The session: syncAccount() and refresh() on every change of its state *)

\* authorizationStateReady: the account is not known yet.
SignsIn ==
  /\ signedIn = NoAccount
  /\ signedIn' \in Accounts
  /\ UNCHANGED <<remote, oldUpTo, runVars, rows, observation, importVars, retryLater, rereads,
                 newest, counters>>

\* getMe is answered: a run of the account begins.
AccountKnown ==
  /\ phase = "open" /\ signedIn # NoAccount /\ accountId = NoAccount /\ epoch < MaxEpoch
  /\ accountId' = signedIn /\ epoch' = epoch + 1
  /\ EnsureObserved(signedIn, retryLater)
  /\ UNCHANGED <<remoteVars, phase, rows, observation, retryLater, rereads, newest, starts>>

\* The session ends: the run is aborted with all that belongs to it.
SignsOut ==
  /\ signedIn # NoAccount /\ signedIn' = NoAccount
  /\ IF phase = "open" /\ accountId # NoAccount
     THEN /\ epoch < MaxEpoch
          /\ accountId' = NoAccount /\ epoch' = epoch + 1
          /\ Abort(imports) /\ rereads' = {}
     ELSE UNCHANGED <<accountId, epoch, imports, ending, rereads>>
  /\ UNCHANGED <<remote, oldUpTo, phase, rows, observation, progress, days, job, retryLater,
                 newest, counters>>

\* refresh(): after every event of the connection, and once a minute.
Refresh ==
  /\ phase = "open" /\ accountId # NoAccount
  /\ EnsureObserved(accountId, retryLater)
  /\ UNCHANGED <<remoteVars, runVars, rows, observation, retryLater, rereads, newest, starts>>

-----------------------------------------------------------------------------
(* The commands: setObservation() and resume() *)

SetObservation(enabled) ==
  /\ phase = "open" /\ accountId # NoAccount
  /\ LET a == accountId
         old == observation[a]
         new == IF old.enabled = enabled THEN old
                ELSE [enabled |-> enabled, version |-> old.version + 1]
     IN
     /\ new.version <= MaxVersion
     /\ observation' = [observation EXCEPT ![a] = new]
     /\ IF enabled THEN Ensure(a, new.version, retryLater)
        ELSE Abort(OfJob) /\ UNCHANGED <<progress, days, job, faults>>
  /\ UNCHANGED <<remoteVars, runVars, rows, retryLater, rereads, newest, starts>>

\* resume() of a chat that is observed: the next attempt does not wait.
Resume ==
  /\ phase = "open" /\ accountId # NoAccount /\ observation[accountId].enabled
  /\ retryLater' = retryLater \ {accountId}
  /\ EnsureObserved(accountId, retryLater')
  /\ UNCHANGED <<remoteVars, runVars, rows, observation, rereads, newest, starts>>

-----------------------------------------------------------------------------
(* update(): what Telegram sends while a run is active *)

Listening == accountId # NoAccount

\* Mutant of Wanted: a new message is saved whether or not its chat is observed.
WantedAlways(a) == Listening

Wanted(a) == Listening /\ observation[a].enabled

\* saveUpdate(): swallows what the database throws.
SaveUpdate(a, m, content) ==
  \/ rows' = [rows EXCEPT ![a][m] = Merged(@, content)] /\ UNCHANGED faults
  \/ Fault /\ UNCHANGED rows

\* updateNewMessage, for a chat that is observed.
NewMessage ==
  LET a == signedIn IN
  /\ phase = "open" /\ a # NoAccount
  /\ \E m \in Messages :
       /\ remote[a][m] = Absent /\ \A n \in Messages : n < m => remote[a][n] # Absent
       /\ remote' = [remote EXCEPT ![a][m] = "original"]
       /\ IF Wanted(a) THEN SaveUpdate(a, m, "original")
          ELSE UNCHANGED <<rows, faults>>
  /\ UNCHANGED <<oldUpTo, signedIn, runVars, observation, importVars, retryLater, rereads, newest, starts>>

\* updateMessageContent: a message that is known is asked for again.
MessageContent ==
  LET a == signedIn IN
  /\ phase = "open" /\ a # NoAccount
  /\ \E m \in Messages \cap Changing :
       /\ remote[a][m] = "original"
       /\ remote' = [remote EXCEPT ![a][m] = "edited"]
       /\ rereads' = IF Listening /\ rows[a][m] # Absent
                     THEN rereads \cup {[account |-> a, message |-> m]}
                     ELSE rereads
  /\ UNCHANGED <<oldUpTo, signedIn, runVars, rows, observation, importVars, retryLater, newest, counters>>

\* The answer to getMessage, unless the message is gone or Telegram refuses.
Reread ==
  \E r \in rereads :
    /\ rereads' = rereads \ {r}
    /\ \/ SaveUpdate(r.account, r.message, "edited")
       \/ remote[r.account][r.message] = Deleted /\ UNCHANGED <<rows, faults>>
       \/ Fault /\ UNCHANGED rows
    /\ UNCHANGED <<remoteVars, runVars, observation, importVars, retryLater, newest, starts>>

\* updateDeleteMessages, permanent: noted for messages that are not known too.
DeleteMessages ==
  LET a == signedIn IN
  /\ phase = "open" /\ a # NoAccount
  /\ \E m \in Messages \cap Changing :
       /\ remote[a][m] \in Contents
       /\ remote' = [remote EXCEPT ![a][m] = Deleted]
       /\ IF Listening THEN SaveUpdate(a, m, Deleted) ELSE UNCHANGED <<rows, faults>>
  /\ UNCHANGED <<oldUpTo, signedIn, runVars, observation, importVars, retryLater, rereads, newest, starts>>

-----------------------------------------------------------------------------
(* close(), and the process *)

Close ==
  /\ phase = "open" /\ phase' = "closing"
  /\ Abort(imports) /\ rereads' = {}
  /\ UNCHANGED <<remoteVars, accountId, epoch, rows, observation, progress, days, job, retryLater,
                 newest, counters>>

\* Nothing is pending: the database is closed.
Closed ==
  /\ phase = "closing" /\ ending = {} /\ phase' = "closed"
  /\ UNCHANGED <<remoteVars, accountId, epoch, rows, observation, importVars, retryLater, rereads,
                 newest, counters>>

NewProcess ==
  /\ signedIn' = NoAccount /\ accountId' = NoAccount /\ epoch' = 0 /\ phase' = "open"
  /\ imports' = {} /\ ending' = {} /\ job' = NoJob /\ retryLater' = {} /\ rereads' = {}
  /\ starts' = starts + 1

\* The backend starts again, after it was closed or after it died at any moment.
Restart ==
  /\ starts < MaxStarts /\ NewProcess
  /\ UNCHANGED <<remote, oldUpTo, rows, observation, progress, days, newest, faults>>

\* It dies after the last page is saved and before its days are queued.
DiesBeforeDays ==
  /\ starts < MaxStarts /\ NewProcess
  /\ \E t \in imports : \E chat \in {t.seen, remote[t.account]} : \E page \in Pages(t, chat) :
       Valid(t) /\ Complete(t, page) /\ SaveHistoryPage(t, page, chat)
  /\ UNCHANGED <<remote, oldUpTo, observation, days, faults>>

-----------------------------------------------------------------------------

Switch == \E enabled \in BOOLEAN : SetObservation(enabled)

Next ==
  \/ PageArrives \/ AbortedEnds \/ PageFails \/ CompletionFails \/ RetryComesDue
  \/ SignsIn \/ AccountKnown \/ SignsOut \/ Refresh
  \/ Switch \/ Resume
  \/ NewMessage \/ MessageContent \/ Reread \/ DeleteMessages
  \/ Close \/ Closed \/ Restart \/ DiesBeforeDays

Spec == Init /\ [][Next]_vars

\* Telegram answers, timers fire, and the task that refreshes runs every minute.
FairSpec ==
  /\ Spec
  /\ WF_vars(PageArrives) /\ WF_vars(AbortedEnds) /\ WF_vars(RetryComesDue)
  /\ WF_vars(AccountKnown) /\ WF_vars(Refresh) /\ WF_vars(Reread) /\ WF_vars(Closed)

-----------------------------------------------------------------------------
(* Properties *)

\* What the progress of an import says has been loaded is in the archive: of
\* the messages there were when it began, all those at the cursor and above,
\* and all of the thirty days once it is ready.  Pages come while messages are
\* written, deleted and edited, fail half way, and the process dies in between
\* (saveHistoryPage() and the loop of ensure()).
NothingSkipped ==
  \A a \in Accounts : \A m \in Messages :
    (/\ remote[a][m] \in Contents /\ oldUpTo[a] < m /\ m <= newest[a]
     /\ \/ progress[a].status = "ready"
        \/ progress[a].cursor # 0 /\ progress[a].cursor <= m)
      => rows[a][m] # Absent

\* No message appears in the archive of a chat that is not observed, or of an
\* account that is not the one signed in, whatever was asked for before the
\* change (valid() after the await in ensure(), active() in update()).
NothingUnasked ==
  [][\A a \in Accounts : \A m \in Messages :
       (rows[a][m] = Absent /\ rows'[a][m] \in Contents)
         => accountId = a /\ observation[a].enabled /\ phase = "open"]_vars

\* A message known to be deleted never gets its text back from an answer that
\* was already on its way (the deleted flag of saveMessages()).
DeletedIsFinal ==
  [][\A a \in Accounts : \A m \in Messages :
       rows[a][m] = Deleted => rows'[a][m] = Deleted]_vars

\* An import belongs to the run of the account, which is the one signed in, and
\* to the observation there is; what it asks for next is what its progress says.
RunInv ==
  /\ phase = "open" /\ accountId # NoAccount => accountId = signedIn
  /\ \A t \in imports :
       /\ t.account = accountId /\ phase = "open" /\ Valid(t)
       /\ t.id = job.id /\ t.version = job.version /\ t.id \notin ending
       /\ progress[t.account].version = t.version /\ progress[t.account].cursor = t.cursor
       /\ imports = {t}
  /\ \A r \in rereads : rows[r.account][r.message] # Absent

\* The messages of a chat follow each other, and there are at least the first ones.
GaplessUpTo(chat, last) ==
  /\ \A m \in Messages : chat[m] # Absent => \A n \in 1 .. m : chat[n] # Absent
  /\ \A m \in 1 .. last : chat[m] # Absent

\* Telegram forgets no message and undoes no deletion: a chat as an import has
\* seen it has no message and no deletion that is not there now, and it has all
\* the messages that the progress is about.
HistoryInv ==
  /\ \A a \in Accounts : GaplessUpTo(remote[a], newest[a])
  /\ \A t \in imports :
       /\ GaplessUpTo(t.seen, IF t.cursor = 0 THEN 0 ELSE newest[t.account])
       /\ \A m \in Messages :
            /\ t.seen[m] # Absent => remote[t.account][m] # Absent
            /\ t.seen[m] = Deleted => remote[t.account][m] = Deleted

\* The inductive invariant behind the three safety properties.
IInv == TypeOK /\ RunInv /\ HistoryInv /\ NothingSkipped

InSession(a) == phase = "open" /\ accountId = a /\ observation[a].enabled

\* As long as an account stays signed in and its chat observed, the import
\* comes to its end, after failures, restarts and switches (retryAt, refresh(),
\* the cursor that beginHistoryImport() finds), and its days get queued for
\* summaries, even if the process died or the database was busy before it came
\* to that (ensure() of an import that is ready already).
ImportEnds ==
  \A a \in Accounts :
    InSession(a) ~>
      \/ ~InSession(a)
      \/ /\ progress[a].status = "ready" /\ progress[a].version = observation[a].version
         /\ a \in days \/ \A m \in Messages : m > oldUpTo[a] => rows[a][m] \notin Contents
=============================================================================
