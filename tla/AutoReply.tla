------------------------------ MODULE AutoReply ------------------------------
(***************************************************************************)
(* The auto-reply of the Telegram secretary: AutoReplyService              *)
(* (apps/backend/src/domain/auto-reply/service.ts) over the journal of     *)
(* reply intents in SQLite (packages/db/src/auto-reply.ts), against a      *)
(* Telegram that edits, deletes, delays, fails, and delivers.              *)
(*                                                                         *)
(* The service is single-threaded.  Its one worker loop (drain, process)   *)
(* gives way only at an await, and every step between two awaits is one    *)
(* action; update handlers, the clock, the settings and the connection     *)
(* interleave there.  The journal survives a crash, the loop does not.     *)
(*                                                                         *)
(* The row of a message is its intent.  A text is the number of its edit,  *)
(* the daily summary of a chat the number of its rebuild, a temporary_id   *)
(* the number of the attempt it belongs to.                                *)
(***************************************************************************)
EXTENDS Naturals, Sequences, FiniteSets

CONSTANTS
  Messages,     \* incoming messages, numbered in the order they arrive
  Chats,
  Chat,         \* the chat of each message
  Capacity,     \* open intents the queue holds (1000 in the code)
  MaxEdits,     \* bounds on what the environment does: edits of a message,
  MaxFacts,     \* rebuilds of a summary,
  MaxToggles,   \* changes of a chat's setting,
  MaxEpochs,    \* sessions,
  MaxAttempts   \* and transmissions of one reply

ASSUME AutoReplyAssumption ==
  /\ Messages \subseteq Nat \ {0}
  /\ Chat \in [Messages -> Chats]
  /\ Capacity \in Nat /\ MaxToggles \in Nat /\ MaxEpochs \in Nat /\ MaxAttempts \in Nat
  /\ MaxEdits \in Nat \ {0} /\ MaxFacts \in Nat \ {0}

VARIABLES
  row,        \* auto_reply_intents: the intent of each message
  setting,    \* auto_reply_settings of each chat; mode "working" stands for
              \* every state of an enabled chat that lets replies be sent
  expired,    \* has the deadline of the intent passed?
  phase,      \* "up", "closed" once close() has begun, "down"
  account,    \* is the account connected?
  boundary,   \* does the session accept new messages?
  epoch,      \* the session
  proc,       \* the worker loop: where it waits, and its local variables
  text,       \* the text of each message in Telegram, 0 when deleted
  seen,       \* the last text, or deletion, an update has told the service
  facts,      \* the daily summary of each chat
  attempts,   \* what Telegram does with each reply it was handed
  arrived     \* messages that have come in

journal == <<row, setting>>
session == <<phase, account, boundary, epoch>>
telegram == <<text, seen, facts, arrived>>
vars == <<journal, session, expired, proc, telegram, attempts>>

Unsent == {"queued", "generating", "retry"}
HandedOff == {"sending", "pending"}
Open == Unsent \cup HandedOff
Final == {"succeeded", "failed", "skipped", "cancelled"}
States == Open \cup Final \cup {"none", "unknown"}

Nothing == [text |-> 0, facts |-> 0]   \* no body
NoRow == [st |-> "none", version |-> 0, epoch |-> 0, setting |-> 0,
          incoming |-> 0, reply |-> Nothing, temporary |-> 0]
Idle == [pc |-> "idle", msg |-> 0, snap |-> NoRow, incoming |-> 0,
         body |-> Nothing, facts |-> 0, fresh |-> 0, chats |-> {}]

Bodies == [text : 0..MaxEdits, facts : 0..MaxFacts]
Rows == [st : States, version : Nat, epoch : 0..MaxEpochs, setting : 0..MaxToggles,
         incoming : 0..MaxEdits, reply : Bodies, temporary : Nat]
Settings == [enabled : BOOLEAN, version : 0..MaxToggles,
             mode : {"disabled", "waiting", "working", "paused"}]
Transmissions ==
  [st : {"asked", "pending", "delivered", "failed", "refused", "deleted"},
   of : Nat, body : Bodies, heard : {"waiting", "late", "done"}]
Procs == [pc : {"idle", "reading", "composing", "checking", "admitting", "sending",
                "rechecking"},
          msg : Messages \cup {0}, snap : Rows, incoming : 0..MaxEdits, body : Bodies,
          facts : 0..MaxFacts, fresh : 0..MaxEdits, chats : SUBSET Chats]

TypeOK ==
  /\ row \in [Messages -> Rows]
  /\ setting \in [Chats -> Settings]
  /\ expired \in [Messages -> BOOLEAN]
  /\ phase \in {"up", "closed", "down"}
  /\ account \in BOOLEAN /\ boundary \in BOOLEAN
  /\ epoch \in 0..MaxEpochs
  /\ proc \in Procs
  /\ text \in [Messages -> 0..MaxEdits]
  /\ seen \in [Messages -> 0..MaxEdits]
  /\ facts \in [Chats -> 1..MaxFacts]
  /\ attempts \in [Messages -> Seq(Transmissions)]
  /\ arrived \in SUBSET Messages

Init ==
  /\ row = [m \in Messages |-> NoRow]
  /\ setting = [c \in Chats |-> [enabled |-> FALSE, version |-> 0, mode |-> "disabled"]]
  /\ expired = [m \in Messages |-> FALSE]
  /\ phase = "up" /\ account = FALSE /\ boundary = FALSE /\ epoch = 0
  /\ proc = Idle
  /\ text = [m \in Messages |-> 1]
  /\ seen = [m \in Messages |-> 1]
  /\ facts = [c \in Chats |-> 1]
  /\ attempts = [m \in Messages |-> <<>>]
  /\ arrived = {}

-----------------------------------------------------------------------------
Listening == phase = "up" /\ account
Serving == Listening /\ boundary
InChat(c) == {m \in Messages : Chat[m] = c}

Clear(r, state) == [r EXCEPT !.st = state, !.incoming = 0, !.reply = Nothing]

\* cancel() of the journal, for the intents in S.
Cancelled(rows, S) ==
  [m \in Messages |-> IF m \in S /\ rows[m].st \in Unsent
                        THEN Clear(rows[m], "cancelled") ELSE rows[m]]

\* disconnect() and recover() of the journal.
Disconnected(rows) ==
  [m \in Messages |-> IF rows[m].st \in HandedOff THEN Clear(rows[m], "unknown")
                      ELSE Cancelled(rows, Messages)[m]]

\* status() after finish(): an unknown result shows as an error, which also
\* ends a pause.
Noted(chat, state) ==
  IF state = "unknown" THEN [setting EXCEPT ![chat].mode = "working"] ELSE setting

Finish(m, state) ==
  /\ row' = [row EXCEPT ![m] = Clear(@, state)]
  /\ setting' = Noted(Chat[m], state)

Pause(m, state) ==
  /\ row' = Cancelled([row EXCEPT ![m] = Clear(@, state)], InChat(Chat[m]))
  /\ setting' = [setting EXCEPT ![Chat[m]].mode = "paused"]

-----------------------------------------------------------------------------
\* stop(): the work of the session is over, and a new epoch begins.
Stop ==
  /\ epoch < MaxEpochs /\ epoch' = epoch + 1
  /\ row' = IF account THEN Disconnected(row) ELSE row

\* sync() finds the account or its live boundary changed.
Sync ==
  /\ phase = "up" /\ Stop
  /\ account' \in BOOLEAN /\ boundary' \in BOOLEAN
  /\ boundary' => account'
  /\ account \/ account'
  /\ UNCHANGED <<setting, phase, expired, proc, telegram, attempts>>

\* sync() while the user logs out: every chat must be enabled again.  The
\* account is still there until the connection says otherwise.
LoggingOut ==
  /\ Listening
  /\ \A c \in Chats : setting[c].version < MaxToggles
  /\ setting' = [c \in Chats |-> [enabled |-> FALSE, mode |-> "disabled",
                                  version |-> setting[c].version + 1]]
  /\ \/ Stop /\ account' = FALSE /\ boundary' = FALSE
     \/ row' = Cancelled(row, Messages) /\ UNCHANGED <<epoch, account, boundary>>
  /\ UNCHANGED <<phase, expired, proc, telegram, attempts>>

\* configure(): the switch of a chat is flipped.
Configure(c) ==
  /\ Listening
  /\ setting[c].version < MaxToggles
  /\ setting' = [setting EXCEPT ![c] =
                   [enabled |-> ~@.enabled, version |-> @.version + 1,
                    mode |-> IF @.enabled THEN "disabled" ELSE "waiting"]]
  /\ row' = Cancelled(row, InChat(c))
  /\ UNCHANGED <<session, expired, proc, telegram, attempts>>

Close ==
  /\ phase = "up" /\ phase' = "closed"
  /\ Stop
  /\ boundary' = FALSE
  /\ UNCHANGED <<setting, account, expired, proc, telegram, attempts>>

\* The process ends, at any time; only Telegram and the journal remain.
Crash ==
  /\ phase # "down" /\ phase' = "down"
  /\ account' = FALSE /\ boundary' = FALSE
  /\ proc' = Idle
  /\ attempts' = [m \in Messages |->
                    [n \in DOMAIN attempts[m] |-> [attempts[m][n] EXCEPT !.heard = "done"]]]
  /\ UNCHANGED <<journal, epoch, expired, telegram>>

\* The constructor recovers the journal.
Restart ==
  /\ phase = "down" /\ phase' = "up"
  /\ epoch < MaxEpochs /\ epoch' = epoch + 1
  /\ row' = Disconnected(row)
  /\ UNCHANGED <<setting, account, boundary, expired, proc, telegram, attempts>>

-----------------------------------------------------------------------------
\* updateNewMessage: an incoming message; only a live session admits it.
OpenRows == {m \in Messages : row[m].st \in Open}
Admitted(m) ==
  LET new == [NoRow EXCEPT !.version = 1, !.epoch = epoch, !.incoming = text[m],
                           !.setting = setting[Chat[m]].version]
  IN IF Cardinality(OpenRows) >= Capacity THEN Clear(new, "skipped")
     ELSE [new EXCEPT !.st = "queued"]

Receive(m) ==
  /\ arrived = {k \in Messages : k < m}
  /\ arrived' = arrived \cup {m}
  /\ \/ UNCHANGED row    \* a dated or ineligible message, or nobody to see it
     \/ /\ Serving /\ setting[Chat[m]].enabled
        /\ row' = [row EXCEPT ![m] = Admitted(m)]
  /\ UNCHANGED <<setting, session, expired, proc, text, seen, facts, attempts>>

Edit(m) ==
  /\ m \in arrived /\ text[m] \in 1..(MaxEdits - 1)
  /\ text' = [text EXCEPT ![m] = @ + 1]
  /\ UNCHANGED <<journal, session, expired, proc, seen, facts, arrived, attempts>>

Delete(m) ==
  /\ m \in arrived /\ text[m] # 0
  /\ text' = [text EXCEPT ![m] = 0]
  /\ UNCHANGED <<journal, session, expired, proc, seen, facts, arrived, attempts>>

\* A new row for the same intent: new text, no reply, nothing to resend.
Requeued(r, version, new) ==
  [r EXCEPT !.st = "queued", !.version = version, !.incoming = new,
            !.reply = Nothing, !.temporary = 0]

\* updateMessageContent
EditUpdate(m) ==
  /\ Listening /\ text[m] \notin {0, seen[m]}
  /\ seen' = [seen EXCEPT ![m] = text[m]]
  /\ row' = IF row[m].st \in Unsent
              THEN [row EXCEPT ![m] = Requeued(@, @.version + 1, text[m])] ELSE row
  /\ UNCHANGED <<setting, session, expired, proc, text, facts, arrived, attempts>>

\* updateDeleteMessages for the incoming message.
DeleteUpdate(m) ==
  /\ Listening /\ text[m] = 0 /\ seen[m] # 0
  /\ seen' = [seen EXCEPT ![m] = 0]
  /\ IF row[m].st \in Unsent THEN Finish(m, "cancelled") ELSE UNCHANGED journal
  /\ UNCHANGED <<session, expired, proc, text, facts, arrived, attempts>>

\* The daily summary of a chat is rebuilt.
Rebuild(c) ==
  /\ facts[c] < MaxFacts
  /\ facts' = [facts EXCEPT ![c] = @ + 1]
  /\ UNCHANGED <<journal, session, expired, proc, text, seen, arrived, attempts>>

\* The five minutes of an intent are over.
DeadlinePasses(m) ==
  /\ row[m].st \in Open \/ proc.msg = m
  /\ ~expired[m]
  /\ expired' = [expired EXCEPT ![m] = TRUE]
  /\ UNCHANGED <<journal, session, proc, telegram, attempts>>

-----------------------------------------------------------------------------
\* One turn of drain(): expired intents are closed, then the first open
\* intent of some chat is processed if it has not been handed over.
Overdue == {m \in OpenRows : expired[m]}
\* Mutant of Swept: what was handed over is left to Telegram.
SweptUnsent ==
  [m \in Messages |-> IF m \in Overdue /\ row[m].st \in Unsent
                        THEN Clear(row[m], "skipped") ELSE row[m]]
Swept ==
  [m \in Messages |->
     IF m \notin Overdue THEN row[m]
     ELSE Clear(row[m], IF row[m].st \in HandedOff THEN "unknown" ELSE "skipped")]
SweptSetting ==
  [c \in Chats |-> IF \E m \in Overdue \cap InChat(c) : row[m].st \in HandedOff
                     THEN [setting[c] EXCEPT !.mode = "working"] ELSE setting[c]]

\* Mutant of Heads: any open intent may be next.
AnyOpen == {m \in Messages : Swept[m].st \in Open}

Heads ==
  {m \in Messages : /\ Swept[m].st \in Open
                    /\ \A k \in InChat(Chat[m]) : Swept[k].st \in Open => m <= k}
Candidates == {m \in Heads : Swept[m].st \in Unsent}

DrainIdle == proc.pc = "idle" /\ Serving

Begin(m) ==
  LET r == Swept[m]
      s == setting[Chat[m]]
  IN /\ DrainIdle /\ m \in Candidates
     /\ setting' = SweptSetting
     /\ IF r.epoch = epoch /\ s.enabled /\ s.version = r.setting
             /\ SweptSetting[Chat[m]].mode # "paused"
          THEN /\ row' = [Swept EXCEPT ![m].st = "generating"]
               /\ proc' = [Idle EXCEPT !.pc = "reading", !.msg = m, !.snap = r]
          ELSE /\ row' = [Swept EXCEPT ![m] = Clear(r,
                            IF r.epoch = epoch /\ s.enabled /\ s.version = r.setting
                              THEN "skipped" ELSE "cancelled")]
               /\ UNCHANGED proc
     /\ UNCHANGED <<session, expired, telegram, attempts>>

\* A turn that finds nothing to process.
Sweep ==
  /\ DrainIdle /\ Overdue # {}
  /\ row' = Swept /\ setting' = SweptSetting
  /\ UNCHANGED <<session, expired, proc, telegram, attempts>>

\* The end of drain(): whether a paused or new chat is fit to send is checked.
RecheckBegins(c) ==
  /\ DrainIdle
  /\ setting[c].enabled /\ setting[c].mode \in {"paused", "waiting"}
  /\ \A m \in Candidates : attempts[m] # <<>>    \* the others wait for retry_at
  /\ row' = Swept /\ setting' = SweptSetting
  /\ proc' = [Idle EXCEPT !.pc = "rechecking", !.chats = {c}, !.snap.epoch = epoch]
  /\ UNCHANGED <<session, expired, telegram, attempts>>

\* It is: the chat starts afresh, without what came in while it could not send.
RecheckEnds ==
  /\ proc.pc = "rechecking" /\ proc' = Idle
  /\ \/ UNCHANGED journal
     \/ /\ proc.snap.epoch = epoch
        /\ row' = Cancelled(row, {m \in Messages : Chat[m] \in proc.chats})
        /\ setting' = [c \in Chats |-> IF c \in proc.chats
                         THEN [setting[c] EXCEPT !.mode = "working"] ELSE setting[c]]
     \/ /\ proc.snap.epoch = epoch
        /\ setting' = [c \in Chats |-> IF c \in proc.chats
                         THEN [setting[c] EXCEPT !.mode = "paused"] ELSE setting[c]]
        /\ UNCHANGED row
  /\ UNCHANGED <<session, expired, telegram, attempts>>

-----------------------------------------------------------------------------
\* process(row), for the snapshot of the row it was given.
m0 == proc.msg
snap == proc.snap
chat0 == Chat[m0]
Asked == Len(attempts[m0])
Return == proc' = Idle

\* Mutant of Valid: the row's version is not looked at.
ValidOldText ==
  /\ Serving /\ snap.epoch = epoch /\ ~expired[m0]
  /\ row[m0].st \in Unsent
  /\ setting[chat0].enabled /\ setting[chat0].version = snap.setting

\* valid()
Valid ==
  /\ Serving /\ snap.epoch = epoch /\ ~expired[m0]
  /\ row[m0].version = snap.version /\ row[m0].st \in Unsent
  /\ setting[chat0].enabled /\ setting[chat0].version = snap.setting

\* getMessage: an edited message goes back to the queue with its new text.
ReadIncoming ==
  /\ proc.pc = "reading" /\ text[m0] # 0
  /\ IF text[m0] # snap.incoming
       THEN /\ row' = IF Valid
                        THEN [row EXCEPT ![m0] = Requeued(@, snap.version + 1, text[m0])]
                        ELSE row
            /\ Return
       ELSE /\ proc' = [proc EXCEPT !.pc = "composing", !.incoming = text[m0]]
            /\ UNCHANGED row
  /\ UNCHANGED <<setting, session, expired, telegram, attempts>>

\* The reply: the one of the row, or one composed from the text and the daily
\* summary, or a fixed phrase, which uses no summary.
Compose ==
  /\ proc.pc = "composing"
  /\ setting' = [setting EXCEPT ![chat0].mode = "working"]
  /\ \E source \in {0, facts[chat0]} : \E used \in {0, source} :
       proc' = [proc EXCEPT
                  !.pc = "checking", !.facts = source,
                  !.body = IF snap.reply # Nothing THEN snap.reply
                           ELSE [text |-> proc.incoming, facts |-> used]]
  /\ UNCHANGED <<row, session, expired, telegram, attempts>>

\* The source is read again after the generation.
Reread ==
  /\ proc.pc = "checking" /\ text[m0] # 0
  /\ proc' = [proc EXCEPT !.pc = "admitting", !.fresh = text[m0]]
  /\ UNCHANGED <<journal, session, expired, telegram, attempts>>

Dismiss ==
  /\ proc.pc = "admitting"
  /\ IF ~Valid THEN UNCHANGED row
     ELSE IF proc.fresh # proc.incoming
       THEN row' = [row EXCEPT ![m0] = Requeued(@, snap.version + 1, proc.fresh)]
     ELSE /\ proc.facts # 0 /\ facts[chat0] # proc.facts
          /\ row' = [row EXCEPT ![m0].st = "queued", ![m0].reply = Nothing]
  /\ Return
  /\ UNCHANGED <<setting, session, expired, telegram, attempts>>

\* The final admission and the transmission: sendMessage, or resendMessages
\* for the message whose earlier transmission failed.
Send ==
  LET of == snap.temporary
      sent == IF of = 0 THEN proc.body ELSE attempts[m0][of].body
  IN /\ proc.pc = "admitting" /\ Valid
     /\ proc.fresh = proc.incoming
     /\ proc.facts # 0 => facts[chat0] = proc.facts
     /\ Asked < MaxAttempts
     /\ row' = [row EXCEPT ![m0].st = "sending", ![m0].reply = proc.body]
     /\ attempts' = [attempts EXCEPT ![m0] = Append(@,
                       [st |-> "asked", of |-> of, body |-> sent, heard |-> "waiting"])]
     /\ proc' = [proc EXCEPT !.pc = "sending"]
     /\ UNCHANGED <<setting, session, expired, telegram>>

\* A read or a check fails, or the wait for it is aborted.
Fail ==
  /\ proc.pc \in {"reading", "composing", "checking"}
  /\ IF Valid
       THEN Finish(m0, "skipped") \/ Pause(m0, "skipped")
       ELSE IF row[m0].st \in Unsent /\ row[m0].version = snap.version
         THEN Finish(m0, "skipped")
         ELSE UNCHANGED journal
  /\ Return
  /\ UNCHANGED <<session, expired, telegram, attempts>>

-----------------------------------------------------------------------------
\* The transmission is rejected while process() waits for it.
Heard(m, n, how) == [attempts EXCEPT ![m][n].heard = how]
Refused == [attempts EXCEPT ![m0][Asked].heard = "done", ![m0][Asked].st = "refused"]
Waiting == proc.pc = "sending" /\ attempts[m0][Asked].heard = "waiting"
MayRetry(r, m) ==
  /\ epoch = r.epoch /\ ~expired[m]
  /\ setting[Chat[m]].enabled /\ setting[Chat[m]].version = r.setting

\* 429 with a delay the deadline allows.  (Telegram does not say so of a resend
\* of a message that has been deleted.)
FloodRefusal ==
  LET a == attempts[m0][Asked] IN
  /\ Waiting /\ a.st = "asked"
  /\ a.of # 0 => attempts[m0][a.of].st = "failed"
  /\ MayRetry(snap, m0)
  /\ row' = [row EXCEPT ![m0].st = "retry"]
  /\ attempts' = Refused /\ Return
  /\ UNCHANGED <<setting, session, expired, telegram>>

\* Any other error below 500.
Refusal ==
  /\ Waiting /\ attempts[m0][Asked].st = "asked"
  /\ Finish(m0, "failed")
  /\ attempts' = Refused /\ Return
  /\ UNCHANGED <<session, expired, telegram>>

\* 403, which also pauses the chat.
Forbidden ==
  /\ Waiting /\ attempts[m0][Asked].st = "asked"
  /\ Pause(m0, "failed")
  /\ attempts' = Refused /\ Return
  /\ UNCHANGED <<session, expired, telegram>>

\* Mutant of AnswerLost: a lost answer is a reason to try again.
AnswerLostRetried ==
  /\ Waiting
  /\ row' = [row EXCEPT ![m0].st = "retry"]
  /\ attempts' = Heard(m0, Asked, "done") /\ Return
  /\ UNCHANGED <<setting, session, expired, telegram>>

\* The request is lost, or its answer: Telegram may yet act on it.
AnswerLost ==
  /\ Waiting
  /\ Finish(m0, "unknown")
  /\ attempts' = Heard(m0, Asked, "done") /\ Return
  /\ UNCHANGED <<session, expired, telegram>>

\* Mutant of SendAborted: a reply given up is a reply refused.
SendAbortedAsFailed ==
  /\ Waiting /\ (epoch # snap.epoch \/ expired[m0])
  /\ Finish(m0, "failed")
  /\ attempts' = Heard(m0, Asked, "late") /\ Return
  /\ UNCHANGED <<session, expired, telegram>>

\* The session or the deadline ends the wait; the answer may yet come.
SendAborted ==
  /\ Waiting /\ (epoch # snap.epoch \/ expired[m0])
  /\ Finish(m0, "unknown")
  /\ attempts' \in {Heard(m0, Asked, "late"), Heard(m0, Asked, "done")} /\ Return
  /\ UNCHANGED <<session, expired, telegram>>

\* What the journal learns of transmission n, whose sending_state is st: what a
\* pending one makes of the row, and whether a failed one is tried again.
Learn(m, n, st, pending, again) ==
  IF row[m].st \in {"succeeded", "failed"} THEN UNCHANGED journal
  ELSE IF st = "delivered" THEN Finish(m, "succeeded")
  ELSE /\ row' = [row EXCEPT ![m] =
                    [(IF st = "pending" THEN [@ EXCEPT !.st = pending]
                      ELSE IF again THEN [@ EXCEPT !.st = "retry"]
                      ELSE Clear(@, "failed")) EXCEPT !.temporary = n]]
       /\ UNCHANGED setting

\* result(row, message)
Result(r, m, n, st, canRetry) ==
  Learn(m, n, st, IF row[m].st = "unknown" THEN "unknown" ELSE "pending",
        canRetry /\ MayRetry(r, m) /\ row[m].st # "unknown")

\* The answer of sendMessage or resendMessages, in time or late: the message
\* as Telegram then has it.  Updates about its further fate come after it.
Answer(m, n) ==
  LET a == attempts[m][n] IN
  /\ a.st = "pending"
  /\ \/ a.heard = "waiting" /\ Return
     \/ a.heard = "late" /\ UNCHANGED proc
  /\ \E st \in {"pending", "delivered", "failed"}, canRetry \in BOOLEAN :
       /\ attempts' = [attempts EXCEPT ![m][n].heard = "done", ![m][n].st = st]
       /\ IF phase = "up" \/ a.heard = "waiting" THEN Result(row[m], m, n, st, canRetry)
          ELSE UNCHANGED journal
  /\ UNCHANGED <<session, expired, telegram>>

\* Telegram takes the message in; for resendMessages the failed one is
\* deleted, and an update may say so before the answer comes.
Created(m, n) ==
  LET a == attempts[m][n] IN
  /\ a.st = "asked"
  /\ a.of # 0 => attempts[m][a.of].st = "failed"
  /\ attempts' = [attempts EXCEPT ![m] =
       [k \in DOMAIN @ |-> IF k = n THEN [@[k] EXCEPT !.st = "pending"]
                           ELSE IF k = a.of THEN [@[k] EXCEPT !.st = "deleted"] ELSE @[k]]]
  /\ IF ~Listening THEN UNCHANGED journal
     ELSE IF a.of = 0 /\ n = Len(attempts[m])
       THEN row' = [row EXCEPT ![m].temporary = n] /\ UNCHANGED setting
     ELSE \/ UNCHANGED journal
          \/ /\ a.of # 0 /\ row[m].temporary = a.of /\ row[m].st \in HandedOff
             /\ Finish(m, "unknown")
  /\ UNCHANGED <<session, expired, proc, telegram>>

\* updateMessageSendSucceeded and updateMessageSendFailed.
Outcome(m, n, st) ==
  /\ attempts[m][n].st = "pending" /\ attempts[m][n].heard = "done"
  /\ attempts' = [attempts EXCEPT ![m][n].st = st]
  /\ IF Listening /\ row[m].temporary = n
       THEN \E canRetry \in BOOLEAN : Result(row[m], m, n, st, canRetry)
       ELSE UNCHANGED journal
  /\ UNCHANGED <<session, expired, proc, telegram>>

\* The user deletes a reply that is pending or has failed.
DeleteReply(m, n) ==
  /\ attempts[m][n].st \in {"pending", "failed"} /\ attempts[m][n].heard = "done"
  /\ attempts' = [attempts EXCEPT ![m][n].st = "deleted"]
  /\ IF Listening /\ row[m].temporary = n /\ row[m].st \in HandedOff
       THEN Finish(m, "unknown") ELSE UNCHANGED journal
  /\ UNCHANGED <<session, expired, proc, telegram>>

-----------------------------------------------------------------------------
Process == ReadIncoming \/ Compose \/ Reread \/ Dismiss \/ Send \/ Fail
SendFails == FloodRefusal \/ Refusal \/ Forbidden \/ AnswerLost \/ SendAborted
Delivery(m, n) ==
  \/ Answer(m, n) \/ Created(m, n) \/ DeleteReply(m, n)
  \/ \E st \in {"delivered", "failed"} : Outcome(m, n, st)

Next ==
  \/ Sync \/ LoggingOut \/ Close \/ Crash \/ Restart
  \/ \E c \in Chats : Configure(c) \/ Rebuild(c) \/ RecheckBegins(c)
  \/ \E m \in Messages :
       \/ Receive(m) \/ Edit(m) \/ Delete(m) \/ EditUpdate(m) \/ DeleteUpdate(m)
       \/ DeadlinePasses(m) \/ Begin(m)
       \/ \E n \in DOMAIN attempts[m] : Delivery(m, n)
  \/ Sweep \/ RecheckEnds \/ Process \/ SendFails

Spec == Init /\ [][Next]_vars

\* Time passes; the tick starts drain() every second; every wait of process()
\* ends at the deadline at the latest; Telegram answers the check of a chat,
\* for which there is no other limit.
DrainTurn == Sweep \/ \E m \in Messages : Begin(m)
FairSpec ==
  /\ Spec
  /\ \A m \in Messages : WF_vars(DeadlinePasses(m))
  /\ WF_vars(DrainTurn)
  /\ WF_vars(Dismiss \/ Send) /\ WF_vars(Fail) /\ WF_vars(SendAborted)
  /\ WF_vars(RecheckEnds)

-----------------------------------------------------------------------------
Sends(m) == Len(attempts'[m]) > Len(attempts[m])
Latest(m) == attempts'[m][Len(attempts'[m])]

\* Telegram is never handed a reply while an earlier one to the same message
\* may still be, or has been, delivered: at most one reply reaches the chat,
\* whatever is lost, late, retried, aborted or restarted.
Reaching(m) ==
  {n \in DOMAIN attempts[m] : attempts[m][n].st \in {"asked", "pending", "delivered"}}
OneReply == \A m \in Messages : Cardinality(Reaching(m)) <= 1

\* A reply is handed over only in the session that received the message, with
\* the switch on and untouched since, and before the deadline.  It answers the
\* last text an update has shown, none is handed over for a message known to be
\* deleted, and what is handed over first draws on the current daily summary.
ConsentedSend ==
  [][\A m \in Messages : Sends(m) =>
       /\ Serving /\ row[m].epoch = epoch /\ ~expired[m]
       /\ setting[Chat[m]].enabled /\ setting[Chat[m]].version = row[m].setting
       /\ seen[m] # 0 /\ Latest(m).body.text >= seen[m]
       /\ attempts[m] = <<>> => Latest(m).body.facts \in {0, facts[Chat[m]]}]_vars

\* In a chat replies go out in the order in which the messages came.
InChatOrder ==
  [][\A m \in Messages : Sends(m) =>
       \A k \in InChat(Chat[m]) : k < m => row[k].st \notin Open]_vars

\* A reply that the journal counts as succeeded did reach the chat, and one it
\* counts as failed did not and will not.  Whatever ends a session settles what
\* was waiting or under way; only a crash leaves it open, until the restart.
JournalTellsTheTruth ==
  \A m \in Messages :
    /\ row[m].st = "succeeded" =>
         \E n \in DOMAIN attempts[m] : attempts[m][n].st = "delivered"
    /\ row[m].st = "failed" =>
         \A n \in DOMAIN attempts[m] : attempts[m][n].st \in {"failed", "refused", "deleted"}
    /\ row[m].st \in Open => Serving \/ phase = "down"

\* No intent stays open for ever, and so none blocks its chat or the queue: it
\* is answered or given up, unless the process is down.
IntentEnds ==
  \A m \in Messages :
    row[m].st \in Open ~> (row[m].st \notin Open \/ phase = "down")

-----------------------------------------------------------------------------
(* The inductive strengthening of the four above. *)

\* What is sent again was sent before; a transmission that may reach the chat is
\* the only one, and the journal knows of it; an intent is open in a live session
\* only.
DeliveryInv ==
  \A m \in Messages :
    /\ \A n \in DOMAIN attempts[m] : attempts[m][n].of < n
    /\ \A n, k \in Reaching(m) : n = k
    /\ Reaching(m) # {} => row[m].st \in HandedOff \cup {"unknown", "succeeded"}
    /\ row[m].st = "succeeded" =>
         \E n \in DOMAIN attempts[m] : attempts[m][n].st = "delivered"
    /\ row[m].st # "none" \/ attempts[m] # <<>> => m \in arrived
    /\ row[m].st \in Open => Serving \/ phase = "down"

\* What an open intent would send, or has sent, answers the text it names.
BodyInv ==
  \A m \in Messages :
    /\ row[m].st \in Open =>
         /\ row[m].reply # Nothing =>
              row[m].reply.text = row[m].incoming /\ attempts[m] # <<>>
         /\ row[m].temporary # 0 =>
              /\ row[m].temporary \in DOMAIN attempts[m]
              /\ attempts[m][row[m].temporary].body.text = row[m].incoming
         /\ \A n \in Reaching(m) : attempts[m][n].body.text = row[m].incoming
    /\ text[m] # 0 => seen[m] # 0 /\ seen[m] <= text[m]

\* Messages arrive in order, and a process that is down waits for nothing.
ArrivalInv ==
  /\ \A m \in arrived : \A k \in Messages : k < m => k \in arrived
  /\ phase = "down" =>
       /\ proc.pc = "idle"
       /\ \A m \in Messages : \A n \in DOMAIN attempts[m] : attempts[m][n].heard = "done"

Preparing == proc.pc \in {"reading", "composing", "checking", "admitting"}
Unchallenged == row[m0].st \in Unsent /\ row[m0].version = snap.version

\* The intent the loop works on is the first open one of its chat.  As long as
\* its row is still unsent and of the version of the snapshot, the snapshot and
\* the locals tell what the row and the updates tell.
LoopInv ==
  /\ Preparing \/ proc.pc = "sending" =>
       /\ m0 \in arrived /\ snap.epoch <= epoch
       /\ row[m0].epoch = snap.epoch /\ row[m0].setting = snap.setting
       /\ \A k \in InChat(chat0) : k < m0 => row[k].st \notin Open
  /\ Preparing =>
       /\ Reaching(m0) = {}
       /\ row[m0].st \in Unsent => row[m0].version >= snap.version
       /\ Unchallenged => /\ row[m0].incoming = snap.incoming
                          /\ row[m0].reply = snap.reply
                          /\ row[m0].temporary = snap.temporary
       /\ snap.reply # Nothing => snap.reply.text = snap.incoming /\ attempts[m0] # <<>>
  /\ Preparing /\ proc.pc # "reading" =>
       /\ proc.incoming = snap.incoming
       /\ row[m0].st \in Unsent => seen[m0] # 0
  /\ proc.pc \in {"checking", "admitting"} =>
       IF snap.reply # Nothing THEN proc.body = snap.reply
       ELSE proc.body.text = proc.incoming /\ proc.body.facts \in {0, proc.facts}
  /\ proc.pc = "admitting" /\ Unchallenged => seen[m0] <= proc.fresh
  /\ proc.pc = "sending" =>
       /\ attempts[m0] # <<>>
       /\ epoch = snap.epoch => Serving

\* While Telegram may still refuse what it is asked, the row is as it was left.
Refusable ==
  LET a == attempts[m0][Asked] IN
  /\ Waiting /\ a.st = "asked" /\ epoch = snap.epoch /\ ~expired[m0]
  /\ a.of # 0 => attempts[m0][a.of].st = "failed"
AskedInv ==
  Refusable => row[m0].st = "sending" /\ row[m0].temporary = attempts[m0][Asked].of

IInv == TypeOK /\ DeliveryInv /\ BodyInv /\ ArrivalInv /\ LoopInv /\ AskedInv
=============================================================================
