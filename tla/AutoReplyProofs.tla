-------------------------- MODULE AutoReplyProofs --------------------------
(***************************************************************************)
(* Theorems about AutoReply.tla, for any chats, messages and bounds: what  *)
(* the journal and Telegram tell of each other, what a reply needs in      *)
(* order to be handed over, and the order in which replies go out.         *)
(*                                                                         *)
(* Most steps do the same few things to an intent: they leave its row,     *)
(* close it, or put it back in the queue.  The lemmas of the second part   *)
(* say which parts of the invariant follow from that; the step lemmas find *)
(* it in the actions.                                                      *)
(*                                                                         *)
(* At the end theorems about SummaryQueue.tla, which shares the model with *)
(* the replies, for any days, replies and failures.                        *)
(***************************************************************************)
EXTENDS AutoReply, SummaryQueue, SequenceTheorems, FiniteSetTheorems, WellFoundedInduction, TLAPS

-----------------------------------------------------------------------------
(* Operators *)

LEMMA FunctionSeq ==
  ASSUME NEW S, NEW k \in Nat, NEW f \in [1 .. k -> S]
  PROVE  f \in Seq(S) /\ Len(f) = k /\ DOMAIN f = 1 .. k
OBVIOUS

LEMMA NothingType == Nothing \in Bodies /\ NoRow \in Rows /\ Idle \in Procs
BY AutoReplyAssumption DEF Nothing, Bodies, NoRow, Rows, States, Open, Unsent, HandedOff, Final,
                           Idle, Procs

LEMMA ClearFacts ==
  ASSUME NEW r \in Rows, NEW s \in States
  PROVE  /\ Clear(r, s) \in Rows
         /\ Clear(r, s).st = s /\ Clear(r, s).version = r.version
         /\ Clear(r, s).epoch = r.epoch /\ Clear(r, s).setting = r.setting
         /\ Clear(r, s).temporary = r.temporary
<1>1. Nothing \in Bodies /\ 0 \in 0 .. MaxEdits
  BY NothingType, AutoReplyAssumption
<1>2. QED
  BY <1>1 DEF Clear, Rows

LEMMA RequeuedFacts ==
  ASSUME NEW r \in Rows, NEW v \in Nat, NEW t \in 0 .. MaxEdits
  PROVE  LET q == Requeued(r, v, t) IN
         /\ q \in Rows
         /\ q.st = "queued" /\ q.version = v /\ q.incoming = t /\ q.reply = Nothing
         /\ q.temporary = 0 /\ q.epoch = r.epoch /\ q.setting = r.setting
<1>1. Nothing \in Bodies /\ "queued" \in States
  BY NothingType DEF States, Open, Unsent
<1>2. QED
  BY <1>1 DEF Requeued, Rows

LEMMA CancelledFacts ==
  ASSUME NEW rows \in [Messages -> Rows], NEW S
  PROVE  /\ Cancelled(rows, S) \in [Messages -> Rows]
         /\ \A m \in Messages :
              \/ Cancelled(rows, S)[m] = rows[m] /\ ~(m \in S /\ rows[m].st \in Unsent)
              \/ /\ rows[m].st \in Unsent /\ m \in S
                 /\ Cancelled(rows, S)[m] = Clear(rows[m], "cancelled")
<1>1. \A m \in Messages : Clear(rows[m], "cancelled") \in Rows
  BY ClearFacts DEF States, Final
<1>2. QED
  BY <1>1 DEF Cancelled

LEMMA DisconnectedFacts ==
  ASSUME NEW rows \in [Messages -> Rows]
  PROVE  /\ Disconnected(rows) \in [Messages -> Rows]
         /\ \A m \in Messages :
              \/ Disconnected(rows)[m] = rows[m] /\ rows[m].st \notin Open
              \/ rows[m].st \in HandedOff /\ Disconnected(rows)[m] = Clear(rows[m], "unknown")
              \/ rows[m].st \in Unsent /\ Disconnected(rows)[m] = Clear(rows[m], "cancelled")
<1>1. \A m \in Messages : Clear(rows[m], "unknown") \in Rows
  BY ClearFacts DEF States
<1>2. QED
  BY <1>1, CancelledFacts DEF Disconnected, Open

LEMMA SweptFacts ==
  ASSUME TypeOK
  PROVE  /\ Swept \in [Messages -> Rows]
         /\ \A m \in Messages :
              \/ Swept[m] = row[m] /\ ~(row[m].st \in Open /\ expired[m])
              \/ /\ row[m].st \in HandedOff /\ expired[m]
                 /\ Swept[m] = Clear(row[m], "unknown")
              \/ /\ row[m].st \in Unsent /\ expired[m]
                 /\ Swept[m] = Clear(row[m], "skipped")
<1>1. \A m \in Messages :
        Clear(row[m], "unknown") \in Rows /\ Clear(row[m], "skipped") \in Rows
  BY ClearFacts DEF TypeOK, States, Final
<1>2. QED
  BY <1>1 DEF Swept, Overdue, OpenRows, TypeOK, Open, HandedOff, Unsent

\* The transmissions of m with the n-th one changed to a.
LEMMA OneChanged ==
  ASSUME TypeOK, NEW m \in Messages, NEW n \in DOMAIN attempts[m], NEW a \in Transmissions,
         attempts' = [attempts EXCEPT ![m] = [@ EXCEPT ![n] = a]]
  PROVE  /\ attempts' \in [Messages -> Seq(Transmissions)]
         /\ \A k \in Messages : DOMAIN attempts'[k] = DOMAIN attempts[k]
         /\ attempts'[m][n] = a
         /\ \A k \in Messages : \A i \in DOMAIN attempts[k] :
              k # m \/ i # n => attempts'[k][i] = attempts[k][i]
<1> DEFINE s == attempts[m]
           t == [s EXCEPT ![n] = a]
<1>1. s \in Seq(Transmissions) /\ DOMAIN s = 1 .. Len(s) /\ Len(s) \in Nat
  BY LenProperties DEF TypeOK
<1>2. t \in Seq(Transmissions) /\ DOMAIN t = DOMAIN s /\ t[n] = a
      /\ \A i \in DOMAIN s : i # n => t[i] = s[i]
  BY <1>1, ExceptSeq
<1>3. attempts' = [attempts EXCEPT ![m] = t]
  OBVIOUS
<1> HIDE DEF t
<1>4. QED
  BY <1>2, <1>3 DEF TypeOK

-----------------------------------------------------------------------------
(* Type correctness *)

LEMMA ModeType ==
  ASSUME TypeOK, NEW c \in Chats, NEW mode \in {"disabled", "waiting", "working", "paused"}
  PROVE  [setting EXCEPT ![c].mode = mode] \in [Chats -> Settings]
<1>1. setting[c] \in Settings
  BY DEF TypeOK
<1>2. [setting[c] EXCEPT !.mode = mode] \in Settings
  BY <1>1 DEF Settings
<1>3. QED
  BY <1>2 DEF TypeOK

\* finish() and the pause of a chat.
LEMMA FinishType ==
  ASSUME TypeOK, NEW m \in Messages, NEW s \in States
  PROVE  /\ Clear(row[m], s) \in Rows
         /\ Finish(m, s) => /\ row' \in [Messages -> Rows]
                            /\ setting' \in [Chats -> Settings]
         /\ Pause(m, s) => /\ row' \in [Messages -> Rows]
                           /\ setting' \in [Chats -> Settings]
<1>1. Clear(row[m], s) \in Rows /\ Chat[m] \in Chats
  BY ClearFacts, AutoReplyAssumption DEF TypeOK
<1>2. [row EXCEPT ![m] = Clear(@, s)] \in [Messages -> Rows]
  BY <1>1 DEF TypeOK
<1>3. Finish(m, s) => setting' \in [Chats -> Settings]
  <2>1. [setting EXCEPT ![Chat[m]].mode = "working"] \in [Chats -> Settings]
    BY <1>1, ModeType
  <2>2. setting \in [Chats -> Settings]
    BY DEF TypeOK
  <2>3. QED
    BY <2>1, <2>2 DEF Finish, Noted
<1>4. Pause(m, s) => row' \in [Messages -> Rows]
  <2> DEFINE rows == [row EXCEPT ![m] = Clear(@, s)]
  <2>1. rows \in [Messages -> Rows]
    BY <1>2
  <2> HIDE DEF rows
  <2>2. Cancelled(rows, InChat(Chat[m])) \in [Messages -> Rows]
    BY <2>1, CancelledFacts
  <2>3. QED
    BY <2>2 DEF Pause, rows
<1>5. Pause(m, s) => setting' \in [Chats -> Settings]
  BY <1>1, ModeType DEF Pause
<1>6. QED
  BY <1>1, <1>2, <1>3, <1>4, <1>5 DEF Finish

\* Steps of the session and of the settings.
LEMMA SessionType ==
  ASSUME TypeOK, \/ Sync \/ LoggingOut \/ Close \/ Restart
                 \/ \E c \in Chats : Configure(c)
  PROVE  TypeOK'
<1>1. /\ Disconnected(row) \in [Messages -> Rows]
      /\ \A S : Cancelled(row, S) \in [Messages -> Rows]
  BY DisconnectedFacts, CancelledFacts DEF TypeOK
<1>2. epoch < MaxEpochs => epoch + 1 \in 0 .. MaxEpochs
  BY AutoReplyAssumption DEF TypeOK
<1>3. \A c \in Chats : setting[c].version < MaxToggles =>
        setting[c].version + 1 \in 0 .. MaxToggles
  BY AutoReplyAssumption DEF TypeOK, Settings
<1>4. CASE Sync
  BY <1>1, <1>2, <1>4 DEF Sync, Stop, TypeOK, telegram
<1>5. CASE LoggingOut
  BY <1>1, <1>2, <1>3, <1>5 DEF LoggingOut, Stop, TypeOK, telegram, Settings
<1>6. CASE Close
  BY <1>1, <1>2, <1>6 DEF Close, Stop, TypeOK, telegram
<1>7. CASE Restart
  BY <1>1, <1>2, <1>7 DEF Restart, TypeOK, telegram
<1>8. ASSUME NEW c \in Chats, Configure(c) PROVE TypeOK'
  BY <1>1, <1>3, <1>8 DEF Configure, TypeOK, telegram, session, Settings
<1>9. QED
  BY <1>4, <1>5, <1>6, <1>7, <1>8

LEMMA CrashFacts ==
  ASSUME TypeOK, Crash
  PROVE  /\ attempts' \in [Messages -> Seq(Transmissions)]
         /\ \A m \in Messages :
              /\ DOMAIN attempts'[m] = DOMAIN attempts[m]
              /\ \A n \in DOMAIN attempts[m] :
                   attempts'[m][n] = [attempts[m][n] EXCEPT !.heard = "done"]
<1> DEFINE f(m) == [n \in DOMAIN attempts[m] |-> [attempts[m][n] EXCEPT !.heard = "done"]]
<1>1. ASSUME NEW m \in Messages PROVE f(m) \in Seq(Transmissions)
  <2>1. /\ attempts[m] \in Seq(Transmissions) /\ Len(attempts[m]) \in Nat
        /\ DOMAIN attempts[m] = 1 .. Len(attempts[m])
        /\ \A n \in DOMAIN attempts[m] : attempts[m][n] \in Transmissions
    BY LenProperties, ElementOfSeq DEF TypeOK
  <2>2. \A n \in DOMAIN attempts[m] : [attempts[m][n] EXCEPT !.heard = "done"] \in Transmissions
    BY <2>1 DEF Transmissions
  <2>3. f(m) \in [1 .. Len(attempts[m]) -> Transmissions]
    BY <2>1, <2>2
  <2>4. QED
    BY <2>1, <2>3, FunctionSeq
<1>2. attempts' = [m \in Messages |-> f(m)]
  BY DEF Crash
<1>3. QED
  BY <1>1, <1>2

\* Telegram, its updates and the clock.
LEMMA UpdateType ==
  ASSUME TypeOK,
         \/ Crash
         \/ \E c \in Chats : Rebuild(c)
         \/ \E m \in Messages : \/ Receive(m) \/ Edit(m) \/ Delete(m) \/ EditUpdate(m)
                                \/ DeleteUpdate(m) \/ DeadlinePasses(m)
  PROVE  TypeOK'
<1>1. CASE Crash
  BY <1>1, CrashFacts, NothingType DEF Crash, TypeOK, journal, telegram
<1>2. ASSUME NEW c \in Chats, Rebuild(c) PROVE TypeOK'
  BY <1>2, AutoReplyAssumption DEF Rebuild, TypeOK, journal, session
<1>3. ASSUME NEW m \in Messages, Receive(m) PROVE TypeOK'
  <2>1. Admitted(m) \in Rows
    <3> DEFINE new == [NoRow EXCEPT !.version = 1, !.epoch = epoch, !.incoming = text[m],
                                    !.setting = setting[Chat[m]].version]
    <3>1. /\ epoch \in 0 .. MaxEpochs /\ text[m] \in 0 .. MaxEdits
          /\ setting[Chat[m]].version \in 0 .. MaxToggles
      BY AutoReplyAssumption DEF TypeOK, Settings
    <3>2. new \in Rows
      BY <3>1, NothingType DEF NoRow, Rows
    <3>3. [new EXCEPT !.st = "queued"] \in Rows
      BY <3>2 DEF Rows, States, Open, Unsent
    <3>4. Clear(new, "skipped") \in Rows
      BY <3>2, ClearFacts DEF States, Final
    <3>5. QED
      BY <3>3, <3>4 DEF Admitted
  <2>2. row' \in [Messages -> Rows]
    BY <1>3, <2>1 DEF Receive, TypeOK
  <2>3. QED
    BY <1>3, <2>2 DEF Receive, TypeOK, session
<1>4. ASSUME NEW m \in Messages, Edit(m) \/ Delete(m) \/ DeadlinePasses(m) PROVE TypeOK'
  <2>1. text' \in [Messages -> 0 .. MaxEdits]
    BY <1>4, AutoReplyAssumption DEF Edit, Delete, DeadlinePasses, TypeOK, telegram
  <2>2. QED
    BY <1>4, <2>1 DEF Edit, Delete, DeadlinePasses, TypeOK, journal, session, telegram
<1>5. ASSUME NEW m \in Messages, EditUpdate(m) PROVE TypeOK'
  <2>1. row[m] \in Rows /\ text[m] \in 0 .. MaxEdits /\ row[m].version + 1 \in Nat
    BY DEF TypeOK, Rows
  <2>2. Requeued(row[m], row[m].version + 1, text[m]) \in Rows
    BY <2>1, RequeuedFacts
  <2>3. row' \in [Messages -> Rows]
    BY <1>5, <2>2 DEF EditUpdate, TypeOK
  <2>4. QED
    BY <1>5, <2>1, <2>3 DEF EditUpdate, TypeOK, session
<1>6. ASSUME NEW m \in Messages, DeleteUpdate(m) PROVE TypeOK'
  <2>1. "cancelled" \in States /\ 0 \in 0 .. MaxEdits
    BY AutoReplyAssumption DEF States, Final
  <2>2. row' \in [Messages -> Rows] /\ setting' \in [Chats -> Settings]
    <3>1. row \in [Messages -> Rows] /\ setting \in [Chats -> Settings]
      BY DEF TypeOK
    <3>2. QED
      BY <1>6, <2>1, <3>1, FinishType DEF DeleteUpdate, journal
  <2>3. QED
    BY <1>6, <2>1, <2>2 DEF DeleteUpdate, TypeOK, session
<1>7. QED
  BY <1>1, <1>2, <1>3, <1>4, <1>5, <1>6

\* The turns of the loop and the check of a chat.
LEMMA SweptSettingType ==
  ASSUME TypeOK
  PROVE  SweptSetting \in [Chats -> Settings]
<1>1. \A c \in Chats : setting[c] \in Settings
  BY DEF TypeOK
<1>2. \A c \in Chats : [setting[c] EXCEPT !.mode = "working"] \in Settings
  BY <1>1 DEF Settings
<1>3. QED
  BY <1>1, <1>2 DEF SweptSetting

LEMMA DrainType ==
  ASSUME TypeOK, \/ Sweep \/ RecheckEnds \/ \E c \in Chats : RecheckBegins(c)
                 \/ \E m \in Messages : Begin(m)
  PROVE  TypeOK'
<1>1. Swept \in [Messages -> Rows] /\ SweptSetting \in [Chats -> Settings] /\ Idle \in Procs
  BY SweptFacts, SweptSettingType, NothingType
<1>2. CASE Sweep
  BY <1>1, <1>2 DEF Sweep, TypeOK, session, telegram
<1>3. ASSUME NEW c \in Chats, RecheckBegins(c) PROVE TypeOK'
  <2>1. epoch \in 0 .. MaxEpochs
    BY DEF TypeOK
  <2>2. [Idle EXCEPT !.pc = "rechecking", !.chats = {c}, !.snap.epoch = epoch] \in Procs
    BY <1>1, <2>1 DEF Procs, Rows
  <2>3. QED
    BY <1>1, <1>3, <2>2 DEF RecheckBegins, TypeOK, session, telegram
<1>4. ASSUME NEW m \in Messages, Begin(m) PROVE TypeOK'
  <2>1. Swept[m] \in Rows
    BY <1>1
  <2>2. /\ Clear(Swept[m], "skipped") \in Rows /\ Clear(Swept[m], "cancelled") \in Rows
        /\ [Swept[m] EXCEPT !.st = "generating"] \in Rows
    <3>1. /\ Clear(Swept[m], "skipped") \in Rows /\ Clear(Swept[m], "cancelled") \in Rows
      BY <2>1, ClearFacts DEF States, Final
    <3>2. [Swept[m] EXCEPT !.st = "generating"] \in Rows
      BY <2>1 DEF Rows, States, Open, Unsent
    <3>3. QED
      BY <3>1, <3>2
  <2>3. row' \in [Messages -> Rows]
    BY <1>1, <1>4, <2>2 DEF Begin
  <2>4. proc' \in Procs
    <3>1. [Idle EXCEPT !.pc = "reading", !.msg = m, !.snap = Swept[m]] \in Procs
      BY <1>1, <2>1 DEF Procs
    <3>2. QED
      BY <1>4, <3>1 DEF Begin, TypeOK
  <2>5. QED
    BY <1>1, <1>4, <2>3, <2>4 DEF Begin, TypeOK, session, telegram
<1>5. CASE RecheckEnds
  <2>1. \A c \in Chats : /\ [setting[c] EXCEPT !.mode = "working"] \in Settings
                         /\ [setting[c] EXCEPT !.mode = "paused"] \in Settings
    BY DEF TypeOK, Settings
  <2>2. setting' \in [Chats -> Settings]
    BY <1>5, <2>1 DEF RecheckEnds, TypeOK, journal
  <2>3. row' \in [Messages -> Rows]
    <3>1. row \in [Messages -> Rows] /\ \A S : Cancelled(row, S) \in [Messages -> Rows]
      BY CancelledFacts DEF TypeOK
    <3>2. QED
      BY <1>5, <3>1 DEF RecheckEnds, journal
  <2>4. QED
    BY <1>1, <1>5, <2>2, <2>3 DEF RecheckEnds, TypeOK, session, telegram
<1>6. QED
  BY <1>2, <1>3, <1>4, <1>5

-----------------------------------------------------------------------------
(* What a step does to the transmissions and to a row *)

\* Telegram and the process learn more of the transmissions there are.
TransmissionsAge ==
  \A m \in Messages :
    /\ DOMAIN attempts'[m] = DOMAIN attempts[m]
    /\ \A n \in DOMAIN attempts[m] :
         LET a == attempts[m][n]
             b == attempts'[m][n]
         IN /\ b.of = a.of /\ b.body = a.body
            /\ \/ b.st = a.st
               \/ a.st = "asked" /\ b.st \in {"pending", "refused"}
               \/ a.st = "pending" /\ b.st \in {"delivered", "failed", "deleted"}
               \/ a.st = "failed" /\ b.st = "deleted"
            /\ b.heard = "waiting" => a.heard = "waiting"
            /\ a.heard = "done" => b.heard = "done"

LEMMA Unchanging == UNCHANGED attempts => TransmissionsAge
BY DEF TransmissionsAge

LEMMA AgeFacts ==
  ASSUME TypeOK, TypeOK', TransmissionsAge, NEW m \in Messages
  PROVE  /\ Reaching(m)' \subseteq Reaching(m)
         /\ attempts'[m] = <<>> <=> attempts[m] = <<>>
         /\ \A n \in DOMAIN attempts[m] :
              attempts[m][n].st = "delivered" => attempts'[m][n].st = "delivered"
         /\ Len(attempts'[m]) = Len(attempts[m])
<1>1. /\ attempts[m] \in Seq(Transmissions) /\ attempts'[m] \in Seq(Transmissions)
      /\ DOMAIN attempts[m] = 1 .. Len(attempts[m]) /\ Len(attempts[m]) \in Nat
      /\ DOMAIN attempts'[m] = 1 .. Len(attempts'[m]) /\ Len(attempts'[m]) \in Nat
  BY LenProperties DEF TypeOK
<1>2. DOMAIN attempts'[m] = DOMAIN attempts[m]
  BY DEF TransmissionsAge
<1>3. Len(attempts'[m]) = Len(attempts[m])
  BY <1>1, <1>2
<1>4. attempts'[m] = <<>> <=> attempts[m] = <<>>
  BY <1>1, <1>3, EmptySeq
<1>5. Reaching(m)' \subseteq Reaching(m)
  BY <1>2 DEF Reaching, TransmissionsAge
<1>6. QED
  BY <1>3, <1>4, <1>5 DEF TransmissionsAge

Alike(m) ==
  /\ row'[m].version = row[m].version
  /\ row'[m].epoch = row[m].epoch /\ row'[m].setting = row[m].setting

\* The row is closed, for a reason the transmissions bear out.
RowCloses(m) ==
  \E s \in Final \cup {"unknown"} :
    /\ row'[m].st = s /\ Alike(m)
    /\ m \in arrived
    /\ s = "succeeded" => \E n \in DOMAIN attempts'[m] : attempts'[m][n].st = "delivered"
    /\ s \notin {"unknown", "succeeded"} => Reaching(m)' = {}

\* The intent starts again with another text.
RowRestarts(m) ==
  /\ row[m].st \in Unsent
  /\ \E v \in Nat, t \in 0 .. MaxEdits :
       v > row[m].version /\ row'[m] = Requeued(row[m], v, t)

\* The open intent moves on, and returns from Telegram when all has failed.
RowMoves(m) ==
  /\ row[m].st \in Open /\ row'[m].st \in Open /\ Alike(m)
  /\ row'[m].incoming = row[m].incoming
  /\ row'[m].reply \in {row[m].reply, Nothing}
  /\ row'[m].temporary \in {row[m].temporary} \cup Reaching(m)
  /\ row'[m].st \in Unsent => Reaching(m)' = {}
  /\ row'[m].st \in Unsent /\ row[m].st \notin Unsent => Reaching(m) # {}
  /\ Reaching(m) = {} => row'[m].temporary = row[m].temporary
  /\ row'[m].reply # row[m].reply => proc'.pc = "idle"

\* What is learnt of a closed intent.
RowRests(m) == row'[m].st = row[m].st /\ row[m].st \notin Open /\ Alike(m)

RowEffect(m) ==
  row'[m] = row[m] \/ RowCloses(m) \/ RowRestarts(m) \/ RowMoves(m) \/ RowRests(m)

LEMMA RowFacts ==
  ASSUME TypeOK, NEW m \in Messages, RowEffect(m)
  PROVE  /\ row'[m].epoch = row[m].epoch /\ row'[m].setting = row[m].setting
         /\ row[m].st \notin Open => row'[m].st \notin Open
         /\ row'[m].version >= row[m].version
<1>1. row[m] \in Rows /\ row[m].version \in Nat
  BY DEF TypeOK, Rows
<1>2. CASE RowCloses(m)
  <2>1. PICK s \in Final \cup {"unknown"} : row'[m].st = s /\ Alike(m)
    BY <1>2 DEF RowCloses
  <2>2. s \notin Open
    BY DEF Final, Open, Unsent, HandedOff
  <2>3. QED
    BY <1>1, <2>1, <2>2 DEF Alike
<1>3. CASE RowRestarts(m)
  <2>1. PICK v \in Nat, t \in 0 .. MaxEdits :
          v > row[m].version /\ row'[m] = Requeued(row[m], v, t)
    BY <1>3 DEF RowRestarts
  <2>2. row[m].st \in Open
    BY <1>3 DEF RowRestarts, Open
  <2>3. QED
    BY <1>1, <2>1, <2>2, RequeuedFacts
<1>4. CASE RowMoves(m) \/ RowRests(m) \/ row'[m] = row[m]
  BY <1>1, <1>4 DEF RowMoves, RowRests, Alike
<1>5. QED
  BY <1>2, <1>3, <1>4 DEF RowEffect

-----------------------------------------------------------------------------
(* What follows for the parts of the invariant *)

SessionGoesOn ==
  Serving \/ phase = "down" =>
    \A m \in Messages : row'[m].st \in Open => Serving' \/ phase' = "down"

LEMMA DeliveryKept ==
  ASSUME TypeOK, TypeOK', DeliveryInv, TransmissionsAge, arrived' = arrived, SessionGoesOn,
         \A m \in Messages : RowEffect(m)
  PROVE  DeliveryInv'
<1> SUFFICES ASSUME NEW m \in Messages
             PROVE  /\ \A n \in DOMAIN attempts'[m] : attempts'[m][n].of < n
                    /\ \A n, k \in Reaching(m)' : n = k
                    /\ Reaching(m)' # {} => row'[m].st \in HandedOff \cup {"unknown", "succeeded"}
                    /\ row'[m].st = "succeeded" =>
                         \E n \in DOMAIN attempts'[m] : attempts'[m][n].st = "delivered"
                    /\ row'[m].st # "none" \/ attempts'[m] # <<>> => m \in arrived'
                    /\ row'[m].st \in Open => Serving' \/ phase' = "down"
  BY DEF DeliveryInv
<1>1. /\ \A n \in DOMAIN attempts[m] : attempts[m][n].of < n
      /\ \A n, k \in Reaching(m) : n = k
      /\ Reaching(m) # {} => row[m].st \in HandedOff \cup {"unknown", "succeeded"}
      /\ row[m].st = "succeeded" =>
           \E n \in DOMAIN attempts[m] : attempts[m][n].st = "delivered"
      /\ row[m].st # "none" \/ attempts[m] # <<>> => m \in arrived
      /\ row[m].st \in Open => Serving \/ phase = "down"
  BY DEF DeliveryInv
<1>2. /\ Reaching(m)' \subseteq Reaching(m)
      /\ attempts'[m] = <<>> <=> attempts[m] = <<>>
      /\ \A n \in DOMAIN attempts[m] :
           attempts[m][n].st = "delivered" => attempts'[m][n].st = "delivered"
      /\ DOMAIN attempts'[m] = DOMAIN attempts[m]
      /\ \A n \in DOMAIN attempts[m] : attempts'[m][n].of = attempts[m][n].of
  BY AgeFacts DEF TransmissionsAge
<1>3. /\ \A n \in DOMAIN attempts'[m] : attempts'[m][n].of < n
      /\ \A n, k \in Reaching(m)' : n = k
  BY <1>1, <1>2
<1>4. row'[m].st \in Open => Serving' \/ phase' = "down"
  <2>1. row'[m].st \in Open => row[m].st \in Open
    BY RowFacts
  <2>2. QED
    BY <1>1, <2>1 DEF SessionGoesOn
<1>5. row[m] \in Rows
  BY DEF TypeOK
<1>6. CASE RowCloses(m)
  <2>1. PICK s \in Final \cup {"unknown"} :
          /\ row'[m].st = s
          /\ m \in arrived
          /\ s = "succeeded" => \E n \in DOMAIN attempts'[m] : attempts'[m][n].st = "delivered"
          /\ s \notin {"unknown", "succeeded"} => Reaching(m)' = {}
    BY <1>6 DEF RowCloses
  <2>2. QED
    BY <1>3, <1>4, <2>1
<1>7. CASE RowRestarts(m)
  <2>1. row'[m].st = "queued" /\ row[m].st \in Unsent
    BY <1>5, <1>7, RequeuedFacts DEF RowRestarts
  <2>2. Reaching(m) = {} /\ row[m].st # "none"
    BY <1>1, <2>1 DEF Unsent, HandedOff
  <2>3. QED
    BY <1>1, <1>2, <1>3, <1>4, <2>1, <2>2
<1>8. CASE RowMoves(m)
  BY <1>1, <1>2, <1>3, <1>4, <1>8 DEF RowMoves, Open, Unsent, HandedOff
<1>9. CASE row'[m].st = row[m].st
  BY <1>1, <1>2, <1>3, <1>4, <1>9
<1>10. QED
  BY <1>6, <1>7, <1>8, <1>9 DEF RowEffect, RowRests

TextsGoOn == \A m \in Messages : text'[m] # 0 => seen'[m] # 0 /\ seen'[m] <= text'[m]

LEMMA BodyKept ==
  ASSUME TypeOK, TypeOK', DeliveryInv, BodyInv, TransmissionsAge, TextsGoOn,
         \A m \in Messages : RowEffect(m)
  PROVE  BodyInv'
<1> SUFFICES ASSUME NEW m \in Messages, row'[m].st \in Open
             PROVE  /\ row'[m].reply # Nothing =>
                         row'[m].reply.text = row'[m].incoming /\ attempts'[m] # <<>>
                    /\ row'[m].temporary # 0 =>
                         /\ row'[m].temporary \in DOMAIN attempts'[m]
                         /\ attempts'[m][row'[m].temporary].body.text = row'[m].incoming
                    /\ \A n \in Reaching(m)' : attempts'[m][n].body.text = row'[m].incoming
  BY DEF BodyInv, TextsGoOn
<1>1. row[m].st \in Open /\ row[m] \in Rows
  BY RowFacts DEF TypeOK
<1>2. /\ row[m].reply # Nothing => row[m].reply.text = row[m].incoming /\ attempts[m] # <<>>
      /\ row[m].temporary # 0 =>
           /\ row[m].temporary \in DOMAIN attempts[m]
           /\ attempts[m][row[m].temporary].body.text = row[m].incoming
      /\ \A n \in Reaching(m) : attempts[m][n].body.text = row[m].incoming
  BY <1>1 DEF BodyInv
<1>3. /\ Reaching(m)' \subseteq Reaching(m) /\ Reaching(m) \subseteq DOMAIN attempts[m]
      /\ attempts'[m] = <<>> <=> attempts[m] = <<>>
      /\ DOMAIN attempts'[m] = DOMAIN attempts[m]
      /\ \A n \in DOMAIN attempts[m] : attempts'[m][n].body = attempts[m][n].body
  BY AgeFacts DEF TransmissionsAge, Reaching
<1>4. ~RowCloses(m)
  BY DEF RowCloses, Final, Open, Unsent, HandedOff
<1>5. CASE RowRestarts(m)
  <2>1. row'[m].reply = Nothing /\ row'[m].temporary = 0 /\ row[m].st \in Unsent
    BY <1>1, <1>5, RequeuedFacts DEF RowRestarts
  <2>2. Reaching(m) = {}
    BY <2>1 DEF DeliveryInv, Unsent, HandedOff
  <2>3. QED
    BY <1>3, <2>1, <2>2
<1>6. CASE row'[m] = row[m]
  BY <1>2, <1>3, <1>6
<1>7. CASE RowMoves(m)
  <2>1. /\ row'[m].incoming = row[m].incoming
        /\ row'[m].reply \in {row[m].reply, Nothing}
        /\ row'[m].temporary \in {row[m].temporary} \cup Reaching(m)
    BY <1>7 DEF RowMoves
  <2>2. QED
    BY <1>2, <1>3, <2>1
<1>8. QED
  BY <1>1, <1>4, <1>5, <1>6, <1>7 DEF RowEffect, RowRests

\* A loop that waits for nothing knows nothing.
LEMMA LoopIdle ==
  ASSUME proc'.pc \in {"idle", "rechecking"}
  PROVE  LoopInv' /\ AskedInv'
BY DEF LoopInv, Preparing, Unchallenged, AskedInv, Refusable, Waiting

\* The user's updates of a message the loop works on show in its row.
UpdatesShow ==
  \A m \in Messages :
    \/ seen'[m] = seen[m]
    \/ row'[m].st \notin Unsent
    \/ row'[m].version > row[m].version /\ (seen'[m] # 0 \/ seen[m] = 0)

LEMMA LoopKept ==
  ASSUME TypeOK, TypeOK', DeliveryInv, ArrivalInv, LoopInv, TransmissionsAge, UpdatesShow,
         proc' = proc, arrived' = arrived,
         epoch' >= epoch, Serving => Serving' \/ epoch' > epoch,
         \A m \in Messages : RowEffect(m)
  PROVE  LoopInv'
<1> DEFINE m == m0
<1>1. CASE ~(Preparing \/ proc.pc = "sending")
  BY <1>1 DEF LoopInv, Preparing
<1>2. CASE Preparing \/ proc.pc = "sending"
  <2>1. /\ m \in arrived /\ m \in Messages /\ snap.epoch <= epoch /\ snap \in Rows
        /\ row[m].epoch = snap.epoch /\ row[m].setting = snap.setting
        /\ \A k \in InChat(chat0) : k < m => row[k].st \notin Open
    BY <1>2 DEF LoopInv, TypeOK, Procs, snap
  <2>2. m0' = m0 /\ snap' = snap /\ chat0' = chat0 /\ Preparing' = Preparing
    BY DEF m0, snap, chat0, Preparing
  <2>3. /\ row'[m].epoch = snap.epoch /\ row'[m].setting = snap.setting
        /\ \A k \in InChat(chat0) : k < m => row'[k].st \notin Open
    BY <2>1, RowFacts DEF InChat
  <2>4. snap.epoch \in Nat /\ epoch \in Nat /\ epoch' \in Nat /\ snap.version \in Nat
        /\ row[m].version \in Nat /\ row'[m].version \in Nat /\ row[m] \in Rows
    <3>1. row[m] \in Rows /\ row'[m] \in Rows /\ epoch \in Nat /\ epoch' \in Nat
      BY <2>1 DEF TypeOK
    <3>2. QED
      BY <2>1, <3>1 DEF Rows
  <2>5. snap.epoch <= epoch'
    BY <2>1, <2>4
  <2>6. /\ Reaching(m)' \subseteq Reaching(m)
        /\ attempts'[m] = <<>> <=> attempts[m] = <<>>
    <3>1. \A k \in Messages : /\ Reaching(k)' \subseteq Reaching(k)
                              /\ attempts'[k] = <<>> <=> attempts[k] = <<>>
      BY AgeFacts
    <3>2. Reaching(m0)' = {n \in DOMAIN attempts'[m0] :
                             attempts'[m0][n].st \in {"asked", "pending", "delivered"}}
      BY <2>2 DEF Reaching
    <3>3. QED
      BY <2>1, <3>1, <3>2 DEF Reaching
  <2>7. CASE proc.pc = "sending"
    <3>1. attempts'[m] # <<>> /\ (epoch' = snap.epoch => Serving')
      BY <2>1, <2>4, <2>6, <2>7 DEF LoopInv
    <3>2. QED
      BY <2>1, <2>2, <2>3, <2>5, <2>7, <3>1 DEF LoopInv, Preparing
  <2>8. CASE Preparing
    <3>1. /\ Reaching(m) = {}
          /\ row[m].st \in Unsent => row[m].version >= snap.version
          /\ Unchallenged => /\ row[m].incoming = snap.incoming
                             /\ row[m].reply = snap.reply
                             /\ row[m].temporary = snap.temporary
          /\ snap.reply # Nothing => snap.reply.text = snap.incoming /\ attempts[m] # <<>>
      BY <2>8 DEF LoopInv
    <3>2. ASSUME row'[m].st \in Unsent
          PROVE  /\ row[m].st \in Unsent
                 /\ \/ row'[m].version > row[m].version
                    \/ /\ row'[m].version = row[m].version
                       /\ row'[m].incoming = row[m].incoming
                       /\ row'[m].reply = row[m].reply
                       /\ row'[m].temporary = row[m].temporary
      <4>1. ~RowCloses(m)
        BY <3>2 DEF RowCloses, Final, Unsent
      <4>2. ~RowRests(m)
        BY <3>2 DEF RowRests, Open
      <4>3. CASE RowRestarts(m)
        <5>1. row[m].st \in Unsent /\ row'[m].version > row[m].version
          <6>1. row[m].st \in Unsent
            BY <4>3 DEF RowRestarts
          <6>2. PICK v \in Nat, t \in 0 .. MaxEdits :
                  v > row[m].version /\ row'[m] = Requeued(row[m], v, t)
            BY <4>3 DEF RowRestarts
          <6>3. row[m] \in Rows
            BY <2>4
          <6>4. row'[m].version = v
            BY <6>2, <6>3, RequeuedFacts
          <6>5. QED
            BY <6>1, <6>2, <6>4
        <5>2. QED
          BY <5>1
      <4>4. CASE RowMoves(m)
        <5>1. proc'.pc # "idle"
          BY <2>8 DEF Preparing
        <5>2. QED
          BY <3>1, <3>2, <4>4, <5>1 DEF RowMoves, Alike
      <4>5. QED
        BY <2>1, <3>2, <4>1, <4>2, <4>3, <4>4 DEF RowEffect
    <3>3. /\ row'[m].st \in Unsent => row'[m].version >= snap.version
          /\ Unchallenged' => /\ Unchallenged
                              /\ row'[m].version = row[m].version
                              /\ row'[m].incoming = snap.incoming
                              /\ row'[m].reply = snap.reply
                              /\ row'[m].temporary = snap.temporary
      BY <2>2, <2>4, <3>1, <3>2 DEF Unchallenged
    <3>4. row'[m].st \in Unsent => seen'[m] # 0 \/ seen[m] = 0
      BY <2>1 DEF UpdatesShow
    <3>5. Unchallenged' => seen'[m] = seen[m]
      BY <2>1, <2>2, <2>4, <3>3 DEF UpdatesShow, Unchallenged
    <3>6. proc.pc # "reading" =>
            proc.incoming = snap.incoming /\ (row[m].st \in Unsent => seen[m] # 0)
      BY <2>8 DEF LoopInv
    <3>7. proc'.pc # "reading" =>
            proc'.incoming = snap.incoming /\ (row'[m].st \in Unsent => seen'[m] # 0)
      BY <3>2, <3>4, <3>6
    <3>8. proc'.pc = "admitting" /\ Unchallenged' => seen'[m] <= proc'.fresh
      BY <3>3, <3>5 DEF LoopInv
    <3>9. proc'.pc \in {"checking", "admitting"} =>
            IF snap.reply # Nothing THEN proc'.body = snap.reply
            ELSE proc'.body.text = proc'.incoming /\ proc'.body.facts \in {0, proc'.facts}
      BY DEF LoopInv
    <3>10. proc'.pc # "sending"
      BY <2>8 DEF Preparing
    <3>11. QED
      BY <2>1, <2>2, <2>3, <2>5, <2>6, <3>1, <3>3, <3>7, <3>8, <3>9, <3>10 DEF LoopInv
  <2>9. QED
    BY <1>2, <2>7, <2>8
<1>3. QED
  BY <1>1, <1>2

\* A row is not changed under a reply Telegram may still refuse.
Undisturbed ==
  Refusable /\ Refusable' /\ row[m0].st = "sending" => row'[m0] = row[m0]

LEMMA AskedKept ==
  ASSUME TypeOK, TypeOK', DeliveryInv, LoopInv, AskedInv, TransmissionsAge, proc' = proc,
         epoch' >= epoch, \A m \in Messages : expired[m] => expired'[m],
         Undisturbed
  PROVE  AskedInv'
<1> SUFFICES ASSUME Refusable' PROVE row'[m0].st = "sending"
                                     /\ row'[m0].temporary = attempts'[m0][Asked'].of
  BY DEF AskedInv, m0
<1> DEFINE a == attempts[m0][Asked]
           b == attempts'[m0][Asked]
<1>1. m0' = m0 /\ snap' = snap /\ proc.pc = "sending"
  BY DEF m0, snap, Refusable, Waiting
<1>2. /\ m0 \in Messages /\ snap.epoch <= epoch /\ attempts[m0] # <<>>
      /\ snap.epoch \in Nat /\ epoch \in Nat /\ epoch' \in Nat
  BY <1>1 DEF LoopInv, TypeOK, Procs, Rows, snap
<1>3. Asked' = Asked /\ Asked \in DOMAIN attempts[m0]
  <2>1. Len(attempts'[m0]) = Len(attempts[m0])
    BY <1>2, AgeFacts
  <2>2. Len(attempts[m0]) \in DOMAIN attempts[m0]
    BY <1>2, EmptySeq, LenProperties DEF TypeOK
  <2>3. QED
    BY <1>1, <2>1, <2>2 DEF Asked
<1>4. /\ b.st = "asked" /\ b.heard = "waiting" /\ epoch' = snap.epoch /\ ~expired'[m0]
      /\ b.of # 0 => attempts'[m0][b.of].st = "failed"
  BY <1>1, <1>3 DEF Refusable, Waiting
<1>5. /\ a.of = b.of /\ a.st = "asked" /\ a.heard = "waiting"
  BY <1>2, <1>3, <1>4 DEF TransmissionsAge
<1>6. epoch = snap.epoch /\ ~expired[m0]
  BY <1>2, <1>4
<1>7. a.of # 0 => attempts[m0][a.of].st = "failed"
  <2> SUFFICES ASSUME a.of # 0 PROVE attempts[m0][a.of].st = "failed"
    OBVIOUS
  <2>1. a.of < Asked /\ a.of \in Nat /\ Asked \in Nat /\ DOMAIN attempts[m0] = 1 .. Asked
    <3>1. a \in Transmissions
      BY <1>2, <1>3, ElementOfSeq, LenProperties DEF TypeOK
    <3>2. QED
      BY <1>2, <1>3, <3>1, LenProperties DEF DeliveryInv, Transmissions, TypeOK, Asked
  <2>2. a.of \in DOMAIN attempts[m0] /\ a.of # Asked
    BY <2>1
  <2>3. attempts'[m0][a.of].st = "failed"
    BY <1>4, <1>5
  <2>4. attempts[m0][a.of].st \in {"failed", "pending"}
    BY <1>2, <2>2, <2>3 DEF TransmissionsAge
  <2>5. attempts[m0][a.of].st # "pending"
    BY <1>2, <1>3, <1>5, <2>2 DEF DeliveryInv, Reaching
  <2>6. QED
    BY <2>4, <2>5
<1>8. Refusable
  BY <1>1, <1>5, <1>6, <1>7 DEF Refusable, Waiting
<1>9. row[m0].st = "sending" /\ row[m0].temporary = a.of
  BY <1>8 DEF AskedInv
<1>10. QED
  BY <1>1, <1>3, <1>5, <1>8, <1>9 DEF Undisturbed

\* What most steps have in common.
Effects ==
  /\ TransmissionsAge
  /\ \A m \in Messages : RowEffect(m) /\ (expired[m] => expired'[m])
  /\ SessionGoesOn /\ TextsGoOn /\ UpdatesShow
  /\ epoch' >= epoch /\ arrived' = arrived

\* The loop waits on, or is through.
LoopStays ==
  \/ /\ proc'.pc \in {"idle", "rechecking"}
     /\ phase' = "down" => phase = "down" /\ proc' = proc
  \/ /\ proc' = proc /\ Undisturbed /\ (phase' = "down" => phase = "down")
     /\ Serving => Serving' \/ epoch' > epoch

LEMMA EffectsKeep ==
  ASSUME IInv, TypeOK', Effects, phase' = "down" => phase = "down" /\ proc' = proc
  PROVE  DeliveryInv' /\ BodyInv' /\ ArrivalInv'
<1>1. /\ TypeOK /\ DeliveryInv /\ BodyInv /\ ArrivalInv
      /\ TransmissionsAge /\ SessionGoesOn /\ TextsGoOn
      /\ \A m \in Messages : RowEffect(m)
      /\ arrived' = arrived
  BY DEF IInv, Effects
<1>2. DeliveryInv' /\ BodyInv'
  BY <1>1, DeliveryKept, BodyKept
<1>3. ArrivalInv'
  BY <1>1 DEF ArrivalInv, TransmissionsAge
<1>4. QED
  BY <1>2, <1>3

LEMMA EffectsSuffice ==
  ASSUME IInv, TypeOK', Effects, LoopStays
  PROVE  IInv'
<1>1. /\ TypeOK /\ DeliveryInv /\ ArrivalInv /\ LoopInv /\ AskedInv
      /\ TransmissionsAge /\ UpdatesShow
      /\ \A m \in Messages : RowEffect(m)
      /\ \A m \in Messages : expired[m] => expired'[m]
      /\ epoch' >= epoch /\ arrived' = arrived
  BY DEF IInv, Effects
<1>2. DeliveryInv' /\ BodyInv' /\ ArrivalInv'
  BY EffectsKeep DEF LoopStays
<1>3. CASE proc'.pc \in {"idle", "rechecking"}
  BY <1>2, <1>3, LoopIdle DEF IInv
<1>4. CASE proc' = proc /\ Undisturbed /\ (Serving => Serving' \/ epoch' > epoch)
  BY <1>1, <1>2, <1>4, LoopKept, AskedKept DEF IInv
<1>5. QED
  BY <1>3, <1>4 DEF LoopStays

-----------------------------------------------------------------------------
(* The steps *)

\* An open intent that is given up: what was handed over is left unknown.
GivenUp(m) ==
  \/ row[m].st \in HandedOff /\ row'[m] = Clear(row[m], "unknown")
  \/ row[m].st \in Unsent /\ \E s \in {"cancelled", "skipped"} : row'[m] = Clear(row[m], s)

LEMMA GivenUpFacts ==
  ASSUME TypeOK, TypeOK', DeliveryInv, TransmissionsAge, NEW m \in Messages, GivenUp(m)
  PROVE  RowCloses(m) /\ row'[m].st \notin Open
<1>1. row[m] \in Rows /\ row[m].st \in Open
  BY DEF TypeOK, GivenUp, Open
<1>2. m \in arrived
  BY <1>1 DEF DeliveryInv, Open, Unsent, HandedOff
<1>3. Reaching(m)' \subseteq Reaching(m)
  BY AgeFacts
<1>4. row[m].st \in Unsent => Reaching(m)' = {}
  BY <1>3 DEF DeliveryInv, Unsent, HandedOff
<1>5. ASSUME NEW s \in {"unknown", "cancelled", "skipped"}, row'[m] = Clear(row[m], s),
             s = "unknown" \/ row[m].st \in Unsent
      PROVE  RowCloses(m) /\ row'[m].st \notin Open
  <2>1. s \in States /\ s \in Final \cup {"unknown"} /\ s \notin Open /\ s # "succeeded"
    BY DEF States, Final, Open, Unsent, HandedOff
  <2>2. row'[m].st = s /\ Alike(m)
    BY <1>1, <1>5, <2>1, ClearFacts DEF Alike
  <2>3. QED
    BY <1>2, <1>4, <1>5, <2>1, <2>2 DEF RowCloses
<1>6. QED
  BY <1>5 DEF GivenUp

\* A step that gives up some intents and leaves the loop where it waits.
LEMMA GivingUp ==
  ASSUME TypeOK, TypeOK', DeliveryInv, LoopInv, UNCHANGED <<attempts, telegram, proc>>,
         \A m \in Messages : row'[m] = row[m] \/ GivenUp(m),
         \/ epoch' = epoch /\ UNCHANGED expired
            /\ \A m \in Messages : row'[m] = row[m] \/ row[m].st \in Unsent
         \/ epoch' > epoch
  PROVE  /\ TransmissionsAge /\ UpdatesShow /\ Undisturbed
         /\ \A m \in Messages : RowEffect(m)
<1>1. TransmissionsAge
  BY Unchanging
<1>2. UpdatesShow
  BY DEF UpdatesShow, telegram
<1>3. \A m \in Messages : RowEffect(m)
  BY <1>1, GivenUpFacts DEF RowEffect
<1>4. Undisturbed
  <2> SUFFICES ASSUME Refusable, Refusable', row[m0].st = "sending" PROVE row'[m0] = row[m0]
    BY DEF Undisturbed
  <2>1. epoch = snap.epoch /\ epoch' = snap'.epoch /\ snap' = snap
    BY DEF Refusable, snap
  <2>2. epoch \in Nat
    BY DEF TypeOK
  <2>3. m0 \in Messages
    BY DEF TypeOK, LoopInv, Refusable, Waiting
  <2>4. QED
    BY <2>1, <2>2, <2>3 DEF Unsent
<1>5. QED
  BY <1>1, <1>2, <1>3, <1>4

\* The steps of the session and of the settings.
LEMMA SessionStep ==
  ASSUME IInv, \/ Sync \/ LoggingOut \/ Close \/ Restart
               \/ \E c \in Chats : Configure(c)
  PROVE  IInv'
<1>1. /\ TypeOK /\ TypeOK' /\ DeliveryInv /\ BodyInv /\ ArrivalInv /\ LoopInv
      /\ row \in [Messages -> Rows] /\ epoch \in Nat
  <2>1. TypeOK /\ DeliveryInv /\ BodyInv /\ ArrivalInv /\ LoopInv
    BY DEF IInv
  <2>2. QED
    BY <2>1, SessionType DEF TypeOK
<1>2. UNCHANGED <<attempts, telegram, proc, expired>>
  BY DEF Sync, LoggingOut, Close, Restart, Configure
<1>3. TextsGoOn
  BY <1>1, <1>2 DEF TextsGoOn, BodyInv, telegram
<1>4. ASSUME row' = Disconnected(row)
      PROVE  \A m \in Messages : /\ row'[m] = row[m] \/ GivenUp(m)
                                 /\ row'[m].st \notin Open
  <2> SUFFICES ASSUME NEW m \in Messages
               PROVE  (row'[m] = row[m] \/ GivenUp(m)) /\ row'[m].st \notin Open
    OBVIOUS
  <2>1. \/ Disconnected(row)[m] = row[m] /\ row[m].st \notin Open
        \/ row[m].st \in HandedOff /\ Disconnected(row)[m] = Clear(row[m], "unknown")
        \/ row[m].st \in Unsent /\ Disconnected(row)[m] = Clear(row[m], "cancelled")
    BY <1>1, DisconnectedFacts
  <2>2. row[m] \in Rows /\ {"unknown", "cancelled"} \subseteq States
        /\ "unknown" \notin Open /\ "cancelled" \notin Open
    BY <1>1 DEF States, Final, Open, Unsent, HandedOff
  <2>3. QED
    BY <1>4, <2>1, <2>2, ClearFacts DEF GivenUp
<1>5. ASSUME NEW S, row' = Cancelled(row, S)
      PROVE  \A m \in Messages : row'[m] = row[m] \/ (GivenUp(m) /\ row[m].st \in Unsent)
  <2>1. \A m \in Messages :
          \/ Cancelled(row, S)[m] = row[m]
          \/ row[m].st \in Unsent /\ Cancelled(row, S)[m] = Clear(row[m], "cancelled")
    BY <1>1, CancelledFacts
  <2>2. QED
    BY <1>5, <2>1 DEF GivenUp
<1>6. ASSUME \A m \in Messages : row[m].st \notin Open
      PROVE  \A m \in Messages : Disconnected(row)[m] = row[m]
  BY <1>1, <1>6, DisconnectedFacts DEF Open
<1>7. ASSUME phase = "up", Stop
      PROVE  /\ \A m \in Messages : row'[m] = row[m] \/ GivenUp(m)
             /\ \A m \in Messages : row'[m].st \notin Open
             /\ epoch' > epoch
  <2>1. CASE account
    BY <1>1, <1>4, <1>7, <2>1 DEF Stop
  <2>2. CASE ~account
    <3>1. \A m \in Messages : row[m].st \notin Open
      BY <1>1, <1>7, <2>2 DEF DeliveryInv, Serving, Listening
    <3>2. QED
      BY <1>1, <1>7, <2>2, <3>1 DEF Stop
  <2>3. QED
    BY <2>1, <2>2
\* A new epoch: nothing is open any more.
<1>8. ASSUME \A m \in Messages : row'[m] = row[m] \/ GivenUp(m),
             \A m \in Messages : row'[m].st \notin Open,
             epoch' > epoch, phase' # "down"
      PROVE  IInv'
  <2>1. /\ TransmissionsAge /\ UpdatesShow /\ Undisturbed
        /\ \A m \in Messages : RowEffect(m)
    BY <1>1, <1>2, <1>8, GivingUp
  <2>2. epoch' >= epoch /\ arrived' = arrived /\ \A m \in Messages : expired[m] => expired'[m]
    BY <1>1, <1>2, <1>8 DEF telegram, TypeOK
  <2>3. SessionGoesOn
    BY <1>8 DEF SessionGoesOn
  <2>4. LoopStays
    BY <1>2, <1>8, <2>1 DEF LoopStays
  <2>5. Effects
    BY <1>3, <2>1, <2>2, <2>3 DEF Effects
  <2>6. QED
    BY <1>1, <2>4, <2>5, EffectsSuffice
\* The same session: unsent intents are cancelled.
<1>9. ASSUME NEW S, row' = Cancelled(row, S), UNCHANGED session, phase # "down"
      PROVE  IInv'
  <2>1. \A m \in Messages : /\ row'[m] = row[m] \/ GivenUp(m)
                            /\ row'[m] = row[m] \/ row[m].st \in Unsent
    BY <1>5, <1>9
  <2>2. /\ TransmissionsAge /\ UpdatesShow /\ Undisturbed
        /\ \A m \in Messages : RowEffect(m)
    <3>1. epoch' = epoch /\ UNCHANGED expired
      BY <1>2, <1>9 DEF session
    <3>2. QED
      BY <1>1, <1>2, <2>1, <3>1, GivingUp
  <2>3. Serving' = Serving /\ epoch' >= epoch /\ phase' = phase /\ arrived' = arrived
        /\ \A m \in Messages : expired[m] => expired'[m]
    BY <1>1, <1>2, <1>9 DEF session, Serving, Listening, telegram
  <2>4. SessionGoesOn
    <3>1. \A m \in Messages : row'[m].st \in Open => row[m].st \in Open
      BY <1>1, <2>2, RowFacts
    <3>2. QED
      BY <2>3, <3>1 DEF SessionGoesOn
  <2>5. LoopStays
    BY <1>2, <1>9, <2>2, <2>3 DEF LoopStays
  <2>6. Effects
    BY <1>3, <2>2, <2>3, <2>4 DEF Effects
  <2>7. QED
    BY <1>1, <2>5, <2>6, EffectsSuffice
<1>10. CASE Sync
  <2>1. phase = "up" /\ phase' = "up" /\ Stop
    BY <1>10 DEF Sync
  <2>2. QED
    BY <1>7, <1>8, <2>1
<1>11. CASE LoggingOut
  <2>1. phase = "up" /\ phase' = "up"
    BY <1>11 DEF LoggingOut, Listening
  <2>2. CASE Stop
    BY <1>7, <1>8, <2>1, <2>2
  <2>3. CASE row' = Cancelled(row, Messages) /\ UNCHANGED session
    BY <1>9, <2>1, <2>3
  <2>4. QED
    BY <1>11, <2>1, <2>2, <2>3 DEF LoggingOut, session
<1>12. CASE Close
  <2>1. phase = "up" /\ phase' = "closed" /\ Stop
    BY <1>12 DEF Close
  <2>2. QED
    BY <1>7, <1>8, <2>1
<1>13. CASE Restart
  <2>1. phase' = "up" /\ epoch' > epoch /\ row' = Disconnected(row)
    BY <1>1, <1>13 DEF Restart
  <2>2. QED
    BY <1>4, <1>8, <2>1
<1>14. ASSUME NEW c \in Chats, Configure(c) PROVE IInv'
  <2>1. row' = Cancelled(row, InChat(c)) /\ UNCHANGED session /\ phase # "down"
    BY <1>14 DEF Configure, Listening
  <2>2. QED
    BY <1>9, <2>1
<1>15. QED
  BY <1>10, <1>11, <1>12, <1>13, <1>14

\* Telegram's users, the clock, and the updates about incoming messages.
LEMMA UpdateStep ==
  ASSUME IInv,
         \/ \E c \in Chats : Rebuild(c)
         \/ \E m \in Messages :
              Edit(m) \/ Delete(m) \/ EditUpdate(m) \/ DeleteUpdate(m) \/ DeadlinePasses(m)
  PROVE  IInv'
<1>1. /\ TypeOK /\ TypeOK' /\ DeliveryInv /\ BodyInv /\ LoopInv
      /\ row \in [Messages -> Rows] /\ epoch \in Nat
      /\ text \in [Messages -> 0 .. MaxEdits] /\ seen \in [Messages -> 0 .. MaxEdits]
  <2>1. TypeOK /\ DeliveryInv /\ BodyInv /\ LoopInv
    BY DEF IInv
  <2>2. TypeOK'
    BY <2>1, UpdateType
  <2>3. QED
    BY <2>1, <2>2 DEF TypeOK
<1>2. /\ UNCHANGED <<attempts, proc, session, arrived>> /\ Serving' = Serving
      /\ epoch' >= epoch /\ phase' = phase
  <2>1. UNCHANGED <<attempts, proc, session, arrived>>
    <3>1. ASSUME NEW c \in Chats, Rebuild(c) PROVE UNCHANGED <<attempts, proc, session, arrived>>
      BY <3>1 DEF Rebuild, session, telegram, journal
    <3>2. ASSUME NEW m \in Messages, Edit(m) \/ Delete(m) \/ DeadlinePasses(m)
          PROVE  UNCHANGED <<attempts, proc, session, arrived>>
      BY <3>2 DEF Edit, Delete, DeadlinePasses, session, telegram, journal
    <3>3. ASSUME NEW m \in Messages, EditUpdate(m)
          PROVE  UNCHANGED <<attempts, proc, session, arrived>>
      BY <3>3 DEF EditUpdate
    <3>4. ASSUME NEW m \in Messages, DeleteUpdate(m)
          PROVE  UNCHANGED <<attempts, proc, session, arrived>>
      BY <3>4 DEF DeleteUpdate
    <3>5. QED
      BY <3>1, <3>2, <3>3, <3>4
  <2>2. QED
    BY <1>1, <2>1 DEF session, Serving, Listening
<1>3. TransmissionsAge
  BY <1>2, Unchanging
<1>4. \A m \in Messages : expired[m] => expired'[m]
  <2>1. CASE \E m \in Messages : DeadlinePasses(m)
    <3>1. PICK m \in Messages : expired' = [expired EXCEPT ![m] = TRUE]
      BY <2>1 DEF DeadlinePasses
    <3>2. QED
      BY <1>1, <3>1 DEF TypeOK
  <2>2. CASE \E m \in Messages : Edit(m) \/ Delete(m)
    BY <2>2 DEF Edit, Delete, telegram
  <2>3. CASE \E m \in Messages : EditUpdate(m) \/ DeleteUpdate(m)
    BY <2>3 DEF EditUpdate, DeleteUpdate
  <2>4. CASE \E c \in Chats : Rebuild(c)
    BY <2>4 DEF Rebuild
  <2>5. QED
    BY <2>1, <2>2, <2>3, <2>4
<1>5. TextsGoOn
  <2> SUFFICES ASSUME NEW k \in Messages, text'[k] # 0
               PROVE  seen'[k] # 0 /\ seen'[k] <= text'[k]
    BY DEF TextsGoOn
  <2>1. /\ text[k] # 0 => seen[k] # 0 /\ seen[k] <= text[k]
        /\ text[k] \in Nat /\ seen[k] \in Nat
    BY <1>1 DEF BodyInv
  <2>2. CASE UNCHANGED <<text, seen>>
    BY <2>1, <2>2
  <2>3. ASSUME NEW m \in Messages, Edit(m) \/ Delete(m)
        PROVE  seen'[k] # 0 /\ seen'[k] <= text'[k]
    BY <1>1, <2>1, <2>3 DEF Edit, Delete
  <2>4. ASSUME NEW m \in Messages, EditUpdate(m) \/ DeleteUpdate(m)
        PROVE  seen'[k] # 0 /\ seen'[k] <= text'[k]
    BY <1>1, <2>1, <2>4 DEF EditUpdate, DeleteUpdate
  <2>5. QED
    BY <2>2, <2>3, <2>4 DEF Rebuild, DeadlinePasses, telegram
\* Only unsent rows change: they start again or are given up.
<1>6. \A k \in Messages :
        /\ row'[k] = row[k] \/ (row[k].st \in Unsent /\ RowEffect(k))
        /\ \/ seen'[k] = seen[k]
           \/ row'[k].st \notin Unsent
           \/ row'[k].version > row[k].version /\ (seen'[k] # 0 \/ seen[k] = 0)
  <2> SUFFICES ASSUME NEW k \in Messages
               PROVE  /\ row'[k] = row[k] \/ (row[k].st \in Unsent /\ RowEffect(k))
                      /\ \/ seen'[k] = seen[k]
                         \/ row'[k].st \notin Unsent
                         \/ /\ row'[k].version > row[k].version
                            /\ seen'[k] # 0 \/ seen[k] = 0
    OBVIOUS
  <2>1. ASSUME NEW m \in Messages, EditUpdate(m)
        PROVE  /\ row'[k] = row[k] \/ (row[k].st \in Unsent /\ RowEffect(k))
               /\ \/ seen'[k] = seen[k]
                  \/ row'[k].st \notin Unsent
                  \/ /\ row'[k].version > row[k].version
                     /\ seen'[k] # 0 \/ seen[k] = 0
    <3>1. /\ row[m].st \in Unsent =>
               row' = [row EXCEPT ![m] = Requeued(row[m], row[m].version + 1, text[m])]
          /\ row[m].st \notin Unsent => row' = row
          /\ seen' = [seen EXCEPT ![m] = text[m]]
          /\ text[m] # 0
      BY <2>1 DEF EditUpdate
    <3>2. CASE k = m /\ row[m].st \in Unsent
      <4>1. row[m] \in Rows /\ row[m].version \in Nat /\ text[m] \in 0 .. MaxEdits
        BY <1>1 DEF Rows
      <4>2. row'[m] = Requeued(row[m], row[m].version + 1, text[m])
        BY <1>1, <3>1, <3>2
      <4>3. RowRestarts(m)
        <5>1. row[m].version + 1 \in Nat /\ row[m].version + 1 > row[m].version
          BY <4>1
        <5>2. QED
          BY <3>2, <4>1, <4>2, <5>1 DEF RowRestarts
      <4>4. row'[m].version = row[m].version + 1
        BY <4>1, <4>2, RequeuedFacts
      <4>5. QED
        BY <1>1, <3>1, <3>2, <4>1, <4>3, <4>4 DEF RowEffect
    <3>3. CASE ~(k = m /\ row[m].st \in Unsent)
      <4>1. row'[k] = row[k]
        BY <1>1, <3>1, <3>3
      <4>2. seen'[k] = seen[k] \/ row'[k].st \notin Unsent
        BY <1>1, <3>1, <3>3, <4>1
      <4>3. QED
        BY <4>1, <4>2
    <3>4. QED
      BY <3>2, <3>3
  <2>2. ASSUME NEW m \in Messages, DeleteUpdate(m)
        PROVE  /\ row'[k] = row[k] \/ (row[k].st \in Unsent /\ RowEffect(k))
               /\ \/ seen'[k] = seen[k]
                  \/ row'[k].st \notin Unsent
                  \/ /\ row'[k].version > row[k].version
                     /\ seen'[k] # 0 \/ seen[k] = 0
    <3>1. /\ seen' = [seen EXCEPT ![m] = 0]
          /\ row[m].st \in Unsent => row' = [row EXCEPT ![m] = Clear(@, "cancelled")]
          /\ row[m].st \notin Unsent => row' = row
      BY <2>2 DEF DeleteUpdate, Finish, journal
    <3>2. CASE k = m /\ row[m].st \in Unsent
      <4>1. GivenUp(k)
        BY <1>1, <3>1, <3>2 DEF GivenUp
      <4>2. RowCloses(k) /\ row'[k].st \notin Open
        BY <1>1, <1>3, <4>1, GivenUpFacts
      <4>3. QED
        BY <3>2, <4>2 DEF RowEffect, Open
    <3>3. CASE ~(k = m /\ row[m].st \in Unsent)
      <4>1. row'[k] = row[k]
        BY <1>1, <3>1, <3>3
      <4>2. seen'[k] = seen[k] \/ row'[k].st \notin Unsent
        BY <1>1, <3>1, <3>3, <4>1
      <4>3. QED
        BY <4>1, <4>2
    <3>4. QED
      BY <3>2, <3>3
  <2>3. CASE UNCHANGED <<row, seen>>
    BY <2>3
  <2>4. QED
    BY <2>1, <2>2, <2>3 DEF Rebuild, Edit, Delete, DeadlinePasses, journal, telegram
<1>7. UpdatesShow
  BY <1>6 DEF UpdatesShow
<1>8. \A m \in Messages : RowEffect(m)
  BY <1>6 DEF RowEffect
<1>9. SessionGoesOn
  <2>1. \A m \in Messages : row'[m].st \in Open => row[m].st \in Open
    BY <1>1, <1>8, RowFacts
  <2>2. QED
    BY <1>2, <2>1 DEF SessionGoesOn
<1>10. Undisturbed
  <2> SUFFICES ASSUME Refusable, row[m0].st = "sending" PROVE row'[m0] = row[m0]
    BY DEF Undisturbed
  <2>1. m0 \in Messages
    BY <1>1 DEF TypeOK, LoopInv, Refusable, Waiting
  <2>2. QED
    BY <1>6, <2>1 DEF Unsent
<1>11. LoopStays
  BY <1>2, <1>10 DEF LoopStays
<1>12. Effects
  BY <1>2, <1>3, <1>4, <1>5, <1>7, <1>8, <1>9 DEF Effects
<1>13. QED
  BY <1>1, <1>11, <1>12, EffectsSuffice

\* A crash forgets what was waited for, and changes nothing in Telegram.
LEMMA CrashAges ==
  ASSUME TypeOK, Crash
  PROVE  TransmissionsAge /\ \A m \in Messages : \A n \in DOMAIN attempts'[m] :
                               attempts'[m][n].heard = "done"
<1> SUFFICES ASSUME NEW m \in Messages
             PROVE  /\ DOMAIN attempts'[m] = DOMAIN attempts[m]
                    /\ \A n \in DOMAIN attempts[m] :
                         /\ attempts'[m][n].of = attempts[m][n].of
                         /\ attempts'[m][n].body = attempts[m][n].body
                         /\ attempts'[m][n].st = attempts[m][n].st
                         /\ attempts'[m][n].heard = "done"
  BY DEF TransmissionsAge
<1>1. /\ DOMAIN attempts'[m] = DOMAIN attempts[m]
      /\ \A n \in DOMAIN attempts[m] :
           attempts'[m][n] = [attempts[m][n] EXCEPT !.heard = "done"]
  BY CrashFacts
<1>2. \A n \in DOMAIN attempts[m] : attempts[m][n] \in Transmissions
  BY ElementOfSeq, LenProperties DEF TypeOK
<1>3. QED
  BY <1>1, <1>2 DEF Transmissions

LEMMA CrashStep ==
  ASSUME IInv, Crash
  PROVE  IInv'
<1>1. /\ TypeOK /\ TypeOK' /\ DeliveryInv /\ BodyInv /\ ArrivalInv /\ epoch \in Nat
  <2>1. TypeOK /\ DeliveryInv /\ BodyInv /\ ArrivalInv
    BY DEF IInv
  <2>2. QED
    BY <2>1, UpdateType DEF TypeOK
<1>2. /\ UNCHANGED <<row, epoch, expired, text, seen, arrived>> /\ phase' = "down"
      /\ proc' = Idle
  BY DEF Crash, journal, telegram
<1>3. TransmissionsAge /\ \A m \in Messages : \A n \in DOMAIN attempts'[m] :
                            attempts'[m][n].heard = "done"
  BY <1>1, CrashAges
<1>4. /\ \A m \in Messages : RowEffect(m)
      /\ SessionGoesOn /\ TextsGoOn
  BY <1>1, <1>2 DEF RowEffect, SessionGoesOn, TextsGoOn, BodyInv
<1>5. DeliveryInv' /\ BodyInv'
  BY <1>1, <1>2, <1>3, <1>4, DeliveryKept, BodyKept
<1>6. proc'.pc = "idle"
  BY <1>2 DEF Idle
<1>7. ArrivalInv'
  BY <1>1, <1>2, <1>3, <1>6 DEF ArrivalInv
<1>8. LoopInv' /\ AskedInv'
  BY <1>6, LoopIdle
<1>9. QED
  BY <1>1, <1>5, <1>7, <1>8 DEF IInv

\* A new message: its intent is the first its row has held.
LEMMA ReceiveStep ==
  ASSUME IInv, NEW m \in Messages, Receive(m)
  PROVE  IInv'
<1>1. /\ TypeOK /\ TypeOK' /\ DeliveryInv /\ BodyInv /\ ArrivalInv /\ LoopInv /\ AskedInv
      /\ row \in [Messages -> Rows] /\ Messages \subseteq Nat /\ arrived \subseteq Messages
  <2>1. TypeOK /\ DeliveryInv /\ BodyInv /\ ArrivalInv /\ LoopInv /\ AskedInv
    BY DEF IInv
  <2>2. QED
    BY <2>1, UpdateType, AutoReplyAssumption DEF TypeOK
<1>2. /\ UNCHANGED <<setting, session, expired, proc, text, seen, facts, attempts>>
      /\ UNCHANGED <<phase, account, boundary, epoch>>
      /\ arrived = {k \in Messages : k < m} /\ arrived' = arrived \cup {m} /\ m \notin arrived
      /\ Serving' = Serving
  BY <1>1 DEF Receive, session, Serving, Listening
<1>3. /\ row[m].st = "none" /\ attempts[m] = <<>> /\ Reaching(m) = {}
      /\ \A k \in Messages : k # m => row'[k] = row[k]
  <2>1. row[m].st = "none" /\ attempts[m] = <<>>
    BY <1>1, <1>2 DEF DeliveryInv
  <2>2. QED
    BY <1>1, <2>1 DEF Receive, Reaching
<1>4. \/ row'[m] = row[m]
      \/ /\ Serving /\ row'[m].st \in {"queued", "skipped"}
         /\ row'[m].reply = Nothing /\ row'[m].temporary = 0
  <2> SUFFICES ASSUME ~UNCHANGED row
               PROVE  /\ Serving /\ row'[m].st \in {"queued", "skipped"}
                      /\ row'[m].reply = Nothing /\ row'[m].temporary = 0
    OBVIOUS
  <2>1. Serving /\ row'[m] = Admitted(m)
    BY <1>1 DEF Receive
  <2> DEFINE new == [NoRow EXCEPT !.version = 1, !.epoch = epoch, !.incoming = text[m],
                                  !.setting = setting[Chat[m]].version]
  <2>2. row'[m] = Clear(new, "skipped") \/ row'[m] = [new EXCEPT !.st = "queued"]
    BY <2>1 DEF Admitted
  <2>3. QED
    BY <2>1, <2>2 DEF Clear, NoRow
<1>5. /\ \A k \in Messages : Reaching(k)' = Reaching(k)
      /\ \A k \in Messages : row'[k] = row[k] \/ k = m
  BY <1>2, <1>3 DEF Reaching
<1>6. DeliveryInv'
  <2> SUFFICES ASSUME NEW k \in Messages
               PROVE  /\ \A n \in DOMAIN attempts[k] : attempts[k][n].of < n
                      /\ \A n, i \in Reaching(k) : n = i
                      /\ Reaching(k) # {} =>
                           row'[k].st \in HandedOff \cup {"unknown", "succeeded"}
                      /\ row'[k].st = "succeeded" =>
                           \E n \in DOMAIN attempts[k] : attempts[k][n].st = "delivered"
                      /\ row'[k].st # "none" \/ attempts[k] # <<>> => k \in arrived'
                      /\ row'[k].st \in Open => Serving \/ phase = "down"
    BY <1>2, <1>5 DEF DeliveryInv
  <2>1. CASE k # m
    BY <1>1, <1>2, <1>3, <2>1 DEF DeliveryInv
  <2>2. CASE k = m
    BY <1>1, <1>2, <1>3, <1>4, <2>2 DEF DeliveryInv
  <2>3. QED
    BY <2>1, <2>2
<1>7. BodyInv'
  <2>1. /\ row'[m].st \in Open => row'[m].reply = Nothing /\ row'[m].temporary = 0
    BY <1>3, <1>4 DEF Open, Unsent, HandedOff
  <2>2. QED
    BY <1>1, <1>2, <1>3, <1>5, <2>1 DEF BodyInv
<1>8. ArrivalInv'
  BY <1>1, <1>2 DEF ArrivalInv
<1>9. Preparing \/ proc.pc = "sending" =>
        /\ m0 \in arrived /\ row'[m0] = row[m0]
        /\ \A k \in InChat(chat0) : k < m0 => row'[k] = row[k]
  <2> SUFFICES ASSUME Preparing \/ proc.pc = "sending"
               PROVE  /\ m0 \in arrived /\ row'[m0] = row[m0]
                      /\ \A k \in InChat(chat0) : k < m0 => row'[k] = row[k]
    OBVIOUS
  <2>1. m0 \in arrived
    BY <1>1 DEF LoopInv
  <2>2. \A k \in Messages : k < m0 => k \in arrived
    BY <1>1, <2>1 DEF ArrivalInv
  <2>3. QED
    BY <1>1, <1>2, <1>3, <2>1, <2>2 DEF InChat
<1>10. /\ m0' = m0 /\ snap' = snap /\ chat0' = chat0 /\ Preparing' = Preparing
       /\ Asked' = Asked
  BY <1>2 DEF m0, snap, chat0, Preparing, Asked
<1>11. LoopInv'
  <2>1. m0 \in arrived => Reaching(m0)' = Reaching(m0)
    BY <1>2 DEF Reaching, m0
  <2>2. QED
    BY <1>1, <1>2, <1>9, <1>10, <2>1 DEF LoopInv, Preparing, Unchallenged
<1>12. AskedInv'
  <2>1. Refusable' = Refusable
    BY <1>2, <1>10 DEF Refusable, Waiting
  <2>2. Refusable => row'[m0] = row[m0]
    BY <1>9 DEF Refusable, Waiting
  <2>3. QED
    BY <1>1, <1>2, <1>10, <2>1, <2>2 DEF AskedInv
<1>13. QED
  BY <1>1, <1>6, <1>7, <1>8, <1>11, <1>12 DEF IInv

\* Within a session, an intent that is open was open.
LEMMA SameSession ==
  ASSUME TypeOK, UNCHANGED session, \A m \in Messages : RowEffect(m)
  PROVE  SessionGoesOn /\ Serving' = Serving /\ epoch' = epoch /\ phase' = phase
<1>1. Serving' = Serving /\ epoch' = epoch /\ phase' = phase
  BY DEF session, Serving, Listening
<1>2. \A m \in Messages : row'[m].st \in Open => row[m].st \in Open
  BY RowFacts
<1>3. QED
  BY <1>1, <1>2 DEF SessionGoesOn

\* Steps of the loop, which the rows they leave and the transmissions tell of.
LEMMA LoopEffects ==
  ASSUME IInv, TypeOK', UNCHANGED <<session, expired, telegram>>, TransmissionsAge,
         \A m \in Messages : RowEffect(m)
  PROVE  Effects /\ epoch' = epoch /\ phase' = phase /\ Serving' = Serving
<1>1. TypeOK /\ BodyInv /\ epoch \in Nat
  BY DEF IInv, TypeOK
<1>2. SessionGoesOn /\ epoch' = epoch /\ phase' = phase /\ Serving' = Serving
  BY <1>1, SameSession
<1>3. TextsGoOn /\ UpdatesShow /\ arrived' = arrived
  BY <1>1 DEF TextsGoOn, UpdatesShow, BodyInv, telegram
<1>4. QED
  BY <1>1, <1>2, <1>3 DEF Effects

\* The sweep and the check of a chat.
LEMMA SweepStep ==
  ASSUME IInv, Sweep \/ RecheckEnds \/ \E c \in Chats : RecheckBegins(c)
  PROVE  IInv'
<1>1. TypeOK /\ TypeOK' /\ DeliveryInv /\ row \in [Messages -> Rows] /\ ArrivalInv
  <2>1. TypeOK /\ DeliveryInv /\ ArrivalInv
    BY DEF IInv
  <2>2. QED
    BY <2>1, DrainType DEF TypeOK
<1>2. UNCHANGED <<session, expired, telegram, attempts>> /\ proc'.pc \in {"idle", "rechecking"}
      /\ phase # "down"
  <2>1. CASE Sweep
    BY <2>1 DEF Sweep, DrainIdle, Serving, Listening
  <2>2. ASSUME NEW c \in Chats, RecheckBegins(c)
        PROVE  /\ UNCHANGED <<session, expired, telegram, attempts>> /\ phase # "down"
               /\ proc'.pc \in {"idle", "rechecking"}
    BY <2>2 DEF RecheckBegins, DrainIdle, Idle, Serving, Listening
  <2>3. CASE RecheckEnds
    BY <1>1, <2>3 DEF RecheckEnds, Idle, ArrivalInv
  <2>4. QED
    BY <2>1, <2>2, <2>3
<1>3. \A m \in Messages : row'[m] = row[m] \/ GivenUp(m)
  <2>1. ASSUME row' = Swept PROVE \A m \in Messages : row'[m] = row[m] \/ GivenUp(m)
    BY <1>1, <2>1, SweptFacts DEF GivenUp
  <2>2. ASSUME NEW S, row' = Cancelled(row, S)
        PROVE  \A m \in Messages : row'[m] = row[m] \/ GivenUp(m)
    BY <1>1, <2>2, CancelledFacts DEF GivenUp
  <2>3. QED
    BY <2>1, <2>2 DEF Sweep, RecheckEnds, RecheckBegins, journal
<1>4. TransmissionsAge
  BY <1>2, Unchanging
<1>5. \A m \in Messages : RowEffect(m)
  BY <1>1, <1>3, <1>4, GivenUpFacts DEF RowEffect
<1>6. Effects /\ phase' = phase
  BY <1>1, <1>2, <1>4, <1>5, LoopEffects
<1>7. LoopStays
  BY <1>2, <1>6 DEF LoopStays
<1>8. QED
  BY <1>1, <1>6, <1>7, EffectsSuffice

\* The loop takes up the first open intent of a chat.
LEMMA BeginStep ==
  ASSUME IInv, NEW m \in Messages, Begin(m)
  PROVE  IInv'
<1>1. /\ TypeOK /\ TypeOK' /\ DeliveryInv /\ BodyInv
      /\ row \in [Messages -> Rows] /\ epoch \in Nat /\ Swept \in [Messages -> Rows]
  <2>1. TypeOK /\ DeliveryInv /\ BodyInv
    BY DEF IInv
  <2>2. QED
    BY <2>1, DrainType, SweptFacts DEF TypeOK
<1>2. UNCHANGED <<session, expired, telegram, attempts>> /\ phase # "down" /\ proc.pc = "idle"
  BY DEF Begin, DrainIdle, Serving, Listening
<1>3. Swept[m] = row[m] /\ row[m].st \in Unsent /\ row[m] \in Rows /\ Reaching(m) = {}
  <2>1. Swept[m].st \in Unsent
    BY DEF Begin, Candidates
  <2>2. \/ Swept[m] = row[m]
        \/ Swept[m] = Clear(row[m], "unknown")
        \/ Swept[m] = Clear(row[m], "skipped")
    BY <1>1, SweptFacts
  <2>3. row[m] \in Rows /\ {"unknown", "skipped"} \subseteq States
        /\ "unknown" \notin Unsent /\ "skipped" \notin Unsent
    BY <1>1 DEF States, Final, Unsent
  <2>4. Swept[m] = row[m] /\ row[m].st \in Unsent
    BY <2>1, <2>2, <2>3, ClearFacts
  <2>5. QED
    BY <1>1, <2>3, <2>4 DEF DeliveryInv, Unsent, HandedOff
<1>4. TransmissionsAge
  BY <1>2, Unchanging
<1>5. \A k \in Messages : k # m => row'[k] = Swept[k]
  BY <1>1 DEF Begin
<1>6. \A k \in Messages : k # m => RowEffect(k)
  <2>1. \A k \in Messages : k # m => row'[k] = row[k] \/ GivenUp(k)
    BY <1>1, <1>5, SweptFacts DEF GivenUp
  <2>2. QED
    BY <1>1, <1>4, <2>1, GivenUpFacts DEF RowEffect
<1>7. CASE proc' = proc /\ \E s \in {"cancelled", "skipped"} : row'[m] = Clear(row[m], s)
  <2>1. RowEffect(m)
    BY <1>1, <1>3, <1>4, <1>7, GivenUpFacts DEF RowEffect, GivenUp
  <2>2. Effects /\ phase' = phase
    BY <1>1, <1>2, <1>4, <1>6, <2>1, LoopEffects
  <2>3. LoopStays
    BY <1>2, <1>7, <2>2 DEF LoopStays
  <2>4. QED
    BY <1>1, <2>2, <2>3, EffectsSuffice
<1>8. CASE /\ row[m].epoch = epoch /\ row'[m] = [row[m] EXCEPT !.st = "generating"]
           /\ proc' = [Idle EXCEPT !.pc = "reading", !.msg = m, !.snap = row[m]]
  <2>1. /\ row'[m].st = "generating" /\ row'[m].version = row[m].version
        /\ row'[m].epoch = row[m].epoch /\ row'[m].setting = row[m].setting
        /\ row'[m].incoming = row[m].incoming /\ row'[m].reply = row[m].reply
        /\ row'[m].temporary = row[m].temporary
    BY <1>3, <1>8 DEF Rows
  <2>2. RowMoves(m)
    <3>1. Reaching(m)' = {}
      BY <1>2, <1>3 DEF Reaching
    <3>2. QED
      BY <1>3, <2>1, <3>1 DEF RowMoves, Alike, Open, Unsent
  <2>3. Effects /\ phase' = phase /\ epoch' = epoch
    BY <1>1, <1>2, <1>4, <1>6, <2>2, LoopEffects DEF RowEffect
  <2>4. DeliveryInv' /\ BodyInv' /\ ArrivalInv'
    BY <1>1, <1>2, <2>3, EffectsKeep
  <2>5. /\ proc'.pc = "reading" /\ m0' = m /\ snap' = row[m] /\ chat0' = Chat[m]
    BY <1>8 DEF Idle, m0, snap, chat0
  <2>6. m \in arrived'
    BY <1>1, <1>2, <1>3 DEF DeliveryInv, Unsent, telegram
  <2>7. \A k \in InChat(Chat[m]) : k < m => row'[k].st \notin Open
    <3> SUFFICES ASSUME NEW k \in InChat(Chat[m]), k < m PROVE row'[k].st \notin Open
      OBVIOUS
    <3>1. k \in Messages /\ k \in Nat /\ m \in Nat
      BY AutoReplyAssumption DEF InChat
    <3>2. Swept[k].st \in Open => m <= k
      BY DEF Begin, Candidates, Heads
    <3>3. QED
      BY <1>5, <3>1, <3>2
  <2>8. /\ Reaching(m)' = {}
        /\ row[m].reply # Nothing => row[m].reply.text = row[m].incoming /\ attempts'[m] # <<>>
        /\ row[m].epoch <= epoch' /\ row'[m].version >= row[m].version
    <3>1. Reaching(m)' = {}
      BY <1>2, <1>3 DEF Reaching
    <3>2. row[m].version \in Nat
      BY <1>3 DEF Rows
    <3>3. QED
      BY <1>1, <1>2, <1>3, <1>8, <2>1, <2>3, <3>1, <3>2 DEF BodyInv, Open
  <2>9. LoopInv'
    <3>1. Reaching(m0)' = {}
      BY <2>5, <2>8 DEF Reaching
    <3>2. QED
      BY <2>1, <2>5, <2>6, <2>7, <2>8, <3>1 DEF LoopInv, Preparing, Unchallenged
  <2>10. AskedInv'
    BY <2>5 DEF AskedInv, Refusable, Waiting
  <2>11. QED
    BY <1>1, <2>4, <2>9, <2>10 DEF IInv
<1>9. \/ /\ row[m].epoch = epoch /\ row'[m] = [row[m] EXCEPT !.st = "generating"]
         /\ proc' = [Idle EXCEPT !.pc = "reading", !.msg = m, !.snap = row[m]]
      \/ proc' = proc /\ \E s \in {"cancelled", "skipped"} : row'[m] = Clear(row[m], s)
  <2> DEFINE on == setting[Chat[m]].enabled /\ setting[Chat[m]].version = row[m].setting
             fit == row[m].epoch = epoch /\ on /\ SweptSetting[Chat[m]].mode # "paused"
  <2>1. CASE fit
    <3>1. row' = [Swept EXCEPT ![m].st = "generating"]
          /\ proc' = [Idle EXCEPT !.pc = "reading", !.msg = m, !.snap = row[m]]
      BY <1>3, <2>1 DEF Begin
    <3>2. row'[m] = [row[m] EXCEPT !.st = "generating"]
      BY <1>1, <1>3, <3>1
    <3>3. QED
      BY <2>1, <3>1, <3>2
  <2>2. CASE ~fit
    <3>1. PICK s \in {"cancelled", "skipped"} : row' = [Swept EXCEPT ![m] = Clear(row[m], s)]
      BY <1>3, <2>2 DEF Begin
    <3>2. row'[m] = Clear(row[m], s)
      BY <1>1, <3>1
    <3>3. proc' = proc
      BY <1>3, <2>2 DEF Begin
    <3>4. QED
      BY <3>2, <3>3
  <2>3. QED
    BY <2>1, <2>2
<1>10. QED
  BY <1>7, <1>8, <1>9

-----------------------------------------------------------------------------
(* The steps of process() *)

\* The loop works on a message whose intent it knows, in a process that runs.
LEMMA WorkingFacts ==
  ASSUME IInv, Preparing \/ proc.pc = "sending"
  PROVE  /\ m0 \in Messages /\ m0 \in arrived /\ phase # "down"
         /\ row[m0] \in Rows /\ snap \in Rows /\ chat0 \in Chats /\ proc \in Procs
         /\ text[m0] \in 0 .. MaxEdits /\ seen[m0] \in 0 .. MaxEdits
         /\ facts[chat0] \in 1 .. MaxFacts
         /\ proc.body \in Bodies /\ proc.fresh \in 0 .. MaxEdits /\ proc.incoming \in 0 .. MaxEdits
         /\ snap.version \in Nat /\ snap.reply \in Bodies /\ snap.temporary \in Nat
         /\ row[m0].version \in Nat /\ snap.incoming \in 0 .. MaxEdits
<1>1. TypeOK /\ LoopInv /\ ArrivalInv
  BY DEF IInv
<1>2. m0 \in Messages /\ m0 \in arrived /\ phase # "down"
  BY <1>1 DEF LoopInv, TypeOK, ArrivalInv, Preparing
<1>3. proc \in Procs /\ row[m0] \in Rows
  BY <1>1, <1>2 DEF TypeOK
<1>4. /\ snap \in Rows /\ proc.body \in Bodies /\ proc.fresh \in 0 .. MaxEdits
      /\ proc.incoming \in 0 .. MaxEdits
  BY <1>3 DEF Procs, snap
<1>5. /\ snap.version \in Nat /\ snap.reply \in Bodies /\ snap.temporary \in Nat
      /\ row[m0].version \in Nat /\ snap.incoming \in 0 .. MaxEdits
  BY <1>3, <1>4 DEF Rows
<1>6. chat0 \in Chats
  BY <1>2, AutoReplyAssumption DEF chat0
<1>7. /\ text[m0] \in 0 .. MaxEdits /\ seen[m0] \in 0 .. MaxEdits
      /\ facts[chat0] \in 1 .. MaxFacts
  BY <1>1, <1>2, <1>6 DEF TypeOK
<1>8. QED
  BY <1>2, <1>3, <1>4, <1>5, <1>6, <1>7

LEMMA ProcessType ==
  ASSUME IInv, ReadIncoming \/ Compose \/ Reread \/ Dismiss \/ Fail
  PROVE  TypeOK'
<1>1. /\ m0 \in Messages /\ row[m0] \in Rows /\ snap \in Rows /\ text[m0] \in 0 .. MaxEdits
      /\ chat0 \in Chats /\ facts[chat0] \in 1 .. MaxFacts /\ Idle \in Procs /\ proc \in Procs
      /\ proc.body \in Bodies /\ proc.fresh \in 0 .. MaxEdits /\ proc.incoming \in 0 .. MaxEdits
      /\ snap.version + 1 \in Nat /\ snap.reply \in Bodies
      /\ TypeOK /\ row \in [Messages -> Rows] /\ setting \in [Chats -> Settings]
  <2>1. Preparing /\ TypeOK
    BY DEF ReadIncoming, Compose, Reread, Dismiss, Fail, Preparing, IInv
  <2>2. row \in [Messages -> Rows] /\ setting \in [Chats -> Settings]
    BY <2>1 DEF TypeOK
  <2>3. QED
    BY <2>1, <2>2, WorkingFacts, NothingType
<1>2. /\ \A t \in 0 .. MaxEdits : Requeued(row[m0], snap.version + 1, t) \in Rows
      /\ [row[m0] EXCEPT !.st = "queued", !.reply = Nothing] \in Rows
  <2>1. \A t \in 0 .. MaxEdits : Requeued(row[m0], snap.version + 1, t) \in Rows
    BY <1>1, RequeuedFacts
  <2>2. "queued" \in States /\ Nothing \in Bodies
    BY NothingType DEF States, Open, Unsent
  <2>3. [row[m0] EXCEPT !.st = "queued", !.reply = Nothing] \in Rows
    BY <1>1, <2>2 DEF Rows
  <2>4. QED
    BY <2>1, <2>3
<1>3. CASE ReadIncoming
  <2>1. [proc EXCEPT !.pc = "composing", !.incoming = text[m0]] \in Procs
    BY <1>1 DEF Procs
  <2>2. row' \in [Messages -> Rows]
    BY <1>1, <1>2, <1>3 DEF ReadIncoming
  <2>3. QED
    BY <1>1, <1>3, <2>1, <2>2 DEF ReadIncoming, TypeOK, Return, session, telegram
<1>4. CASE Compose
  <2>1. setting' \in [Chats -> Settings]
    BY <1>1, <1>4, ModeType DEF Compose
  <2>2. PICK known \in {0, facts[chat0]}, used \in {0, facts[chat0]} :
          proc' = [proc EXCEPT !.pc = "checking", !.facts = known,
                     !.body = IF snap.reply # Nothing THEN snap.reply
                              ELSE [text |-> proc.incoming, facts |-> used]]
    BY <1>4 DEF Compose
  <2>3. known \in 0 .. MaxFacts /\ used \in 0 .. MaxFacts
    BY <1>1, AutoReplyAssumption
  <2>4. [text |-> proc.incoming, facts |-> used] \in Bodies
    BY <1>1, <2>3 DEF Bodies
  <2>5. proc' \in Procs
    BY <1>1, <2>2, <2>3, <2>4 DEF Procs
  <2>6. QED
    BY <1>1, <1>4, <2>1, <2>5 DEF Compose, TypeOK, session, telegram
<1>5. CASE Reread
  <2>1. [proc EXCEPT !.pc = "admitting", !.fresh = text[m0]] \in Procs
    BY <1>1 DEF Procs
  <2>2. QED
    BY <1>1, <1>5, <2>1 DEF Reread, TypeOK, journal, session, telegram
<1>6. CASE Dismiss
  <2>1. row' \in [Messages -> Rows]
    <3>1. \/ row' = row
          \/ row' = [row EXCEPT ![m0] = Requeued(row[m0], snap.version + 1, proc.fresh)]
          \/ row' = [row EXCEPT ![m0] = [row[m0] EXCEPT !.st = "queued", !.reply = Nothing]]
      BY <1>6 DEF Dismiss
    <3>2. QED
      BY <1>1, <1>2, <3>1
  <2>2. QED
    BY <1>1, <1>6, <2>1 DEF Dismiss, TypeOK, Return, session, telegram
<1>7. CASE Fail
  <2>1. row' \in [Messages -> Rows] /\ setting' \in [Chats -> Settings]
    <3>1. "skipped" \in States
      BY DEF States, Final
    <3>2. QED
      BY <1>1, <1>7, <3>1, FinishType DEF Fail, journal
  <2>2. QED
    BY <1>1, <1>7, <2>1 DEF Fail, TypeOK, Return, session, telegram
<1>8. QED
  BY <1>3, <1>4, <1>5, <1>6, <1>7

\* process() is left.
LEMMA ReturnStep ==
  ASSUME IInv, TypeOK', UNCHANGED <<session, expired, telegram>>, TransmissionsAge,
         \A m \in Messages : RowEffect(m), Return, phase # "down"
  PROVE  IInv'
<1>1. Effects /\ phase' = phase
  BY LoopEffects
<1>2. LoopStays
  BY <1>1 DEF LoopStays, Return, Idle
<1>3. QED
  BY <1>1, <1>2, EffectsSuffice

\* finish() and the pause: the row is closed; a pause gives up unsent rows.
LEMMA FinishRows ==
  ASSUME TypeOK, NEW m \in Messages, NEW s \in Final \cup {"unknown"},
         Finish(m, s) \/ Pause(m, s)
  PROVE  /\ row'[m] = Clear(row[m], s) /\ row'[m].st = s /\ Alike(m)
         /\ \A k \in Messages : k # m => row'[k] = row[k] \/ GivenUp(k)
         /\ Finish(m, s) => \A k \in Messages : k # m => row'[k] = row[k]
<1>1. /\ row \in [Messages -> Rows] /\ row[m] \in Rows
      /\ s \in States /\ s \notin Unsent
  BY DEF TypeOK, States, Final, Unsent
<1> DEFINE rows == [row EXCEPT ![m] = Clear(row[m], s)]
<1>2. /\ Clear(row[m], s) \in Rows /\ Clear(row[m], s).st = s
      /\ Clear(row[m], s).version = row[m].version /\ Clear(row[m], s).epoch = row[m].epoch
      /\ Clear(row[m], s).setting = row[m].setting
  BY <1>1, ClearFacts
<1>3. rows \in [Messages -> Rows] /\ rows[m] = Clear(row[m], s)
      /\ \A k \in Messages : k # m => rows[k] = row[k]
  BY <1>1, <1>2
<1>4. CASE Finish(m, s)
  <2>1. row' = rows
    BY <1>4 DEF Finish
  <2>2. QED
    BY <1>2, <1>3, <2>1 DEF Alike
<1>5. CASE Pause(m, s) /\ ~Finish(m, s)
  <2>1. row' = Cancelled(rows, InChat(Chat[m]))
    BY <1>5 DEF Pause
  <2> HIDE DEF rows
  <2>2. \A k \in Messages :
          \/ row'[k] = rows[k]
          \/ rows[k].st \in Unsent /\ row'[k] = Clear(rows[k], "cancelled")
    BY <1>3, <2>1, CancelledFacts
  <2>3. row'[m] = Clear(row[m], s)
    BY <1>1, <1>2, <1>3, <2>2
  <2>4. \A k \in Messages : k # m => row'[k] = row[k] \/ GivenUp(k)
    BY <1>3, <2>2 DEF GivenUp
  <2>5. QED
    BY <1>2, <1>5, <2>3, <2>4 DEF Alike
<1>6. QED
  BY <1>4, <1>5

\* The steps in which the row stays and the loop knows more.
LEMMA AdvanceStep ==
  ASSUME IInv,
         \/ ReadIncoming /\ text[m0] = snap.incoming
         \/ Compose \/ Reread
  PROVE  IInv'
<1>1. /\ TypeOK /\ TypeOK' /\ BodyInv /\ LoopInv /\ Preparing
      /\ m0 \in Messages /\ phase # "down" /\ proc \in Procs
      /\ text[m0] \in Nat /\ seen[m0] \in Nat
  <2>1. Preparing
    BY DEF ReadIncoming, Compose, Reread, Preparing
  <2>2. TypeOK /\ BodyInv /\ LoopInv
    BY DEF IInv
  <2>3. QED
    BY <2>1, <2>2, WorkingFacts, ProcessType
<1>2. UNCHANGED <<row, session, expired, telegram, attempts>>
  BY DEF ReadIncoming, Compose, Reread, journal
<1>3. TransmissionsAge /\ \A m \in Messages : RowEffect(m)
  BY <1>2, Unchanging DEF RowEffect
<1>4. Effects /\ phase' = phase /\ epoch' = epoch
  BY <1>1, <1>2, <1>3, LoopEffects
<1>5. DeliveryInv' /\ BodyInv' /\ ArrivalInv'
  BY <1>1, <1>4, EffectsKeep
<1>6. UNCHANGED <<text, seen, arrived>>
  BY <1>2 DEF telegram
<1>7. m0' = m0 /\ snap' = snap /\ chat0' = chat0 /\ proc'.pc \in {"composing", "checking", "admitting"}
  BY <1>1 DEF ReadIncoming, Compose, Reread, m0, snap, chat0, Procs
<1>8. /\ m0 \in arrived /\ snap.epoch <= epoch
      /\ row[m0].epoch = snap.epoch /\ row[m0].setting = snap.setting
      /\ \A k \in InChat(chat0) : k < m0 => row[k].st \notin Open
      /\ Reaching(m0) = {}
      /\ row[m0].st \in Unsent => row[m0].version >= snap.version
      /\ Unchallenged => /\ row[m0].incoming = snap.incoming
                         /\ row[m0].reply = snap.reply
                         /\ row[m0].temporary = snap.temporary
      /\ snap.reply # Nothing => snap.reply.text = snap.incoming /\ attempts[m0] # <<>>
      /\ proc.pc # "reading" =>
           proc.incoming = snap.incoming /\ (row[m0].st \in Unsent => seen[m0] # 0)
      /\ proc.pc = "checking" =>
           IF snap.reply # Nothing THEN proc.body = snap.reply
           ELSE proc.body.text = proc.incoming /\ proc.body.facts \in {0, proc.facts}
  BY <1>1 DEF LoopInv
<1>9. Reaching(m0)' = {} /\ Unchallenged' = Unchallenged
  BY <1>2, <1>7, <1>8 DEF Reaching, Unchallenged
<1>10. proc'.incoming = snap.incoming /\ (row[m0].st \in Unsent => seen[m0] # 0)
  <2>1. CASE ReadIncoming /\ text[m0] = snap.incoming
    <3>1. proc' = [proc EXCEPT !.pc = "composing", !.incoming = text[m0]] /\ text[m0] # 0
      BY <2>1 DEF ReadIncoming
    <3>2. seen[m0] # 0
      BY <1>1, <3>1 DEF BodyInv
    <3>3. QED
      BY <1>1, <2>1, <3>1, <3>2 DEF Procs
  <2>2. CASE Compose \/ Reread
    <3>1. proc'.incoming = proc.incoming /\ proc.pc # "reading"
      BY <1>1, <2>2 DEF Compose, Reread, Procs
    <3>2. QED
      BY <1>8, <3>1
  <2>3. QED
    BY <2>1, <2>2
<1>11. proc'.pc \in {"checking", "admitting"} =>
         IF snap.reply # Nothing THEN proc'.body = snap.reply
         ELSE proc'.body.text = proc'.incoming /\ proc'.body.facts \in {0, proc'.facts}
  <2>1. CASE ReadIncoming /\ text[m0] = snap.incoming
    BY <1>1, <2>1 DEF ReadIncoming, Procs
  <2>2. CASE Compose
    <3>1. PICK known \in {0, facts[chat0]} : \E used \in {0, known} :
            proc' = [proc EXCEPT !.pc = "checking", !.facts = known,
                       !.body = IF snap.reply # Nothing THEN snap.reply
                                ELSE [text |-> proc.incoming, facts |-> used]]
      BY <2>2 DEF Compose
    <3> PICK used \in {0, known} :
          proc' = [proc EXCEPT !.pc = "checking", !.facts = known,
                     !.body = IF snap.reply # Nothing THEN snap.reply
                              ELSE [text |-> proc.incoming, facts |-> used]]
      BY <3>1
    <3>2. proc'.body = (IF snap.reply # Nothing THEN snap.reply
                        ELSE [text |-> proc.incoming, facts |-> used])
          /\ proc'.incoming = proc.incoming /\ proc'.facts = known
      BY <1>1, <3>1 DEF Procs
    <3>3. QED
      BY <3>1, <3>2
  <2>3. CASE Reread
    <3>1. /\ proc.pc = "checking" /\ proc'.body = proc.body
          /\ proc'.incoming = proc.incoming /\ proc'.facts = proc.facts
      BY <1>1, <2>3 DEF Reread, Procs
    <3>2. QED
      BY <1>8, <3>1
  <2>4. QED
    BY <2>1, <2>2, <2>3
<1>12. proc'.pc = "admitting" => seen[m0] <= proc'.fresh
  <2> SUFFICES ASSUME proc'.pc = "admitting" PROVE seen[m0] <= proc'.fresh
    OBVIOUS
  <2>1. Reread
    BY <1>1 DEF ReadIncoming, Compose, Procs
  <2>2. proc'.fresh = text[m0] /\ text[m0] # 0
    BY <1>1, <2>1 DEF Reread, Procs
  <2>3. QED
    BY <1>1, <2>2 DEF BodyInv
<1>13. LoopInv'
  BY <1>2, <1>4, <1>6, <1>7, <1>8, <1>9, <1>10, <1>11, <1>12 DEF LoopInv, Preparing
<1>14. AskedInv'
  BY <1>7 DEF AskedInv, Refusable, Waiting
<1>15. QED
  BY <1>1, <1>5, <1>13, <1>14 DEF IInv

\* The steps in which process() gives the intent up or back.
LEMMA LeaveStep ==
  ASSUME IInv,
         \/ ReadIncoming /\ text[m0] # snap.incoming
         \/ Dismiss \/ Fail
  PROVE  IInv'
<1>1. /\ TypeOK /\ TypeOK' /\ DeliveryInv /\ row \in [Messages -> Rows]
      /\ m0 \in Messages /\ phase # "down" /\ row[m0] \in Rows /\ row[m0].version \in Nat
      /\ text[m0] \in 0 .. MaxEdits /\ proc.fresh \in 0 .. MaxEdits /\ snap.version \in Nat
      /\ Preparing
  <2>1. Preparing
    BY DEF ReadIncoming, Dismiss, Fail, Preparing
  <2>2. TypeOK /\ DeliveryInv
    BY DEF IInv
  <2>3. QED
    BY <2>1, <2>2, WorkingFacts, ProcessType DEF TypeOK
<1>2. UNCHANGED <<session, expired, telegram, attempts>> /\ Return
  BY DEF ReadIncoming, Dismiss, Fail
<1>3. TransmissionsAge
  BY <1>2, Unchanging
<1>4. \A k \in Messages : row[k].st \in Unsent => Reaching(k) = {} /\ Reaching(k)' = {}
  <2>1. \A k \in Messages : row[k].st \in Unsent => Reaching(k) = {}
    BY <1>1 DEF DeliveryInv, Unsent, HandedOff
  <2>2. \A k \in Messages : Reaching(k)' \subseteq Reaching(k)
    BY <1>1, <1>3, AgeFacts
  <2>3. QED
    BY <2>1, <2>2
<1>5. \A k \in Messages : k # m0 => row'[k] = row[k] \/ GivenUp(k)
  <2>1. CASE ReadIncoming \/ Dismiss
    BY <1>1, <2>1 DEF ReadIncoming, Dismiss
  <2>2. CASE Fail
    <3>1. UNCHANGED row \/ Finish(m0, "skipped") \/ Pause(m0, "skipped")
      BY <2>2 DEF Fail, journal
    <3>2. "skipped" \in Final \cup {"unknown"}
      BY DEF Final
    <3>3. QED
      BY <1>1, <3>1, <3>2, FinishRows
  <2>3. QED
    BY <2>1, <2>2
<1>6. \A k \in Messages : k # m0 => RowEffect(k)
  BY <1>1, <1>3, <1>5, GivenUpFacts DEF RowEffect
<1>7. PICK m \in Messages :
        m = m0 /\ (row[m].st \in Unsent => Reaching(m) = {} /\ Reaching(m)' = {})
  BY <1>1, <1>4
<1>8. RowEffect(m)
  <2>1. CASE row'[m] = row[m]
    BY <2>1 DEF RowEffect
  <2>2. ASSUME NEW t \in 0 .. MaxEdits, row[m].st \in Unsent, row[m].version = snap.version,
               row' = [row EXCEPT ![m0] = Requeued(row[m0], snap.version + 1, t)]
        PROVE  RowEffect(m)
    <3>1. row'[m] = Requeued(row[m], snap.version + 1, t) /\ snap.version + 1 > row[m].version
          /\ snap.version + 1 \in Nat
      BY <1>1, <1>7, <2>2
    <3>2. QED
      BY <2>2, <3>1 DEF RowEffect, RowRestarts
  <2>3. ASSUME row[m].st \in Unsent,
               row' = [row EXCEPT ![m0] = [row[m0] EXCEPT !.st = "queued", !.reply = Nothing]]
        PROVE  RowEffect(m)
    <3>1. /\ row'[m].st = "queued" /\ row'[m].reply = Nothing /\ Alike(m)
          /\ row'[m].incoming = row[m].incoming /\ row'[m].temporary = row[m].temporary
      BY <1>1, <1>7, <2>3 DEF Alike, Rows
    <3>2. proc'.pc = "idle"
      BY <1>2 DEF Return, Idle
    <3>3. RowMoves(m)
      BY <1>7, <2>3, <3>1, <3>2 DEF RowMoves, Open, Unsent
    <3>4. QED
      BY <3>3 DEF RowEffect
  <2>4. ASSUME row[m].st \in Unsent, Finish(m0, "skipped") \/ Pause(m0, "skipped")
        PROVE  RowEffect(m)
    <3>1. "skipped" \in Final \cup {"unknown"}
      BY DEF Final
    <3>2. row'[m] = Clear(row[m], "skipped")
      BY <1>1, <1>7, <2>4, <3>1, FinishRows
    <3>3. GivenUp(m)
      BY <2>4, <3>2 DEF GivenUp
    <3>4. QED
      BY <1>1, <1>3, <3>3, GivenUpFacts DEF RowEffect
  <2>5. CASE ReadIncoming /\ text[m0] # snap.incoming
    <3>1. IF Valid THEN row' = [row EXCEPT ![m0] = Requeued(row[m0], snap.version + 1, text[m0])]
          ELSE row' = row
      BY <2>5 DEF ReadIncoming
    <3>2. Valid => row[m].st \in Unsent /\ row[m].version = snap.version
      BY <1>7 DEF Valid
    <3>3. QED
      BY <1>1, <2>1, <2>2, <3>1, <3>2
  <2>6. CASE Dismiss
    <3>1. \/ row' = row
          \/ /\ Valid
             /\ \/ row' = [row EXCEPT ![m0] = Requeued(row[m0], snap.version + 1, proc.fresh)]
                \/ row' = [row EXCEPT ![m0] = [row[m0] EXCEPT !.st = "queued", !.reply = Nothing]]
      BY <2>6 DEF Dismiss
    <3>2. Valid => row[m].st \in Unsent /\ row[m].version = snap.version
      BY <1>7 DEF Valid
    <3>3. QED
      BY <1>1, <2>1, <2>2, <2>3, <3>1, <3>2
  <2>7. CASE Fail
    <3>1. \/ row' = row
          \/ row[m0].st \in Unsent /\ (Finish(m0, "skipped") \/ Pause(m0, "skipped"))
      BY <2>7 DEF Fail, journal, Valid
    <3>2. QED
      BY <1>7, <2>1, <2>4, <3>1
  <2>8. QED
    BY <2>5, <2>6, <2>7
<1>9. QED
  BY <1>1, <1>2, <1>3, <1>6, <1>7, <1>8, ReturnStep

\* What Telegram is handed answers the text the row names, and is all that may
\* reach the chat.
LEMMA SendFacts ==
  ASSUME IInv, Send
  PROVE  \E m \in Messages, a \in Transmissions :
    LET n == Len(attempts[m]) + 1 IN
    /\ m = m0 /\ n \in Nat \ {0} /\ DOMAIN attempts[m] = 1 .. n - 1
    /\ attempts' = [attempts EXCEPT ![m] = Append(@, a)]
    /\ attempts'[m] \in Seq(Transmissions) /\ DOMAIN attempts'[m] = 1 .. n
    /\ Len(attempts'[m]) = n /\ attempts'[m][n] = a
    /\ \A k \in 1 .. n - 1 : attempts'[m][k] = attempts[m][k]
    /\ \A k \in Messages : k # m => attempts'[k] = attempts[k]
    /\ a.st = "asked" /\ a.of = row[m].temporary /\ a.of < n
    /\ a.body.text = row[m].incoming
    /\ attempts[m] = <<>> => a.body = proc.body
    /\ Reaching(m) = {} /\ row[m].st \in Unsent
    /\ proc.body # Nothing => proc.body.text = row[m].incoming
<1>1. /\ TypeOK /\ DeliveryInv /\ BodyInv /\ LoopInv
      /\ proc.pc = "admitting" /\ Preparing /\ Unchallenged
  <2>1. TypeOK /\ DeliveryInv /\ BodyInv /\ LoopInv
    BY DEF IInv
  <2>2. QED
    BY <2>1 DEF Send, Preparing, Unchallenged, Valid
<1>2. /\ m0 \in Messages /\ row[m0] \in Rows
      /\ proc.body \in Bodies /\ snap.temporary \in Nat /\ snap.reply \in Bodies
  BY <1>1, WorkingFacts
<1>3. /\ row[m0].st \in Unsent /\ Reaching(m0) = {}
      /\ row[m0].incoming = snap.incoming /\ row[m0].temporary = snap.temporary
      /\ proc.incoming = snap.incoming
      /\ snap.reply # Nothing => snap.reply.text = snap.incoming /\ proc.body = snap.reply
      /\ snap.reply = Nothing => proc.body.text = proc.incoming
  BY <1>1 DEF LoopInv, Unchallenged
<1>4. proc.body.text = row[m0].incoming
  BY <1>3
<1>5. /\ attempts[m0] \in Seq(Transmissions) /\ Len(attempts[m0]) \in Nat
      /\ DOMAIN attempts[m0] = 1 .. Len(attempts[m0])
      /\ \A k \in DOMAIN attempts[m0] : attempts[m0][k] \in Transmissions
  BY <1>1, <1>2, LenProperties, ElementOfSeq DEF TypeOK
<1>6. snap.temporary # 0 =>
        /\ snap.temporary \in DOMAIN attempts[m0]
        /\ attempts[m0][snap.temporary].body.text = row[m0].incoming
  BY <1>1, <1>2, <1>3 DEF BodyInv, Open
<1> DEFINE of == snap.temporary
           sent == IF of = 0 THEN proc.body ELSE attempts[m0][of].body
           a == [st |-> "asked", of |-> of, body |-> sent, heard |-> "waiting"]
<1>7. sent \in Bodies /\ sent.text = row[m0].incoming
  <2>1. of # 0 => attempts[m0][of] \in Transmissions
    BY <1>5, <1>6
  <2>2. of # 0 => attempts[m0][of].body \in Bodies
    BY <2>1 DEF Transmissions
  <2>3. QED
    BY <1>2, <1>4, <1>6, <2>2
<1>8. a \in Transmissions /\ a.st = "asked" /\ a.of = of /\ a.body = sent
  BY <1>2, <1>7 DEF Transmissions
<1>9. attempts' = [attempts EXCEPT ![m0] = Append(@, a)]
  BY DEF Send
<1>10. of < Len(attempts[m0]) + 1 /\ (attempts[m0] = <<>> => sent = proc.body)
  BY <1>2, <1>5, <1>6
<1> DEFINE s == attempts[m0]
           t == Append(s, a)
<1>11. /\ t \in Seq(Transmissions) /\ Len(t) = Len(s) + 1
       /\ t[Len(s) + 1] = a /\ \A k \in 1 .. Len(s) : t[k] = s[k]
       /\ DOMAIN t = 1 .. Len(s) + 1
  BY <1>5, <1>8, AppendProperties, LenProperties
<1> HIDE DEF a
<1>12. attempts'[m0] = t /\ \A k \in Messages : k # m0 => attempts'[k] = attempts[k]
  BY <1>1, <1>2, <1>9 DEF TypeOK
<1>13. /\ attempts'[m0] \in Seq(Transmissions) /\ DOMAIN attempts'[m0] = 1 .. Len(s) + 1
       /\ Len(attempts'[m0]) = Len(s) + 1 /\ attempts'[m0][Len(s) + 1] = a
       /\ \A k \in 1 .. Len(s) : attempts'[m0][k] = attempts[m0][k]
  BY <1>11, <1>12
<1>14. (Len(s) + 1) - 1 = Len(s) /\ Len(s) + 1 \in Nat \ {0}
  BY <1>5
<1> HIDE DEF s, t, sent, of
<1>15. /\ a.of = row[m0].temporary /\ a.of < Len(attempts[m0]) + 1
       /\ a.body.text = row[m0].incoming
       /\ attempts[m0] = <<>> => a.body = proc.body
  BY <1>3, <1>7, <1>8, <1>10 DEF of
<1>16. QED
  BY <1>2, <1>3, <1>4, <1>5, <1>8, <1>9, <1>12, <1>13, <1>14, <1>15 DEF s

LEMMA SendStep ==
  ASSUME IInv, Send
  PROVE  IInv'
<1>1. /\ TypeOK /\ DeliveryInv /\ BodyInv /\ ArrivalInv /\ LoopInv
      /\ row \in [Messages -> Rows] /\ Preparing
  <2>1. TypeOK /\ DeliveryInv /\ BodyInv /\ ArrivalInv /\ LoopInv
    BY DEF IInv
  <2>2. QED
    BY <2>1 DEF TypeOK, Send, Preparing
<1>2. PICK m \in Messages, a \in Transmissions :
        LET n == Len(attempts[m]) + 1 IN
        /\ m = m0 /\ n \in Nat \ {0} /\ DOMAIN attempts[m] = 1 .. n - 1
        /\ attempts' = [attempts EXCEPT ![m] = Append(@, a)]
        /\ attempts'[m] \in Seq(Transmissions) /\ DOMAIN attempts'[m] = 1 .. n
        /\ Len(attempts'[m]) = n /\ attempts'[m][n] = a
        /\ \A k \in 1 .. n - 1 : attempts'[m][k] = attempts[m][k]
        /\ \A k \in Messages : k # m => attempts'[k] = attempts[k]
        /\ a.st = "asked" /\ a.of = row[m].temporary /\ a.of < n
        /\ a.body.text = row[m].incoming
        /\ attempts[m] = <<>> => a.body = proc.body
        /\ Reaching(m) = {} /\ row[m].st \in Unsent
        /\ proc.body # Nothing => proc.body.text = row[m].incoming
  BY SendFacts
<1> DEFINE n == Len(attempts[m]) + 1
<1>3. /\ m = m0 /\ n \in Nat \ {0} /\ DOMAIN attempts[m] = 1 .. n - 1
      /\ attempts'[m] \in Seq(Transmissions) /\ DOMAIN attempts'[m] = 1 .. n
      /\ Len(attempts'[m]) = n /\ attempts'[m][n] = a
      /\ \A k \in 1 .. n - 1 : attempts'[m][k] = attempts[m][k]
      /\ \A k \in Messages : k # m => attempts'[k] = attempts[k]
      /\ a.st = "asked" /\ a.of = row[m].temporary /\ a.of < n
      /\ a.body.text = row[m].incoming
      /\ Reaching(m) = {} /\ row[m].st \in Unsent
      /\ proc.body # Nothing => proc.body.text = row[m].incoming
      /\ attempts' = [attempts EXCEPT ![m] = Append(attempts[m], a)]
  BY <1>2
<1> HIDE DEF n
<1>4. /\ UNCHANGED <<setting, session, expired, telegram>> /\ Serving /\ Serving' = Serving
      /\ UNCHANGED <<phase, epoch, text, seen, arrived>> /\ phase # "down"
      /\ row' = [row EXCEPT ![m] = [row[m] EXCEPT !.st = "sending", !.reply = proc.body]]
      /\ proc' = [proc EXCEPT !.pc = "sending"]
  BY <1>3 DEF Send, Valid, Serving, Listening, session, telegram
<1>5. row[m] \in Rows /\ proc.body \in Bodies /\ proc \in Procs /\ m \in arrived
  BY <1>1, <1>3, WorkingFacts
<1>6. /\ row'[m].st = "sending" /\ row'[m].reply = proc.body /\ Alike(m)
      /\ row'[m].incoming = row[m].incoming /\ row'[m].temporary = row[m].temporary
      /\ \A k \in Messages : k # m => row'[k] = row[k]
  <2>1. row'[m] = [row[m] EXCEPT !.st = "sending", !.reply = proc.body]
    BY <1>1, <1>4
  <2>2. \A k \in Messages : k # m => row'[k] = row[k]
    BY <1>1, <1>4
  <2>3. QED
    BY <1>5, <2>1, <2>2 DEF Rows, Alike
<1>7. TypeOK'
  <2>1. [row[m] EXCEPT !.st = "sending", !.reply = proc.body] \in Rows
    <3>1. "sending" \in States
      BY DEF States, Open, HandedOff
    <3>2. QED
      BY <1>5, <3>1 DEF Rows
  <2>2. row' \in [Messages -> Rows]
    BY <1>1, <1>4, <2>1
  <2>3. attempts' \in [Messages -> Seq(Transmissions)]
    <3>1. Append(attempts[m], a) \in Seq(Transmissions)
      BY <1>1, AppendProperties DEF TypeOK
    <3>2. QED
      BY <1>1, <1>3, <3>1 DEF TypeOK
  <2>4. [proc EXCEPT !.pc = "sending"] \in Procs
    BY <1>5 DEF Procs
  <2>5. QED
    BY <1>1, <1>4, <2>2, <2>3, <2>4 DEF TypeOK, session, telegram
<1>8. Reaching(m)' = {n} /\ \A k \in Messages : k # m => Reaching(k)' = Reaching(k)
  <2>1. ASSUME NEW k \in 1 .. n - 1
        PROVE  attempts'[m][k].st \notin {"asked", "pending", "delivered"}
    BY <1>3, <2>1 DEF Reaching
  <2>2. \A k \in 1 .. n : k = n \/ k \in 1 .. n - 1
    BY <1>3
  <2>3. Reaching(m)' = {n}
    BY <1>3, <2>1, <2>2 DEF Reaching
  <2>4. QED
    BY <1>3, <2>3 DEF Reaching
<1>9. DeliveryInv'
  <2> SUFFICES ASSUME NEW k \in Messages
               PROVE  /\ \A i \in DOMAIN attempts'[k] : attempts'[k][i].of < i
                      /\ \A i, j \in Reaching(k)' : i = j
                      /\ Reaching(k)' # {} =>
                           row'[k].st \in HandedOff \cup {"unknown", "succeeded"}
                      /\ row'[k].st = "succeeded" =>
                           \E i \in DOMAIN attempts'[k] : attempts'[k][i].st = "delivered"
                      /\ row'[k].st # "none" \/ attempts'[k] # <<>> => k \in arrived'
                      /\ row'[k].st \in Open => Serving' \/ phase' = "down"
    BY DEF DeliveryInv
  <2>1. CASE k # m
    BY <1>1, <1>3, <1>4, <1>6, <1>8, <2>1 DEF DeliveryInv
  <2>2. CASE k = m
    <3>1. \A i \in DOMAIN attempts'[m] : attempts'[m][i].of < i
      <4>1. \A i \in 1 .. n - 1 : attempts'[m][i].of < i
        BY <1>1, <1>3 DEF DeliveryInv
      <4>2. \A i \in 1 .. n : i = n \/ i \in 1 .. n - 1
        BY <1>3
      <4>3. QED
        BY <1>3, <4>1, <4>2
    <3>2. QED
      BY <1>4, <1>5, <1>6, <1>8, <2>2, <3>1 DEF HandedOff
  <2>3. QED
    BY <2>1, <2>2
<1>10. BodyInv'
  <2> SUFFICES ASSUME NEW k \in Messages
               PROVE  /\ row'[k].st \in Open =>
                           /\ row'[k].reply # Nothing =>
                                row'[k].reply.text = row'[k].incoming /\ attempts'[k] # <<>>
                           /\ row'[k].temporary # 0 =>
                                /\ row'[k].temporary \in DOMAIN attempts'[k]
                                /\ attempts'[k][row'[k].temporary].body.text = row'[k].incoming
                           /\ \A i \in Reaching(k)' : attempts'[k][i].body.text = row'[k].incoming
                      /\ text[k] # 0 => seen[k] # 0 /\ seen[k] <= text[k]
    BY <1>4 DEF BodyInv
  <2>1. CASE k # m
    BY <1>1, <1>3, <1>6, <1>8, <2>1 DEF BodyInv
  <2>2. CASE k = m
    <3>1. row[m].temporary # 0 =>
            /\ row[m].temporary \in DOMAIN attempts[m]
            /\ attempts[m][row[m].temporary].body.text = row[m].incoming
      BY <1>1, <1>3 DEF BodyInv, Open
    <3>2. row'[m].temporary # 0 =>
            /\ row'[m].temporary \in DOMAIN attempts'[m]
            /\ attempts'[m][row'[m].temporary].body.text = row'[m].incoming
      BY <1>3, <1>6, <3>1
    <3>3. attempts'[m] # <<>>
      BY <1>3, EmptySeq
    <3>4. \A i \in Reaching(m)' : attempts'[m][i].body.text = row'[m].incoming
      BY <1>3, <1>6, <1>8
    <3>5. text[m] # 0 => seen[m] # 0 /\ seen[m] <= text[m]
      BY <1>1 DEF BodyInv
    <3>6. QED
      BY <1>3, <1>6, <2>2, <3>2, <3>3, <3>4, <3>5
  <2>3. QED
    BY <2>1, <2>2
<1>11. ArrivalInv'
  BY <1>1, <1>4 DEF ArrivalInv
<1>12. proc'.pc = "sending" /\ m0' = m /\ snap' = snap /\ chat0' = chat0 /\ Asked' = n
  <2>1. proc'.pc = "sending" /\ proc'.msg = proc.msg /\ proc'.snap = proc.snap
    BY <1>4, <1>5 DEF Procs
  <2>2. QED
    BY <1>3, <2>1 DEF m0, snap, chat0, Asked
<1>13. LoopInv'
  <2>1. /\ snap.epoch <= epoch /\ row[m].epoch = snap.epoch /\ row[m].setting = snap.setting
        /\ \A k \in InChat(chat0) : k < m => row[k].st \notin Open
    BY <1>1, <1>3 DEF LoopInv
  <2>2. \A k \in InChat(chat0) : k < m => row'[k].st \notin Open
    BY <1>6, <2>1, AutoReplyAssumption DEF InChat
  <2>3. attempts'[m] # <<>>
    BY <1>3, EmptySeq
  <2>4. QED
    BY <1>4, <1>5, <1>6, <1>12, <2>1, <2>2, <2>3 DEF LoopInv, Preparing, Alike
<1>14. AskedInv'
  BY <1>3, <1>6, <1>12 DEF AskedInv
<1>15. QED
  BY <1>7, <1>9, <1>10, <1>11, <1>13, <1>14 DEF IInv

-----------------------------------------------------------------------------
(* The steps of Telegram, and the ends of a transmission *)

\* One transmission of m comes to be b.
Becomes(m, n, b) ==
  LET a == attempts[m][n] IN
  /\ b \in Transmissions /\ b.of = a.of /\ b.body = a.body
  /\ attempts' = [attempts EXCEPT ![m] = [@ EXCEPT ![n] = b]]
  /\ \/ b.st = a.st
     \/ a.st = "asked" /\ b.st \in {"pending", "refused"}
     \/ a.st = "pending" /\ b.st \in {"delivered", "failed", "deleted"}
     \/ a.st = "failed" /\ b.st = "deleted"
  /\ b.heard = "waiting" => a.heard = "waiting"
  /\ a.heard = "done" => b.heard = "done"

LEMMA BecomesFacts ==
  ASSUME TypeOK, DeliveryInv, NEW m \in Messages, NEW n \in DOMAIN attempts[m], NEW b,
         Becomes(m, n, b)
  PROVE  /\ attempts' \in [Messages -> Seq(Transmissions)]
         /\ TransmissionsAge /\ attempts'[m][n] = b
         /\ attempts[m][n].st \in {"asked", "pending", "delivered"} =>
              Reaching(m) = {n} /\ Reaching(m)' \subseteq {n}
         /\ b.st \notin {"asked", "pending", "delivered"} => n \notin Reaching(m)'
<1>1. /\ attempts' \in [Messages -> Seq(Transmissions)]
      /\ \A k \in Messages : DOMAIN attempts'[k] = DOMAIN attempts[k]
      /\ attempts'[m][n] = b
      /\ \A k \in Messages : \A i \in DOMAIN attempts[k] :
           k # m \/ i # n => attempts'[k][i] = attempts[k][i]
  BY OneChanged DEF Becomes
<1>2. TransmissionsAge
  BY <1>1 DEF TransmissionsAge, Becomes
<1>3. Reaching(m)' \subseteq Reaching(m)
  BY <1>1, <1>2 DEF Reaching, TransmissionsAge
<1>4. attempts[m][n].st \in {"asked", "pending", "delivered"} => Reaching(m) = {n}
  BY DEF DeliveryInv, Reaching
<1>5. QED
  BY <1>1, <1>2, <1>3, <1>4 DEF Reaching

LEMMA WaitingFacts ==
  ASSUME IInv, Waiting
  PROVE  /\ m0 \in Messages /\ m0 \in arrived /\ phase # "down"
         /\ Asked \in DOMAIN attempts[m0] /\ attempts[m0][Asked] \in Transmissions
         /\ row[m0] \in Rows
<1>1. /\ TypeOK /\ LoopInv
      /\ m0 \in Messages /\ m0 \in arrived /\ phase # "down" /\ row[m0] \in Rows
  BY WorkingFacts DEF IInv, Waiting
<1>2. attempts[m0] \in Seq(Transmissions) /\ attempts[m0] # <<>>
  BY <1>1 DEF TypeOK, LoopInv, Waiting
<1>3. Asked \in DOMAIN attempts[m0]
  BY <1>2, EmptySeq, LenProperties DEF Asked
<1>4. QED
  BY <1>1, <1>2, <1>3, ElementOfSeq, LenProperties

LEMMA SendFailsStep ==
  ASSUME IInv, SendFails
  PROVE  IInv' /\ TransmissionsAge
<1>1. Waiting
  BY DEF SendFails, FloodRefusal, Refusal, Forbidden, AnswerLost, SendAborted
<1>2. /\ TypeOK /\ DeliveryInv /\ AskedInv
      /\ row \in [Messages -> Rows] /\ setting \in [Chats -> Settings] /\ Idle \in Procs
  BY NothingType DEF IInv, TypeOK
<1>3. PICK m \in Messages, n \in DOMAIN attempts[m0] :
        m = m0 /\ n = Asked /\ m \in arrived /\ phase # "down"
        /\ attempts[m][n] \in Transmissions /\ row[m] \in Rows
        /\ n \in DOMAIN attempts[m]
  BY <1>1, WaitingFacts
<1>4. UNCHANGED <<session, expired, telegram>> /\ Return
  BY DEF SendFails, FloodRefusal, Refusal, Forbidden, AnswerLost, SendAborted
<1> DEFINE a == attempts[m][n]
           refused == [a EXCEPT !.heard = "done", !.st = "refused"]
           late == [a EXCEPT !.heard = "late"]
           done == [a EXCEPT !.heard = "done"]
<1>5. \A b \in {refused, late, done} :
        /\ b \in Transmissions /\ b.of = a.of /\ b.body = a.body
        /\ b.heard # "waiting" /\ (b.st = a.st \/ (b.st = "refused" /\ b = refused))
        /\ b = refused => b.st = "refused"
  BY <1>3 DEF Transmissions
<1>6. a.heard = "waiting"
  BY <1>1, <1>3 DEF Waiting
\* Whatever ends the wait, the transmission ages.
<1>7. PICK b \in {refused, late, done} :
        /\ attempts' = [attempts EXCEPT ![m] = [@ EXCEPT ![n] = b]]
        /\ FloodRefusal \/ Refusal \/ Forbidden => b = refused /\ a.st = "asked"
        /\ b = refused => a.st = "asked" \/ a.st = "refused"
  <2>1. CASE FloodRefusal \/ Refusal \/ Forbidden
    <3>1. attempts' = Refused /\ a.st = "asked"
      BY <1>3, <2>1 DEF FloodRefusal, Refusal, Forbidden
    <3>2. attempts = [k \in Messages |-> attempts[k]]
      BY <1>2 DEF TypeOK
    <3>3. Refused = [attempts EXCEPT ![m] = [attempts[m] EXCEPT ![n] = refused]]
      <4>1. Refused = [attempts EXCEPT ![m][n].heard = "done", ![m][n].st = "refused"]
        BY <1>3 DEF Refused
      <4>2. [attempts EXCEPT ![m][n].heard = "done", ![m][n].st = "refused"] =
              [attempts EXCEPT ![m] = [attempts[m] EXCEPT ![n] =
                 [attempts[m][n] EXCEPT !.heard = "done", !.st = "refused"]]]
        BY <1>3, <3>2
      <4>3. QED
        BY <4>1, <4>2
    <3>4. attempts' = [attempts EXCEPT ![m] = [@ EXCEPT ![n] = refused]]
      BY <3>1, <3>3
    <3> HIDE DEF refused, late, done
    <3>5. QED
      BY <3>1, <3>4
  <2>2. CASE (AnswerLost \/ SendAborted) /\ ~(FloodRefusal \/ Refusal \/ Forbidden)
    <3>1. \/ attempts' = [attempts EXCEPT ![m] = [@ EXCEPT ![n] = late]]
          \/ attempts' = [attempts EXCEPT ![m] = [@ EXCEPT ![n] = done]]
      BY <1>3, <2>2 DEF AnswerLost, SendAborted, Heard
    <3>2. late.st = a.st /\ done.st = a.st /\ refused.st = "refused"
      BY <1>3 DEF Transmissions
    <3>3. QED
      BY <2>2, <3>1, <3>2
  <2>3. QED
    BY <2>1, <2>2 DEF SendFails
<1>8. Becomes(m, n, b)
  <2>1. /\ b \in Transmissions /\ b.of = a.of /\ b.body = a.body /\ b.heard # "waiting"
        /\ b.st = a.st \/ (b.st = "refused" /\ b = refused)
    BY <1>5
  <2>2. b.st = a.st \/ (a.st = "asked" /\ b.st = "refused")
    BY <1>7, <2>1
  <2>3. QED
    BY <1>6, <1>7, <2>1, <2>2 DEF Becomes
<1>9. b = refused => b.st = "refused"
  BY <1>5
<1> HIDE DEF refused, late, done
<1>10. /\ attempts' \in [Messages -> Seq(Transmissions)]
       /\ TransmissionsAge
       /\ a.st \in {"asked", "pending", "delivered"} =>
            Reaching(m) = {n} /\ Reaching(m)' \subseteq {n}
       /\ b.st \notin {"asked", "pending", "delivered"} => n \notin Reaching(m)'
  BY <1>2, <1>3, <1>8, BecomesFacts
<1>11. CASE FloodRefusal
  <2>1. Reaching(m)' = {} /\ Reaching(m) # {}
    BY <1>7, <1>9, <1>10, <1>11
  <2>2. row[m].st = "sending"
    <3>1. Refusable
      BY <1>11 DEF FloodRefusal, Refusable, MayRetry
    <3>2. QED
      BY <1>2, <1>3, <3>1 DEF AskedInv
  <2>3. row' = [row EXCEPT ![m] = [row[m] EXCEPT !.st = "retry"]] /\ setting' = setting
    BY <1>3, <1>11 DEF FloodRefusal
  <2>4. /\ row'[m] = [row[m] EXCEPT !.st = "retry"]
        /\ \A k \in Messages : k # m => row'[k] = row[k]
    BY <1>2, <2>3
  <2>5. /\ row'[m].st = "retry" /\ Alike(m) /\ row'[m].incoming = row[m].incoming
        /\ row'[m].reply = row[m].reply /\ row'[m].temporary = row[m].temporary
        /\ row'[m] \in Rows
    BY <1>3, <2>4 DEF Alike, Rows, States, Open, Unsent
  <2>6. RowMoves(m)
    BY <2>1, <2>2, <2>5 DEF RowMoves, Open, Unsent, HandedOff
  <2>7. \A k \in Messages : RowEffect(k)
    BY <2>4, <2>6 DEF RowEffect
  <2>8. TypeOK'
    BY <1>2, <1>4, <1>10, <2>3, <2>5 DEF TypeOK, session, telegram, Return
  <2>9. QED
    BY <1>3, <1>4, <1>10, <2>7, <2>8, ReturnStep
<1>12. ASSUME NEW s \in {"failed", "unknown"}, Finish(m, s) \/ Pause(m, s),
              s = "failed" => b = refused /\ a.st = "asked"
       PROVE  IInv' /\ TransmissionsAge
  <2>1. s \in Final \cup {"unknown"} /\ s \in States /\ s # "succeeded"
    BY DEF Final, States
  <2>2. TypeOK'
    <3>1. row' \in [Messages -> Rows] /\ setting' \in [Chats -> Settings]
      BY <1>2, <1>12, <2>1, FinishType
    <3>2. QED
      BY <1>2, <1>4, <1>10, <3>1 DEF TypeOK, session, telegram, Return
  <2>3. /\ row'[m].st = s /\ Alike(m)
        /\ \A k \in Messages : k # m => row'[k] = row[k] \/ GivenUp(k)
    BY <1>2, <1>12, <2>1, FinishRows
  <2>4. s = "failed" => Reaching(m)' = {}
    BY <1>9, <1>10, <1>12
  <2>5. RowCloses(m)
    BY <1>3, <2>1, <2>3, <2>4 DEF RowCloses
  <2>6. \A k \in Messages : RowEffect(k)
    BY <1>2, <1>10, <2>2, <2>3, <2>5, GivenUpFacts DEF RowEffect
  <2>7. QED
    BY <1>3, <1>4, <1>10, <2>2, <2>6, ReturnStep
<1>13. CASE Refusal \/ Forbidden
  <2>1. Finish(m, "failed") \/ Pause(m, "failed")
    BY <1>3, <1>13 DEF Refusal, Forbidden
  <2>2. QED
    BY <1>7, <1>12, <1>13, <2>1
<1>14. CASE AnswerLost \/ SendAborted
  <2>1. Finish(m, "unknown")
    BY <1>3, <1>14 DEF AnswerLost, SendAborted
  <2>2. QED
    BY <1>12, <2>1
<1>15. QED
  BY <1>11, <1>13, <1>14 DEF SendFails

\* What the journal learns of a pending transmission.
LEMMA LearnFacts ==
  ASSUME TypeOK, DeliveryInv, NEW m \in Messages, NEW n \in DOMAIN attempts[m], NEW b,
         Becomes(m, n, b), attempts[m][n].st = "pending", NEW r, NEW canRetry \in BOOLEAN,
         b.st \in {"pending", "delivered", "failed"}, Result(r, m, n, b.st, canRetry)
  PROVE  /\ row' \in [Messages -> Rows] /\ setting' \in [Chats -> Settings]
         /\ RowEffect(m) /\ \A k \in Messages : k # m => row'[k] = row[k]
<1>1. /\ row \in [Messages -> Rows] /\ row[m] \in Rows /\ setting \in [Chats -> Settings]
      /\ n \in Nat /\ m \in arrived /\ n \in DOMAIN attempts'[m] /\ attempts'[m][n] = b
      /\ Reaching(m) = {n} /\ Reaching(m)' \subseteq {n}
      /\ b.st = "failed" => n \notin Reaching(m)'
  <2>1. attempts[m] \in Seq(Transmissions)
    BY DEF TypeOK
  <2>2. n \in Nat
    BY <2>1, LenProperties
  <2>3. attempts[m] # <<>>
    BY <2>1, EmptySeq, LenProperties
  <2>4. m \in arrived
    BY <2>3 DEF DeliveryInv
  <2>5. /\ TransmissionsAge /\ attempts'[m][n] = b
        /\ Reaching(m) = {n} /\ Reaching(m)' \subseteq {n}
        /\ b.st = "failed" => n \notin Reaching(m)'
    BY BecomesFacts
  <2>6. DOMAIN attempts'[m] = DOMAIN attempts[m]
    BY <2>5 DEF TransmissionsAge
  <2>7. QED
    BY <2>2, <2>4, <2>5, <2>6 DEF TypeOK
<1>2. row[m].st \in HandedOff \cup {"unknown", "succeeded"}
  BY <1>1 DEF DeliveryInv
<1> DEFINE again == canRetry /\ MayRetry(r, m) /\ row[m].st # "unknown"
           pending == IF row[m].st = "unknown" THEN "unknown" ELSE "pending"
<1>3. Learn(m, n, b.st, pending, again)
  BY DEF Result
<1>4. CASE row[m].st \in {"succeeded", "failed"}
  BY <1>1, <1>3, <1>4 DEF Learn, journal, RowEffect
<1>5. CASE row[m].st \notin {"succeeded", "failed"} /\ b.st = "delivered"
  <2>1. Finish(m, "succeeded")
    BY <1>3, <1>5 DEF Learn
  <2>2. "succeeded" \in Final \cup {"unknown"} /\ "succeeded" \in States
    BY DEF Final, States
  <2>3. row'[m].st = "succeeded" /\ Alike(m) /\ \A k \in Messages : k # m => row'[k] = row[k]
    BY <2>1, <2>2, FinishRows
  <2>4. RowCloses(m)
    BY <1>1, <1>5, <2>2, <2>3 DEF RowCloses
  <2>5. row' \in [Messages -> Rows] /\ setting' \in [Chats -> Settings]
    BY <2>1, <2>2, FinishType
  <2>6. QED
    BY <2>3, <2>4, <2>5 DEF RowEffect
<1>6. CASE row[m].st \notin {"succeeded", "failed"} /\ b.st \in {"pending", "failed"}
  <2> DEFINE new == IF b.st = "pending" THEN [row[m] EXCEPT !.st = pending]
                    ELSE IF again THEN [row[m] EXCEPT !.st = "retry"]
                    ELSE Clear(row[m], "failed")
  <2>1. row' = [row EXCEPT ![m] = [new EXCEPT !.temporary = n]] /\ setting' = setting
    BY <1>3, <1>6 DEF Learn
  <2>2. {pending, "retry", "failed"} \subseteq States
    BY DEF States, Open, Unsent, HandedOff, Final
  <2>3. new \in Rows /\ new.version = row[m].version /\ new.epoch = row[m].epoch
        /\ new.setting = row[m].setting
    <3>1. CASE b.st = "pending" \/ again
      BY <1>1, <2>2, <3>1 DEF Rows
    <3>2. CASE ~(b.st = "pending" \/ again)
      BY <1>1, <2>2, <3>2, ClearFacts
    <3>3. QED
      BY <3>1, <3>2
  <2>4. b.st = "pending" => new = [row[m] EXCEPT !.st = pending] /\ new.st = pending
                            /\ new.incoming = row[m].incoming /\ new.reply = row[m].reply
    BY <1>1 DEF Rows
  <2>5. b.st = "failed" /\ again =>
          /\ new.st = "retry" /\ new.incoming = row[m].incoming /\ new.reply = row[m].reply
    BY <1>1 DEF Rows
  <2>6. b.st = "failed" /\ ~again => new.st = "failed"
    BY <1>1, <2>2, ClearFacts
  <2> HIDE DEF new
  <2>7. /\ row'[m] \in Rows /\ row'[m].temporary = n /\ row'[m].st = new.st /\ Alike(m)
        /\ row'[m].incoming = new.incoming /\ row'[m].reply = new.reply
        /\ \A k \in Messages : k # m => row'[k] = row[k]
    <3>1. row'[m] = [new EXCEPT !.temporary = n] /\ \A k \in Messages : k # m => row'[k] = row[k]
      BY <1>1, <2>1
    <3>2. QED
      BY <1>1, <2>3, <3>1 DEF Rows, Alike
  <2>8. RowEffect(m)
    <3>1. CASE b.st = "failed" /\ ~again
      <4>1. Reaching(m)' = {} /\ row'[m].st = "failed"
        BY <1>1, <2>6, <2>7, <3>1
      <4>2. RowCloses(m)
        BY <1>1, <2>7, <4>1 DEF RowCloses, Final
      <4>3. QED
        BY <4>2 DEF RowEffect
    <3>2. CASE b.st = "pending" /\ row[m].st = "unknown"
      <4>1. RowRests(m)
        BY <2>4, <2>7, <3>2 DEF RowRests, Open, Unsent, HandedOff
      <4>2. QED
        BY <4>1 DEF RowEffect
    <3>3. CASE b.st = "pending" /\ row[m].st # "unknown"
      <4>1. row[m].st \in HandedOff /\ row'[m].st = "pending"
        BY <1>2, <1>6, <2>4, <2>7, <3>3
      <4>2. RowMoves(m)
        BY <1>1, <2>4, <2>7, <3>3, <4>1 DEF RowMoves, Open, Unsent, HandedOff
      <4>3. QED
        BY <4>2 DEF RowEffect
    <3>4. CASE b.st = "failed" /\ again
      <4>1. row[m].st \in HandedOff /\ row'[m].st = "retry" /\ Reaching(m)' = {}
        BY <1>1, <1>2, <1>6, <2>5, <2>7, <3>4
      <4>2. RowMoves(m)
        BY <1>1, <2>5, <2>7, <3>4, <4>1 DEF RowMoves, Open, Unsent, HandedOff
      <4>3. QED
        BY <4>2 DEF RowEffect
    <3>5. QED
      BY <1>6, <3>1, <3>2, <3>3, <3>4
  <2>9. row' = [row EXCEPT ![m] = row'[m]]
    BY <1>1, <2>1
  <2>10. row' \in [Messages -> Rows]
    BY <1>1, <2>7, <2>9
  <2>11. QED
    BY <1>1, <2>1, <2>7, <2>8, <2>10
<1>7. QED
  BY <1>4, <1>5, <1>6

\* The loop waits on while Telegram tells what became of a transmission.
LEMMA DeliveryStays ==
  ASSUME IInv, TypeOK', UNCHANGED <<session, expired, telegram>>, TransmissionsAge,
         \A m \in Messages : RowEffect(m), proc' = proc, Undisturbed
  PROVE  IInv'
<1>1. Effects /\ phase' = phase /\ epoch' = epoch /\ Serving' = Serving
  BY LoopEffects
<1>2. LoopStays
  BY <1>1 DEF LoopStays
<1>3. QED
  BY <1>1, <1>2, EffectsSuffice

\* What Telegram may still refuse is all that may reach the chat.
LEMMA RefusableAlone ==
  ASSUME IInv, Refusable
  PROVE  /\ m0 \in Messages /\ Asked \in DOMAIN attempts[m0] /\ Asked \in Nat
         /\ attempts[m0][Asked].of < Asked /\ attempts[m0][Asked].of \in Nat
         /\ row[m0].temporary = attempts[m0][Asked].of
         /\ \A n \in DOMAIN attempts[m0] :
              attempts[m0][n].st \in {"asked", "pending", "delivered"} => n = Asked
         /\ attempts[m0][Asked].st = "asked"
<1>1. TypeOK /\ DeliveryInv /\ AskedInv /\ Waiting
  BY DEF IInv, Refusable
<1>2. m0 \in Messages /\ Asked \in DOMAIN attempts[m0] /\ attempts[m0][Asked] \in Transmissions
  BY <1>1, WaitingFacts
<1>3. attempts[m0] \in Seq(Transmissions)
  BY <1>1, <1>2 DEF TypeOK
<1>4. Asked \in Nat /\ attempts[m0][Asked].of \in Nat
  BY <1>2, <1>3, LenProperties DEF Asked, Transmissions
<1>5. attempts[m0][Asked].st = "asked"
  BY DEF Refusable
<1>6. QED
  BY <1>1, <1>2, <1>4, <1>5 DEF DeliveryInv, AskedInv, Reaching

\* Another transmission than the one the loop waits for is none that may reach
\* the chat.
LEMMA OthersUndisturbed ==
  ASSUME IInv, NEW m \in Messages, NEW n \in DOMAIN attempts[m],
         attempts[m][n].st \in {"pending", "delivered"},
         \A k \in Messages : k # m => row'[k] = row[k]
  PROVE  Undisturbed
<1> SUFFICES ASSUME Refusable PROVE row'[m0] = row[m0]
  BY DEF Undisturbed
<1>1. m = m0 => n = Asked
  BY RefusableAlone
<1>2. m0 \in Messages /\ attempts[m0][Asked].st = "asked"
  BY RefusableAlone
<1>3. QED
  BY <1>1, <1>2

LEMMA AnswerStep ==
  ASSUME IInv, NEW m \in Messages, NEW n \in DOMAIN attempts[m], Answer(m, n)
  PROVE  IInv' /\ TransmissionsAge
<1>1. /\ TypeOK /\ DeliveryInv /\ ArrivalInv /\ Idle \in Procs /\ proc \in Procs
      /\ row \in [Messages -> Rows] /\ setting \in [Chats -> Settings]
  BY NothingType DEF IInv, TypeOK
<1>2. attempts[m][n] \in Transmissions /\ attempts = [k \in Messages |-> attempts[k]]
  <2>1. attempts[m] \in Seq(Transmissions)
    BY <1>1 DEF TypeOK
  <2>2. attempts[m][n] \in Transmissions
    BY <2>1, ElementOfSeq, LenProperties
  <2>3. QED
    BY <1>1, <2>2 DEF TypeOK
<1>3. UNCHANGED <<session, expired, telegram>> /\ attempts[m][n].st = "pending"
  BY DEF Answer
<1>4. PICK st \in {"pending", "delivered", "failed"}, canRetry \in BOOLEAN :
        /\ attempts' = [attempts EXCEPT ![m][n].heard = "done", ![m][n].st = st]
        /\ UNCHANGED journal \/ Result(row[m], m, n, st, canRetry)
  BY DEF Answer
<1> DEFINE b == [attempts[m][n] EXCEPT !.heard = "done", !.st = st]
<1>5. attempts' = [attempts EXCEPT ![m] = [@ EXCEPT ![n] = b]]
  <2>1. [attempts EXCEPT ![m][n].heard = "done", ![m][n].st = st] =
          [attempts EXCEPT ![m] = [attempts[m] EXCEPT ![n] =
             [attempts[m][n] EXCEPT !.heard = "done", !.st = st]]]
    BY <1>2
  <2>2. QED
    BY <1>4, <2>1
<1>6. /\ b \in Transmissions /\ b.of = attempts[m][n].of /\ b.body = attempts[m][n].body
      /\ b.heard = "done" /\ b.st = st
  BY <1>2 DEF Transmissions
<1> HIDE DEF b
<1>7. Becomes(m, n, b)
  BY <1>3, <1>4, <1>5, <1>6 DEF Becomes
<1>8. /\ attempts' \in [Messages -> Seq(Transmissions)] /\ TransmissionsAge
  BY <1>1, <1>7, BecomesFacts
<1>9. /\ row' \in [Messages -> Rows] /\ setting' \in [Chats -> Settings]
      /\ RowEffect(m) /\ \A k \in Messages : k # m => row'[k] = row[k]
  <2>1. CASE UNCHANGED journal
    BY <1>1, <2>1 DEF journal, RowEffect
  <2>2. CASE Result(row[m], m, n, st, canRetry)
    BY <1>1, <1>3, <1>4, <1>6, <1>7, <2>2, LearnFacts
  <2>3. QED
    BY <1>4, <2>1, <2>2
<1>10. \A k \in Messages : RowEffect(k)
  BY <1>9 DEF RowEffect
<1>11. proc' = proc \/ (Return /\ phase # "down")
  <2>1. attempts[m][n].heard = "waiting" => phase # "down"
    BY <1>1 DEF ArrivalInv
  <2>2. QED
    BY <2>1 DEF Answer
<1>12. TypeOK'
  BY <1>1, <1>3, <1>8, <1>9, <1>11 DEF TypeOK, session, telegram, Return
<1>13. Undisturbed
  BY <1>3, <1>9, OthersUndisturbed
<1>14. QED
  BY <1>3, <1>8, <1>10, <1>11, <1>12, <1>13, ReturnStep, DeliveryStays

\* An update about a reply that is pending, or has failed.
LEMMA UpdatedReplyStep ==
  ASSUME IInv, NEW m \in Messages, NEW n \in DOMAIN attempts[m],
         \/ DeleteReply(m, n)
         \/ \E st \in {"delivered", "failed"} : Outcome(m, n, st)
  PROVE  IInv' /\ TransmissionsAge
<1>1. /\ TypeOK /\ DeliveryInv
      /\ row \in [Messages -> Rows] /\ setting \in [Chats -> Settings]
  BY DEF IInv, TypeOK
<1>2. /\ attempts[m] \in Seq(Transmissions) /\ attempts[m][n] \in Transmissions
      /\ attempts = [k \in Messages |-> attempts[k]] /\ n \in Nat /\ n # 0
  <2>1. attempts[m] \in Seq(Transmissions)
    BY <1>1 DEF TypeOK
  <2>2. attempts[m][n] \in Transmissions /\ n \in Nat /\ n # 0
    BY <2>1, ElementOfSeq, LenProperties
  <2>3. QED
    BY <1>1, <2>1, <2>2 DEF TypeOK
<1>3. UNCHANGED <<session, expired, telegram>> /\ proc' = proc
  BY DEF DeleteReply, Outcome
<1>4. ASSUME NEW st \in {"delivered", "failed", "deleted"},
             attempts' = [attempts EXCEPT ![m][n].st = st],
             \/ attempts[m][n].st = "pending"
             \/ attempts[m][n].st = "failed" /\ st = "deleted"
      PROVE  \E b : Becomes(m, n, b) /\ b.st = st
  <2> DEFINE b == [attempts[m][n] EXCEPT !.st = st]
  <2>1. attempts' = [attempts EXCEPT ![m] = [@ EXCEPT ![n] = b]]
    BY <1>2, <1>4
  <2>2. /\ b \in Transmissions /\ b.of = attempts[m][n].of /\ b.body = attempts[m][n].body
        /\ b.heard = attempts[m][n].heard /\ b.st = st
    BY <1>2 DEF Transmissions
  <2> HIDE DEF b
  <2>3. Becomes(m, n, b)
    BY <1>4, <2>1, <2>2 DEF Becomes
  <2>4. QED
    BY <2>2, <2>3
<1>5. ASSUME NEW b, Becomes(m, n, b), RowEffect(m), Undisturbed,
             row' \in [Messages -> Rows], setting' \in [Chats -> Settings],
             \A k \in Messages : k # m => row'[k] = row[k]
      PROVE  IInv' /\ TransmissionsAge
  <2>1. attempts' \in [Messages -> Seq(Transmissions)] /\ TransmissionsAge
    BY <1>1, <1>5, BecomesFacts
  <2>2. TypeOK'
    BY <1>1, <1>3, <1>5, <2>1 DEF TypeOK, session, telegram
  <2>3. \A k \in Messages : RowEffect(k)
    BY <1>5 DEF RowEffect
  <2>4. QED
    BY <1>3, <1>5, <2>1, <2>2, <2>3, DeliveryStays
<1>6. ASSUME NEW st \in {"delivered", "failed"}, Outcome(m, n, st) PROVE IInv' /\ TransmissionsAge
  <2>1. PICK b : Becomes(m, n, b) /\ b.st = st
    BY <1>4, <1>6 DEF Outcome
  <2>2. /\ row' \in [Messages -> Rows] /\ setting' \in [Chats -> Settings]
        /\ RowEffect(m) /\ \A k \in Messages : k # m => row'[k] = row[k]
    <3>1. CASE UNCHANGED journal
      BY <1>1, <3>1 DEF journal, RowEffect
    <3>2. ASSUME NEW canRetry \in BOOLEAN, Result(row[m], m, n, st, canRetry)
          PROVE  /\ row' \in [Messages -> Rows] /\ setting' \in [Chats -> Settings]
                 /\ RowEffect(m) /\ \A k \in Messages : k # m => row'[k] = row[k]
      <4>1. attempts[m][n].st = "pending"
        BY <1>6 DEF Outcome
      <4>2. QED
        BY <1>1, <2>1, <3>2, <4>1, LearnFacts
    <3>3. QED
      BY <1>6, <3>1, <3>2 DEF Outcome
  <2>3. Undisturbed
    BY <1>6, <2>2, OthersUndisturbed DEF Outcome
  <2>4. QED
    BY <1>5, <2>1, <2>2, <2>3
<1>7. CASE DeleteReply(m, n)
  <2>1. PICK b : Becomes(m, n, b) /\ b.st = "deleted"
    BY <1>4, <1>7 DEF DeleteReply
  <2>2. /\ attempts[m] # <<>> /\ m \in arrived
    <3>1. attempts[m] # <<>>
      BY <1>2, EmptySeq, LenProperties
    <3>2. QED
      BY <1>1, <3>1 DEF DeliveryInv
  <2>3. /\ row' \in [Messages -> Rows] /\ setting' \in [Chats -> Settings]
        /\ RowEffect(m) /\ \A k \in Messages : k # m => row'[k] = row[k]
        /\ row'[m] = row[m] \/ row[m].temporary = n
    <3>1. CASE UNCHANGED journal
      BY <1>1, <3>1 DEF journal, RowEffect
    <3>2. CASE Finish(m, "unknown") /\ row[m].temporary = n
      <4>1. "unknown" \in Final \cup {"unknown"} /\ "unknown" \in States
        BY DEF States
      <4>2. row' \in [Messages -> Rows] /\ setting' \in [Chats -> Settings]
        BY <1>1, <3>2, <4>1, FinishType
      <4>3. row'[m].st = "unknown" /\ Alike(m) /\ \A k \in Messages : k # m => row'[k] = row[k]
        BY <1>1, <3>2, <4>1, FinishRows
      <4>4. RowCloses(m)
        BY <2>2, <4>1, <4>3 DEF RowCloses
      <4>5. QED
        BY <3>2, <4>2, <4>3, <4>4 DEF RowEffect
    <3>3. QED
      BY <1>7, <3>1, <3>2 DEF DeleteReply
  <2>4. Undisturbed
    <3>1. CASE attempts[m][n].st = "pending"
      BY <2>3, <3>1, OthersUndisturbed
    <3>2. CASE attempts[m][n].st = "failed"
      <4> SUFFICES ASSUME Refusable, Refusable', row'[m0] # row[m0] PROVE FALSE
        BY DEF Undisturbed
      <4>1. /\ m0 \in Messages /\ Asked \in DOMAIN attempts[m0] /\ attempts[m0][Asked].st = "asked"
            /\ row[m0].temporary = attempts[m0][Asked].of
        BY RefusableAlone
      <4>2. m = m0 /\ attempts[m][Asked].of = n /\ n # Asked
        BY <2>3, <3>2, <4>1
      <4>3. TransmissionsAge /\ attempts'[m][n] = b
        BY <1>1, <2>1, BecomesFacts
      <4>4. Len(attempts'[m]) = Len(attempts[m])
        <5>1. attempts' \in [Messages -> Seq(Transmissions)]
          BY <1>1, <2>1, BecomesFacts
        <5>2. attempts'[m] \in Seq(Transmissions) /\ DOMAIN attempts'[m] = DOMAIN attempts[m]
          BY <4>3, <5>1 DEF TransmissionsAge
        <5>3. QED
          BY <1>2, <5>2, LenProperties
      <4>5. Asked' = Asked /\ m0' = m
        BY <1>3, <4>2, <4>4 DEF Asked, m0
      <4>6. attempts'[m][Asked].of = n
        BY <4>1, <4>2, <4>3 DEF TransmissionsAge
      <4>7. attempts'[m][n].st = "failed"
        BY <1>2, <4>5, <4>6 DEF Refusable
      <4>8. QED
        BY <2>1, <4>3, <4>7
    <3>3. QED
      BY <1>7, <3>1, <3>2 DEF DeleteReply
  <2>5. QED
    BY <1>5, <2>1, <2>3, <2>4
<1>8. QED
  BY <1>6, <1>7

LEMMA CreatedFacts ==
  ASSUME TypeOK, DeliveryInv, NEW m \in Messages, NEW n \in DOMAIN attempts[m], Created(m, n)
  PROVE  /\ attempts' \in [Messages -> Seq(Transmissions)]
         /\ Len(attempts'[m]) = Len(attempts[m])
         /\ attempts'[m][n].st = "pending" /\ TransmissionsAge
<1> DEFINE s == attempts[m]
           a == s[n]
           f == [k \in DOMAIN s |-> IF k = n THEN [s[k] EXCEPT !.st = "pending"]
                                    ELSE IF k = a.of THEN [s[k] EXCEPT !.st = "deleted"]
                                    ELSE s[k]]
<1>1. /\ s \in Seq(Transmissions) /\ DOMAIN s = 1 .. Len(s) /\ Len(s) \in Nat
      /\ \A k \in DOMAIN s : s[k] \in Transmissions
  BY LenProperties, ElementOfSeq DEF TypeOK
<1>2. /\ a.st = "asked" /\ (a.of # 0 => s[a.of].st = "failed")
      /\ attempts' = [attempts EXCEPT ![m] = f]
  BY DEF Created
<1>3. \A k \in DOMAIN s :
        /\ [s[k] EXCEPT !.st = "pending"] \in Transmissions
        /\ [s[k] EXCEPT !.st = "deleted"] \in Transmissions
  BY <1>1 DEF Transmissions
<1>4. f \in [1 .. Len(s) -> Transmissions]
  BY <1>1, <1>3
<1>5. f \in Seq(Transmissions) /\ Len(f) = Len(s) /\ DOMAIN f = DOMAIN s
  BY <1>1, <1>4, FunctionSeq
<1>6. /\ attempts' \in [Messages -> Seq(Transmissions)] /\ attempts'[m] = f
      /\ \A k \in Messages : k # m => attempts'[k] = attempts[k]
  <2> HIDE DEF f
  <2>1. QED
    BY <1>2, <1>5 DEF TypeOK
<1>7. \A k \in DOMAIN s :
        /\ f[k].of = s[k].of /\ f[k].body = s[k].body /\ f[k].heard = s[k].heard
        /\ \/ f[k].st = s[k].st
           \/ s[k].st = "asked" /\ f[k].st = "pending"
           \/ s[k].st = "failed" /\ f[k].st = "deleted"
  <2> SUFFICES ASSUME NEW k \in DOMAIN s
               PROVE  /\ f[k].of = s[k].of /\ f[k].body = s[k].body /\ f[k].heard = s[k].heard
                      /\ \/ f[k].st = s[k].st
                         \/ s[k].st = "asked" /\ f[k].st = "pending"
                         \/ s[k].st = "failed" /\ f[k].st = "deleted"
    OBVIOUS
  <2>1. CASE k = n
    <3>1. f[k] = [s[k] EXCEPT !.st = "pending"]
      BY <2>1
    <3>2. QED
      BY <1>1, <1>2, <2>1, <3>1 DEF Transmissions
  <2>2. CASE k # n /\ k = a.of
    <3>1. f[k] = [s[k] EXCEPT !.st = "deleted"] /\ k # 0
      BY <1>1, <2>2
    <3>2. s[k].st = "failed"
      BY <1>2, <2>2, <3>1
    <3>3. QED
      BY <1>1, <3>1, <3>2 DEF Transmissions
  <2>3. CASE k # n /\ k # a.of
    BY <2>3
  <2>4. QED
    BY <2>1, <2>2, <2>3
<1>8. f[n].st = "pending"
  <2>1. f[n] = [s[n] EXCEPT !.st = "pending"]
    OBVIOUS
  <2>2. QED
    BY <1>1, <2>1 DEF Transmissions
<1> HIDE DEF f
<1>9. TransmissionsAge
  <2> SUFFICES ASSUME NEW k \in Messages
               PROVE  /\ DOMAIN attempts'[k] = DOMAIN attempts[k]
                      /\ \A i \in DOMAIN attempts[k] :
                           LET x == attempts[k][i]
                               y == attempts'[k][i]
                           IN /\ y.of = x.of /\ y.body = x.body
                              /\ \/ y.st = x.st
                                 \/ x.st = "asked" /\ y.st \in {"pending", "refused"}
                                 \/ x.st = "pending" /\ y.st \in {"delivered", "failed", "deleted"}
                                 \/ x.st = "failed" /\ y.st = "deleted"
                              /\ y.heard = x.heard
    BY DEF TransmissionsAge
  <2>1. CASE k # m
    BY <1>6, <2>1
  <2>2. CASE k = m
    BY <1>5, <1>6, <1>7, <2>2
  <2>3. QED
    BY <2>1, <2>2
<1>10. QED
  BY <1>5, <1>6, <1>8, <1>9

LEMMA CreatedStep ==
  ASSUME IInv, NEW m \in Messages, NEW n \in DOMAIN attempts[m], Created(m, n)
  PROVE  IInv'
<1>1. /\ TypeOK /\ DeliveryInv
      /\ row \in [Messages -> Rows] /\ row[m] \in Rows /\ setting \in [Chats -> Settings]
  BY DEF IInv, TypeOK
<1>2. UNCHANGED <<session, expired, telegram>> /\ proc' = proc /\ attempts[m][n].st = "asked"
  BY DEF Created
<1>3. /\ attempts' \in [Messages -> Seq(Transmissions)]
      /\ Len(attempts'[m]) = Len(attempts[m])
      /\ attempts'[m][n].st = "pending" /\ TransmissionsAge
  BY <1>1, CreatedFacts
<1>4. attempts[m] # <<>> /\ n \in Nat /\ n # 0 /\ m \in arrived
  <2>1. attempts[m] \in Seq(Transmissions)
    BY <1>1 DEF TypeOK
  <2>2. attempts[m] # <<>> /\ n \in Nat /\ n # 0
    BY <2>1, EmptySeq, LenProperties
  <2>3. QED
    BY <1>1, <2>2 DEF DeliveryInv
<1>5. n \in Reaching(m) /\ row[m].st \in HandedOff \cup {"unknown", "succeeded"}
  BY <1>1, <1>2 DEF Reaching, DeliveryInv
<1>6. /\ row' \in [Messages -> Rows] /\ setting' \in [Chats -> Settings]
      /\ RowEffect(m) /\ \A k \in Messages : k # m => row'[k] = row[k]
  <2>1. CASE UNCHANGED journal
    BY <1>1, <2>1 DEF journal, RowEffect
  <2>2. CASE row' = [row EXCEPT ![m].temporary = n] /\ UNCHANGED setting
    <3>1. row'[m] = [row[m] EXCEPT !.temporary = n]
          /\ \A k \in Messages : k # m => row'[k] = row[k]
      BY <1>1, <2>2
    <3>2. /\ row'[m] \in Rows /\ row'[m].st = row[m].st /\ Alike(m)
          /\ row'[m].incoming = row[m].incoming /\ row'[m].reply = row[m].reply
          /\ row'[m].temporary = n
      BY <1>1, <1>4, <3>1 DEF Rows, Alike
    <3>3. RowEffect(m)
      <4>1. CASE row[m].st \in Open
        <5>1. row[m].st \in HandedOff
          BY <1>5, <4>1 DEF Open, Unsent, HandedOff
        <5>2. RowMoves(m)
          BY <1>5, <3>2, <4>1, <5>1 DEF RowMoves, Unsent, HandedOff
        <5>3. QED
          BY <5>2 DEF RowEffect
      <4>2. CASE row[m].st \notin Open
        BY <3>2, <4>2 DEF RowEffect, RowRests
      <4>3. QED
        BY <4>1, <4>2
    <3>4. row' \in [Messages -> Rows]
      BY <1>1, <2>2, <3>1, <3>2
    <3>5. QED
      BY <1>1, <2>2, <3>1, <3>3, <3>4
  <2>3. CASE Finish(m, "unknown")
    <3>1. "unknown" \in Final \cup {"unknown"} /\ "unknown" \in States
      BY DEF States
    <3>2. row' \in [Messages -> Rows] /\ setting' \in [Chats -> Settings]
      BY <1>1, <2>3, <3>1, FinishType
    <3>3. row'[m].st = "unknown" /\ Alike(m) /\ \A k \in Messages : k # m => row'[k] = row[k]
      BY <1>1, <2>3, <3>1, FinishRows
    <3>4. RowCloses(m)
      BY <1>4, <3>1, <3>3 DEF RowCloses
    <3>5. QED
      BY <3>2, <3>3, <3>4 DEF RowEffect
  <2>4. QED
    BY <2>1, <2>2, <2>3 DEF Created
<1>7. TypeOK'
  BY <1>1, <1>2, <1>3, <1>6 DEF TypeOK, session, telegram
<1>8. \A k \in Messages : RowEffect(k)
  BY <1>6 DEF RowEffect
<1>9. Undisturbed
  <2> SUFFICES ASSUME Refusable, Refusable', m0 = m PROVE FALSE
    <3>1. Refusable => m0 \in Messages
      BY RefusableAlone
    <3>2. QED
      BY <1>6, <3>1 DEF Undisturbed
  <2>1. n = Asked
    BY <1>2, RefusableAlone
  <2>2. m0' = m /\ Asked' = Asked
    BY <1>2, <1>3 DEF m0, Asked
  <2>3. attempts'[m][n].st = "asked"
    BY <2>1, <2>2 DEF Refusable
  <2>4. QED
    BY <1>3, <2>3
<1>10. QED
  BY <1>2, <1>3, <1>7, <1>8, <1>9, DeliveryStays

-----------------------------------------------------------------------------
(* Theorems *)

LEMMA InitInv == Init => IInv
<1> SUFFICES ASSUME Init PROVE IInv
  OBVIOUS
<1>1. TypeOK
  <2>1. [enabled |-> FALSE, version |-> 0, mode |-> "disabled"] \in Settings
    BY AutoReplyAssumption DEF Settings
  <2>2. {1} \subseteq 0 .. MaxEdits /\ {1} \subseteq 1 .. MaxFacts /\ 0 \in 0 .. MaxEpochs
    BY AutoReplyAssumption
  <2>3. <<>> \in Seq(Transmissions)
    BY EmptySeq
  <2>4. QED
    BY <2>1, <2>2, <2>3, NothingType DEF Init, TypeOK
<1>2. \A m \in Messages : row[m].st = "none" /\ attempts[m] = <<>> /\ Reaching(m) = {}
                          /\ DOMAIN attempts[m] = {}
  <2>1. \A m \in Messages : attempts[m] = <<>> /\ row[m].st = "none"
    BY DEF Init, NoRow
  <2>2. QED
    BY <2>1 DEF Reaching
<1>3. DeliveryInv
  BY <1>2 DEF DeliveryInv, Open, Unsent, HandedOff
<1>4. BodyInv
  BY <1>2 DEF BodyInv, Init, Open, Unsent, HandedOff
<1>5. ArrivalInv
  BY DEF ArrivalInv, Init
<1>6. LoopInv /\ AskedInv
  BY DEF Init, Idle, LoopInv, Preparing, Unchallenged, AskedInv, Refusable, Waiting
<1>7. QED
  BY <1>1, <1>3, <1>4, <1>5, <1>6 DEF IInv

LEMMA StutterInv == ASSUME IInv, UNCHANGED vars PROVE IInv'
<1>1. TypeOK'
  BY DEF IInv, TypeOK, vars, journal, session, telegram
<1>2. TransmissionsAge /\ \A m \in Messages : RowEffect(m)
  BY Unchanging DEF vars, journal, RowEffect
<1>3. UNCHANGED <<session, expired, telegram>> /\ proc' = proc /\ Undisturbed
  BY DEF vars, journal, Undisturbed
<1>4. QED
  BY <1>1, <1>2, <1>3, DeliveryStays

LEMMA NextInv == ASSUME IInv, Next PROVE IInv'
<1>1. CASE Sync \/ LoggingOut \/ Close \/ Restart \/ \E c \in Chats : Configure(c)
  BY <1>1, SessionStep
<1>2. CASE \/ \E c \in Chats : Rebuild(c)
           \/ \E m \in Messages :
                Edit(m) \/ Delete(m) \/ EditUpdate(m) \/ DeleteUpdate(m) \/ DeadlinePasses(m)
  BY <1>2, UpdateStep
<1>3. CASE Sweep \/ RecheckEnds \/ \E c \in Chats : RecheckBegins(c)
  BY <1>3, SweepStep
<1>4. ASSUME NEW m \in Messages, Receive(m) \/ Begin(m) PROVE IInv'
  BY <1>4, ReceiveStep, BeginStep
<1>5. ASSUME NEW m \in Messages, NEW n \in DOMAIN attempts[m], Delivery(m, n) PROVE IInv'
  BY <1>5, AnswerStep, UpdatedReplyStep, CreatedStep DEF Delivery
<1>6. CASE Process
  <2>1. CASE ReadIncoming
    BY <2>1, AdvanceStep, LeaveStep
  <2>2. QED
    BY <1>6, <2>1, AdvanceStep, LeaveStep, SendStep DEF Process
<1>7. CASE SendFails
  BY <1>7, SendFailsStep
<1>8. CASE Crash
  BY <1>8, CrashStep
<1>9. QED
  BY <1>1, <1>2, <1>3, <1>4, <1>5, <1>6, <1>7, <1>8 DEF Next

\* The invariant that the theorems below rest on: what journal, loop and Telegram
\* tell of each other at every step of every run.
THEOREM Invariance == Spec => []IInv
<1>1. IInv /\ [Next]_vars => IInv'
  BY NextInv, StutterInv
<1>2. QED
  BY <1>1, InitInv, PTL DEF Spec

\* Rows, settings, the locals of the loop and the transmissions keep their types.
THEOREM TypeCorrect == Spec => []TypeOK
<1>1. IInv => TypeOK
  BY DEF IInv
<1>2. QED
  BY <1>1, Invariance, PTL

\* At most one reply to a message can reach the chat, however answers are lost or
\* late, waits are aborted, flood waits are retried, and the process restarts.
THEOREM AtMostOneReply == Spec => []OneReply
<1>1. ASSUME IInv, NEW m \in Messages PROVE Cardinality(Reaching(m)) <= 1
  <2>1. \A n, k \in Reaching(m) : n = k
    BY <1>1 DEF IInv, DeliveryInv
  <2>2. CASE Reaching(m) = {}
    BY <2>2, FS_EmptySet
  <2>3. ASSUME NEW n \in Reaching(m) PROVE Cardinality(Reaching(m)) <= 1
    <3>1. Reaching(m) = {n}
      BY <2>1, <2>3
    <3>2. QED
      BY <3>1, FS_Singleton
  <2>4. QED
    BY <2>2, <2>3
<1>2. IInv => OneReply
  BY <1>1 DEF OneReply
<1>3. QED
  BY <1>2, Invariance, PTL

\* What the journal counts as succeeded was delivered, what it counts as failed
\* was not and cannot be; and no intent stays open once the session is over.
THEOREM TruthfulJournal == Spec => []JournalTellsTheTruth
<1>1. ASSUME IInv, NEW m \in Messages
      PROVE  /\ row[m].st = "succeeded" =>
                  \E n \in DOMAIN attempts[m] : attempts[m][n].st = "delivered"
             /\ row[m].st = "failed" =>
                  \A n \in DOMAIN attempts[m] :
                    attempts[m][n].st \in {"failed", "refused", "deleted"}
             /\ row[m].st \in Open => Serving \/ phase = "down"
  <2>1. /\ Reaching(m) # {} => row[m].st \in HandedOff \cup {"unknown", "succeeded"}
        /\ row[m].st = "succeeded" =>
             \E n \in DOMAIN attempts[m] : attempts[m][n].st = "delivered"
        /\ row[m].st \in Open => Serving \/ phase = "down"
    BY <1>1 DEF IInv, DeliveryInv
  <2>2. ASSUME row[m].st = "failed", NEW n \in DOMAIN attempts[m]
        PROVE  attempts[m][n].st \in {"failed", "refused", "deleted"}
    <3>1. attempts[m] \in Seq(Transmissions)
      BY <1>1 DEF IInv, TypeOK
    <3>2. attempts[m][n] \in Transmissions
      BY <2>2, <3>1, ElementOfSeq, LenProperties
    <3>3. Reaching(m) = {}
      BY <2>1, <2>2 DEF HandedOff
    <3>4. QED
      BY <2>2, <3>2, <3>3 DEF Reaching, Transmissions
  <2>3. QED
    BY <2>1, <2>2
<1>2. IInv => JournalTellsTheTruth
  BY <1>1 DEF JournalTellsTheTruth
<1>3. QED
  BY <1>2, Invariance, PTL

\* Only the final admission hands a reply over, and only that of the message the
\* loop works on.
LEMMA SendsBySend ==
  ASSUME IInv, [Next]_vars, NEW m \in Messages, Sends(m)
  PROVE  Send /\ m = m0
<1>1. ~TransmissionsAge
  <2> SUFFICES ASSUME TransmissionsAge PROVE FALSE
    OBVIOUS
  <2>1. TypeOK /\ TypeOK'
    BY NextInv, StutterInv DEF IInv
  <2>2. Len(attempts'[m]) = Len(attempts[m]) /\ Len(attempts[m]) \in Nat
    BY <2>1, AgeFacts, LenProperties DEF TypeOK
  <2>3. QED
    BY <2>2 DEF Sends
<1>2. attempts' # attempts
  BY <1>1, Unchanging
<1>3. Next
  BY <1>2 DEF vars
<1>4. TypeOK /\ DeliveryInv
  BY DEF IInv
<1>5. ASSUME NEW k \in Messages, NEW n \in DOMAIN attempts[k] PROVE ~Delivery(k, n)
  BY <1>1, <1>4, AnswerStep, UpdatedReplyStep, CreatedFacts DEF Delivery
<1>6. ~SendFails
  BY <1>1, SendFailsStep
<1>7. ~Crash
  <2> SUFFICES ASSUME Crash PROVE FALSE
    OBVIOUS
  <2>1. TransmissionsAge
    BY <1>4, CrashAges
  <2>2. QED
    BY <1>1, <2>1
<1>8. Send
  BY <1>2, <1>3, <1>5, <1>6, <1>7
     DEF Next, Process, Sync, LoggingOut, Close, Restart, Configure, Rebuild, RecheckBegins,
         Receive, Edit, Delete, EditUpdate, DeleteUpdate, DeadlinePasses, Begin, Sweep,
         RecheckEnds, ReadIncoming, Compose, Reread, Dismiss, Fail
<1>9. PICK k \in Messages : k = m0 /\ \A i \in Messages : i # k => attempts'[i] = attempts[i]
  BY <1>8, SendFacts
<1>10. m = m0
  <2>1. attempts[m] \in Seq(Transmissions)
    BY <1>4 DEF TypeOK
  <2>2. ~(Len(attempts[m]) > Len(attempts[m]))
    BY <2>1, LenProperties
  <2>3. QED
    BY <1>9, <2>2 DEF Sends
<1>11. QED
  BY <1>8, <1>10

\* What the loop knows when it hands the reply over is still so.
LEMMA SendConsent ==
  ASSUME IInv, [Next]_vars, NEW m \in Messages, Sends(m)
  PROVE  /\ Serving /\ row[m].epoch = epoch /\ ~expired[m]
         /\ setting[Chat[m]].enabled /\ setting[Chat[m]].version = row[m].setting
         /\ seen[m] # 0 /\ Latest(m).body.text >= seen[m]
         /\ attempts[m] = <<>> => Latest(m).body.facts \in {0, facts[Chat[m]]}
<1>1. Send /\ m = m0
  BY SendsBySend
<1>2. /\ Serving /\ snap.epoch = epoch /\ ~expired[m] /\ row[m].st \in Unsent
      /\ row[m].version = snap.version
      /\ setting[Chat[m]].enabled /\ setting[Chat[m]].version = snap.setting
      /\ proc.pc = "admitting" /\ proc.fresh = proc.incoming
      /\ proc.facts # 0 => facts[Chat[m]] = proc.facts
  BY <1>1 DEF Send, Valid, chat0
<1>3. Preparing /\ Unchallenged /\ LoopInv
  BY <1>1, <1>2 DEF Preparing, Unchallenged, IInv
<1>4. /\ row[m].epoch = snap.epoch /\ row[m].setting = snap.setting
      /\ row[m].incoming = snap.incoming /\ proc.incoming = snap.incoming
      /\ seen[m] # 0 /\ seen[m] <= proc.fresh
      /\ snap.reply # Nothing => attempts[m] # <<>>
      /\ snap.reply = Nothing => proc.body.facts \in {0, proc.facts}
  BY <1>1, <1>2, <1>3 DEF LoopInv
<1>5. PICK k \in Messages, a \in Transmissions :
        /\ k = m0 /\ Len(attempts'[k]) = Len(attempts[k]) + 1
        /\ attempts'[k][Len(attempts[k]) + 1] = a
        /\ a.body.text = row[k].incoming
        /\ attempts[k] = <<>> => a.body = proc.body
  BY <1>1, SendFacts
<1>6. Latest(m) = a /\ k = m
  BY <1>1, <1>5 DEF Latest
<1>7. Latest(m).body.text = row[m].incoming
      /\ (attempts[m] = <<>> => Latest(m).body = proc.body)
  BY <1>5, <1>6
<1>8. Latest(m).body.text >= seen[m]
  <2>1. Latest(m).body.text = proc.fresh
    BY <1>2, <1>4, <1>7
  <2>2. proc.fresh \in Nat /\ seen[m] \in Nat
    BY <1>1, <1>3, WorkingFacts
  <2>3. QED
    BY <1>4, <2>1, <2>2
<1>9. attempts[m] = <<>> => Latest(m).body.facts \in {0, facts[Chat[m]]}
  BY <1>2, <1>4, <1>7
<1>10. QED
  BY <1>2, <1>4, <1>8, <1>9

\* A reply is handed over only with consent that still stands: the session, the
\* switch, the deadline, the text and the summary are what they were taken for.
THEOREM RepliesWithConsent == Spec => ConsentedSend
<1>1. IInv /\ [Next]_vars =>
        [\A m \in Messages : Sends(m) =>
           /\ Serving /\ row[m].epoch = epoch /\ ~expired[m]
           /\ setting[Chat[m]].enabled /\ setting[Chat[m]].version = row[m].setting
           /\ seen[m] # 0 /\ Latest(m).body.text >= seen[m]
           /\ attempts[m] = <<>> => Latest(m).body.facts \in {0, facts[Chat[m]]}]_vars
  BY SendConsent
<1>2. QED
  BY <1>1, Invariance, PTL DEF Spec, ConsentedSend

\* In a chat no reply overtakes one to an earlier message.
THEOREM RepliesInOrder == Spec => InChatOrder
<1>1. ASSUME IInv, [Next]_vars, NEW m \in Messages, Sends(m),
             NEW k \in InChat(Chat[m]), k < m
      PROVE  row[k].st \notin Open
  <2>1. Send /\ m = m0
    BY <1>1, SendsBySend
  <2>2. Preparing /\ LoopInv
    BY <1>1, <2>1 DEF Send, Preparing, IInv
  <2>3. \A i \in InChat(chat0) : i < m0 => row[i].st \notin Open
    BY <2>2 DEF LoopInv
  <2>4. QED
    BY <1>1, <2>1, <2>3 DEF chat0
<1>2. IInv /\ [Next]_vars =>
        [\A m \in Messages : Sends(m) =>
           \A k \in InChat(Chat[m]) : k < m => row[k].st \notin Open]_vars
  BY <1>1
<1>3. QED
  BY <1>2, Invariance, PTL DEF Spec, InChatOrder

-----------------------------------------------------------------------------
(***************************************************************************)
(* The summaries                                                           *)
(***************************************************************************)

-----------------------------------------------------------------------------
(* The queue of ModelScheduler *)

\* A set of numbers that is not empty has a least element.
LEMMA LeastNumber ==
  ASSUME NEW S \in SUBSET Nat, S # {}
  PROVE  \E m \in S : \A k \in S : m <= k
<1> DEFINE R == OpToRel(<, Nat)
<1>1. PICK m \in S : \A k \in S : <<k, m>> \notin R
  BY NatLessThanWellFounded, WFMin
<1>2. ASSUME NEW k \in S PROVE m <= k
  <2>1. m \in Nat /\ k \in Nat
    OBVIOUS
  <2>2. ~(k < m)
    BY <1>1 DEF OpToRel
  <2>3. QED
    BY <2>2
<1>3. QED
  BY <1>2

\* Min, by the same theorem.
LEMMA MinFacts ==
  ASSUME NEW S \in SUBSET Nat, S # {}
  PROVE  Min(S) \in S
BY LeastNumber DEF Min

\* What Only does with an entry, and the values it has had after m of them.
\* The function in Only exists, and yields entries of these kinds only.
Picked(q, kinds, i, t) == IF q[i] \in kinds THEN Append(t, q[i]) ELSE t
Picks(q, kinds, m) ==
  {f \in [0..m -> Seq(kinds)] :
     f[0] = <<>> /\ \A i \in 1..m : f[i] = Picked(q, kinds, i, f[i - 1])}

LEMMA PickedType ==
  ASSUME NEW q, NEW kinds, NEW i, NEW t \in Seq(kinds)
  PROVE  Picked(q, kinds, i, t) \in Seq(kinds)
BY DEF Picked

LEMMA PicksExist ==
  ASSUME NEW q, NEW kinds, NEW n \in Nat
  PROVE  Picks(q, kinds, n) # {}
<1> DEFINE B == {m \in Nat : Picks(q, kinds, m) = {}}
<1> SUFFICES ASSUME B # {} PROVE FALSE
  OBVIOUS
<1>1. PICK m \in B : \A k \in B : m <= k
  BY LeastNumber
<1>2. CASE m = 0
  <2>1. [i \in 0..0 |-> <<>>] \in Picks(q, kinds, 0)
    OBVIOUS
  <2>2. QED
    BY <1>2, <2>1
<1>3. CASE m # 0
  <2>1. m - 1 \in Nat /\ m - 1 \notin B
    BY <1>1, <1>3
  <2>2. PICK f : f \in Picks(q, kinds, m - 1)
    BY <2>1
  <2> DEFINE g == [i \in 0..m |-> IF i = m THEN Picked(q, kinds, m, f[m - 1]) ELSE f[i]]
  <2>3. f \in [0..m - 1 -> Seq(kinds)] /\ f[0] = <<>>
        /\ \A i \in 1..m - 1 : f[i] = Picked(q, kinds, i, f[i - 1])
    BY <2>2 DEF Picks
  <2>4. Picked(q, kinds, m, f[m - 1]) \in Seq(kinds)
    BY <2>1, <2>3, PickedType
  <2>5. g \in [0..m -> Seq(kinds)]
    BY <2>3, <2>4
  <2>6. g[0] = <<>>
    BY <1>3, <2>3
  <2>7. ASSUME NEW i \in 1..m PROVE g[i] = Picked(q, kinds, i, g[i - 1])
    <3>1. g[i - 1] = f[i - 1]
      OBVIOUS
    <3>2. CASE i = m
      BY <3>2
    <3>3. CASE i # m
      <4>1. i \in 1..m - 1 /\ i - 1 \in 0..m /\ g[i] = f[i]
        BY <3>3
      <4>2. QED
        BY <2>3
    <3>4. QED
      BY <3>3
  <2>8. g \in Picks(q, kinds, m)
    BY <2>5, <2>6, <2>7 DEF Picks
  <2>9. QED
    BY <2>8
<1>4. QED
  BY <1>2, <1>3

LEMMA OnlyType ==
  ASSUME NEW S, NEW q \in Seq(S), NEW kinds
  PROVE  Only(q, kinds) \in Seq(kinds)
<1> DEFINE n == Len(q)
           Is(f) == f = [i \in 0..n |->
                           IF i = 0 THEN <<>>
                           ELSE IF q[i] \in kinds THEN Append(f[i - 1], q[i]) ELSE f[i - 1]]
           F == CHOOSE f : Is(f)
<1>1. n \in Nat
  OBVIOUS
<1>2. PICK f : f \in Picks(q, kinds, n)
  BY PicksExist
<1>3. Is(f)
  <2>1. DOMAIN f = 0..n /\ f = [i \in 0..n |-> f[i]] /\ f[0] = <<>>
    BY <1>2 DEF Picks
  <2>2. ASSUME NEW i \in 0..n, i # 0
        PROVE  f[i] = IF q[i] \in kinds THEN Append(f[i - 1], q[i]) ELSE f[i - 1]
    <3>1. i \in 1..n
      BY <2>2
    <3>2. QED
      BY <3>1, <1>2 DEF Picks, Picked
  <2>3. QED
    BY <2>1
<1>4. Is(F)
  BY <1>3
<1>5. Only(q, kinds) = F[n]
  BY DEF Only
<1> DEFINE B == {i \in 0..n : F[i] \notin Seq(kinds)}
<1> HIDE DEF F
<1>6. B = {}
  <2> SUFFICES ASSUME B # {} PROVE FALSE
    OBVIOUS
  <2>1. PICK i \in B : \A k \in B : i <= k
    <3>1. B \in SUBSET Nat
      OBVIOUS
    <3>2. QED
      BY <3>1, LeastNumber
  <2>2. F[0] \in Seq(kinds)
    BY <1>4
  <2>3. i - 1 \in 0..n /\ F[i - 1] \in Seq(kinds)
    BY <2>1, <2>2
  <2>4. F[i] = Picked(q, kinds, i, F[i - 1])
    <3>1. i \in 0..n /\ i # 0
      BY <2>2
    <3>2. QED
      BY <3>1, <1>4 DEF Picked
  <2>5. QED
    BY <2>3, <2>4, PickedType
<1>7. QED
  BY <1>5, <1>6

\* Replies first, in a queue q.
Ahead(q) == \A i, k \in DOMAIN q : i < k /\ IsReply(q[k]) => IsReply(q[i])

LEMMA InsertedFacts ==
  ASSUME queue \in Seq(Kinds), NEW kind \in Kinds
  PROVE  Inserted(kind) \in Seq(Kinds) /\ Ahead(Inserted(kind))
<1> DEFINE q == Append(queue, kind)
           a == Only(q, {"reply"})
           b == Only(q, Summaries)
<1>1. q \in Seq(Kinds)
  OBVIOUS
<1>2. a \in Seq({"reply"}) /\ b \in Seq(Summaries)
  BY <1>1, OnlyType
<1>3. Inserted(kind) = a \o b
  BY DEF Inserted
<1> HIDE DEF a, b
<1>4. a \in Seq(Kinds) /\ b \in Seq(Kinds)
  BY <1>2 DEF Kinds, Summaries
<1>5. a \o b \in Seq(Kinds)
  BY <1>4
<1>6. Ahead(a \o b)
  <2>1. /\ Len(a) \in Nat /\ Len(b) \in Nat
        /\ \A i \in 1..Len(a) : a[i] = "reply"
        /\ \A i \in 1..Len(b) : b[i] \in Summaries
    BY <1>2
  <2>2. /\ DOMAIN (a \o b) = 1..(Len(a) + Len(b))
        /\ \A i \in 1..(Len(a) + Len(b)) :
             (a \o b)[i] = IF i <= Len(a) THEN a[i] ELSE b[i - Len(a)]
    OBVIOUS
  <2>3. ASSUME NEW i \in 1..(Len(a) + Len(b)), NEW k \in 1..(Len(a) + Len(b)), i < k,
               IsReply((a \o b)[k])
        PROVE  IsReply((a \o b)[i])
    <3>1. k <= Len(a)
      <4> SUFFICES ASSUME k > Len(a) PROVE FALSE
        OBVIOUS
      <4>1. k - Len(a) \in 1..Len(b) /\ (a \o b)[k] = b[k - Len(a)]
        OBVIOUS
      <4>2. b[k - Len(a)] \in Summaries
        BY <2>1
      <4>3. QED
        BY <2>3, <4>2 DEF IsReply, Summaries
    <3>2. (a \o b)[i] = a[i] /\ i \in 1..Len(a)
      BY <2>3, <3>1
    <3>3. QED
      BY <2>1, <3>2 DEF IsReply
  <2>4. QED
    BY <2>3 DEF Ahead
<1>7. QED
  BY <1>3, <1>5, <1>6

\* Whatever drain() takes from a queue in order, the rest is in order; it takes
\* a summary only if some is false and no reply is left.
LEMMA DrainFacts ==
  ASSUME NEW q \in Seq(Kinds), Ahead(q), NEW some, Drain(q, some)
  PROVE  /\ queue' \in Seq(Kinds) /\ Ahead(queue')
         /\ using' \in Kinds \cup {"none"}
         /\ using' \in Summaries => ~some /\ ~Contains(queue', "reply")
<1>1. CASE q # <<>> /\ MayStart(Head(q), some)
  <2>1. /\ using' = Head(q) /\ queue' = Tail(q)
        /\ Head(q) \in Kinds /\ Head(q) = q[1]
        /\ Tail(q) \in Seq(Kinds) /\ Len(Tail(q)) = Len(q) - 1
        /\ \A i \in 1..Len(Tail(q)) : Tail(q)[i] = q[i + 1]
    BY <1>1 DEF Drain
  <2>2. Len(q) \in Nat /\ Len(q) > 0 /\ DOMAIN q = 1..Len(q) /\ DOMAIN Tail(q) = 1..(Len(q) - 1)
    BY <1>1
  <2>3. Ahead(Tail(q))
    <3> SUFFICES ASSUME NEW i \in 1..(Len(q) - 1), NEW k \in 1..(Len(q) - 1), i < k,
                        IsReply(Tail(q)[k])
                 PROVE  IsReply(Tail(q)[i])
      BY DEF Ahead
    <3>1. i + 1 \in DOMAIN q /\ k + 1 \in DOMAIN q /\ i + 1 < k + 1
      OBVIOUS
    <3>2. Tail(q)[i] = q[i + 1] /\ Tail(q)[k] = q[k + 1]
      OBVIOUS
    <3>3. QED
      BY DEF Ahead
  <2>4. ASSUME Head(q) \in Summaries, Contains(Tail(q), "reply") PROVE FALSE
    <3>1. PICK i \in 1..Len(Tail(q)) : Tail(q)[i] = "reply"
      BY <2>4 DEF Contains
    <3>2. i + 1 \in DOMAIN q /\ 1 \in DOMAIN q /\ 1 < i + 1 /\ q[i + 1] = "reply"
      BY <3>1
    <3>3. QED
      BY <2>4, <3>2 DEF Ahead, IsReply, Summaries
  <2>5. Head(q) \in Summaries => ~some
    BY <1>1 DEF MayStart, IsReply, Summaries
  <2>6. QED
    BY <2>1, <2>3, <2>4, <2>5
<1>2. CASE ~(q # <<>> /\ MayStart(Head(q), some))
  BY <1>2 DEF Drain, Summaries
<1>3. QED
  BY <1>1, <1>2

\* What a step may do to queue and model while no summary overtakes a reply.
Orderly(some) ==
  /\ queue' \in Seq(Kinds) /\ using' \in Kinds \cup {"none"} /\ RepliesAhead'
  /\ using' # using /\ using' \in Summaries => ~some /\ ~Contains(queue', "reply")

LEMMA DrainIsOrderly ==
  ASSUME SummaryTypeOK, RepliesAhead, NEW some, Drain(queue, some)
  PROVE  Orderly(some)
BY DrainFacts DEF SummaryTypeOK, RepliesAhead, Ahead, Orderly

LEMMA ScheduleIsOrderly ==
  ASSUME SummaryTypeOK, NEW kind \in Kinds, NEW some, Schedule(kind, some)
  PROVE  Orderly(some)
<1>1. Inserted(kind) \in Seq(Kinds) /\ Ahead(Inserted(kind))
  BY InsertedFacts DEF SummaryTypeOK
<1>2. CASE using = "none"
  BY <1>1, <1>2, DrainFacts DEF Schedule, RepliesAhead, Ahead, Orderly
<1>3. CASE using # "none"
  BY <1>1, <1>3 DEF Schedule, SummaryTypeOK, RepliesAhead, Ahead, Orderly
<1>4. QED
  BY <1>2, <1>3

LEMMA UnchangedIsOrderly ==
  ASSUME SummaryTypeOK, RepliesAhead, UNCHANGED schedulerVars, NEW some
  PROVE  Orderly(some)
BY DEF SummaryTypeOK, RepliesAhead, schedulerVars, Orderly

\* Every step, with the messages that wait when it is taken.
SchedulerSteps ==
  TaskRuns \/ JobSettles \/ ReplyAsksModel \/ ReplyGenerated \/ PassEnds \/ ManualStarts
  \/ ManualFinishes
LEMMA SchedulerOrderly ==
  ASSUME SummaryTypeOK, RepliesAhead, SchedulerSteps
  PROVE  Orderly(waiting > 0) /\ waiting' = waiting
<1>1. waiting' = waiting
  BY DEF SchedulerSteps, TaskRuns, JobSettles, ReplyAsksModel, ReplyGenerated, PassEnds,
     ManualStarts, ManualFinishes, replyVars
<1>2. CASE TaskRuns \/ ReplyAsksModel \/ ManualStarts
  <2>1. \E kind \in Kinds : Schedule(kind, waiting > 0)
    BY <1>2 DEF TaskRuns, ReplyAsksModel, ManualStarts, Kinds
  <2>2. QED
    BY <1>1, <2>1, ScheduleIsOrderly
<1>3. CASE JobSettles \/ ReplyGenerated \/ ManualFinishes
  <2>1. Drain(queue, waiting > 0)
    BY <1>3 DEF JobSettles, ReplyGenerated, ManualFinishes
  <2>2. QED
    BY <1>1, <2>1, DrainIsOrderly
<1>4. CASE PassEnds
  BY <1>4, DrainIsOrderly, UnchangedIsOrderly DEF PassEnds, Resumed
<1>5. QED
  BY <1>2, <1>3, <1>4 DEF SchedulerSteps

LEMMA OtherStepsOrderly ==
  ASSUME SummaryTypeOK, RepliesAhead, [SummaryNext]_summaryVars, ~SchedulerSteps, NEW some
  PROVE  Orderly(some)
<1>1. CASE UNCHANGED schedulerVars
  BY <1>1, UnchangedIsOrderly
<1>2. CASE ReplyExpires
  <2>1. CASE queue' = Only(queue, Summaries)
    <3>1. queue' \in Seq(Summaries)
      BY <2>1, OnlyType DEF SummaryTypeOK
    <3>2. queue' \in Seq(Kinds)
      BY <3>1 DEF Kinds, Summaries
    <3>3. \A k \in DOMAIN queue' : queue'[k] \in Summaries
      BY <3>1
    <3>4. RepliesAhead'
      BY <3>3 DEF RepliesAhead, IsReply, Summaries
    <3>5. QED
      BY <1>2, <3>2, <3>4 DEF ReplyExpires, Orderly, SummaryTypeOK
  <2>2. CASE UNCHANGED queue
    BY <1>1, <1>2, <2>2 DEF ReplyExpires, schedulerVars
  <2>3. QED
    BY <1>2, <2>1, <2>2 DEF ReplyExpires
<1>3. CASE BackendStops \/ BackendRestarts
  <2>1. queue' = <<>> /\ using' \in {using, "none"}
    BY <1>3 DEF BackendStops, BackendRestarts
  <2>2. queue' \in Seq(Kinds) /\ RepliesAhead'
    BY <2>1 DEF RepliesAhead
  <2>3. QED
    BY <2>1, <2>2 DEF Orderly, SummaryTypeOK, Summaries
<1>4. UNCHANGED schedulerVars \/ ReplyExpires \/ BackendStops \/ BackendRestarts
  BY DEF SchedulerSteps, SummaryNext, summaryVars, DayChanges, DayQueued, MessageComes,
     MessageChanges, AuthorNamed, Enqueue, RetryDay, JobStarts, WorkerSteps, ReplyNeeded,
     PassBegins, ReplyEnds
<1>5. QED
  BY <1>1, <1>2, <1>3, <1>4

-----------------------------------------------------------------------------
(* Types and counts *)

DayRows == [status : Statuses, text : Versions \cup {NoText}]
LEMMA ArchiveSuffices ==
  ASSUME SummaryTypeOK, CountsInv,
         UNCHANGED <<schedulerVars, replyVars, manualVars, worker, faults, processVars>>,
         source' \in [Days -> Versions], blank' \subseteq Days, unnamed' \in BOOLEAN,
         summary' \in [Days -> DayRows], changes' \in 0..MaxChanges,
         \A d \in Days : source'[d] <= 1 + changes'
  PROVE  SummaryTypeOK' /\ CountsInv'
<1>1. SummaryTypeOK'
  BY DEF SummaryTypeOK, DayRows, schedulerVars, replyVars, manualVars, processVars
<1>2. CountsInv'
  BY DEF CountsInv, replyVars
<1>3. QED
  BY <1>1, <1>2

LEMMA ArchiveTypes ==
  ASSUME SummaryTypeOK, CountsInv, DayChanges \/ AuthorNamed \/ DayQueued
  PROVE  SummaryTypeOK' /\ CountsInv'
<1>1. UNCHANGED <<schedulerVars, replyVars, manualVars, worker, faults, processVars>>
  BY DEF DayChanges, AuthorNamed, DayQueued, MessageComes, MessageChanges, Enqueue, RetryDay
<1>2. /\ source \in [Days -> Versions] /\ blank \subseteq Days /\ unnamed \in BOOLEAN
      /\ summary \in [Days -> DayRows] /\ changes \in 0..MaxChanges /\ MaxChanges \in Nat
      /\ \A d \in Days : source[d] <= 1 + changes
  BY SummaryAssumption DEF SummaryTypeOK, DayRows, CountsInv
<1>3. Row("queued", NoText) \in DayRows
  BY DEF Row, DayRows, Statuses
<1>4. ASSUME NEW d \in Days, changes < MaxChanges, changes' = changes + 1,
             source' = [source EXCEPT ![d] = @ + 1]
      PROVE  /\ changes' \in 0..MaxChanges /\ source' \in [Days -> Versions]
             /\ \A e \in Days : source'[e] <= 1 + changes'
  BY <1>2, <1>4 DEF Versions
<1>5. unnamed' \in BOOLEAN
  BY <1>2 DEF DayChanges, AuthorNamed, DayQueued, MessageComes, MessageChanges, Enqueue,
     RetryDay
<1>6. ASSUME NEW d \in Days, MessageComes(d) PROVE SummaryTypeOK' /\ CountsInv'
  <2>1. blank' \subseteq Days /\ summary' \in [Days -> DayRows]
    BY <1>2, <1>6 DEF MessageComes
  <2>2. /\ changes' \in 0..MaxChanges /\ source' \in [Days -> Versions]
        /\ \A e \in Days : source'[e] <= 1 + changes'
    BY <1>4, <1>6 DEF MessageComes
  <2>3. QED
    BY <1>1, <1>5, <2>1, <2>2, ArchiveSuffices
<1>7. ASSUME NEW d \in Days, MessageChanges(d) PROVE SummaryTypeOK' /\ CountsInv'
  <2>1. blank' \subseteq Days /\ summary' \in [Days -> DayRows]
    BY <1>2, <1>3, <1>7 DEF MessageChanges
  <2>2. /\ changes' \in 0..MaxChanges /\ source' \in [Days -> Versions]
        /\ \A e \in Days : source'[e] <= 1 + changes'
    BY <1>4, <1>7 DEF MessageChanges
  <2>3. QED
    BY <1>1, <1>5, <2>1, <2>2, ArchiveSuffices
<1>8. CASE AuthorNamed
  BY <1>2, <1>8, ArchiveSuffices DEF AuthorNamed
<1>9. ASSUME NEW d \in Days, Enqueue(d) \/ RetryDay(d) PROVE SummaryTypeOK' /\ CountsInv'
  <2>1. UNCHANGED <<source, blank>> /\ summary' \in [Days -> DayRows]
    BY <1>2, <1>3, <1>9 DEF Enqueue, RetryDay
  <2>2. changes' \in 0..MaxChanges /\ changes <= changes'
    BY <1>2, <1>9 DEF Enqueue, RetryDay
  <2>3. \A e \in Days : source'[e] <= 1 + changes'
    BY <1>2, <2>1, <2>2 DEF Versions
  <2>4. QED
    BY <1>1, <1>2, <1>5, <2>1, <2>2, <2>3, ArchiveSuffices
<1>10. QED
  BY <1>6, <1>7, <1>8, <1>9 DEF DayChanges, DayQueued

LEMMA WorkerTypes ==
  ASSUME SummaryTypeOK, CountsInv, JobStarts \/ WorkerSteps \/ JobSettles, RepliesAhead
  PROVE  SummaryTypeOK' /\ CountsInv'
<1> USE SummaryAssumption DEF SummaryTypeOK, CountsInv, archiveVars, schedulerVars, replyVars,
        manualVars, processVars, Versions, Row, Statuses, NoText, NoWorker
<1>1. CASE JobStarts
  BY <1>1 DEF JobStarts
<1>2. CASE JobSettles
  BY <1>2, DrainIsOrderly DEF JobSettles, Orderly
<1>3. CASE WorkerSteps
  <2>1. UNCHANGED <<source, blank, unnamed, changes, schedulerVars, replyVars, manualVars,
                    processVars>> /\ faults' \in 0..MaxFaults
    BY <1>3 DEF WorkerSteps, WorkerMeetsError, Fault
  <2>2. summary' \in [Days -> [status : Statuses, text : Versions \cup {NoText}]]
    <3>1. CASE WorkerRecovers
      BY <3>1 DEF WorkerRecovers, Recovered
    <3>2. CASE WorkerMarks
      BY <3>2 DEF WorkerMarks
    <3>3. CASE WorkerWrites
      BY <3>3 DEF WorkerWrites
    <3>4. CASE UNCHANGED summary
      BY <3>4
    <3>5. QED
      BY <1>3, <3>1, <3>2, <3>3 DEF WorkerSteps, WorkerPicks, WorkerReads, WorkerSummarizes,
         WorkerChecks, WorkerMeetsError
  <2>3. /\ worker' \in [at : {"none", "recovers", "picks", "reads", "marks", "summarizes", "checks",
                              "publishes", "requeues", "fails", "done"},
                        day : Days \cup {0}, version : Versions \cup {NoText}]
        /\ worker'.at \notin {"none", "recovers", "picks", "done"} => worker'.day \in Days
    <3>1. CASE WorkerPicks
      <4> DEFINE ready == {d \in Days : summary[d].status = "queued" /\ ~unnamed}
      <4>1. ready # {} => Min(ready) \in Days
        <5>1. ready \in SUBSET Nat
          BY DEF Days
        <5>2. QED
          BY <5>1, MinFacts
      <4>2. QED
        BY <3>1, <4>1 DEF WorkerPicks
    <3>2. CASE WorkerReads
      BY <3>2 DEF WorkerReads
    <3>3. CASE WorkerRecovers \/ WorkerMarks \/ WorkerSummarizes
      BY <3>3 DEF WorkerRecovers, WorkerMarks, WorkerSummarizes
    <3>4. CASE WorkerChecks \/ WorkerWrites
      BY <3>4 DEF WorkerChecks, WorkerWrites
    <3>5. CASE WorkerMeetsError
      BY <3>5 DEF WorkerMeetsError
    <3>6. QED
      BY <1>3, <3>1, <3>2, <3>3, <3>4, <3>5 DEF WorkerSteps
  <2>4. QED
    BY <2>1, <2>2, <2>3
<1>4. QED
  BY <1>1, <1>2, <1>3

LEMMA ReplyTypes ==
  ASSUME SummaryTypeOK, CountsInv, RepliesAhead,
         ReplyNeeded \/ PassBegins \/ ReplyAsksModel \/ ReplyGenerated \/ ReplyEnds
           \/ ReplyExpires \/ PassEnds
  PROVE  SummaryTypeOK' /\ CountsInv'
<1>0. queue' \in Seq(Kinds) /\ using' \in Kinds \cup {"none"}
  BY SchedulerOrderly, OtherStepsOrderly DEF SummaryNext, Orderly
<1> USE SummaryAssumption DEF SummaryTypeOK, CountsInv, archiveVars, replyVars,
        manualVars, processVars
<1>1. CASE ReplyNeeded
  BY <1>0, <1>1 DEF ReplyNeeded
<1>2. CASE PassBegins
  BY <1>0, <1>2 DEF PassBegins
<1>3. CASE ReplyAsksModel \/ ReplyGenerated \/ PassEnds
  BY <1>0, <1>3 DEF ReplyAsksModel, ReplyGenerated, PassEnds
<1>4. CASE ReplyEnds
  BY <1>0, <1>4 DEF ReplyEnds
<1>5. CASE ReplyExpires
  BY <1>0, <1>5 DEF ReplyExpires
<1>6. QED
  BY <1>1, <1>2, <1>3, <1>4, <1>5

LEMMA OtherTypes ==
  ASSUME SummaryTypeOK, CountsInv, RepliesAhead,
         TaskRuns \/ ManualStarts \/ ManualFinishes \/ BackendStops \/ BackendRestarts
  PROVE  SummaryTypeOK' /\ CountsInv'
<1>0. queue' \in Seq(Kinds) /\ using' \in Kinds \cup {"none"}
  BY SchedulerOrderly, OtherStepsOrderly DEF SummaryNext, Orderly
<1> USE SummaryAssumption DEF SummaryTypeOK, CountsInv, archiveVars, replyVars,
        manualVars, processVars, Statuses, NoWorker, NoText
<1>1. CASE TaskRuns
  BY <1>0, <1>1 DEF TaskRuns
<1>2. CASE ManualStarts
  BY <1>0, <1>2 DEF ManualStarts
<1>3. CASE ManualFinishes
  BY <1>0, <1>3 DEF ManualFinishes
<1>4. CASE BackendStops
  BY <1>4 DEF BackendStops
<1>5. CASE BackendRestarts
  <2>1. starts' \in 1..MaxStarts
    BY <1>5 DEF BackendRestarts
  <2>2. worker' = NoWorker /\ waiting' = 0
    BY <1>5 DEF BackendRestarts
  <2>3. UNCHANGED <<source, blank, unnamed, summary, changes, replies, manual, asked, faults>>
    BY <1>5 DEF BackendRestarts
  <2>4. pass' = "idle" /\ manualJob' = FALSE /\ stopping' = FALSE
    BY <1>5 DEF BackendRestarts
  <2>5. SummaryTypeOK'
    <3>1. worker'.at = "none" /\ worker' \in
            [at : {"none", "recovers", "picks", "reads", "marks", "summarizes", "checks",
                   "publishes", "requeues", "fails", "done"},
             day : Days \cup {0}, version : Versions \cup {NoText}]
      BY <2>2
    <3>2. waiting' \in 0..MaxReplies /\ pass' = "idle"
      BY <2>2, <2>4
    <3>3. source' \in [Days -> Versions] /\ blank' \subseteq Days
          /\ summary' \in [Days -> [status : Statuses, text : Versions \cup {NoText}]]
      BY <2>3
    <3>4. changes' \in 0..MaxChanges /\ replies' \in 0..MaxReplies
          /\ asked' \in 0..MaxManual /\ faults' \in 0..MaxFaults
          /\ manual' \in Statuses \ {"queued"}
      BY <2>3
    <3>5. unnamed' \in BOOLEAN /\ manualJob' \in BOOLEAN /\ stopping' \in BOOLEAN
      BY <2>3, <2>4
    <3>6. QED
      BY <1>0, <2>1, <3>1, <3>2, <3>3, <3>4, <3>5
  <2>6. CountsInv'
    BY <2>2, <2>3
  <2>7. QED
    BY <2>5, <2>6
<1>6. QED
  BY <1>1, <1>2, <1>3, <1>4, <1>5

-----------------------------------------------------------------------------
(* The theorems *)

LEMMA InitSummaryInv == SummaryInit => SummaryInv
<1> SUFFICES ASSUME SummaryInit PROVE SummaryInv
  OBVIOUS
<1>1. SummaryTypeOK
  <2>1. source \in [Days -> Versions] /\ blank \subseteq Days /\ unnamed \in BOOLEAN
    BY SummaryAssumption DEF SummaryInit, Versions
  <2>2. summary \in [Days -> [status : Statuses, text : Versions \cup {NoText}]]
    BY DEF SummaryInit, Row, Statuses
  <2>3. queue \in Seq(Kinds) /\ using \in Kinds \cup {"none"}
    BY DEF SummaryInit
  <2>4. waiting \in 0..MaxReplies /\ replies \in 0..MaxReplies /\ changes \in 0..MaxChanges
        /\ asked \in 0..MaxManual /\ faults \in 0..MaxFaults
    BY SummaryAssumption DEF SummaryInit
  <2>5. starts \in 1..MaxStarts
    BY SummaryAssumption DEF SummaryInit
  <2>6. QED
    BY <2>1, <2>2, <2>3, <2>4, <2>5 DEF SummaryInit, SummaryTypeOK, NoWorker, Statuses
<1>2. RepliesAhead
  BY DEF SummaryInit, RepliesAhead
<1>3. CountsInv
  BY DEF SummaryInit, CountsInv, NoWorker
<1>4. QED
  BY <1>1, <1>2, <1>3 DEF SummaryInv

LEMMA SummaryStep == SummaryInv /\ [SummaryNext]_summaryVars => SummaryInv'
<1> SUFFICES ASSUME SummaryInv, [SummaryNext]_summaryVars PROVE SummaryInv'
  OBVIOUS
<1>1. SummaryTypeOK /\ RepliesAhead /\ CountsInv
  BY DEF SummaryInv
<1>2. RepliesAhead'
  BY <1>1, SchedulerOrderly, OtherStepsOrderly DEF Orderly
<1>3. SummaryTypeOK' /\ CountsInv'
  <2>1. CASE UNCHANGED summaryVars
    BY <1>1, <2>1 DEF summaryVars, archiveVars, schedulerVars, replyVars, manualVars,
       processVars, SummaryTypeOK, CountsInv
  <2>2. CASE SummaryNext
    BY <1>1, <2>2, ArchiveTypes, WorkerTypes, ReplyTypes, OtherTypes DEF SummaryNext
  <2>3. QED
    BY <2>1, <2>2
<1>4. QED
  BY <1>2, <1>3 DEF SummaryInv

\* Types, counts and the order of the queue are together inductive.
THEOREM SummaryInvariance == SummarySpec => []SummaryInv
BY InitSummaryInv, SummaryStep, PTL DEF SummarySpec

\* A summary takes the model only while no message waits for its reply and no
\* reply is queued, for any number of days, replies and failures.
THEOREM RepliesGoFirst == SummarySpec => RepliesFirst
<1>1. SummaryInv /\ [SummaryNext]_summaryVars =>
        ((using' # using /\ using' \in {"daily", "manual"}) =>
           waiting' = 0 /\ ~Contains(queue', "reply"))
  <2> SUFFICES ASSUME SummaryInv, [SummaryNext]_summaryVars, using' # using, using' \in Summaries
               PROVE  waiting' = 0 /\ ~Contains(queue', "reply")
    BY DEF Summaries
  <2>1. SummaryTypeOK /\ RepliesAhead
    BY DEF SummaryInv
  <2>2. CASE SchedulerSteps
    <3>1. waiting' = waiting /\ ~(waiting > 0) /\ ~Contains(queue', "reply")
      BY <2>1, <2>2, SchedulerOrderly DEF Orderly
    <3>2. QED
      BY <2>1, <3>1 DEF SummaryTypeOK
  <2>3. CASE ~SchedulerSteps
    <3>1. ~TRUE
      BY <2>1, <2>3, OtherStepsOrderly DEF Orderly
    <3>2. QED
      BY <3>1
  <2>4. QED
    BY <2>2, <2>3
<1>2. QED
  BY SummaryInvariance, <1>1, PTL DEF SummarySpec, RepliesFirst
=============================================================================
