--------------------------- MODULE EventDispatcher ---------------------------
(***************************************************************************)
(* Addressed application events (lib/framework/src/EventDispatcher.ts):    *)
(* one bounded FIFO mailbox per listener, one handler at a time in each,   *)
(* started from setImmediate, a timeout that only signals, and a shutdown  *)
(* that drains or cuts off.                                                *)
(*                                                                         *)
(* Everything runs on the main thread: a push, an immediate, a timer, the  *)
(* settlement of a handler and the two halves of close() are one action    *)
(* each.  Handlers are user code: they settle whenever they like, or never.*)
(* The specification starts where start() has built the mailboxes.         *)
(***************************************************************************)
EXTENDS Naturals, Sequences, SequencesExt

CONSTANTS
  Events,     \* the valid events a behaviour may push, each at most once
  Listeners,  \* names of listeners
  Declared,   \* the listeners registered before listen()
  Address,    \* the listener each event is addressed to
  QueueSize,  \* events.queueSize
  NoEvent     \* "undefined" in mailbox.active

ASSUME EventsAssumption ==
  /\ Address \in [Events -> Listeners]
  /\ Declared \subseteq Listeners
  /\ NoEvent \notin Events
  /\ QueueSize \in Nat \ {0}

VARIABLES
  mailboxes,  \* the listeners that have a mailbox
  pending,    \* mailbox.pending
  active,     \* mailbox.active
  armed,      \* is the timer of the active event armed?
  scheduled,  \* mailbox.scheduled: an immediate is on its way
  signal,     \* why the AbortSignal of an event has been aborted
  fate,       \* what became of each event
  told,       \* what onError has been told about each event
  closing     \* how far close() has come; all but "open" are sealed

mailVars == <<pending, active, armed, scheduled>>
eventVars == <<mailboxes, mailVars, signal, fate, told, closing>>

Fates == {"unsent", "refused", "accepted", "settled", "dropped"}
Reports == {"timeout", "error", "dropped"}

EventsTypeOK ==
  /\ mailboxes \in SUBSET Listeners
  /\ pending \in [Listeners -> Seq(Events)]
  /\ \A l \in Listeners : Len(pending[l]) <= QueueSize
  /\ active \in [Listeners -> Events \cup {NoEvent}]
  /\ armed \in [Listeners -> BOOLEAN]
  /\ scheduled \in [Listeners -> BOOLEAN]
  /\ signal \in [Events -> {"none", "timeout", "cut"}]
  /\ fate \in [Events -> Fates]
  /\ told \in [Events -> Seq(Reports)]
  /\ closing \in {"open", "draining", "drained", "cut"}

EventsInit ==
  /\ mailboxes = Declared
  /\ pending = [l \in Listeners |-> <<>>]
  /\ active = [l \in Listeners |-> NoEvent]
  /\ armed = [l \in Listeners |-> FALSE]
  /\ scheduled = [l \in Listeners |-> FALSE]
  /\ signal = [e \in Events |-> "none"]
  /\ fate = [e \in Events |-> "unsent"]
  /\ told = [e \in Events |-> <<>>]
  /\ closing = "open"

-----------------------------------------------------------------------------
Sealed == closing # "open"
Forced == closing = "cut"
Busy(l) == active[l] # NoEvent
Queued(l) == Range(pending[l])

IdleBox(act, pend, sched) == act = NoEvent /\ pend = <<>> /\ ~sched

\* #isIdle
IsIdle == \A l \in mailboxes : IdleBox(active[l], pending[l], scheduled[l])

\* #notifyIdle resolves the promise close() waits for.
NotifyIdle ==
  closing' = IF /\ closing = "draining"
                /\ \A l \in mailboxes : IdleBox(active'[l], pending'[l], scheduled'[l])
               THEN "drained" ELSE closing

\* #schedule, once the mailbox holds pend and its handler runs iff busy.
Schedule(l, pend, busy) ==
  scheduled' = [scheduled EXCEPT ![l] = @ \/ (~busy /\ pend # <<>> /\ ~Forced)]

-----------------------------------------------------------------------------
\* Runtime registration; the application allows it until close() begins.
RegisterRuntime(l) ==
  /\ l \notin mailboxes /\ ~Sealed
  /\ mailboxes' = mailboxes \cup {l}
  /\ UNCHANGED <<mailVars, signal, fate, told, closing>>

\* #push throws: sealed, no such listener, or its mailbox is full.
PushRefused(e) ==
  /\ fate[e] = "unsent"
  /\ \/ Sealed
     \/ Address[e] \notin mailboxes
     \/ Len(pending[Address[e]]) >= QueueSize
  /\ fate' = [fate EXCEPT ![e] = "refused"]
  /\ UNCHANGED <<mailboxes, mailVars, signal, told, closing>>

HasRoom(l) == Len(pending[l]) < QueueSize

PushAccepted(e) ==
  LET l == Address[e] IN
  /\ fate[e] = "unsent" /\ ~Sealed
  /\ l \in mailboxes /\ HasRoom(l)
  /\ fate' = [fate EXCEPT ![e] = "accepted"]
  /\ pending' = [pending EXCEPT ![l] = Append(@, e)]
  /\ Schedule(l, pending'[l], Busy(l))
  /\ UNCHANGED <<mailboxes, active, armed, signal, told, closing>>

\* Mutant of RunOne: the newest event first.
RunNewest(l) ==
  /\ active' = [active EXCEPT ![l] = Last(pending[l])]
  /\ pending' = [pending EXCEPT ![l] = Front(@)]
  /\ armed' = [armed EXCEPT ![l] = TRUE]

\* #runOne up to the return of the handler.
RunOne(l) ==
  /\ active' = [active EXCEPT ![l] = Head(pending[l])]
  /\ pending' = [pending EXCEPT ![l] = Tail(@)]
  /\ armed' = [armed EXCEPT ![l] = TRUE]

\* The callback of setImmediate.
Immediate(l) ==
  /\ scheduled[l]
  /\ scheduled' = [scheduled EXCEPT ![l] = FALSE]
  /\ IF Forced \/ Busy(l) \/ pending[l] = <<>>
       THEN NotifyIdle /\ UNCHANGED <<pending, active, armed>>
       ELSE RunOne(l) /\ UNCHANGED closing
  /\ UNCHANGED <<mailboxes, signal, fate, told>>

\* The handler's timer: its signal is aborted and the observer told; the
\* handler keeps the mailbox until it settles.
HandlerTimeout(l) ==
  /\ Busy(l) /\ armed[l]
  /\ armed' = [armed EXCEPT ![l] = FALSE]
  /\ signal' = [signal EXCEPT ![active[l]] = "timeout"]
  /\ told' = [told EXCEPT ![active[l]] = Append(@, "timeout")]
  /\ UNCHANGED <<mailboxes, pending, active, scheduled, fate, closing>>

\* Mutant of Observed: a rejection is reported whatever was said before.
ObservedTwice(e) == TRUE

\* A rejection is passed on unless the timeout was or close() has cut off.
Observed(e) == signal[e] # "timeout" /\ ~Forced

\* Mutant of ListenerSettles: the successor is not scheduled.
ListenerSettlesAlone(l, rejected) ==
  LET e == active[l] IN
  /\ Busy(l)
  /\ told' = IF rejected /\ Observed(e)
                  THEN [told EXCEPT ![e] = Append(@, "error")] ELSE told
  /\ active' = [active EXCEPT ![l] = NoEvent]
  /\ armed' = [armed EXCEPT ![l] = FALSE]
  /\ fate' = [fate EXCEPT ![e] = "settled"]
  /\ UNCHANGED <<pending, scheduled>>
  /\ NotifyIdle
  /\ UNCHANGED <<mailboxes, signal>>

\* The end of #runOne: the handler fulfils or rejects.
ListenerSettles(l, rejected) ==
  LET e == active[l] IN
  /\ Busy(l)
  /\ told' = IF rejected /\ Observed(e)
                  THEN [told EXCEPT ![e] = Append(@, "error")] ELSE told
  /\ active' = [active EXCEPT ![l] = NoEvent]
  /\ armed' = [armed EXCEPT ![l] = FALSE]
  /\ fate' = [fate EXCEPT ![e] = "settled"]
  /\ UNCHANGED pending
  /\ Schedule(l, pending[l], FALSE)
  /\ NotifyIdle
  /\ UNCHANGED <<mailboxes, signal>>

-----------------------------------------------------------------------------
\* close(): seal, and return at once when nothing is left to do.
CloseDispatcher ==
  /\ closing = "open"
  /\ closing' = IF IsIdle THEN "drained" ELSE "draining"
  /\ UNCHANGED <<mailboxes, mailVars, signal, fate, told>>

Waiting == {e \in Events : \E l \in mailboxes : e \in Queued(l)}
RunningEvents == {e \in Events : \E l \in mailboxes : e = active[l]}

\* Mutant of CutOff: it waits for the handlers.
CutOffPolitely ==
  /\ closing = "draining" /\ RunningEvents = {}
  /\ closing' = "cut"
  /\ armed' = [l \in Listeners |-> FALSE]
  /\ signal' = signal
  /\ pending' = [l \in Listeners |-> <<>>]
  /\ fate' = [e \in Events |-> IF e \in Waiting THEN "dropped" ELSE fate[e]]
  /\ told' = [e \in Events |->
                   IF e \in Waiting THEN Append(told[e], "dropped") ELSE told[e]]
  /\ UNCHANGED <<mailboxes, active, scheduled>>

\* shutdownTimeout: abort what runs, drop what waits, wait for nothing.
CutOff ==
  /\ closing = "draining"
  /\ closing' = "cut"
  /\ armed' = [l \in Listeners |-> FALSE]
  /\ signal' = [e \in Events |->
                  IF e \in RunningEvents /\ signal[e] = "none" THEN "cut" ELSE signal[e]]
  /\ pending' = [l \in Listeners |-> <<>>]
  /\ fate' = [e \in Events |-> IF e \in Waiting THEN "dropped" ELSE fate[e]]
  /\ told' = [e \in Events |->
                   IF e \in Waiting THEN Append(told[e], "dropped") ELSE told[e]]
  /\ UNCHANGED <<mailboxes, active, scheduled>>

EventsNext ==
  \/ \E e \in Events : PushRefused(e) \/ PushAccepted(e)
  \/ \E l \in Listeners :
       \/ RegisterRuntime(l) \/ Immediate(l) \/ HandlerTimeout(l)
       \/ \E rejected \in BOOLEAN : ListenerSettles(l, rejected)
  \/ CloseDispatcher \/ CutOff

EventsSpec == EventsInit /\ [][EventsNext]_eventVars

\* Immediates run and timers fire.  Nothing is assumed of the handlers.
EventsFairness ==
  /\ \A l \in Listeners : WF_eventVars(Immediate(l)) /\ WF_eventVars(HandlerTimeout(l))
  /\ WF_eventVars(CutOff)

EventsFairSpec == EventsSpec /\ EventsFairness

-----------------------------------------------------------------------------
\* Each accepted event is waiting, running, handled or dropped, and only one
\* of them; a dropped event never ran.  The observer hears of an event at
\* most once, and of every drop and every timeout.  close() waits only while
\* there is something to wait for, and returns without a cutoff only when every
\* accepted event was handled.  No more than queueSize events wait in a mailbox.
AccountedOnce ==
  /\ \A l \in Listeners : Len(pending[l]) <= QueueSize
  /\ closing = "draining" => ~IsIdle
  /\ closing = "drained" => \A e \in Events : fate[e] # "accepted"
  /\ \A e \in Events :
       /\ fate[e] = "accepted" =>
            \/ e \in Queued(Address[e]) /\ active[Address[e]] # e
            \/ e \notin Queued(Address[e]) /\ active[Address[e]] = e
       /\ fate[e] # "accepted" =>
            \A l \in Listeners : e \notin Queued(l) /\ active[l] # e
       /\ Len(told[e]) <= 1
       /\ fate[e] = "dropped" <=> told[e] = <<"dropped">>
       /\ signal[e] = "timeout" <=> told[e] = <<"timeout">>

\* The inductive strengthening.  An event that waits or runs is where it was
\* addressed to, once, and a mailbox with work is never left to itself: its
\* handler runs, or an immediate is on its way.
PlacesInv ==
  /\ \A l \in Listeners :
       /\ IsInjective(pending[l])
       /\ \A e \in Queued(l) : Address[e] = l /\ fate[e] = "accepted" /\ active[l] # e
       /\ Busy(l) => Address[active[l]] = l /\ fate[active[l]] = "accepted"
       /\ Busy(l) \/ pending[l] # <<>> \/ scheduled[l] => l \in mailboxes
  /\ \A e \in Events :
       fate[e] = "accepted" => e \in Queued(Address[e]) \/ active[Address[e]] = e
NoLostWakeup ==
  \A l \in Listeners : pending[l] # <<>> => Busy(l) \/ scheduled[l]

\* What the observer may have heard of an event, by its fate and its signal.
Sayable(e) ==
  CASE fate[e] = "dropped" -> {<<"dropped">>}
    [] signal[e] = "timeout" -> {<<"timeout">>}
    [] fate[e] = "settled" /\ signal[e] # "timeout" -> {<<>>, <<"error">>}
    [] OTHER -> {<<>>}
ReportsInv ==
  /\ \A e \in Events :
       /\ told[e] \in Sayable(e)
       /\ fate[e] \notin {"accepted", "settled"} \/ e \in Queued(Address[e]) => signal[e] = "none"
  /\ \A l \in Listeners : armed[l] => Busy(l) /\ signal[active[l]] = "none"

ClosingInv ==
  /\ closing = "draining" => ~IsIdle
  /\ closing = "drained" => IsIdle
  /\ closing = "cut" => \A l \in Listeners : pending[l] = <<>>

EventsInv == EventsTypeOK /\ PlacesInv /\ NoLostWakeup /\ ReportsInv /\ ClosingInv

\* Strict FIFO per listener: while an event waits, no event behind it and no
\* event pushed later to the same listener starts, and a handler starts only
\* when the one before has settled.
Starts(e) == active[Address[e]] # e /\ active'[Address[e]] = e
Before(q, a, b) == \E i, k \in DOMAIN q : i < k /\ q[i] = a /\ q[k] = b
StrictFifo ==
  [][\A b \in Events : Starts(b) =>
       /\ ~Busy(Address[b])
       /\ \A a \in Queued(Address[b]) : a # b => Before(pending[Address[b]], b, a)]_eventVars

\* A waiting event leaves its mailbox, unless a handler ignores the signal
\* that its timeout aborted.
EventsMove ==
  \A e \in Events :
    e \in Queued(Address[e]) ~>
      \/ e \notin Queued(Address[e])
      \/ Busy(Address[e]) /\ signal[active[Address[e]]] = "timeout"

\* close() returns although handlers never settle.
DispatcherCloses == closing = "draining" ~> closing \in {"drained", "cut"}
=============================================================================
