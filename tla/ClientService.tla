--------------------------- MODULE ClientService ---------------------------
(***************************************************************************)
(* What TdlibClient (lib/tdlib/src/client.ts) promises who uses it, such   *)
(* as TelegramConnection: no worker, no messages and no records, but the   *)
(* promises of start() and close(), the calls that are open, and the lease *)
(* of a native client, which holds the directories of an account.          *)
(*                                                                         *)
(* Clients are independent: each may take a step of its own while another  *)
(* does, as they all do when the worker they share dies.                   *)
(***************************************************************************)
CONSTANTS Clients, Calls

VARIABLES
  start,    \* the promise of start()
  close,    \* the promise of close()
  service,  \* "up" while calls can be made, then "over"
  open,     \* the calls that have not been answered
  lease     \* the native client: not yet, may be there, never again

vars == <<start, close, service, open, lease>>

Promises == {"none", "pending", "fulfilled", "rejected"}
TypeOK ==
  /\ start \in [Clients -> Promises] /\ close \in [Clients -> Promises]
  /\ service \in [Clients -> {"none", "up", "over"}]
  /\ open \in [Clients -> SUBSET Calls]
  /\ lease \in [Clients -> {"none", "held", "gone"}]

Init ==
  /\ start = [c \in Clients |-> "none"] /\ close = [c \in Clients |-> "none"]
  /\ service = [c \in Clients |-> "none"]
  /\ open = [c \in Clients |-> {}]
  /\ lease = [c \in Clients |-> "none"]

-----------------------------------------------------------------------------
\* start() is called once, and not after close().
Starts(c) ==
  /\ start[c] = "none" /\ close[c] = "none" /\ start'[c] = "pending"
  /\ UNCHANGED <<close[c], service[c], open[c], lease[c]>>

\* A start leases one native client, and only one.
Leases(c) ==
  /\ start[c] = "pending" /\ lease[c] = "none" /\ lease'[c] = "held"
  /\ UNCHANGED <<start[c], close[c], service[c], open[c]>>

\* start() fulfils only with a native client, though that may be lost by now,
\* and never after close().
Opens(c) ==
  /\ start[c] = "pending" /\ close[c] = "none" /\ lease[c] # "none"
  /\ start'[c] = "fulfilled" /\ service'[c] = "up"
  /\ UNCHANGED <<close[c], open[c], lease[c]>>

Asks(c) ==
  /\ service[c] = "up" /\ \E q \in Calls : open'[c] = open[c] \cup {q}
  /\ UNCHANGED <<start[c], close[c], service[c], lease[c]>>

Answers(c) ==
  /\ \E q \in open[c] : open'[c] = open[c] \ {q}
  /\ UNCHANGED <<start[c], close[c], service[c], lease[c]>>

\* The native client goes, before anybody knows.
Loses(c) ==
  /\ lease[c] = "held" /\ lease'[c] = "gone"
  /\ UNCHANGED <<start[c], close[c], service[c], open[c]>>

\* close(): of a client that has been started it takes its time, unless that has
\* ended before; a start under way is not waited for.
Closes(c) ==
  /\ close[c] = "none" /\ service'[c] = "over"
  /\ \/ start[c] = "fulfilled" /\ close'[c] = "pending"
     \/ /\ service[c] # "up" /\ close'[c] = "fulfilled"
        /\ start[c] \in {"none", "pending"} \/ lease[c] = "gone"
     \/ service[c] # "up" /\ close'[c] = "rejected"
  /\ UNCHANGED <<start[c], open[c], lease[c]>>

\* The client comes to its end, by close() or by a failure: no start is under
\* way, no call is open, and its native client is gone for good.
Ends(c) ==
  /\ service'[c] = "over" /\ open'[c] = {} /\ lease'[c] = "gone"
  /\ start'[c] = IF start[c] = "pending" THEN "rejected" ELSE start[c]
  /\ close'[c] # close[c] => close[c] = "pending" /\ close'[c] \in {"fulfilled", "rejected"}

Step(c) ==
  \/ Starts(c) \/ Leases(c) \/ Opens(c) \/ Asks(c) \/ Answers(c) \/ Loses(c) \/ Closes(c) \/ Ends(c)
  \/ UNCHANGED <<start[c], close[c], service[c], open[c], lease[c]>>

Next == TypeOK' /\ \A c \in Clients : Step(c)

Spec == Init /\ [][Next]_vars

-----------------------------------------------------------------------------
\* What a user of the service can rely on: a client that takes calls has been
\* started and not closed; calls are open only until its end; when start() has
\* rejected, or close() has resolved with no start under way, the native client
\* is gone.
Reliable ==
  \A c \in Clients :
    /\ service[c] = "up" => start[c] = "fulfilled" /\ close[c] = "none" /\ lease[c] # "none"
    /\ open[c] # {} => service[c] = "up" \/ close[c] = "pending"
    /\ start[c] = "rejected" => lease[c] = "gone"
    /\ close[c] = "fulfilled" => lease[c] = "gone" \/ start[c] \in {"none", "pending"}
=============================================================================
