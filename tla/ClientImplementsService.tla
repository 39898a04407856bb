---------------------- MODULE ClientImplementsService ----------------------
(***************************************************************************)
(* The clients implement the client service: worker, ports, records and    *)
(* the stages of start() and close() are hidden.  A native client counts   *)
(* from the moment its initialisation is sent to the worker.               *)
(***************************************************************************)
EXTENDS TdlibClient

Promise(stage, underWay) ==
  IF stage \in underWay THEN "pending" ELSE IF stage = "done" THEN "fulfilled" ELSE stage

StartOf(c) == Promise(start[c], {"verifying", "waiting", "undoing"})
CloseOf(c) == Promise(close[c], {"asking", "destroying", "awaiting"})
ServiceOf(c) == IF state[c] = "created" THEN "none" ELSE IF state[c] = "started" THEN "up" ELSE "over"
OpenOf(c) == {q \in Calls : <<c, q>> \in pending}
LeaseOf(c) ==
  IF start[c] \in {"none", "verifying"} THEN "none" ELSE IF Holds(c) THEN "held" ELSE "gone"

Service == INSTANCE ClientService WITH
  start <- [c \in Clients |-> StartOf(c)], close <- [c \in Clients |-> CloseOf(c)],
  service <- [c \in Clients |-> ServiceOf(c)], open <- [c \in Clients |-> OpenOf(c)],
  lease <- [c \in Clients |-> LeaseOf(c)]

\* However starts, closes, failures and the death of the worker cross, a client
\* is such a service: its promises settle once, it has one native client at most
\* and only from its start, and at its end that is gone and no call is open.
ImplementsClientService == Service!Spec

\* The strengthening that takes.  A client is closed and its start undone only
\* in states that fit; one that is started, or was until its close(), has a
\* record; who has asked for its end waits for it.
PromiseInv ==
  \A c \in Clients :
    /\ state[c] = "started" => close[c] = "none"
    /\ close[c] = "asking" => state[c] = "closing"
    /\ close[c] = "destroying" <=> "close" \in waiting[c]
    /\ state[c] = "closing" => close[c] \in {"asking", "destroying"}
    /\ <<c, "close">> \in pending => close[c] = "asking"
    /\ start[c] = "undoing" => state[c] \in {"closed", "failed"} /\ "start" \in waiting[c]
    /\ release[c] = "destroying" \/ close[c] \in {"asking", "destroying", "awaiting"} =>
         start[c] = "done"
RecordInv ==
  /\ \A c \in Clients :
       /\ state[c] \in {"started", "closing"} \/ start[c] \in {"waiting", "undoing"} => c \in registered
       /\ waiting[c] # {} => /\ state[c] \notin {"created", "started"}
                             /\ state[c] = "closing" => "close" \in waiting[c]
  /\ \A m \in Range(toWorker) \cup Range(toMain) :
       m.kind \in {"destroy", "destroyed"} /\ m.client \in registered => waiting[m.client] # {}
=============================================================================
