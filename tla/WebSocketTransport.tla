-------------------------- MODULE WebSocketTransport --------------------------
(***************************************************************************)
(* WebSocket sessions of an application                                    *)
(* (lib/framework/src/WebSocketTransport.ts, WebSocketSessionStore.ts):    *)
(* the upgrade with its awaited onConnect, the frames of a connection, the *)
(* chain that handles the messages of a session one by one, onDisconnect,  *)
(* and what close() does to all of it.                                     *)
(*                                                                         *)
(* An action is one callback of the main thread.  Peers and hooks are the  *)
(* environment.  A chunk of bytes is the sequence of the complete frames   *)
(* it holds: "text" a well-formed message, "garbage" a text that is no     *)
(* message, "binary" a binary one, "close" a close frame or one that       *)
(* breaks the frame protocol.                                              *)
(***************************************************************************)
EXTENDS Naturals, Sequences, FiniteSets, SequencesExt

CONSTANTS
  Sessions,     \* the upgrade requests a behaviour may see
  Chunks,       \* the chunks a peer may send
  MaxMessages   \* bound on the messages of a session

ASSUME TransportAssumption ==
  /\ Chunks \subseteq Seq({"text", "garbage", "binary", "close"})
  /\ MaxMessages \in Nat

VARIABLES
  stage,     \* how far the upgrade and its connection have come
  socket,    \* the TCP socket: "ended" is half closed by us
  chain,     \* the messages of a session, in the order they were read
  handled,   \* how many of them the chain is done with
  handling,  \* is the next one with a handler?
  hook,      \* onDisconnect of a session
  stored     \* the sessions in the WebSocketSessionStore

wsVars == <<stage, socket, chain, handled, handling, hook, stored>>

WsTypeOK ==
  /\ stage \in [Sessions -> {"absent", "connecting", "refused", "live", "ended"}]
  /\ socket \in [Sessions -> {"none", "open", "ended", "gone"}]
  /\ chain \in [Sessions -> Seq({"text", "garbage"})]
  /\ handled \in [Sessions -> Nat]
  /\ handling \in [Sessions -> BOOLEAN]
  /\ hook \in [Sessions -> {"none", "running", "done"}]
  /\ stored \subseteq Sessions

WsInit ==
  /\ stage = [s \in Sessions |-> "absent"]
  /\ socket = [s \in Sessions |-> "none"]
  /\ chain = [s \in Sessions |-> <<>>]
  /\ handled = [s \in Sessions |-> 0]
  /\ handling = [s \in Sessions |-> FALSE]
  /\ hook = [s \in Sessions |-> "none"]
  /\ stored = {}

-----------------------------------------------------------------------------
\* #operations: the user code of the transport that has not settled.
Operations ==
  {s \in Sessions : \/ stage[s] = "connecting"
                    \/ handled[s] < Len(chain[s])
                    \/ hook[s] = "running"}

\* The sockets the server counts.
Sockets == {s \in Sessions : socket[s] \in {"open", "ended"}}

\* #finish and onClose of the connections S, each only once.
Finish(S) ==
  LET ending == {s \in S : stage[s] = "live"} IN
  /\ stage' = [s \in Sessions |-> IF s \in ending THEN "ended" ELSE stage[s]]
  /\ stored' = stored \ ending
  /\ hook' = [s \in Sessions |-> IF s \in ending THEN "running" ELSE hook[s]]

\* close(): a close frame, and the socket half closed.
EndSockets(S) ==
  socket' = [s \in Sessions |->
               IF s \in S /\ stage[s] = "live" /\ socket[s] = "open" THEN "ended" ELSE socket[s]]

-----------------------------------------------------------------------------
\* A valid handshake: onConnect is called.
Upgrade(s) ==
  /\ stage[s] = "absent"
  /\ stage' = [stage EXCEPT ![s] = "connecting"]
  /\ socket' = [socket EXCEPT ![s] = "open"]
  /\ UNCHANGED <<chain, handled, handling, hook, stored>>

\* onConnect fulfils.  Nobody asks whether the application is closing, or
\* whether the cutoff has destroyed the socket meanwhile.
Connected(s) ==
  /\ stage[s] = "connecting"
  /\ stage' = [stage EXCEPT ![s] = "live"]
  /\ stored' = stored \cup {s}
  /\ UNCHANGED <<socket, chain, handled, handling, hook>>

\* onConnect rejects: an HTTP answer ends the socket.
Rejected(s) ==
  /\ stage[s] = "connecting"
  /\ stage' = [stage EXCEPT ![s] = "refused"]
  /\ socket' = [socket EXCEPT ![s] = IF @ = "open" THEN "ended" ELSE @]
  /\ UNCHANGED <<chain, handled, handling, hook, stored>>

\* #read has not returned before frame i: no close frame up to it.
Parsed(chunk, i) == \A k \in 1 .. i : chunk[k] # "close"

\* The texts among the frames that are parsed, one by one.
Texts(chunk) ==
  LET texts[i \in 0 .. Len(chunk)] ==
        IF i = 0 THEN <<>>
        ELSE IF Parsed(chunk, i) /\ chunk[i] \in {"text", "garbage"}
             THEN Append(texts[i - 1], chunk[i])
             ELSE texts[i - 1]
  IN texts[Len(chunk)]

\* #read.  A binary frame closes the connection, but the frames behind it in
\* the chunk are still delivered.
Read(s, chunk) ==
  /\ stage[s] = "live" /\ socket[s] = "open"
  /\ Len(chain[s]) + Len(Texts(chunk)) <= MaxMessages
  /\ chain' = [chain EXCEPT ![s] = @ \o Texts(chunk)]
  /\ IF \E f \in {"binary", "close"} : f \in Range(chunk)
       THEN Finish({s}) /\ EndSockets({s})
       ELSE UNCHANGED <<stage, stored, hook, socket>>
  /\ UNCHANGED <<handled, handling>>

Ready(s) == handled[s] < Len(chain[s]) /\ ~handling[s]

\* The chain comes to its next message: its handler starts, also when the
\* connection has ended meanwhile.
HandlerStarts(s) ==
  /\ Ready(s) /\ chain[s][handled[s] + 1] = "text"
  /\ handling' = [handling EXCEPT ![s] = TRUE]
  /\ UNCHANGED <<stage, socket, chain, handled, hook, stored>>

\* A text that is no message closes the connection when its turn comes.
GarbageFound(s) ==
  /\ Ready(s) /\ chain[s][handled[s] + 1] = "garbage"
  /\ handled' = [handled EXCEPT ![s] = @ + 1]
  /\ Finish({s}) /\ EndSockets({s})
  /\ UNCHANGED <<chain, handling>>

MessageSettles(s) ==
  /\ handling[s]
  /\ handling' = [handling EXCEPT ![s] = FALSE]
  /\ handled' = [handled EXCEPT ![s] = @ + 1]
  /\ UNCHANGED <<stage, socket, chain, hook, stored>>

DisconnectSettles(s) ==
  /\ hook[s] = "running"
  /\ hook' = [hook EXCEPT ![s] = "done"]
  /\ UNCHANGED <<stage, socket, chain, handled, handling, stored>>

\* The peer ends or loses its side.  During onConnect nobody is listening to
\* the socket, so this is noticed after it.
PeerLeaves(s) ==
  /\ socket[s] \in {"open", "ended"} /\ stage[s] # "connecting"
  /\ socket' = [socket EXCEPT ![s] = "gone"]
  /\ Finish({s})
  /\ UNCHANGED <<chain, handled, handling>>

-----------------------------------------------------------------------------
\* WebSocketSessionStore.closeAll
CloseAll == Finish(stored) /\ EndSockets(stored) /\ UNCHANGED <<chain, handled, handling>>

\* Mutant of Terminate: pending upgrades are forgotten.
TerminateConnections ==
  /\ socket' = [s \in Sessions |->
                  IF s \in Sockets /\ stage[s] # "connecting" THEN "gone" ELSE socket[s]]
  /\ Finish({s \in Sessions : socket[s] # "gone"})
  /\ UNCHANGED <<chain, handled, handling>>

\* The cutoff of waitForSettlement: pending upgrades and connections lose
\* their sockets.
Terminate ==
  /\ socket' = [s \in Sessions |->
                  IF s \in Sockets /\ stage[s] # "refused" THEN "gone" ELSE socket[s]]
  /\ Finish({s \in Sessions : socket[s] # "gone"})
  /\ UNCHANGED <<chain, handled, handling>>

-----------------------------------------------------------------------------
WsStep(s) ==
  \/ Connected(s) \/ Rejected(s) \/ HandlerStarts(s) \/ GarbageFound(s)
  \/ MessageSettles(s) \/ DisconnectSettles(s) \/ PeerLeaves(s)
  \/ \E chunk \in Chunks : Read(s, chunk)
=============================================================================
