------------------------- MODULE ApplicationProofs -------------------------
(***************************************************************************)
(* Theorems about Application.tla (with WebSocketTransport.tla) and about  *)
(* EventDispatcher.tla, which close() of an application comes to last, for *)
(* any requests, sessions, tasks, events and listeners: the order in which *)
(* an application goes down and what is left of it; where each event is,   *)
(* what is said of it, and strict FIFO.                                    *)
(***************************************************************************)
EXTENDS Application, EventDispatcher, SequenceTheorems, WellFoundedInduction, TLAPS

-----------------------------------------------------------------------------
(***************************************************************************)
(* The application                                                         *)
(***************************************************************************)

-----------------------------------------------------------------------------
(* Texts of a chunk *)

\* A set of numbers that is not empty has a least element.
LEMMA LeastNumber ==
  ASSUME NEW S \in SUBSET Nat, S # {}
  PROVE  \E m \in S : \A k \in S : m <= k
<1> DEFINE R == OpToRel(<, Nat)
<1>1. PICK m \in S : \A k \in S : <<k, m>> \notin R
  BY NatLessThanWellFounded, WFMin
<1>2. ASSUME NEW k \in S PROVE m <= k
  <2>1. m \in Nat /\ k \in Nat
    OBVIOUS
  <2>2. ~(k < m)
    BY <1>1 DEF OpToRel
  <2>3. QED
    BY <2>2
<1>3. QED
  BY <1>2

\* What the loop of #read does with frame i, and the values it has had after
\* m frames.  The function in Texts exists, and yields texts only.
TextKinds == {"text", "garbage"}
Frame(chunk, i, t) ==
  IF Parsed(chunk, i) /\ chunk[i] \in TextKinds THEN Append(t, chunk[i]) ELSE t
Reads(chunk, m) ==
  {f \in [0..m -> Seq(TextKinds)] :
     f[0] = <<>> /\ \A i \in 1..m : f[i] = Frame(chunk, i, f[i - 1])}

LEMMA FrameType ==
  ASSUME NEW chunk, NEW i, NEW t \in Seq(TextKinds)
  PROVE  Frame(chunk, i, t) \in Seq(TextKinds)
BY DEF Frame

LEMMA ReadsExist ==
  ASSUME NEW chunk, NEW n \in Nat
  PROVE  Reads(chunk, n) # {}
<1> DEFINE B == {m \in Nat : Reads(chunk, m) = {}}
<1> SUFFICES ASSUME B # {} PROVE FALSE
  OBVIOUS
<1>1. PICK m \in B : \A k \in B : m <= k
  BY LeastNumber
<1>2. CASE m = 0
  <2>1. [i \in 0..0 |-> <<>>] \in Reads(chunk, 0)
    BY DEF Reads
  <2>2. QED
    BY <2>1
<1>3. CASE m # 0
  <2>1. m - 1 \in Nat /\ m - 1 \notin B
    BY <1>1, <1>3
  <2>2. PICK f : f \in Reads(chunk, m - 1)
    BY <2>1
  <2> DEFINE g == [i \in 0..m |-> IF i = m THEN Frame(chunk, m, f[m - 1]) ELSE f[i]]
  <2>3. f \in [0..m - 1 -> Seq(TextKinds)] /\ f[0] = <<>>
        /\ \A i \in 1..m - 1 : f[i] = Frame(chunk, i, f[i - 1])
    BY <2>2 DEF Reads
  <2>4. Frame(chunk, m, f[m - 1]) \in Seq(TextKinds)
    BY <2>1, <2>3, FrameType
  <2>5. g \in [0..m -> Seq(TextKinds)]
    BY <2>3, <2>4
  <2>6. g[0] = <<>>
    BY <1>3, <2>3
  <2>7. ASSUME NEW i \in 1..m PROVE g[i] = Frame(chunk, i, g[i - 1])
    <3>1. g[i - 1] = f[i - 1]
      OBVIOUS
    <3>2. CASE i = m
      BY <3>2
    <3>3. CASE i # m
      <4>1. i \in 1..m - 1 /\ i - 1 \in 0..m /\ g[i] = f[i]
        BY <3>3
      <4>2. QED
        BY <2>3
    <3>4. QED
      BY <3>3
  <2>8. g \in Reads(chunk, m)
    BY <2>5, <2>6, <2>7 DEF Reads
  <2>9. QED
    BY <2>8
<1>4. QED
  BY <1>2, <1>3

LEMMA TextsType ==
  ASSUME NEW S, NEW chunk \in Seq(S)
  PROVE  Texts(chunk) \in Seq(TextKinds)
<1> DEFINE n == Len(chunk)
           Is(f) == f = [i \in 0..n |-> IF i = 0 THEN <<>>
                                        ELSE IF Parsed(chunk, i) /\ chunk[i] \in {"text", "garbage"}
                                             THEN Append(f[i - 1], chunk[i]) ELSE f[i - 1]]
           F == CHOOSE f : Is(f)
<1>1. n \in Nat
  OBVIOUS
<1>2. PICK f : f \in Reads(chunk, n)
  BY ReadsExist
<1>3. Is(f)
  <2>1. DOMAIN f = 0..n /\ f = [i \in 0..n |-> f[i]] /\ f[0] = <<>>
    BY <1>2 DEF Reads
  <2>2. ASSUME NEW i \in 0..n, i # 0
        PROVE  f[i] = IF Parsed(chunk, i) /\ chunk[i] \in {"text", "garbage"}
                      THEN Append(f[i - 1], chunk[i]) ELSE f[i - 1]
    <3>1. i \in 1..n
      BY <2>2
    <3>2. QED
      BY <3>1, <1>2 DEF Reads, Frame, TextKinds
  <2>3. QED
    BY <2>1
<1>4. Is(F)
  BY <1>3
<1>5. Texts(chunk) = F[n]
  BY DEF Texts
<1> DEFINE B == {i \in 0..n : F[i] \notin Seq(TextKinds)}
<1> HIDE DEF F
<1>6. B = {}
  <2> SUFFICES ASSUME B # {} PROVE FALSE
    OBVIOUS
  <2>1. PICK i \in B : \A k \in B : i <= k
    <3>1. B \in SUBSET Nat
      OBVIOUS
    <3>2. QED
      BY <3>1, LeastNumber
  <2>2. F[0] \in Seq(TextKinds)
    BY <1>4
  <2>3. i - 1 \in 0..n /\ F[i - 1] \in Seq(TextKinds)
    BY <2>1, <2>2
  <2>4. F[i] = Frame(chunk, i, F[i - 1])
    <3>1. i \in 0..n /\ i # 0
      BY <2>2
    <3>2. QED
      BY <3>1, <1>4 DEF Frame, TextKinds
  <2>5. QED
    BY <2>3, <2>4, FrameType
<1>7. QED
  BY <1>5, <1>6

-----------------------------------------------------------------------------
(* Sessions *)

\* Ending connections: a session that ends is neither stored nor live.
LEMMA FinishFacts ==
  ASSUME WsTypeOK, NEW S \in SUBSET Sessions, Finish(S)
  PROVE  /\ stage' \in [Sessions -> {"absent", "connecting", "refused", "live", "ended"}]
         /\ hook' \in [Sessions -> {"none", "running", "done"}]
         /\ stored' \subseteq stored
         /\ \A s \in Sessions :
              /\ stage'[s] = IF s \in S /\ stage[s] = "live" THEN "ended" ELSE stage[s]
              /\ hook'[s] = IF s \in S /\ stage[s] = "live" THEN "running" ELSE hook[s]
              /\ s \in stored' => s \notin S \/ stage[s] # "live"
BY DEF Finish, WsTypeOK

LEMMA EndSocketsFacts ==
  ASSUME WsTypeOK, NEW S \in SUBSET Sessions, EndSockets(S)
  PROVE  /\ socket' \in [Sessions -> {"none", "open", "ended", "gone"}]
         /\ Sockets' = Sockets
BY DEF EndSockets, WsTypeOK, Sockets

\* What may become of the sessions in a step in which no connection comes in:
\* nobody gets a socket back, a session that loses its socket ends, and once
\* nothing is going on it stays so.
Lives(s) == stage[s] \in {"connecting", "live"}
StoredLive == \A s \in stored : stage[s] = "live"
Calmed ==
  /\ Sockets' \subseteq Sockets
  /\ \A s \in Sessions :
       /\ Lives(s)' => Lives(s)
       /\ Lives(s)' /\ s \in Sockets => s \in Sockets'
       /\ stage[s] = "absent" => stage'[s] = "absent"
  /\ StoredLive => StoredLive'
StaysOver == Sockets = {} /\ Operations = {} => Operations' = {}

LEMMA SessionStepTypes ==
  ASSUME WsTypeOK, NEW s \in Sessions, WsStep(s)
  PROVE  WsTypeOK'
<1>1. CASE Connected(s)
  BY <1>1 DEF Connected, WsTypeOK
<1>2. CASE Rejected(s)
  BY <1>2 DEF Rejected, WsTypeOK
<1>3. CASE HandlerStarts(s)
  BY <1>3 DEF HandlerStarts, WsTypeOK
<1>4. CASE MessageSettles(s)
  BY <1>4 DEF MessageSettles, WsTypeOK
<1>5. CASE DisconnectSettles(s)
  BY <1>5 DEF DisconnectSettles, WsTypeOK
<1>6. CASE GarbageFound(s)
  BY <1>6, FinishFacts, EndSocketsFacts DEF WsTypeOK, GarbageFound
<1>7. CASE PeerLeaves(s)
  BY <1>7, FinishFacts DEF WsTypeOK, PeerLeaves
<1>8. ASSUME NEW chunk \in Chunks, Read(s, chunk) PROVE WsTypeOK'
  <2>1. Texts(chunk) \in Seq({"text", "garbage"})
    BY TransportAssumption, TextsType DEF TextKinds
  <2>2. chain' \in [Sessions -> Seq({"text", "garbage"})]
    BY <1>8, <2>1 DEF Read, WsTypeOK
  <2>3. QED
    BY <1>8, <2>2, FinishFacts, EndSocketsFacts DEF WsTypeOK, Read
<1>9. QED
  BY <1>1, <1>2, <1>3, <1>4, <1>5, <1>6, <1>7, <1>8 DEF WsStep

LEMMA SessionStepCalms ==
  ASSUME WsTypeOK, NEW s \in Sessions, WsStep(s)
  PROVE  Calmed /\ StaysOver
<1>1. CASE Connected(s)
  BY <1>1 DEF Connected, WsTypeOK, Calmed, Lives, StoredLive, StaysOver, Sockets, Operations
<1>2. CASE Rejected(s)
  <2>1. \A u \in Sessions : /\ stage'[u] = IF u = s THEN "refused" ELSE stage[u]
                            /\ u \in Sockets' <=> u \in Sockets
    BY <1>2 DEF Rejected, WsTypeOK, Sockets
  <2>2. Operations' \subseteq Operations
    BY <1>2 DEF Rejected, Operations
  <2>3. QED
    BY <1>2, <2>2 DEF Rejected, Calmed, Lives, StoredLive, StaysOver, Sockets
<1>3. CASE HandlerStarts(s)
  BY <1>3 DEF HandlerStarts, Calmed, Lives, StoredLive, StaysOver, Sockets, Operations
<1>4. CASE MessageSettles(s)
  BY <1>4 DEF MessageSettles, WsTypeOK, Calmed, Lives, StoredLive, StaysOver, Sockets,
     Operations
<1>5. CASE DisconnectSettles(s)
  BY <1>5 DEF DisconnectSettles, Calmed, Lives, StoredLive, StaysOver, Sockets, Operations
<1>6. CASE GarbageFound(s)
  BY <1>6, FinishFacts, EndSocketsFacts DEF WsTypeOK, GarbageFound, Calmed, Lives,
     StoredLive, StaysOver, Operations, Ready
<1>7. CASE PeerLeaves(s)
  BY <1>7, FinishFacts DEF WsTypeOK, PeerLeaves, Calmed, Lives, StoredLive, StaysOver,
     Sockets
<1>8. ASSUME NEW chunk \in Chunks, Read(s, chunk) PROVE Calmed /\ StaysOver
  BY <1>8, FinishFacts, EndSocketsFacts DEF WsTypeOK, Read, Calmed, Lives, StoredLive,
     StaysOver, Sockets
<1>9. QED
  BY <1>1, <1>2, <1>3, <1>4, <1>5, <1>6, <1>7, <1>8 DEF WsStep

LEMMA CloseAllFacts ==
  ASSUME WsTypeOK, CloseAll
  PROVE  WsTypeOK' /\ Calmed
<1>1. stored \in SUBSET Sessions /\ Finish(stored) /\ EndSockets(stored)
  BY DEF CloseAll, WsTypeOK
<1>2. WsTypeOK'
  BY FinishFacts, EndSocketsFacts DEF CloseAll, WsTypeOK
<1>3. Calmed
  BY <1>1, FinishFacts, EndSocketsFacts DEF Calmed, Lives, StoredLive
<1>4. QED
  BY <1>2, <1>3

\* The cutoff: what still connects loses its socket, so that only the other
\* part of Calmed is left.
LEMMA TerminateFacts ==
  ASSUME WsTypeOK, Terminate
  PROVE  /\ WsTypeOK'
         /\ Sockets' \subseteq Sockets
         /\ \A s \in Sessions : stage[s] = "absent" => stage'[s] = "absent"
         /\ StoredLive => StoredLive'
<1> DEFINE S == {s \in Sessions : socket[s] # "gone"}
<1>1. S \in SUBSET Sessions /\ Finish(S)
  BY DEF Terminate
<1>2. socket' \in [Sessions -> {"none", "open", "ended", "gone"}] /\ Sockets' \subseteq Sockets
  BY DEF Terminate, WsTypeOK, Sockets
<1> HIDE DEF S
<1>3. QED
  BY <1>2, FinishFacts DEF Terminate, WsTypeOK, StoredLive

-----------------------------------------------------------------------------
(* Types *)

LEMMA UnchangedWs ==
  ASSUME UNCHANGED wsVars, WsTypeOK
  PROVE  WsTypeOK' /\ Calmed /\ StaysOver
BY DEF wsVars, WsTypeOK, Calmed, Lives, StoredLive, StaysOver, Sockets, Operations

\* The part of close() that stops the server, or passes it by.
LEMMA ProceedFacts ==
  ASSUME TypeOK, Proceed
  PROVE  /\ WsTypeOK' /\ Calmed
         /\ kept' \subseteq kept /\ awaiting' \subseteq {"responses", "handlers"}
         /\ UNCHANGED <<response, handler, late>>
         /\ \/ server = "listening" /\ server' = "closing" /\ phase' = "http"
            \/ server # "listening" /\ server' = server /\ phase' = "tasks" /\ StaysOver
<1>1. CASE server = "listening"
  BY <1>1, CloseAllFacts DEF Proceed, StopServing, TypeOK
<1>2. CASE server # "listening"
  BY <1>2, UnchangedWs DEF Proceed, TypeOK, httpVars
<1>3. QED
  BY <1>1, <1>2

LEMMA AbandonedType ==
  ASSUME TypeOK, NEW S \in SUBSET Requests
  PROVE  /\ Abandoned(S) \in [Requests -> {"none", "reading", "middleware", "running", "done"}]
         /\ Destroyed(S) \in [Requests -> {"none", "open", "finished", "destroyed"}]
         /\ \A r \in Requests : Destroyed(S)[r] = "open" => response[r] = "open" /\ r \notin S
BY DEF TypeOK, Abandoned, Destroyed

LEMMA StartTypes ==
  ASSUME TypeOK, Start PROVE TypeOK'
<1>1. WsTypeOK'
  BY UnchangedWs DEF Start, Listen, BeforeAppStart, BindFails, Bound, Started, TypeOK
<1>2. QED
  BY <1>1 DEF Start, Listen, BeforeAppStart, BindFails, Bound, Started, TypeOK, httpVars,
     taskVars

LEMMA HttpTypes ==
  ASSUME TypeOK, NEW r \in Requests, HttpStep(r) PROVE TypeOK'
<1>1. UNCHANGED <<lifeVars, taskVars, wsVars>> /\ WsTypeOK'
  BY UnchangedWs DEF HttpStep, RequestArrives, HandlerSettles, ClientLeaves, ConnectionEnds,
     BodyRead, MiddlewareEnds, ResponseEnds, TypeOK
<1> USE DEF TypeOK, lifeVars, taskVars
<1>2. CASE RequestArrives(r)
  BY <1>1, <1>2 DEF RequestArrives
<1>3. CASE HandlerSettles(r)
  BY <1>1, <1>3 DEF HandlerSettles, Awaited
<1>4. CASE ClientLeaves(r)
  BY <1>1, <1>4, AbandonedType DEF ClientLeaves, Awaited
<1>5. CASE ConnectionEnds(r)
  BY <1>1, <1>5 DEF ConnectionEnds
<1>6. ASSUME NEW b \in BOOLEAN, BodyRead(r, b) \/ MiddlewareEnds(r, b) PROVE TypeOK'
  BY <1>1, <1>6 DEF BodyRead, MiddlewareEnds
<1>7. ASSUME NEW b \in BOOLEAN, ResponseEnds(r, b) PROVE TypeOK'
  BY <1>1, <1>7 DEF ResponseEnds, Awaited
<1>8. QED
  BY <1>2, <1>3, <1>4, <1>5, <1>6, <1>7 DEF HttpStep

LEMMA PeerTypes ==
  ASSUME TypeOK, NEW p \in Peers, PeerStep(p) PROVE TypeOK'
<1>1. UNCHANGED <<lifeVars, taskVars, wsVars>> /\ WsTypeOK'
  BY UnchangedWs DEF PeerStep, Holds, ConnectionEnds, TypeOK
<1>2. UNCHANGED <<response, handler, awaiting, late>> /\ kept' \subseteq Requests \cup Peers
  BY DEF PeerStep, Holds, ConnectionEnds, TypeOK
<1>3. QED
  BY <1>1, <1>2 DEF TypeOK, lifeVars, taskVars

LEMMA TaskTypes ==
  ASSUME TypeOK, NEW t \in Tasks, TaskStep(t) PROVE TypeOK'
<1>1. UNCHANGED <<lifeVars, httpVars, wsVars>> /\ WsTypeOK'
  BY UnchangedWs DEF TaskStep, TaskDue, TaskSettles, TypeOK
<1>2. task' \in [Tasks -> {"idle", "running", "overdue"}] /\ reports' \in [Tasks -> Nat]
  BY DEF TaskStep, TaskDue, TaskSettles, TypeOK
<1>3. QED
  BY <1>1, <1>2 DEF TypeOK, lifeVars, httpVars

LEMMA SessionTypes ==
  ASSUME TypeOK, NEW s \in Sessions, SessionStep(s) PROVE TypeOK'
<1>1. CASE UpgradeArrives(s)
  BY <1>1 DEF UpgradeArrives, Upgrade, TypeOK, WsTypeOK, lifeVars, taskVars
<1>2. CASE WsStep(s) /\ UNCHANGED <<lifeVars, httpVars, taskVars>>
  BY <1>2, SessionStepTypes DEF TypeOK, lifeVars, httpVars, taskVars
<1>3. QED
  BY <1>1, <1>2 DEF SessionStep

LEMMA CloseTypes ==
  ASSUME TypeOK, Close \/ Shutdown PROVE TypeOK'
<1> USE DEF TypeOK, httpVars, taskVars, Phases
<1>1. CASE Close
  <2>1. CASE state = "starting"
    BY <1>1, <2>1, UnchangedWs DEF Close
  <2>2. CASE state # "starting"
    BY <1>1, <2>2, ProceedFacts DEF Close
  <2>3. QED
    BY <2>1, <2>2
<1>2. CASE AppStartFails
  <2>1. CASE Closing
    BY <1>2, <2>1, UnchangedWs DEF AppStartFails
  <2>2. CASE ~Closing
    BY <1>2, <2>2, ProceedFacts DEF AppStartFails
  <2>3. QED
    BY <2>1, <2>2
<1>3. CASE StartAwaited
  BY <1>3, ProceedFacts DEF StartAwaited
<1>4. ASSUME NEW cut \in BOOLEAN, EndHttp(cut) PROVE TypeOK'
  <2>1. Open(response) \in SUBSET Requests
    BY DEF Open
  <2>2. QED
    BY <1>4, <2>1, AbandonedType, UnchangedWs DEF EndHttp
<1>5. CASE ServerEnds \/ TransportSettled \/ ServerAwaited \/ TasksSettled
  <2>1. UNCHANGED <<state, starting, ready, cuts, httpVars, taskVars, wsVars>>
    BY <1>5 DEF ServerEnds, TransportSettled, ServerAwaited, TasksSettled
  <2>2. server' \in {server, "closed"} /\ phase' \in {phase, "server", "tasks", "events"}
    BY <1>5 DEF ServerEnds, TransportSettled, ServerAwaited, TasksSettled
  <2>3. QED
    BY <2>1, <2>2, UnchangedWs
<1>6. CASE TransportTimeout
  BY <1>6, TerminateFacts DEF TransportTimeout
<1>7. CASE TasksTimeout
  BY <1>7, UnchangedWs DEF TasksTimeout
<1>8. CASE ShutdownRest
  BY <1>8, UnchangedWs DEF ShutdownRest, Rest
<1>9. QED
  BY <1>1, <1>2, <1>3, <1>4, <1>5, <1>6, <1>7, <1>8 DEF Shutdown

LEMMA TypeInit == Init => TypeOK
<1> SUFFICES ASSUME Init PROVE TypeOK
  OBVIOUS
<1>1. chain \in [Sessions -> Seq({"text", "garbage"})]
  BY DEF Init, WsInit
<1>2. WsTypeOK
  BY DEF Init, WsInit, WsTypeOK
<1>3. QED
  BY <1>2 DEF Init, TypeOK, Phases

LEMMA TypeStep == TypeOK /\ [Next]_vars => TypeOK'
<1> SUFFICES ASSUME TypeOK, [Next]_vars PROVE TypeOK'
  OBVIOUS
<1>1. CASE UNCHANGED vars
  BY <1>1, UnchangedWs DEF vars, lifeVars, httpVars, taskVars, TypeOK
<1>2. CASE Next
  BY <1>2, StartTypes, HttpTypes, PeerTypes, TaskTypes, SessionTypes, CloseTypes DEF Next
<1>3. QED
  BY <1>1, <1>2

\* Every variable keeps its type, whatever requests, peers, hooks and tasks do.
THEOREM TypeCorrect == Spec => []TypeOK
BY TypeInit, TypeStep, PTL DEF Spec

-----------------------------------------------------------------------------
(* Life cycle *)

LEMMA LifeStep == TypeOK /\ LifeInv /\ [Next]_vars => LifeInv'
<1> SUFFICES ASSUME TypeOK, LifeInv, [Next]_vars PROVE LifeInv'
  OBVIOUS
<1> USE DEF LifeInv, Closing, Behind
<1>1. ASSUME UNCHANGED lifeVars PROVE LifeInv'
  BY <1>1 DEF lifeVars
<1>2. CASE Start
  BY <1>2 DEF Start, Listen, BeforeAppStart, BindFails, Bound, Started, TypeOK
<1>3. CASE Close
  BY <1>3, ProceedFacts DEF Close
<1>4. CASE Shutdown
  <2>1. CASE AppStartFails
    BY <2>1, ProceedFacts DEF AppStartFails
  <2>2. CASE StartAwaited
    BY <2>2, ProceedFacts DEF StartAwaited
  <2>3. CASE \E cut \in BOOLEAN : EndHttp(cut)
    BY <2>3 DEF EndHttp
  <2>4. CASE ServerEnds \/ TransportSettled \/ ServerAwaited \/ TasksSettled
    BY <2>4 DEF ServerEnds, TransportSettled, ServerAwaited, TasksSettled
  <2>5. CASE TransportTimeout \/ TasksTimeout \/ ShutdownRest
    BY <2>5 DEF TransportTimeout, TasksTimeout, ShutdownRest, Rest
  <2>6. QED
    BY <1>4, <2>1, <2>2, <2>3, <2>4, <2>5 DEF Shutdown
<1>5. ASSUME NEW r \in Requests, HttpStep(r) PROVE LifeInv'
  BY <1>1, <1>5 DEF HttpStep, RequestArrives, HandlerSettles, ClientLeaves, ConnectionEnds,
     BodyRead, MiddlewareEnds, ResponseEnds
<1>6. ASSUME NEW s \in Sessions, SessionStep(s) PROVE LifeInv'
  BY <1>1, <1>6 DEF SessionStep, UpgradeArrives
<1>7. ASSUME NEW t \in Tasks, TaskStep(t) PROVE LifeInv'
  BY <1>1, <1>7 DEF TaskStep, TaskDue, TaskSettles
<1>8. ASSUME NEW p \in Peers, PeerStep(p) PROVE LifeInv'
  BY <1>1, <1>8 DEF PeerStep, Holds, ConnectionEnds
<1>9. QED
  BY <1>1, <1>2, <1>3, <1>4, <1>5, <1>6, <1>7, <1>8 DEF Next, vars

-----------------------------------------------------------------------------
(* Requests and sessions *)

\* A step in which no connection comes in, and which either leaves server and
\* phase alone or goes on where nobody is connected.
LEMMA ServedSuffices ==
  ASSUME TypeOK, LifeInv, ServedInv, Calmed,
         Open(response)' \subseteq Open(response),
         Unserved => kept' \subseteq kept,
         cuts \subseteq cuts',
         \/ server' = server /\ StaysOver
         \/ server = "listening" /\ server' = "closing",
         \/ phase' = phase
         \/ phase' \in {"start", "http", "transport"}
         \/ phase = "server" \/ Behind("server")
         \/ server = "none"
  PROVE  ServedInv'
<1>1. Unserved' => Unserved /\ server' = server /\ StaysOver
  BY DEF Unserved
<1>2. Unserved' => Open(response)' = {} /\ kept' = {} /\ Sockets' = {}
  BY <1>1 DEF ServedInv, Calmed
<1>3. server' = "none" => Operations' = {} /\ \A s \in Sessions : stage'[s] = "absent"
  BY DEF ServedInv, Calmed, StaysOver, Unserved
<1>4. \A s \in stored' : stage'[s] = "live"
  BY DEF ServedInv, Calmed, StoredLive
<1>5. ASSUME "transport" \notin cuts', NEW s \in Sessions, stage'[s] \in {"connecting", "live"}
      PROVE  s \in Sockets'
  BY <1>5 DEF ServedInv, Calmed, Lives
<1>6. ASSUME "transport" \notin cuts', phase' = "server" \/ Behind("server")'
      PROVE  Unserved' /\ Operations' = {}
  <2>1. phase = "server" \/ Behind("server") \/ server = "none"
    BY <1>6 DEF Behind
  <2>2. Unserved /\ Operations = {} /\ Sockets = {}
    BY <1>6, <2>1 DEF ServedInv, Unserved
  <2>3. server' = server /\ StaysOver
    BY <2>2 DEF Unserved
  <2>4. QED
    BY <2>2 DEF Unserved, StaysOver
<1>7. QED
  BY <1>2, <1>3, <1>4, <1>5, <1>6 DEF ServedInv

LEMMA ServedStep == TypeOK /\ LifeInv /\ ServedInv /\ [Next]_vars => ServedInv'
<1> SUFFICES ASSUME TypeOK, LifeInv, ServedInv, [Next]_vars PROVE ServedInv'
  OBVIOUS
<1>0. WsTypeOK
  BY DEF TypeOK
<1>1. ASSUME UNCHANGED <<wsVars, lifeVars>>, Open(response)' \subseteq Open(response),
             Unserved => kept' \subseteq kept
      PROVE  ServedInv'
  BY <1>0, <1>1, UnchangedWs, ServedSuffices DEF lifeVars
<1>2. CASE UNCHANGED vars
  BY <1>1, <1>2 DEF vars, httpVars
<1>3. CASE Start
  <2>1. CASE Bound
    <3>1. server' = "listening" /\ UNCHANGED <<phase, cuts, response, kept>> /\ UNCHANGED wsVars
      BY <2>1 DEF Bound, httpVars
    <3>2. phase \in {"open", "start"}
      BY <2>1 DEF Bound, LifeInv
    <3>3. QED
      BY <3>1, <3>2 DEF ServedInv, Unserved, Behind, wsVars, Sockets
  <2>2. CASE ~Bound
    <3>1. UNCHANGED <<server, phase, cuts, response, kept>> /\ UNCHANGED wsVars
      BY <1>3, <2>2 DEF Start, Listen, BeforeAppStart, BindFails, Started, httpVars
    <3>2. QED
      BY <1>0, <3>1, UnchangedWs, ServedSuffices
  <2>3. QED
    BY <2>1, <2>2
<1>4. ASSUME Proceed, UNCHANGED cuts, phase \in {"open", "start"} PROVE ServedInv'
  <2>1. server \in {"none", "listening"}
    BY <1>4 DEF LifeInv
  <2>2. QED
    BY <1>4, <2>1, ProceedFacts, ServedSuffices
<1>5. CASE Close
  <2>1. CASE state = "starting"
    BY <1>0, <1>5, <2>1, UnchangedWs, ServedSuffices DEF Close, httpVars
  <2>2. CASE state # "starting"
    BY <1>4, <1>5, <2>2 DEF Close, Closing
  <2>3. QED
    BY <2>1, <2>2
<1>6. CASE Shutdown
  <2>1. CASE AppStartFails
    <3>1. CASE Closing
      BY <1>0, <2>1, <3>1, UnchangedWs, ServedSuffices DEF AppStartFails, httpVars
    <3>2. CASE ~Closing
      BY <1>4, <2>1, <3>2 DEF AppStartFails, Closing
    <3>3. QED
      BY <3>1, <3>2
  <2>2. CASE StartAwaited
    BY <1>4, <2>2 DEF StartAwaited
  <2>3. ASSUME NEW cut \in BOOLEAN, EndHttp(cut) PROVE ServedInv'
    <3>1. Open(response)' \subseteq Open(response)
      BY <2>3 DEF EndHttp, Open, Destroyed
    <3>2. /\ UNCHANGED wsVars /\ UNCHANGED <<server, kept>>
          /\ phase' = "transport" /\ cuts \subseteq cuts'
      BY <2>3 DEF EndHttp
    <3>3. QED
      BY <1>0, <3>1, <3>2, UnchangedWs, ServedSuffices
  <2>4. CASE ServerEnds
    <3>1. UNCHANGED <<phase, cuts, response, kept>> /\ UNCHANGED wsVars /\ server' = "closed"
      BY <2>4 DEF ServerEnds, httpVars
    <3>2. server = "closing" /\ Open(response) = {} /\ kept = {} /\ Sockets = {}
      BY <2>4 DEF ServerEnds
    <3>3. QED
      BY <3>1, <3>2 DEF ServedInv, Unserved, Behind, wsVars, Sockets
  <2>5. CASE TransportSettled
    <3>1. UNCHANGED <<server, cuts, response, kept>> /\ UNCHANGED wsVars
      BY <2>5 DEF TransportSettled, httpVars
    <3>2. server = "closed" /\ Operations = {}
      BY <2>5 DEF TransportSettled
    <3>3. QED
      BY <3>1, <3>2 DEF ServedInv, Unserved, wsVars, Sockets, Operations
  <2>6. CASE TransportTimeout
    <3>1. UNCHANGED <<server, response, kept>> /\ "transport" \in cuts' /\ server # "none"
      BY <2>6 DEF TransportTimeout, httpVars, LifeInv
    <3>2. /\ Sockets' \subseteq Sockets
          /\ StoredLive => StoredLive'
      BY <1>0, <2>6, TerminateFacts DEF TransportTimeout
    <3>3. QED
      BY <3>1, <3>2 DEF ServedInv, Unserved, StoredLive
  <2>7. CASE ServerAwaited \/ TasksSettled \/ TasksTimeout \/ ShutdownRest
    <3>1. UNCHANGED <<server, response, kept>> /\ UNCHANGED wsVars /\ cuts \subseteq cuts'
      BY <2>7 DEF ServerAwaited, TasksSettled, TasksTimeout, ShutdownRest, Rest, httpVars
    <3>2. phase = "server" \/ Behind("server")
      BY <2>7 DEF ServerAwaited, TasksSettled, TasksTimeout, ShutdownRest, Behind
    <3>3. QED
      BY <1>0, <3>1, <3>2, UnchangedWs, ServedSuffices
  <2>8. QED
    BY <1>6, <2>1, <2>2, <2>3, <2>4, <2>5, <2>6, <2>7 DEF Shutdown
<1>7. ASSUME NEW r \in Requests, HttpStep(r) PROVE ServedInv'
  <2>1. CASE RequestArrives(r)
    <3>1. server \in {"listening", "closing"} /\ UNCHANGED lifeVars /\ UNCHANGED wsVars
      BY <2>1 DEF RequestArrives, Reachable
    <3>2. QED
      BY <3>1 DEF ServedInv, Unserved, Behind, wsVars, lifeVars, Sockets
  <2>2. CASE ~RequestArrives(r)
    <3>1. UNCHANGED <<wsVars, lifeVars>>
      BY <1>7, <2>2 DEF HttpStep, HandlerSettles, ClientLeaves, ConnectionEnds, BodyRead,
         MiddlewareEnds, ResponseEnds
    <3>2. Open(response)' \subseteq Open(response)
      BY <1>7, <2>2 DEF HttpStep, HandlerSettles, ClientLeaves, ConnectionEnds, BodyRead,
         MiddlewareEnds, ResponseEnds, Open, Destroyed, TypeOK
    <3>3. Unserved => kept' \subseteq kept
      BY <1>7, <2>2 DEF HttpStep, HandlerSettles, ClientLeaves, ConnectionEnds, BodyRead,
         MiddlewareEnds, ResponseEnds, Unserved
    <3>4. QED
      BY <1>1, <3>1, <3>2, <3>3
  <2>3. QED
    BY <2>1, <2>2
<1>8. ASSUME NEW s \in Sessions, SessionStep(s) PROVE ServedInv'
  <2>1. CASE UpgradeArrives(s)
    <3>1. server \in {"listening", "closing"} /\ UNCHANGED <<lifeVars, stored>>
      BY <2>1 DEF UpgradeArrives, Upgrade, Reachable
    <3>2. /\ stage[s] = "absent" /\ stage'[s] = "connecting" /\ s \in Sockets'
          /\ \A u \in Sessions : u # s => stage'[u] = stage[u] /\ (u \in Sockets => u \in Sockets')
      BY <2>1 DEF UpgradeArrives, Upgrade, TypeOK, WsTypeOK, Sockets
    <3>3. \A u \in stored : u \in Sessions /\ u # s
      BY <3>2 DEF ServedInv, TypeOK, WsTypeOK
    <3>4. QED
      BY <3>1, <3>2, <3>3 DEF ServedInv, Unserved, Behind, lifeVars
  <2>2. CASE WsStep(s) /\ UNCHANGED <<lifeVars, httpVars, taskVars>>
    BY <1>0, <2>2, SessionStepCalms, ServedSuffices DEF lifeVars, httpVars
  <2>3. QED
    BY <1>8, <2>1, <2>2 DEF SessionStep
<1>9. ASSUME NEW t \in Tasks, TaskStep(t) PROVE ServedInv'
  BY <1>1, <1>9 DEF TaskStep, TaskDue, TaskSettles, httpVars
<1>10. ASSUME NEW p \in Peers, PeerStep(p) PROVE ServedInv'
  <2>1. /\ UNCHANGED <<wsVars, lifeVars>> /\ Open(response)' = Open(response)
        /\ Unserved => kept' \subseteq kept
    BY <1>10 DEF PeerStep, Holds, ConnectionEnds, Open, Unserved
  <2>2. QED
    BY <1>1, <2>1
<1>11. QED
  BY <1>2, <1>3, <1>5, <1>6, <1>7, <1>8, <1>9, <1>10 DEF Next

-----------------------------------------------------------------------------
(* Scheduled tasks *)

LEMMA TasksStep == TypeOK /\ LifeInv /\ TasksInv /\ [Next]_vars => TasksInv'
<1> SUFFICES ASSUME TypeOK, LifeInv, TasksInv, [Next]_vars PROVE TasksInv'
  OBVIOUS
\* A step that leaves the tasks alone, and close() before or behind them.
<1>1. ASSUME UNCHANGED taskVars, cuts \subseteq cuts', Behind("tasks") => Behind("tasks")',
             Behind("tasks")' /\ "tasks" \notin cuts' => Behind("tasks") \/ Active = {}
      PROVE  TasksInv'
  BY <1>1 DEF TasksInv, taskVars, Active
<1>2. CASE UNCHANGED vars
  BY <1>1, <1>2 DEF vars, lifeVars, Behind
<1>3. CASE Start
  BY <1>1, <1>3 DEF Start, Listen, BeforeAppStart, BindFails, Bound, Started, Behind
<1>4. ASSUME Proceed, UNCHANGED <<cuts, taskVars>>, phase \in {"open", "start"} PROVE TasksInv'
  BY <1>1, <1>4, ProceedFacts DEF Behind
<1>5. CASE Close
  <2>1. CASE state = "starting"
    BY <1>1, <1>5, <2>1 DEF Close, Closing, Behind
  <2>2. CASE state # "starting"
    BY <1>4, <1>5, <2>2 DEF Close, Closing
  <2>3. QED
    BY <2>1, <2>2
<1>6. CASE Shutdown
  <2>1. CASE AppStartFails
    <3>1. CASE Closing
      BY <1>1, <2>1, <3>1 DEF AppStartFails, Behind
    <3>2. CASE ~Closing
      BY <1>4, <2>1, <3>2 DEF AppStartFails, Closing
    <3>3. QED
      BY <3>1, <3>2
  <2>2. CASE StartAwaited
    BY <1>4, <2>2 DEF StartAwaited
  <2>3. CASE (\E cut \in BOOLEAN : EndHttp(cut)) \/ ServerEnds \/ TransportSettled
             \/ TransportTimeout \/ ServerAwaited \/ TasksSettled \/ ShutdownRest
    BY <1>1, <2>3 DEF EndHttp, ServerEnds, TransportSettled, TransportTimeout,
       ServerAwaited, TasksSettled, ShutdownRest, Rest, Behind
  <2>4. CASE TasksTimeout
    <3>1. \A t \in Tasks : task[t] # "overdue"
      BY <2>4 DEF TasksTimeout, TasksInv, Behind
    <3>2. phase' = "events" /\ "tasks" \in cuts'
      BY <2>4 DEF TasksTimeout
    <3>3. \A t \in Tasks :
            IF task[t] = "running" THEN task'[t] = "overdue" /\ reports'[t] = 1
                                   ELSE task'[t] = "idle" /\ reports'[t] = reports[t]
      BY <2>4, <3>1 DEF TasksTimeout, Active, TasksInv, TypeOK
    <3>4. QED
      BY <3>2, <3>3 DEF TasksInv, Behind
  <2>5. QED
    BY <1>6, <2>1, <2>2, <2>3, <2>4 DEF Shutdown
<1>7. ASSUME NEW r \in Requests, HttpStep(r) PROVE TasksInv'
  BY <1>1, <1>7 DEF HttpStep, RequestArrives, HandlerSettles, ClientLeaves, ConnectionEnds,
     BodyRead, MiddlewareEnds, ResponseEnds, lifeVars, Behind
<1>8. ASSUME NEW s \in Sessions, SessionStep(s) PROVE TasksInv'
  BY <1>1, <1>8 DEF SessionStep, UpgradeArrives, lifeVars, Behind
<1>9. ASSUME NEW t \in Tasks, TaskStep(t) PROVE TasksInv'
  <2>1. UNCHANGED <<phase, cuts>>
    BY <1>9 DEF TaskStep, TaskDue, TaskSettles, lifeVars
  <2>2. CASE TaskDue(t)
    BY <2>1, <2>2 DEF TaskDue, Closing, TasksInv, TypeOK, Behind
  <2>3. ASSUME NEW ok \in BOOLEAN, TaskSettles(t, ok) PROVE TasksInv'
    <3>1. task'[t] = "idle" /\ reports'[t] <= 1
      BY <2>3 DEF TaskSettles, TasksInv, TypeOK
    <3>2. \A u \in Tasks : u # t => task'[u] = task[u] /\ reports'[u] = reports[u]
      BY <2>3 DEF TaskSettles
    <3>3. QED
      BY <2>1, <3>1, <3>2 DEF TasksInv, Behind, Active
  <2>4. QED
    BY <1>9, <2>2, <2>3 DEF TaskStep
<1>10. ASSUME NEW p \in Peers, PeerStep(p) PROVE TasksInv'
  BY <1>1, <1>10 DEF PeerStep, Holds, ConnectionEnds, lifeVars, Behind
<1>11. QED
  BY <1>2, <1>3, <1>5, <1>6, <1>7, <1>8, <1>9, <1>10 DEF Next

-----------------------------------------------------------------------------
(* The theorems *)

LEMMA InitIInv == Init => IInv
<1> SUFFICES ASSUME Init PROVE IInv
  OBVIOUS
<1>1. TypeOK
  BY TypeInit
<1>2. LifeInv
  BY DEF Init, LifeInv, Closing
<1>3. ServedInv
  BY DEF Init, WsInit, ServedInv, Unserved, Open, Sockets, Operations
<1>4. TasksInv
  BY DEF Init, TasksInv, Behind
<1>5. QED
  BY <1>1, <1>2, <1>3, <1>4 DEF IInv

\* Types, life cycle, what is served and the tasks are together inductive.
THEOREM Invariance == Spec => []IInv
<1>1. IInv /\ [Next]_vars => IInv'
  BY TypeStep, LifeStep, ServedStep, TasksStep DEF IInv
<1>2. QED
  BY InitIInv, <1>1, PTL DEF Spec

\* Each phase of close() ends only when what it waits for is over, or by its
\* time limit, for any number of requests, sessions and tasks.
THEOREM EachPhaseEnds == Spec => []PhasesInOrder
<1>1. ASSUME IInv PROVE PhasesInOrder
  <2>1. ASSUME Behind("server")
        PROVE  /\ Open(response) = {} /\ kept = {} /\ Sockets = {}
               /\ "transport" \notin cuts => Operations = {}
    BY <1>1, <2>1 DEF IInv, LifeInv, ServedInv, Unserved
  <2>2. ASSUME Behind("tasks"), "tasks" \notin cuts PROVE Active = {}
    BY <1>1, <2>2 DEF IInv, TasksInv
  <2>3. ASSUME phase \notin {"open", "start"} PROVE server # "listening"
    BY <1>1, <2>3 DEF IInv, TypeOK, Phases, LifeInv, Behind
  <2>4. QED
    BY <2>1, <2>2, <2>3 DEF PhasesInOrder
<1>2. QED
  BY Invariance, <1>1, PTL

\* When close() has ended there is no server, no schedule and no session but
\* those whose onConnect outlived the cutoff, however it crossed a start.
THEOREM NothingIsLeft == Spec => []ClosedIsDown
<1>1. IInv => ClosedIsDown
  <2> SUFFICES ASSUME IInv, phase = "closed"
               PROVE  /\ state = "closed" /\ ~ready
                      /\ server \in {"none", "closed"} /\ starting # "binding"
                      /\ stored # {} => "transport" \in cuts
    BY DEF ClosedIsDown
  <2>1. Behind("server")
    BY DEF Behind
  <2>2. state = "closed" /\ ~ready /\ server \in {"none", "closed"} /\ starting # "binding"
    BY <2>1 DEF IInv, LifeInv, Closing
  <2>3. Sockets = {}
    BY <2>2 DEF IInv, ServedInv, Unserved
  <2>4. ASSUME NEW s \in stored PROVE "transport" \in cuts
    BY <2>3 DEF IInv, TypeOK, WsTypeOK, ServedInv
  <2>5. QED
    BY <2>2, <2>4
<1>2. QED
  BY Invariance, <1>1, PTL

\* Runs of a task do not overlap, none starts behind close(), and each is
\* reported at most once.
THEOREM QuietTasks == Spec => TasksAreQuiet
<1> DEFINE Quiet ==
      \A t \in Tasks :
        /\ task'[t] = "running" /\ (task[t] # "running" \/ reports'[t] < reports[t]) =>
             task[t] = "idle" /\ ~Closing
        /\ reports'[t] <= 1
<1>1. IInv /\ IInv' /\ [Next]_vars => Quiet
  <2> SUFFICES ASSUME IInv, IInv', [Next]_vars, NEW u \in Tasks
               PROVE  /\ task'[u] = "running" /\ (task[u] # "running" \/ reports'[u] < reports[u])
                            => task[u] = "idle" /\ ~Closing
                      /\ reports'[u] <= 1
    OBVIOUS
  <2>1. reports'[u] <= 1
    BY DEF IInv, TasksInv
  <2>2. CASE UNCHANGED taskVars
    BY <2>1, <2>2 DEF taskVars, IInv, TypeOK
  <2>3. ASSUME NEW t \in Tasks, TaskDue(t)
        PROVE  task'[u] = "running" /\ (task[u] # "running" \/ reports'[u] < reports[u])
                 => task[u] = "idle" /\ ~Closing
    BY <2>3 DEF TaskDue, IInv, TypeOK
  <2>4. ASSUME NEW t \in Tasks, NEW ok \in BOOLEAN, TaskSettles(t, ok)
        PROVE  task'[u] = "running" => task[u] = "running" /\ reports'[u] = reports[u]
    BY <2>4 DEF TaskSettles, IInv, TypeOK
  <2>5. CASE TasksTimeout
    BY <2>1, <2>5 DEF TasksTimeout
  <2>6. UNCHANGED taskVars \/ (\E t \in Tasks : TaskStep(t)) \/ TasksTimeout
    BY DEF Next, vars, Start, Listen, BeforeAppStart, BindFails, Bound, Started, Close,
       Shutdown, AppStartFails, StartAwaited, EndHttp, ServerEnds, TransportSettled,
       TransportTimeout, ServerAwaited, TasksSettled, ShutdownRest, Rest, HttpStep,
       RequestArrives, HandlerSettles, ClientLeaves, ConnectionEnds, BodyRead,
       MiddlewareEnds, ResponseEnds, SessionStep, UpgradeArrives, PeerStep, Holds
  <2>7. QED
    BY <2>1, <2>2, <2>3, <2>4, <2>5, <2>6 DEF TaskStep, IInv, TypeOK
<1>2. QED
  BY Invariance, <1>1, PTL DEF Spec, TasksAreQuiet

-----------------------------------------------------------------------------
(***************************************************************************)
(* The event dispatcher                                                    *)
(***************************************************************************)

-----------------------------------------------------------------------------
(* Mailboxes, as sequences *)

\* Adding an element at the end.
LEMMA AppendRange ==
  ASSUME NEW S, NEW s \in Seq(S), NEW e \in S
  PROVE  /\ Range(Append(s, e)) = Range(s) \cup {e}
         /\ IsInjective(s) /\ e \notin Range(s) => IsInjective(Append(s, e))
<1> DEFINE r == Append(s, e)
<1>1. /\ Len(s) \in Nat /\ DOMAIN s = 1..Len(s)
      /\ r \in Seq(S) /\ Len(r) = Len(s) + 1
      /\ \A k \in 1..Len(s) : r[k] = s[k]
      /\ r[Len(s) + 1] = e
  BY LenProperties, AppendProperties
<1>2. DOMAIN r = 1..(Len(s) + 1)
  BY <1>1, LenProperties
<1> HIDE DEF r
<1>3. Range(r) = Range(s) \cup {e}
  <2>1. Range(r) \subseteq Range(s) \cup {e}
    BY <1>1, <1>2 DEF Range
  <2>2. Range(s) \subseteq Range(r)
    BY <1>1, <1>2 DEF Range
  <2>3. e \in Range(r)
    BY <1>1, <1>2 DEF Range
  <2>4. QED
    BY <2>1, <2>2, <2>3
<1>4. IsInjective(s) /\ e \notin Range(s) => IsInjective(r)
  BY <1>1, <1>2 DEF IsInjective, Range
<1>5. QED
  BY <1>3, <1>4 DEF r

\* Taking the first element.
LEMMA TailRange ==
  ASSUME NEW S, NEW s \in Seq(S), s # <<>>
  PROVE  /\ Head(s) \in S /\ Head(s) \in Range(s)
         /\ Tail(s) \in Seq(S) /\ Len(Tail(s)) = Len(s) - 1
         /\ Range(Tail(s)) \subseteq Range(s)
         /\ Range(s) = Range(Tail(s)) \cup {Head(s)}
         /\ IsInjective(s) => /\ IsInjective(Tail(s))
                              /\ Head(s) \notin Range(Tail(s))
<1> DEFINE r == Tail(s)
<1>1. /\ Len(s) \in Nat /\ Len(s) > 0 /\ DOMAIN s = 1..Len(s)
      /\ Head(s) = s[1]
  BY LenProperties, EmptySeq
<1>2. /\ r \in Seq(S) /\ Len(r) = Len(s) - 1
      /\ \A k \in 1..Len(r) : r[k] = s[k + 1]
      /\ Head(s) \in S
  BY HeadTailProperties
<1>3. DOMAIN r = 1..(Len(s) - 1)
  BY <1>2, LenProperties
<1> HIDE DEF r
<1>4. Head(s) \in Range(s)
  BY <1>1 DEF Range
<1>5. Range(r) \subseteq Range(s)
  BY <1>1, <1>2, <1>3 DEF Range
<1>6. ASSUME NEW k \in DOMAIN s, s[k] # Head(s) PROVE s[k] \in Range(r)
  <2>1. k - 1 \in DOMAIN r /\ r[k - 1] = s[k]
    BY <1>1, <1>2, <1>3, <1>6
  <2>2. QED
    BY <2>1 DEF Range
<1>7. Range(s) = Range(r) \cup {Head(s)}
  BY <1>4, <1>5, <1>6 DEF Range
<1>8. ASSUME IsInjective(s) PROVE IsInjective(r) /\ Head(s) \notin Range(r)
  <2>1. ASSUME NEW a \in DOMAIN r, NEW b \in DOMAIN r, r[a] = r[b]
        PROVE  a = b
    <3>1. /\ a + 1 \in DOMAIN s /\ b + 1 \in DOMAIN s
          /\ s[a + 1] = s[b + 1]
      BY <1>1, <1>2, <1>3, <2>1
    <3>2. a + 1 = b + 1
      BY <1>8, <3>1 DEF IsInjective
    <3>3. QED
      BY <1>3, <3>2
  <2>2. ASSUME NEW a \in DOMAIN r PROVE r[a] # Head(s)
    <3>1. a + 1 \in DOMAIN s /\ 1 \in DOMAIN s /\ r[a] = s[a + 1] /\ a + 1 # 1
      BY <1>1, <1>2, <1>3
    <3>2. s[a + 1] # s[1]
      BY <1>8, <3>1 DEF IsInjective
    <3>3. QED
      BY <1>1, <3>1, <3>2
  <2>3. QED
    BY <2>1, <2>2 DEF IsInjective, Range
<1>9. QED
  BY <1>2, <1>4, <1>5, <1>7, <1>8 DEF r

-----------------------------------------------------------------------------
(* The steps, with the sequences they produce *)

\* A push adds an event nobody waits for at the end of its mailbox.
LEMMA PushFacts ==
  ASSUME EventsTypeOK, NEW e \in Events, PushAccepted(e)
  PROVE  /\ Address[e] \in Listeners
         /\ pending' \in [Listeners -> Seq(Events)]
         /\ Len(pending'[Address[e]]) = Len(pending[Address[e]]) + 1
         /\ Len(pending[Address[e]]) + 1 <= QueueSize
         /\ Range(pending'[Address[e]]) = Queued(Address[e]) \cup {e}
         /\ pending'[Address[e]] # <<>>
         /\ IsInjective(pending[Address[e]]) /\ e \notin Queued(Address[e])
              => IsInjective(pending'[Address[e]])
         /\ \A l \in Listeners : l # Address[e] => pending'[l] = pending[l]
         /\ scheduled' = [scheduled EXCEPT ![Address[e]] =
                            @ \/ (~Busy(Address[e]) /\ ~Forced)]
<1> DEFINE l == Address[e]
           s == Append(pending[l], e)
<1>1. l \in Listeners /\ pending[l] \in Seq(Events) /\ Len(pending[l]) \in Nat
  BY EventsAssumption, LenProperties DEF EventsTypeOK
<1>2. s \in Seq(Events) /\ Len(s) = Len(pending[l]) + 1 /\ s # <<>>
  BY <1>1, AppendProperties, EmptySeq
<1>3. /\ Range(s) = Range(pending[l]) \cup {e}
      /\ IsInjective(pending[l]) /\ e \notin Range(pending[l]) => IsInjective(s)
  BY <1>1, AppendRange
<1>4. pending' = [pending EXCEPT ![l] = s] /\ Len(pending[l]) < QueueSize
  BY DEF PushAccepted, HasRoom
<1>5. Len(pending[l]) + 1 <= QueueSize
  BY <1>1, <1>4, EventsAssumption
<1>6. pending'[l] = s /\ \A m \in Listeners : m # l => pending'[m] = pending[m]
  BY <1>1, <1>4 DEF EventsTypeOK
<1>7. scheduled' = [scheduled EXCEPT ![l] = @ \/ (~Busy(l) /\ s # <<>> /\ ~Forced)]
  BY <1>6 DEF PushAccepted, Schedule
<1> HIDE DEF s
<1>8. pending' \in [Listeners -> Seq(Events)]
  BY <1>1, <1>2, <1>4 DEF EventsTypeOK
<1>9. QED
  BY <1>1, <1>2, <1>3, <1>5, <1>6, <1>7, <1>8 DEF Queued

\* RunOne takes the first event of a mailbox.
LEMMA RunOneFacts ==
  ASSUME EventsTypeOK, NEW l \in Listeners, pending[l] # <<>>, RunOne(l)
  PROVE  /\ Head(pending[l]) \in Events /\ Head(pending[l]) \in Queued(l)
         /\ pending' \in [Listeners -> Seq(Events)]
         /\ Len(pending'[l]) <= QueueSize
         /\ Queued(l) = Range(pending'[l]) \cup {Head(pending[l])}
         /\ IsInjective(pending[l]) => /\ IsInjective(pending'[l])
                                       /\ Head(pending[l]) \notin Range(pending'[l])
         /\ \A m \in Listeners : m # l => pending'[m] = pending[m] /\ active'[m] = active[m]
                                          /\ armed'[m] = armed[m]
         /\ active'[l] = Head(pending[l]) /\ armed'[l] = TRUE
         /\ active' \in [Listeners -> Events \cup {NoEvent}]
         /\ armed' \in [Listeners -> BOOLEAN]
<1> DEFINE s == pending[l]
           t == Tail(s)
<1>1. s \in Seq(Events) /\ Len(s) \in Nat /\ Len(s) <= QueueSize
  BY LenProperties DEF EventsTypeOK
<1>2. /\ Head(s) \in Events /\ Head(s) \in Range(s)
      /\ t \in Seq(Events) /\ Len(t) = Len(s) - 1
      /\ Range(s) = Range(t) \cup {Head(s)}
      /\ IsInjective(s) => IsInjective(t) /\ Head(s) \notin Range(t)
  BY <1>1, TailRange
<1>3. /\ pending' = [pending EXCEPT ![l] = t]
      /\ active' = [active EXCEPT ![l] = Head(s)]
      /\ armed' = [armed EXCEPT ![l] = TRUE]
  BY DEF RunOne
<1>4. Len(t) <= QueueSize
  BY <1>1, <1>2, EventsAssumption
<1> HIDE DEF t
<1>5. pending'[l] = t /\ \A m \in Listeners : m # l => pending'[m] = pending[m]
  BY <1>3 DEF EventsTypeOK
<1>6. pending' \in [Listeners -> Seq(Events)]
  BY <1>2, <1>3 DEF EventsTypeOK
<1>7. QED
  BY <1>2, <1>3, <1>4, <1>5, <1>6 DEF EventsTypeOK, Queued

-----------------------------------------------------------------------------
(* Types *)

LEMMA EventsTypeStep == EventsTypeOK /\ [EventsNext]_eventVars => EventsTypeOK'
<1> SUFFICES ASSUME EventsTypeOK, [EventsNext]_eventVars PROVE EventsTypeOK'
  OBVIOUS
<1> USE DEF Fates
<1>1. ASSUME NEW e \in Events, PushRefused(e) PROVE EventsTypeOK'
  BY <1>1 DEF PushRefused, mailVars, EventsTypeOK
<1>2. ASSUME NEW e \in Events, PushAccepted(e) PROVE EventsTypeOK'
  <2>1. \A l \in Listeners : Len(pending'[l]) <= QueueSize
    BY <1>2, PushFacts DEF EventsTypeOK
  <2>2. scheduled' \in [Listeners -> BOOLEAN]
    BY <1>2, PushFacts DEF EventsTypeOK
  <2>3. QED
    BY <1>2, <2>1, <2>2, PushFacts DEF PushAccepted, EventsTypeOK
<1>3. ASSUME NEW l \in Listeners, RegisterRuntime(l) PROVE EventsTypeOK'
  BY <1>3 DEF RegisterRuntime, mailVars, EventsTypeOK
<1>4. ASSUME NEW l \in Listeners, Immediate(l) PROVE EventsTypeOK'
  <2>1. scheduled' \in [Listeners -> BOOLEAN]
    BY <1>4 DEF Immediate, EventsTypeOK
  <2>2. CASE Forced \/ Busy(l) \/ pending[l] = <<>>
    BY <1>4, <2>1, <2>2 DEF Immediate, NotifyIdle, EventsTypeOK
  <2>3. CASE ~(Forced \/ Busy(l) \/ pending[l] = <<>>)
    <3>1. RunOne(l) /\ pending[l] # <<>>
      BY <1>4, <2>3 DEF Immediate
    <3>2. \A m \in Listeners : Len(pending'[m]) <= QueueSize
      BY <3>1, RunOneFacts DEF EventsTypeOK
    <3>3. QED
      BY <1>4, <2>1, <2>3, <3>1, <3>2, RunOneFacts DEF Immediate, EventsTypeOK
  <2>4. QED
    BY <2>2, <2>3
<1>5. ASSUME NEW l \in Listeners, HandlerTimeout(l) PROVE EventsTypeOK'
  <2>1. active[l] \in Events
    BY <1>5 DEF HandlerTimeout, Busy, EventsTypeOK
  <2>2. Append(told[active[l]], "timeout") \in Seq(Reports)
    BY <2>1, AppendProperties DEF EventsTypeOK, Reports
  <2>3. QED
    BY <1>5, <2>1, <2>2 DEF HandlerTimeout, EventsTypeOK
<1>6. ASSUME NEW l \in Listeners, NEW rejected \in BOOLEAN, ListenerSettles(l, rejected)
      PROVE  EventsTypeOK'
  <2>1. active[l] \in Events
    BY <1>6 DEF ListenerSettles, Busy, EventsTypeOK
  <2>2. Append(told[active[l]], "error") \in Seq(Reports)
    BY <2>1, AppendProperties DEF EventsTypeOK, Reports
  <2>3. told' \in [Events -> Seq(Reports)]
    BY <1>6, <2>1, <2>2 DEF ListenerSettles, EventsTypeOK
  <2>4. scheduled' \in [Listeners -> BOOLEAN]
    BY <1>6 DEF ListenerSettles, Schedule, EventsTypeOK
  <2>5. closing' \in {"open", "draining", "drained", "cut"}
    BY <1>6 DEF ListenerSettles, NotifyIdle, EventsTypeOK
  <2>6. QED
    BY <1>6, <2>1, <2>3, <2>4, <2>5 DEF ListenerSettles, EventsTypeOK
<1>7. CASE CloseDispatcher
  BY <1>7 DEF CloseDispatcher, mailVars, EventsTypeOK
<1>8. CASE CutOff
  <2>1. <<>> \in Seq(Events) /\ Len(<<>>) <= QueueSize
    BY EmptySeq, EventsAssumption
  <2>2. pending' \in [Listeners -> Seq(Events)] /\ \A l \in Listeners : Len(pending'[l]) <= QueueSize
    BY <1>8, <2>1 DEF CutOff
  <2>3. ASSUME NEW e \in Events PROVE Append(told[e], "dropped") \in Seq(Reports)
    BY AppendProperties DEF EventsTypeOK, Reports
  <2>4. told' \in [Events -> Seq(Reports)]
    BY <1>8, <2>3 DEF CutOff, EventsTypeOK
  <2>5. signal' \in [Events -> {"none", "timeout", "cut"}] /\ fate' \in [Events -> Fates]
    BY <1>8 DEF CutOff, EventsTypeOK
  <2>6. QED
    BY <1>8, <2>2, <2>4, <2>5 DEF CutOff, EventsTypeOK
<1>9. CASE UNCHANGED eventVars
  BY <1>9 DEF eventVars, mailVars, EventsTypeOK
<1>10. QED
  BY <1>1, <1>2, <1>3, <1>4, <1>5, <1>6, <1>7, <1>8, <1>9 DEF EventsNext

LEMMA EventsTypeInit == EventsInit => EventsTypeOK
BY EmptySeq, EventsAssumption DEF EventsInit, EventsTypeOK, Fates

\* Every variable keeps its type; in particular no mailbox ever outgrows
\* events.queueSize.
THEOREM EventsTypeCorrect == EventsSpec => []EventsTypeOK
BY EventsTypeInit, EventsTypeStep, PTL DEF EventsSpec

-----------------------------------------------------------------------------
(* Where events are *)

LEMMA QueuedEvents ==
  ASSUME EventsTypeOK, NEW l \in Listeners
  PROVE  Queued(l) \subseteq Events
BY ElementOfSeq, LenProperties DEF EventsTypeOK, Queued, Range

LEMMA PushPlaces ==
  ASSUME EventsTypeOK, PlacesInv, NEW e \in Events, PushAccepted(e)
  PROVE  PlacesInv'
<1> DEFINE a == Address[e]
<1>1. /\ fate[e] = "unsent" /\ a \in mailboxes
      /\ fate' = [fate EXCEPT ![e] = "accepted"]
      /\ active' = active /\ mailboxes' = mailboxes
  BY DEF PushAccepted
<1>2. /\ \A l \in Listeners : e \notin Queued(l) /\ active[l] # e
      /\ \A l \in Listeners : Busy(l) => active[l] # e
  BY <1>1, EventsAssumption DEF PlacesInv, Busy
<1>3. ASSUME NEW l \in Listeners
      PROVE  /\ IsInjective(pending'[l])
             /\ \A f \in Queued(l)' : Address[f] = l /\ fate'[f] = "accepted" /\ active'[l] # f
             /\ Busy(l)' => Address[active'[l]] = l /\ fate'[active'[l]] = "accepted"
             /\ Busy(l)' \/ pending'[l] # <<>> \/ scheduled'[l] => l \in mailboxes'
  <2>1. /\ IsInjective(pending[l]) /\ Queued(l) \subseteq Events
        /\ \A f \in Queued(l) : Address[f] = l /\ fate[f] = "accepted" /\ active[l] # f
        /\ Busy(l) => active[l] \in Events /\ Address[active[l]] = l /\ fate[active[l]] = "accepted"
        /\ Busy(l) \/ pending[l] # <<>> \/ scheduled[l] => l \in mailboxes
    BY QueuedEvents DEF PlacesInv, Busy, EventsTypeOK
  <2>2. /\ Busy(l)' <=> Busy(l)
        /\ \A f \in Events : f # e => fate'[f] = fate[f]
        /\ fate'[e] = "accepted"
    BY <1>1 DEF Busy, EventsTypeOK
  <2>3. CASE l = a
    <3>1. /\ Queued(l)' = Queued(l) \cup {e} /\ IsInjective(pending'[l])
      BY <1>2, <2>1, <2>3, PushFacts DEF Queued
    <3>2. QED
      BY <1>1, <1>2, <2>1, <2>2, <2>3, <3>1
  <2>4. CASE l # a
    <3>1. /\ Queued(l)' = Queued(l) /\ pending'[l] = pending[l]
          /\ scheduled'[l] = scheduled[l]
      BY <2>4, PushFacts DEF Queued, EventsTypeOK
    <3>2. QED
      BY <1>1, <1>2, <2>1, <2>2, <3>1
  <2>5. QED
    BY <2>3, <2>4
<1>4. ASSUME NEW f \in Events, fate'[f] = "accepted"
      PROVE  f \in Queued(Address[f])' \/ active'[Address[f]] = f
  <2>1. CASE f = e
    BY <2>1, PushFacts DEF Queued
  <2>2. CASE f # e
    <3>1. fate[f] = "accepted" /\ Address[f] \in Listeners
      BY <1>1, <1>4, <2>2, EventsAssumption DEF EventsTypeOK
    <3>2. Queued(Address[f]) \subseteq Queued(Address[f])'
      BY <3>1, PushFacts DEF Queued
    <3>3. QED
      BY <1>1, <3>1, <3>2 DEF PlacesInv
  <2>3. QED
    BY <2>1, <2>2
<1>5. QED
  BY <1>3, <1>4 DEF PlacesInv

LEMMA RunOnePlaces ==
  ASSUME EventsTypeOK, PlacesInv, NEW l \in Listeners, Immediate(l),
         ~(Forced \/ Busy(l) \/ pending[l] = <<>>)
  PROVE  PlacesInv'
<1>1. /\ RunOne(l) /\ pending[l] # <<>> /\ active[l] = NoEvent
      /\ fate' = fate /\ mailboxes' = mailboxes
      /\ scheduled' = [scheduled EXCEPT ![l] = FALSE]
  BY DEF Immediate, Busy
<1> DEFINE h == Head(pending[l])
<1>2. h \in Queued(l) /\ h \in Events /\ Address[h] = l /\ fate[h] = "accepted"
  <2>1. h \in Queued(l) /\ h \in Events
    BY <1>1, RunOneFacts
  <2>2. QED
    BY <2>1 DEF PlacesInv
<1>3. ASSUME NEW m \in Listeners
      PROVE  /\ IsInjective(pending'[m])
             /\ \A f \in Queued(m)' : Address[f] = m /\ fate'[f] = "accepted" /\ active'[m] # f
             /\ Busy(m)' => Address[active'[m]] = m /\ fate'[active'[m]] = "accepted"
             /\ Busy(m)' \/ pending'[m] # <<>> \/ scheduled'[m] => m \in mailboxes'
  <2>1. /\ IsInjective(pending[m])
        /\ \A f \in Queued(m) : Address[f] = m /\ fate[f] = "accepted" /\ active[m] # f
        /\ Busy(m) => Address[active[m]] = m /\ fate[active[m]] = "accepted"
        /\ Busy(m) \/ pending[m] # <<>> \/ scheduled[m] => m \in mailboxes
    BY DEF PlacesInv
  <2>2. CASE m = l
    <3>1. /\ IsInjective(pending'[l]) /\ h \notin Queued(l)'
          /\ Queued(l) = Queued(l)' \cup {h} /\ active'[l] = h
      BY <1>1, <2>1, <2>2, RunOneFacts DEF Queued
    <3>2. QED
      BY <1>1, <1>2, <2>1, <2>2, <3>1
  <2>3. CASE m # l
    <3>1. /\ Queued(m)' = Queued(m) /\ pending'[m] = pending[m]
          /\ active'[m] = active[m] /\ (Busy(m)' <=> Busy(m))
          /\ scheduled'[m] = scheduled[m]
      BY <1>1, <2>3, RunOneFacts DEF Queued, Busy, EventsTypeOK
    <3>2. QED
      BY <1>1, <2>1, <3>1
  <2>4. QED
    BY <2>2, <2>3
<1>4. ASSUME NEW f \in Events, fate'[f] = "accepted"
      PROVE  f \in Queued(Address[f])' \/ active'[Address[f]] = f
  <2>1. f \in Queued(Address[f]) \/ active[Address[f]] = f
    BY <1>1, <1>4 DEF PlacesInv
  <2>2. CASE Address[f] = l
    <3>1. active[l] # f /\ f \in Queued(l)
      BY <1>1, <2>1, <2>2, EventsAssumption
    <3>2. Queued(l) = Queued(l)' \cup {active'[l]}
      BY <1>1, RunOneFacts DEF Queued
    <3>3. QED
      BY <2>2, <3>1, <3>2
  <2>3. CASE Address[f] # l
    BY <1>1, <2>1, <2>3, RunOneFacts, EventsAssumption DEF Queued
  <2>4. QED
    BY <2>2, <2>3
<1>5. QED
  BY <1>3, <1>4 DEF PlacesInv

LEMMA SettlesPlaces ==
  ASSUME EventsTypeOK, PlacesInv, NEW l \in Listeners, NEW rejected \in BOOLEAN,
         ListenerSettles(l, rejected)
  PROVE  PlacesInv'
<1> DEFINE e == active[l]
<1>1. /\ e \in Events /\ e # NoEvent /\ Address[e] = l
      /\ active' = [active EXCEPT ![l] = NoEvent]
      /\ fate' = [fate EXCEPT ![e] = "settled"]
      /\ pending' = pending /\ mailboxes' = mailboxes
  BY DEF ListenerSettles, PlacesInv, Busy, EventsTypeOK
<1>2. \A m \in Listeners :
        scheduled'[m] => scheduled[m] \/ pending[m] # <<>>
  BY DEF ListenerSettles, Schedule, EventsTypeOK
<1>3. \A m \in Listeners : e \notin Queued(m) /\ (m # l => active[m] # e)
  BY <1>1 DEF PlacesInv, Busy
<1>4. ASSUME NEW m \in Listeners
      PROVE  /\ IsInjective(pending'[m])
             /\ \A f \in Queued(m)' : Address[f] = m /\ fate'[f] = "accepted" /\ active'[m] # f
             /\ Busy(m)' => Address[active'[m]] = m /\ fate'[active'[m]] = "accepted"
             /\ Busy(m)' \/ pending'[m] # <<>> \/ scheduled'[m] => m \in mailboxes'
  <2>1. Queued(m)' = Queued(m) /\ Queued(m) \subseteq Events
    BY <1>1, ElementOfSeq, LenProperties DEF Queued, Range, EventsTypeOK
  <2>2. CASE m = l
    BY <1>1, <1>2, <1>3, <2>1, <2>2, EventsAssumption DEF PlacesInv, Busy, EventsTypeOK
  <2>3. CASE m # l
    BY <1>1, <1>2, <1>3, <2>1, <2>3, EventsAssumption DEF PlacesInv, Busy, EventsTypeOK
  <2>4. QED
    BY <2>2, <2>3
<1>5. ASSUME NEW f \in Events, fate'[f] = "accepted"
      PROVE  f \in Queued(Address[f])' \/ active'[Address[f]] = f
  BY <1>1, <1>5, EventsAssumption DEF PlacesInv, Queued, EventsTypeOK
<1>6. QED
  BY <1>4, <1>5 DEF PlacesInv

LEMMA CutOffPlaces ==
  ASSUME EventsTypeOK, PlacesInv, CutOff
  PROVE  PlacesInv'
<1>1. /\ pending' = [l \in Listeners |-> <<>>]
      /\ fate' = [e \in Events |-> IF e \in Waiting THEN "dropped" ELSE fate[e]]
      /\ active' = active /\ scheduled' = scheduled /\ mailboxes' = mailboxes
  BY DEF CutOff
<1>2. \A l \in Listeners : Queued(l)' = {} /\ IsInjective(pending'[l])
  BY <1>1 DEF Queued, Range, IsInjective
<1>3. ASSUME NEW l \in Listeners, Busy(l)
      PROVE  active[l] \in Events /\ active[l] \notin Waiting
  <2>1. active[l] \in Events /\ Address[active[l]] = l
    BY <1>3 DEF PlacesInv, Busy, EventsTypeOK
  <2>2. ASSUME NEW m \in mailboxes, active[l] \in Queued(m) PROVE FALSE
    BY <2>1, <2>2 DEF PlacesInv, EventsTypeOK
  <2>3. QED
    BY <2>1, <2>2 DEF Waiting
<1>4. ASSUME NEW e \in Events, fate'[e] = "accepted"
      PROVE  active'[Address[e]] = e
  <2>1. fate[e] = "accepted" /\ e \notin Waiting
    BY <1>1, <1>4
  <2>2. ASSUME e \in Queued(Address[e]) PROVE FALSE
    <3>1. pending[Address[e]] # <<>>
      BY <2>2 DEF Queued, Range
    <3>2. QED
      BY <2>1, <2>2, <3>1, EventsAssumption DEF PlacesInv, Waiting
  <2>3. QED
    BY <1>1, <2>1, <2>2 DEF PlacesInv
<1>5. QED
  BY <1>1, <1>2, <1>3, <1>4 DEF PlacesInv, Busy

LEMMA PlacesStep == EventsTypeOK /\ PlacesInv /\ [EventsNext]_eventVars => PlacesInv'
<1> SUFFICES ASSUME EventsTypeOK, PlacesInv, [EventsNext]_eventVars PROVE PlacesInv'
  OBVIOUS
<1>1. ASSUME NEW e \in Events, PushRefused(e) PROVE PlacesInv'
  <2>1. /\ fate[e] = "unsent" /\ fate' = [fate EXCEPT ![e] = "refused"]
        /\ UNCHANGED <<mailboxes, pending, active, scheduled>>
    BY <1>1 DEF PushRefused, mailVars
  <2>2. \A l \in Listeners : e \notin Queued(l) /\ (Busy(l) => active[l] # e)
    BY <2>1 DEF PlacesInv
  <2>3. QED
    BY <2>1, <2>2 DEF PlacesInv, Queued, Busy, EventsTypeOK
<1>2. ASSUME NEW l \in Listeners, RegisterRuntime(l) PROVE PlacesInv'
  BY <1>2 DEF RegisterRuntime, mailVars, PlacesInv, Queued, Busy
<1>3. ASSUME NEW l \in Listeners, Immediate(l) PROVE PlacesInv'
  <2>1. CASE Forced \/ Busy(l) \/ pending[l] = <<>>
    BY <1>3, <2>1 DEF Immediate, PlacesInv, Queued, Busy, EventsTypeOK
  <2>2. QED
    BY <1>3, <2>1, RunOnePlaces
<1>4. ASSUME NEW l \in Listeners, HandlerTimeout(l) PROVE PlacesInv'
  BY <1>4 DEF HandlerTimeout, PlacesInv, Queued, Busy
<1>5. CASE CloseDispatcher
  BY <1>5 DEF CloseDispatcher, mailVars, PlacesInv, Queued, Busy
<1>6. CASE UNCHANGED eventVars
  BY <1>6 DEF eventVars, mailVars, PlacesInv, Queued, Busy
<1>7. QED
  BY <1>1, <1>2, <1>3, <1>4, <1>5, <1>6, PushPlaces, SettlesPlaces, CutOffPlaces DEF EventsNext

-----------------------------------------------------------------------------
(* Wakeups *)

LEMMA WakeupStep ==
  EventsTypeOK /\ NoLostWakeup /\ ClosingInv /\ [EventsNext]_eventVars => NoLostWakeup'
<1> SUFFICES ASSUME EventsTypeOK, NoLostWakeup, ClosingInv, [EventsNext]_eventVars, NEW m \in Listeners,
                    pending'[m] # <<>>
             PROVE  Busy(m)' \/ scheduled'[m]
  BY DEF NoLostWakeup
<1>1. pending[m] # <<>> => (Busy(m) \/ scheduled[m]) /\ ~Forced
  BY DEF NoLostWakeup, ClosingInv, Forced
<1>2. ASSUME NEW e \in Events, PushAccepted(e) PROVE Busy(m)' \/ scheduled'[m]
  <2>1. active' = active /\ ~Forced
    BY <1>2 DEF PushAccepted, Sealed, Forced
  <2>2. CASE m = Address[e]
    BY <1>2, <2>1, <2>2, PushFacts DEF Busy, EventsTypeOK
  <2>3. CASE m # Address[e]
    <3>1. pending'[m] = pending[m] /\ scheduled'[m] = scheduled[m]
      BY <1>2, <2>3, PushFacts DEF EventsTypeOK
    <3>2. QED
      BY <1>1, <2>1, <3>1 DEF Busy
  <2>4. QED
    BY <2>2, <2>3
<1>3. ASSUME NEW l \in Listeners, Immediate(l) PROVE Busy(m)' \/ scheduled'[m]
  <2>1. \A k \in Listeners : k # l => scheduled'[k] = scheduled[k]
    BY <1>3 DEF Immediate, EventsTypeOK
  <2>2. CASE Forced \/ Busy(l) \/ pending[l] = <<>>
    BY <1>1, <1>3, <2>1, <2>2 DEF Immediate, Busy
  <2>3. CASE ~(Forced \/ Busy(l) \/ pending[l] = <<>>)
    <3>1. RunOne(l) /\ pending[l] # <<>>
      BY <1>3, <2>3 DEF Immediate
    <3>2. active'[l] \in Events
      BY <3>1, RunOneFacts
    <3>3. Busy(l)'
      BY <3>2, EventsAssumption DEF Busy
    <3>4. m # l => pending'[m] = pending[m] /\ active'[m] = active[m]
      BY <3>1, RunOneFacts
    <3>5. QED
      BY <1>1, <2>1, <3>3, <3>4 DEF Busy
  <2>4. QED
    BY <2>2, <2>3
<1>4. ASSUME NEW l \in Listeners, NEW rejected \in BOOLEAN, ListenerSettles(l, rejected)
      PROVE  Busy(m)' \/ scheduled'[m]
  BY <1>1, <1>4 DEF ListenerSettles, Schedule, Busy, EventsTypeOK
<1>5. CASE CutOff
  BY <1>5 DEF CutOff
<1>6. ASSUME UNCHANGED <<pending, active, scheduled>> PROVE Busy(m)' \/ scheduled'[m]
  BY <1>1, <1>6 DEF Busy
<1>7. QED
  BY <1>2, <1>3, <1>4, <1>5, <1>6
     DEF EventsNext, PushRefused, RegisterRuntime, HandlerTimeout, CloseDispatcher, eventVars, mailVars

-----------------------------------------------------------------------------
(* Shutdown *)

LEMMA ClosingStep ==
  EventsTypeOK /\ PlacesInv /\ ClosingInv /\ [EventsNext]_eventVars => ClosingInv'
<1> SUFFICES ASSUME EventsTypeOK, PlacesInv, ClosingInv, [EventsNext]_eventVars PROVE ClosingInv'
  OBVIOUS
\* Whoever notifies decides by the mailboxes as the step leaves them.
<1>1. ASSUME NotifyIdle, mailboxes' = mailboxes, closing # "drained",
             closing = "cut" => \A l \in Listeners : pending'[l] = <<>>
      PROVE  ClosingInv'
  BY <1>1 DEF NotifyIdle, ClosingInv, IsIdle, IdleBox
<1>2. ASSUME NEW e \in Events, PushAccepted(e) PROVE ClosingInv'
  BY <1>2 DEF PushAccepted, Sealed, ClosingInv
<1>3. ASSUME NEW l \in Listeners, RegisterRuntime(l) PROVE ClosingInv'
  BY <1>3 DEF RegisterRuntime, Sealed, ClosingInv
<1>4. ASSUME NEW l \in Listeners, Immediate(l) PROVE ClosingInv'
  <2>1. l \in mailboxes /\ closing # "drained" /\ mailboxes' = mailboxes
    BY <1>4 DEF Immediate, PlacesInv, ClosingInv, IsIdle, IdleBox
  <2>2. CASE Forced \/ Busy(l) \/ pending[l] = <<>>
    <3>1. NotifyIdle /\ pending' = pending
      BY <1>4, <2>2 DEF Immediate
    <3>2. QED
      BY <1>1, <2>1, <3>1 DEF ClosingInv
  <2>3. CASE ~(Forced \/ Busy(l) \/ pending[l] = <<>>)
    <3>1. RunOne(l) /\ pending[l] # <<>> /\ closing' = closing /\ closing # "cut"
      BY <1>4, <2>3 DEF Immediate, Forced
    <3>2. active'[l] \in Events
      BY <3>1, RunOneFacts
    <3>3. ~IsIdle'
      BY <2>1, <3>2, EventsAssumption DEF IsIdle, IdleBox
    <3>4. QED
      BY <2>1, <3>1, <3>3 DEF ClosingInv
  <2>4. QED
    BY <2>2, <2>3
<1>5. ASSUME NEW l \in Listeners, NEW rejected \in BOOLEAN, ListenerSettles(l, rejected)
      PROVE  ClosingInv'
  <2>1. NotifyIdle /\ pending' = pending /\ mailboxes' = mailboxes
    BY <1>5 DEF ListenerSettles
  <2>2. closing # "drained"
    BY <1>5 DEF ListenerSettles, Busy, PlacesInv, ClosingInv, IsIdle, IdleBox
  <2>3. QED
    BY <1>1, <2>1, <2>2 DEF ClosingInv
<1>6. CASE CloseDispatcher
  BY <1>6 DEF CloseDispatcher, mailVars, ClosingInv, IsIdle, IdleBox
<1>7. CASE CutOff
  BY <1>7 DEF CutOff, ClosingInv
<1>8. ASSUME UNCHANGED <<mailboxes, pending, active, scheduled, closing>> PROVE ClosingInv'
  BY <1>8 DEF ClosingInv, IsIdle, IdleBox
<1>9. QED
  BY <1>2, <1>3, <1>4, <1>5, <1>6, <1>7, <1>8
     DEF EventsNext, PushRefused, HandlerTimeout, eventVars, mailVars

-----------------------------------------------------------------------------
(* What the observer hears *)

LEMMA FirstReport == \A r \in Reports : Append(<<>>, r) = <<r>>
  OBVIOUS

LEMMA TimeoutReports ==
  ASSUME EventsTypeOK, PlacesInv, ReportsInv, NEW l \in Listeners, HandlerTimeout(l)
  PROVE  ReportsInv'
<1> DEFINE e == active[l]
<1>1. /\ e \in Events /\ Address[e] = l /\ fate[e] = "accepted" /\ signal[e] = "none"
      /\ armed' = [armed EXCEPT ![l] = FALSE]
      /\ signal' = [signal EXCEPT ![e] = "timeout"]
      /\ told' = [told EXCEPT ![e] = Append(@, "timeout")]
      /\ fate' = fate /\ pending' = pending /\ active' = active
  BY DEF HandlerTimeout, PlacesInv, ReportsInv, Busy, EventsTypeOK
<1>2. told[e] = <<>>
  BY <1>1 DEF ReportsInv, Sayable
<1>3. told'[e] = <<"timeout">>
  BY <1>1, <1>2, FirstReport DEF Reports, EventsTypeOK
<1>4. e \notin Queued(l)
  BY <1>1 DEF PlacesInv
<1>5. ASSUME NEW f \in Events
      PROVE  /\ told'[f] \in Sayable(f)'
             /\ fate'[f] \notin {"accepted", "settled"} \/ f \in Queued(Address[f])'
                  => signal'[f] = "none"
  <2>1. CASE f = e
    BY <1>1, <1>3, <1>4, <2>1 DEF Sayable, Queued, EventsTypeOK
  <2>2. CASE f # e
    <3>1. told'[f] = told[f] /\ signal'[f] = signal[f]
      BY <1>1, <2>2 DEF EventsTypeOK
    <3>2. QED
      BY <1>1, <3>1 DEF ReportsInv, Sayable, Queued
  <2>3. QED
    BY <2>1, <2>2
<1>6. ASSUME NEW m \in Listeners, armed'[m]
      PROVE  Busy(m)' /\ signal'[active'[m]] = "none"
  <2>1. m # l /\ Busy(m) /\ signal[active[m]] = "none" /\ active[m] # e
    BY <1>1, <1>6 DEF ReportsInv, PlacesInv, EventsTypeOK
  <2>2. QED
    BY <1>1, <2>1 DEF Busy, EventsTypeOK
<1>7. QED
  BY <1>5, <1>6 DEF ReportsInv

LEMMA SettlesReports ==
  ASSUME EventsTypeOK, PlacesInv, ReportsInv, NEW l \in Listeners, NEW rejected \in BOOLEAN,
         ListenerSettles(l, rejected)
  PROVE  ReportsInv'
<1> DEFINE e == active[l]
<1>1. /\ e \in Events /\ Address[e] = l /\ fate[e] = "accepted"
      /\ armed' = [armed EXCEPT ![l] = FALSE]
      /\ active' = [active EXCEPT ![l] = NoEvent]
      /\ fate' = [fate EXCEPT ![e] = "settled"]
      /\ told' = IF rejected /\ Observed(e)
                      THEN [told EXCEPT ![e] = Append(@, "error")] ELSE told
      /\ pending' = pending /\ signal' = signal
  BY DEF ListenerSettles, PlacesInv, Busy, EventsTypeOK
<1>2. told[e] = IF signal[e] = "timeout" THEN <<"timeout">> ELSE <<>>
  BY <1>1 DEF ReportsInv, Sayable
<1>3. told'[e] \in IF signal[e] = "timeout" THEN {<<"timeout">>} ELSE {<<>>, <<"error">>}
  <2>1. CASE rejected /\ Observed(e)
    <3>1. signal[e] # "timeout" /\ told'[e] = Append(<<>>, "error")
      BY <1>1, <1>2, <2>1 DEF Observed, EventsTypeOK
    <3>2. QED
      BY <3>1, FirstReport DEF Reports
  <2>2. QED
    BY <1>1, <1>2, <2>1
<1>4. ASSUME NEW f \in Events
      PROVE  /\ told'[f] \in Sayable(f)'
             /\ fate'[f] \notin {"accepted", "settled"} \/ f \in Queued(Address[f])'
                  => signal'[f] = "none"
  <2>1. CASE f = e
    <3>1. fate'[f] = "settled" /\ f \notin Queued(Address[f])'
      BY <1>1, <2>1 DEF PlacesInv, Queued, EventsTypeOK
    <3>2. QED
      BY <1>1, <1>3, <2>1, <3>1 DEF Sayable
  <2>2. CASE f # e
    <3>1. told'[f] = told[f] /\ fate'[f] = fate[f]
      BY <1>1, <2>2 DEF EventsTypeOK
    <3>2. QED
      BY <1>1, <3>1 DEF ReportsInv, Sayable, Queued
  <2>3. QED
    BY <2>1, <2>2
<1>5. ASSUME NEW m \in Listeners, armed'[m]
      PROVE  Busy(m)' /\ signal'[active'[m]] = "none"
  BY <1>1, <1>5 DEF ReportsInv, Busy, EventsTypeOK
<1>6. QED
  BY <1>4, <1>5 DEF ReportsInv

LEMMA CutOffReports ==
  ASSUME EventsTypeOK, PlacesInv, ReportsInv, CutOff
  PROVE  ReportsInv'
<1>1. /\ \A l \in Listeners : pending'[l] = <<>> /\ ~armed'[l]
      /\ \A e \in Events :
           /\ fate'[e] = IF e \in Waiting THEN "dropped" ELSE fate[e]
           /\ told'[e] = IF e \in Waiting THEN Append(told[e], "dropped") ELSE told[e]
           /\ signal'[e] = IF e \in RunningEvents /\ signal[e] = "none" THEN "cut" ELSE signal[e]
  BY DEF CutOff
<1>2. ASSUME NEW e \in Events
      PROVE  /\ e \in Waiting => /\ fate[e] = "accepted" /\ signal[e] = "none"
                                 /\ told[e] = <<>> /\ e \notin RunningEvents
             /\ e \in RunningEvents => fate[e] = "accepted"
  <2>1. ASSUME e \in Waiting
        PROVE  /\ e \in Queued(Address[e]) /\ fate[e] = "accepted" /\ e \notin RunningEvents
    <3>1. PICK l \in mailboxes : e \in Queued(l)
      BY <2>1 DEF Waiting
    <3>2. l = Address[e] /\ l \in Listeners /\ fate[e] = "accepted" /\ active[l] # e
      BY <3>1 DEF PlacesInv, EventsTypeOK
    <3>3. ASSUME NEW m \in mailboxes, active[m] = e PROVE FALSE
      <4>1. m \in Listeners /\ Busy(m)
        BY <3>3, EventsAssumption DEF Busy, EventsTypeOK
      <4>2. Address[active[m]] = m
        BY <4>1 DEF PlacesInv
      <4>3. QED
        BY <3>2, <3>3, <4>2
    <3>4. QED
      BY <3>1, <3>2, <3>3 DEF RunningEvents
  <2>2. ASSUME e \in Waiting PROVE signal[e] = "none" /\ told[e] = <<>>
    BY <2>1, <2>2 DEF ReportsInv, Sayable
  <2>3. ASSUME e \in RunningEvents PROVE fate[e] = "accepted"
    BY <2>3, EventsAssumption DEF RunningEvents, PlacesInv, Busy, EventsTypeOK
  <2>4. QED
    BY <2>1, <2>2, <2>3
<1>3. ASSUME NEW e \in Events
      PROVE  /\ told'[e] \in Sayable(e)'
             /\ fate'[e] \notin {"accepted", "settled"} => signal'[e] = "none"
  <2>1. told[e] \in Sayable(e)
        /\ (fate[e] \notin {"accepted", "settled"} => signal[e] = "none")
    BY DEF ReportsInv
  <2>2. CASE e \in Waiting
    <3>1. told'[e] = <<"dropped">> /\ fate'[e] = "dropped" /\ signal'[e] = "none"
      BY <1>1, <1>2, <2>2, FirstReport DEF Reports
    <3>2. QED
      BY <3>1 DEF Sayable
  <2>3. CASE e \notin Waiting
    <3>1. /\ told'[e] = told[e] /\ fate'[e] = fate[e]
          /\ signal'[e] # signal[e] => /\ fate[e] = "accepted" /\ signal[e] = "none"
                                       /\ signal'[e] = "cut"
      BY <1>1, <1>2, <2>3
    <3>2. QED
      BY <2>1, <3>1 DEF Sayable
  <2>4. QED
    BY <2>2, <2>3
<1>4. ASSUME NEW e \in Events PROVE e \notin Queued(Address[e])'
  BY <1>1, EventsAssumption DEF Queued, Range
<1>5. QED
  BY <1>1, <1>3, <1>4 DEF ReportsInv

LEMMA ReportsStep ==
  EventsTypeOK /\ PlacesInv /\ ReportsInv /\ [EventsNext]_eventVars => ReportsInv'
<1> SUFFICES ASSUME EventsTypeOK, PlacesInv, ReportsInv, [EventsNext]_eventVars PROVE ReportsInv'
  OBVIOUS
<1>1. ASSUME NEW e \in Events, PushRefused(e) \/ PushAccepted(e) PROVE ReportsInv'
  <2>1. /\ fate[e] = "unsent" /\ fate'[e] \in {"refused", "accepted"}
        /\ \A f \in Events : f # e => fate'[f] = fate[f]
        /\ signal' = signal /\ told' = told /\ active' = active /\ armed' = armed
    BY <1>1 DEF PushRefused, PushAccepted, mailVars, EventsTypeOK
  <2>2. \A f \in Events : f # e /\ f \in Queued(Address[f])' => f \in Queued(Address[f])
    <3>1. CASE PushRefused(e)
      BY <3>1 DEF PushRefused, mailVars, Queued
    <3>2. CASE PushAccepted(e)
      <4>1. \A l \in Listeners : Queued(l)' \subseteq Queued(l) \cup {e}
        BY <3>2, PushFacts DEF Queued
      <4>2. QED
        BY <4>1, EventsAssumption
    <3>3. QED
      BY <1>1, <3>1, <3>2
  <2>3. told[e] = <<>> /\ signal[e] = "none"
    BY <2>1 DEF ReportsInv, Sayable
  <2>4. ASSUME NEW f \in Events
        PROVE  /\ told'[f] \in Sayable(f)'
               /\ fate'[f] \notin {"accepted", "settled"} \/ f \in Queued(Address[f])'
                    => signal'[f] = "none"
    <3>1. CASE f = e
      BY <2>1, <2>3, <3>1 DEF Sayable
    <3>2. CASE f # e
      BY <2>1, <2>2, <3>2 DEF ReportsInv, Sayable
    <3>3. QED
      BY <3>1, <3>2
  <2>5. QED
    BY <2>1, <2>4 DEF ReportsInv, Busy
<1>2. ASSUME NEW l \in Listeners, Immediate(l) PROVE ReportsInv'
  <2>1. signal' = signal /\ told' = told /\ fate' = fate
    BY <1>2 DEF Immediate
  <2>2. CASE Forced \/ Busy(l) \/ pending[l] = <<>>
    <3>1. pending' = pending /\ active' = active /\ armed' = armed
      BY <1>2, <2>2 DEF Immediate
    <3>2. QED
      BY <2>1, <3>1 DEF ReportsInv, Sayable, Queued, Busy
  <2>3. CASE ~(Forced \/ Busy(l) \/ pending[l] = <<>>)
    <3>1. RunOne(l) /\ pending[l] # <<>>
      BY <1>2, <2>3 DEF Immediate
    <3>2. /\ active'[l] \in Events /\ active'[l] \in Queued(l)
          /\ Queued(l)' \subseteq Queued(l)
          /\ \A m \in Listeners : m # l => /\ Queued(m)' = Queued(m)
                                           /\ active'[m] = active[m] /\ armed'[m] = armed[m]
      BY <3>1, RunOneFacts DEF Queued
    <3>3. signal[active'[l]] = "none" /\ Busy(l)'
      BY <3>2, EventsAssumption DEF PlacesInv, ReportsInv, Busy
    <3>4. \A m \in Listeners : armed'[m] => Busy(m)' /\ signal'[active'[m]] = "none"
      BY <2>1, <3>2, <3>3 DEF ReportsInv, Busy
    <3>5. \A f \in Events : f \in Queued(Address[f])' => f \in Queued(Address[f])
      BY <3>2, EventsAssumption
    <3>6. QED
      BY <2>1, <3>4, <3>5 DEF ReportsInv, Sayable
  <2>4. QED
    BY <2>2, <2>3
<1>3. ASSUME UNCHANGED <<pending, active, armed, signal, told, fate>> PROVE ReportsInv'
  BY <1>3 DEF ReportsInv, Sayable, Queued, Busy
<1>4. QED
  BY <1>1, <1>2, <1>3, TimeoutReports, SettlesReports, CutOffReports
     DEF EventsNext, RegisterRuntime, CloseDispatcher, eventVars, mailVars

-----------------------------------------------------------------------------
(* The theorems *)

LEMMA InitEventsInv == EventsInit => EventsInv
<1> SUFFICES ASSUME EventsInit PROVE EventsInv
  OBVIOUS
<1>1. EventsTypeOK
  BY EventsTypeInit
<1>2. /\ \A l \in Listeners : /\ Queued(l) = {} /\ pending[l] = <<>> /\ IsInjective(pending[l])
                              /\ ~Busy(l) /\ ~scheduled[l] /\ ~armed[l]
      /\ \A e \in Events : fate[e] = "unsent" /\ signal[e] = "none" /\ told[e] = <<>>
      /\ closing = "open"
  BY DEF EventsInit, Queued, Range, Busy, IsInjective
<1>3. PlacesInv /\ NoLostWakeup
  BY <1>2 DEF PlacesInv, NoLostWakeup
<1>4. ReportsInv /\ ClosingInv
  BY <1>2 DEF ReportsInv, ClosingInv, Sayable
<1>5. QED
  BY <1>1, <1>3, <1>4 DEF EventsInv

THEOREM EventsInvariance == EventsSpec => []EventsInv
<1>1. EventsInv /\ [EventsNext]_eventVars => EventsInv'
  BY EventsTypeStep, PlacesStep, WakeupStep, ReportsStep, ClosingStep DEF EventsInv
<1>2. QED
  BY <1>1, InitEventsInv, PTL DEF EventsSpec

LEMMA AccountedOnceFollows == EventsInv => AccountedOnce
<1> SUFFICES ASSUME EventsInv PROVE AccountedOnce
  OBVIOUS
<1> USE DEF EventsInv
<1>1. ASSUME closing = "drained", NEW e \in Events, fate[e] = "accepted" PROVE FALSE
  <2> DEFINE l == Address[e]
  <2>1. l \in Listeners /\ (e \in Queued(l) \/ active[l] = e)
    BY <1>1, EventsAssumption DEF PlacesInv
  <2>2. pending[l] # <<>> \/ Busy(l)
    BY <2>1, EventsAssumption DEF Queued, Range, Busy
  <2>3. l \in mailboxes
    BY <2>1, <2>2 DEF PlacesInv
  <2>4. QED
    BY <1>1, <2>2, <2>3 DEF ClosingInv, IsIdle, IdleBox, Busy
<1>2. ASSUME NEW e \in Events, fate[e] = "accepted"
      PROVE  \/ e \in Queued(Address[e]) /\ active[Address[e]] # e
             \/ e \notin Queued(Address[e]) /\ active[Address[e]] = e
  BY <1>2, EventsAssumption DEF PlacesInv
<1>3. ASSUME NEW e \in Events, fate[e] # "accepted", NEW l \in Listeners
      PROVE  e \notin Queued(l) /\ active[l] # e
  BY <1>3, EventsAssumption DEF PlacesInv, Busy
<1>4. ASSUME NEW e \in Events
      PROVE  /\ Len(told[e]) <= 1
             /\ fate[e] = "dropped" <=> told[e] = <<"dropped">>
             /\ signal[e] = "timeout" <=> told[e] = <<"timeout">>
  <2>1. /\ <<"dropped">> # <<"timeout">> /\ <<"dropped">> # <<"error">>
        /\ <<"timeout">> # <<"error">>
        /\ <<>> # <<"dropped">> /\ <<>> # <<"timeout">>
        /\ Len(<<>>) <= 1 /\ Len(<<"dropped">>) <= 1 /\ Len(<<"timeout">>) <= 1
        /\ Len(<<"error">>) <= 1
    OBVIOUS
  <2>2. told[e] \in Sayable(e) /\ (fate[e] = "dropped" => signal[e] = "none")
    BY DEF ReportsInv
  <2>3. CASE fate[e] = "dropped"
    <3>1. told[e] = <<"dropped">> /\ signal[e] = "none"
      BY <2>2, <2>3 DEF Sayable
    <3>2. QED
      BY <2>1, <2>3, <3>1
  <2>4. CASE fate[e] # "dropped" /\ signal[e] = "timeout"
    <3>1. told[e] = <<"timeout">>
      BY <2>2, <2>4 DEF Sayable
    <3>2. QED
      BY <2>1, <2>4, <3>1
  <2>5. CASE fate[e] # "dropped" /\ signal[e] # "timeout"
    <3>1. told[e] = <<>> \/ told[e] = <<"error">>
      BY <2>2, <2>5 DEF Sayable
    <3>2. QED
      BY <2>1, <2>5, <3>1
  <2>6. QED
    BY <2>3, <2>4, <2>5
<1>5. QED
  BY <1>1, <1>2, <1>3, <1>4 DEF AccountedOnce, ClosingInv, EventsTypeOK

\* Each accepted event is in one place and ends in one way, and the observer is
\* told of it as often as it must be and never twice, whatever the handlers,
\* timers, late settlements and the cutoff of close() do.
THEOREM EveryEventAccounted == EventsSpec => []AccountedOnce
BY EventsInvariance, AccountedOnceFollows, PTL

\* #schedule is called wherever it has to be: a mailbox with work that nobody
\* would look at again does not exist.
THEOREM NoMailboxForgotten == EventsSpec => []NoLostWakeup
<1>1. EventsInv => NoLostWakeup
  BY DEF EventsInv
<1>2. QED
  BY <1>1, EventsInvariance, PTL

\* Strict FIFO: only the head of a mailbox starts, and only behind a handler
\* that has settled; one that has merely timed out still keeps its mailbox.
THEOREM FirstInFirstOut == EventsSpec => StrictFifo
<1>1. ASSUME EventsInv, [EventsNext]_eventVars, NEW b \in Events, Starts(b)
      PROVE  /\ ~Busy(Address[b])
             /\ \A a \in Queued(Address[b]) : a # b => Before(pending[Address[b]], b, a)
  <2> DEFINE k == Address[b]
  <2>1. k \in Listeners /\ active'[k] # active[k] /\ active'[k] # NoEvent /\ active'[k] = b
    BY <1>1, EventsAssumption DEF Starts
  <2>2. PICK l \in Listeners : Immediate(l) /\ ~(Forced \/ Busy(l) \/ pending[l] = <<>>)
    <3>1. ASSUME NEW l \in Listeners, NEW r \in BOOLEAN, ListenerSettles(l, r) PROVE FALSE
      BY <1>1, <2>1, <3>1 DEF ListenerSettles, EventsInv, EventsTypeOK
    <3>2. QED
      BY <1>1, <2>1, <3>1
         DEF EventsNext, PushRefused, PushAccepted, RegisterRuntime, Immediate, HandlerTimeout,
             CloseDispatcher, CutOff, mailVars, eventVars
  <2>3. RunOne(l) /\ pending[l] # <<>> /\ EventsTypeOK
    BY <1>1, <2>2 DEF Immediate, EventsInv
  <2>4. l = k /\ b = Head(pending[k]) /\ ~Busy(k)
    BY <2>1, <2>2, <2>3, RunOneFacts
  <2>5. pending[k] \in Seq(Events) /\ pending[k] # <<>>
    BY <2>1, <2>3, <2>4 DEF EventsTypeOK
  <2>6. /\ Len(pending[k]) \in Nat /\ Len(pending[k]) > 0
        /\ DOMAIN pending[k] = 1 .. Len(pending[k]) /\ pending[k][1] = b
    BY <2>4, <2>5, LenProperties, EmptySeq
  <2>7. ASSUME NEW a \in Queued(k), a # b PROVE Before(pending[k], b, a)
    <3>1. PICK i \in DOMAIN pending[k] : pending[k][i] = a
      BY <2>7 DEF Queued, Range
    <3>2. 1 < i /\ 1 \in DOMAIN pending[k]
      BY <2>6, <2>7, <3>1
    <3>3. QED
      BY <2>6, <3>1, <3>2 DEF Before
  <2>8. QED
    BY <2>4, <2>7
<1>2. EventsInv /\ [EventsNext]_eventVars =>
        [\A b \in Events : Starts(b) =>
           /\ ~Busy(Address[b])
           /\ \A a \in Queued(Address[b]) : a # b => Before(pending[Address[b]], b, a)]_eventVars
  BY <1>1
<1>3. QED
  BY <1>2, EventsInvariance, PTL DEF EventsSpec, StrictFifo
=============================================================================
