---------------------- MODULE TelegramConnectionProofs ----------------------
(***************************************************************************)
(* Theorems about TelegramConnection.tla, for any number of commands and   *)
(* of moves of TDLib: one client at a time, a truthful screen, and logouts *)
(* that no late failure takes back.                                        *)
(***************************************************************************)
EXTENDS TelegramConnection, SequenceTheorems, FiniteSetTheorems, TLAPS

-----------------------------------------------------------------------------
(* The helpers of the handlers *)

\* publish() leaves a current snapshot alone only if the actions and, as told
\* by control, the step are the same; a restart is offered only for a client
\* that has failed and is gone.
LEMMA PublishFacts ==
  ASSUME ViewOK, NEW control \in BOOLEAN, Publish(control)
  PROVE  /\ allowed' \subseteq Actions /\ stale' \in BOOLEAN
         /\ ~stale' => ~stale /\ ~control /\ allowed' = allowed
         /\ "restart" \in allowed' => client' = "failed" /\ ~releasing'
<1>1. Permitted' \subseteq Actions
  BY DEF Permitted, Actions
<1>2. "restart" \in Permitted' => client' = "failed" /\ ~releasing'
  BY DEF Permitted
<1>3. QED
  BY <1>1, <1>2 DEF Publish, ViewOK

\* setAuthorization() shows the new step; it begins no operation and fails none.
LEMMA SetAuthorizationFacts ==
  ASSUME ViewOK, NEW kind \in Kinds, NEW ops, SetAuthorization(kind, ops)
  PROVE  /\ auth' = kind /\ cooling' \in BOOLEAN /\ op' \in Operations
         /\ allowed' \subseteq Actions /\ stale' \in BOOLEAN
         /\ ~stale' => ~stale /\ allowed' = allowed /\ auth' = auth
         /\ "restart" \in allowed' => client' = "failed" /\ ~releasing'
         /\ Pending' => Pending
         /\ op'.status = "failed" => op.status = "failed"
<1> DEFINE changed == kind # auth
           settled == Pending /\ op.kind \in ops
<1>1. Publish(changed \/ settled)
  BY DEF SetAuthorization
<1>2. changed \/ settled \in BOOLEAN
  OBVIOUS
<1>3. /\ allowed' \subseteq Actions /\ stale' \in BOOLEAN
      /\ ~stale' => ~stale /\ ~(changed \/ settled) /\ allowed' = allowed
      /\ "restart" \in allowed' => client' = "failed" /\ ~releasing'
  BY <1>1, <1>2, PublishFacts
<1>4. auth' = kind /\ cooling' \in BOOLEAN
  BY DEF SetAuthorization, ViewOK
<1>5. op' \in {op, [op EXCEPT !.status = "completed"], [NoOp EXCEPT !.id = op.id]}
      /\ (op' = op \/ op'.status \in {"completed", "none"})
  BY DEF SetAuthorization, NoOp, ViewOK, Operations
<1>6. op' \in Operations
  BY <1>5 DEF ViewOK, Operations, NoOp
<1>7. QED
  BY <1>3, <1>4, <1>5, <1>6 DEF Pending

\* What a step that neither boots a client nor accepts a command does to what is
\* published, and to the release of the client.
Rest ==
  /\ ViewOK' /\ ReleaseOK' /\ generation' \in Nat /\ generation <= generation'
  /\ ~stale' => ~stale /\ allowed' = allowed /\ auth' = auth
  /\ "restart" \in allowed' => client' = "failed" /\ ~releasing'
  /\ client' = "failed" => \/ client = "failed" /\ (releasing => releasing')
                           \/ generation < generation' /\ releasing'
  /\ release' # "none" => releasing'
  /\ "close" \in onRelease' => "close" \in onRelease
  /\ Pending' => Pending

LEMMA UnmovedRests ==
  ASSUME TypeOK, ClientInv, Unmoved
  PROVE  Rest
<1>1. ViewOK' /\ ReleaseOK'
  BY DEF Unmoved, viewVars, releaseVars, TypeOK, ViewOK, ReleaseOK
<1>2. QED
  BY <1>1 DEF Unmoved, viewVars, releaseVars, TypeOK, Rest, ClientInv, Pending

LEMMA ReleaseFacts ==
  ASSUME ReleaseOK, NEW reason \in SUBSET {"logout", "close"}, Release(reason)
  PROVE  ReleaseOK' /\ releasing' /\ (onRelease' = onRelease \cup reason)
BY DEF Release, ReleaseOK

Codes == {"client_unavailable", "configuration_error"}

\* fail()
LEMMA FailFacts ==
  ASSUME TypeOK, ClientInv, NEW g, NEW code \in Codes, Fail(g, code)
  PROVE  /\ Rest
         /\ auth' = auth \/ auth' = "initializing"
         /\ code = "client_unavailable" /\ Pending /\ op'.status = "failed" => client' = "failed"
<1>1. CASE ~Current(g) \/ client = "failed"
  <2>1. Unmoved
    BY <1>1 DEF Fail, Unmoved
  <2>2. QED
    BY <2>1, UnmovedRests DEF Unmoved, viewVars, Pending
<1>2. CASE ~(~Current(g) \/ client = "failed")
  <2>1. /\ generation' = generation + 1
        /\ client' = IF code = "configuration_error" THEN "configuration_required" ELSE "failed"
        /\ connection' = "unknown" /\ auth' = "initializing" /\ cooling' = FALSE
        /\ op' = IF Pending THEN [op EXCEPT !.status = "failed"] ELSE op
        /\ Release({}) /\ Publish(TRUE)
    BY <1>2 DEF Fail
  <2>2. ReleaseOK' /\ releasing' /\ onRelease' = onRelease
    <3>1. {} \in SUBSET {"logout", "close"}
      OBVIOUS
    <3>2. ReleaseOK' /\ releasing' /\ onRelease' = onRelease \cup {}
      BY <2>1, <3>1, ReleaseFacts DEF TypeOK
    <3>3. QED
      BY <3>2
  <2>3. /\ allowed' \subseteq Actions /\ stale' \in BOOLEAN /\ stale'
        /\ "restart" \in allowed' => client' = "failed" /\ ~releasing'
    BY <2>1, PublishFacts DEF TypeOK
  <2>4. op' \in Operations /\ (Pending' => Pending)
    BY <2>1 DEF TypeOK, ViewOK, Operations, Pending
  <2>5. ViewOK'
    BY <2>1, <2>3, <2>4 DEF ViewOK, Kinds
  <2>6. QED
    BY <2>1, <2>2, <2>3, <2>4, <2>5 DEF Rest, TypeOK, Codes
<1>3. QED
  BY <1>1, <1>2

\* onAuthorization and authorization(): they rest, and show what TDLib says.
Logins == AuthStates \ {"waitParameters", "closed"}

LEMMA OnAuthorizationFacts ==
  ASSUME TypeOK, ClientInv, NEW value \in AuthStates \ {"waitParameters"}, NEW ops,
         OnAuthorization(value, ops)
  PROVE  /\ Rest
         /\ auth' = "logging_out" => auth = "logging_out" \/ value = "loggingOut"
         /\ Pending /\ op'.status = "failed" => client' = "failed"
<1>1. CASE value # "closed"
  <2>1. /\ UNCHANGED <<client, connection, generation, releaseVars>>
        /\ SetAuthorization(Shown(value), ops \cup Completes(value))
    BY <1>1 DEF OnAuthorization
  <2>2. Shown(value) \in Kinds /\ (Shown(value) = "logging_out" => value = "loggingOut")
    BY <1>1 DEF Shown, Kinds, AuthStates
  <2>3. /\ auth' = Shown(value) /\ cooling' \in BOOLEAN /\ op' \in Operations
        /\ allowed' \subseteq Actions /\ stale' \in BOOLEAN
        /\ ~stale' => ~stale /\ allowed' = allowed /\ auth' = auth
        /\ "restart" \in allowed' => client' = "failed" /\ ~releasing'
        /\ Pending' => Pending
        /\ op'.status = "failed" => op.status = "failed"
    BY <2>1, <2>2, SetAuthorizationFacts DEF TypeOK
  <2>4. ViewOK' /\ ReleaseOK'
    BY <2>1, <2>2, <2>3 DEF TypeOK, ViewOK, ReleaseOK, releaseVars
  <2>5. QED
    BY <2>1, <2>2, <2>3, <2>4 DEF Rest, TypeOK, ClientInv, releaseVars, Pending
<1>2. CASE value = "closed" /\ auth # "logging_out"
  <2>1. Fail(boot.generation, "client_unavailable")
    BY <1>2 DEF OnAuthorization
  <2>2. QED
    BY <2>1, <1>2, FailFacts DEF Codes
<1>3. CASE value = "closed" /\ auth = "logging_out"
  <2>1. /\ UNCHANGED <<client, connection, auth, op, cooling, generation>>
        /\ Release({"logout"}) /\ Publish(TRUE)
    BY <1>3 DEF OnAuthorization
  <2>2. {"logout"} \in SUBSET {"logout", "close"}
    OBVIOUS
  <2>3. ReleaseOK' /\ releasing' /\ onRelease' = onRelease \cup {"logout"}
    BY <2>1, <2>2, ReleaseFacts DEF TypeOK
  <2>4. /\ allowed' \subseteq Actions /\ stale' \in BOOLEAN /\ stale'
        /\ "restart" \in allowed' => client' = "failed" /\ ~releasing'
    BY <2>1, PublishFacts DEF TypeOK
  <2>5. ViewOK'
    BY <2>1, <2>4 DEF TypeOK, ViewOK
  <2>6. QED
    BY <1>3, <2>1, <2>3, <2>4, <2>5 DEF Rest, TypeOK, Pending
<1>4. QED
  BY <1>1, <1>2, <1>3

LEMMA AuthorizedFacts ==
  ASSUME TypeOK, ClientInv, NEW value \in AuthStates, NEW ops, Authorized(value, ops)
  PROVE  /\ Rest
         /\ auth' = "logging_out" => auth = "logging_out" \/ value = "loggingOut"
         /\ Pending /\ op'.status = "failed" => client' = "failed"
         /\ \/ asked' = asked
            \/ /\ Hears /\ value = "waitParameters" /\ ~boot.configured
               /\ asked' = asked \cup {"parameters"}
<1>1. CASE ~Hears
  BY <1>1, UnmovedRests DEF Authorized, Unmoved, viewVars, Pending
<1>2. CASE Hears /\ value = "waitParameters"
  <2>1. /\ UNCHANGED <<client, connection, generation, releaseVars>>
        /\ SetAuthorization(auth, ops)
    BY <1>2 DEF Authorized
  <2>2. auth \in Kinds
    BY DEF TypeOK, ViewOK
  <2>3. /\ auth' = auth /\ cooling' \in BOOLEAN /\ op' \in Operations
        /\ allowed' \subseteq Actions /\ stale' \in BOOLEAN
        /\ ~stale' => ~stale /\ allowed' = allowed /\ auth' = auth
        /\ "restart" \in allowed' => client' = "failed" /\ ~releasing'
        /\ Pending' => Pending
        /\ op'.status = "failed" => op.status = "failed"
    BY <2>1, <2>2, SetAuthorizationFacts DEF TypeOK
  <2>4. ViewOK' /\ ReleaseOK'
    BY <2>1, <2>2, <2>3 DEF TypeOK, ViewOK, ReleaseOK, releaseVars
  <2>5. Rest
    BY <2>1, <2>3, <2>4 DEF Rest, TypeOK, ClientInv, releaseVars, Pending
  <2>6. QED
    BY <1>2, <2>3, <2>5 DEF Authorized, Pending
<1>3. CASE Hears /\ value # "waitParameters"
  BY <1>3, OnAuthorizationFacts DEF Authorized
<1>4. QED
  BY <1>1, <1>2, <1>3

-----------------------------------------------------------------------------
(* Steps that neither boot a client, nor take a command, nor end a release *)

Quiet ==
  /\ Rest
  /\ UNCHANGED <<screen, open, closeVars>>
  /\ execution' \in {execution, Idle, [execution EXCEPT !.stage = "invoking"]}
  /\ boot' \in Boots /\ boot'.generation = boot.generation
  /\ boot'.stage = "none" => boot.stage = "none"
  /\ td' \in AuthStates /\ asked' \subseteq Requests /\ inbox' \in Seq(Messages)
  /\ moves' \in 0 .. MaxMoves

LEMMA InboxFacts ==
  ASSUME TypeOK, inbox # <<>>
  PROVE  /\ Head(inbox) \in Messages /\ Head(inbox) \in Range(inbox)
         /\ Tail(inbox) \in Seq(Messages) /\ Range(Tail(inbox)) \subseteq Range(inbox)
<1> DEFINE s == inbox
           r == Tail(inbox)
<1>1. /\ Len(s) \in Nat /\ Len(s) > 0 /\ DOMAIN s = 1 .. Len(s)
      /\ Head(s) = s[1]
  BY LenProperties, EmptySeq DEF TypeOK
<1>2. /\ r \in Seq(Messages) /\ Len(r) = Len(s) - 1
      /\ \A k \in 1 .. Len(r) : r[k] = s[k + 1]
      /\ Head(s) \in Messages
  BY HeadTailProperties DEF TypeOK
<1>3. DOMAIN r = 1 .. (Len(s) - 1)
  BY <1>2, LenProperties
<1> HIDE DEF r
<1>4. QED
  BY <1>1, <1>2, <1>3 DEF r, Range

LEMMA SaysFacts ==
  ASSUME TypeOK, NEW messages \in Seq(Messages), Says(messages)
  PROVE  /\ inbox' \in Seq(Messages)
         /\ \A m \in Range(inbox') : m \in Range(inbox) \cup Range(messages)
BY ConcatProperties, RangeConcatenation DEF TypeOK, Says

\* The steps of a boot that rest.
LEMMA BootQuiet ==
  ASSUME TypeOK, ClientInv, StartDone \/ StartFails \/ ClientFails
  PROVE  Quiet
<1> USE DEF TypeOK
<1>1. <<>> \in Seq(Messages)
  BY EmptySeq
<1>2. CASE StartDone
  <2>1. /\ UNCHANGED <<viewVars, screen, generation, execution, open, releaseVars, closeVars,
                       td, inbox, moves>>
        /\ Unmoved
    BY <1>2 DEF StartDone, Unmoved
  <2>2. Rest
    BY <2>1, UnmovedRests
  <2>3. boot' \in Boots /\ boot'.generation = boot.generation /\ boot'.stage # "none"
    BY <1>2 DEF StartDone, Boots
  <2>4. asked' \subseteq Requests
    BY <1>2 DEF StartDone, Requests
  <2>5. QED
    BY <2>1, <2>2, <2>3, <2>4 DEF Quiet, closeVars
<1>3. CASE StartFails
  <2>1. Rest
    BY <1>3, FailFacts DEF StartFails, Codes
  <2>2. boot' \in Boots /\ boot'.generation = boot.generation /\ boot'.stage # "none"
    BY <1>3 DEF StartFails, Boots
  <2>3. QED
    BY <1>3, <2>1, <2>2 DEF StartFails, Quiet, closeVars, tdVars
<1>4. CASE ClientFails
  <2>1. Rest
    BY <1>4, FailFacts DEF ClientFails, Codes
  <2>2. boot' \in Boots /\ boot'.generation = boot.generation /\ boot'.stage # "none"
    BY <1>4 DEF ClientFails, Boots
  <2>3. moves' \in 0 .. MaxMoves
    BY <1>4, ConnectionAssumption DEF ClientFails
  <2>4. QED
    BY <1>1, <1>4, <2>1, <2>2, <2>3 DEF ClientFails, Quiet, closeVars
<1>5. QED
  BY <1>2, <1>3, <1>4

LEMMA UpdateQuiet ==
  ASSUME TypeOK, ClientInv, AuthorizationUpdate \/ ConnectionUpdate
  PROVE  Quiet
<1> USE DEF TypeOK
<1>1. inbox # <<>> /\ inbox' = Tail(inbox) /\ inbox' \in Seq(Messages)
  BY InboxFacts DEF AuthorizationUpdate, ConnectionUpdate, Deliver
<1>2. Head(inbox) \in Messages
  BY <1>1, InboxFacts
<1>3. CASE AuthorizationUpdate
  <2>1. /\ Head(inbox).kind = "auth"
        /\ UNCHANGED <<screen, execution, open, closeVars, td, moves>>
    BY <1>3 DEF AuthorizationUpdate
  <2>2. Head(inbox).value \in AuthStates
    BY <1>2, <2>1 DEF Messages, Requests
  <2>3. CASE ~Hears
    <3>1. Unmoved /\ UNCHANGED <<boot, asked>>
      BY <1>3, <2>3 DEF AuthorizationUpdate
    <3>2. QED
      BY <1>1, <2>1, <3>1, UnmovedRests DEF Quiet
  <2>4. CASE Hears /\ ~Ready
    <3>1. /\ boot' = [boot EXCEPT !.waits = TRUE, !.moved = TRUE]
          /\ Unmoved /\ UNCHANGED asked
      BY <1>3, <2>4 DEF AuthorizationUpdate
    <3>2. boot' \in Boots /\ boot'.generation = boot.generation /\ boot'.stage = boot.stage
      BY <3>1 DEF Boots
    <3>3. QED
      BY <1>1, <2>1, <3>1, <3>2, UnmovedRests DEF Quiet
  <2>5. CASE Hears /\ Ready
    <3>1. /\ boot' = [boot EXCEPT !.moved = TRUE,
                                  !.configured = @ \/ Head(inbox).value = "waitParameters"]
          /\ Authorized(Head(inbox).value, {})
      BY <1>3, <2>5 DEF AuthorizationUpdate
    <3>2. boot' \in Boots /\ boot'.generation = boot.generation /\ boot'.stage = boot.stage
      BY <3>1 DEF Boots
    <3>3. Rest /\ asked' \subseteq Requests
      BY <2>2, <3>1, AuthorizedFacts DEF Requests
    <3>4. QED
      BY <1>1, <2>1, <3>2, <3>3 DEF Quiet
  <2>6. QED
    BY <2>3, <2>4, <2>5
<1>4. CASE ConnectionUpdate
  <2>1. /\ Head(inbox).kind = "connection"
        /\ UNCHANGED <<client, auth, op, cooling, screen, generation, boot, execution, open,
                       releaseVars, closeVars, td, asked, moves>>
    BY <1>4 DEF ConnectionUpdate
  <2>2. Head(inbox).value \in {"ready", "lost"}
    BY <1>2, <2>1 DEF Messages, Requests
  <2>3. CASE ~Hears
    BY <1>1, <1>4, <2>1, <2>3, UnmovedRests DEF ConnectionUpdate, Quiet, Unmoved, viewVars
  <2>4. CASE Hears
    <3>1. connection' = Head(inbox).value /\ Publish(FALSE)
      BY <1>4, <2>4 DEF ConnectionUpdate
    <3>2. /\ allowed' \subseteq Actions /\ stale' \in BOOLEAN
          /\ ~stale' => ~stale /\ allowed' = allowed
          /\ "restart" \in allowed' => client' = "failed" /\ ~releasing'
      BY <3>1, PublishFacts
    <3>3. ViewOK' /\ ReleaseOK'
      BY <2>1, <2>2, <3>1, <3>2 DEF ViewOK, ReleaseOK, releaseVars
    <3>4. Rest
      BY <2>1, <3>2, <3>3 DEF Rest, ClientInv, releaseVars, Pending
    <3>5. QED
      BY <1>1, <2>1, <3>4 DEF Quiet
  <2>5. QED
    BY <2>3, <2>4
<1>5. QED
  BY <1>3, <1>4

LEMMA AnswerQuiet ==
  ASSUME TypeOK, ClientInv,
         Silenced \/ ParametersAnswered \/ AuthorizationAnswered \/ CommandAnswered
  PROVE  Quiet
<1> USE DEF TypeOK
<1>1. inbox # <<>> /\ inbox' = Tail(inbox) /\ inbox' \in Seq(Messages)
  BY InboxFacts
    DEF Silenced, ParametersAnswered, AuthorizationAnswered, CommandAnswered, Answered, Deliver
<1>2. Head(inbox) \in Messages
  BY <1>1, InboxFacts
<1>3. CASE Silenced
  <2>1. UNCHANGED <<screen, execution, open, closeVars, td, moves>>
    BY <1>3 DEF Silenced
  <2>2. CASE Head(inbox).value = "error"
    <3>1. /\ boot' = [boot EXCEPT !.stage = "done"]
          /\ Fail(boot.generation, "client_unavailable") /\ UNCHANGED asked
      BY <1>3, <2>2 DEF Silenced
    <3>2. Rest
      BY <3>1, FailFacts DEF Codes
    <3>3. boot' \in Boots /\ boot'.generation = boot.generation /\ boot'.stage # "none"
      BY <3>1 DEF Boots
    <3>4. QED
      BY <1>1, <2>1, <3>1, <3>2, <3>3 DEF Quiet
  <2>3. CASE Head(inbox).value # "error" /\ ~Hears
    <3>1. boot' = [boot EXCEPT !.stage = "done"] /\ Unmoved /\ UNCHANGED asked
      BY <1>3, <2>3 DEF Silenced
    <3>2. boot' \in Boots /\ boot'.generation = boot.generation /\ boot'.stage # "none"
      BY <3>1 DEF Boots
    <3>3. QED
      BY <1>1, <2>1, <3>1, <3>2, UnmovedRests DEF Quiet
  <2>4. CASE Head(inbox).value # "error" /\ Hears
    <3>1. /\ client' = "running"
          /\ boot' = [boot EXCEPT !.stage = "asking", !.configured = @ \/ boot.waits,
                                  !.moved = FALSE]
          /\ asked' = {"getAuthorizationState"} \cup IF boot.waits THEN {"parameters"} ELSE {}
          /\ UNCHANGED <<connection, auth, op, cooling, generation, releaseVars>>
          /\ Publish(TRUE)
      BY <1>3, <2>4 DEF Silenced
    <3>2. /\ allowed' \subseteq Actions /\ stale' \in BOOLEAN /\ stale'
          /\ "restart" \in allowed' => client' = "failed" /\ ~releasing'
      BY <3>1, PublishFacts
    <3>3. ViewOK' /\ ReleaseOK'
      BY <3>1, <3>2 DEF ViewOK, ReleaseOK, releaseVars
    <3>4. Rest
      BY <3>1, <3>2, <3>3 DEF Rest, ClientInv, releaseVars, Pending
    <3>5. boot' \in Boots /\ boot'.generation = boot.generation /\ boot'.stage # "none"
      BY <3>1 DEF Boots
    <3>6. asked' \subseteq Requests
      BY <3>1 DEF Requests
    <3>7. QED
      BY <1>1, <2>1, <3>4, <3>5, <3>6 DEF Quiet
  <2>5. QED
    BY <2>2, <2>3, <2>4
<1>4. CASE ParametersAnswered
  <2>1. Rest
    BY <1>4, FailFacts, UnmovedRests DEF ParametersAnswered, Codes
  <2>2. QED
    BY <1>1, <1>4, <2>1 DEF ParametersAnswered, Quiet
<1>5. CASE AuthorizationAnswered
  <2> DEFINE value == Head(inbox).value
  <2>1. /\ UNCHANGED <<screen, execution, open, closeVars, td, moves>>
        /\ Head(inbox).kind = "getAuthorizationState"
    BY <1>5 DEF AuthorizationAnswered, Answered
  <2>2. value \in AuthStates \cup {"error"}
    BY <1>2, <2>1 DEF Messages
  <2>3. /\ boot' = [boot EXCEPT !.stage = "done",
                       !.configured = @ \/ (value = "waitParameters" /\ ~boot.moved)]
        /\ boot' \in Boots /\ boot'.generation = boot.generation /\ boot'.stage # "none"
    BY <1>5 DEF AuthorizationAnswered, Boots
  <2>4. Rest /\ asked' \subseteq Requests
    <3>1. CASE value = "error"
      <4>1. Fail(boot.generation, "client_unavailable") /\ UNCHANGED asked
        BY <1>5, <3>1 DEF AuthorizationAnswered
      <4>2. QED
        BY <4>1, FailFacts DEF Codes
    <3>2. CASE value # "error" /\ boot.moved /\ Current(boot.generation)
      <4>1. /\ UNCHANGED <<client, connection, generation, releaseVars, asked>>
            /\ SetAuthorization(auth, {"restart"})
        BY <1>5, <3>2 DEF AuthorizationAnswered
      <4>2. auth \in Kinds
        BY DEF ViewOK
      <4>3. /\ auth' = auth /\ cooling' \in BOOLEAN /\ op' \in Operations
            /\ allowed' \subseteq Actions /\ stale' \in BOOLEAN
            /\ ~stale' => ~stale /\ allowed' = allowed /\ auth' = auth
            /\ "restart" \in allowed' => client' = "failed" /\ ~releasing'
            /\ Pending' => Pending
            /\ op'.status = "failed" => op.status = "failed"
        BY <4>1, <4>2, SetAuthorizationFacts
      <4>4. ViewOK' /\ ReleaseOK'
        BY <4>1, <4>2, <4>3 DEF ViewOK, ReleaseOK, releaseVars
      <4>5. QED
        BY <4>1, <4>3, <4>4 DEF Rest, ClientInv, releaseVars, Pending
    <3>3. CASE value # "error" /\ boot.moved /\ ~Current(boot.generation)
      <4>1. Unmoved /\ UNCHANGED asked
        BY <1>5, <3>3 DEF AuthorizationAnswered, Unmoved, viewVars
      <4>2. QED
        BY <4>1, UnmovedRests
    <3>4. CASE value # "error" /\ ~boot.moved
      <4>1. Authorized(value, {"restart"})
        BY <1>5, <3>4 DEF AuthorizationAnswered
      <4>2. QED
        BY <2>2, <3>4, <4>1, AuthorizedFacts DEF Requests
    <3>5. QED
      BY <3>1, <3>2, <3>3, <3>4
  <2>5. QED
    BY <1>1, <2>1, <2>3, <2>4 DEF Quiet
<1>6. CASE CommandAnswered
  <2>1. /\ execution' = Idle
        /\ UNCHANGED <<screen, generation, boot, open, releaseVars, closeVars, td, asked, moves>>
        /\ IF Head(inbox).value = "ok" THEN UNCHANGED viewVars
                                       ELSE Refused(Head(inbox).value = "limited")
    BY <1>6 DEF CommandAnswered
  <2>2. CASE UNCHANGED viewVars
    BY <1>1, <2>1, <2>2, UnmovedRests DEF Quiet, Unmoved
  <2>3. CASE ~UNCHANGED viewVars
    <3>1. /\ Concerned /\ auth # "logging_out"
          /\ auth' = IF op.kind = "connect" THEN "not_connected" ELSE auth
          /\ op' = [op EXCEPT !.status = "failed"]
          /\ cooling' = (Head(inbox).value = "limited")
          /\ UNCHANGED <<client, connection>>
          /\ Publish(TRUE)
      BY <2>1, <2>3 DEF Refused
    <3>2. /\ allowed' \subseteq Actions /\ stale' \in BOOLEAN /\ stale'
          /\ "restart" \in allowed' => client' = "failed" /\ ~releasing'
      BY <3>1, PublishFacts
    <3>3. op' \in Operations /\ ~Pending'
      BY <3>1 DEF ViewOK, Operations, Pending
    <3>4. ViewOK' /\ ReleaseOK'
      BY <2>1, <3>1, <3>2, <3>3 DEF ViewOK, ReleaseOK, releaseVars, Kinds
    <3>5. Rest
      BY <2>1, <3>1, <3>2, <3>3, <3>4 DEF Rest, ClientInv, releaseVars
    <3>6. QED
      BY <1>1, <2>1, <3>5 DEF Quiet
  <2>4. QED
    BY <2>2, <2>3
<1>7. QED
  BY <1>3, <1>4, <1>5, <1>6

\* A command that is given to TDLib, or has lost its meaning; the cooling timer.
LEMMA CommandQuiet ==
  ASSUME TypeOK, ClientInv, \/ Execute /\ generation' = generation
                            \/ CoolingEnds
  PROVE  Quiet
<1> USE DEF TypeOK
<1>1. CASE Execute /\ generation' = generation
  <2>1. ~Boot(open, {})
    BY <1>1 DEF Boot
  <2>2. /\ UNCHANGED <<screen, releaseVars, closeVars, moves, viewVars, generation, boot, open,
                       td, inbox>>
        /\ \/ execution' = Idle /\ asked' = asked
           \/ /\ execution' = [execution EXCEPT !.stage = "invoking"]
              /\ asked' = asked \cup {"command"}
    BY <1>1, <2>1 DEF Execute
  <2>3. Rest
    BY <2>2, UnmovedRests DEF Unmoved
  <2>4. QED
    BY <2>2, <2>3 DEF Quiet, Requests
<1>2. CASE CoolingEnds
  <2>1. /\ cooling' = FALSE
        /\ UNCHANGED <<client, connection, auth, op, screen, generation, boot, execution, open,
                       releaseVars, closeVars, tdVars>>
        /\ Publish(FALSE)
    BY <1>2 DEF CoolingEnds
  <2>2. /\ allowed' \subseteq Actions /\ stale' \in BOOLEAN
        /\ ~stale' => ~stale /\ allowed' = allowed
        /\ "restart" \in allowed' => client' = "failed" /\ ~releasing'
    BY <2>1, PublishFacts
  <2>3. ViewOK' /\ ReleaseOK'
    BY <2>1, <2>2 DEF ViewOK, ReleaseOK, releaseVars
  <2>4. Rest
    BY <2>1, <2>2, <2>3 DEF Rest, ClientInv, releaseVars, Pending
  <2>5. QED
    BY <2>1, <2>4 DEF Quiet, tdVars
<1>3. QED
  BY <1>1, <1>2

LEMMA TdQuiet ==
  ASSUME TypeOK, ClientInv,
         \/ \E request \in Requests : TdGrants(request) \/ TdRefuses(request)
         \/ TdMoves \/ TdCloses
  PROVE  Quiet
<1> USE DEF TypeOK
<1>1. /\ UNCHANGED <<viewVars, screen, generation, boot, execution, open, releaseVars, closeVars>>
      /\ asked' \subseteq Requests
  BY DEF TdGrants, TdRefuses, TdMoves, TdCloses
<1>2. Rest
  BY <1>1, UnmovedRests DEF Unmoved
<1>3. ASSUME NEW value \in AuthStates
      PROVE  /\ Update(value) \in Seq(Messages)
             /\ Answer("getAuthorizationState", value) \in Seq(Messages)
  <2>1. /\ [kind |-> "auth", value |-> value] \in Messages
        /\ [kind |-> "getAuthorizationState", value |-> value] \in Messages
    BY DEF Messages, Requests
  <2>2. QED
    BY <2>1 DEF Update, Answer
<1>4. ASSUME NEW request \in Requests \ {"getAuthorizationState"},
             NEW value \in {"ok", "error", "limited"}
      PROVE  Answer(request, value) \in Seq(Messages)
  <2>1. [kind |-> request, value |-> value] \in Messages
    BY DEF Messages
  <2>2. QED
    BY <2>1 DEF Answer
<1>5. Answer("getAuthorizationState", "error") \in Seq(Messages)
  <2>1. [kind |-> "getAuthorizationState", value |-> "error"] \in Messages
    BY DEF Messages
  <2>2. QED
    BY <2>1 DEF Answer
<1>6. td' \in AuthStates /\ moves' \in 0 .. MaxMoves /\ inbox' \in Seq(Messages)
  <2>1. ASSUME NEW request \in Requests, TdGrants(request)
        PROVE  td' \in AuthStates /\ moves' \in 0 .. MaxMoves /\ inbox' \in Seq(Messages)
    <3>1. moves' = moves
      BY <2>1 DEF TdGrants
    <3>2. CASE request = "setLogStream"
      <4>1. td' = td /\ Says(Answer(request, "ok"))
        BY <2>1, <3>2 DEF TdGrants
      <4>2. Answer(request, "ok") \in Seq(Messages)
        BY <1>4, <3>2
      <4>3. QED
        BY <3>1, <4>1, <4>2, SaysFacts
    <3>3. CASE request = "getAuthorizationState"
      <4>1. td' = td /\ Says(Answer(request, td))
        BY <2>1, <3>3 DEF TdGrants
      <4>2. Answer(request, td) \in Seq(Messages)
        BY <1>3, <3>3
      <4>3. QED
        BY <3>1, <4>1, <4>2, SaysFacts
    <3>4. CASE request \notin {"setLogStream", "getAuthorizationState"}
      <4>1. td' \in Granted(request) /\ Says(Update(td') \o Answer(request, "ok"))
        BY <2>1, <3>4 DEF TdGrants
      <4>2. td' \in AuthStates
        BY <4>1 DEF Granted, AuthStates
      <4>3. Update(td') \in Seq(Messages) /\ Answer(request, "ok") \in Seq(Messages)
        BY <1>3, <1>4, <3>4, <4>2
      <4>4. Update(td') \o Answer(request, "ok") \in Seq(Messages)
        BY <4>3, ConcatProperties
      <4>5. QED
        BY <3>1, <4>1, <4>2, <4>4, SaysFacts
    <3>5. QED
      BY <3>2, <3>3, <3>4
  <2>2. ASSUME NEW request \in Requests, TdRefuses(request)
        PROVE  td' \in AuthStates /\ moves' \in 0 .. MaxMoves /\ inbox' \in Seq(Messages)
    <3>1. td' = td /\ moves' = moves
      BY <2>2 DEF TdRefuses
    <3>2. \/ Says(Answer(request, "error"))
          \/ request = "command" /\ Says(Answer(request, "limited"))
      BY <2>2 DEF TdRefuses
    <3>3. /\ Answer(request, "error") \in Seq(Messages)
          /\ request = "command" => Answer(request, "limited") \in Seq(Messages)
      BY <1>4, <1>5
    <3>4. QED
      BY <3>1, <3>2, <3>3, SaysFacts
  <2>3. ASSUME TdMoves
        PROVE  td' \in AuthStates /\ moves' \in 0 .. MaxMoves /\ inbox' \in Seq(Messages)
    <3>1. moves' \in 0 .. MaxMoves
      BY <2>3, ConnectionAssumption DEF TdMoves
    <3>2. CASE Says(Update(td')) /\ td' \in AuthStates
      BY <1>3, <3>1, <3>2, SaysFacts
    <3>3. CASE td' = td /\ \E value \in {"ready", "lost"} :
                             Says(<<[kind |-> "connection", value |-> value]>>)
      <4>1. PICK value \in {"ready", "lost"} : Says(<<[kind |-> "connection", value |-> value]>>)
        BY <3>3
      <4>2. [kind |-> "connection", value |-> value] \in Messages
        BY DEF Messages
      <4>3. <<[kind |-> "connection", value |-> value]>> \in Seq(Messages)
        BY <4>2
      <4>4. QED
        BY <3>1, <3>3, <4>1, <4>3, SaysFacts
    <3>4. QED
      BY <2>3, <3>2, <3>3 DEF TdMoves, AuthStates
  <2>4. ASSUME TdCloses
        PROVE  td' \in AuthStates /\ moves' \in 0 .. MaxMoves /\ inbox' \in Seq(Messages)
    <3>1. td' = "closed" /\ moves' = moves /\ Says(Update("closed")) /\ "closed" \in AuthStates
      BY <2>4 DEF TdCloses, AuthStates
    <3>2. QED
      BY <1>3, <3>1, SaysFacts
  <2>5. QED
    BY <2>1, <2>2, <2>3, <2>4
<1>7. QED
  BY <1>1, <1>2, <1>6 DEF Quiet

QuietStep ==
  \/ StartDone \/ StartFails \/ ClientFails \/ Hear \/ CoolingEnds
  \/ Execute /\ generation' = generation
  \/ \E request \in Requests : TdGrants(request) \/ TdRefuses(request)
  \/ TdMoves \/ TdCloses

LEMMA Quietly ==
  ASSUME TypeOK, ClientInv, QuietStep
  PROVE  Quiet
BY BootQuiet, UpdateQuiet, AnswerQuiet, CommandQuiet, TdQuiet DEF QuietStep, Hear

LEMMA IdleType == Idle \in Executions /\ Idle.generation = 0 /\ Idle.stage = "none"
BY ConnectionAssumption DEF Idle, Executions

SafetyInv == ClientInv /\ RestartInv /\ CloseInv /\ ScreenTellsTheTruth

LEMMA QuietSuffices ==
  ASSUME TypeOK, SafetyInv, Quiet
  PROVE  TypeOK' /\ SafetyInv'
<1> USE DEF TypeOK, SafetyInv
<1>1. /\ ViewOK' /\ ReleaseOK' /\ generation' \in Nat /\ generation <= generation'
      /\ UNCHANGED <<screen, open, stopping, closing>>
      /\ boot' \in Boots /\ boot'.generation = boot.generation /\ boot.generation \in Nat
      /\ boot'.stage = "none" => boot.stage = "none"
  BY DEF Quiet, Rest, closeVars, Boots
<1>2. execution' \in Executions
  BY IdleType DEF Quiet, Executions
<1>3. /\ execution'.generation <= execution.generation
      /\ execution'.generation \in Nat /\ execution.generation \in Nat
      /\ execution'.stage = "scheduled" => execution' = execution
  BY DEF Quiet, Idle, Executions
<1>4. TypeOK'
  BY <1>1, <1>2 DEF Quiet
<1>5. ClientInv'
  <2>1. /\ boot'.generation <= generation' /\ execution'.generation <= generation'
        /\ open' \subseteq {boot'.generation} /\ (boot'.stage = "none" => open' = {})
    BY <1>1, <1>3 DEF ClientInv
  <2>2. client' = "failed" => boot'.generation < generation' /\ (open' = {} \/ releasing')
    BY <1>1 DEF ClientInv, Quiet, Rest
  <2>3. /\ release' # "none" => releasing'
        /\ "restart" \in allowed' => client' = "failed" /\ ~releasing'
    BY DEF Quiet, Rest
  <2>4. QED
    BY <2>1, <2>2, <2>3 DEF ClientInv
<1>6. RestartInv'
  <2>1. ASSUME execution'.stage = "scheduled", execution'.kind = "restart", Pending',
               execution'.generation = generation', ~stopping'
        PROVE  open' = {}
    <3>1. Pending
      BY <2>1 DEF Quiet, Rest
    <3>2. execution' = execution /\ execution.generation = generation
      BY <1>1, <1>3, <2>1 DEF ClientInv
    <3>3. QED
      BY <1>1, <2>1, <3>1, <3>2 DEF RestartInv, Current
  <2>2. QED
    BY <2>1 DEF RestartInv, Current
<1>7. CloseInv'
  BY <1>1 DEF CloseInv, Quiet, Rest
<1>8. ScreenTellsTheTruth'
  BY <1>1 DEF ScreenTellsTheTruth, Quiet, Rest
<1>9. QED
  BY <1>4, <1>5, <1>6, <1>7, <1>8

-----------------------------------------------------------------------------
(* The other steps *)

\* A boot needs that no client is left, and makes one.
LEMMA BootStep ==
  ASSUME TypeOK, SafetyInv, NEW ops, Boot({}, ops), ~stopping,
         UNCHANGED <<screen, stopping, moves>>,
         execution' \in {execution, Idle}, ReleaseOK', release' # "none" => releasing',
         closing' = closing, "close" \in onRelease' => "close" \in onRelease
  PROVE  TypeOK' /\ SafetyInv'
<1> USE DEF TypeOK, SafetyInv
<1>1. /\ generation' = generation + 1 /\ boot' = NewBoot(generation + 1, "starting")
      /\ open' = {generation + 1} /\ client' = "initializing" /\ connection' = "unknown"
      /\ SetAuthorization("initializing", ops)
      /\ td' = "waitParameters" /\ asked' = {}
      /\ inbox' = <<[kind |-> "auth", value |-> "waitParameters"],
                    [kind |-> "connection", value |-> "ready"]>>
  BY DEF Boot
<1>2. "initializing" \in Kinds
  BY DEF Kinds
<1>3. /\ auth' = "initializing" /\ cooling' \in BOOLEAN /\ op' \in Operations
      /\ allowed' \subseteq Actions /\ stale' \in BOOLEAN
      /\ ~stale' => ~stale /\ allowed' = allowed /\ auth' = auth
      /\ "restart" \in allowed' => client' = "failed" /\ ~releasing'
  BY <1>1, <1>2, SetAuthorizationFacts
<1>4. ViewOK'
  <2>1. /\ client' \in {"initializing", "running", "failed", "configuration_required"}
        /\ connection' \in {"unknown", "ready", "lost"} /\ auth' \in Kinds
    BY <1>1, <1>2, <1>3
  <2>2. QED
    BY <1>3, <2>1 DEF ViewOK
<1>5. boot' \in Boots /\ boot'.generation = generation' /\ boot'.stage = "starting"
  BY <1>1 DEF NewBoot, Boots
<1>6. /\ execution' \in Executions /\ execution'.generation \in Nat
      /\ execution'.generation <= generation
  BY IdleType DEF Executions, ClientInv
<1>7. inbox' \in Seq(Messages)
  <2>1. /\ [kind |-> "auth", value |-> "waitParameters"] \in Messages
        /\ [kind |-> "connection", value |-> "ready"] \in Messages
    BY DEF Messages, AuthStates
  <2>2. QED
    BY <1>1, <2>1
<1>8. TypeOK'
  BY <1>1, <1>4, <1>5, <1>6, <1>7 DEF AuthStates
<1>9. ClientInv'
  BY <1>1, <1>3, <1>5, <1>6 DEF ClientInv
<1>10. RestartInv'
  <2>1. execution'.generation # generation'
    BY <1>1, <1>6
  <2>2. QED
    BY <2>1 DEF RestartInv, Current
<1>11. CloseInv'
  BY DEF CloseInv
<1>12. ScreenTellsTheTruth'
  BY <1>3 DEF ScreenTellsTheTruth
<1>13. QED
  BY <1>8, <1>9, <1>10, <1>11, <1>12

LEMMA StartStep ==
  ASSUME TypeOK, SafetyInv, Start
  PROVE  TypeOK' /\ SafetyInv'
<1>1. open = {}
  BY DEF Start, SafetyInv, ClientInv
<1>2. /\ Boot({}, {}) /\ ~stopping
      /\ UNCHANGED <<screen, stopping, closing, moves, execution, releasing, release, onRelease>>
  BY <1>1 DEF Start, releaseVars, closeVars
<1>3. ReleaseOK' /\ (release' # "none" => releasing')
  BY <1>2 DEF TypeOK, ReleaseOK, SafetyInv, ClientInv
<1>4. QED
  BY <1>2, <1>3, BootStep

LEMMA RestartStep ==
  ASSUME TypeOK, SafetyInv, Execute, generation' # generation
  PROVE  TypeOK' /\ SafetyInv'
<1>1. /\ Concerned /\ execution.kind = "restart" /\ execution.stage = "scheduled"
      /\ Boot(open, {}) /\ execution' = Idle
      /\ UNCHANGED <<screen, releaseVars, closeVars, moves>>
  BY DEF Execute
<1>2. open = {} /\ ~stopping
  BY <1>1 DEF SafetyInv, RestartInv, Concerned, Current
<1>3. /\ Boot({}, {})
      /\ UNCHANGED <<screen, stopping, closing, moves, releasing, release, onRelease>>
  BY <1>1, <1>2 DEF releaseVars, closeVars
<1>4. ReleaseOK' /\ (release' # "none" => releasing')
  BY <1>3 DEF TypeOK, ReleaseOK, SafetyInv, ClientInv
<1>5. QED
  BY <1>1, <1>2, <1>3, <1>4, BootStep

LEMMA LookStep ==
  ASSUME TypeOK, SafetyInv, Look
  PROVE  TypeOK' /\ SafetyInv'
<1> USE DEF TypeOK, SafetyInv
<1>1. /\ screen' = [allowed |-> allowed, auth |-> auth] /\ stale' = FALSE
      /\ UNCHANGED <<client, connection, auth, op, cooling, allowed, generation, boot, execution,
                     open, releaseVars, closeVars, tdVars>>
  BY DEF Look
<1>2. ViewOK' /\ ReleaseOK' /\ screen' \in [allowed : SUBSET Actions, auth : Kinds]
  BY <1>1 DEF ViewOK, ReleaseOK, releaseVars
<1>3. TypeOK'
  BY <1>1, <1>2 DEF closeVars, tdVars
<1>4. ClientInv' /\ CloseInv' /\ ScreenTellsTheTruth'
  BY <1>1 DEF ClientInv, CloseInv, ScreenTellsTheTruth, releaseVars, closeVars
<1>5. RestartInv'
  BY <1>1 DEF RestartInv, Pending, Current, closeVars
<1>6. QED
  BY <1>3, <1>4, <1>5

\* A restart is accepted only if the client is gone.
LEMMA AcceptStep ==
  ASSUME TypeOK, SafetyInv, NEW action \in Actions, Accept(action)
  PROVE  TypeOK' /\ SafetyInv'
<1> USE DEF TypeOK, SafetyInv
<1>1. /\ action \in allowed /\ op.id < MaxOps
      /\ op' = [kind |-> action, status |-> "pending", id |-> op.id + 1]
      /\ cooling' = FALSE
      /\ auth' = IF action = "connect" THEN "requesting_qr" ELSE auth
      /\ execution' = [stage |-> "scheduled", generation |-> generation, kind |-> action,
                       id |-> op'.id]
      /\ UNCHANGED <<client, connection, screen, generation, boot, open, releaseVars, closeVars,
                     tdVars>>
      /\ Publish(TRUE)
  BY DEF Accept
<1>2. /\ allowed' \subseteq Actions /\ stale' \in BOOLEAN /\ stale'
      /\ "restart" \in allowed' => client' = "failed" /\ ~releasing'
  BY <1>1, PublishFacts
<1>3. op.id + 1 \in 0 .. MaxOps
  BY <1>1, ConnectionAssumption DEF ViewOK, Operations
<1>4. op' \in Operations /\ execution' \in Executions /\ execution'.generation = generation
  BY <1>1, <1>3 DEF Operations, Executions
<1>5. ViewOK' /\ ReleaseOK'
  BY <1>1, <1>2, <1>4 DEF ViewOK, ReleaseOK, releaseVars, Kinds
<1>6. TypeOK'
  BY <1>1, <1>4, <1>5 DEF closeVars, tdVars
<1>7. ClientInv'
  BY <1>1, <1>2, <1>4 DEF ClientInv, releaseVars
<1>8. RestartInv'
  <2>1. action = "restart" => open = {}
    BY <1>1 DEF ClientInv
  <2>2. execution'.kind = "restart" => open' = {}
    BY <1>1, <2>1
  <2>3. QED
    BY <2>2 DEF RestartInv
<1>9. CloseInv' /\ ScreenTellsTheTruth'
  BY <1>1, <1>2 DEF CloseInv, ScreenTellsTheTruth, releaseVars, closeVars
<1>10. QED
  BY <1>6, <1>7, <1>8, <1>9

LEMMA SilentFacts ==
  ASSUME TypeOK, Silent
  PROVE  execution' \in {execution, Idle}
BY DEF Silent

LEMMA ReleasedStep ==
  ASSUME TypeOK, SafetyInv, Released
  PROVE  TypeOK' /\ SafetyInv'
<1> USE DEF TypeOK, SafetyInv
<1>1. /\ releasing' = FALSE /\ release' = "none" /\ onRelease' = {}
      /\ closing' = IF "close" \in onRelease THEN "done" ELSE closing
      /\ execution' \in {execution, Idle} /\ UNCHANGED <<screen, stopping, moves>>
  BY SilentFacts DEF Released
<1>2. ReleaseOK'
  BY <1>1 DEF ReleaseOK
<1>3. CASE "logout" \in onRelease /\ Current(boot.generation)
  <2>1. Boot({}, Actions) /\ ~stopping
    BY <1>3 DEF Released, Current
  <2>2. closing' = closing
    BY <1>1, <2>1 DEF CloseInv
  <2>3. QED
    BY <1>1, <1>2, <2>1, <2>2, BootStep
<1>4. CASE ~("logout" \in onRelease /\ Current(boot.generation))
  <2>1. /\ open' = {} /\ asked' = {} /\ inbox' = <<>>
        /\ UNCHANGED <<client, connection, auth, op, cooling, generation, boot, td>>
        /\ Publish(TRUE)
    BY <1>4 DEF Released
  <2>2. /\ allowed' \subseteq Actions /\ stale' \in BOOLEAN /\ stale'
        /\ "restart" \in allowed' => client' = "failed" /\ ~releasing'
    BY <2>1, PublishFacts
  <2>3. ViewOK'
    BY <2>1, <2>2 DEF ViewOK
  <2>4. inbox' \in Seq(Messages) /\ execution' \in Executions
    BY <1>1, <2>1, IdleType, EmptySeq
  <2>5. execution'.generation <= generation /\ execution'.generation \in Nat
    BY <1>1, IdleType DEF ClientInv, Executions
  <2>6. TypeOK'
    BY <1>1, <1>2, <2>1, <2>3, <2>4
  <2>7. ClientInv'
    BY <1>1, <2>1, <2>2, <2>5 DEF ClientInv
  <2>8. RestartInv' /\ CloseInv' /\ ScreenTellsTheTruth'
    BY <1>1, <2>1, <2>2 DEF RestartInv, CloseInv, ScreenTellsTheTruth
  <2>9. QED
    BY <2>6, <2>7, <2>8
<1>5. QED
  BY <1>3, <1>4

LEMMA NotReleasedStep ==
  ASSUME TypeOK, SafetyInv, NotReleased
  PROVE  TypeOK' /\ SafetyInv'
<1> USE DEF TypeOK, SafetyInv
<1>1. /\ release = "pending" /\ open # {}
      /\ releasing' = TRUE /\ release' = "rejected" /\ onRelease' = {}
      /\ closing' = IF "close" \in onRelease THEN "rejected" ELSE closing
      /\ asked' = {} /\ inbox' = <<>>
      /\ execution' \in {execution, Idle}
      /\ UNCHANGED <<screen, boot, open, stopping, td, moves>>
  BY SilentFacts DEF NotReleased
<1>2. ReleaseOK'
  BY <1>1 DEF ReleaseOK
<1>3. /\ ViewOK' /\ generation' \in Nat /\ generation <= generation'
      /\ ~stale' => ~stale /\ allowed' = allowed /\ auth' = auth
      /\ "restart" \notin allowed' /\ (Pending' => Pending)
      /\ client' = "failed" => client = "failed" \/ generation < generation'
  <2>1. CASE UNCHANGED <<viewVars, generation>>
    <3>1. "restart" \notin allowed
      BY <1>1 DEF ClientInv
    <3>2. ViewOK'
      BY <2>1 DEF viewVars, ViewOK
    <3>3. QED
      BY <2>1, <3>1, <3>2 DEF viewVars, Pending
  <2>2. CASE ~UNCHANGED <<viewVars, generation>>
    <3>1. /\ generation' = generation + 1
          /\ client' = "failed" /\ connection' = "unknown" /\ auth' = "initializing"
          /\ cooling' = FALSE
          /\ op' = IF Pending THEN [op EXCEPT !.status = "failed"] ELSE op
          /\ Publish(TRUE)
      BY <2>2 DEF NotReleased
    <3>2. /\ allowed' \subseteq Actions /\ stale' \in BOOLEAN /\ stale'
          /\ "restart" \in allowed' => client' = "failed" /\ ~releasing'
      BY <3>1, PublishFacts
    <3>3. op' \in Operations /\ (Pending' => Pending)
      BY <3>1 DEF ViewOK, Operations, Pending
    <3>4. ViewOK'
      BY <3>1, <3>2, <3>3 DEF ViewOK, Kinds
    <3>5. QED
      BY <1>1, <3>1, <3>2, <3>3, <3>4
  <2>3. QED
    BY <2>1, <2>2
<1>4. inbox' \in Seq(Messages) /\ execution' \in Executions
  BY <1>1, IdleType, EmptySeq
<1>5. /\ execution'.generation \in Nat /\ execution'.generation <= execution.generation
      /\ execution'.stage = "scheduled" => execution' = execution
      /\ execution.generation \in Nat /\ boot.generation \in Nat
  BY <1>1, IdleType DEF Executions, Boots
<1>6. TypeOK'
  BY <1>1, <1>2, <1>3, <1>4
<1>7. ClientInv'
  <2>1. boot'.generation <= generation' /\ execution'.generation <= generation'
    BY <1>1, <1>3, <1>5 DEF ClientInv
  <2>2. client' = "failed" => boot'.generation < generation'
    BY <1>1, <1>3, <1>5 DEF ClientInv
  <2>3. QED
    BY <1>1, <1>3, <2>1, <2>2 DEF ClientInv
<1>8. RestartInv'
  <2>1. ASSUME execution'.stage = "scheduled", execution'.kind = "restart", Pending',
               execution'.generation = generation', ~stopping'
        PROVE  open' = {}
    <3>1. Pending
      BY <1>3, <2>1
    <3>2. execution' = execution /\ execution.generation = generation
      BY <1>3, <1>5, <2>1 DEF ClientInv
    <3>3. QED
      BY <1>1, <2>1, <3>1, <3>2 DEF RestartInv, Current
  <2>2. QED
    BY <2>1 DEF RestartInv, Current
<1>9. CloseInv' /\ ScreenTellsTheTruth'
  BY <1>1, <1>3 DEF CloseInv, ScreenTellsTheTruth
<1>10. QED
  BY <1>6, <1>7, <1>8, <1>9

LEMMA CloseStep ==
  ASSUME TypeOK, SafetyInv, Close \/ Opened
  PROVE  TypeOK' /\ SafetyInv'
<1> USE DEF TypeOK, SafetyInv
<1>1. /\ UNCHANGED <<client, connection, auth, op, cooling, screen, generation, boot, execution,
                     open, tdVars>>
      /\ stopping' = TRUE
  BY DEF Close, Opened, CloseInv
<1>2. /\ ReleaseOK' /\ (release' # "none" => releasing')
      /\ closing' \in {"opening", "releasing", "rejected"}
      /\ allowed' \subseteq Actions /\ stale' \in BOOLEAN
      /\ ~stale' => ~stale /\ allowed' = allowed
      /\ "restart" \in allowed' => allowed' = allowed /\ releasing' = releasing
      /\ client = "failed" => (releasing => releasing')
  <2>1. CASE closing' = "opening" /\ UNCHANGED <<releaseVars, allowed, stale>>
    BY <2>1 DEF releaseVars, ReleaseOK, ViewOK, ClientInv
  <2>2. CASE closing' = "rejected" /\ UNCHANGED <<releaseVars, allowed, stale>>
    BY <2>2 DEF releaseVars, ReleaseOK, ViewOK, ClientInv
  <2>3. CASE /\ closing' = "releasing" /\ Release({"close"})
             /\ allowed' = {} /\ stale' = (stale \/ ~releasing \/ allowed # {})
    <3>1. {"close"} \in SUBSET {"logout", "close"}
      OBVIOUS
    <3>2. ReleaseOK' /\ releasing'
      BY <2>3, <3>1, ReleaseFacts
    <3>3. stale' \in BOOLEAN
      BY <2>3 DEF ViewOK
    <3>4. ~stale' => ~stale /\ allowed' = allowed
      BY <2>3 DEF ViewOK
    <3>5. QED
      BY <2>3, <3>2, <3>3, <3>4
  <2>4. QED
    BY <2>1, <2>2, <2>3 DEF Close, Opened, Leave
<1>3. ViewOK'
  BY <1>1, <1>2 DEF ViewOK
<1>4. TypeOK'
  BY <1>1, <1>2, <1>3 DEF tdVars
<1>5. ClientInv'
  BY <1>1, <1>2 DEF ClientInv
<1>6. RestartInv' /\ CloseInv' /\ ScreenTellsTheTruth'
  BY <1>1, <1>2 DEF RestartInv, Current, CloseInv, ScreenTellsTheTruth
<1>7. QED
  BY <1>4, <1>5, <1>6

LEMMA SafetyStep ==
  ASSUME TypeOK, SafetyInv, [Next]_vars
  PROVE  TypeOK' /\ SafetyInv'
<1>1. CASE UNCHANGED vars
  <2>1. TypeOK'
    BY <1>1 DEF vars, viewVars, releaseVars, closeVars, tdVars, TypeOK, ViewOK, ReleaseOK
  <2>2. QED
    BY <1>1, <2>1 DEF vars, viewVars, releaseVars, closeVars, tdVars, SafetyInv, ClientInv,
                      RestartInv, CloseInv, ScreenTellsTheTruth, Pending, Current
<1>2. CASE QuietStep
  <2>1. Quiet
    BY <1>2, Quietly DEF SafetyInv
  <2>2. QED
    BY <2>1, QuietSuffices
<1>3. QED
  BY <1>1, <1>2, StartStep, RestartStep, LookStep, AcceptStep, ReleasedStep, NotReleasedStep,
     CloseStep DEF Next, QuietStep

-----------------------------------------------------------------------------
(* The parameters, and the end of a session *)

\* The boot's steps so far keep what is known of the parameters: they are asked
\* for when they have not been, and a logout is only what TDLib has said.
LEMMA ParametersSuffice ==
  ASSUME ParametersInv, td' = td, Range(inbox') \subseteq Range(inbox),
         boot'.stage \in {"none", "starting", "silencing"} =>
           boot.stage \in {"none", "starting", "silencing"}
             /\ boot'.configured = boot.configured,
         boot.configured => boot'.configured,
         "parameters" \in asked' => \/ "parameters" \in asked
                                    \/ ~boot.configured /\ boot'.configured,
         auth' = "logging_out" => \/ auth = "logging_out"
                                  \/ \E m \in Range(inbox) : m.value = "loggingOut"
  PROVE  ParametersInv'
<1>1. boot'.stage \in {"none", "starting", "silencing"} => ~boot'.configured
  BY DEF ParametersInv
<1>2. td' = "waitParameters" \/ boot'.configured
  BY DEF ParametersInv
<1>3. "parameters" \in asked' => td' = "waitParameters" /\ boot'.configured
  BY DEF ParametersInv
<1>4. ASSUME NEW m \in Range(inbox')
      PROVE  /\ m.kind = "parameters" /\ m.value = "error" =>
                  td' = "waitParameters" /\ boot'.configured /\ "parameters" \notin asked'
             /\ m.value = "loggingOut" => td' # "waitParameters"
  BY <1>4 DEF ParametersInv
<1>5. auth' = "logging_out" => td' # "waitParameters"
  BY DEF ParametersInv
<1>6. QED
  BY <1>1, <1>2, <1>3, <1>4, <1>5 DEF ParametersInv

\* What the boot does before it is told, and what commands and the end of a
\* client do.
LEMMA ParametersCalm ==
  ASSUME TypeOK, ClientInv, ParametersInv,
         \/ StartDone \/ StartFails \/ ClientFails \/ ConnectionUpdate \/ ParametersAnswered
         \/ CommandAnswered \/ Look \/ CoolingEnds \/ Close \/ Opened \/ NotReleased
         \/ Execute /\ generation' = generation
         \/ Released /\ generation' = generation
         \/ \E action \in Actions : Accept(action)
  PROVE  ParametersInv'
<1>1. Range(<<>>) = {}
  BY DEF Range
<1>2. CASE StartDone
  BY <1>2, ParametersSuffice DEF StartDone, viewVars, TypeOK, Boots
<1>3. CASE StartFails
  <2>1. auth' = auth \/ auth' = "initializing"
    BY <1>3, FailFacts DEF StartFails, Codes
  <2>2. boot'.stage = "done" /\ boot'.configured = boot.configured
    BY <1>3 DEF StartFails, TypeOK, Boots
  <2>3. QED
    BY <1>3, <2>1, <2>2, ParametersSuffice DEF StartFails, tdVars
<1>4. CASE ClientFails
  <2>1. auth' = auth \/ auth' = "initializing"
    BY <1>4, FailFacts DEF ClientFails, Codes
  <2>2. boot'.stage = "done" /\ boot'.configured = boot.configured
    BY <1>4 DEF ClientFails, TypeOK, Boots
  <2>3. QED
    BY <1>1, <1>4, <2>1, <2>2, ParametersSuffice DEF ClientFails
<1>5. CASE ConnectionUpdate
  <2>1. Range(inbox') \subseteq Range(inbox)
    BY <1>5, InboxFacts DEF ConnectionUpdate, Deliver
  <2>2. QED
    BY <1>5, <2>1, ParametersSuffice DEF ConnectionUpdate
<1>6. CASE ParametersAnswered
  <2>1. Range(inbox') \subseteq Range(inbox)
    BY <1>6, InboxFacts DEF ParametersAnswered, Answered, Deliver
  <2>2. auth' = auth \/ auth' = "initializing"
    BY <1>6, FailFacts DEF ParametersAnswered, Codes, Unmoved, viewVars
  <2>3. QED
    BY <1>6, <2>1, <2>2, ParametersSuffice DEF ParametersAnswered
<1>7. CASE CommandAnswered
  <2>1. Range(inbox') \subseteq Range(inbox)
    BY <1>7, InboxFacts DEF CommandAnswered, Answered, Deliver
  <2>2. auth' = auth \/ auth' = "not_connected"
    BY <1>7 DEF CommandAnswered, Refused, viewVars
  <2>3. QED
    BY <1>7, <2>1, <2>2, ParametersSuffice DEF CommandAnswered
<1>8. CASE Look \/ CoolingEnds \/ Close \/ Opened
  BY <1>8, ParametersSuffice DEF Look, CoolingEnds, Close, Opened, tdVars
<1>9. CASE NotReleased
  <2>1. auth' = auth \/ auth' = "initializing"
    BY <1>9 DEF NotReleased, viewVars
  <2>2. QED
    BY <1>1, <1>9, <2>1, ParametersSuffice DEF NotReleased
<1>10. CASE Execute /\ generation' = generation
  <2>1. ~Boot(open, {})
    BY <1>10 DEF Boot, TypeOK
  <2>2. /\ UNCHANGED <<viewVars, boot, td, inbox>>
        /\ asked' = asked \/ asked' = asked \cup {"command"}
    BY <1>10, <2>1 DEF Execute
  <2>3. QED
    BY <2>2, ParametersSuffice DEF viewVars
<1>11. CASE Released /\ generation' = generation
  <2>1. ~Boot({}, Actions)
    BY <1>11 DEF Boot, TypeOK
  <2>2. asked' = {} /\ inbox' = <<>> /\ UNCHANGED <<auth, boot, td>>
    BY <1>11, <2>1 DEF Released
  <2>3. QED
    BY <1>1, <2>2, ParametersSuffice
<1>12. ASSUME NEW action \in Actions, Accept(action) PROVE ParametersInv'
  BY <1>12, ParametersSuffice DEF Accept, tdVars
<1>13. QED
  BY <1>2, <1>3, <1>4, <1>5, <1>6, <1>7, <1>8, <1>9, <1>10, <1>11, <1>12

LEMMA ParametersBoot ==
  ASSUME TypeOK, ParametersInv, NEW left, NEW ops, Boot(left, ops)
  PROVE  ParametersInv'
<1>1. /\ boot' = NewBoot(generation', "starting") /\ auth' = "initializing"
      /\ td' = "waitParameters" /\ asked' = {}
      /\ inbox' = <<[kind |-> "auth", value |-> "waitParameters"],
                    [kind |-> "connection", value |-> "ready"]>>
  BY DEF Boot, SetAuthorization
<1>2. ~boot'.configured
  BY <1>1 DEF NewBoot
<1>3. \A m \in Range(inbox') : m.kind # "parameters" /\ m.value # "loggingOut"
  BY <1>1 DEF Range
<1>4. QED
  BY <1>1, <1>2, <1>3 DEF ParametersInv

LEMMA ParametersHeard ==
  ASSUME TypeOK, ClientInv, ParametersInv,
         AuthorizationUpdate \/ Silenced \/ AuthorizationAnswered
  PROVE  ParametersInv'
<1> DEFINE value == Head(inbox).value
<1>1. inbox # <<>> /\ inbox' = Tail(inbox) /\ td' = td
  BY DEF AuthorizationUpdate, Silenced, AuthorizationAnswered, Answered, Deliver
<1>2. /\ Head(inbox) \in Messages /\ Head(inbox) \in Range(inbox)
      /\ Range(inbox') \subseteq Range(inbox)
  BY <1>1, InboxFacts
<1>3. boot \in Boots
  BY DEF TypeOK
<1>4. CASE AuthorizationUpdate /\ (~Hears \/ ~Ready)
  <2>1. UNCHANGED <<auth, asked>> /\ (boot' = boot \/ boot' = [boot EXCEPT !.waits = TRUE, !.moved = TRUE])
    BY <1>4 DEF AuthorizationUpdate, Unmoved, viewVars
  <2>2. boot'.stage = boot.stage /\ boot'.configured = boot.configured
    BY <1>3, <2>1 DEF Boots
  <2>3. QED
    BY <1>1, <1>2, <2>1, <2>2, ParametersSuffice
<1>5. CASE AuthorizationUpdate /\ Hears /\ Ready
  <2>1. /\ boot' = [boot EXCEPT !.moved = TRUE, !.configured = @ \/ value = "waitParameters"]
        /\ Authorized(value, {}) /\ Head(inbox).kind = "auth"
    BY <1>5 DEF AuthorizationUpdate
  <2>2. value \in AuthStates
    BY <1>2, <2>1 DEF Messages, Requests
  <2>3. /\ auth' = "logging_out" => auth = "logging_out" \/ value = "loggingOut"
        /\ asked' = asked \/ (/\ value = "waitParameters" /\ ~boot.configured
                              /\ asked' = asked \cup {"parameters"})
    BY <2>1, <2>2, AuthorizedFacts
  <2>4. /\ boot'.stage = boot.stage /\ boot'.stage \in {"asking", "done"}
        /\ boot'.configured = (boot.configured \/ value = "waitParameters")
    BY <1>3, <1>5, <2>1 DEF Boots, Ready
  <2>5. QED
    BY <1>1, <1>2, <2>3, <2>4, ParametersSuffice
<1>6. CASE Silenced
  <2>1. boot.stage = "silencing" /\ ~boot.configured
    BY <1>6 DEF Silenced, ParametersInv
  <2>2. CASE value = "error" \/ ~Hears
    <3>1. /\ boot' = [boot EXCEPT !.stage = "done"] /\ asked' = asked
          /\ Fail(boot.generation, "client_unavailable") \/ Unmoved
      BY <1>6, <2>2 DEF Silenced
    <3>2. auth' = auth \/ auth' = "initializing"
      BY <3>1, FailFacts DEF Codes, Unmoved, viewVars
    <3>3. boot'.stage = "done" /\ boot'.configured = boot.configured
      BY <1>3, <3>1 DEF Boots
    <3>4. QED
      BY <1>1, <1>2, <3>1, <3>2, <3>3, ParametersSuffice
  <2>3. CASE value # "error" /\ Hears
    <3>1. /\ boot' = [boot EXCEPT !.stage = "asking", !.configured = @ \/ boot.waits,
                                  !.moved = FALSE]
          /\ asked' = {"getAuthorizationState"} \cup IF boot.waits THEN {"parameters"} ELSE {}
          /\ auth' = auth
      BY <1>6, <2>3 DEF Silenced
    <3>2. boot'.stage = "asking" /\ boot'.configured = boot.waits
      BY <1>3, <2>1, <3>1 DEF Boots
    <3>3. "parameters" \in asked' => boot'.configured
      BY <3>1, <3>2
    <3>4. QED
      BY <1>1, <1>2, <2>1, <3>1, <3>2, <3>3, ParametersSuffice
  <2>4. QED
    BY <2>2, <2>3
<1>7. CASE AuthorizationAnswered
  <2>1. /\ boot' = [boot EXCEPT !.stage = "done",
                       !.configured = @ \/ (value = "waitParameters" /\ ~boot.moved)]
        /\ Head(inbox).kind = "getAuthorizationState"
    BY <1>7 DEF AuthorizationAnswered, Answered
  <2>2. /\ boot'.stage = "done"
        /\ boot'.configured = (boot.configured \/ (value = "waitParameters" /\ ~boot.moved))
    BY <1>3, <2>1 DEF Boots
  <2>3. CASE value = "error"
    <3>1. Fail(boot.generation, "client_unavailable") /\ asked' = asked
      BY <1>7, <2>3 DEF AuthorizationAnswered
    <3>2. auth' = auth \/ auth' = "initializing"
      BY <3>1, FailFacts DEF Codes
    <3>3. QED
      BY <1>1, <1>2, <2>2, <3>1, <3>2, ParametersSuffice
  <2>4. CASE value # "error" /\ boot.moved
    <3>1. asked' = asked /\ auth' = auth
      BY <1>7, <2>4 DEF AuthorizationAnswered, SetAuthorization, viewVars
    <3>2. QED
      BY <1>1, <1>2, <2>2, <3>1, ParametersSuffice
  <2>5. CASE value # "error" /\ ~boot.moved
    <3>1. Authorized(value, {"restart"})
      BY <1>7, <2>5 DEF AuthorizationAnswered
    <3>2. value \in AuthStates
      BY <1>2, <2>1, <2>5 DEF Messages
    <3>3. /\ auth' = "logging_out" => auth = "logging_out" \/ value = "loggingOut"
          /\ asked' = asked \/ (/\ value = "waitParameters" /\ ~boot.configured
                                /\ asked' = asked \cup {"parameters"})
      BY <3>1, <3>2, AuthorizedFacts
    <3>4. QED
      BY <1>1, <1>2, <2>2, <2>5, <3>3, ParametersSuffice
  <2>6. QED
    BY <2>3, <2>4, <2>5
<1>8. QED
  BY <1>4, <1>5, <1>6, <1>7

\* TDLib leaves the state in which it waits for its parameters when it takes
\* them, and then for good.
LEMMA ParametersTd ==
  ASSUME TypeOK, ParametersInv,
         \/ \E request \in Requests : TdGrants(request) \/ TdRefuses(request)
         \/ TdMoves \/ TdCloses
  PROVE  ParametersInv'
<1>1. UNCHANGED <<auth, boot>>
  BY DEF TdGrants, TdRefuses, TdMoves, TdCloses, viewVars
<1>2. ASSUME NEW messages \in Seq(Messages), Says(messages),
             asked' \subseteq asked,
             td' = td \/ td' # "waitParameters",
             td' # td /\ td = "waitParameters" => "parameters" \in asked /\ "parameters" \notin asked',
             \A m \in Range(messages) :
               /\ m.kind = "parameters" /\ m.value = "error" =>
                    "parameters" \in asked /\ "parameters" \notin asked' /\ td' = td
               /\ m.value = "loggingOut" => td' # "waitParameters"
      PROVE  ParametersInv'
  <2>1. \A m \in Range(inbox') : m \in Range(inbox) \cup Range(messages)
    BY <1>2, SaysFacts
  <2>2. td' = "waitParameters" => td = "waitParameters"
    BY <1>2
  <2>3. td' = "waitParameters" \/ boot'.configured
    BY <1>1, <1>2 DEF ParametersInv
  <2>4. "parameters" \in asked' => td' = "waitParameters" /\ boot'.configured
    BY <1>1, <1>2 DEF ParametersInv
  <2>5. ASSUME NEW m \in Range(inbox')
        PROVE  /\ m.kind = "parameters" /\ m.value = "error" =>
                    td' = "waitParameters" /\ boot'.configured /\ "parameters" \notin asked'
               /\ m.value = "loggingOut" => td' # "waitParameters"
    <3>1. CASE m \in Range(inbox)
      BY <1>1, <1>2, <2>2, <3>1 DEF ParametersInv
    <3>2. CASE m \in Range(messages)
      BY <1>1, <1>2, <3>2 DEF ParametersInv
    <3>3. QED
      BY <2>1, <2>5, <3>1, <3>2
  <2>6. auth' = "logging_out" => td' # "waitParameters"
    BY <1>1, <2>2 DEF ParametersInv
  <2>7. QED
    BY <1>1, <2>3, <2>4, <2>5, <2>6 DEF ParametersInv
<1>3. ASSUME NEW value \in AuthStates
      PROVE  /\ Update(value) \in Seq(Messages)
             /\ Range(Update(value)) = {[kind |-> "auth", value |-> value]}
  <2>1. [kind |-> "auth", value |-> value] \in Messages
    BY DEF Messages
  <2>2. QED
    BY <2>1 DEF Update, Range
<1>4. ASSUME NEW request, NEW value
      PROVE  Range(Answer(request, value)) = {[kind |-> request, value |-> value]}
  BY DEF Answer, Range
<1>5. ASSUME NEW request \in Requests, TdGrants(request) PROVE ParametersInv'
  <2>1. request \in asked /\ asked' = asked \ {request}
    BY <1>5 DEF TdGrants
  <2>2. CASE request \in {"setLogStream", "getAuthorizationState"}
    <3> DEFINE value == IF request = "setLogStream" THEN "ok" ELSE td
    <3>1. td' = td /\ Says(Answer(request, value))
      BY <1>5, <2>2 DEF TdGrants
    <3>2. [kind |-> request, value |-> value] \in Messages
      BY <2>2 DEF Messages, Requests, TypeOK
    <3>3. Answer(request, value) \in Seq(Messages)
      BY <3>2 DEF Answer
    <3>4. \A m \in Range(Answer(request, value)) :
            m.kind # "parameters" /\ (m.value = "loggingOut" => td = "loggingOut")
      BY <1>4, <2>2
    <3> HIDE DEF value
    <3>5. QED
      BY <1>2, <2>1, <3>1, <3>3, <3>4
  <2>3. CASE request \in {"parameters", "command"}
    <3>1. /\ td' \in Granted(request)
          /\ Says(Update(td') \o Answer(request, "ok"))
      BY <1>5, <2>3 DEF TdGrants
    <3>2. /\ td' \in AuthStates /\ td' # "waitParameters"
          /\ td = "waitParameters" => request = "parameters"
      BY <2>3, <3>1 DEF Granted, AuthStates
    <3>3. /\ Update(td') \in Seq(Messages)
          /\ Range(Update(td')) = {[kind |-> "auth", value |-> td']}
      BY <1>3, <3>2
    <3>4. [kind |-> request, value |-> "ok"] \in Messages
      BY <2>3 DEF Messages, Requests
    <3>5. Answer(request, "ok") \in Seq(Messages)
      BY <3>4 DEF Answer
    <3>6. /\ Update(td') \o Answer(request, "ok") \in Seq(Messages)
          /\ \A m \in Range(Update(td') \o Answer(request, "ok")) :
               m \in {[kind |-> "auth", value |-> td'], [kind |-> request, value |-> "ok"]}
      BY <1>4, <3>3, <3>5, ConcatProperties, RangeConcatenation
    <3>7. \A m \in Range(Update(td') \o Answer(request, "ok")) :
            ~(m.kind = "parameters" /\ m.value = "error")
      BY <3>6
    <3>8. QED
      BY <1>2, <2>1, <3>1, <3>2, <3>6, <3>7
  <2>4. QED
    BY <2>2, <2>3 DEF Requests
<1>6. ASSUME NEW request \in Requests, TdRefuses(request) PROVE ParametersInv'
  <2>1. request \in asked /\ asked' = asked \ {request} /\ td' = td
    BY <1>6 DEF TdRefuses
  <2>2. PICK value \in {"error", "limited"} :
          Says(Answer(request, value)) /\ (value = "limited" => request = "command")
    BY <1>6 DEF TdRefuses
  <2>3. [kind |-> request, value |-> value] \in Messages
    BY <2>2 DEF Messages, Requests
  <2>4. Answer(request, value) \in Seq(Messages)
    BY <2>3 DEF Answer
  <2>5. \A m \in Range(Answer(request, value)) : m.kind = request /\ m.value # "loggingOut"
    BY <1>4, <2>2
  <2>6. QED
    BY <1>2, <2>1, <2>2, <2>4, <2>5
<1>7. ASSUME TdMoves PROVE ParametersInv'
  <2>1. asked' = asked
    BY <1>7 DEF TdMoves
  <2>2. CASE Says(Update(td')) /\ td \in {"qr", "ready"} /\ td' \in AuthStates \ {"waitParameters"}
    <3>1. /\ Update(td') \in Seq(Messages)
          /\ Range(Update(td')) = {[kind |-> "auth", value |-> td']}
      BY <1>3, <2>2
    <3>2. QED
      BY <1>2, <2>1, <2>2, <3>1
  <2>3. CASE td' = td /\ \E value \in {"ready", "lost"} :
                           Says(<<[kind |-> "connection", value |-> value]>>)
    <3>1. PICK value \in {"ready", "lost"} : Says(<<[kind |-> "connection", value |-> value]>>)
      BY <2>3
    <3>2. [kind |-> "connection", value |-> value] \in Messages
      BY DEF Messages
    <3>3. /\ <<[kind |-> "connection", value |-> value]>> \in Seq(Messages)
          /\ Range(<<[kind |-> "connection", value |-> value]>>)
               = {[kind |-> "connection", value |-> value]}
      BY <3>2 DEF Range
    <3>4. \A m \in Range(<<[kind |-> "connection", value |-> value]>>) :
            m.kind # "parameters" /\ m.value # "loggingOut"
      BY <3>3
    <3>5. QED
      BY <1>2, <2>1, <2>3, <3>1, <3>3, <3>4
  <2>4. QED
    BY <1>7, <2>2, <2>3 DEF TdMoves, AuthStates
<1>8. ASSUME TdCloses PROVE ParametersInv'
  <2>1. /\ td = "loggingOut" /\ td' = "closed" /\ Says(Update(td')) /\ asked' = asked
        /\ td' \in AuthStates
    BY <1>8 DEF TdCloses, AuthStates
  <2>2. Update(td') \in Seq(Messages) /\ Range(Update(td')) = {[kind |-> "auth", value |-> td']}
    BY <1>3, <2>1
  <2>3. QED
    BY <1>2, <2>1, <2>2
<1>9. QED
  BY <1>5, <1>6, <1>7, <1>8

LEMMA ParametersStep ==
  ASSUME TypeOK, ClientInv, ParametersInv, [Next]_vars
  PROVE  ParametersInv'
<1>1. CASE UNCHANGED vars
  BY <1>1, ParametersSuffice DEF vars, viewVars, tdVars
<1>2. CASE Start
  BY <1>2, ParametersBoot DEF Start
<1>3. CASE Execute /\ generation' # generation
  <2>1. Boot(open, {})
    BY <1>3 DEF Execute
  <2>2. QED
    BY <2>1, ParametersBoot
<1>4. CASE Released /\ generation' # generation
  <2>1. Boot({}, Actions)
    BY <1>4 DEF Released
  <2>2. QED
    BY <2>1, ParametersBoot
<1>5. QED
  BY <1>1, <1>2, <1>3, <1>4, ParametersCalm, ParametersHeard, ParametersTd DEF Next, Hear

-----------------------------------------------------------------------------
(* The theorems *)

LEMMA InitFacts == Init => TypeOK /\ SafetyInv /\ ParametersInv
<1> SUFFICES ASSUME Init PROVE TypeOK /\ SafetyInv /\ ParametersInv
  OBVIOUS
<1> USE DEF Init
<1>1. ViewOK /\ ReleaseOK
  <2>1. op \in Operations
    BY ConnectionAssumption DEF NoOp, Operations
  <2>2. auth \in Kinds
    BY DEF Kinds
  <2>3. QED
    BY <2>1, <2>2 DEF ViewOK, ReleaseOK
<1>2. boot \in Boots /\ boot.generation = 0 /\ ~boot.configured
  BY DEF NewBoot, Boots
<1>3. TypeOK
  <2>1. screen \in [allowed : SUBSET Actions, auth : Kinds]
    BY DEF Kinds
  <2>2. execution \in Executions /\ inbox \in Seq(Messages) /\ td \in AuthStates
    BY IdleType, EmptySeq DEF AuthStates
  <2>3. /\ generation \in Nat /\ open \subseteq Nat /\ stopping \in BOOLEAN
        /\ asked \subseteq Requests /\ moves \in 0 .. MaxMoves
    <3>1. moves \in 0 .. MaxMoves
      BY ConnectionAssumption
    <3>2. QED
      BY <3>1
  <2>4. closing \in {"none", "opening", "releasing", "done", "rejected"}
    OBVIOUS
  <2> HIDE DEF Init
  <2>5. QED
    BY <1>1, <1>2, <2>1, <2>2, <2>3, <2>4 DEF TypeOK
<1>4. ClientInv
  BY <1>2, IdleType DEF ClientInv
<1>5. SafetyInv
  BY <1>4, IdleType DEF SafetyInv, RestartInv, CloseInv, ScreenTellsTheTruth
<1>6. Range(inbox) = {}
  BY DEF Range
<1>7. ParametersInv
  BY <1>2, <1>6 DEF ParametersInv
<1>8. QED
  BY <1>3, <1>5, <1>7

\* Which client may be open, what a restart needs, what close() leaves, what the
\* user sees and when TDLib has its parameters are together inductive.
THEOREM Invariance == Spec => []IInv
<1>1. Init => IInv
  BY InitFacts DEF IInv, SafetyInv
<1>2. IInv /\ [Next]_vars => IInv'
  BY SafetyStep, ParametersStep DEF IInv, SafetyInv
<1>3. QED
  BY <1>1, <1>2, PTL DEF Spec

\* The fields of the connection keep their types.
THEOREM TypeCorrect == Spec => []TypeOK
<1>1. IInv => TypeOK
  BY DEF IInv
<1>2. QED
  BY <1>1, Invariance, PTL

\* Whatever crosses - failures, logouts, releases that reject, restarts,
\* close() - there is one client at most, a restart is offered only when none
\* is left, and none is after close().
THEOREM OneClient == Spec => []NoSecondClient
<1>1. IInv => NoSecondClient
  <2> SUFFICES ASSUME IInv PROVE NoSecondClient
    OBVIOUS
  <2>1. "restart" \in allowed => open = {}
    BY DEF IInv, ClientInv
  <2>2. closing = "done" => open = {}
    BY DEF IInv, CloseInv
  <2>3. Cardinality(open) <= 1
    <3>1. open = {} \/ open = {boot.generation}
      BY DEF IInv, ClientInv
    <3>2. QED
      BY <3>1, FS_EmptySet, FS_Singleton
  <2>4. QED
    BY <2>1, <2>2, <2>3 DEF NoSecondClient
<1>2. QED
  BY <1>1, Invariance, PTL

\* A snapshot with the current version is what the server would show now.
THEOREM TruthfulScreen == Spec => []ScreenTellsTheTruth
<1>1. IInv => ScreenTellsTheTruth
  BY DEF IInv
<1>2. QED
  BY <1>1, Invariance, PTL

\* A command fails under a logout only when the client does.
LEMMA LogoutStep ==
  ASSUME TypeOK, ClientInv, ParametersInv, [Next]_vars,
         Pending, auth = "logging_out", op'.status = "failed"
  PROVE  client' = "failed"
<1>1. op' # op
  BY DEF Pending
<1>2. ASSUME NEW left, NEW ops, Boot(left, ops) PROVE FALSE
  <2>1. "initializing" \in Kinds /\ SetAuthorization("initializing", ops)
    BY <1>2 DEF Boot, Kinds
  <2>2. op'.status = "failed" => op.status = "failed"
    BY <2>1, SetAuthorizationFacts DEF TypeOK
  <2>3. QED
    BY <2>2 DEF Pending
<1>3. CASE StartDone \/ ConnectionUpdate \/ Look \/ CoolingEnds \/ Close \/ Opened
  BY <1>1, <1>3 DEF viewVars, StartDone, ConnectionUpdate, Look, CoolingEnds, Close, Opened
<1>3a. CASE \/ \E request \in Requests : TdGrants(request) \/ TdRefuses(request)
            \/ TdMoves \/ TdCloses
  BY <1>1, <1>3a DEF viewVars, TdGrants, TdRefuses, TdMoves, TdCloses
<1>4. CASE Start \/ Execute \/ Released
  BY <1>1, <1>2, <1>4 DEF Start, Execute, Released, viewVars
<1>5. CASE StartFails \/ ClientFails
  BY <1>5, FailFacts DEF StartFails, ClientFails, Codes
<1>6. CASE Silenced
  BY <1>1, <1>6, FailFacts DEF Silenced, Codes, Unmoved, viewVars
<1>7. CASE ParametersAnswered
  <2>1. inbox # <<>> /\ Head(inbox).kind = "parameters" /\ Head(inbox).value = "error"
    BY <1>1, <1>7 DEF ParametersAnswered, Answered, Unmoved, viewVars
  <2>2. Head(inbox) \in Range(inbox)
    BY <2>1, InboxFacts
  <2>3. QED
    BY <2>1, <2>2 DEF ParametersInv
<1>8. CASE AuthorizationUpdate
  <2>1. Authorized(Head(inbox).value, {}) /\ inbox # <<>> /\ Head(inbox).kind = "auth"
    BY <1>1, <1>8 DEF AuthorizationUpdate, Unmoved, viewVars
  <2>2. Head(inbox).value \in AuthStates
    BY <2>1, InboxFacts DEF Messages, Requests
  <2>3. QED
    BY <2>1, <2>2, AuthorizedFacts
<1>9. CASE AuthorizationAnswered
  <2> DEFINE value == Head(inbox).value
  <2>1. inbox # <<>> /\ Head(inbox).kind = "getAuthorizationState"
    BY <1>9 DEF AuthorizationAnswered, Answered
  <2>2. value \in AuthStates \cup {"error"}
    BY <2>1, InboxFacts DEF Messages
  <2>3. CASE value = "error"
    BY <1>9, <2>3, FailFacts DEF AuthorizationAnswered, Codes
  <2>4. CASE value # "error" /\ boot.moved
    <3>1. SetAuthorization(auth, {"restart"}) /\ auth \in Kinds
      BY <1>1, <1>9, <2>4 DEF AuthorizationAnswered, viewVars, TypeOK, ViewOK
    <3>2. op'.status = "failed" => op.status = "failed"
      BY <3>1, SetAuthorizationFacts DEF TypeOK
    <3>3. QED
      BY <3>2 DEF Pending
  <2>5. CASE value # "error" /\ ~boot.moved
    BY <1>9, <2>2, <2>5, AuthorizedFacts DEF AuthorizationAnswered
  <2>6. QED
    BY <2>3, <2>4, <2>5
<1>10. CASE CommandAnswered
  BY <1>1, <1>10 DEF CommandAnswered, Refused, viewVars
<1>11. CASE NotReleased
  BY <1>1, <1>11 DEF NotReleased, viewVars
<1>12. ASSUME NEW action \in Actions, Accept(action) PROVE FALSE
  BY <1>12 DEF Accept
<1>13. CASE UNCHANGED vars
  BY <1>1, <1>13 DEF vars, viewVars
<1>14. ASSUME Next PROVE client' = "failed"
  <2>1. CASE Hear
    BY <1>3, <1>6, <1>7, <1>8, <1>9, <1>10, <2>1 DEF Hear
  <2>2. CASE \E action \in Actions : Accept(action)
    BY <1>12, <2>2
  <2>3. QED
    BY <1>3, <1>4, <1>5, <1>11, <1>3a, <1>14, <2>1, <2>2 DEF Next
<1>15. QED
  BY <1>13, <1>14

\* A logout that TDLib has announced is not turned into a failed command by a
\* late answer, of the command or of the parameters; only its client's loss is.
THEOREM LogoutsStand == Spec => LogoutIsAuthoritative
<1>1. IInv /\ [Next]_vars =>
        [Pending /\ auth = "logging_out" /\ op'.status = "failed" => client' = "failed"]_vars
  BY LogoutStep DEF IInv
<1>2. QED
  BY <1>1, Invariance, PTL DEF Spec, LogoutIsAuthoritative
=============================================================================
