------------------------- MODULE TdlibClientProofs -------------------------
(***************************************************************************)
(* Theorems about TdlibClient.tla, for any clients, calls, queue sizes and *)
(* number of failures: the types, no call left behind, no gap in the       *)
(* updates a handler sees, and the release of the native clients.  The     *)
(* invariant is proved part by part: the updates (NoGap, SeenInv), the     *)
(* state of a client (StateInv, NoCallLeftBehind) and the messages under   *)
(* way (WireInv).                                                          *)
(*                                                                         *)
(* The second part shows that the clients are a client service             *)
(* (ClientService.tla): each step is, for each of them, a step of the      *)
(* service or a stutter, and for all but one usually the latter.           *)
(***************************************************************************)
EXTENDS ClientImplementsService, SequenceTheorems, TLAPS

-----------------------------------------------------------------------------
(* Sequences *)

\* Adding a message at the end.
LEMMA AppendRange ==
  ASSUME NEW S, NEW s \in Seq(S), NEW e \in S
  PROVE  Range(Append(s, e)) = Range(s) \cup {e}
<1> DEFINE r == Append(s, e)
<1>1. /\ Len(s) \in Nat /\ DOMAIN s = 1 .. Len(s)
      /\ r \in Seq(S) /\ Len(r) = Len(s) + 1
      /\ \A k \in 1 .. Len(s) : r[k] = s[k]
      /\ r[Len(s) + 1] = e
  BY LenProperties, AppendProperties
<1>2. DOMAIN r = 1 .. (Len(s) + 1)
  BY <1>1, LenProperties
<1> HIDE DEF r
<1>3. Range(r) \subseteq Range(s) \cup {e}
  BY <1>1, <1>2 DEF Range
<1>4. Range(s) \cup {e} \subseteq Range(r)
  BY <1>1, <1>2 DEF Range
<1>5. QED
  BY <1>3, <1>4 DEF r

\* Taking the first message.
LEMMA TailRange ==
  ASSUME NEW S, NEW s \in Seq(S), s # <<>>
  PROVE  /\ Head(s) \in S /\ Head(s) \in Range(s)
         /\ Tail(s) \in Seq(S) /\ Range(Tail(s)) \subseteq Range(s)
<1> DEFINE r == Tail(s)
<1>1. /\ Len(s) \in Nat /\ Len(s) > 0 /\ DOMAIN s = 1 .. Len(s)
      /\ Head(s) = s[1]
  BY LenProperties, EmptySeq
<1>2. /\ r \in Seq(S) /\ Len(r) = Len(s) - 1
      /\ \A k \in 1 .. Len(r) : r[k] = s[k + 1]
      /\ Head(s) \in S
  BY HeadTailProperties
<1>3. DOMAIN r = 1 .. (Len(s) - 1)
  BY <1>2, LenProperties
<1> HIDE DEF r
<1>4. QED
  BY <1>1, <1>2, <1>3 DEF r, Range

\* Consecutive numbers, as a sequence.
LEMMA CountIsSeq ==
  ASSUME NEW s \in Nat, NEW n \in Nat
  PROVE  /\ [i \in 1 .. n |-> s + i] \in Seq(Nat)
         /\ Len([i \in 1 .. n |-> s + i]) = n
  OBVIOUS

\* They are what NoGap asks of a queue.
Dense(q, s, a) == q = [i \in 1 .. a - s |-> s + i]

\* The next number goes to their end.
LEMMA CountAppend ==
  ASSUME NEW s \in Nat, NEW a \in Nat, s <= a
  PROVE  Append([i \in 1 .. a - s |-> s + i], a + 1) = [i \in 1 .. (a + 1) - s |-> s + i]
<1> DEFINE q == [i \in 1 .. a - s |-> s + i]
           r == [i \in 1 .. (a + 1) - s |-> s + i]
<1>1. a - s \in Nat /\ (a + 1) - s \in Nat /\ a + 1 \in Nat /\ (a + 1) - s = (a - s) + 1
  OBVIOUS
<1>2. q \in Seq(Nat) /\ Len(q) = a - s /\ \A i \in 1 .. a - s : q[i] = s + i
  BY <1>1, CountIsSeq
<1>3. r \in Seq(Nat) /\ Len(r) = (a - s) + 1 /\ \A i \in 1 .. (a - s) + 1 : r[i] = s + i
  BY <1>1, CountIsSeq
<1> HIDE DEF q, r
<1>4. /\ Append(q, a + 1) \in Seq(Nat) /\ Len(Append(q, a + 1)) = Len(q) + 1
      /\ \A i \in 1 .. Len(q) : Append(q, a + 1)[i] = q[i]
      /\ Append(q, a + 1)[Len(q) + 1] = a + 1
  BY <1>1, <1>2, AppendProperties
<1>5. \A i \in 1 .. Len(r) : Append(q, a + 1)[i] = r[i]
  BY <1>1, <1>2, <1>3, <1>4
<1>6. Append(q, a + 1) = r
  BY <1>1, <1>2, <1>3, <1>4, <1>5, SeqEqual
<1>7. QED
  BY <1>6 DEF q, r

\* The first of them is taken.
LEMMA CountTail ==
  ASSUME NEW s \in Nat, NEW a \in Nat, s < a
  PROVE  /\ Head([i \in 1 .. a - s |-> s + i]) = s + 1
         /\ Tail([i \in 1 .. a - s |-> s + i]) = [i \in 1 .. a - (s + 1) |-> (s + 1) + i]
<1> DEFINE q == [i \in 1 .. a - s |-> s + i]
           r == [i \in 1 .. a - (s + 1) |-> (s + 1) + i]
<1>1. a - s \in Nat /\ a - (s + 1) \in Nat /\ s + 1 \in Nat /\ a - s = (a - (s + 1)) + 1
  OBVIOUS
<1>2. q \in Seq(Nat) /\ Len(q) = a - s /\ \A i \in 1 .. a - s : q[i] = s + i
  BY <1>1, CountIsSeq
<1>3. r \in Seq(Nat) /\ Len(r) = a - (s + 1) /\ \A i \in 1 .. a - (s + 1) : r[i] = (s + 1) + i
  BY <1>1, CountIsSeq
<1> HIDE DEF q, r
<1>4. q # <<>>
  BY <1>1, <1>2, EmptySeq
<1>5. /\ Tail(q) \in Seq(Nat) /\ Len(Tail(q)) = Len(q) - 1
      /\ \A i \in 1 .. Len(Tail(q)) : Tail(q)[i] = q[i + 1]
      /\ Head(q) = q[1]
  BY <1>2, <1>4, HeadTailProperties
<1>6. \A i \in 1 .. Len(r) : Tail(q)[i] = r[i]
  BY <1>1, <1>2, <1>3, <1>5
<1>7. Tail(q) = r
  <2>1. Len(Tail(q)) = Len(r)
    BY <1>1, <1>2, <1>3, <1>5
  <2>2. QED
    BY <1>3, <1>5, <1>6, <2>1, SeqEqual
<1>8. Head(q) = s + 1
  BY <1>1, <1>2, <1>5
<1>9. QED
  BY <1>7, <1>8 DEF q, r

\* None, if all have been taken.
LEMMA CountNone ==
  ASSUME NEW s \in Nat, NEW a \in Nat, s <= a
  PROVE  [i \in 1 .. a - s |-> s + i] = <<>> <=> s = a
<1> DEFINE q == [i \in 1 .. a - s |-> s + i]
<1>1. a - s \in Nat /\ q \in Seq(Nat) /\ Len(q) = a - s
  BY CountIsSeq
<1> HIDE DEF q
<1>2. q = <<>> <=> Len(q) = 0
  BY <1>1, EmptySeq
<1>3. QED
  BY <1>1, <1>2 DEF q

\* A message sent while there is none like it is there once.
LEMMA OnceAppend ==
  ASSUME NEW S, NEW s \in Seq(S), NEW e \in S, NEW m, OnceIn(s, m),
         e = m => m \notin Range(s)
  PROVE  OnceIn(Append(s, e), m)
<1> DEFINE r == Append(s, e)
<1>1. /\ Len(s) \in Nat /\ DOMAIN s = 1..Len(s)
      /\ r \in Seq(S) /\ Len(r) = Len(s) + 1
      /\ \A k \in 1..Len(s) : r[k] = s[k]
      /\ r[Len(s) + 1] = e
  BY LenProperties, AppendProperties
<1>2. DOMAIN r = 1..(Len(s) + 1)
  BY <1>1, LenProperties
<1> HIDE DEF r
<1>3. ASSUME NEW i \in DOMAIN r, NEW j \in DOMAIN r, r[i] = m, r[j] = m
      PROVE  i = j
  <2>1. CASE i \in DOMAIN s /\ j \in DOMAIN s
    BY <1>1, <1>3, <2>1 DEF OnceIn
  <2>2. CASE i \in DOMAIN s /\ j \notin DOMAIN s
    BY <1>1, <1>2, <1>3, <2>2 DEF Range
  <2>3. CASE i \notin DOMAIN s /\ j \in DOMAIN s
    BY <1>1, <1>2, <1>3, <2>3 DEF Range
  <2>4. CASE i \notin DOMAIN s /\ j \notin DOMAIN s
    BY <1>1, <1>2, <2>4
  <2>5. QED
    BY <2>1, <2>2, <2>3, <2>4
<1>4. QED
  BY <1>3 DEF r, OnceIn

\* Once it has been taken, there is none.
LEMMA OnceTail ==
  ASSUME NEW S, NEW s \in Seq(S), s # <<>>, NEW m, OnceIn(s, m)
  PROVE  /\ OnceIn(Tail(s), m)
         /\ Head(s) = m => m \notin Range(Tail(s))
<1> DEFINE r == Tail(s)
<1>1. /\ Len(s) \in Nat /\ Len(s) > 0 /\ DOMAIN s = 1..Len(s)
      /\ Head(s) = s[1]
  BY LenProperties, EmptySeq
<1>2. /\ r \in Seq(S) /\ Len(r) = Len(s) - 1
      /\ \A k \in 1..Len(r) : r[k] = s[k + 1]
  BY HeadTailProperties
<1>3. DOMAIN r = 1..(Len(s) - 1)
  BY <1>2, LenProperties
<1> HIDE DEF r
<1>4. \A i \in DOMAIN r : r[i] = s[i + 1] /\ i + 1 \in DOMAIN s /\ i \in Nat
  BY <1>1, <1>2, <1>3
<1>5. ASSUME NEW i \in DOMAIN r, NEW j \in DOMAIN r, r[i] = m, r[j] = m
      PROVE  i = j
  <2>1. i + 1 = j + 1
    BY <1>4, <1>5 DEF OnceIn
  <2>2. QED
    BY <1>4, <2>1
<1>6. ASSUME Head(s) = m, NEW i \in DOMAIN r PROVE r[i] # m
  <2>1. 1 \in DOMAIN s /\ i + 1 # 1
    BY <1>1, <1>4
  <2>2. QED
    BY <1>1, <1>4, <1>6, <2>1 DEF OnceIn
<1>7. QED
  BY <1>5, <1>6 DEF r, OnceIn, Range

\* Nor does it come with messages of another kind.
LEMMA OnceConcat ==
  ASSUME NEW S, NEW s \in Seq(S), NEW t \in Seq(S), NEW m, OnceIn(s, m),
         m \notin Range(t)
  PROVE  OnceIn(s \o t, m)
<1> DEFINE r == s \o t
<1>1. /\ r \in Seq(S) /\ Len(r) = Len(s) + Len(t)
      /\ \A i \in 1 .. Len(s) : r[i] = s[i]
      /\ \A i \in 1 .. Len(t) : r[i + Len(s)] = t[i]
  BY ConcatProperties
<1>2. /\ Len(s) \in Nat /\ DOMAIN s = 1 .. Len(s)
      /\ Len(t) \in Nat /\ DOMAIN t = 1 .. Len(t)
      /\ DOMAIN r = 1 .. Len(r)
  BY <1>1, LenProperties
<1> HIDE DEF r
<1>3. ASSUME NEW i \in DOMAIN r, r[i] = m PROVE i \in DOMAIN s /\ s[i] = m
  <2>1. CASE i <= Len(s)
    BY <1>1, <1>2, <1>3, <2>1
  <2>2. CASE i > Len(s)
    <3>1. i - Len(s) \in 1 .. Len(t) /\ (i - Len(s)) + Len(s) = i
      BY <1>1, <1>2, <2>2
    <3>2. t[i - Len(s)] = m
      BY <1>1, <1>3, <3>1
    <3>3. QED
      BY <1>2, <3>1, <3>2 DEF Range
  <2>3. QED
    BY <1>1, <1>2, <2>1, <2>2
<1>4. QED
  BY <1>3 DEF r, OnceIn

-----------------------------------------------------------------------------
(* Messages *)

\* What is sent has the type of its port.
LEMMA MessageTypes ==
  /\ \A c \in Clients : Message("init", c) \in ToWorker /\ Message("destroy", c) \in ToWorker
  /\ \A c \in Clients, q \in Requests : [kind |-> "send", client |-> c, call |-> q] \in ToWorker
  /\ \A k \in {"ready", "update", "fatal", "destroyed"}, c \in Clients : Message(k, c) \in ToMain
  /\ \A c \in Clients, q \in Requests : [kind |-> "response", client |-> c, call |-> q] \in ToMain
  BY DEF Message, ToWorker, ToMain, Requests

\* Both ports, and the places that grow with a message.
LEMMA PortTypes ==
  ASSUME TypeOK
  PROVE  /\ toMain # <<>> => /\ Head(toMain) \in ToMain /\ Tail(toMain) \in Seq(ToMain)
                             /\ Head(toMain).client \in Clients
                             /\ Head(toMain).call \in Requests
         /\ toWorker # <<>> => /\ Head(toWorker) \in ToWorker /\ Tail(toWorker) \in Seq(ToWorker)
                               /\ Head(toWorker).client \in Clients
                               /\ Head(toWorker).call \in Requests
         /\ \A m \in ToMain : Append(toMain, m) \in Seq(ToMain)
         /\ \A m \in ToWorker : Append(toWorker, m) \in Seq(ToWorker)
<1>1. toMain \in Seq(ToMain) /\ toWorker \in Seq(ToWorker)
  BY DEF TypeOK
<1>2. \A m \in ToMain : Append(toMain, m) \in Seq(ToMain)
  BY <1>1, AppendProperties
<1>3. \A m \in ToWorker : Append(toWorker, m) \in Seq(ToWorker)
  BY <1>1, AppendProperties
<1>4. toMain # <<>> => Head(toMain) \in ToMain /\ Tail(toMain) \in Seq(ToMain)
  BY <1>1, HeadTailProperties
<1>5. toWorker # <<>> => Head(toWorker) \in ToWorker /\ Tail(toWorker) \in Seq(ToWorker)
  BY <1>1, HeadTailProperties
<1>6. QED
  BY <1>2, <1>3, <1>4, <1>5 DEF ToMain, ToWorker

\* The requests of a client that fails to be destroyed, once or twice.
LEMMA DestroyTwice ==
  ASSUME TypeOK, NEW c \in Clients, NEW n \in {1, 2}
  PROVE  /\ [i \in 1 .. n |-> Message("destroy", c)] \in Seq(ToWorker)
         /\ toWorker \o [i \in 1 .. n |-> Message("destroy", c)] \in Seq(ToWorker)
         /\ Range([i \in 1 .. n |-> Message("destroy", c)]) = {Message("destroy", c)}
         /\ \A m \in Range(toWorker \o [i \in 1 .. n |-> Message("destroy", c)]) :
              m \in Range(toWorker) \/ m = Message("destroy", c)
<1> DEFINE d == Message("destroy", c)
           t == [i \in 1 .. n |-> d]
<1>1. d \in ToWorker /\ toWorker \in Seq(ToWorker) /\ n \in Nat /\ 1 \in 1 .. n
  BY MessageTypes DEF TypeOK
<1> HIDE DEF d
<1>2. t \in Seq(ToWorker)
  BY <1>1
<1>3. Range(t) = {d}
  BY <1>1 DEF Range
<1> HIDE DEF t
<1>4. /\ toWorker \o t \in Seq(ToWorker)
      /\ \A m \in Range(toWorker \o t) : m \in Range(toWorker) \cup Range(t)
  BY <1>1, <1>2, ConcatProperties, RangeConcatenation
<1>5. QED
  BY <1>2, <1>3, <1>4 DEF t, d

-----------------------------------------------------------------------------
(* Updates *)

\* What an update, the end of a handler and the death of the worker do to the
\* subscriptions.
UpdatesOK == TypeOK /\ SeenInv /\ NoGap

Kept ==
  /\ active' \subseteq Clients /\ processing' \subseteq Clients
  /\ arrived' \in [Clients -> Nat] /\ seen' \in [Clients -> Nat]
  /\ queue' \in [Clients -> Seq(Nat)]
  /\ \A c \in Clients : Len(queue'[c]) <= MaxQueueSize
  /\ SeenInv' /\ NoGap'

\* NoGap, in terms of Dense.
LEMMA NoGapIsDense ==
  /\ NoGap <=> \A c \in active : /\ Dense(queue[c], seen[c], arrived[c])
                                 /\ queue[c] # <<>> => c \in processing
  /\ NoGap' <=> \A c \in active' : /\ Dense(queue'[c], seen'[c], arrived'[c])
                                   /\ queue'[c] # <<>> => c \in processing'
  BY DEF NoGap, Dense

\* The subscriptions of S end, whose handlers may end with them.
LEMMA UnsubscribedKept ==
  ASSUME UpdatesOK, NEW S, Unsubscribed(S),
         processing' \in {processing, processing \ S}
  PROVE  Kept
<1>1. /\ active' = active \ S /\ processing' \subseteq processing
      /\ \A c \in active' : /\ c \in Clients /\ queue'[c] = queue[c] /\ arrived'[c] = arrived[c]
                            /\ seen'[c] = seen[c]
                            /\ c \in processing => c \in processing'
  BY DEF UpdatesOK, TypeOK, Unsubscribed
<1>2. <<>> \in Seq(Nat) /\ Len(<<>>) <= MaxQueueSize /\ 0 \in Nat
  BY EmptySeq, TdlibAssumption
<1>3. arrived' \in [Clients -> Nat] /\ seen' \in [Clients -> Nat]
  BY <1>2 DEF UpdatesOK, TypeOK, Unsubscribed
<1>4. queue' \in [Clients -> Seq(Nat)]
  BY <1>2 DEF UpdatesOK, TypeOK, Unsubscribed
<1>5. \A c \in Clients : Len(queue'[c]) <= MaxQueueSize
  BY <1>2 DEF UpdatesOK, TypeOK, Unsubscribed
<1>6. SeenInv'
  BY <1>1 DEF UpdatesOK, SeenInv
<1>7. NoGap'
  BY <1>1, NoGapIsDense DEF UpdatesOK
<1>8. QED
  BY <1>1, <1>3, <1>4, <1>5, <1>6, <1>7 DEF Kept, UpdatesOK, TypeOK

\* An update reaches a subscription whose queue has room.
LEMMA QueuedKept ==
  ASSUME UpdatesOK, NEW c \in active, Len(queue[c]) # MaxQueueSize, Queued(c)
  PROVE  Kept
<1>1. /\ c \in Clients /\ arrived[c] \in Nat /\ seen[c] \in Nat /\ seen[c] <= arrived[c]
      /\ queue[c] \in Seq(Nat) /\ Len(queue[c]) \in Nat /\ Len(queue[c]) + 1 <= MaxQueueSize
      /\ Dense(queue[c], seen[c], arrived[c])
      /\ queue[c] # <<>> => c \in processing
  <2>1. c \in Clients /\ queue[c] \in Seq(Nat) /\ Len(queue[c]) <= MaxQueueSize
    BY DEF UpdatesOK, TypeOK
  <2>2. Len(queue[c]) \in Nat /\ Len(queue[c]) + 1 <= MaxQueueSize
    BY <2>1, LenProperties, TdlibAssumption
  <2>3. QED
    BY <2>1, <2>2, NoGapIsDense DEF UpdatesOK, TypeOK, SeenInv
<1>2. /\ arrived' = [arrived EXCEPT ![c] = @ + 1] /\ active' = active
      /\ arrived'[c] = arrived[c] + 1 /\ arrived[c] + 1 \in Nat
      /\ arrived' \in [Clients -> Nat]
  BY <1>1 DEF Queued, UpdatesOK, TypeOK
<1>3. CASE c \in processing
  <2>1. /\ queue' = [queue EXCEPT ![c] = Append(queue[c], arrived[c] + 1)]
        /\ processing' = processing /\ seen' = seen
    BY <1>2, <1>3 DEF Queued
  <2>2. /\ Append(queue[c], arrived[c] + 1) \in Seq(Nat)
        /\ Len(Append(queue[c], arrived[c] + 1)) <= MaxQueueSize
    BY <1>1, <1>2, AppendProperties
  <2>3. /\ queue' \in [Clients -> Seq(Nat)]
        /\ queue'[c] = Append(queue[c], arrived[c] + 1)
        /\ \A d \in Clients : d # c => queue'[d] = queue[d] /\ arrived'[d] = arrived[d]
    BY <1>1, <1>2, <2>1, <2>2 DEF UpdatesOK, TypeOK
  <2>4. \A d \in Clients : Len(queue'[d]) <= MaxQueueSize
    BY <2>2, <2>3 DEF UpdatesOK, TypeOK
  <2>5. SeenInv'
    BY <1>1, <1>2, <2>1, <2>3 DEF UpdatesOK, TypeOK, SeenInv
  <2>6. Dense(queue'[c], seen'[c], arrived'[c])
    BY <1>1, <1>2, <2>1, <2>3, CountAppend DEF Dense
  <2>7. NoGap'
    BY <1>2, <1>3, <2>1, <2>3, <2>6, NoGapIsDense DEF UpdatesOK, TypeOK
  <2>8. QED
    BY <1>2, <2>1, <2>3, <2>4, <2>5, <2>7 DEF Kept, UpdatesOK, TypeOK
<1>4. CASE c \notin processing
  <2>1. /\ queue' = queue /\ processing' = processing \cup {c}
        /\ seen' = [seen EXCEPT ![c] = arrived[c] + 1]
        /\ seen'[c] = arrived[c] + 1 /\ seen' \in [Clients -> Nat]
    <3>1. /\ queue' = queue /\ processing' = processing \cup {c}
          /\ seen' = [seen EXCEPT ![c] = arrived[c] + 1]
      BY <1>2, <1>4 DEF Queued
    <3>2. QED
      BY <1>1, <1>2, <3>1 DEF UpdatesOK, TypeOK
  <2>2. \A d \in Clients : d # c => seen'[d] = seen[d] /\ arrived'[d] = arrived[d]
    BY <1>2, <2>1 DEF UpdatesOK, TypeOK
  <2>3. SeenInv'
    BY <1>1, <1>2, <2>1, <2>2 DEF UpdatesOK, TypeOK, SeenInv
  <2>4. Dense(queue'[c], seen'[c], arrived'[c]) /\ queue'[c] = <<>>
    <3>1. queue[c] = <<>> /\ arrived[c] + 1 <= arrived[c] + 1
      BY <1>1, <1>4
    <3>2. [i \in 1 .. (arrived[c] + 1) - (arrived[c] + 1) |-> (arrived[c] + 1) + i] = <<>>
      BY <1>2, <3>1, CountNone
    <3>3. QED
      BY <1>2, <2>1, <3>1, <3>2 DEF Dense
  <2>5. NoGap'
    BY <1>2, <2>1, <2>2, <2>4, NoGapIsDense DEF UpdatesOK, TypeOK
  <2>6. QED
    BY <1>1, <1>2, <2>1, <2>3, <2>5 DEF Kept, UpdatesOK, TypeOK
<1>5. QED
  BY <1>3, <1>4

\* An update that arrives.
LEMMA UpdateKept ==
  ASSUME UpdatesOK, NEW c \in Clients, Update(c)
  PROVE  Kept
<1>1. CASE c \notin active
  BY <1>1 DEF Update, updateVars, Kept, UpdatesOK, TypeOK, SeenInv, NoGap
<1>2. CASE c \in active /\ Len(queue[c]) = MaxQueueSize
  BY <1>2, UnsubscribedKept DEF Update
<1>3. CASE c \in active /\ Len(queue[c]) # MaxQueueSize
  BY <1>3, QueuedKept DEF Update
<1>4. QED
  BY <1>1, <1>2, <1>3

\* The handler ends and is given the next update, if there is one.
LEMMA HandlerKept ==
  ASSUME UpdatesOK, NEW c \in Clients, NEW ok \in BOOLEAN, HandlerEnds(c, ok)
  PROVE  Kept
<1>1. CASE ok /\ queue[c] # <<>>
  <2>1. /\ seen' = [seen EXCEPT ![c] = Head(queue[c])]
        /\ queue' = [queue EXCEPT ![c] = Tail(queue[c])]
        /\ arrived' = arrived /\ active' = active /\ processing' = processing
        /\ c \in processing /\ queue[c] \in Seq(Nat) /\ Len(queue[c]) <= MaxQueueSize
    BY <1>1 DEF HandlerEnds, UpdatesOK, TypeOK
  <2>2. /\ Head(queue[c]) \in Nat /\ Tail(queue[c]) \in Seq(Nat)
        /\ Len(Tail(queue[c])) <= MaxQueueSize
    <3>1. /\ Head(queue[c]) \in Nat /\ Tail(queue[c]) \in Seq(Nat)
          /\ Len(Tail(queue[c])) = Len(queue[c]) - 1 /\ Len(queue[c]) \in Nat
      BY <1>1, <2>1, HeadTailProperties, LenProperties
    <3>2. QED
      BY <2>1, <3>1, TdlibAssumption
  <2>3. seen' \in [Clients -> Nat] /\ seen'[c] = Head(queue[c])
    BY <2>1, <2>2 DEF UpdatesOK, TypeOK
  <2>4. queue' \in [Clients -> Seq(Nat)] /\ queue'[c] = Tail(queue[c])
    BY <2>1, <2>2 DEF UpdatesOK, TypeOK
  <2>5. \A d \in Clients : d # c => seen'[d] = seen[d] /\ queue'[d] = queue[d]
    BY <2>1 DEF UpdatesOK, TypeOK
  <2>6. \A d \in Clients : Len(queue'[d]) <= MaxQueueSize
    BY <2>2, <2>4, <2>5 DEF UpdatesOK, TypeOK
  <2>7. ASSUME c \in active
        PROVE  /\ seen'[c] <= arrived'[c]
               /\ Dense(queue'[c], seen'[c], arrived'[c])
    <3>1. /\ arrived[c] \in Nat /\ seen[c] \in Nat /\ seen[c] <= arrived[c]
          /\ Dense(queue[c], seen[c], arrived[c])
      BY <2>7, NoGapIsDense DEF UpdatesOK, TypeOK, SeenInv
    <3>2. seen[c] # arrived[c]
      BY <1>1, <3>1, CountNone DEF Dense
    <3>3. seen[c] < arrived[c]
      BY <3>1, <3>2
    <3>4. /\ Head(queue[c]) = seen[c] + 1
          /\ Dense(Tail(queue[c]), seen[c] + 1, arrived[c])
      BY <3>1, <3>3, CountTail DEF Dense
    <3>5. QED
      BY <2>1, <2>3, <2>4, <3>1, <3>3, <3>4
  <2>8. SeenInv'
    BY <2>1, <2>5, <2>7 DEF UpdatesOK, TypeOK, SeenInv
  <2>9. NoGap'
    BY <2>1, <2>5, <2>7, NoGapIsDense DEF UpdatesOK, TypeOK
  <2>10. QED
    BY <2>1, <2>3, <2>4, <2>6, <2>8, <2>9 DEF Kept, UpdatesOK, TypeOK
<1>2. CASE ok /\ queue[c] = <<>>
  <2>1. /\ active' = active /\ processing' = processing \ {c}
        /\ Unsubscribed({})
    BY <1>2 DEF HandlerEnds, Unsubscribed
  <2>2. /\ queue' = queue /\ arrived' = arrived /\ seen' = seen
    BY <2>1 DEF Unsubscribed, UpdatesOK, TypeOK
  <2>3. NoGap'
    BY <1>2, <2>1, <2>2, NoGapIsDense DEF UpdatesOK
  <2>4. QED
    BY <2>1, <2>2, <2>3 DEF Kept, UpdatesOK, TypeOK, SeenInv
<1>3. CASE ~ok
  BY <1>3, UnsubscribedKept DEF HandlerEnds
<1>4. QED
  BY <1>1, <1>2, <1>3

\* Other steps leave the subscriptions alone.
LEMMA RestedKept ==
  ASSUME UpdatesOK, UNCHANGED updateVars
  PROVE  Kept
<1>1. UNCHANGED <<arrived, active, queue, processing, seen>>
  BY DEF updateVars
<1>2. SeenInv' /\ NoGap'
  BY <1>1, NoGapIsDense DEF UpdatesOK, SeenInv
<1>3. QED
  BY <1>1, <1>2 DEF Kept, UpdatesOK, TypeOK

LEMMA UpdatesStep == UpdatesOK /\ [Next]_vars => Kept
<1> SUFFICES ASSUME UpdatesOK, [Next]_vars PROVE Kept
  OBVIOUS
<1>1. ASSUME NEW c \in Clients,
             \/ Start(c) \/ Verified(c) \/ NotVerified(c) \/ Close(c) \/ Sends(c) \/ Breaks(c)
             \/ \E q \in Calls : Invoke(c, q) \/ Abort(c, q)
      PROVE  Kept
  BY <1>1, RestedKept DEF Start, Verified, NotVerified, Close, Sends, Breaks, Invoke, Abort
<1>2. ASSUME NEW c \in Clients, Unsubscribe(c) PROVE Kept
  BY <1>2, UnsubscribedKept DEF Unsubscribe
<1>3. ASSUME NEW c \in Clients, NEW ok \in BOOLEAN, HandlerEnds(c, ok) PROVE Kept
  BY <1>3, HandlerKept
<1>4. CASE MainTakes
  <2>1. Head(toMain).client \in Clients
    BY <1>4, PortTypes DEF MainTakes, UpdatesOK
  <2>2. CASE UNCHANGED updateVars
    BY <2>2, RestedKept
  <2>3. CASE Destroyed(Head(toMain).client) /\ UNCHANGED <<made, processing>>
    BY <2>3, UnsubscribedKept DEF Destroyed
  <2>4. CASE Update(Head(toMain).client)
    BY <2>1, <2>4, UpdateKept
  <2>5. QED
    BY <1>4, <2>2, <2>3, <2>4 DEF MainTakes
<1>5. CASE Worker
  BY <1>5, RestedKept DEF Worker, WorkerTakes, Answer
<1>6. CASE WorkerDies
  BY <1>6, UnsubscribedKept DEF WorkerDies
<1>7. CASE UNCHANGED vars
  BY <1>7, RestedKept DEF vars
<1>8. QED
  BY <1>1, <1>2, <1>3, <1>4, <1>5, <1>6, <1>7 DEF Next

-----------------------------------------------------------------------------
(* Types *)

\* The types of what Kept is not about.
OtherTypes ==
  /\ state \in [Clients -> {"created", "started", "closing", "closed", "failed"}]
  /\ start \in [Clients -> {"none", "verifying", "waiting", "undoing", "done", "rejected"}]
  /\ close \in [Clients -> {"none", "asking", "destroying", "awaiting", "done", "rejected"}]
  /\ release \in [Clients -> {"none", "destroying", "done", "rejected"}]
  /\ pending \subseteq Clients \X Requests
  /\ made \subseteq Calls
  /\ registered \subseteq Clients
  /\ waiting \in [Clients -> SUBSET {"start", "close", "release"}]
  /\ alive \in BOOLEAN
  /\ toWorker \in Seq(ToWorker) /\ toMain \in Seq(ToMain)
  /\ native \subseteq Clients
  /\ asked \subseteq Clients \X Requests
  /\ breaks \in 0 .. MaxBreaks

\* A message of the main thread is taken.
LEMMA MainTypes == TypeOK /\ MainTakes => OtherTypes'
<1> SUFFICES ASSUME TypeOK, MainTakes PROVE OtherTypes'
  OBVIOUS
<1> DEFINE m == Head(toMain)
           c == Head(toMain).client
<1>1. /\ c \in Clients /\ m.call \in Requests /\ Tail(toMain) \in Seq(ToMain)
      /\ Append(toWorker, Message("destroy", c)) \in Seq(ToWorker)
      /\ <<>> \in Seq(ToWorker) /\ <<>> \in Seq(ToMain)
      /\ m.kind \in {"ready", "response", "update", "fatal", "destroyed"}
      /\ \A w \in {"start", "close", "release"} :
           waiting[c] \cup {w} \in SUBSET {"start", "close", "release"}
  BY PortTypes, MessageTypes, EmptySeq DEF MainTakes, ToMain, TypeOK
<1>2. CASE c \notin registered
  BY <1>1, <1>2 DEF MainTakes, clientVars, transportVars, OtherTypes, TypeOK
<1>3. CASE c \in registered /\ m.kind = "destroyed"
  <2>1. Destroyed(c) /\ UNCHANGED <<made, breaks>>
    BY <1>3 DEF MainTakes
  <2>2. {} \in SUBSET {"start", "close", "release"}
    OBVIOUS
  <2>3. waiting' \in [Clients -> SUBSET {"start", "close", "release"}]
    BY <1>1, <2>1, <2>2 DEF Destroyed, TypeOK
  <2>4. /\ toWorker' \in Seq(ToWorker) /\ toMain' \in Seq(ToMain) /\ alive' \in BOOLEAN
        /\ native' \subseteq Clients /\ asked' \subseteq Clients \X Requests
    BY <1>1, <2>1 DEF Destroyed, TypeOK
  <2>5. /\ start' \in [Clients -> {"none", "verifying", "waiting", "undoing", "done", "rejected"}]
        /\ state' \in [Clients -> {"created", "started", "closing", "closed", "failed"}]
        /\ release' \in [Clients -> {"none", "destroying", "done", "rejected"}]
        /\ close' \in [Clients -> {"none", "asking", "destroying", "awaiting", "done", "rejected"}]
    BY <1>1, <2>1 DEF Destroyed, TypeOK
  <2>6. pending' \subseteq Clients \X Requests /\ registered' \subseteq Clients
    BY <2>1 DEF Destroyed, Of, TypeOK
  <2>7. QED
    BY <2>1, <2>3, <2>4, <2>5, <2>6 DEF OtherTypes, TypeOK
<1>4. CASE c \in registered /\ m.kind = "update"
  BY <1>1, <1>4 DEF MainTakes, clientVars, transportVars, OtherTypes, TypeOK
<1>5. CASE c \in registered /\ m.kind = "ready"
  <2>1. /\ Ready(c) /\ toMain' = Tail(toMain)
        /\ UNCHANGED <<close, release, pending, registered, made, alive, native, asked, breaks>>
    BY <1>5 DEF MainTakes
  <2>2. /\ waiting' \in {waiting, [waiting EXCEPT ![c] = waiting[c] \cup {"start"}]}
        /\ toWorker' \in {toWorker, Append(toWorker, Message("destroy", c))}
    BY <1>1, <2>1 DEF Ready
  <2>3. /\ start' \in [Clients -> {"none", "verifying", "waiting", "undoing", "done", "rejected"}]
        /\ state' \in [Clients -> {"created", "started", "closing", "closed", "failed"}]
    <3>1. /\ start' \in {[start EXCEPT ![c] = "done"], [start EXCEPT ![c] = "undoing"]}
          /\ state' \in {state, [state EXCEPT ![c] = "started"]}
      BY <2>1 DEF Ready
    <3>2. QED
      BY <1>1, <3>1 DEF TypeOK
  <2>4. waiting' \in [Clients -> SUBSET {"start", "close", "release"}]
    <3>1. waiting \in [Clients -> SUBSET {"start", "close", "release"}]
      BY DEF TypeOK
    <3>2. \A w \in {"start", "close"} : [waiting EXCEPT ![c] = waiting[c] \cup {w}]
                                          \in [Clients -> SUBSET {"start", "close", "release"}]
      BY <1>1, <3>1
    <3>3. QED
      BY <2>2, <3>1, <3>2
  <2>5. toWorker' \in Seq(ToWorker)
    BY <1>1, <2>2 DEF TypeOK
  <2>6. QED
    BY <1>1, <2>1, <2>3, <2>4, <2>5 DEF OtherTypes, TypeOK
<1>6. CASE c \in registered /\ m.kind = "response"
  <2>1. /\ Response(c, m.call) /\ toMain' = Tail(toMain)
        /\ UNCHANGED <<state, start, release, registered, made, alive, native, asked, breaks>>
    BY <1>6 DEF MainTakes
  <2>2. /\ waiting' \in {waiting, [waiting EXCEPT ![c] = waiting[c] \cup {"close"}]}
        /\ toWorker' \in {toWorker, Append(toWorker, Message("destroy", c))}
    BY <1>1, <2>1 DEF Response
  <2>3. /\ close' \in [Clients -> {"none", "asking", "destroying", "awaiting", "done", "rejected"}]
        /\ pending' \subseteq Clients \X Requests
    BY <1>1, <2>1 DEF Response, TypeOK
  <2>4. waiting' \in [Clients -> SUBSET {"start", "close", "release"}]
    <3>1. waiting \in [Clients -> SUBSET {"start", "close", "release"}]
      BY DEF TypeOK
    <3>2. \A w \in {"start", "close"} : [waiting EXCEPT ![c] = waiting[c] \cup {w}]
                                          \in [Clients -> SUBSET {"start", "close", "release"}]
      BY <1>1, <3>1
    <3>3. QED
      BY <2>2, <3>1, <3>2
  <2>5. toWorker' \in Seq(ToWorker)
    BY <1>1, <2>2 DEF TypeOK
  <2>6. QED
    BY <1>1, <2>1, <2>3, <2>4, <2>5 DEF OtherTypes, TypeOK
<1>7. CASE c \in registered /\ m.kind = "fatal" /\ start[c] = "waiting"
  <2>1. /\ InitFailed(c) /\ toMain' = Tail(toMain)
        /\ UNCHANGED <<close, pending, waiting, toWorker, made, alive, native, asked, breaks>>
    BY <1>7 DEF MainTakes
  <2>2. /\ start' \in [Clients -> {"none", "verifying", "waiting", "undoing", "done", "rejected"}]
        /\ state' \in [Clients -> {"created", "started", "closing", "closed", "failed"}]
        /\ release' \in [Clients -> {"none", "destroying", "done", "rejected"}]
        /\ registered' \subseteq Clients
    <3>1. /\ start' = [start EXCEPT ![c] = "rejected"] /\ registered' = registered \ {c}
          /\ state' \in {state, [state EXCEPT ![c] = "failed"]}
          /\ release' \in {release, [release EXCEPT ![c] = "done"]}
      BY <2>1 DEF InitFailed
    <3>2. QED
      BY <1>1, <3>1 DEF TypeOK
  <2>3. QED
    BY <1>1, <2>1, <2>2 DEF OtherTypes, TypeOK
<1>8. CASE c \in registered /\ m.kind = "fatal" /\ start[c] # "waiting"
  <2>1. /\ FatalTo(c) /\ toMain' = Tail(toMain)
        /\ UNCHANGED <<start, registered, made, alive, native, asked, breaks>>
    BY <1>8 DEF MainTakes
  <2>2. CASE Failing({c}) = {}
    BY <1>1, <2>1, <2>2 DEF FatalTo, OtherTypes, TypeOK
  <2>3. CASE Failing({c}) # {}
    <3>1. toWorker' \in Seq(ToWorker)
      BY <1>1, <2>1, <2>3, DestroyTwice DEF FatalTo
    <3>2. /\ state' \in [Clients -> {"created", "started", "closing", "closed", "failed"}]
          /\ release' \in [Clients -> {"none", "destroying", "done", "rejected"}]
          /\ close' \in [Clients -> {"none", "asking", "destroying", "awaiting", "done", "rejected"}]
          /\ pending' \subseteq Clients \X Requests
      <4>1. /\ state' = [state EXCEPT ![c] = "failed"]
            /\ release' = [release EXCEPT ![c] = "destroying"]
            /\ close' \in {close, [close EXCEPT ![c] = "destroying"],
                           [close EXCEPT ![c] = close[c]]}
            /\ pending' \subseteq pending
        BY <2>1, <2>3 DEF FatalTo
      <4>2. QED
        BY <1>1, <4>1 DEF TypeOK
    <3>3. waiting' \in [Clients -> SUBSET {"start", "close", "release"}]
      <4>1. waiting' = [waiting EXCEPT ![c] = waiting[c] \cup {"release"} \cup
                                              IF c \in Asking({c}) THEN {"close"} ELSE {}]
        BY <2>1, <2>3 DEF FatalTo
      <4>2. waiting[c] \cup {"release"} \cup (IF c \in Asking({c}) THEN {"close"} ELSE {})
              \in SUBSET {"start", "close", "release"}
        BY <1>1 DEF TypeOK
      <4>3. QED
        BY <4>1, <4>2 DEF TypeOK
    <3>4. QED
      BY <1>1, <2>1, <3>1, <3>2, <3>3 DEF OtherTypes, TypeOK
  <2>4. QED
    BY <2>2, <2>3
<1>9. QED
  BY <1>1, <1>2, <1>3, <1>4, <1>5, <1>6, <1>7, <1>8

LEMMA TypeStep == UpdatesOK /\ StateInv /\ [Next]_vars => TypeOK'
<1> SUFFICES ASSUME UpdatesOK, StateInv, [Next]_vars PROVE TypeOK'
  OBVIOUS
<1> USE TdlibAssumption
<1>1. TypeOK
  BY DEF UpdatesOK
<1>2. SUFFICES OtherTypes'
  BY UpdatesStep DEF Kept, OtherTypes, TypeOK
<1>3. ASSUME NEW c \in Clients, Start(c) \/ Verified(c) \/ NotVerified(c) PROVE OtherTypes'
  <2>1. Append(toWorker, Message("init", c)) \in Seq(ToWorker)
    BY <1>1, PortTypes, MessageTypes
  <2>2. CASE Start(c)
    BY <1>1, <2>2 DEF Start, transportVars, workerVars, OtherTypes, TypeOK
  <2>3. CASE Verified(c)
    BY <1>1, <2>1, <2>3 DEF Verified, workerVars, OtherTypes, TypeOK
  <2>4. CASE NotVerified(c)
    BY <1>1, <2>4 DEF NotVerified, transportVars, workerVars, OtherTypes, TypeOK
  <2>5. QED
    BY <1>3, <2>2, <2>3, <2>4
<1>4. ASSUME NEW c \in Clients, Close(c) PROVE OtherTypes'
  <2>1. Append(toWorker, [kind |-> "send", client |-> c, call |-> "close"]) \in Seq(ToWorker)
    BY <1>1, PortTypes, MessageTypes DEF Requests
  <2>2. state[c] \in {"created", "started", "failed"}
    BY <1>1, <1>4 DEF Close, StateInv, TypeOK
  <2>3. CASE state[c] = "created"
    BY <1>1, <1>4, <2>3 DEF Close, workerVars, OtherTypes, TypeOK
  <2>4. CASE state[c] = "started"
    <3>1. <<c, "close">> \in Clients \X Requests
      BY DEF Requests
    <3>2. /\ state' = [state EXCEPT ![c] = "closing"] /\ close' = [close EXCEPT ![c] = "asking"]
          /\ pending' = pending \cup {<<c, "close">>}
          /\ toWorker' \in Seq(ToWorker)
          /\ UNCHANGED <<start, release, made, registered, waiting, alive, workerVars>>
      BY <1>4, <2>1, <2>4 DEF Close
    <3>3. pending' \subseteq Clients \X Requests
      BY <1>1, <3>1, <3>2 DEF TypeOK
    <3>4. QED
      BY <1>1, <3>2, <3>3 DEF workerVars, OtherTypes, TypeOK
  <2>5. CASE state[c] = "failed"
    BY <1>1, <1>4, <2>5 DEF Close, workerVars, OtherTypes, TypeOK
  <2>6. QED
    BY <2>2, <2>3, <2>4, <2>5
<1>5. ASSUME NEW c \in Clients, \/ Unsubscribe(c)
                                \/ \E ok \in BOOLEAN : HandlerEnds(c, ok)
      PROVE  OtherTypes'
  BY <1>1, <1>5 DEF Unsubscribe, HandlerEnds, clientVars, transportVars, workerVars,
                    OtherTypes, TypeOK
<1>6. ASSUME NEW c \in Clients, Sends(c) \/ Breaks(c) PROVE OtherTypes'
  <2>1. /\ Append(toMain, Message("update", c)) \in Seq(ToMain)
        /\ Append(toMain, Message("fatal", c)) \in Seq(ToMain)
    BY <1>1, PortTypes, MessageTypes
  <2>2. CASE Sends(c)
    BY <1>1, <2>1, <2>2 DEF Sends, clientVars, transportVars, OtherTypes, TypeOK
  <2>3. CASE Breaks(c)
    <3>1. /\ toMain' = Append(toMain, Message("fatal", c)) /\ native' = native \ {c}
          /\ asked' \subseteq asked /\ breaks' = breaks + 1 /\ breaks < MaxBreaks
          /\ UNCHANGED <<clientVars, transportVars>>
      BY <2>3 DEF Breaks, WorkerFails
    <3>2. breaks' \in 0 .. MaxBreaks
      BY <1>1, <3>1 DEF TypeOK
    <3>3. QED
      BY <1>1, <2>1, <3>1, <3>2 DEF clientVars, transportVars, OtherTypes, TypeOK
  <2>4. QED
    BY <1>6, <2>2, <2>3
<1>7. ASSUME NEW c \in Clients, NEW q \in Calls, Invoke(c, q) \/ Abort(c, q) PROVE OtherTypes'
  <2>1. Append(toWorker, [kind |-> "send", client |-> c, call |-> q]) \in Seq(ToWorker)
    BY <1>1, PortTypes, MessageTypes DEF Requests
  <2>2. CASE Invoke(c, q)
    BY <1>1, <2>1, <2>2 DEF Invoke, workerVars, Requests, OtherTypes, TypeOK
  <2>3. CASE Abort(c, q)
    BY <1>1, <2>3 DEF Abort, transportVars, workerVars, OtherTypes, TypeOK
  <2>4. QED
    BY <1>7, <2>2, <2>3
<1>8. CASE MainTakes
  BY <1>1, <1>8, MainTypes
<1>9. ASSUME NEW ok \in BOOLEAN, WorkerTakes(ok) PROVE OtherTypes'
  <2> DEFINE m == Head(toWorker)
             c == Head(toWorker).client
  <2>1. /\ c \in Clients /\ m.call \in Requests /\ Tail(toWorker) \in Seq(ToWorker)
        /\ Append(toMain, Message("ready", c)) \in Seq(ToMain)
        /\ Append(toMain, Message("fatal", c)) \in Seq(ToMain)
        /\ Append(toMain, Message("destroyed", c)) \in Seq(ToMain)
    BY <1>1, <1>9, PortTypes, MessageTypes DEF WorkerTakes
  <2>2. m.kind \in {"init", "send", "destroy"}
    BY <1>1, <1>9, PortTypes DEF WorkerTakes, ToWorker
  <2>3. /\ toWorker' = Tail(toWorker)
        /\ UNCHANGED <<state, start, close, release, pending, made, registered, waiting, alive, breaks>>
    BY <1>9 DEF WorkerTakes, clientVars
  <2>4. toMain' \in Seq(ToMain) /\ native' \subseteq Clients /\ asked' \subseteq Clients \X Requests
    <3>1. CASE m.kind = "init"
      BY <1>1, <1>9, <2>1, <3>1 DEF WorkerTakes, WorkerFails, TypeOK
    <3>2. CASE m.kind = "send"
      <4>1. CASE c \in native
        <5>1. asked' = asked \cup {<<c, m.call>>} /\ native' = native /\ toMain' = toMain
          BY <1>9, <3>2, <4>1 DEF WorkerTakes
        <5>2. QED
          BY <1>1, <2>1, <5>1 DEF TypeOK
      <4>2. CASE c \notin native
        <5>1. WorkerFails(c)
          BY <1>9, <3>2, <4>2 DEF WorkerTakes
        <5>2. QED
          BY <1>1, <2>1, <5>1 DEF WorkerFails, TypeOK
      <4>3. QED
        BY <4>1, <4>2
    <3>3. CASE m.kind = "destroy"
      BY <1>1, <1>9, <2>1, <3>3 DEF WorkerTakes, TypeOK
    <3>4. QED
      BY <2>2, <3>1, <3>2, <3>3
  <2>5. QED
    BY <1>1, <2>1, <2>3, <2>4 DEF OtherTypes, TypeOK
<1>10. ASSUME NEW c \in Clients, NEW q \in Requests, Answer(c, q) PROVE OtherTypes'
  <2>1. Append(toMain, [kind |-> "response", client |-> c, call |-> q]) \in Seq(ToMain)
    BY <1>1, PortTypes, MessageTypes
  <2>2. QED
    BY <1>1, <1>10, <2>1 DEF Answer, clientVars, transportVars, OtherTypes, TypeOK
<1>11. CASE WorkerDies
  <2>1. <<>> \in Seq(ToWorker) /\ <<>> \in Seq(ToMain) /\ {} \in SUBSET {"start", "close", "release"}
    BY EmptySeq
  <2>2. waiting' \in [Clients -> SUBSET {"start", "close", "release"}]
    BY <1>11, <2>1 DEF WorkerDies
  <2>3. /\ start' \in [Clients -> {"none", "verifying", "waiting", "undoing", "done", "rejected"}]
        /\ close' \in [Clients -> {"none", "asking", "destroying", "awaiting", "done", "rejected"}]
    BY <1>1, <1>11 DEF WorkerDies, TypeOK
  <2>4. /\ state' \in [Clients -> {"created", "started", "closing", "closed", "failed"}]
        /\ release' \in [Clients -> {"none", "destroying", "done", "rejected"}]
    BY <1>1, <1>11 DEF WorkerDies, TypeOK
  <2>5. pending' \subseteq Clients \X Requests /\ made' \subseteq Calls /\ breaks' \in 0 .. MaxBreaks
    BY <1>1, <1>11 DEF WorkerDies, TypeOK
  <2>6. /\ registered' = {} /\ native' = {} /\ asked' = {} /\ alive' = FALSE
        /\ toWorker' = <<>> /\ toMain' = <<>>
    BY <1>11 DEF WorkerDies
  <2>7. QED
    BY <2>1, <2>2, <2>3, <2>4, <2>5, <2>6 DEF OtherTypes
<1>12. CASE UNCHANGED vars
  BY <1>1, <1>12 DEF vars, clientVars, transportVars, workerVars, OtherTypes, TypeOK
<1>13. QED
  BY <1>3, <1>4, <1>5, <1>6, <1>7, <1>8, <1>9, <1>10, <1>11, <1>12 DEF Next, Worker

-----------------------------------------------------------------------------
(* The state of a client *)

\* What the conjuncts about one client say, for the client a step moves.
StateOK(c) ==
  /\ state[c] = "created" => close[c] = "none" /\ release[c] = "none" /\ start[c] # "done"
  /\ state[c] \in {"started", "closing"} => start[c] = "done"
  /\ state[c] \in {"closing", "closed"} \/ "close" \in waiting[c] => close[c] # "none"
  /\ "start" \in waiting[c] => start[c] = "undoing"
  /\ "release" \in waiting[c] => release[c] # "none"
  /\ start[c] = "done" /\ (close[c] = "done" \/ release[c] = "done") => c \notin native

CallsOK(c) == \A p \in pending : p[1] = c => state[c] \in {"started", "closing"}

LEMMA StateIsEach ==
  /\ StateInv <=> \A c \in Clients : StateOK(c)
  /\ StateInv' <=> \A c \in Clients : StateOK(c)'
  BY DEF StateInv, StateOK

LEMMA CallsAreEach ==
  ASSUME TypeOK
  PROVE  /\ NoCallLeftBehind <=> \A c \in Clients : CallsOK(c)
         /\ pending' \subseteq Clients \X Requests =>
              (NoCallLeftBehind' <=> \A c \in Clients : CallsOK(c)')
  BY DEF NoCallLeftBehind, CallsOK, TypeOK

\* The other clients stay as they are.
Others(c) ==
  \A d \in Clients \ {c} :
    /\ state'[d] = state[d] /\ start'[d] = start[d] /\ close'[d] = close[d]
    /\ release'[d] = release[d] /\ waiting'[d] = waiting[d]
    /\ d \in native' => d \in native
    /\ \A p \in pending' : p[1] = d => p \in pending

\* The functions among them.
LEMMA Shapes ==
  ASSUME TypeOK
  PROVE  /\ state \in [Clients -> {"created", "started", "closing", "closed", "failed"}]
         /\ start \in [Clients -> {"none", "verifying", "waiting", "undoing", "done", "rejected"}]
         /\ close \in [Clients -> {"none", "asking", "destroying", "awaiting", "done", "rejected"}]
         /\ release \in [Clients -> {"none", "destroying", "done", "rejected"}]
         /\ waiting \in [Clients -> SUBSET {"start", "close", "release"}]
  BY DEF TypeOK

Core == TypeOK /\ StateInv /\ WireInv /\ NoCallLeftBehind

LEMMA StateSuffices ==
  ASSUME Core, TypeOK', NEW c \in Clients, Others(c), StateOK(c)', CallsOK(c)'
  PROVE  StateInv' /\ NoCallLeftBehind'
<1>1. ASSUME NEW d \in Clients PROVE StateOK(d)' /\ CallsOK(d)'
  <2>1. StateOK(d) /\ CallsOK(d)
    BY StateIsEach, CallsAreEach DEF Core
  <2>2. CASE d # c
    BY <2>1, <2>2 DEF Others, StateOK, CallsOK
  <2>3. QED
    BY <2>2
<1>2. QED
  BY <1>1, StateIsEach, CallsAreEach DEF Core, TypeOK

\* A step that moves no client keeps both, if no native client is made.
LEMMA StillSuffices ==
  ASSUME Core, TypeOK', UNCHANGED <<state, start, close, release, waiting>>,
         pending' \subseteq pending,
         \A c \in native' : c \in native \/ start[c] # "done"
  PROVE  StateInv' /\ NoCallLeftBehind'
<1>1. StateInv'
  BY DEF Core, StateInv
<1>2. NoCallLeftBehind'
  BY DEF Core, NoCallLeftBehind
<1>3. QED
  BY <1>1, <1>2

LEMMA MovesStep ==
  ASSUME Core, TypeOK', NEW c \in Clients,
         \/ Start(c) \/ Verified(c) \/ NotVerified(c) \/ Close(c)
         \/ Unsubscribe(c) \/ Sends(c) \/ Breaks(c)
         \/ \E ok \in BOOLEAN : HandlerEnds(c, ok)
         \/ \E q \in Calls : Invoke(c, q) \/ Abort(c, q)
  PROVE  StateInv' /\ NoCallLeftBehind'
<1>1. StateOK(c) /\ CallsOK(c) /\ TypeOK
  BY StateIsEach, CallsAreEach DEF Core
<1>2. c \in native => start[c] \in {"waiting", "undoing", "done"}
  BY DEF Core, WireInv
<1>3. CASE Start(c)
  <2>1. Others(c) /\ StateOK(c)' /\ CallsOK(c)'
    BY <1>1, <1>3 DEF Start, transportVars, workerVars, Others, StateOK, CallsOK, TypeOK
  <2>2. QED
    BY <2>1, StateSuffices
<1>4. CASE Verified(c)
  <2>1. Others(c) /\ StateOK(c)' /\ CallsOK(c)'
    BY <1>1, <1>4 DEF Verified, workerVars, Others, StateOK, CallsOK, TypeOK
  <2>2. QED
    BY <2>1, StateSuffices
<1>5. CASE NotVerified(c)
  <2>1. Others(c) /\ StateOK(c)' /\ CallsOK(c)'
    BY <1>1, <1>5 DEF NotVerified, transportVars, workerVars, Others, StateOK, CallsOK, TypeOK
  <2>2. QED
    BY <2>1, StateSuffices
<1>6. CASE Close(c)
  <2>1. state[c] \in {"created", "started", "failed"}
    BY <1>1, <1>6 DEF Close, StateOK, TypeOK
  <2>2. CASE state[c] = "created"
    <3>1. Others(c) /\ StateOK(c)' /\ CallsOK(c)'
      BY <1>1, <1>6, <2>2 DEF Close, workerVars, Others, StateOK, CallsOK, TypeOK
    <3>2. QED
      BY <3>1, StateSuffices
  <2>3. CASE state[c] = "started"
    <3>1. Others(c) /\ StateOK(c)' /\ CallsOK(c)'
      BY <1>1, <1>6, <2>3 DEF Close, workerVars, Others, StateOK, CallsOK, TypeOK
    <3>2. QED
      BY <3>1, StateSuffices
  <2>4. CASE state[c] = "failed"
    <3>1. Others(c) /\ StateOK(c)' /\ CallsOK(c)'
      BY <1>1, <1>6, <2>4 DEF Close, workerVars, Others, StateOK, CallsOK, TypeOK
    <3>2. QED
      BY <3>1, StateSuffices
  <2>5. QED
    BY <2>1, <2>2, <2>3, <2>4
<1>7. CASE Unsubscribe(c) \/ Sends(c) \/ \E ok \in BOOLEAN : HandlerEnds(c, ok)
  BY <1>7, StillSuffices DEF Unsubscribe, Sends, HandlerEnds, clientVars, transportVars, workerVars
<1>8. CASE Breaks(c)
  BY <1>8, StillSuffices DEF Breaks, WorkerFails, clientVars, transportVars
<1>9. ASSUME NEW q \in Calls, Invoke(c, q) PROVE StateInv' /\ NoCallLeftBehind'
  <2>1. Others(c) /\ StateOK(c)' /\ CallsOK(c)'
    BY <1>1, <1>9 DEF Invoke, workerVars, Others, StateOK, CallsOK, TypeOK
  <2>2. QED
    BY <2>1, StateSuffices
<1>10. ASSUME NEW q \in Calls, Abort(c, q) PROVE StateInv' /\ NoCallLeftBehind'
  BY <1>10, StillSuffices DEF Abort, transportVars, workerVars
<1>11. QED
  BY <1>3, <1>4, <1>5, <1>6, <1>7, <1>8, <1>9, <1>10

\* The main thread takes a message.
LEMMA MainMoves ==
  ASSUME Core, TypeOK', MainTakes
  PROVE  StateInv' /\ NoCallLeftBehind'
<1>1. PICK m \in ToMain, c \in Clients : /\ m = Head(toMain) /\ c = m.client
                                          /\ m \in Range(toMain)
                                          /\ StateOK(c) /\ CallsOK(c) /\ TypeOK
  <2>1. toMain # <<>> /\ toMain \in Seq(ToMain) /\ TypeOK
    BY DEF Core, MainTakes, TypeOK
  <2>2. Head(toMain) \in ToMain /\ Head(toMain).client \in Clients
    BY <2>1, PortTypes
  <2>3. Head(toMain) \in Range(toMain)
    BY <2>1, TailRange
  <2>4. QED
    BY <2>1, <2>2, <2>3, StateIsEach, CallsAreEach DEF Core
<1>2. /\ m.kind \in {"fatal", "destroyed"} => c \notin native
      /\ m.kind = "destroyed" => start[c] # "waiting"
      /\ m.kind = "ready" /\ c \in registered => start[c] = "waiting"
      /\ c \in registered => start[c] \in {"waiting", "undoing", "done"}
      /\ m.kind \in {"ready", "response", "update", "fatal", "destroyed"}
  BY <1>1 DEF Core, WireInv, ToMain
<1>3. CASE c \notin registered \/ m.kind = "update"
  BY <1>1, <1>3, StillSuffices DEF MainTakes, clientVars, transportVars
<1>4. CASE c \in registered /\ m.kind = "destroyed"
  <2>1. Destroyed(c)
    BY <1>1, <1>4 DEF MainTakes
  <2>2. /\ \A d \in Clients \ {c} :
              /\ state'[d] = state[d] /\ start'[d] = start[d] /\ close'[d] = close[d]
              /\ release'[d] = release[d] /\ waiting'[d] = waiting[d]
        /\ waiting'[c] = {}
        /\ start'[c] = IF "start" \in waiting[c] THEN "rejected" ELSE start[c]
        /\ state'[c] = IF "close" \in waiting[c] THEN "closed" ELSE state[c]
    BY <1>1, <2>1 DEF Destroyed, TypeOK
  <2>3. /\ release'[c] = IF "release" \in waiting[c] THEN "done" ELSE release[c]
        /\ close'[c] = IF close[c] = "awaiting" \/ "close" \in waiting[c] THEN "done" ELSE close[c]
    BY <1>1, <2>1 DEF Destroyed, TypeOK
  <2>4. native' \subseteq native /\ pending' \subseteq pending /\ c \notin native
    BY <1>2, <1>4, <2>1 DEF Destroyed
  <2>5. Others(c)
    BY <2>2, <2>4 DEF Others
  <2>6. state[c] = "created" => "release" \notin waiting[c] /\ "close" \notin waiting[c]
    BY <1>1, <1>2, <1>4, <2>1 DEF StateOK
  <2>7. StateOK(c)'
    BY <1>1, <2>2, <2>3, <2>4, <2>6 DEF StateOK
  <2>8. CallsOK(c)'
    BY <1>1, <2>1 DEF Destroyed, Of, CallsOK, TypeOK
  <2>9. QED
    BY <1>1, <2>5, <2>7, <2>8, StateSuffices
<1>5. CASE c \in registered /\ m.kind = "ready"
  <2>1. Ready(c) /\ UNCHANGED <<close, release, pending, native>> /\ start[c] = "waiting"
    BY <1>1, <1>2, <1>5 DEF MainTakes
  <2>2. Others(c)
    <3>1. /\ state' \in {state, [state EXCEPT ![c] = "started"]}
          /\ start' \in {[start EXCEPT ![c] = "done"], [start EXCEPT ![c] = "undoing"]}
          /\ waiting' \in {waiting, [waiting EXCEPT ![c] = waiting[c] \cup {"start"}]}
      BY <2>1 DEF Ready
    <3>2. \A d \in Clients \ {c} : /\ state'[d] = state[d] /\ start'[d] = start[d]
                                   /\ waiting'[d] = waiting[d]
      BY <1>1, <3>1, Shapes
    <3>3. QED
      BY <2>1, <3>2 DEF Others
  <2>3. StateOK(c)'
    BY <1>1, <2>1 DEF Ready, StateOK, TypeOK
  <2>4. CallsOK(c)'
    BY <1>1, <2>1 DEF Ready, CallsOK, TypeOK
  <2>5. QED
    BY <1>1, <2>2, <2>3, <2>4, StateSuffices
<1>6. CASE c \in registered /\ m.kind = "response"
  <2>1. Response(c, m.call) /\ UNCHANGED <<state, start, release, native>>
    BY <1>1, <1>6 DEF MainTakes
  <2>2. Others(c)
    <3>1. /\ close' \in {close, [close EXCEPT ![c] = "destroying"]}
          /\ waiting' \in {waiting, [waiting EXCEPT ![c] = waiting[c] \cup {"close"}]}
          /\ pending' \subseteq pending
      BY <2>1 DEF Response
    <3>2. \A d \in Clients \ {c} : close'[d] = close[d] /\ waiting'[d] = waiting[d]
      BY <1>1, <3>1, Shapes
    <3>3. QED
      BY <2>1, <3>1, <3>2 DEF Others
  <2>3. StateOK(c)'
    <3>1. /\ "start" \in waiting'[c] => "start" \in waiting[c]
          /\ "release" \in waiting'[c] => "release" \in waiting[c]
          /\ "close" \in waiting'[c] => "close" \in waiting[c] \/ close'[c] = "destroying"
          /\ close'[c] = close[c] \/ (close'[c] = "destroying" /\ <<c, "close">> \in pending)
      <4>1. CASE m.call = "close" /\ <<c, m.call>> \in pending
        <5>1. /\ close' = [close EXCEPT ![c] = "destroying"]
              /\ waiting' = [waiting EXCEPT ![c] = waiting[c] \cup {"close"}]
          BY <2>1, <4>1 DEF Response
        <5>2. close'[c] = "destroying" /\ waiting'[c] = waiting[c] \cup {"close"}
          BY <1>1, <5>1, Shapes
        <5>3. QED
          BY <4>1, <5>2
      <4>2. CASE ~(m.call = "close" /\ <<c, m.call>> \in pending)
        <5>1. close' = close /\ waiting' = waiting
          BY <2>1, <4>2 DEF Response
        <5>2. QED
          BY <5>1
      <4>3. QED
        BY <4>1, <4>2
    <3>2. <<c, "close">> \in pending => state[c] \in {"started", "closing"}
      BY <1>1 DEF CallsOK
    <3>3. QED
      BY <1>1, <2>1, <3>1, <3>2 DEF StateOK
  <2>4. CallsOK(c)'
    BY <1>1, <2>1 DEF Response, CallsOK, TypeOK
  <2>5. QED
    BY <1>1, <2>2, <2>3, <2>4, StateSuffices
<1>7. CASE c \in registered /\ m.kind = "fatal" /\ start[c] = "waiting"
  <2>1. InitFailed(c) /\ UNCHANGED <<close, pending, waiting, native>>
    BY <1>1, <1>7 DEF MainTakes
  <2>2. Others(c)
    <3>1. \A d \in Clients \ {c} : state'[d] = state[d] /\ start'[d] = start[d] /\ release'[d] = release[d]
      <4>1. /\ start' = [start EXCEPT ![c] = "rejected"]
            /\ state' \in {state, [state EXCEPT ![c] = "failed"]}
            /\ release' \in {release, [release EXCEPT ![c] = "done"]}
        BY <2>1 DEF InitFailed
      <4>2. QED
        BY <1>1, <4>1, Shapes
    <3>2. QED
      BY <2>1, <3>1 DEF Others
  <2>3. StateOK(c)'
    BY <1>1, <1>7, <2>1 DEF InitFailed, StateOK, TypeOK
  <2>4. CallsOK(c)'
    BY <1>1, <2>1 DEF InitFailed, CallsOK, TypeOK
  <2>5. QED
    BY <1>1, <2>2, <2>3, <2>4, StateSuffices
<1>8. CASE c \in registered /\ m.kind = "fatal" /\ start[c] # "waiting"
  <2>1. FatalTo(c) /\ UNCHANGED <<start, native>> /\ c \notin native
    BY <1>1, <1>2, <1>8 DEF MainTakes
  <2>2. CASE Failing({c}) = {}
    BY <2>1, <2>2, StillSuffices DEF FatalTo
  <2>3. CASE Failing({c}) # {}
    <3>1. state[c] \notin {"closed", "failed"}
      BY <2>3 DEF Failing
    <3>0. /\ state' = [state EXCEPT ![c] = "failed"] /\ release' = [release EXCEPT ![c] = "destroying"]
          /\ close' = [close EXCEPT ![c] = IF c \in Asking({c}) THEN "destroying" ELSE close[c]]
          /\ waiting' = [waiting EXCEPT ![c] = waiting[c] \cup {"release"} \cup
                                                IF c \in Asking({c}) THEN {"close"} ELSE {}]
      BY <2>1, <2>3 DEF FatalTo
    <3>2. Others(c)
      <4>1. \A d \in Clients \ {c} : /\ state'[d] = state[d] /\ close'[d] = close[d]
                                     /\ release'[d] = release[d] /\ waiting'[d] = waiting[d]
        BY <1>1, <3>0, Shapes
      <4>2. pending' \subseteq pending
        BY <2>1, <2>3 DEF FatalTo
      <4>3. QED
        BY <2>1, <4>1, <4>2 DEF Others
    <3>3. StateOK(c)'
      <4>1. /\ state'[c] = "failed" /\ release'[c] = "destroying"
            /\ close'[c] = IF c \in Asking({c}) THEN "destroying" ELSE close[c]
            /\ "start" \in waiting'[c] => "start" \in waiting[c]
        BY <1>1, <3>0, Shapes
      <4>2. "close" \in waiting'[c] => "close" \in waiting[c] \/ c \in Asking({c})
        BY <1>1, <3>0, Shapes
      <4>3. QED
        BY <1>1, <2>1, <4>1, <4>2 DEF Asking, StateOK
    <3>4. CallsOK(c)'
      BY <1>1, <2>1, <2>3 DEF FatalTo, Of, CallsOK, TypeOK
    <3>5. QED
      BY <1>1, <3>2, <3>3, <3>4, StateSuffices
  <2>4. QED
    BY <2>2, <2>3
<1>9. QED
  BY <1>2, <1>3, <1>4, <1>5, <1>6, <1>7, <1>8

\* The worker makes a native client only for a start that is not done.
LEMMA WorkerMoves ==
  ASSUME Core, TypeOK', Worker
  PROVE  StateInv' /\ NoCallLeftBehind'
<1>1. ASSUME NEW ok \in BOOLEAN, WorkerTakes(ok) PROVE StateInv' /\ NoCallLeftBehind'
  <2> DEFINE m == Head(toWorker)
             c == Head(toWorker).client
  <2>1. m \in Range(toWorker) /\ m.kind \in {"init", "send", "destroy"}
    <3>1. toWorker # <<>> /\ toWorker \in Seq(ToWorker)
      BY <1>1 DEF Core, TypeOK, WorkerTakes
    <3>2. m \in ToWorker /\ m \in Range(toWorker)
      BY <3>1, TailRange
    <3>3. QED
      BY <3>2 DEF ToWorker
  <2>2. m.kind = "init" => start[c] = "waiting"
    BY <2>1 DEF Core, WireInv
  <2>3. \A d \in native' : d \in native \/ start[d] # "done"
    BY <1>1, <2>1, <2>2 DEF WorkerTakes, WorkerFails
  <2>4. UNCHANGED clientVars /\ waiting' = waiting
    BY <1>1 DEF WorkerTakes
  <2>5. QED
    BY <2>3, <2>4, StillSuffices DEF clientVars
<1>2. ASSUME NEW c \in Clients, NEW q \in Requests, Answer(c, q)
      PROVE  StateInv' /\ NoCallLeftBehind'
  BY <1>2, StillSuffices DEF Answer, clientVars, transportVars
<1>3. QED
  BY <1>1, <1>2 DEF Worker

\* All native clients have gone with the worker.
LEMMA DeathMoves ==
  ASSUME Core, TypeOK', WorkerDies
  PROVE  StateInv' /\ NoCallLeftBehind'
<1>1. ASSUME NEW c \in Clients PROVE StateOK(c)' /\ CallsOK(c)'
  <2>1. StateOK(c) /\ CallsOK(c) /\ TypeOK
    BY StateIsEach, CallsAreEach DEF Core
  <2>2. native' = {} /\ waiting'[c] = {}
    BY <1>1 DEF WorkerDies
  <2>3. /\ start'[c] = IF start[c] \in {"waiting", "undoing"} THEN "rejected" ELSE start[c]
        /\ state'[c] = IF c \notin Failing(registered) THEN state[c]
                       ELSE IF close[c] = "asking" THEN "closed" ELSE "failed"
        /\ release'[c] = IF c \in Failing(registered) THEN "done"
                         ELSE IF release[c] = "destroying" THEN "rejected" ELSE release[c]
        /\ close'[c] = IF close[c] \in {"destroying", "awaiting"} THEN "rejected"
                       ELSE IF close[c] = "asking" THEN "done" ELSE close[c]
        /\ pending' = pending \ Of(Failing(registered))
    BY DEF WorkerDies
  <2>4. StateOK(c)'
    BY <2>1, <2>2, <2>3 DEF StateOK
  <2>5. CallsOK(c)'
    BY <2>1, <2>3 DEF CallsOK, Of
  <2>6. QED
    BY <2>4, <2>5
<1>2. QED
  BY <1>1, StateIsEach, CallsAreEach DEF Core, TypeOK

LEMMA StateStep == Core /\ TypeOK' /\ [Next]_vars => StateInv' /\ NoCallLeftBehind'
<1> SUFFICES ASSUME Core, TypeOK', [Next]_vars PROVE StateInv' /\ NoCallLeftBehind'
  OBVIOUS
<1>1. CASE UNCHANGED vars
  BY <1>1, StillSuffices DEF vars, clientVars, transportVars, workerVars
<1>2. CASE MainTakes \/ Worker \/ WorkerDies
  BY <1>2, MainMoves, WorkerMoves, DeathMoves
<1>3. QED
  BY <1>1, <1>2, MovesStep DEF Next

-----------------------------------------------------------------------------
(* The messages under way *)

\* What WireInv says of one message on its way to the worker, and to the main
\* thread, and of the native clients.
WorkerHears(m) ==
  IF m.kind = "init" THEN /\ m = Message("init", m.client)
                          /\ start[m.client] = "waiting"
                          /\ m.client \in registered \ native
                     ELSE start[m.client] \in {"undoing", "done", "rejected"}
MainHears(m) ==
  /\ start[m.client] \in {"waiting", "undoing", "done", "rejected"}
  /\ Message("init", m.client) \notin Range(toWorker)
  /\ m.kind \in {"fatal", "destroyed"} => m.client \notin native
  /\ m.kind = "destroyed" => start[m.client] # "waiting"
  /\ m.kind = "ready" => /\ m = Message("ready", m.client)
                         /\ m.client \in registered => start[m.client] = "waiting"
OnceEach ==
  \A c \in Clients : OnceIn(toWorker, Message("init", c)) /\ OnceIn(toMain, Message("ready", c))
NativeOK ==
  /\ native \subseteq registered
  /\ \A c \in registered : start[c] \in {"waiting", "undoing", "done"}
  /\ \A p \in asked : p[1] \in native

LEMMA WireIsEach ==
  /\ WireInv <=> /\ \A m \in Range(toWorker) : WorkerHears(m)
                 /\ \A m \in Range(toMain) : MainHears(m)
                 /\ OnceEach /\ NativeOK
  /\ WireInv' <=> /\ \A m \in Range(toWorker') : WorkerHears(m)'
                  /\ \A m \in Range(toMain') : MainHears(m)'
                  /\ OnceEach' /\ NativeOK'
  BY DEF WireInv, WorkerHears, MainHears, OnceEach, NativeOK

\* Kinds and clients of messages.
LEMMA MessageFacts ==
  \A k, c : Message(k, c).kind = k /\ Message(k, c).client = c
  BY DEF Message

\* A step of the main thread that initialises nothing moves at most one client,
\* whose messages are looked at; the others' are as good as they were.
LEMMA MainWire ==
  ASSUME Core, TypeOK', NEW c \in Clients,
         \A d \in Clients \ {c} : start'[d] = start[d] /\ (d \in registered' <=> d \in registered),
         c \in registered' => start'[c] \in {"waiting", "undoing", "done"},
         native' \subseteq native, native' \subseteq registered',
         \A p \in asked' : p[1] \in native',
         \A m \in Range(toWorker') :
           \/ m \in Range(toWorker) /\ m.client \in Clients \ {c}
           \/ m.client = c /\ WorkerHears(m)' /\ (m.kind = "init" => m \in Range(toWorker)),
         \A m \in Range(toMain') :
           /\ m \in Range(toMain) /\ m.client \in Clients
           /\ m.client = c => /\ start'[c] \in {"waiting", "undoing", "done", "rejected"}
                              /\ m.kind = "destroyed" => start'[c] # "waiting"
                              /\ m.kind = "ready" /\ c \in registered' => start'[c] = "waiting",
         OnceEach'
  PROVE  WireInv'
<1>1. /\ \A m \in Range(toWorker) : WorkerHears(m)
      /\ \A m \in Range(toMain) : MainHears(m)
      /\ NativeOK
  BY WireIsEach DEF Core
<1>2. ASSUME NEW m \in Range(toWorker') PROVE WorkerHears(m)'
  BY <1>1, <1>2 DEF WorkerHears
<1>3. ASSUME NEW d, Message("init", d) \in Range(toWorker')
      PROVE  Message("init", d) \in Range(toWorker)
  BY <1>3, MessageFacts
<1>4. ASSUME NEW m \in Range(toMain') PROVE MainHears(m)'
  <2>1. MainHears(m) /\ m.client \in Clients
    BY <1>1, <1>4
  <2>2. CASE m.client # c
    BY <1>3, <1>4, <2>1, <2>2 DEF MainHears
  <2>3. CASE m.client = c
    BY <1>3, <1>4, <2>1, <2>3 DEF MainHears
  <2>4. QED
    BY <2>2, <2>3
<1>5. NativeOK'
  <2>1. registered' \subseteq Clients
    BY DEF TypeOK
  <2>2. QED
    BY <1>1, <2>1 DEF NativeOK
<1>6. QED
  BY <1>2, <1>4, <1>5, WireIsEach

\* A step of the worker concerns one client, which has no "init" under way when
\* it is over.
LEMMA WorkerWire ==
  ASSUME Core, NEW c \in Clients, start' = start, registered' = registered,
         Range(toWorker') \subseteq Range(toWorker), Message("init", c) \notin Range(toWorker'),
         native' \subseteq native \cup {c}, native' \subseteq registered,
         c \in native' \ native => \A m \in Range(toMain) : m.client # c,
         \A p \in asked' : p[1] \in native',
         \A m \in Range(toMain') : m \in Range(toMain) \/ (m.client = c /\ MainHears(m)'),
         OnceEach'
  PROVE  WireInv'
<1>1. /\ \A m \in Range(toWorker) : WorkerHears(m)
      /\ \A m \in Range(toMain) : MainHears(m)
      /\ NativeOK
  BY WireIsEach DEF Core
<1>2. ASSUME NEW m \in Range(toWorker') PROVE WorkerHears(m)'
  <2>1. WorkerHears(m) /\ m \in Range(toWorker')
    BY <1>1, <1>2
  <2>2. CASE m.kind = "init"
    <3>1. m.client # c
      BY <2>1, <2>2 DEF WorkerHears
    <3>2. QED
      BY <2>1, <2>2, <3>1 DEF WorkerHears
  <2>3. CASE m.kind # "init"
    BY <2>1, <2>3 DEF WorkerHears
  <2>4. QED
    BY <2>2, <2>3
<1>3. ASSUME NEW m \in Range(toMain') PROVE MainHears(m)'
  <2>1. CASE m \in Range(toMain)
    <3>1. MainHears(m)
      BY <1>1, <2>1
    <3>2. m.client \in native' => m.client \in native
      BY <2>1
    <3>3. QED
      BY <3>1, <3>2 DEF MainHears
  <2>2. QED
    BY <1>3, <2>1
<1>4. NativeOK'
  BY <1>1 DEF NativeOK
<1>5. QED
  BY <1>2, <1>3, <1>4, WireIsEach

\* What one message sent, or one taken, does to OnceEach.
LEMMA OnceSent ==
  ASSUME TypeOK, OnceEach, NEW m \in ToWorker, m.kind # "init" \/ m \notin Range(toWorker),
         toWorker' = Append(toWorker, m), toMain' = toMain
  PROVE  OnceEach' /\ \A n \in Range(toWorker') : n \in Range(toWorker) \/ n = m
<1>1. toWorker \in Seq(ToWorker)
  BY DEF TypeOK
<1>2. ASSUME NEW c \in Clients PROVE OnceIn(toWorker', Message("init", c))
  <2>1. m = Message("init", c) => m \notin Range(toWorker)
    BY MessageFacts
  <2>2. QED
    BY <1>1, <2>1, OnceAppend DEF OnceEach
<1>3. Range(toWorker') = Range(toWorker) \cup {m}
  BY <1>1, AppendRange
<1>4. QED
  BY <1>2, <1>3 DEF OnceEach

LEMMA OnceHeard ==
  ASSUME TypeOK, OnceEach, toMain # <<>>, toMain' = Tail(toMain)
  PROVE  /\ \A c \in Clients : OnceIn(toMain', Message("ready", c))
         /\ Range(toMain') \subseteq Range(toMain)
         /\ \A c \in Clients : Head(toMain) = Message("ready", c) =>
              Message("ready", c) \notin Range(toMain')
<1>1. toMain \in Seq(ToMain)
  BY DEF TypeOK
<1>2. \A c \in Clients : OnceIn(toMain, Message("ready", c))
  BY DEF OnceEach
<1>3. Range(toMain') \subseteq Range(toMain)
  BY <1>1, TailRange
<1>4. QED
  BY <1>1, <1>2, <1>3, OnceTail

\* The ports at work in one step.
LEMMA PortKinds ==
  ASSUME TypeOK
  PROVE  /\ \A m \in Range(toWorker) : m \in ToWorker /\ m.client \in Clients
         /\ \A m \in Range(toMain) : m \in ToMain /\ m.client \in Clients
<1>1. /\ \A i \in DOMAIN toWorker : toWorker[i] \in ToWorker
      /\ \A i \in DOMAIN toMain : toMain[i] \in ToMain
  BY LenProperties, ElementOfSeq DEF TypeOK
<1>2. QED
  BY <1>1 DEF Range, ToWorker, ToMain

\* Steps that leave both ports and the native clients alone.
LEMMA SilentWire ==
  ASSUME Core, TypeOK', NEW c \in Clients,
         UNCHANGED <<toWorker, toMain, native, asked, registered>>,
         \A d \in Clients \ {c} : start'[d] = start[d],
         start'[c] = start[c] \/ start[c] \in {"none", "verifying"}
  PROVE  WireInv'
<1>1. /\ \A m \in Range(toWorker) : WorkerHears(m)
      /\ \A m \in Range(toMain) : MainHears(m)
      /\ NativeOK /\ OnceEach
  BY WireIsEach DEF Core
<1>2. ASSUME NEW m \in Range(toWorker) PROVE m.client \in Clients /\ start'[m.client] = start[m.client]
  BY <1>1, <1>2, PortKinds DEF WorkerHears, Core
<1>3. ASSUME NEW m \in Range(toMain) PROVE m.client \in Clients /\ start'[m.client] = start[m.client]
  BY <1>1, <1>3, PortKinds DEF MainHears, Core
<1>4. \A d \in registered : start'[d] = start[d]
  BY <1>1 DEF NativeOK, Core, TypeOK
<1>5. /\ \A m \in Range(toWorker') : WorkerHears(m)'
      /\ \A m \in Range(toMain') : MainHears(m)'
  BY <1>1, <1>2, <1>3 DEF WorkerHears, MainHears
<1>6. NativeOK' /\ OnceEach'
  BY <1>1, <1>4 DEF NativeOK, OnceEach
<1>7. QED
  BY <1>5, <1>6, WireIsEach

\* The main thread sends a client something that is not "init".
LEMMA SendWire ==
  ASSUME Core, TypeOK', NEW c \in Clients, NEW m \in ToWorker, m.client = c, m.kind # "init",
         start[c] \in {"undoing", "done", "rejected"}, toWorker' = Append(toWorker, m),
         UNCHANGED <<start, toMain, native, asked, registered>>
  PROVE  WireInv'
<1>1. /\ \A n \in Range(toWorker) : WorkerHears(n)
      /\ \A n \in Range(toMain) : MainHears(n)
      /\ NativeOK /\ OnceEach /\ TypeOK
  BY WireIsEach DEF Core
<1>2. OnceEach' /\ \A n \in Range(toWorker') : n \in Range(toWorker) \/ n = m
  BY <1>1, OnceSent
<1>3. ASSUME NEW n \in Range(toWorker') PROVE WorkerHears(n)'
  BY <1>1, <1>2, <1>3 DEF WorkerHears
<1>4. ASSUME NEW n \in Range(toMain) PROVE MainHears(n)'
  <2>1. MainHears(n)
    BY <1>1, <1>4
  <2>2. Message("init", n.client) \notin Range(toWorker')
    BY <1>2, <2>1, MessageFacts DEF MainHears
  <2>3. QED
    BY <2>1, <2>2 DEF MainHears
<1>5. NativeOK'
  BY <1>1 DEF NativeOK
<1>6. QED
  BY <1>2, <1>3, <1>4, <1>5, WireIsEach

LEMMA MovesWire ==
  ASSUME Core, TypeOK', NEW c \in Clients,
         \/ Start(c) \/ Verified(c) \/ NotVerified(c) \/ Close(c)
         \/ Unsubscribe(c) \/ \E ok \in BOOLEAN : HandlerEnds(c, ok)
         \/ \E q \in Calls : Invoke(c, q) \/ Abort(c, q)
  PROVE  WireInv'
<1>1. StateOK(c) /\ TypeOK
  BY StateIsEach DEF Core
<1>2. CASE Start(c) \/ NotVerified(c)
  <2>1. UNCHANGED <<toWorker, toMain, native, asked, registered>>
    BY <1>2 DEF Start, NotVerified, transportVars, workerVars
  <2>2. start[c] \in {"none", "verifying"} /\ \A d \in Clients \ {c} : start'[d] = start[d]
    BY <1>1, <1>2, Shapes DEF Start, NotVerified
  <2>3. QED
    BY <2>1, <2>2, SilentWire
<1>3. CASE \/ Unsubscribe(c) \/ \E ok \in BOOLEAN : HandlerEnds(c, ok)
           \/ \E q \in Calls : Abort(c, q)
  <2>1. UNCHANGED <<toWorker, toMain, native, asked, registered, start>>
    BY <1>3 DEF Unsubscribe, HandlerEnds, Abort, clientVars, transportVars, workerVars
  <2>2. QED
    BY <2>1, SilentWire
<1>4. ASSUME NEW q \in Calls, Invoke(c, q) PROVE WireInv'
  <2> DEFINE m == [kind |-> "send", client |-> c, call |-> q]
  <2>1. m \in ToWorker /\ m.client = c /\ m.kind # "init"
    BY MessageTypes DEF Requests
  <2>2. /\ toWorker' = Append(toWorker, m) /\ start[c] = "done"
        /\ UNCHANGED <<start, toMain, native, asked, registered>>
    BY <1>1, <1>4 DEF Invoke, workerVars, StateOK
  <2> HIDE DEF m
  <2>3. QED
    BY <2>1, <2>2, SendWire
<1>5. CASE Close(c)
  <2> DEFINE m == [kind |-> "send", client |-> c, call |-> "close"]
  <2>1. m \in ToWorker /\ m.client = c /\ m.kind # "init"
    BY MessageTypes DEF Requests
  <2>2. /\ UNCHANGED <<start, toMain, native, asked, registered>>
        /\ toWorker' = toWorker \/ (toWorker' = Append(toWorker, m) /\ start[c] = "done")
    <3>1. state[c] \in {"created", "started", "failed"}
      BY <1>1, <1>5, Shapes DEF Close, StateOK
    <3>2. CASE state[c] = "started"
      BY <1>1, <1>5, <3>2 DEF Close, workerVars, StateOK
    <3>3. CASE state[c] # "started"
      BY <1>5, <3>1, <3>3 DEF Close, workerVars
    <3>4. QED
      BY <3>2, <3>3
  <2> HIDE DEF m
  <2>3. QED
    BY <2>1, <2>2, SendWire, SilentWire
<1>6. CASE Verified(c)
  <2> DEFINE m == Message("init", c)
  <2>1. /\ start[c] = "verifying" /\ start'[c] = "waiting" /\ registered' = registered \cup {c}
        /\ toWorker' = Append(toWorker, m) /\ UNCHANGED <<toMain, native, asked>>
        /\ \A d \in Clients \ {c} : start'[d] = start[d]
    BY <1>1, <1>6, Shapes DEF Verified, workerVars
  <2>2. /\ \A n \in Range(toWorker) : WorkerHears(n) /\ n.client \in Clients
        /\ \A n \in Range(toMain) : MainHears(n) /\ n.client \in Clients
        /\ NativeOK /\ OnceEach
    BY <1>1, WireIsEach, PortKinds DEF Core
  <2>3. /\ \A n \in Range(toWorker) : n.client # c
        /\ \A n \in Range(toMain) : n.client # c
        /\ c \notin registered /\ c \notin native
    BY <2>1, <2>2 DEF WorkerHears, MainHears, NativeOK
  <2>4. m \in ToWorker /\ m.client = c /\ m.kind = "init" /\ m = Message("init", m.client)
    BY MessageTypes, MessageFacts
  <2>5. m \notin Range(toWorker)
    BY <2>3, <2>4
  <2> HIDE DEF m
  <2>6. OnceEach' /\ \A n \in Range(toWorker') : n \in Range(toWorker) \/ n = m
    BY <1>1, <2>1, <2>2, <2>4, <2>5, OnceSent
  <2>7. ASSUME NEW n \in Range(toWorker') PROVE WorkerHears(n)'
    <3>1. CASE n = m
      BY <2>1, <2>3, <2>4, <3>1 DEF WorkerHears
    <3>2. CASE n \in Range(toWorker)
      BY <2>1, <2>2, <2>3, <3>2 DEF WorkerHears
    <3>3. QED
      BY <2>6, <2>7, <3>1, <3>2
  <2>8. ASSUME NEW n \in Range(toMain) PROVE MainHears(n)'
    <3>1. MainHears(n) /\ n.client \in Clients \ {c} /\ start'[n.client] = start[n.client]
      BY <2>1, <2>2, <2>3, <2>8
    <3>2. Message("init", n.client) \notin Range(toWorker')
      BY <2>4, <2>6, <3>1, MessageFacts DEF MainHears
    <3>3. QED
      BY <2>1, <3>1, <3>2 DEF MainHears
  <2>9. NativeOK'
    <3>1. registered \subseteq Clients
      BY <1>1 DEF TypeOK
    <3>2. QED
      BY <2>1, <2>2, <2>3, <3>1 DEF NativeOK
  <2>10. QED
    BY <2>1, <2>6, <2>7, <2>8, <2>9, WireIsEach
<1>7. QED
  BY <1>2, <1>3, <1>4, <1>5, <1>6

\* The main thread takes a message.
LEMMA TakesWire ==
  ASSUME Core, TypeOK', MainTakes
  PROVE  WireInv'
<1>1. PICK m \in ToMain, c \in Clients : /\ m = Head(toMain) /\ c = m.client
                                          /\ m \in Range(toMain)
                                          /\ StateOK(c) /\ CallsOK(c) /\ TypeOK
                                          /\ toMain # <<>>
  <2>1. toMain # <<>> /\ toMain \in Seq(ToMain) /\ TypeOK
    BY DEF Core, MainTakes, TypeOK
  <2>2. Head(toMain) \in ToMain /\ Head(toMain).client \in Clients
    BY <2>1, PortTypes
  <2>3. Head(toMain) \in Range(toMain)
    BY <2>1, TailRange
  <2>4. QED
    BY <2>1, <2>2, <2>3, StateIsEach, CallsAreEach DEF Core
<1>2. /\ \A n \in Range(toWorker) : WorkerHears(n) /\ n \in ToWorker /\ n.client \in Clients
      /\ \A n \in Range(toMain) : MainHears(n) /\ n \in ToMain /\ n.client \in Clients
      /\ NativeOK /\ OnceEach
  BY <1>1, WireIsEach, PortKinds DEF Core
<1>3. /\ m.kind \in {"ready", "response", "update", "fatal", "destroyed"}
      /\ m.kind \in {"fatal", "destroyed"} => c \notin native
      /\ m.kind = "ready" /\ c \in registered => m = Message("ready", c) /\ start[c] = "waiting"
      /\ c \in registered => start[c] \in {"waiting", "undoing", "done"}
      /\ m.kind = "destroyed" => start[c] # "waiting"
  BY <1>1, <1>2 DEF MainHears, NativeOK, ToMain
<1>4. \A n \in Range(toWorker) : n.client = c => n.kind # "init"
  BY <1>1, <1>2 DEF WorkerHears, MainHears
<1>5. ASSUME toMain' = Tail(toMain)
      PROVE  /\ \A d \in Clients : OnceIn(toMain', Message("ready", d))
             /\ Range(toMain') \subseteq Range(toMain)
             /\ m = Message("ready", c) => \A n \in Range(toMain') : n.client = c => n.kind # "ready"
  <2>1. /\ \A d \in Clients : OnceIn(toMain', Message("ready", d))
        /\ Range(toMain') \subseteq Range(toMain)
        /\ m = Message("ready", c) => Message("ready", c) \notin Range(toMain')
    BY <1>1, <1>2, <1>5, OnceHeard
  <2>2. ASSUME NEW n \in Range(toMain'), n.client = c, n.kind = "ready"
        PROVE  n = Message("ready", c)
    BY <1>2, <2>1, <2>2 DEF MainHears
  <2>3. QED
    BY <2>1, <2>2
<1>6. ASSUME NEW q \in Seq(ToWorker), \A n \in Range(q) : n = Message("destroy", c),
             toWorker' = toWorker \o q
      PROVE  /\ \A d \in Clients : OnceIn(toWorker', Message("init", d))
             /\ \A n \in Range(toWorker') : n \in Range(toWorker) \/ n = Message("destroy", c)
  <2>1. toWorker \in Seq(ToWorker) /\ \A d \in Clients : OnceIn(toWorker, Message("init", d))
    BY <1>1, <1>2 DEF OnceEach, TypeOK
  <2>2. \A d \in Clients : Message("init", d) \notin Range(q)
    BY <1>6, MessageFacts
  <2>3. \A n \in Range(toWorker') : n \in Range(toWorker) \cup Range(q)
    BY <1>6, <2>1, ConcatProperties, RangeConcatenation
  <2>4. QED
    BY <1>6, <2>1, <2>2, <2>3, OnceConcat
<1>7. ASSUME toWorker' = Append(toWorker, Message("destroy", c))
      PROVE  /\ \A d \in Clients : OnceIn(toWorker', Message("init", d))
             /\ \A n \in Range(toWorker') : n \in Range(toWorker) \/ n = Message("destroy", c)
  <2>1. toWorker \in Seq(ToWorker) /\ Message("destroy", c) \in ToWorker
    BY <1>1, MessageTypes DEF TypeOK
  <2>2. \A d \in Clients : OnceIn(toWorker', Message("init", d))
    <3>1. \A d \in Clients : OnceIn(toWorker, Message("init", d)) /\ Message("init", d) # Message("destroy", c)
      BY <1>2, MessageFacts DEF OnceEach
    <3>2. QED
      BY <1>7, <2>1, <3>1, OnceAppend
  <2>3. QED
    BY <1>7, <2>1, <2>2, AppendRange
<1>8. \A d \in Clients : OnceIn(toWorker, Message("init", d))
  BY <1>2 DEF OnceEach
\* What is left to show when the worker and its clients stay as they are.
<1>9. ASSUME toMain' = Tail(toMain), UNCHANGED <<native, asked>>,
             \A d \in Clients \ {c} : start'[d] = start[d] /\ (d \in registered' <=> d \in registered),
             c \in registered' => start'[c] \in {"waiting", "undoing", "done"},
             c \notin registered' => c \notin native,
             \/ start'[c] = start[c] /\ (c \in registered' => c \in registered)
             \/ /\ start'[c] \in {"undoing", "done", "rejected"}
                /\ (m.kind = "ready" /\ c \in registered) \/ c \notin registered',
             \A n \in Range(toWorker') :
               \/ n \in Range(toWorker)
               \/ n = Message("destroy", c) /\ start'[c] \in {"undoing", "done", "rejected"},
             \A d \in Clients : OnceIn(toWorker', Message("init", d))
      PROVE  WireInv'
  <2>1. native' \subseteq native /\ native' \subseteq registered' /\ \A p \in asked' : p[1] \in native'
    BY <1>1, <1>2, <1>9 DEF NativeOK, TypeOK
  <2>2. ASSUME NEW n \in Range(toWorker')
        PROVE  \/ n \in Range(toWorker) /\ n.client \in Clients \ {c}
               \/ n.client = c /\ WorkerHears(n)' /\ (n.kind = "init" => n \in Range(toWorker))
    <3>1. CASE n \in Range(toWorker) /\ n.client # c
      BY <1>2, <3>1
    <3>2. CASE n \in Range(toWorker) /\ n.client = c
      <4>1. n.kind # "init" /\ start[c] \in {"undoing", "done", "rejected"}
        BY <1>2, <1>4, <3>2 DEF WorkerHears
      <4>2. start'[c] \in {"undoing", "done", "rejected"}
        BY <1>9, <4>1
      <4>3. QED
        BY <3>2, <4>1, <4>2 DEF WorkerHears
    <3>3. CASE n = Message("destroy", c) /\ start'[c] \in {"undoing", "done", "rejected"}
      BY <3>3, MessageFacts DEF WorkerHears
    <3>4. QED
      BY <1>9, <3>1, <3>2, <3>3
  <2>3. ASSUME NEW n \in Range(toMain')
        PROVE  /\ n \in Range(toMain) /\ n.client \in Clients
               /\ n.client = c => /\ start'[c] \in {"waiting", "undoing", "done", "rejected"}
                                  /\ n.kind = "destroyed" => start'[c] # "waiting"
                                  /\ n.kind = "ready" /\ c \in registered' => start'[c] = "waiting"
    <3>1. n \in Range(toMain) /\ MainHears(n) /\ n.client \in Clients
      BY <1>2, <1>5, <1>9, <2>3
    <3>2. ASSUME n.client = c, n.kind = "ready", c \in registered' PROVE start'[c] = "waiting"
      <4>1. m.kind # "ready" \/ c \notin registered
        BY <1>3, <1>5, <1>9, <2>3, <3>2
      <4>2. start'[c] = start[c] /\ c \in registered
        BY <1>2, <1>9, <3>2, <4>1 DEF MainHears
      <4>3. QED
        BY <3>1, <3>2, <4>2 DEF MainHears
    <3>3. QED
      BY <1>9, <3>1, <3>2 DEF MainHears
  <2>4. OnceEach'
    BY <1>5, <1>9 DEF OnceEach
  <2>5. QED
    BY <1>1, <1>9, <2>1, <2>2, <2>3, <2>4, MainWire
<1>10. CASE c \notin registered
  <2>1. toMain' = Tail(toMain) /\ UNCHANGED <<native, asked, start, registered, toWorker>>
    BY <1>1, <1>10 DEF MainTakes, clientVars, transportVars
  <2>2. c \notin native
    BY <1>2, <1>10 DEF NativeOK
  <2>3. QED
    BY <1>8, <1>9, <1>10, <2>1, <2>2
<1>11. CASE c \in registered /\ m.kind = "update"
  <2>1. toMain' = Tail(toMain) /\ UNCHANGED <<native, asked, start, registered, toWorker>>
    BY <1>1, <1>11 DEF MainTakes, clientVars, transportVars
  <2>2. QED
    BY <1>3, <1>8, <1>9, <1>11, <2>1
<1>12. CASE c \in registered /\ m.kind = "ready"
  <2>1. /\ toMain' = Tail(toMain) /\ UNCHANGED <<native, asked, registered>>
        /\ Ready(c)
    BY <1>1, <1>12 DEF MainTakes
  <2>2. \A d \in Clients \ {c} : start'[d] = start[d]
    BY <1>1, <2>1, Shapes DEF Ready
  <2>3. start'[c] \in {"undoing", "done"}
    BY <1>1, <2>1, Shapes DEF Ready
  <2>4. toWorker' = toWorker \/ toWorker' = Append(toWorker, Message("destroy", c))
    BY <2>1 DEF Ready
  <2>5. QED
    BY <1>7, <1>8, <1>9, <1>12, <2>1, <2>2, <2>3, <2>4
<1>13. CASE c \in registered /\ m.kind = "response"
  <2>1. /\ toMain' = Tail(toMain) /\ UNCHANGED <<native, asked, registered, start>>
        /\ Response(c, m.call)
    BY <1>1, <1>13 DEF MainTakes
  <2>2. \/ toWorker' = toWorker
        \/ toWorker' = Append(toWorker, Message("destroy", c)) /\ <<c, "close">> \in pending
    BY <2>1 DEF Response
  <2>3. <<c, "close">> \in pending => start[c] = "done"
    BY <1>1 DEF CallsOK, StateOK
  <2>4. QED
    BY <1>3, <1>7, <1>8, <1>9, <1>13, <2>1, <2>2, <2>3
<1>14. CASE c \in registered /\ m.kind = "fatal" /\ start[c] = "waiting"
  <2>1. /\ toMain' = Tail(toMain) /\ UNCHANGED <<native, asked, toWorker>>
        /\ InitFailed(c)
    BY <1>1, <1>14 DEF MainTakes
  <2>2. /\ \A d \in Clients \ {c} : start'[d] = start[d] /\ (d \in registered' <=> d \in registered)
        /\ start'[c] = "rejected" /\ c \notin registered'
    BY <1>1, <2>1, Shapes DEF InitFailed
  <2>3. QED
    BY <1>3, <1>8, <1>9, <1>14, <2>1, <2>2
<1>15. CASE c \in registered /\ m.kind = "fatal" /\ start[c] # "waiting"
  <2>1. /\ toMain' = Tail(toMain) /\ UNCHANGED <<native, asked, registered, start>>
        /\ FatalTo(c)
    BY <1>1, <1>15 DEF MainTakes
  <2>2. start[c] \in {"undoing", "done", "rejected"}
    BY <1>3, <1>15
  <2>3. CASE Failing({c}) = {}
    <3>1. toWorker' = toWorker
      BY <2>1, <2>3 DEF FatalTo
    <3>2. QED
      BY <1>3, <1>8, <1>9, <1>15, <2>1, <3>1
  <2>4. CASE Failing({c}) # {}
    <3>1. PICK n \in {1, 2} : toWorker' = toWorker \o [i \in 1 .. n |-> Message("destroy", c)]
      BY <2>1, <2>4 DEF FatalTo
    <3> DEFINE q == [i \in 1 .. n |-> Message("destroy", c)]
    <3>2. q \in Seq(ToWorker) /\ \A k \in Range(q) : k = Message("destroy", c)
      BY <1>1, DestroyTwice
    <3> HIDE DEF q
    <3>3. toWorker' = toWorker \o q
      BY <3>1 DEF q
    <3>4. QED
      BY <1>3, <1>6, <1>9, <1>15, <2>1, <2>2, <3>2, <3>3
  <2>5. QED
    BY <2>3, <2>4
<1>16. CASE c \in registered /\ m.kind = "destroyed"
  <2>1. Destroyed(c)
    BY <1>1, <1>16 DEF MainTakes
  <2>2. /\ start' = [start EXCEPT ![c] = IF "start" \in waiting[c] THEN "rejected" ELSE start[c]]
        /\ registered' = registered \ {c}
    BY <2>1 DEF Destroyed
  <2>3. /\ \A d \in Clients \ {c} : start'[d] = start[d] /\ (d \in registered' <=> d \in registered)
        /\ c \notin registered'
    BY <1>1, <2>2, Shapes
  <2>4. start'[c] = start[c] \/ start'[c] = "rejected"
    BY <1>1, <2>2, Shapes
  <2>5. CASE registered' = {}
    <3>1. toWorker' = <<>> /\ toMain' = <<>> /\ native' = {} /\ asked' = {}
      BY <2>1, <2>5 DEF Destroyed
    <3>2. Range(toWorker') = {} /\ Range(toMain') = {} /\ OnceEach' /\ NativeOK'
      BY <2>5, <3>1 DEF Range, OnceEach, OnceIn, NativeOK
    <3>3. QED
      BY <3>2, WireIsEach
  <2>6. CASE registered' # {}
    <3>1. toMain' = Tail(toMain) /\ UNCHANGED <<toWorker, native, asked>>
      BY <2>1, <2>6 DEF Destroyed
    <3>2. QED
      BY <1>3, <1>8, <1>9, <1>16, <2>3, <2>4, <3>1
  <2>7. QED
    BY <2>5, <2>6
<1>17. QED
  BY <1>3, <1>10, <1>11, <1>12, <1>13, <1>14, <1>15, <1>16

\* The worker takes a message, or receives something from a native client.
LEMMA WorkerStepWire ==
  ASSUME Core, TypeOK',
         \/ Worker
         \/ \E c \in Clients : Sends(c) \/ Breaks(c)
  PROVE  WireInv'
<1>1. /\ \A n \in Range(toWorker) : WorkerHears(n) /\ n \in ToWorker /\ n.client \in Clients
      /\ \A n \in Range(toMain) : MainHears(n) /\ n \in ToMain /\ n.client \in Clients
      /\ NativeOK /\ OnceEach /\ TypeOK
      /\ toMain \in Seq(ToMain) /\ toWorker \in Seq(ToWorker)
  BY WireIsEach, PortKinds DEF Core, TypeOK
\* A message for the main thread that does not say "ready".
<1>2. ASSUME NEW m \in ToMain, m.kind # "ready", toMain' = Append(toMain, m)
      PROVE  /\ \A d \in Clients : OnceIn(toMain', Message("ready", d))
             /\ \A n \in Range(toMain') : n \in Range(toMain) \/ n = m
  <2>1. \A d \in Clients : OnceIn(toMain, Message("ready", d)) /\ m # Message("ready", d)
    BY <1>1, <1>2, MessageFacts DEF OnceEach
  <2>2. \A d \in Clients : OnceIn(toMain', Message("ready", d))
    BY <1>1, <1>2, <2>1, OnceAppend
  <2>3. QED
    BY <1>1, <1>2, <2>2, AppendRange
\* What a native client says.
<1>3. ASSUME NEW c \in native, NEW m \in ToMain, m.client = c, m.kind \notin {"ready", "destroyed"},
             toMain' = Append(toMain, m),
             UNCHANGED <<start, registered, toWorker>>,
             native' = (IF m.kind = "fatal" THEN native \ {c} ELSE native),
             \A p \in asked' : p \in asked /\ (m.kind = "fatal" => p[1] # c)
      PROVE  WireInv'
  <2>1. c \in Clients /\ start[c] \in {"waiting", "undoing", "done", "rejected"}
    BY <1>1 DEF NativeOK, TypeOK
  <2>2. Message("init", c) \notin Range(toWorker)
    BY <1>1, MessageFacts DEF WorkerHears
  <2>3. MainHears(m)'
    BY <1>3, <2>1, <2>2 DEF MainHears
  <2>4. OnceEach' /\ \A n \in Range(toMain') : n \in Range(toMain) \/ n = m
    BY <1>1, <1>2, <1>3 DEF OnceEach
  <2>5. native' \subseteq native /\ native' \subseteq registered /\ \A p \in asked' : p[1] \in native'
    BY <1>1, <1>3 DEF NativeOK
  <2>6. QED
    BY <1>3, <2>1, <2>2, <2>3, <2>4, <2>5, WorkerWire
<1>4. ASSUME NEW c \in Clients, Sends(c) PROVE WireInv'
  <2> DEFINE m == Message("update", c)
  <2>1. m \in ToMain /\ m.client = c /\ m.kind = "update"
    BY MessageTypes, MessageFacts
  <2>2. /\ c \in native /\ toMain' = Append(toMain, m)
        /\ UNCHANGED <<start, registered, toWorker, native, asked>>
    BY <1>4 DEF Sends, clientVars, transportVars
  <2> HIDE DEF m
  <2>3. QED
    BY <1>3, <2>1, <2>2
<1>5. ASSUME NEW c \in Clients, Breaks(c) PROVE WireInv'
  <2> DEFINE m == Message("fatal", c)
  <2>1. m \in ToMain /\ m.client = c /\ m.kind = "fatal"
    BY MessageTypes, MessageFacts
  <2>2. /\ c \in native /\ toMain' = Append(toMain, m) /\ native' = native \ {c}
        /\ asked' = {p \in asked : p[1] # c}
        /\ UNCHANGED <<start, registered, toWorker>>
    BY <1>5 DEF Breaks, WorkerFails, clientVars, transportVars
  <2> HIDE DEF m
  <2>3. QED
    BY <1>3, <2>1, <2>2
<1>6. ASSUME NEW c \in Clients, NEW q \in Requests, Answer(c, q) PROVE WireInv'
  <2> DEFINE m == [kind |-> "response", client |-> c, call |-> q]
  <2>1. m \in ToMain /\ m.client = c /\ m.kind = "response"
    BY MessageTypes
  <2>2. /\ <<c, q>> \in asked /\ toMain' = Append(toMain, m) /\ asked' \subseteq asked
        /\ UNCHANGED <<start, registered, toWorker, native>>
    BY <1>6 DEF Answer, clientVars, transportVars
  <2>3. c \in native
    BY <1>1, <2>2 DEF NativeOK
  <2> HIDE DEF m
  <2>4. QED
    BY <1>3, <2>1, <2>2, <2>3
<1>7. ASSUME NEW ok \in BOOLEAN, WorkerTakes(ok) PROVE WireInv'
  <2>1. PICK m \in ToWorker, c \in Clients : /\ m = Head(toWorker) /\ c = m.client
                                            /\ m \in Range(toWorker) /\ toWorker # <<>>
    BY <1>1, <1>7, TailRange DEF WorkerTakes
  <2>2. /\ UNCHANGED <<start, registered>> /\ toWorker' = Tail(toWorker)
        /\ Range(toWorker') \subseteq Range(toWorker)
        /\ WorkerHears(m) /\ m.kind \in {"init", "send", "destroy"}
    BY <1>1, <1>7, <2>1, TailRange DEF WorkerTakes, clientVars, ToWorker
  <2>3. /\ \A d \in Clients : OnceIn(toWorker', Message("init", d))
        /\ Message("init", c) \notin Range(toWorker')
    <3>1. \A d \in Clients : OnceIn(toWorker, Message("init", d))
      BY <1>1 DEF OnceEach
    <3>2. \A d \in Clients : /\ OnceIn(toWorker', Message("init", d))
                             /\ m = Message("init", d) => Message("init", d) \notin Range(toWorker')
      BY <1>1, <2>1, <2>2, <3>1, OnceTail
    <3>3. CASE m.kind = "init"
      BY <2>1, <2>2, <3>2, <3>3 DEF WorkerHears
    <3>4. CASE m.kind # "init"
      <4>1. start[c] # "waiting"
        BY <2>1, <2>2, <3>4 DEF WorkerHears
      <4>2. Message("init", c) \notin Range(toWorker)
        BY <1>1, <4>1, MessageFacts DEF WorkerHears
      <4>3. QED
        BY <2>2, <3>2, <4>2
    <3>5. QED
      BY <3>2, <3>3, <3>4
  \* The client loses what it has, or has nothing to lose.
  <2>4. ASSUME NEW k \in {"fatal", "destroyed"}, k = "destroyed" => m.kind = "destroy",
               toMain' = Append(toMain, Message(k, c)), native' = native \ {c},
               asked' = {p \in asked : p[1] # c}
        PROVE  WireInv'
    <3>1. Message(k, c) \in ToMain /\ Message(k, c).client = c /\ Message(k, c).kind = k
      BY MessageTypes, MessageFacts
    <3>2. OnceEach' /\ \A n \in Range(toMain') : n \in Range(toMain) \/ n = Message(k, c)
      BY <1>2, <2>3, <2>4, <3>1 DEF OnceEach
    <3>3. /\ start[c] \in {"waiting", "undoing", "done", "rejected"}
          /\ k = "destroyed" => start[c] # "waiting"
      BY <2>1, <2>2, <2>4 DEF WorkerHears
    <3>4. MainHears(Message(k, c))'
      <4>1. /\ start' = start /\ c \notin native' /\ k # "ready"
            /\ Message("init", c) \notin Range(toWorker')
        BY <2>2, <2>3, <2>4
      <4>2. PICK n : n = Message(k, c)
        OBVIOUS
      <4>3. MainHears(n)'
        BY <3>1, <3>3, <4>1, <4>2 DEF MainHears
      <4>4. QED
        BY <4>2, <4>3
    <3>5. /\ native' \subseteq native /\ native' \subseteq registered
          /\ \A p \in asked' : p[1] \in native'
      BY <1>1, <2>4 DEF NativeOK
    <3>6. QED
      BY <2>2, <2>3, <3>1, <3>2, <3>4, <3>5, WorkerWire
  <2>5. CASE m.kind = "init" /\ ok
    <3>1. native' = native \cup {c} /\ toMain' = Append(toMain, Message("ready", c)) /\ asked' = asked
      BY <1>7, <2>1, <2>5 DEF WorkerTakes
    <3>2. start[c] = "waiting" /\ c \in registered \ native
      BY <2>1, <2>2, <2>5 DEF WorkerHears
    <3>3. \A n \in Range(toMain) : n.client # c
      BY <1>1, <2>1, <2>2, <2>5 DEF WorkerHears, MainHears
    <3>4. Message("ready", c) \in ToMain /\ Message("ready", c).client = c
      BY MessageTypes, MessageFacts
    <3>5. OnceEach' /\ \A n \in Range(toMain') : n \in Range(toMain) \/ n = Message("ready", c)
      <4>1. Message("ready", c) \notin Range(toMain) /\ \A d \in Clients : OnceIn(toMain, Message("ready", d))
        BY <1>1, <3>3, <3>4 DEF OnceEach
      <4>2. \A d \in Clients : OnceIn(toMain', Message("ready", d))
        BY <1>1, <3>1, <3>4, <4>1, OnceAppend
      <4>3. QED
        BY <1>1, <2>3, <3>1, <3>4, <4>2, AppendRange DEF OnceEach
    <3>6. MainHears(Message("ready", c))'
      <4>1. PICK n : n = Message("ready", c)
        OBVIOUS
      <4>2. MainHears(n)'
        BY <2>2, <2>3, <3>2, <3>4, <4>1, MessageFacts DEF MainHears
      <4>3. QED
        BY <4>1, <4>2
    <3>7. /\ native' \subseteq native \cup {c} /\ native' \subseteq registered
          /\ \A p \in asked' : p[1] \in native'
      BY <1>1, <3>1, <3>2 DEF NativeOK
    <3>8. QED
      BY <2>2, <2>3, <3>3, <3>4, <3>5, <3>6, <3>7, WorkerWire
  <2>6. CASE (m.kind = "init" /\ ~ok) \/ (m.kind = "send" /\ c \notin native)
    <3>1. WorkerFails(c)
      BY <1>7, <2>1, <2>6 DEF WorkerTakes
    <3>2. QED
      BY <2>4, <3>1 DEF WorkerFails
  <2>7. CASE m.kind = "send" /\ c \in native
    <3>1. asked' = asked \cup {<<c, m.call>>} /\ UNCHANGED <<native, toMain>>
      BY <1>7, <2>1, <2>7 DEF WorkerTakes
    <3>2. OnceEach'
      BY <1>1, <2>3, <3>1 DEF OnceEach
    <3>3. native \subseteq registered /\ \A p \in asked' : p[1] \in native'
      BY <1>1, <2>7, <3>1 DEF NativeOK
    <3>4. QED
      BY <2>2, <2>3, <3>1, <3>2, <3>3, WorkerWire
  <2>8. CASE m.kind = "destroy"
    <3>1. /\ native' = native \ {c} /\ asked' = {p \in asked : p[1] # c}
          /\ toMain' = Append(toMain, Message("destroyed", c))
      BY <1>7, <2>1, <2>8 DEF WorkerTakes
    <3>2. QED
      BY <2>4, <2>8, <3>1
  <2>9. QED
    BY <2>2, <2>5, <2>6, <2>7, <2>8
<1>8. QED
  BY <1>4, <1>5, <1>6, <1>7 DEF Worker

LEMMA WireStep == Core /\ TypeOK' /\ [Next]_vars => WireInv'
<1> SUFFICES ASSUME Core, TypeOK', [Next]_vars PROVE WireInv'
  OBVIOUS
<1>1. CASE WorkerDies
  <2>1. Range(toWorker') = {} /\ Range(toMain') = {} /\ OnceEach' /\ NativeOK'
    BY <1>1 DEF WorkerDies, Range, OnceEach, OnceIn, NativeOK
  <2>2. QED
    BY <2>1, WireIsEach
<1>2. CASE UNCHANGED vars
  BY <1>2 DEF vars, clientVars, transportVars, workerVars, Core, WireInv, OnceIn
<1>3. QED
  BY <1>1, <1>2, MovesWire, TakesWire, WorkerStepWire DEF Next

-----------------------------------------------------------------------------
(* The theorems *)

LEMMA InitFacts == Init => IInv
<1> SUFFICES ASSUME Init PROVE IInv
  OBVIOUS
<1> USE DEF Init
<1>1. TypeOK
  <2>1. /\ <<>> \in Seq(Nat) /\ <<>> \in Seq(ToWorker) /\ <<>> \in Seq(ToMain)
        /\ Len(<<>>) <= MaxQueueSize /\ 0 \in 0 .. MaxBreaks
        /\ {} \in SUBSET {"start", "close", "release"}
    BY EmptySeq, TdlibAssumption
  <2>2. /\ queue \in [Clients -> Seq(Nat)] /\ \A c \in Clients : Len(queue[c]) <= MaxQueueSize
        /\ waiting \in [Clients -> SUBSET {"start", "close", "release"}]
    BY <2>1
  <2>3. active \subseteq Clients
    OBVIOUS
  <2>4. /\ toWorker \in Seq(ToWorker) /\ toMain \in Seq(ToMain) /\ breaks \in 0 .. MaxBreaks
        /\ arrived \in [Clients -> Nat] /\ seen \in [Clients -> Nat]
    BY <2>1
  <2>5. QED
    BY <2>2, <2>3, <2>4 DEF TypeOK
<1>2. StateInv
  BY DEF StateInv
<1>3. WireInv
  <2>1. Range(toWorker) = {} /\ Range(toMain) = {}
    BY DEF Range
  <2>2. OnceEach
    BY DEF OnceEach, OnceIn
  <2>3. NativeOK
    BY DEF NativeOK
  <2>4. QED
    BY <2>1, <2>2, <2>3, WireIsEach
<1>4. NoCallLeftBehind
  BY DEF NoCallLeftBehind
<1>5. SeenInv
  BY DEF SeenInv
<1>6. NoGap
  <2>1. [i \in 1 .. 0 - 0 |-> 0 + i] = <<>>
    BY CountNone
  <2>2. \A c \in active : queue[c] = <<>> /\ seen[c] = 0 /\ arrived[c] = 0
    OBVIOUS
  <2>3. \A c \in active : Dense(queue[c], seen[c], arrived[c])
    BY <2>1, <2>2 DEF Dense
  <2>4. QED
    BY <2>2, <2>3, NoGapIsDense
<1>7. QED
  BY <1>1, <1>2, <1>3, <1>4, <1>5, <1>6 DEF IInv

\* Every step keeps the invariant, part by part.
LEMMA InductiveStep == IInv /\ [Next]_vars => IInv'
<1> SUFFICES ASSUME IInv, [Next]_vars PROVE IInv'
  OBVIOUS
<1>1. UpdatesOK /\ Core
  BY DEF IInv, UpdatesOK, Core
<1>2. TypeOK'
  BY <1>1, TypeStep DEF Core
<1>3. SeenInv' /\ NoGap'
  BY <1>1, UpdatesStep DEF Kept
<1>4. StateInv' /\ NoCallLeftBehind' /\ WireInv'
  BY <1>1, <1>2, StateStep, WireStep
<1>5. QED
  BY <1>2, <1>3, <1>4 DEF IInv

\* Where each client has come to, the messages under way, the calls and the
\* updates are together inductive.
THEOREM Invariance == Spec => []IInv
<1>1. Init => IInv
  BY InitFacts
<1>2. QED
  BY <1>1, InductiveStep, PTL DEF Spec

\* The fields of the clients, the transport and the worker keep their types, and
\* no queue grows over its limit.
THEOREM TypeCorrect == Spec => []TypeOK
<1>1. IInv => TypeOK
  BY DEF IInv
<1>2. QED
  BY <1>1, Invariance, PTL

\* However a failure, a close and the death of the worker cross, each call of a
\* client that has ended or failed has been answered.
THEOREM NoCallStays == Spec => []NoCallLeftBehind
<1>1. IInv => NoCallLeftBehind
  BY DEF IInv
<1>2. QED
  BY <1>1, Invariance, PTL

\* The handler of a subscription sees the updates without a gap.
THEOREM NoUpdateSkipped == Spec => []NoGap
<1>1. IInv => NoGap
  BY DEF IInv
<1>2. QED
  BY <1>1, Invariance, PTL

\* After close() a client that is not being started has no native client and
\* none on its way.
LEMMA ClosedHoldsNone ==
  ASSUME IInv
  PROVE  \A c \in Clients :
           close[c] = "done" /\ start[c] \notin {"verifying", "waiting", "undoing"} => ~Holds(c)
<1> SUFFICES ASSUME NEW c \in Clients, close[c] = "done",
                    start[c] \notin {"verifying", "waiting", "undoing"}
             PROVE  ~Holds(c)
  OBVIOUS
<1>1. /\ \A m \in Range(toWorker) : WorkerHears(m)
      /\ NativeOK /\ StateOK(c)
  BY WireIsEach, StateIsEach DEF IInv
<1>2. c \notin native
  BY <1>1 DEF NativeOK, StateOK
<1>3. Message("init", c) \notin Range(toWorker)
  BY <1>1, MessageFacts DEF WorkerHears
<1>4. QED
  BY <1>2, <1>3 DEF Holds, Range

\* The worker is terminated with the last record, which has just lost its native
\* client.
LEMMA TerminatedHoldsNone ==
  ASSUME IInv, [Next]_vars, alive, ~alive', breaks' = breaks
  PROVE  native = {} /\ \A i \in DOMAIN toWorker : toWorker[i].kind # "init"
<1>1. MainTakes
  <2>1. CASE WorkerDies
    <3>1. breaks \in Nat /\ breaks' = breaks + 1
      BY <2>1, TdlibAssumption DEF WorkerDies, IInv, TypeOK
    <3>2. QED
      BY <3>1
  <2>2. ASSUME NEW c \in Clients,
               \/ Start(c) \/ Verified(c) \/ NotVerified(c) \/ Close(c) \/ Unsubscribe(c)
               \/ Sends(c) \/ Breaks(c)
               \/ \E ok \in BOOLEAN : HandlerEnds(c, ok)
               \/ \E q \in Calls : Invoke(c, q) \/ Abort(c, q)
        PROVE  FALSE
    BY <2>2 DEF Start, Verified, NotVerified, Close, Unsubscribe, Sends, Breaks, HandlerEnds,
                Invoke, Abort, transportVars
  <2>3. CASE Worker
    BY <2>3 DEF Worker, WorkerTakes, Answer, transportVars
  <2>4. CASE UNCHANGED vars
    BY <2>4 DEF vars, transportVars
  <2>5. QED
    BY <2>1, <2>2, <2>3, <2>4 DEF Next
<1>2. PICK m \in Range(toMain) : /\ m = Head(toMain) /\ m.kind = "destroyed"
                                 /\ m.client \in registered /\ registered \ {m.client} = {}
  <2>1. Head(toMain) \in Range(toMain)
    BY <1>1, TailRange DEF MainTakes, IInv, TypeOK
  <2>2. Head(toMain).client \in registered /\ Head(toMain).kind = "destroyed"
    BY <1>1 DEF MainTakes, transportVars
  <2>3. Destroyed(Head(toMain).client)
    BY <1>1, <2>2 DEF MainTakes
  <2>4. QED
    BY <2>1, <2>2, <2>3 DEF Destroyed
<1>3. /\ \A n \in Range(toWorker) : WorkerHears(n)
      /\ MainHears(m) /\ NativeOK
  BY <1>2, WireIsEach DEF IInv
<1>4. native = {}
  BY <1>2, <1>3 DEF MainHears, NativeOK
<1>5. ASSUME NEW n \in Range(toWorker), n.kind = "init" PROVE FALSE
  <2>1. n = Message("init", n.client) /\ n.client \in registered
    BY <1>3, <1>5 DEF WorkerHears
  <2>2. n.client = m.client
    BY <1>2, <2>1
  <2>3. QED
    BY <1>3, <1>5, <2>1, <2>2 DEF MainHears
<1>6. QED
  BY <1>4, <1>5 DEF Range

\* A native client is released by its own end and by nobody else's: it is gone
\* when close() has resolved, and the thread is terminated only when it holds none.
THEOREM NativesReleased == Spec => NativeReleased
<1>1. IInv => \A c \in Clients :
                close[c] = "done" /\ start[c] \notin {"verifying", "waiting", "undoing"} => ~Holds(c)
  BY ClosedHoldsNone
<1>2. IInv /\ [Next]_vars =>
        [alive /\ ~alive' /\ breaks' = breaks =>
           native = {} /\ \A i \in DOMAIN toWorker : toWorker[i].kind # "init"]_vars
  BY TerminatedHoldsNone
<1>3. QED
  BY <1>1, <1>2, Invariance, PTL DEF Spec, NativeReleased

-----------------------------------------------------------------------------
(* The client service *)

\* What PromiseInv and RecordInv say of one client, and of the messages.
PromiseOK(c) ==
  /\ state[c] = "started" => close[c] = "none"
  /\ close[c] = "asking" => state[c] = "closing"
  /\ close[c] = "destroying" <=> "close" \in waiting[c]
  /\ state[c] = "closing" => close[c] \in {"asking", "destroying"}
  /\ <<c, "close">> \in pending => close[c] = "asking"
  /\ start[c] = "undoing" => state[c] \in {"closed", "failed"} /\ "start" \in waiting[c]
  /\ release[c] = "destroying" \/ close[c] \in {"asking", "destroying", "awaiting"} =>
       start[c] = "done"
RecordOK(c) ==
  /\ state[c] \in {"started", "closing"} \/ start[c] \in {"waiting", "undoing"} => c \in registered
  /\ waiting[c] # {} => /\ state[c] \notin {"created", "started"}
                        /\ state[c] = "closing" => "close" \in waiting[c]
AwaitedOK(m) ==
  m.kind \in {"destroy", "destroyed"} /\ m.client \in registered => waiting[m.client] # {}

ServiceInv == IInv /\ PromiseInv /\ RecordInv

\* The two invariants, client by client and message by message.
LEMMA ServiceIsEach ==
  /\ PromiseInv <=> \A c \in Clients : PromiseOK(c)
  /\ PromiseInv' <=> \A c \in Clients : PromiseOK(c)'
  /\ RecordInv <=> /\ \A c \in Clients : RecordOK(c)
                   /\ \A m \in Range(toWorker) \cup Range(toMain) : AwaitedOK(m)
  /\ RecordInv' <=> /\ \A c \in Clients : RecordOK(c)'
                    /\ \A m \in Range(toWorker') \cup Range(toMain') : AwaitedOK(m)'
  BY DEF PromiseInv, RecordInv, PromiseOK, RecordOK, AwaitedOK

\* All that is known of one client.
Known(c) ==
  /\ PromiseOK(c) /\ RecordOK(c) /\ StateOK(c)
  /\ \A q \in Requests : <<c, q>> \in pending => state[c] \in {"started", "closing"}
  /\ c \in registered => start[c] \in {"waiting", "undoing", "done"}
  /\ Holds(c) => start[c] \in {"waiting", "undoing", "done"}
  /\ start[c] = "done" /\ (close[c] = "done" \/ release[c] = "done") => ~Holds(c)

LEMMA HoldsIs ==
  \A c : /\ Holds(c) <=> c \in native \/ Message("init", c) \in Range(toWorker)
         /\ Holds(c)' <=> c \in native' \/ Message("init", c) \in Range(toWorker')
  BY DEF Holds, Range

\* ServiceInv says all of that of each client.
LEMMA AllKnown == ServiceInv => \A c \in Clients : Known(c)
<1> SUFFICES ASSUME ServiceInv, NEW c \in Clients PROVE Known(c)
  OBVIOUS
<1>1. PromiseOK(c) /\ RecordOK(c) /\ StateOK(c)
  BY ServiceIsEach, StateIsEach DEF ServiceInv, IInv
<1>2. \A q \in Requests : <<c, q>> \in pending => state[c] \in {"started", "closing"}
  BY DEF ServiceInv, IInv, NoCallLeftBehind
<1>3. NativeOK /\ \A m \in Range(toWorker) : WorkerHears(m)
  BY WireIsEach DEF ServiceInv, IInv
<1>4. Message("init", c) \in Range(toWorker) => start[c] = "waiting"
  BY <1>3, MessageFacts DEF WorkerHears
<1>5. QED
  BY <1>1, <1>2, <1>3, <1>4, HoldsIs DEF Known, NativeOK, StateOK

\* A client that a step leaves alone.
Left(c) ==
  /\ state'[c] = state[c] /\ start'[c] = start[c] /\ close'[c] = close[c]
  /\ release'[c] = release[c] /\ waiting'[c] = waiting[c]
  /\ c \in registered' <=> c \in registered
  /\ \A q \in Requests : <<c, q>> \in pending' <=> <<c, q>> \in pending
  /\ Holds(c)' <=> Holds(c)

\* What has to be shown of each client.
Serves(c) == PromiseOK(c)' /\ RecordOK(c)' /\ Service!Step(c)

LEMMA LeftServes ==
  ASSUME NEW c \in Clients, Known(c), Left(c)
  PROVE  Serves(c)
<1>1. "close" \in Requests /\ Calls \subseteq Requests
  BY DEF Requests
<1>2. PromiseOK(c)' /\ RecordOK(c)'
  BY <1>1 DEF Known, Left, PromiseOK, RecordOK
<1>3. /\ StartOf(c)' = StartOf(c) /\ CloseOf(c)' = CloseOf(c) /\ ServiceOf(c)' = ServiceOf(c)
      /\ OpenOf(c)' = OpenOf(c) /\ LeaseOf(c)' = LeaseOf(c)
  BY <1>1 DEF Left, StartOf, CloseOf, ServiceOf, OpenOf, LeaseOf
<1>4. QED
  BY <1>2, <1>3 DEF Serves, Service!Step

\* Sending something that is not "init" makes no native client.
LEMMA SentHolds ==
  ASSUME TypeOK, NEW m \in ToWorker, toWorker' = Append(toWorker, m), native' = native
  PROVE  \A d : d # m.client \/ m.kind # "init" => (Holds(d)' <=> Holds(d))
<1>1. Range(toWorker') = Range(toWorker) \cup {m}
  BY AppendRange DEF TypeOK
<1>2. QED
  BY <1>1, HoldsIs, MessageFacts

\* start(), and an artifact that does not match.
LEMMA StartServes ==
  ASSUME TypeOK, NEW c \in Clients, Known(c), Start(c) \/ NotVerified(c)
  PROVE  Serves(c) /\ \A d \in Clients \ {c} : Left(d)
<1>1. \A d : Holds(d)' <=> Holds(d)
  BY HoldsIs DEF Start, NotVerified, transportVars, workerVars
<1>2. \A d \in Clients \ {c} : Left(d)
  BY <1>1, Shapes DEF Start, NotVerified, transportVars, Left
<1>3. CASE Start(c)
  <2>1. /\ state' = state /\ start[c] = "none" /\ start'[c] = "verifying" /\ state[c] = "created"
        /\ UNCHANGED <<close, release, pending, waiting, registered>>
    BY <1>3, Shapes DEF Start, transportVars
  <2>2. PromiseOK(c)' /\ RecordOK(c)'
    BY <2>1 DEF Known, PromiseOK, RecordOK
  <2>3. close[c] = "none"
    BY <2>1 DEF Known, StateOK
  <2>4. /\ StartOf(c) = "none" /\ CloseOf(c) = "none" /\ StartOf(c)' = "pending"
        /\ UNCHANGED <<CloseOf(c), ServiceOf(c), OpenOf(c), LeaseOf(c)>>
    BY <2>1, <2>3 DEF StartOf, CloseOf, ServiceOf, OpenOf, LeaseOf, Promise
  <2>5. Service!Starts(c)
    BY <2>4 DEF Service!Starts
  <2>6. QED
    BY <1>2, <2>2, <2>5 DEF Serves, Service!Step
<1>4. CASE NotVerified(c)
  <2>1. /\ start[c] = "verifying" /\ start'[c] = "rejected"
        /\ state'[c] = IF state[c] = "created" THEN "failed" ELSE state[c]
        /\ release'[c] = IF state[c] = "created" THEN "done" ELSE release[c]
        /\ UNCHANGED <<close, pending, waiting, registered>>
    BY <1>4, Shapes DEF NotVerified, transportVars
  <2>2. PromiseOK(c)' /\ RecordOK(c)'
    BY <2>1 DEF Known, PromiseOK, RecordOK
  <2>3. state[c] \notin {"started", "closing"} /\ ~Holds(c)
    BY <2>1 DEF Known, StateOK
  <2>4. OpenOf(c)' = {}
    BY <2>1, <2>3 DEF Known, Requests, OpenOf
  <2>5. /\ StartOf(c) = "pending" /\ StartOf(c)' = "rejected" /\ CloseOf(c)' = CloseOf(c)
        /\ ServiceOf(c)' = "over" /\ LeaseOf(c)' = "gone"
    BY <1>1, <2>1, <2>3 DEF StartOf, CloseOf, ServiceOf, LeaseOf, Promise
  <2>6. Service!Ends(c)
    BY <2>4, <2>5 DEF Service!Ends
  <2>7. QED
    BY <1>2, <2>2, <2>6 DEF Serves, Service!Step
<1>5. QED
  BY <1>3, <1>4

\* The record and "init": the native client is leased.
LEMMA VerifiedServes ==
  ASSUME TypeOK, NEW c \in Clients, Known(c), Verified(c)
  PROVE  Serves(c) /\ \A d \in Clients \ {c} : Left(d)
<1>1. /\ start[c] = "verifying" /\ start'[c] = "waiting" /\ registered' = registered \cup {c}
      /\ UNCHANGED <<state, close, release, pending, waiting, native>>
      /\ \A d \in Clients \ {c} : start'[d] = start[d]
  BY Shapes DEF Verified, workerVars
<1>2. /\ toWorker' = Append(toWorker, Message("init", c)) /\ toWorker \in Seq(ToWorker)
      /\ Message("init", c) \in ToWorker
  BY MessageTypes DEF Verified, TypeOK
<1>3. (\A d \in Clients \ {c} : Holds(d)' <=> Holds(d)) /\ Holds(c)'
  BY <1>1, <1>2, AppendRange, HoldsIs, MessageFacts
<1>4. \A d \in Clients \ {c} : Left(d)
  BY <1>1, <1>3 DEF Left
<1>5. PromiseOK(c)' /\ RecordOK(c)'
  BY <1>1, Shapes DEF Known, PromiseOK, RecordOK
<1>6. /\ StartOf(c) = "pending" /\ LeaseOf(c) = "none" /\ LeaseOf(c)' = "held"
      /\ UNCHANGED <<StartOf(c), CloseOf(c), ServiceOf(c), OpenOf(c)>>
  BY <1>1, <1>3 DEF StartOf, CloseOf, ServiceOf, OpenOf, LeaseOf, Promise
<1>7. Service!Leases(c)
  BY <1>6 DEF Service!Leases
<1>8. QED
  BY <1>4, <1>5, <1>7 DEF Serves, Service!Step

\* Steps that concern no promise, in which a native client may go.
LEMMA QuietServes ==
  ASSUME NEW c \in Clients, Known(c), UNCHANGED <<clientVars, registered, waiting>>,
         Holds(c)' => Holds(c)
  PROVE  Serves(c)
<1>1. PromiseOK(c)' /\ RecordOK(c)'
  BY DEF Known, PromiseOK, RecordOK, clientVars
<1>2. UNCHANGED <<StartOf(c), CloseOf(c), ServiceOf(c), OpenOf(c)>>
  BY DEF StartOf, CloseOf, ServiceOf, OpenOf, clientVars
<1>3. CASE LeaseOf(c)' = LeaseOf(c)
  BY <1>1, <1>2, <1>3 DEF Serves, Service!Step
<1>4. CASE LeaseOf(c)' # LeaseOf(c)
  <2>1. LeaseOf(c) = "held" /\ LeaseOf(c)' = "gone"
    BY <1>4 DEF LeaseOf, clientVars
  <2>2. Service!Loses(c)
    BY <1>2, <2>1 DEF Service!Loses
  <2>3. QED
    BY <1>1, <2>2 DEF Serves, Service!Step
<1>5. QED
  BY <1>3, <1>4

\* A call, and the end of the wait for one.
LEMMA CallServes ==
  ASSUME TypeOK, NEW c \in Clients, Known(c), NEW q \in Calls, Invoke(c, q) \/ Abort(c, q)
  PROVE  Serves(c) /\ \A d \in Clients \ {c} : Left(d)
<1>0. q # "close"
  BY TdlibAssumption
<1>1. /\ UNCHANGED <<state, start, close, release, waiting, registered, native>>
      /\ \A d \in Clients \ {c} : \A r : <<d, r>> \in pending' <=> <<d, r>> \in pending
      /\ <<c, "close">> \in pending' <=> <<c, "close">> \in pending
  BY <1>0 DEF Invoke, Abort, transportVars, workerVars
<1>2. \A d : Holds(d)' <=> Holds(d)
  <2>1. CASE Abort(c, q)
    BY <2>1, HoldsIs DEF Abort, transportVars, workerVars
  <2>2. CASE Invoke(c, q)
    <3> DEFINE m == [kind |-> "send", client |-> c, call |-> q]
    <3>1. m \in ToWorker /\ m.kind # "init"
      BY DEF ToWorker, Requests
    <3>2. toWorker' = Append(toWorker, m)
      BY <2>2 DEF Invoke
    <3>3. QED
      BY <1>1, <3>1, <3>2, SentHolds
  <2>3. QED
    BY <2>1, <2>2
<1>3. \A d \in Clients \ {c} : Left(d)
  BY <1>1, <1>2 DEF Left
<1>4. PromiseOK(c)' /\ RecordOK(c)'
  BY <1>1 DEF Known, PromiseOK, RecordOK
<1>5. UNCHANGED <<StartOf(c), CloseOf(c), ServiceOf(c), LeaseOf(c)>>
  BY <1>1, <1>2 DEF StartOf, CloseOf, ServiceOf, LeaseOf
<1>6. CASE Invoke(c, q)
  <2>1. ServiceOf(c) = "up" /\ OpenOf(c)' = OpenOf(c) \cup {q}
    BY <1>6 DEF Invoke, ServiceOf, OpenOf
  <2>2. Service!Asks(c)
    BY <1>5, <2>1 DEF Service!Asks
  <2>3. QED
    BY <1>3, <1>4, <2>2 DEF Serves, Service!Step
<1>7. CASE Abort(c, q)
  <2>1. q \in OpenOf(c) /\ OpenOf(c)' = OpenOf(c) \ {q}
    BY <1>7 DEF Abort, OpenOf
  <2>2. Service!Answers(c)
    BY <1>5, <2>1 DEF Service!Answers
  <2>3. QED
    BY <1>3, <1>4, <2>2 DEF Serves, Service!Step
<1>8. QED
  BY <1>6, <1>7

\* close(), up to its first wait.
LEMMA CloseServes ==
  ASSUME TypeOK, NEW c \in Clients, Known(c), Close(c)
  PROVE  Serves(c) /\ \A d \in Clients \ {c} : Left(d)
<1>0. state[c] \in {"created", "started", "failed"} /\ close[c] = "none"
  BY Shapes DEF Close, Known, StateOK
<1>1. /\ UNCHANGED <<start, release, waiting, registered, native>>
      /\ \A d \in Clients \ {c} : state'[d] = state[d] /\ close'[d] = close[d]
      /\ \A d, q : d # c \/ q # "close" => (<<d, q>> \in pending' <=> <<d, q>> \in pending)
  <2>1. CASE state[c] = "created"
    BY <2>1, Shapes DEF Close, workerVars
  <2>2. CASE state[c] = "started"
    BY <2>2, Shapes DEF Close, workerVars
  <2>3. CASE state[c] = "failed"
    BY <2>3, Shapes DEF Close, workerVars
  <2>4. QED
    BY <1>0, <2>1, <2>2, <2>3
<1>2. \A d : Holds(d)' <=> Holds(d)
  <2> DEFINE m == [kind |-> "send", client |-> c, call |-> "close"]
  <2>1. m \in ToWorker /\ m.kind # "init"
    BY DEF ToWorker, Requests
  <2>2. toWorker' = toWorker \/ toWorker' = Append(toWorker, m)
    BY <1>0 DEF Close
  <2>3. QED
    BY <1>1, <2>1, <2>2, SentHolds, HoldsIs
<1>3. \A d \in Clients \ {c} : Left(d)
  BY <1>1, <1>2 DEF Left
<1>4. "close" \notin Calls /\ \A q \in Calls : <<c, q>> \in pending' <=> <<c, q>> \in pending
  BY <1>1, TdlibAssumption
<1>5. UNCHANGED <<StartOf(c), OpenOf(c), LeaseOf(c)>> /\ CloseOf(c) = "none"
  BY <1>0, <1>1, <1>2, <1>4 DEF StartOf, CloseOf, OpenOf, LeaseOf, Promise
<1>6. CASE state[c] = "started"
  <2>1. state'[c] = "closing" /\ close'[c] = "asking" /\ start[c] = "done"
    BY <1>6, Shapes DEF Close, Known, StateOK
  <2>2. PromiseOK(c)' /\ RecordOK(c)'
    BY <1>1, <1>6, <2>1 DEF Known, PromiseOK, RecordOK
  <2>3. CloseOf(c)' = "pending" /\ ServiceOf(c)' = "over" /\ StartOf(c) = "fulfilled"
    BY <2>1 DEF CloseOf, ServiceOf, StartOf, Promise
  <2>4. Service!Closes(c)
    BY <1>5, <2>3 DEF Service!Closes
  <2>5. QED
    BY <1>3, <2>2, <2>4 DEF Serves, Service!Step
<1>7. CASE state[c] = "created"
  <2>1. state'[c] = "closed" /\ close'[c] = "done" /\ pending' = pending /\ start[c] # "done"
    BY <1>7, Shapes DEF Close, Known, StateOK
  <2>2. PromiseOK(c)' /\ RecordOK(c)'
    BY <1>1, <1>7, <2>1 DEF Known, PromiseOK, RecordOK
  <2>3. /\ CloseOf(c)' = "fulfilled" /\ ServiceOf(c)' = "over" /\ ServiceOf(c) # "up"
        /\ StartOf(c) \in {"none", "pending"} \/ LeaseOf(c) = "gone"
    BY <1>7, <2>1, Shapes DEF Known, CloseOf, ServiceOf, StartOf, LeaseOf, Promise
  <2>4. Service!Closes(c)
    BY <1>5, <2>3 DEF Service!Closes
  <2>5. QED
    BY <1>3, <2>2, <2>4 DEF Serves, Service!Step
<1>8. CASE state[c] = "failed"
  <2>1. /\ state' = state /\ pending' = pending
        /\ close'[c] = IF release[c] = "destroying" THEN "awaiting" ELSE release[c]
    BY <1>8, Shapes DEF Close
  <2> /\ close'[c] \in {"none", "awaiting", "done", "rejected"}
      /\ close'[c] = "awaiting" => release[c] = "destroying"
      /\ close[c] = "none"
    BY <1>0, <2>1, Shapes
  <2>2. PromiseOK(c)' /\ RecordOK(c)'
    <3>1. state'[c] = "failed" /\ "close" \notin waiting'[c] /\ <<c, "close">> \notin pending'
      BY <1>1, <1>8, <2>1 DEF Known, PromiseOK
    <3>2. start'[c] = start[c] /\ release'[c] = release[c] /\ registered' = registered /\ waiting' = waiting
      BY <1>1
    <3>3. PromiseOK(c)'
      BY <3>1, <3>2 DEF Known, PromiseOK
    <3>4. RecordOK(c)'
      BY <3>1, <3>2 DEF Known, RecordOK
    <3>5. QED
      BY <3>3, <3>4
  <2>3. ServiceOf(c)' = "over" /\ ServiceOf(c) = "over"
    BY <1>8, <2>1 DEF ServiceOf
  <2>4. CASE release[c] = "none"
    BY <1>3, <1>5, <2>1, <2>2, <2>3, <2>4 DEF CloseOf, Promise, Serves, Service!Step
  <2>5. CASE release[c] # "none"
    <3>1. \/ CloseOf(c)' = "pending" /\ StartOf(c) = "fulfilled"
          \/ /\ CloseOf(c)' = "fulfilled"
             /\ StartOf(c) \in {"none", "pending"} \/ LeaseOf(c) = "gone"
          \/ CloseOf(c)' = "rejected"
      BY <2>1, <2>5, Shapes DEF Known, PromiseOK, CloseOf, StartOf, LeaseOf, Promise
    <3>2. Service!Closes(c)
      BY <1>5, <2>3, <3>1 DEF Service!Closes
    <3>3. QED
      BY <1>3, <2>2, <3>2 DEF Serves, Service!Step
  <2>6. QED
    BY <2>4, <2>5
<1>9. QED
  BY <1>0, <1>6, <1>7, <1>8

\* A message about a client without a record, and an update.
LEMMA PassedServes ==
  ASSUME ServiceInv, MainTakes, NEW m, m = Head(toMain),
         m.client \notin registered \/ m.kind = "update", NEW d \in Clients
  PROVE  Serves(d) /\ UNCHANGED <<registered, waiting, toWorker>>
<1>1. UNCHANGED <<clientVars, transportVars, native>>
  <2>1. CASE m.client \notin registered
    BY DEF MainTakes
  <2>2. CASE m.client \in registered /\ m.kind = "update"
    BY DEF MainTakes
  <2>3. QED
    BY <2>1, <2>2
<1>2. UNCHANGED <<registered, waiting, toWorker>>
  BY <1>1 DEF transportVars
<1>3. Holds(d)' => Holds(d)
  BY <1>1, <1>2, HoldsIs
<1>4. QED
  BY <1>1, <1>2, <1>3, AllKnown, QuietServes

\* What is known of the client a message is about.
LEMMA HeardOf ==
  ASSUME ServiceInv, toMain # <<>>, NEW m, m = Head(toMain), NEW c, c = m.client
  PROVE  /\ m \in ToMain /\ c \in Clients /\ m.call \in Requests /\ m \in Range(toMain)
         /\ Known(c) /\ MainHears(m) /\ AwaitedOK(m) /\ TypeOK
         /\ m.kind \in {"fatal", "destroyed"} => ~Holds(c)
<1>1. TypeOK /\ WireInv /\ RecordInv
  BY DEF ServiceInv, IInv
<1>2. m \in ToMain /\ c \in Clients /\ m.call \in Requests
  BY <1>1, PortTypes
<1>3. m \in Range(toMain)
  BY <1>1, TailRange DEF TypeOK
<1>4. QED
  BY <1>1, <1>2, <1>3, AllKnown, WireIsEach, ServiceIsEach, HoldsIs DEF MainHears

\* "ready": a start fulfils, or has something to undo.
LEMMA ReadyServes ==
  ASSUME ServiceInv, MainTakes, NEW m, m = Head(toMain), NEW c, c = m.client,
         c \in registered, m.kind = "ready"
  PROVE  /\ Serves(c) /\ \A d \in Clients \ {c} : Left(d)
         /\ registered' = registered /\ \A d \in Clients : waiting[d] \subseteq waiting'[d]
         /\ \A n \in Range(toWorker') : n \in Range(toWorker) \/ AwaitedOK(n)'
<1>1. /\ m \in ToMain /\ c \in Clients /\ Known(c) /\ start[c] = "waiting" /\ TypeOK
  BY HeardOf DEF MainTakes, MainHears
<1>2. Ready(c) /\ UNCHANGED <<close, release, pending, registered, native>>
  BY DEF MainTakes
<1>3. CASE state[c] = "created"
  <2>1. /\ UNCHANGED <<waiting, toWorker, close, release, pending, registered, native>>
        /\ state'[c] = "started" /\ start'[c] = "done"
        /\ \A d \in Clients \ {c} : state'[d] = state[d] /\ start'[d] = start[d]
    BY <1>1, <1>2, <1>3, Shapes DEF Ready
  <2>2. \A d : Holds(d)' <=> Holds(d)
    BY <2>1, HoldsIs
  <2>3. \A d \in Clients \ {c} : Left(d)
    BY <2>1, <2>2 DEF Left
  <2>4. close[c] = "none" /\ release[c] = "none" /\ waiting[c] = {}
    BY <1>1, <1>3, Shapes DEF Known, StateOK
  <2>5. PromiseOK(c)' /\ RecordOK(c)'
    BY <1>1, <2>1, <2>4 DEF Known, PromiseOK, RecordOK
  <2>6. /\ StartOf(c) = "pending" /\ StartOf(c)' = "fulfilled" /\ CloseOf(c) = "none"
        /\ LeaseOf(c) # "none" /\ ServiceOf(c)' = "up"
        /\ UNCHANGED <<CloseOf(c), OpenOf(c), LeaseOf(c)>>
    BY <1>1, <2>1, <2>2, <2>4 DEF StartOf, CloseOf, ServiceOf, OpenOf, LeaseOf, Promise
  <2>7. Service!Opens(c)
    BY <1>1, <2>6 DEF Service!Opens
  <2>8. QED
    BY <2>1, <2>3, <2>5, <2>7 DEF Serves, Service!Step
<1>4. CASE state[c] # "created"
  <2>1. /\ UNCHANGED <<state, close, release, pending, registered, native>>
        /\ start'[c] = "undoing" /\ waiting'[c] = waiting[c] \cup {"start"}
        /\ \A d \in Clients \ {c} : start'[d] = start[d] /\ waiting'[d] = waiting[d]
        /\ toWorker' = Append(toWorker, Message("destroy", c))
    BY <1>1, <1>2, <1>4, Shapes DEF Ready
  <2>2. \A d : Holds(d)' <=> Holds(d)
    BY <1>1, <2>1, SentHolds, MessageTypes, MessageFacts
  <2>3. \A d \in Clients \ {c} : Left(d)
    BY <2>1, <2>2 DEF Left
  <2>4. state[c] \in {"closed", "failed"}
    BY <1>1, <1>4, Shapes DEF Known, StateOK
  <2>5. PromiseOK(c)' /\ RecordOK(c)'
    BY <1>1, <2>1, <2>4 DEF Known, PromiseOK, RecordOK
  <2>6. UNCHANGED <<StartOf(c), CloseOf(c), ServiceOf(c), OpenOf(c), LeaseOf(c)>>
    BY <1>1, <2>1, <2>2 DEF StartOf, CloseOf, ServiceOf, OpenOf, LeaseOf, Promise
  <2>7. \A n \in Range(toWorker') : n \in Range(toWorker) \/ AwaitedOK(n)'
    <3>1. Range(toWorker') = Range(toWorker) \cup {Message("destroy", c)}
      BY <1>1, <2>1, AppendRange, MessageTypes DEF TypeOK
    <3>2. AwaitedOK(Message("destroy", c))'
      BY <2>1, MessageFacts DEF AwaitedOK
    <3>3. QED
      BY <3>1, <3>2
  <2>8. QED
    BY <1>1, <2>1, <2>3, <2>5, <2>6, <2>7 DEF Serves, Service!Step
<1>5. QED
  BY <1>3, <1>4

\* "response": a call is answered, or close() goes on.
LEMMA ResponseServes ==
  ASSUME ServiceInv, MainTakes, NEW m, m = Head(toMain), NEW c, c = m.client,
         c \in registered, m.kind = "response"
  PROVE  /\ Serves(c) /\ \A d \in Clients \ {c} : Left(d)
         /\ registered' = registered /\ \A d \in Clients : waiting[d] \subseteq waiting'[d]
         /\ \A n \in Range(toWorker') : n \in Range(toWorker) \/ AwaitedOK(n)'
<1>1. /\ m \in ToMain /\ c \in Clients /\ m.call \in Requests /\ Known(c) /\ TypeOK
  BY HeardOf DEF MainTakes
<1> DEFINE q == m.call
<1>2. Response(c, q) /\ UNCHANGED <<state, start, release, registered, native>>
  BY DEF MainTakes
<1>3. /\ \A d, r : d # c \/ r # q => (<<d, r>> \in pending' <=> <<d, r>> \in pending)
      /\ <<c, q>> \notin pending' /\ "close" \notin Calls
  BY <1>2, TdlibAssumption DEF Response
<1> HIDE DEF q
<1>4. CASE q = "close" /\ <<c, q>> \in pending
  <2>1. /\ close'[c] = "destroying" /\ waiting'[c] = waiting[c] \cup {"close"}
        /\ \A d \in Clients \ {c} : close'[d] = close[d] /\ waiting'[d] = waiting[d]
        /\ toWorker' = Append(toWorker, Message("destroy", c))
    BY <1>1, <1>2, <1>4, Shapes DEF Response
  <2>2. \A d : Holds(d)' <=> Holds(d)
    BY <1>1, <1>2, <2>1, SentHolds, MessageTypes, MessageFacts
  <2>3. \A d \in Clients \ {c} : Left(d)
    BY <1>2, <1>3, <2>1, <2>2 DEF Left
  <2>4. close[c] = "asking" /\ state[c] = "closing" /\ start[c] = "done"
    BY <1>1, <1>4 DEF Known, PromiseOK
  <2>5. PromiseOK(c)' /\ RecordOK(c)'
    BY <1>1, <1>2, <1>3, <1>4, <2>1, <2>4 DEF Known, PromiseOK, RecordOK
  <2>6. UNCHANGED <<StartOf(c), CloseOf(c), ServiceOf(c), OpenOf(c), LeaseOf(c)>>
    BY <1>2, <1>3, <1>4, <2>1, <2>2, <2>4 DEF StartOf, CloseOf, ServiceOf, OpenOf, LeaseOf,
       Promise
  <2>7. \A n \in Range(toWorker') : n \in Range(toWorker) \/ AwaitedOK(n)'
    <3>1. Range(toWorker') = Range(toWorker) \cup {Message("destroy", c)}
      BY <1>1, <2>1, AppendRange, MessageTypes DEF TypeOK
    <3>2. AwaitedOK(Message("destroy", c))'
      BY <2>1, MessageFacts DEF AwaitedOK
    <3>3. QED
      BY <3>1, <3>2
  <2>8. QED
    BY <1>1, <1>2, <2>1, <2>3, <2>5, <2>6, <2>7 DEF Serves, Service!Step
<1>5. CASE ~(q = "close" /\ <<c, q>> \in pending)
  <2>1. UNCHANGED <<close, waiting, toWorker>>
    BY <1>2, <1>5 DEF Response
  <2>2. \A d : Holds(d)' <=> Holds(d)
    BY <1>2, <2>1, HoldsIs
  <2>3. \A d \in Clients \ {c} : Left(d)
    BY <1>2, <1>3, <2>1, <2>2 DEF Left
  <2>4. CASE <<c, q>> \notin pending
    <3>1. Left(c)
      BY <1>2, <1>3, <2>1, <2>2, <2>4 DEF Left
    <3>2. QED
      BY <1>1, <1>2, <2>1, <2>3, <3>1, LeftServes
  <2>5. CASE <<c, q>> \in pending
    <3>1. q \in Calls /\ q # "close"
      BY <1>1, <1>5, <2>5 DEF Requests, q
    <3>2. PromiseOK(c)' /\ RecordOK(c)'
      BY <1>1, <1>2, <1>3, <2>1, <3>1 DEF Known, PromiseOK, RecordOK
    <3>3. UNCHANGED <<StartOf(c), CloseOf(c), ServiceOf(c), LeaseOf(c)>>
      BY <1>2, <2>1, <2>2 DEF StartOf, CloseOf, ServiceOf, LeaseOf
    <3>4. q \in OpenOf(c) /\ OpenOf(c)' = OpenOf(c) \ {q}
      BY <1>3, <2>5, <3>1 DEF OpenOf
    <3>5. Service!Answers(c)
      BY <1>1, <3>3, <3>4 DEF Service!Answers
    <3>6. QED
      BY <1>2, <2>1, <2>3, <3>2, <3>5 DEF Serves, Service!Step
  <2>6. QED
    BY <2>4, <2>5
<1>6. QED
  BY <1>4, <1>5

\* What makes a step the end of a client.
LEMMA Ended ==
  ASSUME NEW c \in Clients, TypeOK, ServiceOf(c)' = "over", OpenOf(c)' = {}, ~Holds(c)',
         start'[c] \in {"done", "rejected", "undoing"},
         StartOf(c)' = IF StartOf(c) = "pending" THEN "rejected" ELSE StartOf(c),
         CloseOf(c)' # CloseOf(c) =>
           CloseOf(c) = "pending" /\ CloseOf(c)' \in {"fulfilled", "rejected"}
  PROVE  Service!Ends(c)
<1>1. LeaseOf(c)' = "gone"
  BY DEF LeaseOf
<1>2. QED
  BY <1>1 DEF Service!Ends

\* "fatal" of a client that starts.
LEMMA InitFailedServes ==
  ASSUME ServiceInv, MainTakes, NEW m, m = Head(toMain), NEW c, c = m.client,
         c \in registered, m.kind = "fatal", start[c] = "waiting"
  PROVE  /\ Serves(c) /\ \A d \in Clients \ {c} : Left(d)
         /\ registered' \subseteq registered /\ waiting' = waiting /\ toWorker' = toWorker
<1>1. /\ m \in ToMain /\ c \in Clients /\ Known(c) /\ TypeOK /\ ~Holds(c)
  BY HeardOf DEF MainTakes
<1>2. InitFailed(c) /\ UNCHANGED <<close, pending, waiting, toWorker, native>>
  BY DEF MainTakes
<1>3. \A d : Holds(d)' <=> Holds(d)
  BY <1>2, HoldsIs
<1>4. /\ start'[c] = "rejected" /\ registered' = registered \ {c}
      /\ state'[c] = IF state[c] = "created" THEN "failed" ELSE state[c]
      /\ release'[c] = IF state[c] = "created" THEN "done" ELSE release[c]
      /\ \A d \in Clients \ {c} :
           state'[d] = state[d] /\ release'[d] = release[d] /\ start'[d] = start[d]
  BY <1>1, <1>2, Shapes DEF InitFailed
<1>5. \A d \in Clients \ {c} : Left(d)
  BY <1>2, <1>3, <1>4 DEF Left
<1>6. state[c] \in {"created", "closed", "failed"}
  BY <1>1, Shapes DEF Known, StateOK
<1>7. release[c] # "destroying" /\ close[c] \notin {"asking", "destroying", "awaiting"}
  BY <1>1 DEF Known, PromiseOK
<1>8. PromiseOK(c)' /\ RecordOK(c)'
  BY <1>1, <1>2, <1>4, <1>6, <1>7 DEF Known, PromiseOK, RecordOK
<1>9. ServiceOf(c)' = "over" /\ OpenOf(c)' = {}
  BY <1>1, <1>2, <1>4, <1>6 DEF Known, Requests, ServiceOf, OpenOf
<1>10. StartOf(c) = "pending" /\ StartOf(c)' = "rejected" /\ CloseOf(c)' = CloseOf(c)
  BY <1>2, <1>4 DEF StartOf, CloseOf, Promise
<1>11. Service!Ends(c)
  BY <1>1, <1>3, <1>4, <1>9, <1>10, Ended
<1>12. QED
  BY <1>2, <1>4, <1>5, <1>8, <1>11 DEF Serves, Service!Step

\* "fatal" of any other, whose native client is gone already.
LEMMA FatalServes ==
  ASSUME ServiceInv, MainTakes, NEW m, m = Head(toMain), NEW c, c = m.client,
         c \in registered, m.kind = "fatal", start[c] # "waiting"
  PROVE  /\ Serves(c) /\ \A d \in Clients \ {c} : Left(d)
         /\ registered' = registered /\ \A d \in Clients : waiting[d] \subseteq waiting'[d]
         /\ \A n \in Range(toWorker') : n \in Range(toWorker) \/ AwaitedOK(n)'
<1>1. /\ m \in ToMain /\ c \in Clients /\ Known(c) /\ TypeOK /\ ~Holds(c)
  BY HeardOf DEF MainTakes
<1>2. FatalTo(c) /\ UNCHANGED <<start, registered, native>>
  BY DEF MainTakes
<1>3. CASE Failing({c}) = {}
  <2>1. UNCHANGED <<state, start, close, release, pending, waiting, toWorker, registered, native>>
    BY <1>2, <1>3 DEF FatalTo
  <2>2. \A d \in Clients : Left(d)
    BY <2>1, HoldsIs DEF Left
  <2>3. QED
    BY <1>1, <2>1, <2>2, LeftServes
<1>4. CASE Failing({c}) # {}
  <2> DEFINE asking == close[c] = "asking"
             n == IF asking THEN 2 ELSE 1
  <2>1. /\ state'[c] = "failed" /\ release'[c] = "destroying"
        /\ close'[c] = (IF asking THEN "destroying" ELSE close[c])
        /\ waiting'[c] = waiting[c] \cup {"release"} \cup (IF asking THEN {"close"} ELSE {})
        /\ pending' = pending \ Of({c})
        /\ toWorker' = toWorker \o [i \in 1 .. n |-> Message("destroy", c)]
        /\ \A d \in Clients \ {c} : /\ state'[d] = state[d] /\ release'[d] = release[d]
                                    /\ close'[d] = close[d] /\ waiting'[d] = waiting[d]
    BY <1>1, <1>2, <1>4, Shapes DEF FatalTo, Asking
  <2>2. \A r : <<c, r>> \notin pending' /\ \A d : d # c => (<<d, r>> \in pending' <=> <<d, r>> \in pending)
    BY <2>1 DEF Of
  <2>3. /\ toWorker' \in Seq(ToWorker)
        /\ \A k \in Range(toWorker') : k \in Range(toWorker) \/ k = Message("destroy", c)
    <3>1. n \in {1, 2}
      OBVIOUS
    <3> HIDE DEF n
    <3>2. QED
      BY <1>1, <2>1, <3>1, DestroyTwice
  <2>4. \A d : Holds(d)' => Holds(d)
    BY <1>2, <2>3, HoldsIs, MessageFacts
  <2>5. Range(toWorker) \subseteq Range(toWorker')
    <3>1. n \in {1, 2}
      OBVIOUS
    <3> HIDE DEF n
    <3> DEFINE t == [i \in 1 .. n |-> Message("destroy", c)]
    <3>2. toWorker \in Seq(ToWorker) /\ t \in Seq(ToWorker)
      BY <1>1, <3>1, DestroyTwice
    <3>3. toWorker' = toWorker \o t
      BY <2>1
    <3> HIDE DEF t
    <3>4. /\ DOMAIN toWorker = 1 .. Len(toWorker) /\ Len(toWorker) \in Nat /\ Len(t) \in Nat
          /\ DOMAIN toWorker' = 1 .. Len(toWorker) + Len(t)
          /\ \A i \in 1 .. Len(toWorker) : toWorker'[i] = toWorker[i]
      BY <3>2, <3>3
    <3>5. QED
      BY <3>4 DEF Range
  <2>6. \A d \in Clients \ {c} : Left(d)
    BY <1>2, <2>1, <2>2, <2>4, <2>5, HoldsIs DEF Left
  <2>7. start[c] = "done" /\ state[c] \in {"started", "closing"}
    BY <1>1, <1>4, Shapes DEF Known, PromiseOK, StateOK, Failing
  <2>8. PromiseOK(c)' /\ RecordOK(c)'
    <3>1. close'[c] = "destroying" <=> "close" \in waiting'[c]
      BY <1>1, <2>1 DEF Known, PromiseOK
    <3>2. close'[c] # "asking" /\ <<c, "close">> \notin pending' /\ start'[c] = "done"
      BY <1>2, <2>1, <2>2, <2>7
    <3>3. QED
      BY <1>1, <1>2, <2>1, <3>1, <3>2 DEF Known, PromiseOK, RecordOK
  <2>9. ServiceOf(c)' = "over" /\ OpenOf(c)' = {}
    BY <2>1, <2>2 DEF ServiceOf, OpenOf
  <2>10. StartOf(c) = "fulfilled" /\ StartOf(c)' = "fulfilled" /\ CloseOf(c)' = CloseOf(c)
    BY <1>2, <2>1, <2>7 DEF StartOf, CloseOf, Promise
  <2>11. Service!Ends(c)
    BY <1>1, <1>2, <2>4, <2>7, <2>9, <2>10, Ended
  <2>12. AwaitedOK(Message("destroy", c))'
    <3>1. waiting'[c] # {}
      BY <2>1
    <3>2. QED
      BY <3>1, MessageFacts DEF AwaitedOK
  <2>13. \A d \in Clients : waiting[d] \subseteq waiting'[d]
    BY <2>1
  <2>14. QED
    BY <1>2, <2>3, <2>6, <2>8, <2>11, <2>12, <2>13 DEF Serves, Service!Step
<1>5. QED
  BY <1>3, <1>4

\* "destroyed": the record goes, and who waited for it goes on.
LEMMA DestroyedServes ==
  ASSUME ServiceInv, MainTakes, NEW m, m = Head(toMain), NEW c, c = m.client,
         c \in registered, m.kind = "destroyed"
  PROVE  /\ Serves(c) /\ \A d \in Clients \ {c} : Left(d)
         /\ registered' = registered \ {c} /\ \A d \in Clients \ {c} : waiting'[d] = waiting[d]
         /\ Range(toWorker') \subseteq Range(toWorker)
<1>1. /\ m \in ToMain /\ c \in Clients /\ Known(c) /\ TypeOK /\ ~Holds(c)
      /\ waiting[c] # {} /\ start[c] \in {"undoing", "done"}
  BY HeardOf DEF MainTakes, MainHears, AwaitedOK, Known
<1>2. Destroyed(c)
  BY DEF MainTakes
<1> DEFINE closes == "close" \in waiting[c]
<1>3. /\ registered' = registered \ {c} /\ waiting'[c] = {}
      /\ start'[c] = (IF "start" \in waiting[c] THEN "rejected" ELSE start[c])
      /\ release'[c] = (IF "release" \in waiting[c] THEN "done" ELSE release[c])
      /\ state'[c] = (IF closes THEN "closed" ELSE state[c])
      /\ close'[c] = (IF close[c] = "awaiting" \/ closes THEN "done" ELSE close[c])
      /\ pending' = (IF closes THEN pending \ Of({c}) ELSE pending)
      /\ \A d \in Clients \ {c} :
           /\ state'[d] = state[d] /\ start'[d] = start[d] /\ close'[d] = close[d]
           /\ release'[d] = release[d] /\ waiting'[d] = waiting[d]
  BY <1>1, <1>2, Shapes DEF Destroyed
<1>4. \A d, r : d # c => (<<d, r>> \in pending' <=> <<d, r>> \in pending)
  BY <1>3 DEF Of
<1>5. /\ Range(toWorker') \subseteq Range(toWorker) /\ native' \subseteq native
      /\ registered' # {} => UNCHANGED <<toWorker, native>>
  BY <1>2 DEF Destroyed, Range
<1>6. ~Holds(c)' /\ \A d \in Clients \ {c} : Holds(d)' <=> Holds(d)
  <2>1. ~Holds(c)'
    BY <1>1, <1>5, HoldsIs
  <2>2. CASE registered' # {}
    BY <1>5, <2>1, <2>2, HoldsIs
  <2>3. CASE registered' = {}
    <3>1. \A d \in Clients : Holds(d) => d \in registered
      BY HoldsIs, WireIsEach, MessageFacts DEF ServiceInv, IInv, NativeOK, WorkerHears
    <3>2. \A d \in Clients \ {c} : ~Holds(d)
      BY <1>3, <2>3, <3>1
    <3>3. QED
      BY <1>5, <2>1, <3>2, HoldsIs
  <2>4. QED
    BY <2>2, <2>3
<1>7. \A d \in Clients \ {c} : Left(d)
  BY <1>3, <1>4, <1>6 DEF Left
<1>8. /\ state[c] \in {"closing", "closed", "failed"}
      /\ state[c] = "closing" => closes
      /\ close[c] # "asking" /\ <<c, "close">> \notin pending
      /\ start[c] = "undoing" <=> "start" \in waiting[c]
      /\ close[c] = "destroying" <=> closes
  BY <1>1, Shapes DEF Known, PromiseOK, RecordOK, StateOK
<1>9. start'[c] \in {"done", "rejected"} /\ state'[c] \in {"closed", "failed"}
  BY <1>1, <1>3, <1>8
<1>10. PromiseOK(c)' /\ RecordOK(c)'
  <2>1. /\ close'[c] \notin {"asking", "destroying"} /\ <<c, "close">> \notin pending'
    BY <1>3, <1>8
  <2>2. release'[c] = "destroying" \/ close'[c] = "awaiting" => start'[c] = "done"
    BY <1>1, <1>3, <1>8 DEF Known, PromiseOK
  <2>3. QED
    BY <1>3, <1>9, <2>1, <2>2 DEF PromiseOK, RecordOK
<1>11. ServiceOf(c)' = "over"
  BY <1>9 DEF ServiceOf
<1>12. OpenOf(c)' = {}
  <2>1. CASE closes
    BY <1>3, <2>1 DEF Of, OpenOf
  <2>2. CASE ~closes
    BY <1>1, <1>3, <1>8, <2>2 DEF Known, Requests, OpenOf
  <2>3. QED
    BY <2>1, <2>2
<1>13. StartOf(c)' = IF StartOf(c) = "pending" THEN "rejected" ELSE StartOf(c)
  BY <1>1, <1>3, <1>8 DEF StartOf, Promise
<1>14. CloseOf(c)' # CloseOf(c) => CloseOf(c) = "pending" /\ CloseOf(c)' = "fulfilled"
  BY <1>3, <1>8 DEF CloseOf, Promise
<1>15. Service!Ends(c)
  BY <1>1, <1>6, <1>9, <1>11, <1>12, <1>13, <1>14, Ended
<1>16. QED
  BY <1>3, <1>5, <1>7, <1>10, <1>15 DEF Serves, Service!Step

\* Whatever the main thread is told.
LEMMA MainServes ==
  ASSUME ServiceInv, MainTakes, NEW d \in Clients
  PROVE  Serves(d)
<1> DEFINE m == Head(toMain)
           c == m.client
<1>1. c \in Clients /\ m.kind \in {"ready", "response", "update", "fatal", "destroyed"}
  BY HeardOf DEF MainTakes, ToMain
<1>2. CASE c \notin registered \/ m.kind = "update"
  BY <1>2, PassedServes
<1>3. CASE c \in registered /\ m.kind # "update"
  <2>1. Serves(c) /\ \A b \in Clients \ {c} : Left(b)
    BY <1>1, <1>3, ReadyServes, ResponseServes, InitFailedServes, FatalServes,
       DestroyedServes
  <2>2. QED
    BY <2>1, AllKnown, LeftServes
<1>4. QED
  BY <1>2, <1>3

\* The worker and the updates only let native clients go or arrive.
LEMMA WorkerServes ==
  ASSUME ServiceInv, NEW d \in Clients,
         \/ Worker
         \/ \E c \in Clients : \/ Sends(c) \/ Breaks(c) \/ Unsubscribe(c)
                               \/ \E ok \in BOOLEAN : HandlerEnds(c, ok)
  PROVE  Serves(d)
<1>1. TypeOK
  BY DEF ServiceInv, IInv
<1>2. UNCHANGED <<clientVars, registered, waiting>> /\ (Holds(d)' => Holds(d))
  <2>1. ASSUME NEW ok \in BOOLEAN, WorkerTakes(ok)
        PROVE  UNCHANGED <<clientVars, registered, waiting>> /\ (Holds(d)' => Holds(d))
    <3> DEFINE m == Head(toWorker)
    <3>1. /\ toWorker # <<>> /\ toWorker' = Tail(toWorker)
          /\ UNCHANGED <<clientVars, registered, waiting>>
      BY <2>1 DEF WorkerTakes
    <3>2. m \in Range(toWorker) /\ Range(toWorker') \subseteq Range(toWorker) /\ m \in ToWorker
      BY <1>1, <3>1, TailRange DEF TypeOK
    <3>3. native' \subseteq native \/ (m.kind = "init" /\ native' = native \cup {m.client})
      BY <2>1, <3>2 DEF WorkerTakes, WorkerFails, ToWorker
    <3>4. m.kind = "init" => m = Message("init", m.client)
      BY <3>2, WireIsEach DEF ServiceInv, IInv, WorkerHears
    <3>5. QED
      BY <3>1, <3>2, <3>3, <3>4, HoldsIs
  <2>2. ASSUME NEW c \in Clients,
               \/ Sends(c) \/ Breaks(c) \/ Unsubscribe(c)
               \/ (\E ok \in BOOLEAN : HandlerEnds(c, ok)) \/ \E q \in Requests : Answer(c, q)
        PROVE  UNCHANGED <<clientVars, registered, waiting>> /\ (Holds(d)' => Holds(d))
    <3>1. UNCHANGED <<clientVars, registered, waiting, toWorker>> /\ native' \subseteq native
      BY <2>2 DEF Sends, Breaks, Unsubscribe, HandlerEnds, Answer, WorkerFails,
         transportVars, workerVars
    <3>2. QED
      BY <3>1, HoldsIs
  <2>3. QED
    BY <2>1, <2>2 DEF Worker
<1>3. QED
  BY <1>2, AllKnown, QuietServes

\* The worker dies: every client with a record ends, and whoever waits is told.
LEMMA DeathServes ==
  ASSUME ServiceInv, WorkerDies, NEW d \in Clients
  PROVE  Serves(d)
<1> DEFINE fails == d \in Failing(registered)
<1>1. Known(d) /\ TypeOK
  BY AllKnown DEF ServiceInv, IInv
<1>2. /\ registered' = {} /\ waiting'[d] = {} /\ ~Holds(d)'
      /\ start'[d] = (IF start[d] \in {"waiting", "undoing"} THEN "rejected" ELSE start[d])
      /\ state'[d] = (IF ~fails THEN state[d]
                      ELSE IF close[d] = "asking" THEN "closed" ELSE "failed")
      /\ release'[d] = (IF fails THEN "done"
                        ELSE IF release[d] = "destroying" THEN "rejected" ELSE release[d])
      /\ close'[d] = (IF close[d] \in {"destroying", "awaiting"} THEN "rejected"
                      ELSE IF close[d] = "asking" THEN "done" ELSE close[d])
      /\ pending' = pending \ Of(Failing(registered))
  BY DEF WorkerDies, Holds
<1>3. fails <=> d \in registered /\ state[d] \notin {"closed", "failed"}
  BY DEF Failing
<1>4. \A r : <<d, r>> \in pending' <=> <<d, r>> \in pending /\ ~fails
  BY <1>2 DEF Of
<1> HIDE DEF fails
<1>5. state'[d] \notin {"started", "closing"} /\ OpenOf(d)' = {} /\ <<d, "close">> \notin pending'
  <2>1. CASE fails
    BY <1>2, <1>4, <2>1 DEF OpenOf
  <2>2. CASE ~fails
    <3>1. state[d] \notin {"started", "closing"}
      BY <1>1, <1>3, <2>2 DEF Known, RecordOK
    <3>2. \A r \in Requests : <<d, r>> \notin pending
      BY <1>1, <3>1 DEF Known
    <3>3. QED
      BY <1>2, <1>4, <2>2, <3>1, <3>2 DEF OpenOf, Requests
  <2>3. QED
    BY <2>1, <2>2
<1>6. /\ start'[d] \notin {"waiting", "undoing"} /\ release'[d] # "destroying"
      /\ close'[d] \notin {"asking", "destroying", "awaiting"}
  BY <1>2
<1>7. PromiseOK(d)' /\ RecordOK(d)'
  <2>1. state'[d] = "started" => close'[d] = "none"
    BY <1>5
  <2>2. "close" \notin waiting'[d] /\ "start" \notin waiting'[d]
    BY <1>2
  <2>3. QED
    BY <1>2, <1>5, <1>6, <2>1, <2>2 DEF PromiseOK, RecordOK
<1>8. StartOf(d)' = IF start[d] \in {"waiting", "undoing"} THEN "rejected" ELSE StartOf(d)
  BY <1>2, <1>6 DEF StartOf, Promise
<1>9. CloseOf(d)' # CloseOf(d) =>
        CloseOf(d) = "pending" /\ CloseOf(d)' \in {"fulfilled", "rejected"}
  BY <1>2 DEF CloseOf, Promise
<1>10. CASE d \in registered
  <2>1. start[d] \in {"waiting", "undoing", "done"}
    BY <1>1, <1>10 DEF Known
  <2>2. StartOf(d)' = IF StartOf(d) = "pending" THEN "rejected" ELSE StartOf(d)
    BY <1>8, <2>1 DEF StartOf, Promise
  <2>3. start'[d] \in {"done", "rejected"}
    BY <1>2, <2>1
  <2>4. state'[d] \in {"closed", "failed"}
    BY <1>2, <1>3, <1>10
  <2>5. ServiceOf(d)' = "over"
    BY <2>4 DEF ServiceOf
  <2>6. Service!Ends(d)
    BY <1>1, <1>2, <1>5, <1>9, <2>2, <2>3, <2>5, Ended
  <2>7. QED
    BY <1>7, <2>6 DEF Serves, Service!Step
<1>11. CASE d \notin registered
  <2>1. /\ start[d] \notin {"waiting", "undoing"} /\ state[d] \notin {"started", "closing"}
        /\ ~fails
    BY <1>1, <1>3, <1>11 DEF Known, RecordOK
  <2>2. ~Holds(d)
    BY <1>11, HoldsIs, WireIsEach, MessageFacts DEF ServiceInv, IInv, NativeOK, WorkerHears
  <2>3. OpenOf(d) = {}
    BY <1>1, <2>1 DEF Known, OpenOf, Requests
  <2>4. UNCHANGED <<StartOf(d), ServiceOf(d), OpenOf(d), LeaseOf(d)>>
    BY <1>2, <1>5, <2>1, <2>2, <2>3 DEF StartOf, ServiceOf, LeaseOf
  <2>5. CASE CloseOf(d)' = CloseOf(d)
    BY <1>7, <2>4, <2>5 DEF Serves, Service!Step
  <2>6. CASE CloseOf(d)' # CloseOf(d)
    <3>1. close[d] \in {"destroying", "awaiting"} /\ start[d] = "done"
      BY <1>1, <1>2, <1>9, <2>1, <2>6 DEF CloseOf, Promise, Known, PromiseOK
    <3>2. state[d] \in {"closed", "failed"}
      BY <1>1, <2>1, <3>1, Shapes DEF Known, StateOK
    <3>3. ServiceOf(d)' = "over"
      BY <2>4, <3>2 DEF ServiceOf
    <3>4. StartOf(d) = "fulfilled" /\ start'[d] = "done"
      BY <1>2, <3>1 DEF StartOf, Promise
    <3>5. Service!Ends(d)
      BY <1>1, <1>2, <1>5, <1>9, <2>4, <3>3, <3>4, Ended
    <3>6. QED
      BY <1>7, <3>5 DEF Serves, Service!Step
  <2>7. QED
    BY <2>5, <2>6
<1>12. QED
  BY <1>10, <1>11

-----------------------------------------------------------------------------
(* The invariant of the service *)

\* Each client, whichever step is taken.
LEMMA EachServes ==
  ASSUME ServiceInv, [Next]_vars, NEW d \in Clients
  PROVE  Serves(d)
<1>1. TypeOK /\ \A c \in Clients : Known(c)
  BY AllKnown DEF ServiceInv, IInv
<1>2. ASSUME NEW c \in Clients,
             \/ Start(c) \/ Verified(c) \/ NotVerified(c) \/ Close(c)
             \/ \E q \in Calls : Invoke(c, q) \/ Abort(c, q)
      PROVE  Serves(d)
  <2>1. Serves(c) /\ \A b \in Clients \ {c} : Left(b)
    BY <1>1, <1>2, StartServes, VerifiedServes, CloseServes, CallServes
  <2>2. QED
    BY <1>1, <2>1, LeftServes
<1>3. CASE UNCHANGED vars
  <2>1. Left(d)
    BY <1>3, HoldsIs DEF vars, clientVars, transportVars, workerVars, Left
  <2>2. QED
    BY <1>1, <2>1, LeftServes
<1>4. QED
  BY <1>2, <1>3, MainServes, WorkerServes, DeathServes DEF Next

\* Who has asked for the end of a client with a record still waits: of the
\* messages only new ones, and of the records only those of clients that start,
\* have to be looked at.
LEMMA AwaitedSuffices ==
  ASSUME ServiceInv,
         \A d \in registered' : \/ d \in registered /\ waiting[d] \subseteq waiting'[d]
                                \/ start[d] = "verifying",
         \A m \in Range(toWorker') \cup Range(toMain') :
           m \in Range(toWorker) \cup Range(toMain) \/ AwaitedOK(m)'
  PROVE  \A m \in Range(toWorker') \cup Range(toMain') : AwaitedOK(m)'
<1>1. SUFFICES ASSUME NEW m \in Range(toWorker) \cup Range(toMain),
                      m.kind \in {"destroy", "destroyed"}, m.client \in registered'
               PROVE  waiting'[m.client] # {}
  BY DEF AwaitedOK
<1>2. start[m.client] # "verifying"
  BY <1>1, WireIsEach DEF ServiceInv, IInv, WorkerHears, MainHears
<1>3. AwaitedOK(m)
  BY <1>1, ServiceIsEach DEF ServiceInv
<1>4. QED
  BY <1>1, <1>2, <1>3 DEF AwaitedOK

\* The same for messages to the main thread,
LEMMA MainAwaited ==
  ASSUME ServiceInv, MainTakes
  PROVE  \A m \in Range(toWorker') \cup Range(toMain') : AwaitedOK(m)'
<1> DEFINE m == Head(toMain)
           c == m.client
<1>1. c \in Clients /\ m.kind \in {"ready", "response", "update", "fatal", "destroyed"} /\ TypeOK
  BY HeardOf DEF MainTakes, ToMain
<1>2. Range(toMain') \subseteq Range(toMain)
  <2>1. toMain' = Tail(toMain) \/ toMain' = <<>>
    BY <1>1 DEF MainTakes, Destroyed
  <2>2. toMain # <<>> /\ toMain \in Seq(ToMain)
    BY <1>1 DEF MainTakes, TypeOK
  <2>3. QED
    BY <2>1, <2>2 DEF Range
<1>3. /\ registered' \subseteq registered
      /\ \A d \in registered' : waiting[d] \subseteq waiting'[d]
      /\ \A n \in Range(toWorker') : n \in Range(toWorker) \/ AwaitedOK(n)'
  <2> registered \subseteq Clients
    BY <1>1 DEF TypeOK
  <2>1. CASE c \notin registered \/ m.kind = "update"
    BY <1>1, <2>1, PassedServes
  <2>2. CASE c \in registered /\ m.kind \in {"ready", "response", "fatal"}
    BY <1>1, <2>2, ReadyServes, ResponseServes, InitFailedServes, FatalServes
  <2>3. CASE c \in registered /\ m.kind = "destroyed"
    BY <1>1, <2>3, DestroyedServes
  <2>4. QED
    BY <1>1, <2>1, <2>2, <2>3
<1>4. QED
  BY <1>2, <1>3, AwaitedSuffices

\* for those the worker sends, where "destroyed" follows "destroy",
LEMMA WorkerAwaited ==
  ASSUME ServiceInv, TypeOK',
         \/ Worker
         \/ \E c \in Clients : Sends(c) \/ Breaks(c)
  PROVE  \A m \in Range(toWorker') \cup Range(toMain') : AwaitedOK(m)'
<1>1. TypeOK
  BY DEF ServiceInv, IInv
<1>2. registered' = registered /\ waiting' = waiting
  BY DEF Worker, WorkerTakes, Answer, Sends, Breaks, transportVars
<1>3. Range(toWorker') \subseteq Range(toWorker)
  BY <1>1, TailRange DEF Worker, WorkerTakes, Answer, Sends, Breaks, transportVars, TypeOK
<1>4. \/ toMain' = toMain
      \/ \E n \in ToMain :
           /\ toMain' = Append(toMain, n)
           /\ n.kind = "destroyed" => /\ toWorker # <<>> /\ Head(toWorker).kind = "destroy"
                                      /\ n.client = Head(toWorker).client
  <2>1. ASSUME NEW ok \in BOOLEAN, WorkerTakes(ok)
        PROVE  <1>4!:
    <3> DEFINE h == Head(toWorker)
    <3>1. h \in ToWorker /\ h.client \in Clients /\ toWorker # <<>>
      BY <1>1, <2>1, PortTypes DEF WorkerTakes
    <3>2. \/ toMain' = toMain
          \/ toMain' = Append(toMain, Message("ready", h.client))
          \/ toMain' = Append(toMain, Message("fatal", h.client))
          \/ h.kind = "destroy" /\ toMain' = Append(toMain, Message("destroyed", h.client))
      BY <2>1, <3>1 DEF WorkerTakes, WorkerFails, ToWorker
    <3>3. QED
      BY <3>1, <3>2, MessageTypes, MessageFacts
  <2>2. ASSUME NEW c \in Clients, NEW q \in Requests, Answer(c, q)
        PROVE  <1>4!:
    <3>1. [kind |-> "response", client |-> c, call |-> q] \in ToMain
      BY MessageTypes
    <3>2. QED
      BY <2>2, <3>1 DEF Answer
  <2>3. ASSUME NEW c \in Clients, Sends(c) \/ Breaks(c)
        PROVE  <1>4!:
    BY <2>3, MessageTypes, MessageFacts DEF Sends, Breaks, WorkerFails
  <2>4. QED
    BY <2>1, <2>2, <2>3 DEF Worker
<1>5. \A m \in Range(toMain') : m \in Range(toMain) \/ AwaitedOK(m)'
  <2>1. CASE toMain' = toMain
    BY <2>1
  <2>2. ASSUME NEW n \in ToMain, toMain' = Append(toMain, n),
               n.kind = "destroyed" => /\ toWorker # <<>> /\ Head(toWorker).kind = "destroy"
                                       /\ n.client = Head(toWorker).client
        PROVE  <1>5!:
    <3>1. Range(toMain') = Range(toMain) \cup {n}
      BY <1>1, <2>2, AppendRange DEF TypeOK
    <3>2. CASE n.kind = "destroyed"
      <4>1. AwaitedOK(Head(toWorker))
        BY <1>1, <2>2, <3>2, TailRange, ServiceIsEach DEF TypeOK, ServiceInv
      <4>2. AwaitedOK(n)'
        BY <1>2, <2>2, <3>2, <4>1 DEF AwaitedOK
      <4>3. QED
        BY <3>1, <4>2
    <3>3. CASE n.kind # "destroyed"
      <4>1. AwaitedOK(n)'
        BY <3>3 DEF AwaitedOK, ToMain
      <4>2. QED
        BY <3>1, <4>1
    <3>4. QED
      BY <3>2, <3>3
  <2>3. QED
    BY <1>4, <2>2
<1>6. QED
  BY <1>2, <1>3, <1>5, AwaitedSuffices

\* and for every step.
LEMMA AwaitedStep ==
  ASSUME ServiceInv, TypeOK', [Next]_vars
  PROVE  \A m \in Range(toWorker') \cup Range(toMain') : AwaitedOK(m)'
<1>1. TypeOK
  BY DEF ServiceInv, IInv
<1>2. ASSUME NEW c \in Clients,
             \/ Start(c) \/ Verified(c) \/ NotVerified(c) \/ Close(c) \/ Unsubscribe(c)
             \/ (\E ok \in BOOLEAN : HandlerEnds(c, ok))
             \/ \E q \in Calls : Invoke(c, q) \/ Abort(c, q)
      PROVE  \A m \in Range(toWorker') \cup Range(toMain') : AwaitedOK(m)'
  <2>1. waiting' = waiting /\ toMain' = toMain
    BY <1>2 DEF Start, Verified, NotVerified, Close, Unsubscribe, HandlerEnds, Invoke,
       Abort, transportVars, workerVars
  <2>2. \/ registered' = registered
        \/ start[c] = "verifying" /\ registered' = registered \cup {c}
    BY <1>2 DEF Start, Verified, NotVerified, Close, Unsubscribe, HandlerEnds, Invoke,
       Abort, transportVars
  <2>3. \/ toWorker' = toWorker
        \/ \E n \in ToWorker : toWorker' = Append(toWorker, n) /\ n.kind \in {"init", "send"}
    <3>1. CASE Close(c)
      <4>1. state[c] \in {"created", "started", "failed"}
        BY <3>1, AllKnown, Shapes, <1>1 DEF Close, Known, StateOK
      <4>2. "close" \in Requests
        BY DEF Requests
      <4>3. QED
        BY <3>1, <4>1, <4>2, MessageTypes DEF Close
    <3>2. CASE \E q \in Calls : Invoke(c, q)
      BY <3>2, MessageTypes DEF Invoke, Requests
    <3>3. CASE Verified(c)
      BY <3>3, MessageTypes, MessageFacts DEF Verified
    <3>4. QED
      BY <1>2, <3>1, <3>2, <3>3 DEF Start, NotVerified, Unsubscribe, HandlerEnds, Abort,
         transportVars
  <2>4. \A m \in Range(toWorker') : m \in Range(toWorker) \/ AwaitedOK(m)'
    <3>1. ASSUME NEW n \in ToWorker, toWorker' = Append(toWorker, n), n.kind \in {"init", "send"}
          PROVE  <2>4!:
      <4>1. Range(toWorker') = Range(toWorker) \cup {n}
        BY <1>1, <3>1, AppendRange DEF TypeOK
      <4>2. AwaitedOK(n)'
        BY <3>1 DEF AwaitedOK
      <4>3. QED
        BY <4>1, <4>2
    <3>2. QED
      BY <2>3, <3>1
  <2>5. QED
    BY <2>1, <2>2, <2>4, AwaitedSuffices
<1>3. CASE WorkerDies
  BY <1>3 DEF WorkerDies, Range
<1>4. CASE UNCHANGED vars
  BY <1>4, AwaitedSuffices DEF vars, transportVars, workerVars
<1>5. QED
  BY <1>2, <1>3, <1>4, MainAwaited, WorkerAwaited DEF Next

LEMMA ServiceInit == Init => PromiseInv /\ RecordInv /\ Service!Init
<1> SUFFICES ASSUME Init PROVE PromiseInv /\ RecordInv /\ Service!Init
  OBVIOUS
<1>1. \A c \in Clients : PromiseOK(c) /\ RecordOK(c) /\ ~Holds(c)
  BY DEF Init, PromiseOK, RecordOK, Holds
<1>2. Range(toWorker) = {} /\ Range(toMain) = {}
  BY DEF Init, Range
<1>3. \A c \in Clients : /\ StartOf(c) = "none" /\ CloseOf(c) = "none" /\ ServiceOf(c) = "none"
                         /\ OpenOf(c) = {} /\ LeaseOf(c) = "none"
  BY DEF Init, StartOf, CloseOf, ServiceOf, OpenOf, LeaseOf, Promise
<1>4. QED
  BY <1>1, <1>2, <1>3, ServiceIsEach DEF Service!Init

LEMMA ServiceTypes == TypeOK => Service!TypeOK
<1> SUFFICES ASSUME TypeOK PROVE Service!TypeOK
  OBVIOUS
<1>1. ASSUME NEW c \in Clients
      PROVE  /\ StartOf(c) \in Service!Promises /\ CloseOf(c) \in Service!Promises
             /\ ServiceOf(c) \in {"none", "up", "over"} /\ OpenOf(c) \in SUBSET Calls
             /\ LeaseOf(c) \in {"none", "held", "gone"}
  BY <1>1, Shapes DEF StartOf, CloseOf, ServiceOf, OpenOf, LeaseOf, Promise,
     Service!Promises
<1>2. QED
  BY <1>1 DEF Service!TypeOK

\* ServiceInv holds in every state, and every step is one of the service.
LEMMA ServiceStep == ServiceInv /\ [Next]_vars => ServiceInv' /\ [Service!Next]_Service!vars
<1> SUFFICES ASSUME ServiceInv, [Next]_vars PROVE ServiceInv' /\ [Service!Next]_Service!vars
  OBVIOUS
<1>1. IInv'
  BY InductiveStep DEF ServiceInv
<1>2. TypeOK'
  BY <1>1 DEF IInv
<1>3. \A d \in Clients : Serves(d)
  BY EachServes
<1>4. PromiseInv' /\ RecordInv'
  BY <1>2, <1>3, AwaitedStep, ServiceIsEach DEF Serves
<1>5. Service!TypeOK'
  BY <1>2, ServiceTypes, PTL
<1>6. Service!Next
  BY <1>3, <1>5 DEF Service!Next, Serves
<1>7. QED
  BY <1>1, <1>4, <1>6 DEF ServiceInv

\* Where starts, closes and releases of each client are, its record and who waits
\* for it, and the messages about it are together inductive.
THEOREM ServiceInvariance == Spec => []ServiceInv
<1>1. Init => ServiceInv
  BY InitFacts, ServiceInit DEF ServiceInv
<1>2. QED
  BY <1>1, ServiceStep, PTL DEF Spec

\* However starts, closes, failures and the death of the worker cross, each client
\* is a client service: its promises settle once, its native client is leased
\* once and gone at its end.
THEOREM ClientIsAService == Spec => ImplementsClientService
<1>1. Init => ServiceInv /\ Service!Init
  BY InitFacts, ServiceInit DEF ServiceInv
<1>2. QED
  BY <1>1, ServiceStep, PTL DEF Spec, ImplementsClientService, Service!Spec

\* Hence its user can rely on what the service says of calls, promises and the
\* native client.
THEOREM ClientIsReliable == Spec => []Service!Reliable
<1>1. ServiceInv => Service!Reliable
  <2> SUFFICES ASSUME ServiceInv PROVE Service!Reliable
    OBVIOUS
  <2>1. ASSUME NEW c \in Clients
        PROVE  /\ ServiceOf(c) = "up" =>
                    StartOf(c) = "fulfilled" /\ CloseOf(c) = "none" /\ LeaseOf(c) # "none"
               /\ OpenOf(c) # {} => ServiceOf(c) = "up" \/ CloseOf(c) = "pending"
               /\ StartOf(c) = "rejected" => LeaseOf(c) = "gone"
               /\ CloseOf(c) = "fulfilled" =>
                    LeaseOf(c) = "gone" \/ StartOf(c) \in {"none", "pending"}
    <3>1. Known(c) /\ TypeOK
      BY AllKnown DEF ServiceInv, IInv
    <3>2. ServiceOf(c) = "up" =>
            StartOf(c) = "fulfilled" /\ CloseOf(c) = "none" /\ LeaseOf(c) # "none"
      BY <3>1 DEF Known, StateOK, PromiseOK, ServiceOf, StartOf, CloseOf, LeaseOf, Promise
    <3>3. OpenOf(c) # {} => ServiceOf(c) = "up" \/ CloseOf(c) = "pending"
      BY <3>1 DEF Known, PromiseOK, Requests, OpenOf, ServiceOf, CloseOf, Promise
    <3>4. StartOf(c) = "rejected" => LeaseOf(c) = "gone"
      BY <3>1 DEF Known, StartOf, LeaseOf, Promise
    <3>5. CloseOf(c) = "fulfilled" => LeaseOf(c) = "gone" \/ StartOf(c) \in {"none", "pending"}
      BY <3>1, Shapes DEF Known, StartOf, CloseOf, LeaseOf, Promise
    <3>6. QED
      BY <3>2, <3>3, <3>4, <3>5
  <2>2. QED
    BY <2>1 DEF Service!Reliable
<1>2. QED
  BY <1>1, ServiceInvariance, PTL
=============================================================================
