-------------------------- MODULE HTTPClient_proofs --------------------------
(***************************************************************************)
(* Proofs about HTTPClient, for any messages, callers and server replies.  *)
(***************************************************************************)
EXTENDS HTTPClient, HTTPConnection, SequenceTheorems, FiniteSetTheorems, WellFoundedInduction, TLAPS

LEMMA Threads ==
  /\ Worker \in Thread /\ Host \in Thread /\ Worker # Host
  /\ \A c \in Caller : c \in Thread /\ c # Worker /\ c # Host
  /\ \A t \in Thread : t = Worker \/ t = Host \/ t \in Caller
  /\ None \notin Thread
  BY ThreadAssumption DEF Thread

-----------------------------------------------------------------------------
(* The inductive invariant.  The threads' places, and of what they do, what *)
(* the lock, the semaphore and the shutdown depend on.                      *)

Places == {"idle", "send", "sending", "post", "constructed", "started", "join",
           "stopped", "none", "loop", "wait", "getRequest", "parse", "count",
           "ended"}

PlacesOK ==
  /\ pc \in [Thread -> Places]
  /\ pc[Worker] \in {"none", "loop", "wait", "getRequest", "parse", "send",
                     "sending", "count", "ended"}
  /\ pc[Host] \in {"constructed", "started", "post", "join", "stopped"}
  /\ \A c \in Caller : pc[c] \in {"idle", "post", "send", "sending"}
  /\ queueSemaphore \in Nat
  /\ running \in BOOLEAN

\* A thread sends exactly while it holds queueLock.
SenderHolds == \A t \in Thread : pc[t] = "sending" <=> queueLock = t

\* The worker exists from start on, and nothing but shutdown stops it.
Lifecycle ==
  /\ pc[Host] = "constructed" => pc[Worker] = "none"
  /\ pc[Host] = "started" => running
  /\ pc[Host] = "stopped" => pc[Worker] \in {"none", "ended"}

LockInv == PlacesOK /\ SenderHolds /\ Lifecycle /\ NoLostWakeup

LEMMA LockInit == Init => LockInv
<1> SUFFICES ASSUME Init PROVE LockInv
  OBVIOUS
<1>1. /\ pc[Worker] = "none"
      /\ pc[Host] = "constructed"
      /\ \A c \in Caller : pc[c] = "idle"
      /\ pc \in [Thread -> Places]
  BY Threads DEF Init, Places
<1>2. PlacesOK
  BY <1>1 DEF Init, PlacesOK
<1>3. SenderHolds
  BY <1>1, Threads DEF Init, SenderHolds
<1> QED BY <1>1, <1>2, <1>3 DEF Init, LockInv, Lifecycle, NoLostWakeup

\* The worker's steps that take neither the lock nor the semaphore.
LEMMA WorkerLocal ==
  ASSUME LockInv, NEW p \in {"parse", "send", "loop", "ended", "getRequest"},
         pc[Worker] \notin {"none", "ended", "sending"}, Goto(Worker, p),
         UNCHANGED <<queueLock, queueSemaphore, running>>
  PROVE  LockInv'
  BY Threads DEF LockInv, PlacesOK, SenderHolds, Lifecycle, NoLostWakeup, Goto, Places

LEMMA LockStep == LockInv /\ [Next]_vars => LockInv'
<1> SUFFICES ASSUME LockInv, [Next]_vars PROVE LockInv'
  OBVIOUS
<1> USE Threads DEF Goto, Places
<1>1. CASE Start
  BY <1>1 DEF Start, LockInv, PlacesOK, SenderHolds, Lifecycle, NoLostWakeup
<1>2. CASE Shutdown
  BY <1>2 DEF Shutdown, LockInv, PlacesOK, SenderHolds, Lifecycle, NoLostWakeup
<1>3. ASSUME NEW t \in Caller \cup {Host}, Post(t) PROVE LockInv'
  BY <1>3 DEF Post, LockInv, PlacesOK, SenderHolds, Lifecycle, NoLostWakeup
<1>4. CASE Join
  BY <1>4 DEF Join, LockInv, PlacesOK, SenderHolds, Lifecycle, NoLostWakeup
<1>5. ASSUME NEW c \in Caller, CallerDeliver(c) PROVE LockInv'
  <2>1. ASSUME NEW m \in Message, DeliverRequest(c, m) PROVE LockInv'
    BY <2>1 DEF DeliverRequest, LockInv, PlacesOK, SenderHolds, Lifecycle, NoLostWakeup
  <2>2. ASSUME NEW m \in Message, NEW code \in Refusals, DeliverInvalid(c, m, code)
        PROVE LockInv'
    BY <2>2 DEF DeliverInvalid, SendError, ToSend, LockInv, PlacesOK, SenderHolds,
                Lifecycle, NoLostWakeup
  <2> QED BY <1>5, <2>1, <2>2 DEF CallerDeliver
<1>6. ASSUME NEW t \in Thread, BeginSend(t) PROVE LockInv'
  BY <1>6 DEF BeginSend, LockInv, PlacesOK, SenderHolds, Lifecycle, NoLostWakeup
<1>7. ASSUME NEW t \in Thread, EndSend(t) PROVE LockInv'
  BY <1>7 DEF EndSend, LockInv, PlacesOK, SenderHolds, Lifecycle, NoLostWakeup
<1>8. ASSUME Return \/ CountResponse \/ Dequeue \/ GetReply PROVE LockInv'
  <2>1. CASE Return
    BY <2>1, WorkerLocal DEF Return
  <2>2. CASE CountResponse
    BY <2>2, WorkerLocal DEF CountResponse
  <2>3. CASE Dequeue
    BY <2>3, WorkerLocal DEF Dequeue
  <2>4. CASE GetReply
    BY <2>4, WorkerLocal DEF GetReply
  <2> QED BY <1>8, <2>1, <2>2, <2>3, <2>4
<1>9. ASSUME GetFails \/ ParseFails \/ Reply PROVE LockInv'
  BY <1>9, WorkerLocal
  DEF GetFails, ParseFails, Reply, Throw, SendError, SendResponse, ToSend
<1>10. CASE FindEmpty
  BY <1>10 DEF FindEmpty, LockInv, PlacesOK, SenderHolds, Lifecycle, NoLostWakeup
<1>11. CASE Wait
  BY <1>11 DEF Wait, LockInv, PlacesOK, SenderHolds, Lifecycle, NoLostWakeup
<1>12. CASE ParseLine
  BY <1>12 DEF ParseLine, LockInv, PlacesOK, SenderHolds, Lifecycle, NoLostWakeup
<1>13. CASE UNCHANGED vars
  BY <1>13 DEF vars, LockInv, PlacesOK, SenderHolds, Lifecycle, NoLostWakeup
<1> QED
  BY <1>1, <1>2, <1>3, <1>4, <1>5, <1>6, <1>7, <1>8, <1>9, <1>10, <1>11, <1>12, <1>13
  DEF Next, WorkerNext, CallerFinish, Terminated

(* However the posts after the unlocks interleave, the worker does not     *)
(* sleep while there is something to do: HTTPClient.cpp:121, 171, 329-343. *)
THEOREM WakeupsKept == Spec => []NoLostWakeup
<1>1. LockInv => NoLostWakeup
  BY DEF LockInv
<1> QED BY <1>1, LockInit, LockStep, PTL DEF Spec

(* Only one thread at a time calls into the host: HTTPClient.cpp:199-203   *)
(* and 224-228.                                                            *)
THEOREM SendsExclusive == Spec => []OneThreadSends
<1>1. LockInv => OneThreadSends
  BY Threads DEF LockInv, SenderHolds, OneThreadSends
<1> QED BY <1>1, LockInit, LockStep, PTL DEF Spec

-----------------------------------------------------------------------------
(* That the client implements HTTPExchanges.                               *)

\* How many requests the worker has taken from the queue, and how many of
\* those it has answered.
Taken == Len(accepted) - Len(requestQueue)
Serving == pc[Worker] \in {"getRequest", "parse", "send", "sending"}
Served == IF Serving THEN Taken - 1 ELSE Taken

Sends(t) == pc[t] \in {"send", "sending"}

ExchangeTypes ==
  /\ accepted \in Seq(Message)
  /\ requestQueue \in Seq(Message)
  /\ toHost \in Seq(Answer)
  /\ responseCode \in Codes
  /\ answer \in [Thread -> Answer \cup {NoAnswer}]

\* The queue is what has been accepted and not taken.  The requests answered
\* are those taken before the one that is being served.
InOrder ==
  /\ Taken \in Nat
  /\ \A i \in 1..Len(requestQueue) : requestQueue[i] = accepted[Taken + i]
  /\ Serving => Taken > 0 /\ request = accepted[Taken]
  /\ \A i \in 1..Len(accepted) : accepted[i] \in AnsweredRequests <=> i <= Served
  /\ \A i, j \in 1..Len(accepted) : accepted[i] = accepted[j] => i = j

\* A thread has an answer while it sends; the worker's is to its request, a
\* caller's to a message that is nobody else's.
AnswersKnown ==
  /\ \A t \in Thread : IF Sends(t) THEN answer[t] \in Answer ELSE answer[t] = NoAnswer
  /\ Sends(Worker) => answer[Worker].id = request
  /\ \A c \in Caller : Sends(c) =>
       /\ answer[c].id \notin ToSet(accepted) \cup AnsweredRequests
       /\ answer[c].code \in Refusals
       /\ \A d \in Caller : Sends(d) /\ answer[d].id = answer[c].id => d = c

ExchangeInv == ExchangeTypes /\ InOrder /\ AnswersKnown

LEMMA ExchangeInit == Init => ExchangeInv
<1> SUFFICES ASSUME Init PROVE ExchangeInv
  OBVIOUS
<1> USE Threads DEF Init
<1>1. ExchangeTypes
  <2>1. accepted = <<>> /\ requestQueue = <<>> /\ toHost = <<>>
    OBVIOUS
  <2>2. responseCode \in Codes /\ answer \in [Thread -> Answer \cup {NoAnswer}]
    BY DEF Codes
  <2> QED BY <2>1, <2>2, EmptySeq DEF ExchangeTypes
<1>2. InOrder
  <2>1. Len(accepted) = 0 /\ Len(requestQueue) = 0 /\ ~Serving
    BY EmptySeq DEF Serving
  <2> HIDE DEF Init
  <2>2. Taken = 0
    BY <2>1 DEF Taken
  <2>3. 1..0 = {}
    OBVIOUS
  <2> QED BY <2>1, <2>2, <2>3 DEF InOrder
<1>3. AnswersKnown
  BY DEF AnswersKnown, Sends
<1> QED BY <1>1, <1>2, <1>3 DEF ExchangeInv

\* A step of another kind.
Aside ==
  /\ UNCHANGED <<accepted, requestQueue, toHost, answer, request>>
  /\ responseCode' \in Codes
  /\ Serving' <=> Serving
  /\ \A t \in Thread : Sends(t)' <=> Sends(t)

LEMMA AsideKeeps == ExchangeInv /\ Aside => ExchangeInv'
<1> SUFFICES ASSUME ExchangeInv, Aside PROVE ExchangeInv'
  OBVIOUS
<1> USE Threads DEF ExchangeInv, Aside
<1>1. ExchangeTypes'
  BY DEF ExchangeTypes
<1>2. /\ Taken' = Taken
      /\ Served' = Served
      /\ AnsweredRequests' = AnsweredRequests
  BY DEF Taken, Served, AnsweredRequests
<1>3. InOrder'
  BY <1>2 DEF InOrder
<1>4. AnswersKnown'
  BY <1>2, ThreadAssumption DEF AnswersKnown, Thread
<1> QED BY <1>1, <1>3, <1>4

LEMMA DeliverInvalidKeeps ==
  ASSUME LockInv, ExchangeInv, NEW c \in Caller, NEW m \in Message, NEW code \in Refusals,
         DeliverInvalid(c, m, code)
  PROVE  ExchangeInv'
<1> USE Threads DEF ExchangeInv
<1>1. /\ answer' = [answer EXCEPT ![c] = [id |-> m, code |-> code]]
      /\ pc' = [pc EXCEPT ![c] = "send"]
      /\ pc[c] = "idle"
      /\ UNCHANGED <<accepted, requestQueue, toHost, request, responseCode>>
  BY DEF DeliverInvalid, SendError, ToSend, Goto, serving
<1>2. /\ m \notin ToSet(accepted) \cup AnsweredRequests
      /\ \A t \in Thread : answer[t].id # m
  BY DEF DeliverInvalid, Delivered, AnsweredRequests
<1>3. [id |-> m, code |-> code] \in Answer
  BY DEF Answer, Codes
<1>4. ExchangeTypes'
  BY <1>1, <1>3 DEF ExchangeTypes
<1>5. /\ Serving' <=> Serving
      /\ Sends(c)' /\ ~Sends(c)
      /\ \A t \in Thread \ {c} : Sends(t)' <=> Sends(t)
  BY <1>1 DEF Serving, Sends, LockInv, PlacesOK
<1>6. /\ Taken' = Taken
      /\ Served' = Served
      /\ AnsweredRequests' = AnsweredRequests
  BY <1>1, <1>5 DEF Taken, Served, AnsweredRequests
<1>7. InOrder'
  BY <1>1, <1>5, <1>6 DEF InOrder
<1>8. /\ answer'[c] = [id |-> m, code |-> code]
      /\ \A t \in Thread \ {c} : answer'[t] = answer[t]
  BY <1>1 DEF ExchangeTypes
<1>9. AnswersKnown'
  <2>1. \A t \in Thread : IF Sends(t)' THEN answer'[t] \in Answer ELSE answer'[t] = NoAnswer
    BY <1>3, <1>5, <1>8 DEF AnswersKnown
  <2>2. Sends(Worker)' => answer'[Worker].id = request'
    BY <1>1, <1>5, <1>8 DEF AnswersKnown
  <2>3. ASSUME NEW d \in Caller, Sends(d)'
        PROVE  /\ answer'[d].id \notin ToSet(accepted') \cup AnsweredRequests'
               /\ answer'[d].code \in Refusals
               /\ \A e \in Caller : Sends(e)' /\ answer'[e].id = answer'[d].id => e = d
    BY <1>1, <1>2, <1>5, <1>6, <1>8, <2>3 DEF AnswersKnown
  <2> QED BY <2>1, <2>2, <2>3 DEF AnswersKnown
<1> QED BY <1>4, <1>7, <1>9

LEMMA DeliverRequestKeeps ==
  ASSUME LockInv, ExchangeInv, NEW c \in Caller, NEW m \in Message, DeliverRequest(c, m)
  PROVE  ExchangeInv'
<1> USE Threads DEF ExchangeInv
<1>1. /\ requestQueue' = Append(requestQueue, m)
      /\ accepted' = Append(accepted, m)
      /\ pc' = [pc EXCEPT ![c] = "post"]
      /\ pc[c] = "idle"
      /\ UNCHANGED <<answer, toHost, request, responseCode>>
  BY DEF DeliverRequest, Goto, serving
<1>2. /\ m \notin ToSet(accepted) \cup AnsweredRequests
      /\ \A t \in Thread : answer[t].id # m
  BY DEF DeliverRequest, Delivered, AnsweredRequests
<1>3. ExchangeTypes'
  BY <1>1, AppendProperties DEF ExchangeTypes
<1>4. /\ Len(accepted) \in Nat /\ Len(requestQueue) \in Nat
      /\ Len(accepted') = Len(accepted) + 1
      /\ Len(requestQueue') = Len(requestQueue) + 1
      /\ \A i \in 1..Len(accepted) : accepted'[i] = accepted[i]
      /\ \A i \in 1..Len(requestQueue) : requestQueue'[i] = requestQueue[i]
      /\ accepted'[Len(accepted) + 1] = m
      /\ requestQueue'[Len(requestQueue) + 1] = m
  BY <1>1, AppendProperties, LenProperties DEF ExchangeTypes
<1>5. /\ Serving' <=> Serving
      /\ \A t \in Thread : Sends(t)' <=> Sends(t)
  BY <1>1 DEF Serving, Sends, LockInv, PlacesOK
<1>6. /\ Taken' = Taken
      /\ Served' = Served
      /\ AnsweredRequests' = AnsweredRequests
  BY <1>1, <1>4, <1>5 DEF Taken, Served, AnsweredRequests
<1>7. DOMAIN accepted = 1..Len(accepted) /\ DOMAIN accepted' = 1..(Len(accepted) + 1)
  BY <1>3, <1>4, LenProperties DEF ExchangeTypes
<1>8. /\ \A i \in 1..Len(accepted) : accepted[i] # m
      /\ ToSet(accepted') = ToSet(accepted) \cup {m}
  <2>1. \A x : x \in ToSet(accepted') <=> x \in ToSet(accepted) \/ x = m
    BY <1>4, <1>7 DEF ToSet
  <2> QED BY <1>2, <1>7, <2>1 DEF ToSet
<1>9. Taken \in Nat /\ Taken + Len(requestQueue) = Len(accepted) /\ Taken <= Len(accepted)
  BY <1>4 DEF InOrder, Taken
<1>10. InOrder'
  <2>1. \A i \in 1..Len(requestQueue') : requestQueue'[i] = accepted'[Taken' + i]
    <3> SUFFICES ASSUME NEW i \in 1..(Len(requestQueue) + 1)
                 PROVE  requestQueue'[i] = accepted'[Taken + i]
      BY <1>4, <1>6
    <3>1. CASE i \in 1..Len(requestQueue)
      <4>1. Taken + i \in 1..Len(accepted)
        BY <1>4, <1>9, <3>1
      <4> QED BY <1>4, <3>1, <4>1 DEF InOrder
    <3>2. CASE i = Len(requestQueue) + 1
      BY <1>4, <1>9, <3>2
    <3> QED BY <1>4, <3>1, <3>2
  <2>2. Serving' => Taken' > 0 /\ request' = accepted'[Taken']
    <3>1. Serving => Taken \in 1..Len(accepted)
      BY <1>4, <1>9 DEF InOrder
    <3> QED BY <1>1, <1>4, <1>5, <1>6, <3>1 DEF InOrder
  <2>3. \A i \in 1..Len(accepted') : accepted'[i] \in AnsweredRequests' <=> i <= Served'
    <3> SUFFICES ASSUME NEW i \in 1..(Len(accepted) + 1)
                 PROVE  accepted'[i] \in AnsweredRequests <=> i <= Served
      BY <1>4, <1>6
    <3>1. CASE i \in 1..Len(accepted)
      BY <1>4, <3>1 DEF InOrder
    <3>2. CASE i = Len(accepted) + 1
      <4>1. Served \in Int /\ Served <= Len(accepted)
        BY <1>4, <1>9 DEF Served
      <4> QED BY <1>2, <1>4, <3>2, <4>1
    <3> QED BY <1>4, <3>1, <3>2
  <2>4. \A i, j \in 1..Len(accepted') : accepted'[i] = accepted'[j] => i = j
    <3> SUFFICES ASSUME NEW i \in 1..(Len(accepted) + 1), NEW j \in 1..(Len(accepted) + 1),
                        accepted'[i] = accepted'[j]
                 PROVE  i = j
      BY <1>4
    <3>1. CASE i \in 1..Len(accepted) /\ j \in 1..Len(accepted)
      BY <1>4, <3>1 DEF InOrder
    <3>2. CASE i = Len(accepted) + 1 \/ j = Len(accepted) + 1
      BY <1>4, <1>8, <3>2
    <3> QED BY <1>4, <3>1, <3>2
  <2> QED BY <1>6, <1>9, <2>1, <2>2, <2>3, <2>4 DEF InOrder
<1>11. AnswersKnown'
  BY <1>1, <1>2, <1>5, <1>6, <1>8, ThreadAssumption DEF AnswersKnown, Thread
<1> QED BY <1>3, <1>10, <1>11

LEMMA DequeueKeeps == LockInv /\ ExchangeInv /\ Dequeue => ExchangeInv'
<1> SUFFICES ASSUME LockInv, ExchangeInv, Dequeue PROVE ExchangeInv'
  OBVIOUS
<1> USE Threads DEF ExchangeInv
<1>1. /\ requestQueue # <<>>
      /\ request' = Head(requestQueue)
      /\ requestQueue' = Tail(requestQueue)
      /\ pc' = [pc EXCEPT ![Worker] = "getRequest"]
      /\ pc[Worker] = "loop"
      /\ UNCHANGED <<answer, toHost, accepted, responseCode>>
  BY DEF Dequeue, Goto
<1>2. /\ requestQueue' \in Seq(Message)
      /\ Len(accepted) \in Nat /\ Len(requestQueue) \in Nat \ {0}
      /\ Len(requestQueue') = Len(requestQueue) - 1
      /\ \A i \in 1..(Len(requestQueue) - 1) : requestQueue'[i] = requestQueue[i + 1]
      /\ request' = requestQueue[1]
  BY <1>1, HeadTailProperties, LenProperties, EmptySeq DEF ExchangeTypes
<1>3. ExchangeTypes'
  BY <1>1, <1>2 DEF ExchangeTypes
<1>4. /\ Serving' /\ ~Serving
      /\ \A t \in Thread : Sends(t)' <=> Sends(t)
  BY <1>1 DEF Serving, Sends, LockInv, PlacesOK
<1>5. /\ Taken \in Nat
      /\ Taken' = Taken + 1
      /\ Served' = Served
      /\ AnsweredRequests' = AnsweredRequests
  BY <1>1, <1>2, <1>4 DEF Taken, Served, AnsweredRequests, InOrder
<1>6. InOrder'
  <2>1. \A i \in 1..Len(requestQueue') : requestQueue'[i] = accepted'[Taken' + i]
    <3> SUFFICES ASSUME NEW i \in 1..(Len(requestQueue) - 1)
                 PROVE  requestQueue[i + 1] = accepted[Taken + 1 + i]
      BY <1>1, <1>2, <1>5
    <3>1. i + 1 \in 1..Len(requestQueue) /\ Taken + 1 + i = Taken + (i + 1)
      BY <1>2, <1>5
    <3> QED BY <3>1 DEF InOrder
  <2>2. Taken' > 0 /\ request' = accepted'[Taken']
    <3>1. 1 \in 1..Len(requestQueue)
      BY <1>2
    <3> QED BY <1>1, <1>2, <1>5, <3>1 DEF InOrder
  <2> QED BY <1>1, <1>5, <2>1, <2>2 DEF InOrder
<1>7. AnswersKnown'
  <2>1. ~Sends(Worker)
    BY <1>1 DEF Sends
  <2> QED BY <1>1, <1>4, <1>5, <2>1, ThreadAssumption DEF AnswersKnown, Thread
<1> QED BY <1>3, <1>6, <1>7

\* The worker has an answer to its request.
LEMMA WorkerAnswers ==
  ASSUME LockInv, ExchangeInv, NEW code \in Codes, ToSend(Worker, request, code),
         pc[Worker] \in {"getRequest", "parse"},
         UNCHANGED <<accepted, requestQueue, toHost, request, responseCode>>
  PROVE  ExchangeInv'
<1> USE Threads DEF ExchangeInv
<1>1. /\ answer' = [answer EXCEPT ![Worker] = [id |-> request, code |-> code]]
      /\ pc' = [pc EXCEPT ![Worker] = "send"]
  BY DEF ToSend, Goto
<1>2. /\ Serving' /\ Serving
      /\ Sends(Worker)'
      /\ \A t \in Thread \ {Worker} : Sends(t)' <=> Sends(t)
  BY <1>1 DEF Serving, Sends, LockInv, PlacesOK
<1>3. request \in Message
  <2>1. Taken \in 1..Len(accepted) /\ request = accepted[Taken]
    BY <1>2, LenProperties DEF InOrder, Taken, ExchangeTypes
  <2> QED BY <2>1, ElementOfSeq DEF ExchangeTypes
<1>4. [id |-> request, code |-> code] \in Answer
  BY <1>3 DEF Answer
<1>5. ExchangeTypes'
  BY <1>1, <1>4 DEF ExchangeTypes
<1>6. /\ Taken' = Taken
      /\ Served' = Served
      /\ AnsweredRequests' = AnsweredRequests
  BY <1>2 DEF Taken, Served, AnsweredRequests
<1>7. InOrder'
  BY <1>2, <1>6 DEF InOrder
<1>8. /\ answer'[Worker] = [id |-> request, code |-> code]
      /\ \A t \in Thread \ {Worker} : answer'[t] = answer[t]
  BY <1>1 DEF ExchangeTypes
<1>9. AnswersKnown'
  <2>1. \A t \in Thread : IF Sends(t)' THEN answer'[t] \in Answer ELSE answer'[t] = NoAnswer
    BY <1>2, <1>4, <1>8 DEF AnswersKnown
  <2>2. answer'[Worker].id = request'
    BY <1>8
  <2>3. \A c \in Caller : Sends(c)' =>
          /\ answer'[c].id \notin ToSet(accepted') \cup AnsweredRequests'
          /\ answer'[c].code \in Refusals
          /\ \A d \in Caller : Sends(d)' /\ answer'[d].id = answer'[c].id => d = c
    BY <1>2, <1>6, <1>8 DEF AnswersKnown
  <2> QED BY <2>1, <2>2, <2>3 DEF AnswersKnown
<1> QED BY <1>5, <1>7, <1>9

\* What every send to the host does.
LEMMA SendEffect ==
  ASSUME LockInv, ExchangeInv, NEW t \in Thread, EndSend(t)
  PROVE  /\ Sends(t) /\ ~Sends(t)' /\ answer[t] \in Answer
         /\ toHost' = Append(toHost, answer[t])
         /\ answer'[t] = NoAnswer
         /\ \A u \in Thread \ {t} : answer'[u] = answer[u] /\ (Sends(u)' <=> Sends(u))
         /\ AnsweredRequests' = AnsweredRequests \cup {answer[t].id}
         /\ Taken' = Taken
         /\ UNCHANGED <<accepted, requestQueue, request>>
         /\ ExchangeTypes'
<1> USE Threads DEF ExchangeInv
<1>1. /\ pc[t] = "sending"
      /\ toHost' = Append(toHost, answer[t])
      /\ answer' = [answer EXCEPT ![t] = NoAnswer]
      /\ \E p \in {"idle", "count", "loop"} : pc' = [pc EXCEPT ![t] = p]
      /\ UNCHANGED <<accepted, requestQueue, request, responseCode>>
  BY DEF EndSend, Goto, serving
<1>2. Sends(t) /\ answer[t] \in Answer
  BY <1>1 DEF Sends, AnswersKnown
<1>3. /\ ~Sends(t)'
      /\ \A u \in Thread \ {t} : Sends(u)' <=> Sends(u)
  BY <1>1 DEF Sends, LockInv, PlacesOK
<1>4. /\ answer'[t] = NoAnswer
      /\ \A u \in Thread \ {t} : answer'[u] = answer[u]
  BY <1>1 DEF ExchangeTypes
<1>5. /\ toHost' \in Seq(Answer)
      /\ DOMAIN toHost' = 1..(Len(toHost) + 1)
      /\ DOMAIN toHost = 1..Len(toHost)
      /\ Len(toHost) \in Nat
      /\ \A i \in 1..Len(toHost) : toHost'[i] = toHost[i]
      /\ toHost'[Len(toHost) + 1] = answer[t]
  BY <1>1, <1>2, AppendProperties, LenProperties DEF ExchangeTypes
<1>6. AnsweredRequests' = AnsweredRequests \cup {answer[t].id}
  <2>1. \A x : x \in AnsweredRequests' <=> x \in AnsweredRequests \/ x = answer[t].id
    BY <1>5 DEF AnsweredRequests
  <2> QED BY <2>1
<1>7. ExchangeTypes'
  BY <1>1, <1>5 DEF ExchangeTypes
<1> QED BY <1>1, <1>2, <1>3, <1>4, <1>6, <1>7 DEF Taken

LEMMA CallerSendKeeps ==
  ASSUME LockInv, ExchangeInv, NEW c \in Caller, EndSend(c)
  PROVE  ExchangeInv'
<1> USE Threads DEF ExchangeInv
<1>1. Serving' <=> Serving
  BY DEF EndSend, Goto, Serving, LockInv, PlacesOK
<1>2. Served' = Served
  BY <1>1, SendEffect DEF Served
<1>3. answer[c].id \notin ToSet(accepted)
  BY SendEffect DEF AnswersKnown
<1>4. \A i \in 1..Len(accepted) : accepted[i] # answer[c].id
  BY <1>3, LenProperties DEF ToSet, ExchangeTypes
<1>5. InOrder'
  BY <1>1, <1>2, <1>4, SendEffect DEF InOrder
<1>6. AnswersKnown'
  <2>1. \A t \in Thread : IF Sends(t)' THEN answer'[t] \in Answer ELSE answer'[t] = NoAnswer
    BY SendEffect DEF AnswersKnown
  <2>2. Sends(Worker)' => answer'[Worker].id = request'
    BY SendEffect DEF AnswersKnown
  <2>3. ASSUME NEW d \in Caller, Sends(d)'
        PROVE  /\ answer'[d].id \notin ToSet(accepted') \cup AnsweredRequests'
               /\ answer'[d].code \in Refusals
               /\ \A e \in Caller : Sends(e)' /\ answer'[e].id = answer'[d].id => e = d
    BY <2>3, SendEffect DEF AnswersKnown
  <2> QED BY <2>1, <2>2, <2>3 DEF AnswersKnown
<1> QED BY <1>5, <1>6, SendEffect

LEMMA WorkerSendKeeps ==
  ASSUME LockInv, ExchangeInv, EndSend(Worker)
  PROVE  ExchangeInv'
<1> USE Threads DEF ExchangeInv
<1>1. Serving /\ ~Serving'
  BY DEF EndSend, Goto, Serving, LockInv, PlacesOK
<1>2. /\ Taken \in 1..Len(accepted)
      /\ Len(accepted) \in Nat
      /\ answer[Worker].id = accepted[Taken]
  BY <1>1, SendEffect, LenProperties DEF InOrder, Taken, AnswersKnown, ExchangeTypes
<1>3. Served = Taken - 1 /\ Served' = Taken
  BY <1>1, SendEffect DEF Served
<1>4. \A i \in 1..Len(accepted) : accepted[i] = answer[Worker].id <=> i = Taken
  BY <1>2 DEF InOrder
<1>5. \A i \in 1..Len(accepted') : accepted'[i] \in AnsweredRequests' <=> i <= Served'
  BY <1>2, <1>3, <1>4, SendEffect DEF InOrder
<1>6. InOrder'
  BY <1>1, <1>5, SendEffect DEF InOrder
<1>7. answer[Worker].id \in ToSet(accepted)
  BY <1>2, LenProperties DEF ToSet, ExchangeTypes
<1>8. AnswersKnown'
  <2>1. \A t \in Thread : IF Sends(t)' THEN answer'[t] \in Answer ELSE answer'[t] = NoAnswer
    BY SendEffect DEF AnswersKnown
  <2>2. \A d \in Caller : Sends(d)' =>
          /\ answer'[d].id \notin ToSet(accepted') \cup AnsweredRequests'
          /\ answer'[d].code \in Refusals
          /\ \A e \in Caller : Sends(e)' /\ answer'[e].id = answer'[d].id => e = d
    BY <1>7, SendEffect DEF AnswersKnown
  <2> QED BY <2>1, <2>2, SendEffect DEF AnswersKnown
<1> QED BY <1>6, <1>8, SendEffect

LEMMA AsideSteps ==
  ASSUME LockInv, ExchangeInv,
         \/ Start \/ Shutdown \/ Join \/ (\E t \in Caller \cup {Host} : Post(t))
         \/ (\E t \in Thread : BeginSend(t))
         \/ CountResponse \/ Return \/ FindEmpty \/ Wait \/ GetReply \/ ParseLine
         \/ UNCHANGED vars
  PROVE  Aside
<1> USE Threads DEF LockInv, PlacesOK, Lifecycle, ExchangeInv, Goto, Serving, Sends, Aside,
                    serving, Codes
<1>1. responseCode \in Codes
  BY DEF ExchangeTypes
<1>2. CASE Start \/ Shutdown \/ Join
  BY <1>1, <1>2 DEF Start, Shutdown, Join
<1>3. ASSUME NEW t \in Caller \cup {Host}, Post(t) PROVE Aside
  BY <1>1, <1>3 DEF Post
<1>4. ASSUME NEW t \in Thread, BeginSend(t) PROVE Aside
  BY <1>1, <1>4 DEF BeginSend
<1>5. CASE CountResponse \/ Return \/ FindEmpty \/ Wait
  BY <1>1, <1>5 DEF CountResponse, Return, FindEmpty, Wait
<1>6. CASE GetReply \/ ParseLine
  BY <1>1, <1>6 DEF GetReply, ParseLine
<1>7. CASE UNCHANGED vars
  BY <1>1, <1>7 DEF vars
<1> QED BY <1>2, <1>3, <1>4, <1>5, <1>6, <1>7

LEMMA AnswerSteps ==
  ASSUME LockInv, ExchangeInv, GetFails \/ ParseFails \/ Reply
  PROVE  /\ \E code \in Codes : ToSend(Worker, request, code)
         /\ pc[Worker] \in {"getRequest", "parse"}
         /\ UNCHANGED <<accepted, requestQueue, toHost, request, responseCode>>
<1>1. {"500", "200", responseCode} \subseteq Codes
  BY DEF ExchangeInv, ExchangeTypes, Codes, Statuses
<1>2. CASE GetFails \/ ParseFails
  BY <1>1, <1>2 DEF GetFails, ParseFails, Throw, SendError, serving
<1>3. CASE Reply
  BY <1>1, <1>3 DEF Reply, SendError, SendResponse, serving
<1> QED BY <1>2, <1>3

\* Every step is one of HTTPExchanges, or none.
LEMMA ExchangeStep ==
  LockInv /\ ExchangeInv /\ [Next]_vars
    => ExchangeInv' /\ [Exchanges!Next]_<<accepted, toHost>>
<1> DEFINE Step == ExchangeInv' /\ [Exchanges!Next]_<<accepted, toHost>>
<1> SUFFICES ASSUME LockInv, ExchangeInv, [Next]_vars PROVE Step
  OBVIOUS
<1>1. /\ AnsweredRequests = Exchanges!Answered
      /\ ToSet(accepted) = Exchanges!ToSet(accepted)
  BY DEF AnsweredRequests, Exchanges!Answered, ToSet, Exchanges!ToSet
<1>2. ASSUME Aside PROVE Step
  BY <1>2, AsideKeeps DEF Aside
<1>3. ASSUME NEW c \in Caller, NEW m \in Message, NEW code \in Refusals,
             DeliverInvalid(c, m, code)
      PROVE  Step
  BY <1>3, DeliverInvalidKeeps DEF DeliverInvalid
<1>4. ASSUME NEW c \in Caller, NEW m \in Message, DeliverRequest(c, m) PROVE Step
  <2>1. m \notin ToSet(accepted) \cup AnsweredRequests
    BY <1>4 DEF DeliverRequest, Delivered, AnsweredRequests
  <2>2. Exchanges!Accept(m)
    BY <1>1, <1>4, <2>1 DEF DeliverRequest, Exchanges!Accept
  <2> QED BY <1>4, <2>2, DeliverRequestKeeps DEF Exchanges!Next
<1>5. CASE Dequeue
  BY <1>5, DequeueKeeps DEF Dequeue
<1>6. CASE GetFails \/ ParseFails \/ Reply
  BY <1>6, AnswerSteps, WorkerAnswers
<1>7. ASSUME NEW c \in Caller, EndSend(c) PROVE Step
  <2>1. /\ answer[c].id \in Message
        /\ answer[c].id \notin ToSet(accepted) \cup AnsweredRequests
        /\ answer[c].code \in Refusals
        /\ toHost' = Append(toHost, [id |-> answer[c].id, code |-> answer[c].code])
        /\ accepted' = accepted
    BY <1>7, SendEffect, Threads DEF ExchangeInv, AnswersKnown, Answer
  <2>2. Exchanges!Refuse(answer[c].id, answer[c].code)
    BY <1>1, <2>1 DEF Exchanges!Refuse
  <2> QED BY <1>7, <2>1, <2>2, CallerSendKeeps DEF Exchanges!Next
<1>8. CASE EndSend(Worker)
  <2>1. /\ answer[Worker].code \in Codes
        /\ answer[Worker].id = request
        /\ toHost' = Append(toHost, [id |-> request, code |-> answer[Worker].code])
        /\ accepted' = accepted
        /\ Serving
    BY <1>8, SendEffect, Threads DEF ExchangeInv, AnswersKnown, Answer, Serving, Sends
  <2>2. /\ Taken \in 1..Len(accepted)
        /\ Len(accepted) \in Nat
        /\ DOMAIN accepted = 1..Len(accepted)
        /\ request = accepted[Taken]
        /\ Served = Taken - 1
    BY <2>1, LenProperties DEF ExchangeInv, InOrder, ExchangeTypes, Taken, Served
  <2>3. /\ accepted[Taken] \notin Exchanges!Answered
        /\ \A j \in 1..(Taken - 1) : accepted[j] \in Exchanges!Answered
    BY <1>1, <2>2 DEF ExchangeInv, InOrder
  <2>4. Exchanges!Respond(answer[Worker].code)
    BY <2>1, <2>2, <2>3 DEF Exchanges!Respond
  <2> QED BY <1>8, <2>1, <2>4, WorkerSendKeeps DEF Exchanges!Next
<1> QED
  BY <1>2, <1>3, <1>4, <1>5, <1>6, <1>7, <1>8, AsideSteps, Threads
  DEF Next, WorkerNext, CallerFinish, CallerDeliver, Terminated

(* The transport answers what it accepts once and in order, and refuses    *)
(* the rest, whatever its threads and the server do: HTTPClient.cpp:127-   *)
(* 230 and 311-393.                                                        *)
THEOREM Refinement == Spec => ImplementsExchanges
<1>1. Init => Exchanges!Init
  BY DEF Init, Exchanges!Init
<1> QED
  BY <1>1, LockInit, LockStep, ExchangeInit, ExchangeStep, PTL
  DEF Spec, ImplementsExchanges, Exchanges!Spec

\* After shutdown only a caller sends, and it refuses a message.
LEMMA SilentStep ==
  LockInv /\ ExchangeInv /\ [Next]_vars
    => [pc[Host] = "stopped" /\ toHost' # toHost => Last(toHost').code \in Refusals]_vars
<1> SUFFICES ASSUME LockInv, ExchangeInv, Next, pc[Host] = "stopped", toHost' # toHost
             PROVE  Last(toHost').code \in Refusals
  OBVIOUS
<1>1. ~Aside
  BY DEF Aside
<1>2. ASSUME NEW t \in Thread, EndSend(t) PROVE Last(toHost').code \in Refusals
  <2>1. t \in Caller
    BY <1>2, Threads DEF EndSend, LockInv, PlacesOK, Lifecycle
  <2>2. toHost \in Seq(Answer) /\ answer[t] \in Answer /\ toHost' = Append(toHost, answer[t])
    BY <1>2, SendEffect DEF ExchangeInv, ExchangeTypes
  <2>3. Last(toHost') = answer[t]
    BY <2>2, AppendProperties DEF Last
  <2>4. Sends(t)
    BY <1>2 DEF EndSend, Sends
  <2> QED BY <2>1, <2>3, <2>4 DEF ExchangeInv, AnswersKnown
<1> QED
  BY <1>1, <1>2, AsideSteps, AnswerSteps, Threads
  DEF Next, WorkerNext, CallerFinish, CallerDeliver, Terminated, DeliverRequest,
      DeliverInvalid, Dequeue

(* Once shutdown has returned, no request that was accepted is answered    *)
(* any more: HTTPClient.cpp:110-125.                                       *)
THEOREM SilentAfterShutdown == Spec => SilentOnceStopped
  BY LockInit, LockStep, ExchangeInit, ExchangeStep, SilentStep, PTL
  DEF Spec, SilentOnceStopped

-----------------------------------------------------------------------------
(* The counters.  Of a response the counter is late, until the worker has  *)
(* counted it; of an error it is early, until its thread has sent it.      *)

Failing == {t \in Thread : Sends(t) /\ answer[t].code # "200"}

CountsAgree ==
  /\ IsFiniteSet(Failing)
  /\ responsesTowardsHost \in Nat /\ errorsTowardsHost \in Nat
  /\ responsesTowardsHost + (IF pc[Worker] = "count" THEN 1 ELSE 0) = Sent({"200"})
  /\ errorsTowardsHost = Sent(Codes \ {"200"}) + Cardinality(Failing)

ServeTypes ==
  /\ queueLock \in Thread \cup {None}
  /\ request \in Message \cup {None}
  /\ response \in Responses \cup {<<>>}
  /\ line \in Nat

AccountInv == ServeTypes /\ CountsAgree

\* How often the codes C are among the answers of s.
Count(s, C) == Cardinality({i \in DOMAIN s : s[i].code \in C})

LEMMA CountType ==
  ASSUME NEW s \in Seq(Answer), NEW C PROVE Count(s, C) \in Nat
<1>1. DOMAIN s = 1..Len(s) /\ Len(s) \in Nat
  BY LenProperties
<1>2. IsFiniteSet({i \in DOMAIN s : s[i].code \in C})
  <2>1. IsFiniteSet(1..Len(s))
    BY <1>1, FS_Interval
  <2> QED BY <1>1, <2>1, FS_Subset
<1> QED BY <1>2, FS_CardinalityType DEF Count

LEMMA CountAppend ==
  ASSUME NEW s \in Seq(Answer), NEW a \in Answer, NEW C
  PROVE  /\ Count(s, C) \in Nat
         /\ Count(Append(s, a), C) = Count(s, C) + (IF a.code \in C THEN 1 ELSE 0)
<1> DEFINE S == {i \in DOMAIN s : s[i].code \in C}
           T == {i \in DOMAIN Append(s, a) : Append(s, a)[i].code \in C}
           n == Len(s) + 1
<1>1. /\ DOMAIN s = 1..Len(s) /\ Len(s) \in Nat
      /\ DOMAIN Append(s, a) = 1..n /\ Append(s, a)[n] = a
      /\ \A i \in 1..Len(s) : Append(s, a)[i] = s[i]
  BY AppendProperties, LenProperties
<1>2. IsFiniteSet(S) /\ n \notin S
  <2>1. IsFiniteSet(1..Len(s))
    BY <1>1, FS_Interval
  <2> QED BY <1>1, <2>1, FS_Subset
<1>3. T = IF a.code \in C THEN S \cup {n} ELSE S
  BY <1>1
<1> HIDE DEF S, T
<1>4. Cardinality(S) \in Nat /\ Cardinality(S \cup {n}) = Cardinality(S) + 1
  BY <1>2, FS_AddElement, FS_CardinalityType
<1>5. Cardinality(T) = Cardinality(S) + (IF a.code \in C THEN 1 ELSE 0)
  BY <1>3, <1>4
<1> QED BY <1>4, <1>5 DEF S, T, Count

LEMMA SentIs == \A C : Sent(C) = Count(toHost, C)
  BY DEF Sent, Count, Quantify

LEMMA SentWillBe == (\A C : Sent(C) = Count(toHost, C))'
  BY SentIs, PTL

LEMMA AccountInit == Init => AccountInv
<1> SUFFICES ASSUME Init PROVE AccountInv
  OBVIOUS
<1>1. Failing = {}
  BY DEF Init, Failing, Sends
<1>2. \A C : Count(<<>>, C) = 0
  <2> SUFFICES ASSUME NEW C PROVE Count(<<>>, C) = 0
    OBVIOUS
  <2>1. {i \in DOMAIN <<>> : <<>>[i].code \in C} = {}
    OBVIOUS
  <2> QED BY <2>1, FS_EmptySet DEF Count
<1>3. Sent({"200"}) = 0 /\ Sent(Codes \ {"200"}) = 0
  BY <1>2, SentIs DEF Init
<1>4. CountsAgree
  <2>1. errorsTowardsHost = 0 /\ responsesTowardsHost = 0 /\ pc[Worker] # "count"
    BY Threads DEF Init
  <2>2. IsFiniteSet(Failing) /\ Cardinality(Failing) = 0
    BY <1>1, FS_EmptySet
  <2> QED BY <1>3, <2>1, <2>2 DEF CountsAgree
<1> QED BY <1>4 DEF Init, AccountInv, ServeTypes

\* A step that sends nothing, and begins or ends no failure.
LEMMA NothingCounted ==
  ASSUME CountsAgree, UNCHANGED <<counters, toHost>>, Failing' = Failing,
         pc'[Worker] = "count" <=> pc[Worker] = "count"
  PROVE  CountsAgree'
  BY SentIs, SentWillBe DEF CountsAgree, counters

\* Thread t has an error to send.
LEMMA ErrorCounted ==
  ASSUME LockInv, ExchangeInv, CountsAgree, NEW t \in Thread, NEW m, NEW code, SendError(t, m, code),
         ~Sends(t), code # "200", t = Worker => pc[Worker] # "count", toHost' = toHost
  PROVE  CountsAgree'
<1>1. /\ pc' = [pc EXCEPT ![t] = "send"]
      /\ answer' = [answer EXCEPT ![t] = [id |-> m, code |-> code]]
      /\ errorsTowardsHost' = errorsTowardsHost + 1
      /\ responsesTowardsHost' = responsesTowardsHost
  BY DEF SendError, ToSend, Goto
<1>2. pc \in [Thread -> Places] /\ answer \in [Thread -> Answer \cup {NoAnswer}]
  BY DEF LockInv, PlacesOK, ExchangeInv, ExchangeTypes
<1>3. Failing' = Failing \cup {t} /\ t \notin Failing
  BY <1>1, <1>2 DEF Failing, Sends
<1>4. /\ IsFiniteSet(Failing') /\ Cardinality(Failing') = Cardinality(Failing) + 1
      /\ Cardinality(Failing) \in Nat
  BY <1>3, FS_AddElement, FS_CardinalityType DEF CountsAgree
<1>5. pc'[Worker] = "count" <=> pc[Worker] = "count"
  BY <1>1, <1>2, Threads
<1>6. \A C : Sent(C)' = Sent(C) /\ Sent(C) \in Nat
  <2>1. toHost \in Seq(Answer)
    BY DEF ExchangeInv, ExchangeTypes
  <2>2. ASSUME NEW C PROVE Sent(C)' = Sent(C) /\ Sent(C) \in Nat
    <3>1. Sent(C) = Count(toHost, C) /\ Sent(C)' = Count(toHost', C)
      BY SentIs, SentWillBe
    <3> QED BY <2>1, <3>1, CountType
  <2> QED BY <2>2
<1> QED BY <1>1, <1>4, <1>5, <1>6 DEF CountsAgree

\* Thread t has sent its answer.
LEMMA SendCounted ==
  ASSUME LockInv, ExchangeInv, CountsAgree, NEW t \in Thread, EndSend(t)
  PROVE  CountsAgree'
<1>1. PICK a \in Answer : a = answer[t]
  BY SendEffect
<1>2. /\ toHost \in Seq(Answer) /\ toHost' = Append(toHost, a)
      /\ Sends(t) /\ ~Sends(t)' /\ UNCHANGED counters
      /\ \A u \in Thread \ {t} : answer'[u] = answer[u] /\ (Sends(u)' <=> Sends(u))
  BY <1>1, SendEffect DEF ExchangeInv, ExchangeTypes, EndSend
<1>3. PICK n \in Nat : n = IF a.code = "200" THEN 0 ELSE 1
  OBVIOUS
<1>4. ASSUME NEW C
      PROVE  Sent(C) \in Nat /\ Sent(C)' = Sent(C) + (IF a.code \in C THEN 1 ELSE 0)
  <2>1. Sent(C) = Count(toHost, C) /\ Sent(C)' = Count(toHost', C)
    BY SentIs, SentWillBe
  <2> QED BY <1>2, <2>1, CountAppend
<1>5. /\ IsFiniteSet(Failing') /\ Cardinality(Failing') \in Nat
      /\ Cardinality(Failing) = Cardinality(Failing') + n
  <2>1. Failing' = Failing \ {t} /\ (t \in Failing <=> a.code # "200")
    BY <1>1, <1>2 DEF Failing
  <2>2. IsFiniteSet(Failing)
    BY DEF CountsAgree
  <2>3. /\ IsFiniteSet(Failing') /\ Cardinality(Failing) \in Nat /\ Cardinality(Failing') \in Nat
        /\ Cardinality(Failing') = IF t \in Failing THEN Cardinality(Failing) - 1 ELSE Cardinality(Failing)
    BY <2>1, <2>2, FS_RemoveElement, FS_CardinalityType
  <2> QED BY <1>3, <2>1, <2>3
<1>6. /\ pc[Worker] = "count" => t # Worker
      /\ pc'[Worker] = "count" <=> pc[Worker] = "count" \/ (t = Worker /\ a.code = "200")
  <2>1. /\ pc[t] = "sending" /\ pc \in [Thread -> Places]
        /\ pc' = [pc EXCEPT ![t] = IF t # Worker THEN "idle"
                                   ELSE IF a.code = "200" THEN "count" ELSE "loop"]
    BY <1>1 DEF EndSend, Goto, LockInv, PlacesOK
  <2>2. CASE t = Worker
    BY <2>1, <2>2, Threads
  <2>3. CASE t # Worker
    BY <2>1, <2>3, Threads
  <2> QED BY <2>2, <2>3
<1>7. ASSUME t # Worker PROVE a.code # "200"
  <2>1. t \in Caller
    BY <1>2, <1>7, Threads DEF Sends, LockInv, PlacesOK
  <2>2. answer[t].code \in Refusals
    BY <1>2, <2>1 DEF ExchangeInv, AnswersKnown
  <2> QED BY <1>1, <2>2 DEF Refusals
<1>8. a.code \in Codes
  BY DEF Answer
<1> QED BY <1>2, <1>3, <1>4, <1>5, <1>6, <1>7, <1>8 DEF CountsAgree, counters

LEMMA CountsStep ==
  ASSUME LockInv, ExchangeInv, CountsAgree, [Next]_vars
  PROVE  CountsAgree'
<1> DEFINE Rest == \/ Start \/ Shutdown \/ Join \/ (\E t \in Caller \cup {Host} : Post(t))
                   \/ (\E t \in Thread : BeginSend(t))
                   \/ (\E c \in Caller, m \in Message : DeliverRequest(c, m))
                   \/ Return \/ FindEmpty \/ Wait \/ Dequeue \/ GetReply \/ ParseLine
                   \/ UNCHANGED vars
<1>1. CASE Rest
  <2>1. UNCHANGED <<counters, toHost, answer>>
    BY <1>1 DEF Start, Shutdown, Join, Post, BeginSend, DeliverRequest, Return, FindEmpty, Wait,
                Dequeue, GetReply, ParseLine, vars
  <2>2. /\ pc'[Worker] = "count" <=> pc[Worker] = "count"
        /\ \A t \in Thread : Sends(t)' <=> Sends(t)
    <3> USE Threads DEF LockInv, PlacesOK, Goto, Sends
    <3>1. CASE Start \/ Shutdown \/ Join
      BY <3>1 DEF Start, Shutdown, Join, Lifecycle
    <3>2. ASSUME NEW t \in Caller \cup {Host}, Post(t) PROVE <2>2!:
      BY <3>2 DEF Post
    <3>3. ASSUME NEW t \in Thread, BeginSend(t) PROVE <2>2!:
      BY <3>3 DEF BeginSend
    <3>4. ASSUME NEW c \in Caller, NEW m \in Message, DeliverRequest(c, m) PROVE <2>2!:
      BY <3>4 DEF DeliverRequest
    <3>5. CASE Return \/ FindEmpty \/ Wait \/ Dequeue
      BY <3>5 DEF Return, FindEmpty, Wait, Dequeue
    <3>6. CASE GetReply \/ ParseLine
      BY <3>6 DEF GetReply, ParseLine
    <3>7. CASE UNCHANGED vars
      BY <3>7 DEF vars
    <3> QED BY <1>1, <3>1, <3>2, <3>3, <3>4, <3>5, <3>6, <3>7
  <2>3. Failing' = Failing
    BY <2>1, <2>2 DEF Failing
  <2> QED BY <2>1, <2>2, <2>3, NothingCounted
<1>2. ASSUME NEW c \in Caller, NEW m \in Message, NEW code \in Refusals, DeliverInvalid(c, m, code)
      PROVE  CountsAgree'
  <2>1. SendError(c, m, code) /\ ~Sends(c) /\ code # "200" /\ c # Worker /\ c \in Thread /\ toHost' = toHost
    BY <1>2, Threads DEF DeliverInvalid, Sends, Refusals
  <2> QED BY <2>1, ErrorCounted
<1>3. CASE GetFails \/ ParseFails \/ (Reply /\ responseCode # "200")
  <2>1. PICK code : SendError(Worker, request, code) /\ code # "200"
    <3>1. CASE GetFails \/ ParseFails
      <4>1. SendError(Worker, request, "500")
        BY <3>1 DEF GetFails, ParseFails, Throw
      <4> QED BY <4>1
    <3>2. CASE Reply /\ responseCode # "200"
      <4>1. SendError(Worker, request, responseCode)
        BY <3>2 DEF Reply
      <4> QED BY <3>2, <4>1
    <3> QED BY <1>3, <3>1, <3>2
  <2>2. pc[Worker] \in {"getRequest", "parse"} /\ toHost' = toHost
    BY <1>3 DEF GetFails, ParseFails, Throw, Reply
  <2>3. ~Sends(Worker) /\ pc[Worker] # "count"
    BY <2>2 DEF Sends
  <2> QED BY <2>1, <2>2, <2>3, ErrorCounted, Threads
<1>4. CASE Reply /\ responseCode = "200"
  <2>1. /\ answer' = [answer EXCEPT ![Worker] = [id |-> request, code |-> "200"]]
        /\ pc' = [pc EXCEPT ![Worker] = "send"] /\ pc[Worker] = "parse"
        /\ UNCHANGED <<counters, toHost>>
    BY <1>4 DEF Reply, SendResponse, ToSend, Goto
  <2>2. pc \in [Thread -> Places] /\ answer \in [Thread -> Answer \cup {NoAnswer}]
    BY DEF LockInv, PlacesOK, ExchangeInv, ExchangeTypes
  <2>3. Failing' = Failing /\ pc'[Worker] # "count"
    BY <2>1, <2>2, Threads DEF Failing, Sends
  <2> QED BY <2>1, <2>3, NothingCounted
<1>5. ASSUME NEW t \in Thread, EndSend(t) PROVE CountsAgree'
  BY <1>5, SendCounted
<1>6. CASE CountResponse
  <2>1. /\ responsesTowardsHost' = responsesTowardsHost + 1 /\ errorsTowardsHost' = errorsTowardsHost
        /\ pc[Worker] = "count" /\ pc' = [pc EXCEPT ![Worker] = "loop"]
        /\ UNCHANGED <<answer, toHost>>
    BY <1>6 DEF CountResponse, Goto
  <2>2. pc \in [Thread -> Places]
    BY DEF LockInv, PlacesOK
  <2>3. Failing' = Failing /\ pc'[Worker] # "count"
    BY <2>1, <2>2, Threads DEF Failing, Sends
  <2>4. \A C : Sent(C)' = Sent(C)
    BY <2>1, SentIs, SentWillBe
  <2> QED BY <2>1, <2>3, <2>4 DEF CountsAgree
<1> QED
  BY <1>1, <1>2, <1>3, <1>4, <1>5, <1>6, Threads
  DEF Next, WorkerNext, CallerFinish, CallerDeliver, Terminated

LEMMA ServeStep ==
  ASSUME LockInv, ExchangeInv, ServeTypes, [Next]_vars
  PROVE  ServeTypes'
<1> USE Threads DEF ServeTypes, serving
<1>1. CASE Start \/ Shutdown \/ Join
  BY <1>1 DEF Start, Shutdown, Join
<1>2. ASSUME NEW t \in Thread, Post(t) \/ BeginSend(t) \/ EndSend(t) PROVE ServeTypes'
  BY <1>2 DEF Post, BeginSend, EndSend
<1>3. ASSUME NEW c \in Caller, CallerDeliver(c) PROVE ServeTypes'
  BY <1>3 DEF CallerDeliver, DeliverRequest, DeliverInvalid
<1>4. CASE CountResponse \/ Return \/ FindEmpty \/ Wait
  BY <1>4 DEF CountResponse, Return, FindEmpty, Wait
<1>5. CASE Dequeue
  <2>1. requestQueue \in Seq(Message) /\ requestQueue # <<>>
    BY <1>5 DEF Dequeue, ExchangeInv, ExchangeTypes
  <2>2. Head(requestQueue) \in Message
    BY <2>1, HeadTailProperties
  <2> QED BY <1>5, <2>2 DEF Dequeue
<1>6. CASE GetReply
  BY <1>6 DEF GetReply
<1>7. CASE ParseLine
  <2>1. line' = 1 \/ line' = line + 1
    BY <1>7 DEF ParseLine
  <2>2. line' \in Nat
    BY <2>1
  <2>3. UNCHANGED <<queueLock, request, response>>
    BY <1>7 DEF ParseLine
  <2> QED BY <2>2, <2>3
<1>8. CASE GetFails \/ ParseFails \/ Reply
  BY <1>8 DEF GetFails, ParseFails, Throw, Reply
<1>9. CASE UNCHANGED vars
  BY <1>9 DEF vars
<1> QED
  BY <1>1, <1>2, <1>3, <1>4, <1>5, <1>6, <1>7, <1>8, <1>9
  DEF Next, WorkerNext, CallerFinish, Terminated

LEMMA QueueIsRest == ExchangeInv /\ LockInv => NoRequestDropped
<1> SUFFICES ASSUME ExchangeInv,
                    pc[Worker] \in {"none", "loop", "wait", "count", "ended"}
             PROVE  \E n \in 0..Len(accepted) :
                      /\ requestQueue = SubSeq(accepted, n + 1, Len(accepted))
                      /\ \A i \in 1..Len(accepted) : accepted[i] \in AnsweredRequests <=> i <= n
  BY DEF NoRequestDropped
<1> DEFINE rest == SubSeq(accepted, Taken + 1, Len(accepted))
<1>1. /\ accepted \in Seq(Message) /\ requestQueue \in Seq(Message)
      /\ Len(accepted) \in Nat /\ Len(requestQueue) \in Nat /\ Taken \in Nat
      /\ Len(accepted) = Taken + Len(requestQueue)
  BY LenProperties DEF ExchangeInv, ExchangeTypes, InOrder, Taken
<1>2. Served = Taken
  BY DEF Served, Serving
<1>3. rest = requestQueue
  <2>1. /\ rest \in Seq(Message)
        /\ Len(rest) = Len(requestQueue)
        /\ \A i \in 1..Len(requestQueue) : rest[i] = accepted[Taken + i]
    <3>1. \A i \in Taken + 1..Len(accepted) : i \in 1..Len(accepted)
      BY <1>1
    <3>2. \A i \in Taken + 1..Len(accepted) : accepted[i] \in Message
      BY <1>1, <3>1, ElementOfSeq
    <3> QED BY <1>1, <3>2, SubSeqProperties
  <2>2. \A i \in 1..Len(rest) : rest[i] = requestQueue[i]
    BY <2>1 DEF ExchangeInv, InOrder
  <2> QED BY <1>1, <2>1, <2>2, SeqEqual
<1>4. \A i \in 1..Len(accepted) : accepted[i] \in AnsweredRequests <=> i <= Taken
  BY <1>2 DEF ExchangeInv, InOrder
<1>5. Taken \in 0..Len(accepted)
  BY <1>1
<1> HIDE DEF Taken
<1> WITNESS Taken \in 0..Len(accepted)
<1> QED BY <1>3, <1>4

LEMMA CountsCatchUp == ExchangeInv /\ CountsAgree => KPIsCatchUp
<1> SUFFICES ASSUME ExchangeInv, CountsAgree PROVE KPIsCatchUp
  OBVIOUS
<1>1. \A C : Sent(C) \in Nat
  <2>1. toHost \in Seq(Answer)
    BY DEF ExchangeInv, ExchangeTypes
  <2> QED BY <2>1, SentIs, CountType
<1>2. Cardinality(Failing) \in Nat
  BY FS_CardinalityType DEF CountsAgree
<1>3. ASSUME \A t \in Thread : pc[t] \notin {"send", "sending", "count"}
      PROVE  Cardinality(Failing) = 0 /\ pc[Worker] # "count"
  <2>1. Failing = {}
    BY <1>3 DEF Failing, Sends
  <2> QED BY <1>3, <2>1, FS_EmptySet, Threads
<1> QED BY <1>1, <1>2, <1>3 DEF CountsAgree, KPIsCatchUp

LEMMA AllTyped == LockInv /\ ExchangeInv /\ AccountInv => TypeOK
  BY DEF LockInv, PlacesOK, Places, ExchangeInv, ExchangeTypes, AccountInv, ServeTypes,
         CountsAgree, TypeOK

(* Whatever fails or stops, an accepted request is queued, being served or *)
(* answered, and what was answered is counted as what it was, also while   *)
(* other threads answer and count: HTTPClient.cpp:138-230 and 311-393.     *)
THEOREM RequestsAlwaysAccountedFor == Spec => []RequestsAccountedFor
<1>1. LockInv /\ ExchangeInv /\ AccountInv /\ [Next]_vars => AccountInv'
  BY CountsStep, ServeStep DEF AccountInv
<1>2. LockInv /\ ExchangeInv /\ AccountInv => RequestsAccountedFor
  BY QueueIsRest, CountsCatchUp, AllTyped DEF AccountInv, RequestsAccountedFor
<1> QED
  BY <1>1, <1>2, LockInit, LockStep, ExchangeInit, ExchangeStep, AccountInit, PTL DEF Spec

-----------------------------------------------------------------------------
(* HTTPConnection, for any replies and any cuts.                           *)

LEMMA LeastNumber ==
  ASSUME NEW S \in SUBSET Nat, S # {}
  PROVE  \E n \in S : \A m \in S : n <= m
<1>1. IsWellFoundedOn(OpToRel(<, Nat), S)
  BY NatLessThanWellFounded, IsWellFoundedOnSubset
<1>2. PICK n \in S : \A m \in S : ~(<<m, n>> \in OpToRel(<, Nat))
  BY <1>1, WFMin
<1>3. \A m \in S : ~(m < n)
  BY <1>2 DEF OpToRel
<1> QED BY <1>3

\* How many of the bytes that the server has sent have been received.
Got == Len(sent) - Len(inFlight)

\* Of those, all are read, or less if there is a NUL among them.
ReadSoFar ==
  /\ rs \in Seq(Byte) /\ inFlight \in Seq(Byte) /\ sent \in Seq(Byte)
  /\ Got \in Nat
  /\ \A i \in 1..Len(inFlight) : inFlight[i] = sent[Got + i]
  /\ IF \E i \in 1..Got : sent[i] = NUL
     THEN Len(rs) < Got
     ELSE Len(rs) = Got /\ \A i \in 1..Got : rs[i] = sent[i]

ConnectionInv ==
  /\ phase \in {"idle", "lookup", "receiving", "replied", "thrown"}
  /\ sockets \in Nat /\ failed \in Nat
  /\ SocketsAccountedFor
  /\ ReadSoFar
  /\ phase = "replied" => inFlight = <<>> /\ peer = "closed"

LEMMA ConnectionStarts == ConnectionInit => ConnectionInv
<1> SUFFICES ASSUME ConnectionInit PROVE ConnectionInv
  OBVIOUS
<1>1. ReadSoFar
  <2>1. rs = <<>> /\ inFlight = <<>> /\ sent = <<>>
    BY DEF ConnectionInit
  <2>2. <<>> \in Seq(Byte) /\ Len(<<>>) = 0
    BY EmptySeq
  <2>3. Got = 0 /\ 1..0 = {}
    BY <2>1, <2>2 DEF Got
  <2> QED BY <2>1, <2>2, <2>3 DEF ReadSoFar
<1> QED BY <1>1 DEF ConnectionInit, ConnectionInv, SocketsAccountedFor, CallEnded

\* What is written of a piece is no longer than it, and shorter if there is a
\* NUL in it.
LEMMA StringOf ==
  ASSUME NEW b \in Seq(Byte)
  PROVE  /\ AsString(b) \in Seq(Byte)
         /\ IF \E i \in 1..Len(b) : b[i] = NUL THEN Len(AsString(b)) < Len(b) ELSE AsString(b) = b
<1>1. DOMAIN b = 1..Len(b) /\ Len(b) \in Nat /\ \A i \in 1..Len(b) : b[i] \in Byte
  BY LenProperties, ElementOfSeq
<1>2. NUL \in ToSet(b) <=> \E i \in 1..Len(b) : b[i] = NUL
  BY <1>1 DEF ToSet
<1>3. CASE \E i \in 1..Len(b) : b[i] = NUL
  <2> DEFINE I == {i \in 1..Len(b) : b[i] = NUL}
             n == SelectInSeq(b, LAMBDA x : x = NUL)
  <2>1. n \in I
    <3>1. I \in SUBSET Nat /\ I # {}
      BY <1>3
    <3>2. PICK m \in I : \A k \in I : m <= k
      BY <3>1, LeastNumber
    <3>3. Min(I) \in I
      BY <3>2 DEF Min
    <3>4. n = Min(I)
      BY <3>1 DEF SelectInSeq
    <3> QED BY <3>3, <3>4
  <2>2. AsString(b) = SubSeq(b, 1, n - 1)
    BY <1>2, <1>3 DEF AsString
  <2>3. n \in 1..Len(b)
    BY <2>1
  <2> HIDE DEF n
  <2>4. 1 \in Int /\ n - 1 \in Int /\ \A i \in 1..(n - 1) : b[i] \in Byte
    BY <1>1, <2>3
  <2>5. SubSeq(b, 1, n - 1) \in Seq(Byte) /\ Len(SubSeq(b, 1, n - 1)) = IF 1 <= n - 1 THEN n - 1 - 1 + 1 ELSE 0
    BY <2>4, SubSeqProperties
  <2> QED BY <1>1, <1>3, <2>2, <2>3, <2>5
<1>4. CASE ~ \E i \in 1..Len(b) : b[i] = NUL
  BY <1>2, <1>4 DEF AsString
<1> QED BY <1>3, <1>4

LEMMA ReceiveReads ==
  ASSUME ReadSoFar, NEW n \in 1..BufferSize, Receive(n)
  PROVE  ReadSoFar'
<1> DEFINE piece == SubSeq(inFlight, 1, n)
           rest == SubSeq(inFlight, n + 1, Len(inFlight))
<1>1. /\ rs \in Seq(Byte) /\ inFlight \in Seq(Byte) /\ sent \in Seq(Byte)
      /\ Len(rs) \in Nat /\ Len(inFlight) \in Nat /\ Len(sent) \in Nat
      /\ n \in Nat \ {0} /\ n <= Len(inFlight)
      /\ \A i \in 1..Len(inFlight) : inFlight[i] \in Byte
      /\ Got \in Nat /\ Got + Len(inFlight) = Len(sent)
  BY HTTPConnectionAssumption, LenProperties, ElementOfSeq DEF ReadSoFar, Receive, Got
<1>2. /\ piece \in Seq(Byte) /\ Len(piece) = n
      /\ \A i \in 1..n : piece[i] = inFlight[i]
  <2>1. 1 \in Int /\ n \in Int /\ \A i \in 1..n : inFlight[i] \in Byte
    BY <1>1
  <2>2. /\ piece \in Seq(Byte) /\ Len(piece) = IF 1 <= n THEN n - 1 + 1 ELSE 0
        /\ \A i \in 1..(n - 1 + 1) : piece[i] = inFlight[1 + i - 1]
    BY <2>1, SubSeqProperties
  <2> HIDE DEF piece
  <2>3. n \in Nat \ {0} /\ n - 1 + 1 = n /\ 1 <= n /\ \A i \in 1..n : 1 + i - 1 = i
    BY <1>1
  <2> QED BY ONLY <2>2, <2>3
<1>3. /\ rest \in Seq(Byte) /\ Len(rest) = Len(inFlight) - n
      /\ \A i \in 1..(Len(inFlight) - n) : rest[i] = inFlight[n + i]
  <2> DEFINE m == Len(inFlight)
  <2>1. n + 1 \in Int /\ m \in Int /\ \A i \in (n + 1)..m : inFlight[i] \in Byte
    BY <1>1
  <2>2. /\ rest \in Seq(Byte) /\ Len(rest) = IF n + 1 <= m THEN m - (n + 1) + 1 ELSE 0
        /\ \A i \in 1..(m - (n + 1) + 1) : rest[i] = inFlight[n + 1 + i - 1]
    BY <2>1, SubSeqProperties
  <2>3. n \in Nat /\ m \in Nat /\ n <= m
    BY <1>1
  <2> HIDE DEF rest, m
  <2>4. m - (n + 1) + 1 = m - n /\ (IF n + 1 <= m THEN m - (n + 1) + 1 ELSE 0) = m - n
    BY ONLY <2>3
  <2>5. \A i \in 1..(m - n) : n + 1 + i - 1 = n + i
    BY ONLY <2>3
  <2>6. rest \in Seq(Byte) /\ Len(rest) = m - n
    BY ONLY <2>2, <2>4
  <2>7. \A i \in 1..(m - n) : rest[i] = inFlight[n + i]
    BY ONLY <2>2, <2>4, <2>5
  <2> QED BY ONLY <2>6, <2>7 DEF m
<1>4. rs' = rs \o AsString(piece) /\ inFlight' = rest /\ sent' = sent
  BY DEF Receive
<1> HIDE DEF piece, rest
<1>5. Got' = Got + n
  <2>1. Len(sent') = Len(sent)
    BY <1>4
  <2>2. Len(inFlight') = Len(inFlight) - n
    BY <1>3, <1>4
  <2>3. Got' = Len(sent') - Len(inFlight')
    BY DEF Got
  <2>4. Got = Len(sent) - Len(inFlight)
    BY DEF Got
  <2>5. Len(sent) \in Nat /\ Len(inFlight) \in Nat /\ n \in Nat
    BY <1>1
  <2> QED BY ONLY <2>1, <2>2, <2>3, <2>4, <2>5
<1>6. \A i \in 1..n : piece[i] = sent[Got + i]
  <2> SUFFICES ASSUME NEW i \in 1..n PROVE piece[i] = sent[Got + i]
    OBVIOUS
  <2>1. i \in 1..Len(inFlight)
    BY <1>1
  <2> QED BY <1>2, <2>1 DEF ReadSoFar
<1>7. PICK s \in Seq(Byte) :
        /\ s = AsString(piece)
        /\ IF \E i \in 1..n : piece[i] = NUL THEN Len(s) < n ELSE s = piece
  BY <1>2, StringOf
<1>8. /\ rs' \in Seq(Byte) /\ Len(rs') = Len(rs) + Len(s) /\ Len(s) \in Nat
      /\ \A i \in 1..Len(rs) : rs'[i] = rs[i]
      /\ \A i \in 1..Len(s) : rs'[Len(rs) + i] = s[i]
  <2>1. /\ rs \o s \in Seq(Byte) /\ Len(rs \o s) = Len(rs) + Len(s) /\ Len(s) \in Nat
        /\ \A i \in 1..(Len(rs) + Len(s)) :
             (rs \o s)[i] = IF i <= Len(rs) THEN rs[i] ELSE s[i - Len(rs)]
    BY <1>1, ConcatProperties, LenProperties
  <2>2. \A i \in 1..Len(s) : Len(rs) + i \in 1..(Len(rs) + Len(s)) /\ ~(Len(rs) + i <= Len(rs))
                             /\ (Len(rs) + i) - Len(rs) = i
    BY <1>1, <2>1
  <2>3. \A i \in 1..Len(rs) : i \in 1..(Len(rs) + Len(s)) /\ i <= Len(rs)
    BY <1>1, <2>1
  <2> QED BY <1>4, <1>7, <2>1, <2>2, <2>3
<1>9. \A i \in 1..Len(rest) : rest[i] = sent[Got + n + i]
  <2> SUFFICES ASSUME NEW i \in 1..(Len(inFlight) - n) PROVE rest[i] = sent[Got + n + i]
    BY <1>3
  <2>1. n + i \in 1..Len(inFlight) /\ Got + (n + i) = Got + n + i
    BY <1>1
  <2> QED BY <1>3, <2>1 DEF ReadSoFar
<1>10. (\E i \in 1..(Got + n) : sent[i] = NUL)
         <=> (\E i \in 1..Got : sent[i] = NUL) \/ (\E i \in 1..n : piece[i] = NUL)
  <2>1. ASSUME NEW i \in 1..(Got + n), sent[i] = NUL, i \notin 1..Got
        PROVE  \E k \in 1..n : piece[k] = NUL
    <3>1. i - Got \in 1..n /\ Got + (i - Got) = i
      BY <1>1, <2>1
    <3>2. piece[i - Got] = NUL
      BY <1>6, <2>1, <3>1
    <3> QED BY <3>1, <3>2
  <2>2. \A i \in 1..n : Got + i \in 1..(Got + n)
    BY <1>1
  <2>3. \A i \in 1..Got : i \in 1..(Got + n)
    BY <1>1
  <2> QED BY <1>6, <2>1, <2>2, <2>3
<1>11. IF \E i \in 1..(Got + n) : sent[i] = NUL
       THEN Len(rs') < Got + n
       ELSE Len(rs') = Got + n /\ \A i \in 1..(Got + n) : rs'[i] = sent[i]
  <2>1. CASE \E i \in 1..(Got + n) : sent[i] = NUL
    <3>1. Len(rs) <= Got /\ Len(s) <= n
      BY <1>1, <1>2, <1>7 DEF ReadSoFar
    <3>2. Len(rs) < Got \/ Len(s) < n
      BY <1>7, <1>10, <2>1 DEF ReadSoFar
    <3> QED BY <1>1, <1>8, <2>1, <3>1, <3>2
  <2>2. CASE ~ \E i \in 1..(Got + n) : sent[i] = NUL
    <3>1. Len(rs) = Got /\ s = piece /\ Len(s) = n /\ \A i \in 1..Got : rs[i] = sent[i]
      BY <1>2, <1>7, <1>10, <2>2 DEF ReadSoFar
    <3>2. ASSUME NEW i \in 1..(Got + n) PROVE rs'[i] = sent[i]
      <4>1. CASE i \in 1..Got
        BY <1>8, <3>1, <4>1
      <4>2. CASE i \notin 1..Got
        <5>1. i - Got \in 1..n /\ Got + (i - Got) = i
          BY <1>1, <4>2
        <5>2. rs'[Got + (i - Got)] = s[i - Got]
          BY <1>8, <3>1, <5>1
        <5>3. piece[i - Got] = sent[Got + (i - Got)]
          BY <1>6, <5>1
        <5> QED BY <3>1, <5>1, <5>2, <5>3
      <4> QED BY <4>1, <4>2
    <3> QED BY <1>8, <2>2, <3>1, <3>2
  <2> QED BY <2>1, <2>2
<1>12. /\ rs' \in Seq(Byte) /\ inFlight' \in Seq(Byte) /\ sent' \in Seq(Byte)
       /\ Got' \in Nat
  BY <1>1, <1>3, <1>4, <1>5, <1>8
<1>13. \A i \in 1..Len(inFlight') : inFlight'[i] = sent'[Got' + i]
  BY <1>4, <1>5, <1>9
<1> QED BY <1>4, <1>5, <1>11, <1>12, <1>13 DEF ReadSoFar

LEMMA ServerSendsMore ==
  ASSUME ReadSoFar, NEW byte \in Byte, ServerSends(byte)
  PROVE  ReadSoFar'
<1>1. /\ rs \in Seq(Byte) /\ inFlight \in Seq(Byte) /\ sent \in Seq(Byte)
      /\ Len(inFlight) \in Nat /\ Len(sent) \in Nat
      /\ Got \in Nat /\ Got + Len(inFlight) = Len(sent)
  BY LenProperties DEF ReadSoFar, Got
<1>2. /\ inFlight' \in Seq(Byte) /\ Len(inFlight') = Len(inFlight) + 1
      /\ \A i \in 1..Len(inFlight) : inFlight'[i] = inFlight[i]
      /\ inFlight'[Len(inFlight) + 1] = byte
      /\ sent' \in Seq(Byte) /\ Len(sent') = Len(sent) + 1
      /\ \A i \in 1..Len(sent) : sent'[i] = sent[i]
      /\ sent'[Len(sent) + 1] = byte
      /\ rs' = rs
  BY <1>1, AppendProperties DEF ServerSends
<1>3. Got' = Got
  BY <1>1, <1>2 DEF Got
<1>4. \A i \in 1..Got : sent'[i] = sent[i]
  BY <1>1, <1>2
<1>5. \A i \in 1..(Len(inFlight) + 1) : inFlight'[i] = sent'[Got + i]
  <2> SUFFICES ASSUME NEW i \in 1..(Len(inFlight) + 1) PROVE inFlight'[i] = sent'[Got + i]
    OBVIOUS
  <2>1. CASE i \in 1..Len(inFlight)
    <3>1. Got + i \in 1..Len(sent)
      BY <1>1, <2>1
    <3> QED BY <1>2, <2>1, <3>1 DEF ReadSoFar
  <2>2. CASE i = Len(inFlight) + 1
    <3>1. Got + i = Len(sent) + 1
      BY <1>1, <2>2
    <3> QED BY <1>2, <2>2, <3>1
  <2> QED BY <1>1, <2>1, <2>2
<1> QED BY <1>1, <1>2, <1>3, <1>4, <1>5 DEF ReadSoFar

LEMMA ConnectionStep == ConnectionInv /\ [ConnectionNext]_connectionVars => ConnectionInv'
<1> SUFFICES ASSUME ConnectionInv, [ConnectionNext]_connectionVars PROVE ConnectionInv'
  OBVIOUS
<1> USE DEF ConnectionInv, SocketsAccountedFor, CallEnded
<1>1. ASSUME UNCHANGED <<rs, inFlight, sent>> PROVE ReadSoFar'
  BY <1>1 DEF ReadSoFar, Got
<1>2. CASE GetRequest
  BY <1>1, <1>2 DEF GetRequest
<1>3. CASE LookupOrConnectFails
  BY <1>1, <1>3 DEF LookupOrConnectFails
<1>4. CASE Connect
  <2>1. rs' = <<>> /\ inFlight' = <<>> /\ sent' = <<>>
    BY <1>4 DEF Connect
  <2>2. <<>> \in Seq(Byte) /\ Len(<<>>) = 0
    BY EmptySeq
  <2>3. Got' = 0 /\ 1..0 = {}
    BY <2>1, <2>2 DEF Got
  <2>4. ReadSoFar'
    BY <2>1, <2>2, <2>3 DEF ReadSoFar
  <2> QED BY <1>4, <2>4 DEF Connect
<1>5. ASSUME NEW n \in 1..BufferSize, Receive(n) PROVE ConnectionInv'
  <2>1. ReadSoFar'
    BY <1>5, ReceiveReads
  <2> QED BY <1>5, <2>1 DEF Receive
<1>6. CASE EndOfReply
  BY <1>1, <1>6 DEF EndOfReply, CloseSocket
<1>7. CASE ReceiveFails
  BY <1>1, <1>7 DEF ReceiveFails, CloseSocket
<1>8. ASSUME NEW byte \in Byte, ServerSends(byte) PROVE ConnectionInv'
  <2>1. ReadSoFar'
    BY <1>8, ServerSendsMore
  <2> QED BY <1>8, <2>1 DEF ServerSends
<1>9. CASE ServerEnds
  BY <1>1, <1>9 DEF ServerEnds
<1>10. CASE UNCHANGED connectionVars
  BY <1>1, <1>10 DEF connectionVars
<1> QED
  BY <1>2, <1>3, <1>4, <1>5, <1>6, <1>7, <1>8, <1>9, <1>10 DEF ConnectionNext, ClientStep

LEMMA WholeAtEnd == ConnectionInv => ReplyWhole
<1> SUFFICES ASSUME ConnectionInv, phase = "replied"
             PROVE  /\ peer = "closed"
                    /\ NUL \notin ToSet(sent) => rs = sent
                    /\ NUL \in ToSet(sent) => Len(rs) < Len(sent)
  BY DEF ReplyWhole
<1>1. /\ rs \in Seq(Byte) /\ sent \in Seq(Byte) /\ Len(sent) \in Nat
      /\ DOMAIN sent = 1..Len(sent)
  BY LenProperties DEF ConnectionInv, ReadSoFar
<1>2. Got = Len(sent) /\ peer = "closed"
  BY <1>1, EmptySeq DEF ConnectionInv, Got
<1>3. NUL \in ToSet(sent) <=> \E i \in 1..Len(sent) : sent[i] = NUL
  BY <1>1 DEF ToSet
<1>4. NUL \notin ToSet(sent) => rs = sent
  <2> SUFFICES ASSUME NUL \notin ToSet(sent) PROVE rs = sent
    OBVIOUS
  <2>1. Len(rs) = Len(sent) /\ \A i \in 1..Len(rs) : rs[i] = sent[i]
    BY <1>2, <1>3 DEF ConnectionInv, ReadSoFar
  <2> QED BY <1>1, <2>1, SeqEqual
<1>5. NUL \in ToSet(sent) => Len(rs) < Len(sent)
  BY <1>2, <1>3 DEF ConnectionInv, ReadSoFar
<1> QED BY <1>2, <1>4, <1>5

(* However a call ends, its socket is closed, but the one of a failed      *)
(* lookup or connect, and a reply that is returned is all that the server  *)
(* sent, wherever recv has cut it, if there is no NUL in it:               *)
(* HTTPClient.cpp:234-299.                                                 *)
THEOREM RepliesAlwaysWhole == ConnectionSpec => []SocketsAccountedFor /\ []ReplyWhole
<1>1. ConnectionInv => SocketsAccountedFor
  BY DEF ConnectionInv
<1> QED BY <1>1, WholeAtEnd, ConnectionStarts, ConnectionStep, PTL DEF ConnectionSpec
=============================================================================
