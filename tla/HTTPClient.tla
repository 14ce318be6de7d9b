----------------------------- MODULE HTTPClient -----------------------------
(***************************************************************************)
(* connectivity_plugin/cpp/httpclient/HTTPClient.cpp: a transport that     *)
(* queues the requests its host delivers and serves them one by one on a   *)
(* thread of its own.                                                      *)
(*                                                                         *)
(* Callers are the host's threads that deliver messages; Host is the one   *)
(* that starts the transport and shuts it down.  A critical section of     *)
(* queueLock that calls nothing is one step, taken while the lock is free; *)
(* the ones that call into the host are two, with the lock held between    *)
(* them.  The answer of the HTTP server is any member of Responses, split  *)
(* at its line ends: status lines are named by their code, and only lines  *)
(* longer than one character are modelled, and the empty one.              *)
(***************************************************************************)
EXTENDS Naturals, Sequences, SequencesExt, FiniteSetsExt

CONSTANTS
  Message,              \* the messages delivered towards the transport
  Caller, Worker, Host, \* the threads
  Responses,            \* what a server may reply: sequences of Lines
  None                  \* no thread, no message

Thread == Caller \cup {Worker, Host}

ASSUME ThreadAssumption ==
  /\ Worker \notin Caller \cup {Host}
  /\ Host \notin Caller
  /\ None \notin Thread \cup Message

Statuses == {"200", "404"}
Lines == Statuses \cup {"Name: value", "Name:", "text", ""}

ASSUME ResponsesAssumption == Responses \subseteq Seq(Lines) \ {<<>>}

VARIABLES
  pc,                   \* where each thread is
  queueLock,            \* the thread that holds it, or None
  queueSemaphore,       \* its count
  running,
  requestQueue,
  request,              \* r in run: the request being served
  response,             \* the server's reply to it
  line,                 \* the line of the reply at offs
  responseCode,
  answer,               \* the message a thread is about to send to the host
  errorsTowardsHost, responsesTowardsHost,
  accepted,             \* history: the requests ever queued, in order
  toHost                \* history: the messages the host was sent

serving == <<request, response, line, responseCode>>
counters == <<errorsTowardsHost, responsesTowardsHost>>
vars == <<pc, queueLock, queueSemaphore, running, requestQueue, serving,
          answer, counters, accepted, toHost>>

Refusals == {"400", "405"}
Codes == Statuses \cup Refusals \cup {"", "500"}
Answer == [id : Message, code : Codes]
NoAnswer == [id |-> None, code |-> ""]

Init ==
  /\ pc = [t \in Thread |-> IF t = Worker THEN "none"
                            ELSE IF t = Host THEN "constructed" ELSE "idle"]
  /\ queueLock = None
  /\ queueSemaphore = 0
  /\ running = FALSE
  /\ requestQueue = <<>>
  /\ request = None
  /\ response = <<>>
  /\ line = 0
  /\ responseCode = ""
  /\ answer = [t \in Thread |-> NoAnswer]
  /\ errorsTowardsHost = 0
  /\ responsesTowardsHost = 0
  /\ accepted = <<>>
  /\ toHost = <<>>

Goto(t, place) == pc' = [pc EXCEPT ![t] = place]

-----------------------------------------------------------------------------
(* Sending towards the host, by a caller or by the worker.                 *)

ToSend(t, id, code) ==
  /\ answer' = [answer EXCEPT ![t] = [id |-> id, code |-> code]]
  /\ Goto(t, "send")

SendError(t, id, code) ==
  /\ errorsTowardsHost' = errorsTowardsHost + 1
  /\ ToSend(t, id, code)
  /\ UNCHANGED responsesTowardsHost

SendResponse(t, id) ==
  /\ ToSend(t, id, "200")
  /\ UNCHANGED counters

\* Mutant: the send does not take queueLock.
BeginSendUnlocked(t) ==
  /\ pc[t] = "send"
  /\ queueLock' = t
  /\ Goto(t, "sending")
  /\ UNCHANGED <<queueSemaphore, running, requestQueue, serving, answer,
                 counters, accepted, toHost>>

BeginSend(t) ==
  /\ pc[t] = "send"
  /\ queueLock = None
  /\ queueLock' = t
  /\ Goto(t, "sending")
  /\ UNCHANGED <<queueSemaphore, running, requestQueue, serving, answer,
                 counters, accepted, toHost>>

\* Mutant: the worker holds on to queueLock after a send.
EndSendLocked(t) ==
  /\ pc[t] = "sending"
  /\ toHost' = Append(toHost, answer[t])
  /\ answer' = [answer EXCEPT ![t] = NoAnswer]
  /\ Goto(t, IF t # Worker THEN "idle"
             ELSE IF answer[t].code = "200" THEN "count" ELSE "loop")
  /\ UNCHANGED <<queueLock, queueSemaphore, running, requestQueue, serving,
                 counters, accepted>>

EndSend(t) ==
  /\ pc[t] = "sending"
  /\ toHost' = Append(toHost, answer[t])
  /\ queueLock' = None
  /\ answer' = [answer EXCEPT ![t] = NoAnswer]
  /\ Goto(t, IF t # Worker THEN "idle"
             ELSE IF answer[t].code = "200" THEN "count" ELSE "loop")
  /\ UNCHANGED <<queueSemaphore, running, requestQueue, serving, counters,
                 accepted>>

CountResponse ==
  /\ pc[Worker] = "count"
  /\ responsesTowardsHost' = responsesTowardsHost + 1
  /\ Goto(Worker, "loop")
  /\ UNCHANGED <<queueLock, queueSemaphore, running, requestQueue, serving,
                 answer, errorsTowardsHost, accepted, toHost>>

-----------------------------------------------------------------------------
(* The host's threads.                                                     *)

Delivered ==
  ToSet(accepted) \cup {toHost[i].id : i \in DOMAIN toHost}
    \cup {answer[t].id : t \in Thread}

Start ==
  /\ pc[Host] = "constructed"
  /\ queueLock = None
  /\ running' = TRUE
  /\ pc' = [pc EXCEPT ![Host] = "started", ![Worker] = "loop"]
  /\ UNCHANGED <<queueLock, queueSemaphore, requestQueue, serving, answer,
                 counters, accepted, toHost>>

Shutdown ==
  /\ pc[Host] \in {"constructed", "started"}
  /\ queueLock = None
  /\ running' = FALSE
  /\ Goto(Host, IF running THEN "post" ELSE "stopped")
  /\ UNCHANGED <<queueLock, queueSemaphore, requestQueue, serving, answer,
                 counters, accepted, toHost>>

Join ==
  /\ pc[Host] = "join"
  /\ pc[Worker] = "ended"
  /\ Goto(Host, "stopped")
  /\ UNCHANGED <<queueLock, queueSemaphore, running, requestQueue, serving,
                 answer, counters, accepted, toHost>>

\* A message that is not a GET request is answered by the thread that
\* delivers it.
DeliverInvalid(c, m, code) ==
  /\ pc[c] = "idle"
  /\ m \notin Delivered
  /\ SendError(c, m, code)
  /\ UNCHANGED <<queueLock, queueSemaphore, running, requestQueue, serving,
                 accepted, toHost>>

DeliverRequest(c, m) ==
  /\ pc[c] = "idle"
  /\ m \notin Delivered
  /\ queueLock = None
  /\ requestQueue' = Append(requestQueue, m)
  /\ accepted' = Append(accepted, m)
  /\ Goto(c, "post")
  /\ UNCHANGED <<queueLock, queueSemaphore, running, serving, answer,
                 counters, toHost>>

\* Mutant: only a request that is alone in the queue is signalled.
PostForFirst(t) ==
  /\ pc[t] = "post"
  /\ queueSemaphore' = queueSemaphore
                         + (IF t = Host \/ Len(requestQueue) = 1 THEN 1 ELSE 0)
  /\ Goto(t, IF t = Host THEN "join" ELSE "idle")
  /\ UNCHANGED <<queueLock, running, requestQueue, serving, answer, counters,
                 accepted, toHost>>

\* sem_post, after a request is queued or running is reset.
Post(t) ==
  /\ pc[t] = "post"
  /\ queueSemaphore' = queueSemaphore + 1
  /\ Goto(t, IF t = Host THEN "join" ELSE "idle")
  /\ UNCHANGED <<queueLock, running, requestQueue, serving, answer, counters,
                 accepted, toHost>>

-----------------------------------------------------------------------------
(* The worker, one pass of run's loop after another.                       *)

Return ==
  /\ pc[Worker] = "loop"
  /\ queueLock = None
  /\ ~running
  /\ Goto(Worker, "ended")
  /\ UNCHANGED <<queueLock, queueSemaphore, running, requestQueue, serving,
                 answer, counters, accepted, toHost>>

\* Mutant: the worker waits before it looks at the queue and at running.
FindEmptyAlways ==
  /\ pc[Worker] = "loop"
  /\ queueLock = None
  /\ requestQueue = <<>>
  /\ Goto(Worker, "wait")
  /\ UNCHANGED <<queueLock, queueSemaphore, running, requestQueue, serving,
                 answer, counters, accepted, toHost>>

FindEmpty ==
  /\ pc[Worker] = "loop"
  /\ queueLock = None
  /\ running
  /\ requestQueue = <<>>
  /\ Goto(Worker, "wait")
  /\ UNCHANGED <<queueLock, queueSemaphore, running, requestQueue, serving,
                 answer, counters, accepted, toHost>>

Wait ==
  /\ pc[Worker] = "wait"
  /\ queueSemaphore > 0
  /\ queueSemaphore' = queueSemaphore - 1
  /\ Goto(Worker, "loop")
  /\ UNCHANGED <<queueLock, running, requestQueue, serving, answer, counters,
                 accepted, toHost>>

\* Mutant: the newest request is served first.
DequeueLast ==
  /\ pc[Worker] = "loop"
  /\ queueLock = None
  /\ running
  /\ requestQueue # <<>>
  /\ request' = Last(requestQueue)
  /\ requestQueue' = Front(requestQueue)
  /\ Goto(Worker, "getRequest")
  /\ UNCHANGED <<queueLock, queueSemaphore, running, response, line,
                 responseCode, answer, counters, accepted, toHost>>

Dequeue ==
  /\ pc[Worker] = "loop"
  /\ queueLock = None
  /\ running
  /\ requestQueue # <<>>
  /\ request' = Head(requestQueue)
  /\ requestQueue' = Tail(requestQueue)
  /\ Goto(Worker, "getRequest")
  /\ UNCHANGED <<queueLock, queueSemaphore, running, response, line,
                 responseCode, answer, counters, accepted, toHost>>

\* getRequest returns the server's reply.
GetReply ==
  /\ pc[Worker] = "getRequest"
  /\ response' \in Responses
  /\ line' = 1
  /\ responseCode' = ""
  /\ Goto(Worker, "parse")
  /\ UNCHANGED <<queueLock, queueSemaphore, running, requestQueue, request,
                 answer, counters, accepted, toHost>>

\* Mutant: the exception handler counts the error and does not send it.
ThrowSilently ==
  /\ errorsTowardsHost' = errorsTowardsHost + 1
  /\ Goto(Worker, "loop")
  /\ UNCHANGED <<queueLock, queueSemaphore, running, requestQueue, serving,
                 answer, responsesTowardsHost, accepted, toHost>>

\* getRequest, or the parsing of the reply, throws.
Throw ==
  /\ SendError(Worker, request, "500")
  /\ UNCHANGED <<queueLock, queueSemaphore, running, requestQueue, serving,
                 accepted, toHost>>

GetFails == pc[Worker] = "getRequest" /\ Throw

LastLine == line = Len(response)

\* substr throws for a header without a value, and for a body past the end of
\* an empty reply.
ParseFails ==
  /\ pc[Worker] = "parse"
  /\ \/ response[line] = "Name:"
     \/ response = <<"">>
  /\ Throw

\* A line before the blank one.  After the last line, find gives npos, and
\* offs = npos + 2 is 1: the loop reads on at the reply's second character.
ParseLine ==
  /\ pc[Worker] = "parse"
  /\ response[line] \notin {"", "Name:"}
  /\ line' = IF LastLine THEN 1 ELSE line + 1
  /\ responseCode' = IF response[line] \in Statuses THEN response[line]
                                                    ELSE responseCode
  /\ UNCHANGED <<pc, queueLock, queueSemaphore, running, requestQueue, request,
                 response, answer, counters, accepted, toHost>>

\* The blank line: the response is complete.
Reply ==
  /\ pc[Worker] = "parse"
  /\ response[line] = ""
  /\ response # <<"">>
  /\ IF responseCode = "200" THEN SendResponse(Worker, request)
                             ELSE SendError(Worker, request, responseCode)
  /\ UNCHANGED <<queueLock, queueSemaphore, running, requestQueue, serving,
                 accepted, toHost>>

-----------------------------------------------------------------------------

\* All messages have been delivered and the transport is shut down.
Terminated ==
  /\ pc[Host] = "stopped"
  /\ \A c \in Caller : pc[c] = "idle"
  /\ Message \subseteq Delivered
  /\ UNCHANGED vars

WorkerNext ==
  \/ Return \/ FindEmpty \/ Wait \/ Dequeue
  \/ GetReply \/ GetFails
  \/ ParseFails \/ ParseLine \/ Reply
  \/ BeginSend(Worker) \/ EndSend(Worker) \/ CountResponse

CallerFinish(c) == BeginSend(c) \/ EndSend(c) \/ Post(c)

CallerDeliver(c) ==
  \E m \in Message :
    \/ DeliverRequest(c, m)
    \/ \E code \in Refusals : DeliverInvalid(c, m, code)

Next ==
  \/ Start \/ Shutdown \/ Post(Host) \/ Join
  \/ \E c \in Caller : CallerDeliver(c) \/ CallerFinish(c)
  \/ WorkerNext
  \/ Terminated

Spec == Init /\ [][Next]_vars

\* A thread that can run does run, and a server replies or fails.  Nothing
\* makes the host deliver, start or shut down.
Fairness ==
  /\ WF_vars(WorkerNext)
  /\ WF_vars(Post(Host) \/ Join)
  /\ \A c \in Caller : WF_vars(CallerFinish(c))

FairSpec == Spec /\ Fairness

-----------------------------------------------------------------------------
(* Properties.                                                             *)

\* Every variable keeps its type.
TypeOK ==
  /\ pc \in [Thread -> {"idle", "send", "sending", "post", "constructed",
                         "started", "join", "stopped", "none", "loop", "wait",
                         "getRequest", "parse", "count", "ended"}]
  /\ queueLock \in Thread \cup {None}
  /\ queueSemaphore \in Nat
  /\ running \in BOOLEAN
  /\ requestQueue \in Seq(Message)
  /\ request \in Message \cup {None}
  /\ response \in Responses \cup {<<>>}
  /\ line \in Nat
  /\ responseCode \in Codes
  /\ answer \in [Thread -> Answer \cup {NoAnswer}]
  /\ errorsTowardsHost \in Nat
  /\ responsesTowardsHost \in Nat
  /\ accepted \in Seq(Message)
  /\ toHost \in Seq(Answer)

\* The worker never sleeps through a request or a shutdown: while it waits
\* with something to do, the semaphore is up or about to be, although it is
\* posted after the unlock.
NoLostWakeup ==
  pc[Worker] = "wait" /\ (requestQueue # <<>> \/ ~running)
    => queueSemaphore > 0 \/ \E t \in Caller \cup {Host} : pc[t] = "post"

\* Only one thread at a time calls into hostSide->sendBatchTowardsHost, and
\* nobody changes the queue meanwhile.
OneThreadSends ==
  /\ \A t, u \in Thread : pc[t] = "sending" /\ pc[u] = "sending" => t = u
  /\ \A t \in Thread : pc[t] = "sending" => queueLock = t

AnsweredRequests == {toHost[i].id : i \in DOMAIN toHost}

\* Between two requests, the accepted requests without an answer are the
\* queued ones, in order: no failure of a request, and no shutdown in the
\* middle of it, makes the worker drop it.
NoRequestDropped ==
  pc[Worker] \in {"none", "loop", "wait", "count", "ended"}
    => \E n \in 0..Len(accepted) :
         /\ requestQueue = SubSeq(accepted, n + 1, Len(accepted))
         /\ \A i \in 1..Len(accepted) : accepted[i] \in AnsweredRequests <=> i <= n

Sent(codes) == Quantify(DOMAIN toHost, LAMBDA i : toHost[i].code \in codes)

\* The counters never show more responses, or fewer errors, than the host
\* got, and agree with it whenever no thread is sending.
KPIsCatchUp ==
  /\ responsesTowardsHost <= Sent({"200"})
  /\ errorsTowardsHost >= Sent(Codes \ {"200"})
  /\ (\A t \in Thread : pc[t] \notin {"send", "sending", "count"}) =>
       /\ responsesTowardsHost = Sent({"200"})
       /\ errorsTowardsHost = Sent(Codes \ {"200"})

\* Whatever fails or stops, and whenever: an accepted request is queued, being
\* served or answered, and what was answered is counted, as the response or
\* the error that it was.
RequestsAccountedFor == TypeOK /\ NoRequestDropped /\ KPIsCatchUp

\* Requests are answered once, in the order they were queued, and invalid
\* messages once, whatever threads deliver them.
Exchanges == INSTANCE HTTPExchanges
ImplementsExchanges == Exchanges!Spec

\* After shutdown has returned the host hears of no accepted request again;
\* a message refused then is still answered.
SilentOnceStopped ==
  [][pc[Host] = "stopped" /\ toHost' # toHost
       => Last(toHost').code \in Refusals]_vars

\* A request queued while the transport runs is answered, unless the
\* transport is shut down.
RequestsAnswered ==
  \A m \in Message :
    running /\ m \in ToSet(accepted) ~> ~running \/ m \in AnsweredRequests

\* shutdown returns: the worker is never left waiting or blocked.
ShutdownReturns == pc[Host] = "post" ~> pc[Host] = "stopped"

\* Shutdown comes to an end, and when it has, so has everything else, at
\* whatever moment it was called.
ShutdownFinal == SilentOnceStopped /\ ShutdownReturns

\* "handle any error in sending or parsing the request": the parsing of a
\* reply comes to an end, with an answer or an error.
ReplyParsed == pc[Worker] = "parse" ~> pc[Worker] # "parse"
=============================================================================
