-------------------------- MODULE RequestListeners --------------------------
(***************************************************************************)
(* cpp/httpclient/DemoApp.mon and application/httpserver/HTTPClient.mon:   *)
(* for each request two listeners, one for its response and one for its    *)
(* error, each of which ends when it hears its event or when the "and not" *)
(* rules it out.                                                           *)
(*                                                                         *)
(* The chain that answers the requests is an HTTP client transport, of     *)
(* which nothing is assumed here but that it answers a request at most     *)
(* once.                                                                   *)
(***************************************************************************)
EXTENDS Naturals, Sequences

CONSTANT MaxRequests    \* bounds the ids

ASSUME RequestsAssumption == MaxRequests \in Nat

Apps == {"DemoApp", "HTTPClient"}
Ids == 1..MaxRequests
Answers == {"HTTPResponse", "HTTPError"}

VARIABLES
  app,                  \* which of the two it is
  nextId,
  awaiting,             \* the listeners: pairs of an answer and a request's id
  requested,            \* the requests that the transport has
  answers,              \* the answers in the queue of the monitor's context
  heardAnswers          \* history: the answers that the monitor has reported

requestVars == <<app, nextId, awaiting, requested, answers, heardAnswers>>

RequestsInit ==
  /\ app \in Apps
  /\ nextId = 1
  /\ awaiting = {}
  /\ requested = {}
  /\ answers = <<>>
  /\ heardAnswers = {}

\* doRequest, and the listener for SendRequest.
DoRequest ==
  /\ nextId \in Ids
  /\ nextId' = nextId + 1
  /\ awaiting' = awaiting \cup (Answers \X {nextId})
  /\ requested' = requested \cup {nextId}
  /\ UNCHANGED <<app, answers, heardAnswers>>

AnswerRequest(id, answer) ==
  /\ id \in requested
  /\ requested' = requested \ {id}
  /\ answers' = Append(answers, <<answer, id>>)
  /\ UNCHANGED <<app, nextId, awaiting, heardAnswers>>

\* Mutant: neither listener has an "and not".
EndedByItself(answer) == {answer}

\* The listeners that an answer ends.  The listener for an error ends with a
\* response in DemoApp.mon; in HTTPClient.mon it ends with an HTTPRequest,
\* which comes to this context never.
EndedBy(answer) ==
  IF answer = "HTTPResponse" /\ app = "HTTPClient" THEN {"HTTPResponse"} ELSE Answers

OnAnswer ==
  /\ answers # <<>>
  /\ answers' = Tail(answers)
  /\ LET answer == Head(answers)[1]
         id == Head(answers)[2]
     IN /\ heardAnswers' = heardAnswers \cup ({<<answer, id>>} \cap awaiting)
        /\ awaiting' = awaiting \ (EndedBy(answer) \X {id})
  /\ UNCHANGED <<app, nextId, requested>>

RequestsNext ==
  \/ DoRequest
  \/ \E id \in Ids, answer \in Answers : AnswerRequest(id, answer)
  \/ OnAnswer

RequestsSpec == RequestsInit /\ [][RequestsNext]_requestVars

-----------------------------------------------------------------------------
(* Properties.                                                             *)

Unanswered == {id \in 1..(nextId - 1) : \A a \in Answers : <<a, id>> \notin heardAnswers}

\* A request has both its listeners until its answer is heard, in whatever
\* order answers come, and none after it; but HTTPClient.mon keeps a listener
\* for an error of every request that has had its response.
ListenersMatchRequests ==
  awaiting = (Answers \X Unanswered)
    \cup {<<"HTTPError", id>> : id \in {i \in Ids :
            app = "HTTPClient" /\ <<"HTTPResponse", i>> \in heardAnswers}}
=============================================================================
