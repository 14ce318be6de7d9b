----------------------------- MODULE HTTPServer -----------------------------
(***************************************************************************)
(* connectivity_plugin/java/HTTPServer, HTTPServer.java: a transport that  *)
(* serves HTTP requests and sends the body of each PUT towards the host.   *)
(*                                                                         *)
(* The class com.sun.net.httpserver.HttpServer accepts requests between    *)
(* start and stop, which does not wait for one that is being handled.  As  *)
(* it is given no executor, all are handled by the thread that start makes, *)
(* one after the other: the lock around the send is never contended, and   *)
(* left out.  A shutdown comes between any two steps.                      *)
(***************************************************************************)
EXTENDS Naturals, FiniteSets

CONSTANTS
  HttpExchange          \* the requests: a bound

ASSUME HTTPServerAssumption == IsFiniteSet(HttpExchange)

\* A PUT without a body is one for which the scanner finds no token.
Methods == {"GET", "PUT", "PUT without body", "POST"}

VARIABLES
  srv,                  \* "none", "started" or "stopped"
  method,               \* of each request that has been accepted
  handling,             \* where the handler of each request is
  badRequests, messagesTowardsHost,
  delivered,            \* history: the requests whose body the host was sent
  answered              \* history: the requests whose response was written

serverVars == <<srv, method, handling, badRequests, messagesTowardsHost, delivered, answered>>

ServerInit ==
  /\ srv = "none"
  /\ method = [r \in HttpExchange |-> "none"]
  /\ handling = [r \in HttpExchange |-> "none"]
  /\ badRequests = 0
  /\ messagesTowardsHost = 0
  /\ delivered = {}
  /\ answered = {}

At(r, there) == handling' = [handling EXCEPT ![r] = there]

HostReady ==
  /\ srv = "none"
  /\ srv' = "started"
  /\ UNCHANGED <<method, handling, badRequests, messagesTowardsHost, delivered, answered>>

StopServer ==
  /\ srv = "started"
  /\ srv' = "stopped"
  /\ UNCHANGED <<method, handling, badRequests, messagesTowardsHost, delivered, answered>>

-----------------------------------------------------------------------------
(* The handler of a request.                                               *)

Idle == \A r \in HttpExchange : handling[r] \in {"none", "closed"}

Accept(r, m) ==
  /\ srv = "started"
  /\ Idle
  /\ handling[r] = "none"
  /\ method' = [method EXCEPT ![r] = m]

HandleGet(r) ==
  /\ Accept(r, "GET")
  /\ At(r, "respond")
  /\ UNCHANGED <<srv, badRequests, messagesTowardsHost, delivered, answered>>

\* Neither GET nor PUT: the answer is 405.
HandleOther(r) ==
  /\ Accept(r, "POST")
  /\ badRequests' = badRequests + 1
  /\ At(r, "respond")
  /\ UNCHANGED <<srv, messagesTowardsHost, delivered, answered>>

HandlePut(r) ==
  /\ Accept(r, "PUT")
  /\ At(r, "send")
  /\ UNCHANGED <<srv, badRequests, messagesTowardsHost, delivered, answered>>

\* next throws an exception that is no IOException: it goes uncounted.
HandlePutWithoutBody(r) ==
  /\ Accept(r, "PUT without body")
  /\ At(r, "close")
  /\ UNCHANGED <<srv, badRequests, messagesTowardsHost, delivered, answered>>

\* Mutant: nothing is sent or counted once the server has been stopped.
SendUntilStopped(r) ==
  /\ handling[r] = "send"
  /\ delivered' = IF srv = "stopped" THEN delivered ELSE delivered \cup {r}
  /\ At(r, IF srv = "stopped" THEN "respond" ELSE "count")
  /\ UNCHANGED <<srv, method, badRequests, messagesTowardsHost, answered>>

SendTowardsHost(r) ==
  /\ handling[r] = "send"
  /\ delivered' = delivered \cup {r}
  /\ At(r, "count")
  /\ UNCHANGED <<srv, method, badRequests, messagesTowardsHost, answered>>

CountMessage(r) ==
  /\ handling[r] = "count"
  /\ messagesTowardsHost' = messagesTowardsHost + 1
  /\ At(r, "respond")
  /\ UNCHANGED <<srv, method, badRequests, delivered, answered>>

Respond(r) ==
  /\ handling[r] = "respond"
  /\ answered' = answered \cup {r}
  /\ At(r, "close")
  /\ UNCHANGED <<srv, method, badRequests, messagesTowardsHost, delivered>>

\* The client has gone, or the server has been stopped: an IOException.
RespondFails(r) ==
  /\ handling[r] = "respond"
  /\ badRequests' = badRequests + 1
  /\ At(r, "close")
  /\ UNCHANGED <<srv, method, messagesTowardsHost, delivered, answered>>

CloseExchange(r) ==
  /\ handling[r] = "close"
  /\ At(r, "closed")
  /\ UNCHANGED <<srv, method, badRequests, messagesTowardsHost, delivered, answered>>

ServerNext ==
  \/ HostReady
  \/ StopServer
  \/ \E r \in HttpExchange :
       \/ HandleGet(r) \/ HandleOther(r) \/ HandlePut(r) \/ HandlePutWithoutBody(r)
       \/ SendTowardsHost(r) \/ CountMessage(r)
       \/ Respond(r) \/ RespondFails(r) \/ CloseExchange(r)

ServerSpec == ServerInit /\ [][ServerNext]_serverVars

-----------------------------------------------------------------------------
(* Properties.                                                             *)

\* A PUT that is answered has been delivered, also when the server is stopped
\* in between.
DeliveredBeforeAnswered == \A r \in answered : method[r] = "PUT" => r \in delivered

\* What the counters show when no request is being handled: every message
\* once, every refusal, and every answer that could not be written.  So a
\* refusal that could not be written counts twice, a PUT that could not be
\* answered counts as a message and as a bad request, and one without a body
\* as neither, although it is never answered.
RequestsCounted ==
  Idle =>
    LET closed == {r \in HttpExchange : handling[r] = "closed"}
        of(m) == {r \in closed : method[r] = m}
    IN /\ messagesTowardsHost = Cardinality(delivered)
       /\ delivered = of("PUT")
       /\ badRequests = Cardinality(of("POST"))
            + Cardinality((closed \ answered) \ of("PUT without body"))

\* What clients are told, what the host gets and what the counters show agree,
\* whatever requests come, whichever answers fail, and whenever shutdown comes.
AnsweredAndCounted == DeliveredBeforeAnswered /\ RequestsCounted
=============================================================================
