--------------------------- MODULE HTTPConnection ---------------------------
(***************************************************************************)
(* connectivity_plugin/cpp/httpclient/HTTPClient.cpp, getRequest: what the *)
(* steps GetReply and GetFails of HTTPClient stand for.  One call after    *)
(* another opens a socket, connects to a server and reads its reply, which *)
(* arrives in pieces.                                                      *)
(*                                                                         *)
(* The server sends bytes until it closes the connection or the connection *)
(* is lost, or stops without either.  recv returns some of the bytes that  *)
(* are in flight; after a loss it may return the ones before it, or fail.  *)
(***************************************************************************)
EXTENDS Naturals, Sequences, SequencesExt

CONSTANTS
  Byte,                 \* the bytes of replies
  NUL,                  \* one of them
  BufferSize,           \* 1000 in the code
  MaxReply,             \* bounds the bytes of a reply
  MaxCalls              \* bounds the calls of getRequest

ASSUME HTTPConnectionAssumption == NUL \in Byte /\ BufferSize \in Nat \ {0}

VARIABLES
  phase,                \* where getRequest is, or how it has ended
  sockets,              \* how many sockets are open
  peer,                 \* the server: "open", "closed" or "lost"
  inFlight,             \* the bytes on their way
  rs,                   \* what has been read
  calls,                \* the calls so far
  sent,                 \* history: the bytes that the server has sent
  failed                \* history: the lookups and connects that failed

connectionVars == <<phase, sockets, peer, inFlight, rs, calls, sent, failed>>

ConnectionInit ==
  /\ phase = "idle"
  /\ sockets = 0
  /\ peer = "closed"
  /\ inFlight = <<>>
  /\ rs = <<>>
  /\ calls = 0
  /\ sent = <<>>
  /\ failed = 0

CallEnded == phase \in {"idle", "replied", "thrown"}

\* A malformed URI throws before the socket is made.
GetRequest ==
  /\ CallEnded
  /\ calls < MaxCalls
  /\ calls' = calls + 1
  /\ \/ phase' = "thrown" /\ UNCHANGED sockets
     \/ phase' = "lookup" /\ sockets' = sockets + 1
  /\ UNCHANGED <<peer, inFlight, rs, sent, failed>>

\* The lookup of the host, or connect, fails: the socket is left open.
LookupOrConnectFails ==
  /\ phase = "lookup"
  /\ phase' = "thrown"
  /\ failed' = failed + 1
  /\ UNCHANGED <<sockets, peer, inFlight, rs, calls, sent>>

Connect ==
  /\ phase = "lookup"
  /\ phase' = "receiving"
  /\ peer' = "open"
  /\ inFlight' = <<>>
  /\ rs' = <<>>
  /\ sent' = <<>>
  /\ UNCHANGED <<sockets, calls, failed>>

-----------------------------------------------------------------------------
(* The server and the network.                                             *)

ServerSends(byte) ==
  /\ phase = "receiving"
  /\ peer = "open"
  /\ Len(sent) < MaxReply
  /\ inFlight' = Append(inFlight, byte)
  /\ sent' = Append(sent, byte)
  /\ UNCHANGED <<phase, sockets, peer, rs, calls, failed>>

ServerEnds ==
  /\ phase = "receiving"
  /\ peer = "open"
  /\ peer' \in {"closed", "lost"}
  /\ UNCHANGED <<phase, sockets, inFlight, rs, calls, sent, failed>>

-----------------------------------------------------------------------------
(* The loop over recv.                                                     *)

\* "rs << buffer" writes what is before the first NUL.
AsString(bytes) ==
  IF NUL \in ToSet(bytes) THEN SubSeq(bytes, 1, SelectInSeq(bytes, LAMBDA x : x = NUL) - 1)
                          ELSE bytes

Receive(n) ==
  /\ phase = "receiving"
  /\ n <= Len(inFlight)
  /\ rs' = rs \o AsString(SubSeq(inFlight, 1, n))
  /\ inFlight' = SubSeq(inFlight, n + 1, Len(inFlight))
  /\ UNCHANGED <<phase, sockets, peer, calls, sent, failed>>

CloseSocket(end) ==
  /\ phase' = end
  /\ sockets' = sockets - 1
  /\ UNCHANGED <<peer, inFlight, rs, calls, sent, failed>>

\* recv returns 0: the server has closed the connection.
EndOfReply ==
  /\ phase = "receiving"
  /\ peer = "closed"
  /\ inFlight = <<>>
  /\ CloseSocket("replied")

\* Mutant: the loop goes on after an error of recv.
ReceiveFailsAgain ==
  /\ phase = "receiving"
  /\ peer = "lost"
  /\ UNCHANGED connectionVars

\* recv returns less than 0.
ReceiveFails ==
  /\ phase = "receiving"
  /\ peer = "lost"
  /\ CloseSocket("thrown")

ClientStep ==
  \/ GetRequest
  \/ LookupOrConnectFails \/ Connect
  \/ \E n \in 1..BufferSize : Receive(n)
  \/ EndOfReply \/ ReceiveFails

ConnectionNext ==
  \/ ClientStep
  \/ \E byte \in Byte : ServerSends(byte)
  \/ ServerEnds

ConnectionSpec == ConnectionInit /\ [][ConnectionNext]_connectionVars

-----------------------------------------------------------------------------
(* Properties.                                                             *)

\* Every socket is closed, however its call ends, but those whose lookup or
\* connect failed: they stay open for good, one for each such request.
SocketsAccountedFor == sockets = failed + (IF CallEnded THEN 0 ELSE 1)

\* A call that returns a reply returns all of it, wherever recv has cut it; one
\* with a NUL in it loses bytes, and no reply of a lost connection is returned.
ReplyWhole ==
  phase = "replied" =>
    /\ peer = "closed"
    /\ NUL \notin ToSet(sent) => rs = sent
    /\ NUL \in ToSet(sent) => Len(rs) < Len(sent)

\* A call ends, unless its server neither sends anything nor ends: there is no
\* timeout.
OnlyServerStalls == []<>(CallEnded \/ (peer = "open" /\ inFlight = <<>>))

\* Whatever the server does and wherever the network cuts: a call ends unless
\* its server stalls, with all of the reply or with none, and without a socket.
ConnectionSafe == []SocketsAccountedFor /\ []ReplyWhole /\ OnlyServerStalls
=============================================================================
