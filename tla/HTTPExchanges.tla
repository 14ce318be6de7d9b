---------------------------- MODULE HTTPExchanges ----------------------------
(***************************************************************************)
(* What the sample HTTP transport promises its host: a message it accepts  *)
(* is answered at most once, in the order of acceptance, and a message it  *)
(* refuses is answered by an error of its own, whenever that comes.        *)
(***************************************************************************)
EXTENDS Naturals, Sequences, SequencesExt

CONSTANTS Message, Refusals, Codes

VARIABLES
  accepted,             \* the messages accepted, in order
  toHost                \* the answers given, in order

Answer == [id : Message, code : Codes]

Answered == {toHost[i].id : i \in DOMAIN toHost}

Init ==
  /\ accepted = <<>>
  /\ toHost = <<>>

Accept(m) ==
  /\ m \notin ToSet(accepted) \cup Answered
  /\ accepted' = Append(accepted, m)
  /\ UNCHANGED toHost

\* The first of the accepted messages that has no answer.
Respond(code) ==
  /\ \E i \in DOMAIN accepted :
        /\ accepted[i] \notin Answered
        /\ \A j \in 1 .. (i - 1) : accepted[j] \in Answered
        /\ toHost' = Append(toHost, [id |-> accepted[i], code |-> code])
  /\ UNCHANGED accepted

Refuse(m, code) ==
  /\ m \notin ToSet(accepted) \cup Answered
  /\ toHost' = Append(toHost, [id |-> m, code |-> code])
  /\ UNCHANGED accepted

Next ==
  \/ \E m \in Message : Accept(m)
  \/ \E code \in Codes : Respond(code)
  \/ \E m \in Message, code \in Refusals : Refuse(m, code)

Spec == Init /\ [][Next]_<<accepted, toHost>>
=============================================================================
