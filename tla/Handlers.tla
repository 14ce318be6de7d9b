------------------------------ MODULE Handlers ------------------------------
(***************************************************************************)
(* Apama contexts whose handlers send several events.  A handler runs to   *)
(* its end before its context takes the next event from its queue, but     *)
(* what it sends arrives one event at a time, and other contexts run in    *)
(* between.                                                                *)
(***************************************************************************)
EXTENDS Contexts

VARIABLE sending        \* what each context's running handler has yet to send

Addressed(d, e) == [to |-> d, event |-> e]

\* Context c is between two handlers and has an event of this type.
Takes(c, type) == sending[c] = <<>> /\ Receives(c, type)

\* Context c runs the handler of the event at the head of its queue, as far
\* as its first send; "sends" is all it sends, in order.
Handle(c, sends) ==
  IF sends = <<>>
  THEN Consume(c) /\ UNCHANGED sending
  ELSE /\ ConsumeAndSend(c, Head(sends).to, Head(sends).event)
       /\ sending' = [sending EXCEPT ![c] = Tail(sends)]

\* The handler that runs in context c sends its next event.
SendNext(c) ==
  /\ sending[c] # <<>>
  /\ Send(Head(sending[c]).to, Head(sending[c]).event)
  /\ sending' = [sending EXCEPT ![c] = Tail(@)]
=============================================================================
