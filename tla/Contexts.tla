------------------------------ MODULE Contexts ------------------------------
(***************************************************************************)
(* Apama contexts, as the samples use them: every context has one FIFO     *)
(* input queue and runs one handler at a time, to its end, on the event at *)
(* the head of it.  "send" appends to the queue of the receiver's context. *)
(***************************************************************************)
EXTENDS Sequences, Naturals

CONSTANT Context

VARIABLE queue          \* the input queue of each context

Receives(c, type) == queue[c] # <<>> /\ Head(queue[c]).type = type

\* An event arrives at context d.
Send(d, e) == queue' = [queue EXCEPT ![d] = Append(@, e)]

\* Context c has handled its event, and sent nothing.
Consume(c) == queue' = [queue EXCEPT ![c] = Tail(@)]

\* Context c has handled its event, and sent e to context d.
ConsumeAndSend(c, d, e) == queue' = [queue EXCEPT ![c] = Tail(@), ![d] = Append(@, e)]
=============================================================================
