----------------------- MODULE BankCompareSwap_proofs -----------------------
(***************************************************************************)
(* Proofs about BankCompareSwap, for any accounts, tellers, transfers and  *)
(* SetupAccount events.                                                    *)
(***************************************************************************)
EXTENDS BankCompareSwap, TLAPS

(* What the operations on a FIFO queue do to it.                           *)
LEMMA QueueFacts ==
  ASSUME NEW S, NEW q \in Seq(S)
  PROVE  /\ Len(q) \in Nat
         /\ DOMAIN q = 1 .. Len(q)
         /\ \A i \in DOMAIN q : q[i] \in S
         /\ \A e \in S : /\ Append(q, e) \in Seq(S)
                         /\ DOMAIN Append(q, e) = DOMAIN q \cup {Len(q) + 1}
                         /\ \A i \in DOMAIN q : Append(q, e)[i] = q[i]
                         /\ Append(q, e)[Len(q) + 1] = e
         /\ q # <<>> => /\ 1 \in DOMAIN q
                        /\ Head(q) = q[1]
                        /\ Head(q) \in S
                        /\ Tail(q) \in Seq(S)
                        /\ \A i \in DOMAIN Tail(q) : i + 1 \in DOMAIN q /\ Tail(q)[i] = q[i + 1]
                        /\ \A i \in DOMAIN q : i # 1 => i - 1 \in DOMAIN Tail(q) /\ Tail(q)[i - 1] = q[i]
  OBVIOUS

(* A handler that consumes the event of its own context and sends another  *)
(* one elsewhere keeps the queues well typed.                              *)
LEMMA QueueTypes ==
  ASSUME NEW q \in [Context -> Seq(Events)], NEW c \in Context, NEW d \in Context, NEW e \in Events
  PROVE  /\ [q EXCEPT ![d] = Append(@, e)] \in [Context -> Seq(Events)]
         /\ q[c] # <<>> =>
              /\ Head(q[c]) \in Events
              /\ [q EXCEPT ![c] = Tail(@)] \in [Context -> Seq(Events)]
              /\ [q EXCEPT ![c] = Tail(@), ![d] = Append(@, e)] \in [Context -> Seq(Events)]
  BY QueueFacts

LEMMA TypeInit == Init => TypeOK
  BY DEF Init, TypeOK, Legs, Listeners

LEMMA TypeStep == TypeOK /\ [Next]_vars => TypeOK'
<1> SUFFICES ASSUME TypeOK, [Next]_vars PROVE TypeOK'
  OBVIOUS
<1> USE BankAssumption, TellerAssumption DEF TypeOK, Context
<1>1. ASSUME NEW s \in Setup, SendSetupAccount(s) PROVE TypeOK'
  <2>1. [type |-> "SetupAccount", setup |-> s] \in Events
    BY DEF Events
  <2> QED BY <1>1, <2>1, QueueTypes DEF SendSetupAccount, Send
<1>2. ASSUME NEW x \in Transfer, SendTransferMoney(x) PROVE TypeOK'
  <2>1. [type |-> "TransferMoney", id |-> x] \in Events
    BY DEF Events
  <2> QED BY <1>2, <2>1, QueueTypes DEF SendTransferMoney, Send, Listeners
<1>3. CASE DbSetupAccount
  <2>1. Head(queue[BankDB]) \in Events
    BY <1>3, QueueTypes DEF DbSetupAccount, Receives
  <2>2. Head(queue[BankDB]).setup \in Setup
    BY <1>3, <2>1 DEF DbSetupAccount, Receives, Events
  <2>3. queue' \in [Context -> Seq(Events)]
    BY <1>3, QueueTypes, <2>1 DEF DbSetupAccount, Receives, Consume
  <2> QED BY <1>3, <2>2, <2>3 DEF DbSetupAccount, WithEntry
<1>4. CASE DbGet
  <2> DEFINE get == Head(queue[BankDB])
  <2>1. get \in Events /\ get.type = "Get" /\ queue[BankDB] # <<>>
    BY <1>4, QueueTypes DEF DbGet, Receives
  <2>2. get.id \in Transfer
    BY <2>1 DEF Events
  <2>3. CASE get.account \in DOMAIN accounts
    <3> DEFINE response == [type |-> "GetResponse", id |-> get.id, amt |-> accounts[get.account]]
    <3>1. response \in Events
      BY <2>2, <2>3 DEF Events
    <3>2. queue' = [queue EXCEPT ![BankDB] = Tail(@), ![TellerOf[get.id]] = Append(@, response)]
      BY <1>4, <2>3 DEF DbGet, ConsumeAndSend
    <3> HIDE DEF response
    <3>3. queue' \in [Context -> Seq(Events)]
      BY <2>1, <2>2, <3>1, <3>2, QueueTypes
    <3> QED BY <1>4, <3>3 DEF DbGet
  <2>4. CASE get.account \notin DOMAIN accounts
    <3>1. queue' = [queue EXCEPT ![BankDB] = Tail(@)]
      BY <1>4, <2>4 DEF DbGet, Consume
    <3>2. queue' \in [Context -> Seq(Events)]
      BY <2>1, <3>1, QueueTypes
    <3> QED BY <1>4, <3>2 DEF DbGet
  <2> QED BY <2>3, <2>4
<1>5. CASE DbCompareSet
  <2> DEFINE set == Head(queue[BankDB])
  <2>1. set \in Events /\ set.type = "CompareSet" /\ queue[BankDB] # <<>>
    BY <1>5, QueueTypes DEF DbCompareSet, Receives
  <2>2. set.id \in Transfer /\ set.amt \in Int
    BY <2>1 DEF Events
  <2>3. [type |-> "CompareSetResponse", id |-> set.id, success |-> Matches(set)] \in Events
    BY <2>2 DEF Events, Matches
  <2>4. queue' \in [Context -> Seq(Events)]
    BY <1>5, <2>1, <2>2, <2>3, QueueTypes DEF DbCompareSet, Answer, ConsumeAndSend
  <2> QED BY <1>5, <2>2, <2>4 DEF DbCompareSet, Matches
<1>6. ASSUME NEW t \in Teller, TellerStep(t) PROVE TypeOK'
  <2> DEFINE event == Head(queue[t])
             x == event.id
  <2>1. queue[t] # <<>> /\ event \in Events
    BY <1>6, QueueTypes DEF TellerStep, OnTransferMoney, OnGetResponse, OnCompareSetResponse, Receives
  <2>2. event.type \in {"TransferMoney", "GetResponse", "CompareSetResponse"}
    BY <1>6 DEF TellerStep, OnTransferMoney, OnGetResponse, OnCompareSetResponse, Receives
  <2>3. x \in Transfer
    BY <2>1, <2>2 DEF Events
  <2>4. ASSUME NEW l \in Legs, AtomicAddToAccount(t, x, l), UNCHANGED <<accounts, unsent, opened>>
        PROVE  TypeOK'
    <3>1. [type |-> "Get", id |-> x, account |-> LegAccount(x, l)] \in Events
      BY <2>3 DEF Events, LegAccount
    <3> QED BY <2>1, <2>3, <2>4, <3>1, QueueTypes DEF AtomicAddToAccount, ConsumeAndSend, Listeners
  <2>5. CASE OnTransferMoney(t)
    BY <2>4, <2>5 DEF OnTransferMoney, Legs
  <2>6. CASE OnGetResponse(t)
    <3> DEFINE set == [type |-> "CompareSet", id |-> x, account |-> LegAccount(x, leg[x]),
                       oldAmt |-> event.amt, amt |-> event.amt + LegAmt(x, leg[x])]
    <3>1. event.amt \in Int
      BY <2>1, <2>6 DEF OnGetResponse, Receives, Events
    <3>2. set \in Events
      BY <2>3, <3>1 DEF Events, LegAccount, LegAmt
    <3> HIDE DEF set
    <3>3. queue' = [queue EXCEPT ![t] = Tail(@), ![BankDB] = Append(@, set)]
      BY <2>6 DEF OnGetResponse, ConsumeAndSend, set
    <3> QED BY <2>1, <2>3, <2>6, <3>2, <3>3, QueueTypes DEF OnGetResponse, Listeners
  <2>7. CASE OnCompareSetResponse(t)
    <3>1. CASE Retry(t, x)
      BY <2>3, <2>4, <2>7, <3>1 DEF OnCompareSetResponse, Retry
    <3>2. CASE AtomicAddToAccount(t, x, "credit")
      BY <2>4, <2>7, <3>2 DEF OnCompareSetResponse, Legs
    <3>3. CASE TransferFinished(t, x)
      BY <2>1, <2>3, <2>7, <3>3, QueueTypes
         DEF OnCompareSetResponse, TransferFinished, Consume, Listeners
    <3> QED BY <2>7, <3>1, <3>2, <3>3 DEF OnCompareSetResponse
  <2> QED BY <1>6, <2>5, <2>6, <2>7 DEF TellerStep
<1>7. CASE UNCHANGED vars
  BY <1>7 DEF vars
<1> QED BY <1>1, <1>2, <1>3, <1>4, <1>5, <1>6, <1>7 DEF Next, DbStep

(* Every variable keeps its type: the dictionary has exactly the accounts  *)
(* that have been set up, and the queues hold only events of the sample.   *)
THEOREM TypeCorrect == Spec => []TypeOK
  BY TypeInit, TypeStep, PTL DEF Spec

-----------------------------------------------------------------------------
(* The inductive invariant behind the refinement: at most one event in     *)
(* flight belongs to a transfer, and it is the one the transfer's listener *)
(* waits for, or the request that will be answered by it, with the account *)
(* and the amount of the transfer's current leg.                           *)

Keyed(e) == e.type # "SetupAccount"

UniqueIds(q) ==
  \A c, d \in Context : \A i \in DOMAIN q[c], j \in DOMAIN q[d] :
    Keyed(q[c][i]) /\ Keyed(q[d][j]) /\ q[c][i].id = q[d][j].id => c = d /\ i = j

Awaited(lst, lg, c, e) ==
  /\ e.type = "Get" => /\ c = BankDB
                       /\ lst[e.id] = "GetResponse"
                       /\ e.account = LegAccount(e.id, lg[e.id])
  /\ e.type = "CompareSet" => /\ c = BankDB
                              /\ lst[e.id] = "CompareSetResponse"
                              /\ e.account = LegAccount(e.id, lg[e.id])
                              /\ e.amt = e.oldAmt + LegAmt(e.id, lg[e.id])
  /\ e.type \in {"TransferMoney", "GetResponse", "CompareSetResponse"} =>
       c = TellerOf[e.id] /\ lst[e.id] = e.type

\* A listener that waits for TransferMoney or a CompareSetResponse has it, or
\* the request it answers, on its way.  (A Get may stay unanswered.)
AnswerComing ==
  \A x \in Transfer : listener[x] \in {"TransferMoney", "CompareSetResponse"} =>
    \E c \in Context : \E e \in Range(queue[c]) : Keyed(e) /\ e.id = x

IInv ==
  /\ TypeOK
  /\ AnswerComing
  /\ UniqueIds(queue)
  /\ \A c \in Context : \A e \in Range(queue[c]) : Awaited(listener, leg, c, e)
  /\ \A x \in Transfer : listener[x] \in {"unsent", "TransferMoney"} => leg[x] = "debit"

(* What the arrival of e at context d does to the queues.                  *)
Fresh(q, e) == \A k \in Context : \A f \in Range(q[k]) : Keyed(f) => f.id # e.id

Added(q, r, d, e) ==
  /\ r \in [Context -> Seq(Events)]
  /\ Range(r[d]) = Range(q[d]) \cup {e}
  /\ \A k \in Context : k # d => r[k] = q[k]
  /\ UniqueIds(q) /\ (Keyed(e) => Fresh(q, e)) => UniqueIds(r)

LEMMA Arrival ==
  ASSUME NEW q \in [Context -> Seq(Events)], NEW d \in Context, NEW e \in Events,
         NEW r \in [Context -> Seq(Events)], r[d] = Append(q[d], e),
         \A k \in Context : k # d => r[k] = q[k]
  PROVE  Added(q, r, d, e)
<1>2. /\ DOMAIN r[d] = DOMAIN q[d] \cup {Len(q[d]) + 1}
      /\ \A i \in DOMAIN q[d] : r[d][i] = q[d][i]
      /\ r[d][Len(q[d]) + 1] = e
  BY QueueFacts
<1>3. Range(r[d]) = Range(q[d]) \cup {e}
  BY <1>2 DEF Range
<1>4. ASSUME NEW k \in Context, NEW i \in DOMAIN r[k]
      PROVE  (i \in DOMAIN q[k] /\ r[k][i] = q[k][i]) \/ (k = d /\ i = Len(q[d]) + 1 /\ r[k][i] = e)
  BY <1>2
<1>5. ASSUME UniqueIds(q), Keyed(e) => Fresh(q, e)
      PROVE  UniqueIds(r)
  <2> SUFFICES ASSUME NEW k \in Context, NEW l \in Context, NEW i \in DOMAIN r[k], NEW j \in DOMAIN r[l],
                      Keyed(r[k][i]), Keyed(r[l][j]), r[k][i].id = r[l][j].id
               PROVE  k = l /\ i = j
    BY DEF UniqueIds
  <2>1. (i \in DOMAIN q[k] /\ r[k][i] = q[k][i]) \/ (k = d /\ i = Len(q[d]) + 1 /\ r[k][i] = e)
    BY <1>4
  <2>2. (j \in DOMAIN q[l] /\ r[l][j] = q[l][j]) \/ (l = d /\ j = Len(q[d]) + 1 /\ r[l][j] = e)
    BY <1>4
  <2>3. i \in DOMAIN q[k] => q[k][i] \in Range(q[k])
    BY DEF Range
  <2>4. j \in DOMAIN q[l] => q[l][j] \in Range(q[l])
    BY DEF Range
  <2> QED BY <1>5, <2>1, <2>2, <2>3, <2>4 DEF UniqueIds, Fresh
<1> QED BY <1>3, <1>5 DEF Added

(* What consuming the event at the head of c's queue does: nothing of its  *)
(* transfer is left.                                                       *)
Removed(q, r, c) ==
  /\ r \in [Context -> Seq(Events)]
  /\ UniqueIds(r)
  /\ Range(q[c]) = Range(r[c]) \cup {Head(q[c])}
  /\ \A k \in Context : k # c => r[k] = q[k]
  /\ Keyed(Head(q[c])) => Fresh(r, Head(q[c]))

LEMMA Removal ==
  ASSUME NEW q \in [Context -> Seq(Events)], NEW c \in Context, q[c] # <<>>, UniqueIds(q),
         NEW r \in [Context -> Seq(Events)], r[c] = Tail(q[c]),
         \A k \in Context : k # c => r[k] = q[k]
  PROVE  Removed(q, r, c)
<1> DEFINE h == Head(q[c])
<1>2. /\ 1 \in DOMAIN q[c] /\ h = q[c][1]
      /\ DOMAIN q[c] \subseteq Nat /\ DOMAIN r[c] \subseteq Nat \ {0}
      /\ \A i \in DOMAIN r[c] : i + 1 \in DOMAIN q[c] /\ r[c][i] = q[c][i + 1]
      /\ \A i \in DOMAIN q[c] : i # 1 => i - 1 \in DOMAIN r[c] /\ r[c][i - 1] = q[c][i]
  BY QueueFacts
<1>4. h \in Range(q[c])
  BY <1>2 DEF Range
<1>5. Range(q[c]) = Range(r[c]) \cup {h}
  <2>1. ASSUME NEW i \in DOMAIN q[c], i # 1 PROVE q[c][i] \in Range(r[c])
    BY <1>2, <2>1 DEF Range
  <2>2. \A i \in DOMAIN r[c] : r[c][i] \in Range(q[c])
    BY <1>2 DEF Range
  <2> QED BY <1>2, <1>4, <2>1, <2>2 DEF Range
<1>6. \A k \in Context : \A i \in DOMAIN r[k] :
        \E j \in DOMAIN q[k] : r[k][i] = q[k][j] /\ j = IF k = c THEN i + 1 ELSE i
  BY <1>2
<1>7. UniqueIds(r)
  <2> SUFFICES ASSUME NEW k \in Context, NEW l \in Context, NEW i \in DOMAIN r[k], NEW j \in DOMAIN r[l],
                      Keyed(r[k][i]), Keyed(r[l][j]), r[k][i].id = r[l][j].id
               PROVE  k = l /\ i = j
    BY DEF UniqueIds
  <2>1. PICK i1 \in DOMAIN q[k] : r[k][i] = q[k][i1] /\ i1 = IF k = c THEN i + 1 ELSE i
    BY <1>6
  <2>2. PICK j1 \in DOMAIN q[l] : r[l][j] = q[l][j1] /\ j1 = IF l = c THEN j + 1 ELSE j
    BY <1>6
  <2>3. k = l /\ i1 = j1
    BY <2>1, <2>2 DEF UniqueIds
  <2> QED BY <1>2, <2>1, <2>2, <2>3
<1>8. ASSUME Keyed(h), NEW k \in Context, NEW f \in Range(r[k]), Keyed(f) PROVE f.id # h.id
  <2>1. PICK i \in DOMAIN r[k] : f = r[k][i]
    BY DEF Range
  <2>2. PICK j \in DOMAIN q[k] : r[k][i] = q[k][j] /\ j = IF k = c THEN i + 1 ELSE i
    BY <1>6
  <2>3. k = c => j # 1
    BY <1>2, <2>2
  <2> QED BY <1>2, <1>8, <2>1, <2>2, <2>3 DEF UniqueIds
<1> QED BY <1>5, <1>7, <1>8 DEF Removed, Fresh

(* What an answer leaves in the queues: the event at the head of c's queue *)
(* is replaced by e, of the same transfer, in d's.                         *)
Replaced(q, r, c, d, e) ==
  /\ UniqueIds(r)
  /\ \A k \in Context : \A f \in Range(r[k]) :
       \/ k = d /\ f = e
       \/ f \in Range(q[k]) /\ (Keyed(f) => f.id # e.id)
  /\ e \in Range(r[d])
  /\ \A k \in Context : \A f \in Range(q[k]) :
       \/ f = Head(q[c])
       \/ f \in Range(r[k]) /\ (Keyed(f) => f.id # e.id)

LEMMA Handover ==
  ASSUME NEW q \in [Context -> Seq(Events)], NEW c \in Context, q[c] # <<>>, UniqueIds(q),
         NEW d \in Context, c # d, NEW e \in Events,
         Keyed(Head(q[c])), e.id = Head(q[c]).id,
         NEW r, r = [q EXCEPT ![c] = Tail(@), ![d] = Append(@, e)]
  PROVE  Replaced(q, r, c, d, e)
<1> DEFINE p == [q EXCEPT ![c] = Tail(@)]
<1>1. /\ r[d] = Append(p[d], e)
      /\ \A k \in Context : k # d => r[k] = p[k]
      /\ p \in [Context -> Seq(Events)]
      /\ r \in [Context -> Seq(Events)]
  BY QueueTypes
<1>2. Removed(q, p, c)
  <2>1. p[c] = Tail(q[c]) /\ \A k \in Context : k # c => p[k] = q[k]
    OBVIOUS
  <2> QED BY <1>1, <2>1, Removal
<1> HIDE DEF p
<1>4. Added(p, r, d, e)
  BY <1>1, Arrival
<1>5. Fresh(p, e)
  BY <1>2 DEF Removed, Fresh
<1>6. ASSUME NEW k \in Context, NEW f \in Range(r[k])
      PROVE  (k = d /\ f = e) \/ (f \in Range(q[k]) /\ (Keyed(f) => f.id # e.id))
  BY <1>2, <1>4, <1>5 DEF Removed, Added, Fresh
<1>7. ASSUME NEW k \in Context, NEW f \in Range(q[k])
      PROVE  f = Head(q[c]) \/ (f \in Range(r[k]) /\ (Keyed(f) => f.id # e.id))
  BY <1>2, <1>4, <1>5 DEF Removed, Added, Fresh
<1>8. e \in Range(r[d]) /\ UniqueIds(r)
  BY <1>2, <1>4, <1>5 DEF Removed, Added
<1> QED BY <1>6, <1>7, <1>8 DEF Replaced

-----------------------------------------------------------------------------
LEMMA NoEvents ==
  ASSUME IInv, NEW x \in Transfer, listener[x] \in {"unsent", "complete"},
         NEW c \in Context, NEW e \in Range(queue[c]), Keyed(e)
  PROVE  e.id # x
<1>1. e \in Events
  BY QueueFacts DEF IInv, TypeOK, Range
<1>2. e.type \in {"Get", "CompareSet", "TransferMoney", "GetResponse", "CompareSetResponse"}
  BY <1>1 DEF Events, Keyed
<1>3. Awaited(listener, leg, c, e)
  BY DEF IInv
<1> QED BY <1>2, <1>3 DEF Awaited

(* A handler that passes a transfer on, and touches no other transfer,     *)
(* keeps the invariant if what it sends is awaited.                        *)
LEMMA HandlerStep ==
  ASSUME IInv, TypeOK',
         NEW c \in Context, NEW d \in Context, c # d, queue[c] # <<>>,
         NEW e \in Events, Keyed(Head(queue[c])), Keyed(e), e.id = Head(queue[c]).id,
         queue' = [queue EXCEPT ![c] = Tail(@), ![d] = Append(@, e)],
         \A y \in Transfer : y # e.id => listener'[y] = listener[y] /\ leg'[y] = leg[y],
         listener'[e.id] \notin {"unsent", "TransferMoney"},
         Awaited(listener', leg', d, e)
  PROVE  IInv' /\ Replaced(queue, queue', c, d, e)
<1> DEFINE h == Head(queue[c])
<1>1. queue \in [Context -> Seq(Events)] /\ UniqueIds(queue)
  BY DEF IInv, TypeOK
<1>2. Replaced(queue, queue', c, d, e)
  BY <1>1, Handover
<1>3. ASSUME NEW k \in Context, NEW f \in Range(queue'[k]) PROVE Awaited(listener', leg', k, f)
  <2>1. CASE k = d /\ f = e
    BY <2>1
  <2>2. CASE f \in Range(queue[k]) /\ (Keyed(f) => f.id # e.id)
    <3>1. Awaited(listener, leg, k, f) /\ f \in Events
      BY <2>2, <1>1, QueueFacts DEF IInv, Range
    <3>2. CASE Keyed(f)
      <4>1. f.id \in Transfer
        BY <3>1, <3>2 DEF Events, Keyed
      <4> QED BY <2>2, <3>1, <3>2, <4>1 DEF Awaited
    <3>3. CASE ~Keyed(f)
      BY <3>3 DEF Awaited, Keyed
    <3> QED BY <3>2, <3>3
  <2> QED BY <1>2, <2>1, <2>2 DEF Replaced
<1>4. \A y \in Transfer : listener'[y] \in {"unsent", "TransferMoney"} => leg'[y] = "debit"
  BY DEF IInv
<1>5. AnswerComing'
  <2> SUFFICES ASSUME NEW y \in Transfer, listener'[y] \in {"TransferMoney", "CompareSetResponse"}
               PROVE  \E k \in Context : \E f \in Range(queue'[k]) : Keyed(f) /\ f.id = y
    BY DEF AnswerComing
  <2>1. CASE y = e.id
    BY <1>2, <2>1 DEF Replaced
  <2>2. CASE y # e.id
    <3>1. PICK k \in Context : \E f \in Range(queue[k]) : Keyed(f) /\ f.id = y
      BY <2>2 DEF IInv, AnswerComing
    <3> QED BY <1>2, <2>2, <3>1 DEF Replaced
  <2> QED BY <2>1, <2>2
<1> QED BY <1>2, <1>3, <1>4, <1>5 DEF IInv, Replaced

(* The same for a handler that sends nothing.                              *)
LEMMA DropStep ==
  ASSUME IInv, TypeOK',
         NEW c \in Context, queue[c] # <<>>,
         queue' = [queue EXCEPT ![c] = Tail(@)],
         \A y \in Transfer : \/ listener'[y] = listener[y] /\ leg'[y] = leg[y]
                             \/ Keyed(Head(queue[c])) /\ y = Head(queue[c]).id,
         Keyed(Head(queue[c])) => listener'[Head(queue[c]).id] \in {"GetResponse", "complete"}
  PROVE  IInv' /\ Removed(queue, queue', c)
<1> DEFINE h == Head(queue[c])
<1>1. queue \in [Context -> Seq(Events)] /\ UniqueIds(queue)
  BY DEF IInv, TypeOK
<1>2. Removed(queue, queue', c)
  <2>1. /\ queue'[c] = Tail(queue[c])
        /\ \A k \in Context : k # c => queue'[k] = queue[k]
        /\ queue' \in [Context -> Seq(Events)]
    BY <1>1, QueueTypes
  <2> QED BY <1>1, <2>1, Removal
<1>3. ASSUME NEW k \in Context, NEW f \in Range(queue'[k]) PROVE Awaited(listener', leg', k, f)
  <2>1. f \in Range(queue[k])
    BY <1>2 DEF Removed
  <2>2. Awaited(listener, leg, k, f) /\ f \in Events
    BY <2>1, <1>1, QueueFacts DEF IInv, Range
  <2>3. CASE Keyed(f)
    <3>1. f.id \in Transfer
      BY <2>2, <2>3 DEF Events, Keyed
    <3>2. listener'[f.id] = listener[f.id] /\ leg'[f.id] = leg[f.id]
      BY <1>2, <2>3, <3>1 DEF Removed, Fresh
    <3> QED BY <2>2, <3>2 DEF Awaited
  <2>4. CASE ~Keyed(f)
    BY <2>4 DEF Awaited, Keyed
  <2> QED BY <2>3, <2>4
<1>4. \A y \in Transfer : listener'[y] \in {"unsent", "TransferMoney"} => leg'[y] = "debit"
  BY DEF IInv
<1>5. AnswerComing'
  <2> SUFFICES ASSUME NEW y \in Transfer, listener'[y] \in {"TransferMoney", "CompareSetResponse"}
               PROVE  \E k \in Context : \E f \in Range(queue'[k]) : Keyed(f) /\ f.id = y
    BY DEF AnswerComing
  <2>1. listener'[y] = listener[y] /\ ~(Keyed(h) /\ y = h.id)
    OBVIOUS
  <2>2. PICK k \in Context : \E f \in Range(queue[k]) : Keyed(f) /\ f.id = y
    BY <2>1 DEF IInv, AnswerComing
  <2> QED BY <1>2, <2>1, <2>2 DEF Removed
<1> QED BY <1>2, <1>3, <1>4, <1>5 DEF IInv, Removed

(* The same for an event sent in by a customer.                            *)
LEMMA ArrivalStep ==
  ASSUME IInv, TypeOK',
         NEW d \in Context, NEW e \in Events,
         queue' = [queue EXCEPT ![d] = Append(@, e)],
         leg' = leg,
         \A y \in Transfer : \/ listener'[y] = listener[y]
                             \/ Keyed(e) /\ y = e.id /\ listener[y] = "unsent",
         Keyed(e) => Fresh(queue, e),
         Awaited(listener', leg', d, e)
  PROVE  IInv' /\ Added(queue, queue', d, e)
<1>1. queue \in [Context -> Seq(Events)] /\ UniqueIds(queue)
  BY DEF IInv, TypeOK
<1>2. Added(queue, queue', d, e)
  <2>1. /\ queue'[d] = Append(queue[d], e)
        /\ \A k \in Context : k # d => queue'[k] = queue[k]
        /\ queue' \in [Context -> Seq(Events)]
    BY <1>1, QueueTypes
  <2> QED BY <1>1, <2>1, Arrival
<1>3. ASSUME NEW k \in Context, NEW f \in Range(queue'[k]) PROVE Awaited(listener', leg', k, f)
  <2>1. CASE k = d /\ f = e
    BY <2>1
  <2>2. CASE f \in Range(queue[k])
    <3>1. Awaited(listener, leg, k, f) /\ f \in Events
      BY <2>2, <1>1, QueueFacts DEF IInv, Range
    <3>2. CASE Keyed(f)
      <4>1. f.id \in Transfer
        BY <3>1, <3>2 DEF Events, Keyed
      <4>2. listener'[f.id] = listener[f.id]
        BY <2>2, <3>2, <4>1 DEF Fresh
      <4> QED BY <3>1, <4>2 DEF Awaited
    <3>3. CASE ~Keyed(f)
      BY <3>3 DEF Awaited, Keyed
    <3> QED BY <3>2, <3>3
  <2> QED BY <1>2, <2>1, <2>2 DEF Added
<1>4. \A y \in Transfer : listener'[y] \in {"unsent", "TransferMoney"} => leg'[y] = "debit"
  BY DEF IInv
<1>5. AnswerComing'
  <2> SUFFICES ASSUME NEW y \in Transfer, listener'[y] \in {"TransferMoney", "CompareSetResponse"}
               PROVE  \E k \in Context : \E f \in Range(queue'[k]) : Keyed(f) /\ f.id = y
    BY DEF AnswerComing
  <2>1. CASE Keyed(e) /\ y = e.id
    BY <1>2, <2>1 DEF Added
  <2>2. CASE listener'[y] = listener[y]
    <3>1. PICK k \in Context : \E f \in Range(queue[k]) : Keyed(f) /\ f.id = y
      BY <2>2 DEF IInv, AnswerComing
    <3> QED BY <1>2, <3>1 DEF Added
  <2> QED BY <2>1, <2>2
<1> QED BY <1>1, <1>2, <1>3, <1>4, <1>5 DEF IInv, Added

-----------------------------------------------------------------------------
(* Each step keeps the invariant and is a step of Bank, or none.           *)

AbstractStep == [BK!Next]_(BK!vars)

Success(x) == [type |-> "CompareSetResponse", id |-> x, success |-> TRUE]

LEMMA StageFrame ==
  ASSUME NEW x \in Transfer, listener'[x] = listener[x], leg'[x] = leg[x],
         DoneUnseen(x)' <=> DoneUnseen(x)
  PROVE  Stage(x)' = Stage(x)
  BY DEF Stage

LEMMA StutterStep ==
  ASSUME \A x \in Transfer : Stage(x)' = Stage(x), UNCHANGED <<accounts, opened>>
  PROVE  AbstractStep
  BY DEF AbstractStep, BK!vars

LEMMA DoneAfterHandover ==
  ASSUME NEW c \in Context, NEW d \in Context, NEW e \in Events, Keyed(e), e.id = Head(queue[c]).id,
         Replaced(queue, queue', c, d, e), TellerOf \in [Transfer -> Teller]
  PROVE  /\ \A y \in Transfer : y # e.id => (DoneUnseen(y)' <=> DoneUnseen(y))
         /\ \A y \in Transfer : y = e.id =>
              /\ DoneUnseen(y)' <=> d = TellerOf[y] /\ e = Success(y)
              /\ DoneUnseen(y) => Head(queue[c]) = Success(y)
<1>1. \A y \in Transfer : TellerOf[y] \in Context
  BY DEF Context
<1>2. \A y : Success(y).id = y /\ Keyed(Success(y))
  BY DEF Success, Keyed
<1>3. \A y : DoneUnseen(y) <=> Success(y) \in Range(queue[TellerOf[y]])
  BY DEF DoneUnseen, Success
<1>4. \A y : DoneUnseen(y)' <=> Success(y) \in Range(queue'[TellerOf[y]])
  BY DEF DoneUnseen, Success
<1>5. ASSUME NEW y \in Transfer, y # e.id PROVE DoneUnseen(y)' <=> DoneUnseen(y)
  <2> HIDE DEF Success
  <2> QED BY <1>1, <1>2, <1>3, <1>4, <1>5 DEF Replaced
<1>6. ASSUME NEW y \in Transfer, y = e.id
      PROVE  DoneUnseen(y)' <=> d = TellerOf[y] /\ e = Success(y)
  BY <1>1, <1>2, <1>4, <1>6 DEF Replaced
<1>7. ASSUME NEW y \in Transfer, y = e.id, DoneUnseen(y)
      PROVE  Head(queue[c]) = Success(y)
  BY <1>1, <1>2, <1>3, <1>7 DEF Replaced
<1> QED BY <1>5, <1>6, <1>7

LEMMA DoneAfterDrop ==
  ASSUME NEW c \in Context, Removed(queue, queue', c), TellerOf \in [Transfer -> Teller]
  PROVE  /\ \A y \in Transfer :
              ~(Keyed(Head(queue[c])) /\ y = Head(queue[c]).id) => (DoneUnseen(y)' <=> DoneUnseen(y))
         /\ \A y \in Transfer :
              Keyed(Head(queue[c])) /\ y = Head(queue[c]).id =>
                ~DoneUnseen(y)' /\ (DoneUnseen(y) => Head(queue[c]) = Success(y))
<1>1. \A y \in Transfer : TellerOf[y] \in Context
  BY DEF Context
<1>2. \A y : Success(y).id = y /\ Keyed(Success(y))
  BY DEF Success, Keyed
<1>3. \A y : DoneUnseen(y) <=> Success(y) \in Range(queue[TellerOf[y]])
  BY DEF DoneUnseen, Success
<1>4. \A y : DoneUnseen(y)' <=> Success(y) \in Range(queue'[TellerOf[y]])
  BY DEF DoneUnseen, Success
<1>5. ASSUME NEW y \in Transfer, ~(Keyed(Head(queue[c])) /\ y = Head(queue[c]).id)
      PROVE  DoneUnseen(y)' <=> DoneUnseen(y)
  BY <1>1, <1>2, <1>3, <1>4, <1>5 DEF Removed
<1>6. ASSUME NEW y \in Transfer, Keyed(Head(queue[c])), y = Head(queue[c]).id
      PROVE  ~DoneUnseen(y)' /\ (DoneUnseen(y) => Head(queue[c]) = Success(y))
  BY <1>1, <1>2, <1>3, <1>4, <1>6 DEF Removed, Fresh
<1> QED BY <1>5, <1>6

LEMMA DoneAfterArrival ==
  ASSUME NEW d \in Context, NEW e \in Events, Added(queue, queue', d, e),
         e.type # "CompareSetResponse", TellerOf \in [Transfer -> Teller], NEW y \in Transfer
  PROVE  DoneUnseen(y)' <=> DoneUnseen(y)
<1>1. TellerOf[y] \in Context
  BY DEF Context
<1>2. Success(y) # e
  BY DEF Success
<1>3. DoneUnseen(y) <=> Success(y) \in Range(queue[TellerOf[y]])
  BY DEF DoneUnseen, Success
<1>4. DoneUnseen(y)' <=> Success(y) \in Range(queue'[TellerOf[y]])
  BY DEF DoneUnseen, Success
<1> QED BY <1>1, <1>2, <1>3, <1>4 DEF Added

LEMMA StepSendSetupAccount ==
  ASSUME IInv, TypeOK', NEW s \in Setup, SendSetupAccount(s)
  PROVE  IInv' /\ AbstractStep
<1> USE TellerAssumption
<1> DEFINE e == [type |-> "SetupAccount", setup |-> s]
<1>1. e \in Events /\ ~Keyed(e) /\ Awaited(listener', leg', BankDB, e) /\ BankDB \in Context
  BY DEF Events, Keyed, Awaited, Context
<1>2. queue' = [queue EXCEPT ![BankDB] = Append(@, e)] /\ e.type # "CompareSetResponse"
  BY DEF SendSetupAccount, Send
<1> HIDE DEF e
<1>3. IInv' /\ Added(queue, queue', BankDB, e)
  BY <1>1, <1>2, ArrivalStep DEF SendSetupAccount
<1>4. \A y \in Transfer : Stage(y)' = Stage(y)
  BY <1>1, <1>2, <1>3, DoneAfterArrival, StageFrame DEF SendSetupAccount
<1> QED BY <1>3, <1>4, StutterStep DEF SendSetupAccount

LEMMA StepSendTransferMoney ==
  ASSUME IInv, TypeOK', NEW x \in Transfer, SendTransferMoney(x)
  PROVE  IInv' /\ AbstractStep
<1> USE TellerAssumption
<1> DEFINE e == [type |-> "TransferMoney", id |-> x]
           d == TellerOf[x]
<1>1. e \in Events /\ Keyed(e) /\ e.id = x /\ e.type # "CompareSetResponse" /\ d \in Context
  BY DEF Events, Keyed, Context
<1>2. queue' = [queue EXCEPT ![d] = Append(@, e)]
  BY DEF SendTransferMoney, Send
<1>3. listener[x] = "unsent" /\ listener' = [listener EXCEPT ![x] = "TransferMoney"]
      /\ UNCHANGED <<accounts, leg, opened>>
  BY DEF SendTransferMoney
<1>4. listener \in [Transfer -> Listeners]
  BY DEF IInv, TypeOK
<1>5. Awaited(listener', leg', d, e)
  BY <1>3, <1>4 DEF Awaited
<1> HIDE DEF e, d
<1>6. Fresh(queue, e)
  BY <1>1, <1>3, NoEvents DEF Fresh
<1>7. IInv' /\ Added(queue, queue', d, e)
  BY <1>1, <1>2, <1>3, <1>4, <1>5, <1>6, ArrivalStep
<1>8. ASSUME NEW y \in Transfer PROVE Stage(y)' = Stage(y)
  <2>1. DoneUnseen(y)' <=> DoneUnseen(y)
    BY <1>1, <1>7, DoneAfterArrival
  <2> QED BY <1>3, <1>4, <2>1 DEF Stage
<1> QED BY <1>3, <1>7, <1>8, StutterStep

LEMMA StepDbSetupAccount ==
  ASSUME IInv, TypeOK', DbSetupAccount
  PROVE  IInv' /\ AbstractStep
<1> USE TellerAssumption
<1> DEFINE h == Head(queue[BankDB])
           s == h.setup
<1>1. BankDB \in Context
  BY DEF Context
<1>2. /\ queue[BankDB] # <<>> /\ h.type = "SetupAccount" /\ ~Keyed(h)
      /\ queue' = [queue EXCEPT ![BankDB] = Tail(@)]
      /\ UNCHANGED <<leg, listener>>
  BY DEF DbSetupAccount, Receives, Consume, Keyed
<1>3. s \in Setup
  <2>1. h \in Events
    BY <1>1, <1>2, QueueTypes DEF IInv, TypeOK
  <2> QED BY <1>2, <2>1 DEF Events
<1>4. IInv' /\ Removed(queue, queue', BankDB)
  BY <1>1, <1>2, DropStep
<1>5. \A y \in Transfer : Stage(y)' = Stage(y)
  BY <1>1, <1>2, <1>4, DoneAfterDrop, StageFrame
<1>6. CASE s.account \in DOMAIN accounts
  BY <1>4, <1>5, <1>6, StutterStep DEF DbSetupAccount
<1>7. CASE s.account \notin DOMAIN accounts
  <2>1. /\ accounts' = WithEntry(accounts, s.account, s.amt)
        /\ opened' = WithEntry(opened, s.account, s.amt)
    BY <1>7 DEF DbSetupAccount
  <2>2. BK!OpenAccount(s)
    BY <1>5, <1>7, <2>1 DEF BK!OpenAccount, BK!WithEntry, WithEntry
  <2> QED BY <1>3, <1>4, <2>2 DEF AbstractStep, BK!Next
<1> QED BY <1>6, <1>7

LEMMA StepDbGet ==
  ASSUME IInv, TypeOK', DbGet
  PROVE  IInv' /\ AbstractStep
<1> USE TellerAssumption
<1> DEFINE h == Head(queue[BankDB])
           d == TellerOf[h.id]
           e == [type |-> "GetResponse", id |-> h.id, amt |-> accounts[h.account]]
<1>1. BankDB \in Context
  BY DEF Context
<1>2. /\ queue[BankDB] # <<>> /\ h.type = "Get" /\ Keyed(h)
      /\ UNCHANGED <<accounts, opened, leg, listener>>
  BY DEF DbGet, Receives, Keyed
<1>3. h \in Events /\ h \in Range(queue[BankDB])
  BY <1>1, <1>2, QueueFacts DEF IInv, TypeOK, Range
<1>4. h.id \in Transfer /\ listener[h.id] = "GetResponse"
  BY <1>1, <1>2, <1>3 DEF IInv, Awaited, Events
<1>5. d \in Context /\ d # BankDB
  BY <1>4 DEF Context
<1>6. CASE h.account \in DOMAIN accounts
  <2>1. accounts[h.account] \in Int
    BY <1>6 DEF IInv, TypeOK
  <2>2. e \in Events /\ Keyed(e) /\ e.id = h.id
    <3>1. e \in [type : {"GetResponse"}, id : Transfer, amt : Int]
      BY <1>4, <2>1
    <3>2. e \in Events
      BY <3>1 DEF Events
    <3> QED BY <3>2 DEF Keyed
  <2>3. Awaited(listener', leg', d, e) /\ \A y : e # Success(y)
    <3>1. listener'[h.id] = "GetResponse"
      BY <1>2, <1>4
    <3> QED BY <3>1 DEF Awaited, Success
  <2>4. queue' = [queue EXCEPT ![BankDB] = Tail(@), ![d] = Append(@, e)]
    BY <1>6 DEF DbGet, ConsumeAndSend
  <2> HIDE DEF e, d
  <2>5. IInv' /\ Replaced(queue, queue', BankDB, d, e)
    BY <1>1, <1>2, <1>4, <1>5, <2>2, <2>3, <2>4, HandlerStep
  <2>6. ASSUME NEW y \in Transfer PROVE DoneUnseen(y)' <=> DoneUnseen(y)
    <3>1. h # Success(y)
      BY <1>2 DEF Success
    <3>2. y # e.id => (DoneUnseen(y)' <=> DoneUnseen(y))
      BY <1>1, <1>5, <2>2, <2>5, DoneAfterHandover
    <3>3. y = e.id => ~DoneUnseen(y)' /\ ~DoneUnseen(y)
      BY <1>1, <1>4, <1>5, <2>2, <2>3, <2>5, <3>1, DoneAfterHandover
    <3> QED BY <3>2, <3>3
  <2>7. \A y \in Transfer : Stage(y)' = Stage(y)
    BY <1>2, <2>6, StageFrame
  <2> QED BY <1>2, <2>5, <2>7, StutterStep
<1>7. CASE h.account \notin DOMAIN accounts
  <2>1. queue' = [queue EXCEPT ![BankDB] = Tail(@)]
    BY <1>7 DEF DbGet, Consume
  <2>2. IInv' /\ Removed(queue, queue', BankDB)
    BY <1>1, <1>2, <1>4, <2>1, DropStep
  <2>3. h # Success(h.id)
    BY <1>2 DEF Success
  <2>4. ASSUME NEW y \in Transfer PROVE DoneUnseen(y)' <=> DoneUnseen(y)
    BY <1>1, <1>2, <2>2, <2>3, DoneAfterDrop
  <2>5. \A y \in Transfer : Stage(y)' = Stage(y)
    BY <1>2, <2>4, StageFrame
  <2> QED BY <1>2, <2>2, <2>5, StutterStep
<1> QED BY <1>6, <1>7

LEMMA StepDbCompareSet ==
  ASSUME IInv, TypeOK', DbCompareSet
  PROVE  IInv' /\ AbstractStep
<1> USE TellerAssumption
<1> DEFINE h == Head(queue[BankDB])
           e == [type |-> "CompareSetResponse", id |-> h.id, success |-> Matches(h)]
<1>1. BankDB \in Context
  BY DEF Context
<1>2. /\ queue[BankDB] # <<>> /\ h.type = "CompareSet" /\ Keyed(h)
      /\ UNCHANGED <<opened, leg, listener>>
      /\ accounts' = IF Matches(h) THEN [accounts EXCEPT ![h.account] = h.amt] ELSE accounts
  BY DEF DbCompareSet, Receives, Keyed
<1>3. h \in Events /\ h \in Range(queue[BankDB])
  BY <1>1, <1>2, QueueFacts DEF IInv, TypeOK, Range
<1>4. PICK x \in Transfer : x = h.id
  BY <1>2, <1>3 DEF Events
<1>5. /\ listener[x] = "CompareSetResponse" /\ leg[x] \in Legs
      /\ h.account = LegAccount(x, leg[x])
      /\ h.amt = h.oldAmt + LegAmt(x, leg[x])
  BY <1>1, <1>2, <1>3, <1>4 DEF IInv, TypeOK, Awaited
<1>6. TellerOf[x] \in Context /\ TellerOf[x] # BankDB
  BY DEF Context
<1>7. e \in Events /\ Keyed(e) /\ e.id = x
  <2>1. e \in [type : {"CompareSetResponse"}, id : Transfer, success : BOOLEAN]
    BY <1>4 DEF Matches
  <2>2. e \in Events
    BY <2>1 DEF Events
  <2> QED BY <1>4, <2>2 DEF Keyed
<1>8. Awaited(listener', leg', TellerOf[x], e)
  <2>1. listener'[x] = "CompareSetResponse"
    BY <1>2, <1>5
  <2> QED BY <1>4, <2>1 DEF Awaited
<1>9. queue' = [queue EXCEPT ![BankDB] = Tail(@), ![TellerOf[x]] = Append(@, e)]
  BY <1>4 DEF DbCompareSet, Answer, ConsumeAndSend
<1>10. e = Success(x) <=> Matches(h)
  BY <1>4 DEF Success, Matches
<1> HIDE DEF e
<1>11. IInv' /\ Replaced(queue, queue', BankDB, TellerOf[x], e)
  BY <1>1, <1>2, <1>4, <1>5, <1>6, <1>7, <1>8, <1>9, HandlerStep
<1>12. ~DoneUnseen(x) /\ (DoneUnseen(x)' <=> Matches(h))
  <2>1. h # Success(x)
    BY <1>2 DEF Success
  <2> QED BY <1>1, <1>4, <1>6, <1>7, <1>10, <1>11, <2>1, DoneAfterHandover
<1>13. ASSUME NEW y \in Transfer, y # x PROVE Stage(y)' = Stage(y)
  <2>1. DoneUnseen(y)' <=> DoneUnseen(y)
    BY <1>1, <1>4, <1>6, <1>7, <1>11, <1>13, DoneAfterHandover
  <2> QED BY <1>2, <2>1, StageFrame
<1>14. CASE ~Matches(h)
  <2>1. Stage(x)' = Stage(x)
    BY <1>2, <1>12, <1>14, StageFrame
  <2> QED BY <1>2, <1>11, <1>13, <1>14, <2>1, StutterStep
<1>15. CASE Matches(h)
  <2>1. /\ LegAccount(x, leg[x]) \in DOMAIN accounts
        /\ accounts' = [accounts EXCEPT ![LegAccount(x, leg[x])] = @ + LegAmt(x, leg[x])]
    BY <1>2, <1>5, <1>15 DEF Matches
  <2>2. CASE leg[x] = "debit"
    <3>1. Stage(x) = "pending" /\ Stage(x)' = "debited"
      BY <1>2, <1>5, <1>12, <1>15, <2>2 DEF Stage
    <3>2. BK!Debit(x)
      BY <1>2, <1>13, <2>1, <2>2, <3>1
         DEF BK!Debit, BK!AddToAccount, BK!LegAccount, BK!LegAmt, LegAccount, LegAmt
    <3> QED BY <1>11, <3>2 DEF AbstractStep, BK!Next
  <2>3. CASE leg[x] = "credit"
    <3>1. Stage(x) = "debited" /\ Stage(x)' = "credited"
      BY <1>2, <1>5, <1>12, <1>15, <2>3 DEF Stage
    <3>2. BK!Credit(x)
      BY <1>2, <1>13, <2>1, <2>3, <3>1
         DEF BK!Credit, BK!AddToAccount, BK!LegAccount, BK!LegAmt, LegAccount, LegAmt
    <3> QED BY <1>11, <3>2 DEF AbstractStep, BK!Next
  <2> QED BY <1>5, <2>2, <2>3 DEF Legs
<1> QED BY <1>14, <1>15

LEMMA TellerReceives ==
  ASSUME IInv, NEW t \in Teller, queue[t] # <<>>,
         Head(queue[t]).type \in {"TransferMoney", "GetResponse", "CompareSetResponse"}
  PROVE  /\ t \in Context /\ t # BankDB
         /\ Head(queue[t]) \in Events /\ Keyed(Head(queue[t]))
         /\ Head(queue[t]).id \in Transfer
         /\ listener[Head(queue[t]).id] = Head(queue[t]).type
         /\ t = TellerOf[Head(queue[t]).id]
         /\ Head(queue[t]) \in Range(queue[t])
<1> DEFINE h == Head(queue[t])
<1>1. t \in Context /\ t # BankDB
  BY TellerAssumption DEF Context
<1>2. h \in Events /\ h \in Range(queue[t])
  BY <1>1, QueueFacts DEF IInv, TypeOK, Range
<1>3. h.id \in Transfer
  BY <1>2 DEF Events
<1>4. Awaited(listener, leg, t, h)
  BY <1>1, <1>2 DEF IInv
<1> QED BY <1>1, <1>2, <1>3, <1>4 DEF Awaited, Keyed

(* A call of atomicAddToAccount from a handler.                            *)
LEMMA StepAtomicAddToAccount ==
  ASSUME IInv, TypeOK', NEW t \in Teller, NEW x \in Transfer, NEW l \in Legs,
         queue[t] # <<>>, x = Head(queue[t]).id,
         Head(queue[t]).type \in {"TransferMoney", "GetResponse", "CompareSetResponse"},
         AtomicAddToAccount(t, x, l)
  PROVE  /\ IInv'
         /\ \A y \in Transfer : y # x => Stage(y)' = Stage(y)
         /\ listener'[x] = "GetResponse" /\ leg'[x] = l
         /\ ~DoneUnseen(x)' /\ (DoneUnseen(x) => Head(queue[t]) = Success(x))
<1> USE TellerAssumption
<1> DEFINE e == [type |-> "Get", id |-> x, account |-> LegAccount(x, l)]
<1>1. /\ t \in Context /\ BankDB \in Context /\ t # BankDB
      /\ Keyed(Head(queue[t]))
  BY TellerReceives DEF Context
<1>2. LegAccount(x, l) \in Account
  BY BankAssumption DEF LegAccount
<1>3. e \in Events /\ Keyed(e) /\ e.id = x /\ \A y : e # Success(y)
  <2>1. e \in [type : {"Get"}, id : Transfer, account : Account]
    BY <1>2
  <2>2. e \in Events
    BY <2>1 DEF Events
  <2> QED BY <2>2 DEF Keyed, Success
<1>4. /\ leg' = [leg EXCEPT ![x] = l]
      /\ listener' = [listener EXCEPT ![x] = "GetResponse"]
      /\ queue' = [queue EXCEPT ![t] = Tail(@), ![BankDB] = Append(@, e)]
  BY DEF AtomicAddToAccount, ConsumeAndSend
<1>5. leg \in [Transfer -> Legs] /\ listener \in [Transfer -> Listeners]
  BY DEF IInv, TypeOK
<1>6. Awaited(listener', leg', BankDB, e)
  BY <1>4, <1>5 DEF Awaited
<1> HIDE DEF e
<1>7. IInv' /\ Replaced(queue, queue', t, BankDB, e)
  BY <1>1, <1>3, <1>4, <1>5, <1>6, HandlerStep
<1>8. ~DoneUnseen(x)' /\ (DoneUnseen(x) => Head(queue[t]) = Success(x))
  BY <1>1, <1>3, <1>7, DoneAfterHandover
<1>9. ASSUME NEW y \in Transfer, y # x PROVE Stage(y)' = Stage(y)
  <2>1. DoneUnseen(y)' <=> DoneUnseen(y)
    BY <1>1, <1>3, <1>7, <1>9, DoneAfterHandover
  <2> QED BY <1>4, <1>5, <1>9, <2>1, StageFrame
<1> QED BY <1>4, <1>5, <1>7, <1>8, <1>9

LEMMA StepOnTransferMoney ==
  ASSUME IInv, TypeOK', NEW t \in Teller, OnTransferMoney(t)
  PROVE  IInv' /\ AbstractStep
<1> DEFINE h == Head(queue[t])
<1>1. /\ queue[t] # <<>> /\ h.type = "TransferMoney"
      /\ AtomicAddToAccount(t, h.id, "debit")
      /\ UNCHANGED <<accounts, opened>>
  BY DEF OnTransferMoney, Receives
<1>2. PICK x \in Transfer : x = h.id
  BY <1>1, TellerReceives
<1>3. listener[x] = "TransferMoney" /\ leg[x] = "debit"
  BY <1>1, <1>2, TellerReceives DEF IInv
<1>4. /\ IInv'
      /\ \A y \in Transfer : y # x => Stage(y)' = Stage(y)
      /\ listener'[x] = "GetResponse" /\ leg'[x] = "debit"
      /\ ~DoneUnseen(x)' /\ (DoneUnseen(x) => h = Success(x))
  BY <1>1, <1>2, StepAtomicAddToAccount DEF Legs
<1>5. Stage(x)' = Stage(x)
  BY <1>1, <1>3, <1>4 DEF Stage, Success
<1> QED BY <1>1, <1>4, <1>5, StutterStep

LEMMA StepOnGetResponse ==
  ASSUME IInv, TypeOK', NEW t \in Teller, OnGetResponse(t)
  PROVE  IInv' /\ AbstractStep
<1> USE TellerAssumption
<1> DEFINE h == Head(queue[t])
           e == [type |-> "CompareSet", id |-> h.id, account |-> LegAccount(h.id, leg[h.id]),
                 oldAmt |-> h.amt, amt |-> h.amt + LegAmt(h.id, leg[h.id])]
<1>1. queue[t] # <<>> /\ h.type = "GetResponse" /\ UNCHANGED <<accounts, opened, leg>>
  BY DEF OnGetResponse, Receives
<1>2. PICK x \in Transfer : x = h.id
  BY <1>1, TellerReceives
<1>3. /\ t \in Context /\ BankDB \in Context /\ t # BankDB
      /\ Keyed(h) /\ h \in Events /\ listener[x] = "GetResponse"
  BY <1>1, <1>2, TellerReceives DEF Context
<1>4. leg \in [Transfer -> Legs] /\ listener \in [Transfer -> Listeners]
  BY DEF IInv, TypeOK
<1>5. h.amt \in Int
  BY <1>1, <1>3 DEF Events
<1>6. LegAccount(x, leg[x]) \in Account /\ LegAmt(x, leg[x]) \in Int
  BY BankAssumption DEF LegAccount, LegAmt
<1>7. e \in Events /\ Keyed(e) /\ e.id = x /\ \A y : e # Success(y)
  <2>1. e \in [type : {"CompareSet"}, id : Transfer, account : Account, oldAmt : Int, amt : Int]
    BY <1>2, <1>5, <1>6
  <2>2. e \in Events
    BY <2>1 DEF Events
  <2> QED BY <1>2, <2>2 DEF Keyed, Success
<1>8. /\ listener' = [listener EXCEPT ![x] = "CompareSetResponse"]
      /\ queue' = [queue EXCEPT ![t] = Tail(@), ![BankDB] = Append(@, e)]
  BY <1>2 DEF OnGetResponse, ConsumeAndSend
<1>9. Awaited(listener', leg', BankDB, e)
  BY <1>1, <1>2, <1>4, <1>8 DEF Awaited
<1> HIDE DEF e
<1>10. IInv' /\ Replaced(queue, queue', t, BankDB, e)
  BY <1>1, <1>2, <1>3, <1>4, <1>7, <1>8, <1>9, HandlerStep
<1>11. ~DoneUnseen(x)' /\ ~DoneUnseen(x)
  <2>1. h # Success(x)
    BY <1>1 DEF Success
  <2> QED BY <1>2, <1>3, <1>7, <1>10, <2>1, DoneAfterHandover
<1>12. ASSUME NEW y \in Transfer PROVE Stage(y)' = Stage(y)
  <2>1. CASE y # x
    <3>1. DoneUnseen(y)' <=> DoneUnseen(y)
      BY <1>2, <1>3, <1>7, <1>10, <2>1, DoneAfterHandover
    <3> QED BY <1>1, <1>4, <1>8, <2>1, <3>1, StageFrame
  <2>2. CASE y = x
    BY <1>1, <1>3, <1>4, <1>8, <1>11, <2>2 DEF Stage
  <2> QED BY <2>1, <2>2
<1> QED BY <1>1, <1>10, <1>12, StutterStep

LEMMA StepOnCompareSetResponse ==
  ASSUME IInv, TypeOK', NEW t \in Teller, OnCompareSetResponse(t)
  PROVE  IInv' /\ AbstractStep
<1> USE TellerAssumption
<1> DEFINE h == Head(queue[t])
<1>1. /\ queue[t] # <<>> /\ h.type = "CompareSetResponse"
      /\ UNCHANGED <<accounts, opened>>
  BY DEF OnCompareSetResponse, Receives
<1>2. PICK x \in Transfer : x = h.id
  BY <1>1, TellerReceives
<1>3. /\ t \in Context /\ t = TellerOf[x] /\ listener[x] = "CompareSetResponse"
      /\ Keyed(h) /\ h \in Events /\ h \in Range(queue[t])
  BY <1>1, <1>2, TellerReceives
<1>4. leg \in [Transfer -> Legs] /\ listener \in [Transfer -> Listeners]
  BY DEF IInv, TypeOK
<1>5. h.success <=> DoneUnseen(x)
  <2>1. h \in [type : {"CompareSetResponse"}, id : Transfer, success : BOOLEAN]
    BY <1>1, <1>3 DEF Events
  <2>2. h.success <=> h = Success(x)
    <3>1. h = [type |-> "CompareSetResponse", id |-> x, success |-> h.success] /\ h.success \in BOOLEAN
      BY <1>2, <2>1
    <3>2. ASSUME h.success PROVE h = Success(x)
      <4>1. h.success = TRUE
        BY <3>1, <3>2
      <4> QED BY <3>1, <4>1 DEF Success
    <3>3. ASSUME h = Success(x) PROVE h.success
      BY <3>3 DEF Success
    <3> QED BY <3>2, <3>3
  <2>3. DoneUnseen(x) <=> Success(x) \in Range(queue[t])
    BY <1>3 DEF DoneUnseen, Success
  <2>4. DoneUnseen(x) => h = Success(x)
    <3>1. SUFFICES ASSUME NEW f \in Range(queue[t]), Keyed(f), f.id = h.id PROVE f = h
      BY <1>2, <2>3 DEF Success, Keyed
    <3>2. PICK i \in DOMAIN queue[t] : f = queue[t][i]
      BY DEF Range
    <3>3. PICK j \in DOMAIN queue[t] : h = queue[t][j]
      BY <1>3 DEF Range
    <3> QED BY <1>3, <3>1, <3>2, <3>3 DEF IInv, UniqueIds
  <2> QED BY <1>3, <2>2, <2>3, <2>4
<1>6. ASSUME NEW l \in Legs, AtomicAddToAccount(t, x, l)
      PROVE  /\ IInv'
             /\ \A y \in Transfer : y # x => Stage(y)' = Stage(y)
             /\ listener'[x] = "GetResponse" /\ leg'[x] = l /\ ~DoneUnseen(x)'
  BY <1>1, <1>2, <1>6, StepAtomicAddToAccount
<1>7. CASE ~h.success /\ Retry(t, x)
  <2>1. leg[x] \in Legs /\ AtomicAddToAccount(t, x, leg[x])
    BY <1>4, <1>7 DEF Retry
  <2>2. Stage(x)' = Stage(x)
    BY <1>3, <1>5, <1>6, <1>7, <2>1 DEF Stage
  <2> QED BY <1>1, <1>6, <2>1, <2>2, StutterStep
<1>8. CASE h.success /\ leg[x] = "debit" /\ AtomicAddToAccount(t, x, "credit")
  <2>1. "credit" \in Legs
    BY DEF Legs
  <2>2. Stage(x)' = Stage(x)
    BY <1>3, <1>5, <1>6, <1>8, <2>1 DEF Stage
  <2> QED BY <1>1, <1>6, <1>8, <2>1, <2>2, StutterStep
<1>9. CASE h.success /\ leg[x] = "credit" /\ TransferFinished(t, x)
  <2>1. /\ leg' = leg
        /\ listener' = [listener EXCEPT ![x] = "complete"]
        /\ queue' = [queue EXCEPT ![t] = Tail(@)]
    BY <1>9 DEF TransferFinished, Consume
  <2>2. IInv' /\ Removed(queue, queue', t)
    <3>1. ASSUME NEW y \in Transfer
          PROVE  \/ listener'[y] = listener[y] /\ leg'[y] = leg[y]
                 \/ Keyed(h) /\ y = h.id
      BY <1>2, <1>3, <1>4, <2>1
    <3>2. listener'[h.id] = "complete"
      BY <1>2, <1>4, <2>1
    <3> QED BY <1>1, <1>3, <2>1, <3>1, <3>2, DropStep
  <2>3. ASSUME NEW y \in Transfer, y # x PROVE Stage(y)' = Stage(y)
    <3>1. DoneUnseen(y)' <=> DoneUnseen(y)
      BY <1>2, <1>3, <2>2, <2>3, DoneAfterDrop
    <3> QED BY <1>4, <2>1, <2>3, <3>1, StageFrame
  <2>4. Stage(x) = "credited" /\ Stage(x)' = "complete"
    BY <1>3, <1>4, <1>5, <1>9, <2>1 DEF Stage
  <2>5. BK!Complete(x)
    BY <1>1, <2>3, <2>4 DEF BK!Complete
  <2> QED BY <2>2, <2>5 DEF AbstractStep, BK!Next
<1> QED BY <1>2, <1>7, <1>8, <1>9 DEF OnCompareSetResponse

LEMMA InvInit == Init => IInv /\ BK!Init
<1> SUFFICES ASSUME Init PROVE IInv /\ BK!Init
  OBVIOUS
<1> USE TellerAssumption
<1>1. \A c \in Context : queue[c] = <<>> /\ Range(queue[c]) = {}
  BY DEF Init, Range
<1>2. IInv
  BY <1>1, TypeInit DEF IInv, UniqueIds, AnswerComing, Init
<1>3. \A x \in Transfer : Stage(x) = "pending"
  <2>1. \A x \in Transfer : TellerOf[x] \in Context
    BY DEF Context
  <2> QED BY <1>1, <2>1 DEF Stage, DoneUnseen, Init
<1>4. BK!Init
  BY <1>3 DEF BK!Init, Init
<1> QED BY <1>2, <1>4

LEMMA InvStep == IInv /\ [Next]_vars => IInv' /\ AbstractStep
<1> SUFFICES ASSUME IInv, [Next]_vars PROVE IInv' /\ AbstractStep
  OBVIOUS
<1>1. TypeOK'
  BY TypeStep DEF IInv
<1>2. CASE UNCHANGED vars
  <2>1. IInv'
    BY <1>1, <1>2 DEF IInv, UniqueIds, AnswerComing, vars
  <2>2. \A x \in Transfer : Stage(x)' = Stage(x)
    BY <1>2 DEF Stage, DoneUnseen, vars
  <2> QED BY <1>2, <2>1, <2>2, StutterStep DEF vars
<1>3. CASE Next
  BY <1>1, <1>3, StepSendSetupAccount, StepSendTransferMoney, StepDbSetupAccount, StepDbGet,
     StepDbCompareSet, StepOnTransferMoney, StepOnGetResponse, StepOnCompareSetResponse
     DEF Next, DbStep, TellerStep
<1> QED BY <1>2, <1>3

(* However many transfers, tellers and accounts there are and however they *)
(* compete, the compare-and-swap bank behaves as Bank: every leg is added  *)
(* to its account once, on top of the balance of that moment.              *)
THEOREM Refinement == Spec => ImplementsBank
<1>1. IInv /\ [Next]_vars => [BK!Next]_(BK!vars)
  BY InvStep DEF AbstractStep
<1>2. IInv /\ [Next]_vars => IInv'
  BY InvStep
<1> QED BY <1>1, <1>2, InvInit, PTL DEF Spec, ImplementsBank, BK!Spec

-----------------------------------------------------------------------------
(* What Bank_proofs says of Bank holds for the bank that implements it.    *)
P == INSTANCE Bank_proofs WITH stage <- [x \in Transfer |-> Stage(x)]

LEMMA SameBank == BK!Spec => P!Spec
<1>1. BK!Init => P!Init
  BY DEF BK!Init, P!Init
<1>2. \A s \in Setup : BK!OpenAccount(s) => P!OpenAccount(s)
  BY DEF BK!OpenAccount, P!OpenAccount, BK!WithEntry, P!WithEntry
<1>3. \A x \in Transfer : BK!Debit(x) => P!Debit(x)
  BY DEF BK!Debit, P!Debit, BK!AddToAccount, P!AddToAccount,
         BK!LegAccount, P!LegAccount, BK!LegAmt, P!LegAmt
<1>4. \A x \in Transfer : BK!Credit(x) => P!Credit(x)
  BY DEF BK!Credit, P!Credit, BK!AddToAccount, P!AddToAccount,
         BK!LegAccount, P!LegAccount, BK!LegAmt, P!LegAmt
<1>5. \A x \in Transfer : BK!Complete(x) => P!Complete(x)
  BY DEF BK!Complete, P!Complete
<1>6. [BK!Next]_(BK!vars) => [P!Next]_(P!vars)
  BY <1>2, <1>3, <1>4, <1>5 DEF BK!Next, P!Next, BK!vars, P!vars
<1> QED BY <1>1, <1>6, PTL DEF BK!Spec, P!Spec

LEMMA SameConservation == P!Conservation => Conservation
  BY DEF P!Conservation, Conservation, BK!Conservation, P!TotalOf, BK!TotalOf,
         P!InTransit, BK!InTransit, P!MapThenSumSet, BK!MapThenSumSet,
         P!MapThenFoldSet, BK!MapThenFoldSet

(* In every state the balances and the money between the two legs of some  *)
(* transfer add up to what the accounts were set up with, whatever tellers *)
(* compete and retry.                                                      *)
THEOREM MoneyConserved == Spec => []Conservation
<1>1. P!Spec => []P!Conservation
  BY BankAssumption, P!MoneyConserved
<1> QED BY <1>1, Refinement, SameBank, SameConservation, PTL DEF ImplementsBank

-----------------------------------------------------------------------------
LEMMA EventOfTransfer ==
  ASSUME IInv, NEW x \in Transfer, NEW e \in InFlight(x)
  PROVE  /\ \A f \in InFlight(x) : f = e
         /\ e.type \in {"Get", "CompareSet", "TransferMoney", "GetResponse", "CompareSetResponse"}
         /\ e.type = "Get" => listener[x] = "GetResponse"
         /\ e.type = "CompareSet" => listener[x] = "CompareSetResponse"
         /\ e.type \notin {"Get", "CompareSet"} => listener[x] = e.type
<1>1. PICK c \in Context : e \in Range(queue[c])
  BY DEF InFlight
<1>2. Keyed(e) /\ e.id = x
  BY DEF InFlight, Keyed
<1>3. e \in Events /\ Awaited(listener, leg, c, e)
  BY <1>1, QueueFacts DEF IInv, TypeOK, Range
<1>4. e.type \in {"Get", "CompareSet", "TransferMoney", "GetResponse", "CompareSetResponse"}
  BY <1>2, <1>3 DEF Events, Keyed
<1>5. ASSUME NEW f \in InFlight(x) PROVE f = e
  <2>1. PICK d \in Context : f \in Range(queue[d]) /\ Keyed(f) /\ f.id = x
    BY DEF InFlight, Keyed
  <2>2. PICK i \in DOMAIN queue[c] : e = queue[c][i]
    BY <1>1 DEF Range
  <2>3. PICK j \in DOMAIN queue[d] : f = queue[d][j]
    BY <2>1 DEF Range
  <2> QED BY <1>2, <2>1, <2>2, <2>3 DEF IInv, UniqueIds
<1> QED BY <1>2, <1>3, <1>4, <1>5 DEF Awaited

LEMMA ExchangeFromInv == IInv => OneExchange
<1> SUFFICES ASSUME IInv, NEW x \in Transfer
             PROVE  LET types == {event.type : event \in InFlight(x)} IN
                    CASE listener[x] \in {"unsent", "complete"} -> types = {}
                      [] listener[x] = "TransferMoney" -> types = {"TransferMoney"}
                      [] listener[x] = "GetResponse" -> types \in {{"Get"}, {"GetResponse"}, {}}
                      [] listener[x] = "CompareSetResponse" ->
                           types \in {{"CompareSet"}, {"CompareSetResponse"}}
  BY DEF OneExchange
<1> DEFINE types == {event.type : event \in InFlight(x)}
<1>1. listener[x] \in Listeners
  BY DEF IInv, TypeOK
<1>2. CASE InFlight(x) = {}
  <2>1. listener[x] \notin {"TransferMoney", "CompareSetResponse"}
    BY <1>2 DEF IInv, AnswerComing, InFlight, Keyed
  <2> QED BY <1>1, <1>2, <2>1 DEF Listeners
<1>3. ASSUME NEW e \in InFlight(x)
      PROVE  CASE listener[x] \in {"unsent", "complete"} -> types = {}
               [] listener[x] = "TransferMoney" -> types = {"TransferMoney"}
               [] listener[x] = "GetResponse" -> types \in {{"Get"}, {"GetResponse"}, {}}
               [] listener[x] = "CompareSetResponse" ->
                    types \in {{"CompareSet"}, {"CompareSetResponse"}}
  <2>1. types = {e.type}
    BY EventOfTransfer
  <2> HIDE DEF types
  <2> QED BY <1>1, <2>1, EventOfTransfer DEF Listeners
<1> QED BY <1>2, <1>3

(* In every state of any transfers, no money is made or lost, and every    *)
(* transfer that is under way has exactly one request or answer in flight, *)
(* the one its listener waits for, or none if its account is not set up.   *)
THEOREM TransfersAlwaysSafe == Spec => []TransfersSafe
<1>1. Spec => []IInv
  BY InvInit, InvStep, PTL DEF Spec
<1> QED BY <1>1, ExchangeFromInv, MoneyConserved, PTL DEF TransfersSafe
=============================================================================
