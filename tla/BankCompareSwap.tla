--------------------------- MODULE BankCompareSwap ---------------------------
(***************************************************************************)
(* epl/concurrency-theory/Bank-compareswap.mon: a database context and a   *)
(* context per teller.  A teller changes a balance by Get, then            *)
(* CompareSet, and starts again when the CompareSet is refused.            *)
(*                                                                         *)
(* A teller works on any number of transfers at a time: each is a chain of *)
(* listeners, of which exactly one is active.  The unique ids the code     *)
(* puts on requests pair a response with that listener; here an event      *)
(* carries the transfer it belongs to.  Every handler sends at most one    *)
(* event, so a handler is one step.                                        *)
(***************************************************************************)
EXTENDS BankCommon, Sequences, Functions

CONSTANTS
  Teller, BankDB,       \* the contexts
  TellerOf              \* the teller a TransferMoney event is for

ASSUME TellerAssumption ==
  /\ TellerOf \in [Transfer -> Teller]
  /\ BankDB \notin Teller

Context == Teller \cup {BankDB}

VARIABLES
  accounts,             \* BankDB.accounts
  queue,                \* the contexts' input queues
  leg,                  \* which atomicAddToAccount a transfer is in
  listener,             \* the event its chain of listeners waits for
  unsent,               \* the SetupAccount events not sent yet
  opened                \* history: the amount each account was set up with

INSTANCE Contexts

vars == <<accounts, queue, leg, listener, unsent, opened>>

\* A listener is named after the event that triggers it.
Listeners == {"unsent", "TransferMoney", "GetResponse", "CompareSetResponse", "complete"}

Events ==
       [type : {"SetupAccount"}, setup : Setup]
  \cup [type : {"Get"}, id : Transfer, account : Account]
  \cup [type : {"CompareSet"}, id : Transfer, account : Account, oldAmt : Int, amt : Int]
  \cup [type : {"TransferMoney"}, id : Transfer]
  \cup [type : {"GetResponse"}, id : Transfer, amt : Int]
  \cup [type : {"CompareSetResponse"}, id : Transfer, success : BOOLEAN]

TypeOK ==
  /\ DOMAIN opened \subseteq Account
  /\ opened \in [DOMAIN opened -> Int]
  /\ accounts \in [DOMAIN opened -> Int]
  /\ queue \in [Context -> Seq(Events)]
  /\ leg \in [Transfer -> Legs]
  /\ listener \in [Transfer -> Listeners]
  /\ unsent \subseteq Setup

Init ==
  /\ accounts = [a \in {} |-> 0]
  /\ opened = [a \in {} |-> 0]
  /\ queue = [c \in Context |-> <<>>]
  /\ leg = [x \in Transfer |-> "debit"]
  /\ listener = [x \in Transfer |-> "unsent"]
  /\ unsent = Setup

-----------------------------------------------------------------------------
(* The customers' side: the events a .evt file or an adapter sends in.     *)

SendSetupAccount(s) ==
  /\ s \in unsent
  /\ unsent' = unsent \ {s}
  /\ Send(BankDB, [type |-> "SetupAccount", setup |-> s])
  /\ UNCHANGED <<accounts, leg, listener, opened>>

SendTransferMoney(x) ==
  /\ listener[x] = "unsent"
  /\ listener' = [listener EXCEPT ![x] = "TransferMoney"]
  /\ Send(TellerOf[x], [type |-> "TransferMoney", id |-> x])
  /\ UNCHANGED <<accounts, leg, unsent, opened>>

-----------------------------------------------------------------------------
(* monitor BankDB                                                          *)

DbSetupAccount ==
  /\ Receives(BankDB, "SetupAccount")
  /\ LET setup == Head(queue[BankDB]).setup IN
       IF setup.account \in DOMAIN accounts
       THEN UNCHANGED <<accounts, opened>>
       ELSE /\ accounts' = WithEntry(accounts, setup.account, setup.amt)
            /\ opened' = WithEntry(opened, setup.account, setup.amt)
  /\ Consume(BankDB)
  /\ UNCHANGED <<leg, listener, unsent>>

\* Mutant: dictionary.getOrAddDefault where the code tests hasKey.
DbGetOrAddDefault ==
  /\ Receives(BankDB, "Get")
  /\ LET get == Head(queue[BankDB]) IN
       /\ accounts' = IF get.account \in DOMAIN accounts THEN accounts
                      ELSE WithEntry(accounts, get.account, 0)
       /\ ConsumeAndSend(BankDB, TellerOf[get.id],
            [type |-> "GetResponse", id |-> get.id, amt |-> accounts'[get.account]])
  /\ UNCHANGED <<leg, listener, unsent, opened>>

\* A Get of an account that is not set up is never answered.
DbGet ==
  /\ Receives(BankDB, "Get")
  /\ LET get == Head(queue[BankDB]) IN
       IF get.account \in DOMAIN accounts
       THEN ConsumeAndSend(BankDB, TellerOf[get.id],
              [type |-> "GetResponse", id |-> get.id, amt |-> accounts[get.account]])
       ELSE Consume(BankDB)
  /\ UNCHANGED <<accounts, leg, listener, unsent, opened>>

\* Mutants: the balance is not compared; it is compared with what the
\* account was set up with.
MatchesAlways(set) == set.account \in DOMAIN accounts
MatchesOpening(set) == set.account \in DOMAIN accounts /\ opened[set.account] = set.oldAmt

Matches(set) == set.account \in DOMAIN accounts /\ accounts[set.account] = set.oldAmt

Answer(set, success) ==
  ConsumeAndSend(BankDB, TellerOf[set.id],
    [type |-> "CompareSetResponse", id |-> set.id, success |-> success])

DbCompareSet ==
  /\ Receives(BankDB, "CompareSet")
  /\ LET set == Head(queue[BankDB]) IN
       /\ accounts' = IF Matches(set) THEN [accounts EXCEPT ![set.account] = set.amt]
                      ELSE accounts
       /\ Answer(set, Matches(set))
  /\ UNCHANGED <<leg, listener, unsent, opened>>

-----------------------------------------------------------------------------
(* monitor BankTeller                                                      *)

\* The call atomicAddToAccount(act, amt, whenFinished, transfer), up to its
\* first listener.
AtomicAddToAccount(t, x, l) ==
  /\ leg' = [leg EXCEPT ![x] = l]
  /\ listener' = [listener EXCEPT ![x] = "GetResponse"]
  /\ ConsumeAndSend(t, BankDB, [type |-> "Get", id |-> x, account |-> LegAccount(x, l)])

OnTransferMoney(t) ==
  /\ Receives(t, "TransferMoney")
  /\ AtomicAddToAccount(t, Head(queue[t]).id, "debit")
  /\ UNCHANGED <<accounts, unsent, opened>>

OnGetResponse(t) ==
  /\ Receives(t, "GetResponse")
  /\ LET get == Head(queue[t])
         x == get.id IN
       /\ listener' = [listener EXCEPT ![x] = "CompareSetResponse"]
       /\ ConsumeAndSend(t, BankDB,
            [type |-> "CompareSet", id |-> x, account |-> LegAccount(x, leg[x]),
             oldAmt |-> get.amt, amt |-> get.amt + LegAmt(x, leg[x])])
  /\ UNCHANGED <<accounts, leg, unsent, opened>>

TransferFinished(t, x) ==
  /\ listener' = [listener EXCEPT ![x] = "complete"]
  /\ Consume(t)
  /\ UNCHANGED leg

\* Mutant: whatever was refused, the transfer starts again.
RetryTransfer(t, x) == AtomicAddToAccount(t, x, "debit")

Retry(t, x) == AtomicAddToAccount(t, x, leg[x])

\* whenFinished is transferCredit after the debit and transferFinished after
\* the credit; a refused CompareSet starts the same leg again.
OnCompareSetResponse(t) ==
  /\ Receives(t, "CompareSetResponse")
  /\ LET setResponse == Head(queue[t])
         x == setResponse.id IN
       \/ ~setResponse.success /\ Retry(t, x)
       \/ setResponse.success /\ leg[x] = "debit" /\ AtomicAddToAccount(t, x, "credit")
       \/ setResponse.success /\ leg[x] = "credit" /\ TransferFinished(t, x)
  /\ UNCHANGED <<accounts, unsent, opened>>

-----------------------------------------------------------------------------
DbStep == DbSetupAccount \/ DbGet \/ DbCompareSet

TellerStep(t) == OnTransferMoney(t) \/ OnGetResponse(t) \/ OnCompareSetResponse(t)

Next ==
  \/ \E s \in Setup : SendSetupAccount(s)
  \/ \E x \in Transfer : SendTransferMoney(x)
  \/ DbStep
  \/ \E t \in Teller : TellerStep(t)

(* A context whose queue is not empty is given a thread: each context's    *)
(* handlers are weakly fair.  Nobody has to send anything.                 *)
Fairness == WF_vars(DbStep) /\ \A t \in Teller : WF_vars(TellerStep(t))

Spec == Init /\ [][Next]_vars /\ Fairness

-----------------------------------------------------------------------------
(* Properties                                                              *)

\* The events in flight that belong to transfer x.
InFlight(x) ==
  {event \in UNION {Range(queue[c]) : c \in Context} :
     event.type # "SetupAccount" /\ event.id = x}

\* The compare-and-set of x's current leg has been done and the teller has
\* not been told yet.
DoneUnseen(x) ==
  [type |-> "CompareSetResponse", id |-> x, success |-> TRUE] \in Range(queue[TellerOf[x]])

\* Where transfer x is in Bank: a leg is done when the database does it.
Stage(x) ==
  IF listener[x] = "complete" THEN "complete"
  ELSE IF leg[x] = "debit" THEN (IF DoneUnseen(x) THEN "debited" ELSE "pending")
  ELSE (IF DoneUnseen(x) THEN "credited" ELSE "debited")

BK == INSTANCE Bank WITH stage <- [x \in Transfer |-> Stage(x)]

(* However transfers interleave and retry, each leg is added to its        *)
(* account exactly once, debit before credit, on top of the balance of     *)
(* that moment: no update is lost and none is applied twice.               *)
ImplementsBank == BK!Spec

\* Bank's invariant, of the code: balances and money in transit add up to
\* what the accounts were set up with.
Conservation == BK!Conservation

\* A teller's listener never waits while the answer it waits for is not on
\* its way, except for the answer to a Get of an account that is not set
\* up, and no answer arrives that no listener waits for.
OneExchange ==
  \A x \in Transfer :
    LET types == {event.type : event \in InFlight(x)} IN
    CASE listener[x] \in {"unsent", "complete"} -> types = {}
      [] listener[x] = "TransferMoney" -> types = {"TransferMoney"}
      [] listener[x] = "GetResponse" -> types \in {{"Get"}, {"GetResponse"}, {}}
      [] listener[x] = "CompareSetResponse" -> types \in {{"CompareSet"}, {"CompareSetResponse"}}

(* No money is made or lost, in any state of any transfers: what is not in *)
(* an account is in transit, and what is in transit has a request or an    *)
(* answer, exactly one, that takes it further.                             *)
TransfersSafe == Conservation /\ OneExchange

(* Retrying is lock-free: a transfer between accounts that are both set up *)
(* when it is sent is completed, whatever its competitors do.              *)
TransfersComplete ==
  \A x \in Transfer :
    (listener[x] = "TransferMoney" /\ {From[x], To[x]} \subseteq DOMAIN accounts)
      ~> (listener[x] = "complete")
=============================================================================
