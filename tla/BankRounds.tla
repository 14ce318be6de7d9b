----------------------------- MODULE BankRounds -----------------------------
(***************************************************************************)
(* What Bank-race.mon and Bank-deadlock.mon of epl/concurrency-theory have *)
(* in common.  Their tellers work in rounds: a handler sends a request for *)
(* the source account and then one for the target account, and an          *)
(* "on R(id=..) and R(id=..)" listener runs the next handler when both     *)
(* have been answered.  Bank-race has the rounds Get and Set,              *)
(* Bank-deadlock puts a round Lock before them and a round Unlock after.   *)
(*                                                                         *)
(* The unique id of a request is the pair <<transfer, leg>>.               *)
(***************************************************************************)
EXTENDS BankCommon, Sequences, SequencesExt

CONSTANTS
  Teller, BankDB,       \* the contexts
  TellerOf,             \* the teller a TransferMoney event is for
  Rounds                \* the requests of a transfer, in order

ASSUME TellerAssumption ==
  /\ TellerOf \in [Transfer -> Teller]
  /\ BankDB \notin Teller

ASSUME RoundsAssumption == Rounds \in {<<"Get", "Set">>, <<"Lock", "Get", "Set", "Unlock">>}

Context == Teller \cup {BankDB}

VARIABLES
  accounts,             \* BankDB.accounts
  queue, sending,       \* the contexts' input queues and running handlers
  round,                \* what the active listener of each transfer waits for
  heard,                \* the responses that listener has got, by leg
  unsent,               \* the SetupAccount events not sent yet
  opened                \* history: the amount each account was set up with

H == INSTANCE Handlers

customers == <<unsent, opened>>
tellers == <<round, heard>>

Nothing == [l \in {} |-> 0]

Awaits == {"unsent", "TransferMoney", "complete"} \cup Range(Rounds)

Response == [Get |-> "GetResponse", Set |-> "SetResponse",
             Lock |-> "LockResponse", Unlock |-> "UnlockResponse"]

Events ==
       [type : {"SetupAccount"}, setup : Setup]
  \cup [type : {"TransferMoney"}, id : Transfer]
  \cup [type : Range(Rounds), id : Transfer, leg : Legs, amt : Int]
  \cup [type : Range(Response), id : Transfer, leg : Legs, amt : Int]

TypeOK ==
  /\ DOMAIN opened \subseteq Account
  /\ opened \in [DOMAIN opened -> Int]
  /\ accounts \in [DOMAIN opened -> Int]
  /\ queue \in [Context -> Seq(Events)]
  /\ sending \in [Context -> Seq([to : Context, event : Events])]
  /\ round \in [Transfer -> Awaits]
  /\ \A x \in Transfer : DOMAIN heard[x] \subseteq Legs /\ heard[x] \in [DOMAIN heard[x] -> Int]
  /\ unsent \subseteq Setup

Init ==
  /\ accounts = Nothing
  /\ opened = Nothing
  /\ queue = [c \in Context |-> <<>>]
  /\ sending = [c \in Context |-> <<>>]
  /\ round = [x \in Transfer |-> "unsent"]
  /\ heard = [x \in Transfer |-> Nothing]
  /\ unsent = Setup

-----------------------------------------------------------------------------
(* The customers' side.                                                    *)

SendSetupAccount(s) ==
  /\ s \in unsent
  /\ unsent' = unsent \ {s}
  /\ H!Send(BankDB, [type |-> "SetupAccount", setup |-> s])
  /\ UNCHANGED <<accounts, sending, tellers, opened>>

SendTransferMoney(x) ==
  /\ round[x] = "unsent"
  /\ round' = [round EXCEPT ![x] = "TransferMoney"]
  /\ H!Send(TellerOf[x], [type |-> "TransferMoney", id |-> x])
  /\ UNCHANGED <<accounts, sending, heard, customers>>

-----------------------------------------------------------------------------
(* monitor BankDB                                                          *)

AccountOf(request) == LegAccount(request.id, request.leg)

Reply(request, amt) ==
  H!Addressed(TellerOf[request.id],
       [type |-> Response[request.type], id |-> request.id, leg |-> request.leg, amt |-> amt])

DbSetupAccount ==
  /\ H!Takes(BankDB, "SetupAccount")
  /\ LET setup == Head(queue[BankDB]).setup IN
       IF setup.account \in DOMAIN accounts
       THEN UNCHANGED <<accounts, opened>>
       ELSE /\ accounts' = WithEntry(accounts, setup.account, setup.amt)
            /\ opened' = WithEntry(opened, setup.account, setup.amt)
  /\ H!Handle(BankDB, <<>>)
  /\ UNCHANGED <<tellers, unsent>>

\* A Get of an account that is not set up is never answered.
DbGet ==
  /\ H!Takes(BankDB, "Get")
  /\ LET get == Head(queue[BankDB]) IN
       H!Handle(BankDB, IF AccountOf(get) \in DOMAIN accounts
                        THEN <<Reply(get, accounts[AccountOf(get)])>> ELSE <<>>)
  /\ UNCHANGED <<accounts, tellers, customers>>

\* accounts after a Set.  Mutant: the amount is added.
AccountsAdd(set) == [accounts EXCEPT ![AccountOf(set)] = @ + set.amt]

AccountsSet(set) == [accounts EXCEPT ![AccountOf(set)] = set.amt]

\* A Set is always answered.
DbSet ==
  /\ H!Takes(BankDB, "Set")
  /\ LET set == Head(queue[BankDB]) IN
       /\ accounts' = IF AccountOf(set) \in DOMAIN accounts THEN AccountsSet(set) ELSE accounts
       /\ H!Handle(BankDB, <<Reply(set, 0)>>)
  /\ UNCHANGED <<tellers, customers>>

-----------------------------------------------------------------------------
(* monitor BankTeller                                                      *)

\* The amounts of the two requests of a round: those of the two Sets are
\* computed from the responses to the two Gets, before the first is sent.
\* Mutant: each new balance is computed from the other account's.
AmtsSwapped(r, x, answers) ==
  [l \in Legs |->
     IF r = "Set" THEN answers[CHOOSE k \in Legs : k # l] + LegAmt(x, l) ELSE 0]

Amts(r, x, answers) ==
  [l \in Legs |-> IF r = "Set" THEN answers[l] + LegAmt(x, l) ELSE 0]

Request(r, x, l, answers) ==
  H!Addressed(BankDB, [type |-> r, id |-> x, leg |-> l, amt |-> Amts(r, x, answers)[l]])

Requests(r, x, answers) == <<Request(r, x, "debit", answers), Request(r, x, "credit", answers)>>

\* What follows a round, the event TransferMoney counting as the first.
After(r) ==
  LET all == <<"TransferMoney">> \o Rounds \o <<"complete">>
      i == CHOOSE j \in 1 .. Len(all) : all[j] = r
  IN all[i + 1]

\* The handler that ends one round of x and starts the next.
StartNextRound(t, x, answers) ==
  LET r == After(round[x]) IN
    /\ round' = [round EXCEPT ![x] = r]
    /\ heard' = [heard EXCEPT ![x] = Nothing]
    /\ H!Handle(t, IF r = "complete" THEN <<>> ELSE Requests(r, x, answers))

OnTransferMoney(t) ==
  /\ H!Takes(t, "TransferMoney")
  /\ StartNextRound(t, Head(queue[t]).id, Nothing)
  /\ UNCHANGED <<accounts, customers>>

\* An event that no listener waits for is dropped.
AwaitedBy(x, response) ==
  /\ round[x] \in Range(Rounds)
  /\ response.type = Response[round[x]]
  /\ response.leg \notin DOMAIN heard[x]

\* The "and" listener is triggered when both its parts have matched.
BothHeard(answers) == DOMAIN answers = Legs

OnResponse(t) ==
  /\ \E type \in Range(Response) : H!Takes(t, type)
  /\ LET response == Head(queue[t])
         x == response.id
         answers == WithEntry(heard[x], response.leg, response.amt)
     IN IF AwaitedBy(x, response) /\ BothHeard(answers)
        THEN StartNextRound(t, x, answers)
        ELSE /\ heard' = IF AwaitedBy(x, response) THEN [heard EXCEPT ![x] = answers] ELSE heard
             /\ H!Handle(t, <<>>)
             /\ UNCHANGED round
  /\ UNCHANGED <<accounts, customers>>

Continue(c) == H!SendNext(c) /\ UNCHANGED <<accounts, tellers, customers>>

-----------------------------------------------------------------------------
DbStep == DbSetupAccount \/ DbGet \/ DbSet \/ Continue(BankDB)

TellerStep(t) == OnTransferMoney(t) \/ OnResponse(t) \/ Continue(t)

CustomerStep ==
  \/ \E s \in Setup : SendSetupAccount(s)
  \/ \E x \in Transfer : SendTransferMoney(x)

-----------------------------------------------------------------------------
(* What the properties of both banks are stated with.                      *)

\* The events that have been sent or will be sent by a running handler.
InFlight(c) == Range(queue[c]) \cup {s.event : s \in Range(sending[c])}

Coming == UNION {InFlight(c) : c \in Context}

Matching(type, x, l) ==
  {e \in Coming : e.type = type /\ e.id = x /\ e.leg = l}

\* The database has answered the request of round r for leg l of x.
Answered(r, x, l) ==
  \/ round[x] = r /\ (l \in DOMAIN heard[x] \/ Matching(Response[r], x, l) # {})
  \/ \E i, j \in DOMAIN Rounds : i < j /\ Rounds[i] = r /\ Rounds[j] = round[x]
  \/ round[x] = "complete"

\* Where transfer x is in Bank: the Set requests are its two additions.
Stage(x) ==
  IF round[x] = "complete" THEN "complete"
  ELSE IF Answered("Set", x, "credit") THEN "credited"
  ELSE IF Answered("Set", x, "debit") THEN "debited"
  ELSE "pending"

BK == INSTANCE Bank WITH stage <- [x \in Transfer |-> Stage(x)]
=============================================================================
