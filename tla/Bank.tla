-------------------------------- MODULE Bank --------------------------------
(***************************************************************************)
(* What the bank of epl/concurrency-theory promises its customers: an      *)
(* account is opened once, a transfer debits its source account once,      *)
(* then credits its target account once, each in one atomic addition to    *)
(* the balance the account has at that moment, and is reported complete    *)
(* only after both.                                                        *)
(*                                                                         *)
(* BankCompareSwap implements this specification with optimistic updates   *)
(* and BankDeadlock with locks.  BankRace does not implement it.           *)
(***************************************************************************)
EXTENDS BankCommon, FiniteSetsExt

VARIABLES
  accounts,       \* the dictionary of balances, one entry per open account
  stage,          \* how far each transfer has got
  opened          \* the amount each open account was set up with

vars == <<accounts, stage, opened>>

Stages == {"pending", "debited", "credited", "complete"}

TypeOK ==
  /\ DOMAIN opened \subseteq Account
  /\ opened \in [DOMAIN opened -> Int]
  /\ accounts \in [DOMAIN opened -> Int]
  /\ stage \in [Transfer -> Stages]

Init ==
  /\ accounts = [a \in {} |-> 0]
  /\ opened = [a \in {} |-> 0]
  /\ stage = [x \in Transfer |-> "pending"]

-----------------------------------------------------------------------------
OpenAccount(s) ==
  /\ s.account \notin DOMAIN accounts
  /\ accounts' = WithEntry(accounts, s.account, s.amt)
  /\ opened' = WithEntry(opened, s.account, s.amt)
  /\ UNCHANGED stage

AddToAccount(x, l) ==
  /\ LegAccount(x, l) \in DOMAIN accounts
  /\ accounts' = [accounts EXCEPT ![LegAccount(x, l)] = @ + LegAmt(x, l)]
  /\ UNCHANGED opened

Debit(x) ==
  /\ stage[x] = "pending"
  /\ stage' = [stage EXCEPT ![x] = "debited"]
  /\ AddToAccount(x, "debit")

Credit(x) ==
  /\ stage[x] = "debited"
  /\ stage' = [stage EXCEPT ![x] = "credited"]
  /\ AddToAccount(x, "credit")

Complete(x) ==
  /\ stage[x] = "credited"
  /\ stage' = [stage EXCEPT ![x] = "complete"]
  /\ UNCHANGED <<accounts, opened>>

Next ==
  \/ \E s \in Setup : OpenAccount(s)
  \/ \E x \in Transfer : Debit(x) \/ Credit(x) \/ Complete(x)

Spec == Init /\ [][Next]_vars

-----------------------------------------------------------------------------
InTransit == {x \in Transfer : stage[x] = "debited"}

TotalOf(f) == MapThenSumSet(LAMBDA a : f[a], DOMAIN f)

(* Money is neither created nor destroyed: what the accounts hold, plus    *)
(* what has been debited and is still to be credited, is what the accounts *)
(* were opened with (SendBalances between the two legs of a transfer shows *)
(* a total that is short by exactly the amounts in transit).               *)
Conservation ==
  TotalOf(accounts) + MapThenSumSet(LAMBDA x : Amt[x], InTransit) = TotalOf(opened)
=============================================================================
