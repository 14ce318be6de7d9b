----------------------------- MODULE BankCommon -----------------------------
(***************************************************************************)
(* epl/concurrency-theory/BankCommon.mon: the events the customers send,   *)
(* shared by every bank of the sample.  Amounts are floats in the code and *)
(* integers here.                                                          *)
(***************************************************************************)
EXTENDS Integers

CONSTANTS
  Account,        \* account names
  Transfer,       \* the TransferMoney events that may be sent ...
  From, To, Amt,  \* ... and their fields
  Setup           \* the SetupAccount events that may be sent

ASSUME BankAssumption ==
  /\ From \in [Transfer -> Account]
  /\ To \in [Transfer -> Account]
  /\ Amt \in [Transfer -> Int]
  /\ Setup \subseteq [account : Account, amt : Int]

Legs == {"debit", "credit"}

LegAccount(x, l) == IF l = "debit" THEN From[x] ELSE To[x]

LegAmt(x, l) == IF l = "debit" THEN -Amt[x] ELSE Amt[x]

\* dictionary.add(k, v)
WithEntry(f, k, v) == [j \in DOMAIN f \cup {k} |-> IF j = k THEN v ELSE f[j]]
=============================================================================
