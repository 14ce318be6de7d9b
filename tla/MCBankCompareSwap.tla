-------------------------- MODULE MCBankCompareSwap --------------------------
(* The two tellers of BankTeller.onload and three transfers: x1 and x2     *)
(* compete for both accounts from different tellers, x2 and x3 are worked  *)
(* on by the same teller at the same time, and x3 pays into an account     *)
(* that is never set up.  Account a is set up twice.                       *)
EXTENDS BankCompareSwap

CONSTANTS a, b, c, teller1, teller2, x1, x2, x3

MCAccount == {a, b, c}
MCTeller == {teller1, teller2}
MCTransfer == {x1, x2, x3}
MCTellerOf == [x \in MCTransfer |-> IF x = x1 THEN teller1 ELSE teller2]
MCFrom == [x \in MCTransfer |-> IF x = x2 THEN b ELSE a]
MCTo == [x \in MCTransfer |-> CASE x = x1 -> b [] x = x2 -> a [] x = x3 -> c]
MCAmt == [x \in MCTransfer |-> IF x = x1 THEN 50 ELSE 25]
MCSetup == {[account |-> a, amt |-> 100], [account |-> a, amt |-> 70],
            [account |-> b, amt |-> 100]}
=============================================================================
