--------------------------- MODULE MCBankDeadlock ---------------------------
(* As in the sample's events, x1 and x2 transfer between the same accounts *)
(* in opposite directions, at different tellers.  x3 is the opposite of x2 *)
(* at the same teller.                                                     *)
EXTENDS BankDeadlock

CONSTANTS a, b, teller1, teller2, x1, x2, x3

MCAccount == {a, b}
MCTeller == {teller1, teller2}
MCTransfer == {x1, x2, x3}
MCTellerOf == [x \in MCTransfer |-> IF x = x1 THEN teller1 ELSE teller2]
MCAmt == [x \in MCTransfer |-> CASE x = x1 -> 50 [] x = x2 -> 25 [] x = x3 -> 7]
MCRounds == <<"Lock", "Get", "Set", "Unlock">>

MCFrom == [x \in MCTransfer |-> IF x = x2 THEN b ELSE a]
MCTo == [x \in MCTransfer |-> IF x = x2 THEN a ELSE b]
MCSetup == {[account |-> a, amt |-> 100], [account |-> b, amt |-> 100]}
=============================================================================
