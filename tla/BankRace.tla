------------------------------ MODULE BankRace ------------------------------
(***************************************************************************)
(* epl/concurrency-theory/Bank-race.mon: tellers get both balances of a    *)
(* transfer and set both, and nothing keeps another transfer from doing    *)
(* the same in between.                                                    *)
(***************************************************************************)
EXTENDS BankRounds, FiniteSetsExt

vars == <<accounts, queue, sending, round, heard, unsent, opened>>

Next ==
  \/ CustomerStep
  \/ DbStep
  \/ \E t \in Teller : TellerStep(t)

Fairness == WF_vars(DbStep) /\ \A t \in Teller : WF_vars(TellerStep(t))

Spec == Init /\ [][Next]_vars /\ Fairness

-----------------------------------------------------------------------------
LegsDone(a) == {p \in Transfer \X Legs : LegAccount(p[1], p[2]) = a /\ Answered("Set", p[1], p[2])}

Sum(legs) == MapThenSumSet(LAMBDA p : LegAmt(p[1], p[2]), legs)

(* A race loses updates and does nothing else: a balance is always what    *)
(* the account was set up with plus the amounts of some of the transfers   *)
(* that have been done on it, each counted once; and once there are any,   *)
(* at least one of them is kept.                                           *)
LostNeverInvented ==
  \A a \in DOMAIN accounts :
    \E legs \in SUBSET LegsDone(a) :
      /\ accounts[a] = opened[a] + Sum(legs)
      /\ LegsDone(a) # {} => legs # {}
=============================================================================
