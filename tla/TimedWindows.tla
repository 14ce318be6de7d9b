----------------------------- MODULE TimedWindows -----------------------------
(***************************************************************************)
(* epl/timedwindows/timed.mon, for one symbol: an alert when the orders of *)
(* the last seconds are worth more than a threshold, which each alert      *)
(* raises.  Time is counted in clock ticks; an order is what it is worth,  *)
(* price times volume, which nothing keeps from being negative, and when   *)
(* it came.  Sums are exact.                                               *)
(***************************************************************************)
EXTENDS Integers, Sequences, SequencesExt, FiniteSets

CONSTANTS
  Worth,                \* what an order may be worth
  WINDOWSIZE,
  Step,                 \* 10000.0 in the code
  MaxThreshold,         \* bounds the alerts
  MaxOrders             \* bounds the orders of a window

ASSUME TimedWindowsAssumption ==
  Worth \subseteq Int /\ WINDOWSIZE \in Nat \ {0} /\ Step \in Nat

VARIABLES
  window,               \* the orders of the last WINDOWSIZE ticks: their worth,
                        \* and how many ticks ago they came
  threshold,
  alerted,              \* the totals that the last step alerted on
  leaving               \* history: the worths of the orders that left in it

orderVars == <<window, threshold, alerted, leaving>>

OrdersInit ==
  /\ window = <<>>
  /\ threshold = Step
  /\ alerted = {}
  /\ leaving = {}

Total(orders) == FoldLeft(LAMBDA sum, o : sum + o.worth, 0, orders)

\* Mutant: the threshold stays as it is.
CompareOnly(orders) ==
  /\ alerted' = (IF Total(orders) > threshold THEN {Total(orders)} ELSE {})
  /\ UNCHANGED threshold

\* The contents of the window have changed, and their total is compared.
CompareTotal(orders) ==
  IF Total(orders) > threshold
  THEN alerted' = {Total(orders)} /\ threshold' = Total(orders) + Step
  ELSE alerted' = {} /\ UNCHANGED threshold

\* watchForStock: an order arrives.
Order(worth) ==
  /\ threshold < MaxThreshold
  /\ Len(window) < MaxOrders
  /\ window' = Append(window, [worth |-> worth, age |-> 0])
  /\ leaving' = {}
  /\ CompareTotal(window')

\* Orders leave the window when they are WINDOWSIZE old, the oldest first.
Aged(o) == [o EXCEPT !.age = @ + 1]
Remaining ==
  LET older == [i \in DOMAIN window |-> Aged(window[i])]
      gone == Cardinality({i \in DOMAIN older : older[i].age >= WINDOWSIZE})
  IN SubSeq(older, gone + 1, Len(older))

ClockTick ==
  /\ window # <<>>
  /\ window' = Remaining
  /\ leaving' = {window[i].worth : i \in 1..(Len(window) - Len(window'))}
  /\ IF Len(window') < Len(window)
     THEN CompareTotal(window')
     ELSE alerted' = {} /\ UNCHANGED threshold

OrdersNext == (\E worth \in Worth : Order(worth)) \/ ClockTick

OrdersSpec == OrdersInit /\ [][OrdersNext]_orderVars

-----------------------------------------------------------------------------
(* Properties.                                                             *)

\* An alert comes when an order does.  When orders leave, the rest is compared
\* with a threshold that an alert may have raised since, and is never above it,
\* unless one of those that left was worth less than nothing.
AlertsOnArrival ==
  alerted # {} => \/ window # <<>> /\ Last(window).age = 0
                  \/ \E worth \in leaving : worth < 0
=============================================================================
