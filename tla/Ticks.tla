-------------------------------- MODULE Ticks --------------------------------
(***************************************************************************)
(* epl/streams/streams.mon and epl/streams-having/streams-having.mon: two  *)
(* ways to alert when the mean price of the last ticks changes by more     *)
(* than a threshold.  The two run side by side on one sequence of ticks.   *)
(*                                                                         *)
(* A mean is kept as the sum and the number of the prices, which are       *)
(* integers; an alert as the two means that it gives the difference of.    *)
(* streams.mon computes with decimals and streams-having.mon with floats:  *)
(* either may round a change that is just the threshold to more than it or *)
(* to less, and they need not agree.  Any other change of a mean of small  *)
(* integers is far from the threshold.                                     *)
(***************************************************************************)
EXTENDS Integers, Sequences, SequencesExt

CONSTANTS
  Watched,              \* the symbols that streams.mon is written for
  Symbol,               \* the symbols of ticks
  Price,
  Retained,             \* 10 in the code
  THRESHOLD

ASSUME TicksAssumption ==
  /\ Watched \subseteq Symbol
  /\ Price \subseteq Int
  /\ Retained \in Nat \ {0} /\ THRESHOLD \in Nat \ {0}

VARIABLES
  averagesOf,           \* streams: the window of prices of each symbol
  previous,             \*          the average before the last one, or <<>>
  pricesOf,             \* streams-having: the window of prices of each symbol
  meansOf,              \*          the last two means of each symbol
  alert, havingAlert,   \* what the two send for the last tick
  ticked,               \* history: the symbol of the last tick, in a sequence
  ticksOf               \* history: the last Retained + 1 prices of each symbol

tickVars == <<averagesOf, previous, pricesOf, meansOf, alert, havingAlert, ticked, ticksOf>>

NoAlert == <<>>

TicksInit ==
  /\ averagesOf = [s \in Watched |-> <<>>]
  /\ previous = [s \in Watched |-> <<>>]
  /\ pricesOf = [s \in Symbol |-> <<>>]
  /\ meansOf = [s \in Symbol |-> <<>>]
  /\ alert = NoAlert
  /\ havingAlert = NoAlert
  /\ ticked = <<>>
  /\ ticksOf = [s \in Symbol |-> <<>>]

\* A window of the n last values, after one more value.
Retain(window, n, value) ==
  LET longer == Append(window, value)
  IN IF Len(longer) > n THEN Tail(longer) ELSE longer

Mean(window) == [sum |-> FoldLeft(LAMBDA x, y : x + y, 0, window), count |-> Len(window)]

\* By how much mean m is greater than mean n, and the threshold, both times the
\* same number.
Excess(m, n) == m.sum * n.count - n.sum * m.count
Limit(m, n) == THRESHOLD * (m.count * n.count)

Exceeds(m, n) == Excess(m, n) > Limit(m, n)
Differ(m, n) == Exceeds(m, n) \/ Exceeds(n, m)
MayDiffer(m, n) == Excess(m, n) >= Limit(m, n) \/ Excess(n, m) >= Limit(m, n)

\* The alerts that a change of the mean from n to m may make.
Alerts(s, n, m) ==
  {a \in {NoAlert, [symbol |-> s, from |-> n, to |-> m]} :
     /\ Differ(m, n) => a # NoAlert
     /\ a # NoAlert => MayDiffer(m, n)}

\* Mutant: an average is compared with the one of the last alert.
WatchForStockFromAlert(s, price) ==
  LET window == Retain(averagesOf[s], Retained, price)
      a == Mean(window)
  IN /\ averagesOf' = [averagesOf EXCEPT ![s] = window]
     /\ alert' \in IF previous[s] = <<>> THEN {NoAlert} ELSE Alerts(s, previous[s][1], a)
     /\ previous' = IF previous[s] = <<>> \/ alert' # NoAlert
                    THEN [previous EXCEPT ![s] = <<a>>] ELSE previous

\* streams.mon: averages, and previous, which is averages delayed by one.
\* Nothing joins the first average.
WatchForStock(s, price) ==
  LET window == Retain(averagesOf[s], Retained, price)
      a == Mean(window)
  IN /\ averagesOf' = [averagesOf EXCEPT ![s] = window]
     /\ previous' = [previous EXCEPT ![s] = <<a>>]
     /\ alert' \in IF previous[s] = <<>> THEN {NoAlert} ELSE Alerts(s, previous[s][1], a)

\* streams-having.mon: the last two means of each symbol.  There is but one
\* after the first tick, which is then both the first and the last.
HavingMeans(s, price) ==
  LET window == Retain(pricesOf[s], Retained, price)
      means == Retain(meansOf[s], 2, Mean(window))
  IN /\ pricesOf' = [pricesOf EXCEPT ![s] = window]
     /\ meansOf' = [meansOf EXCEPT ![s] = means]
     /\ havingAlert' \in Alerts(s, Head(means), Last(means))

Tick(s, price) ==
  /\ IF s \in Watched
     THEN WatchForStock(s, price)
     ELSE alert' = NoAlert /\ UNCHANGED <<averagesOf, previous>>
  /\ HavingMeans(s, price)
  /\ ticked' = <<s>>
  /\ ticksOf' = [ticksOf EXCEPT ![s] = Retain(@, Retained + 1, price)]

TicksNext == \E s \in Symbol, price \in Price : Tick(s, price)

TicksSpec == TicksInit /\ [][TicksNext]_tickVars

-----------------------------------------------------------------------------
(* Properties.                                                             *)

\* The mean of the last Retained prices, and the one of those before the last
\* tick.
MeanNow(h) == Mean(IF Len(h) > Retained THEN Tail(h) ELSE h)
MeanBefore(h) == Mean(Front(h))

\* What there is to send for the last tick of a symbol.
Changes(s) ==
  LET h == ticksOf[s]
  IN IF Len(h) > 1 THEN Alerts(s, MeanBefore(h), MeanNow(h)) ELSE {NoAlert}

\* Each sample alerts of a tick exactly when the mean of the symbol's last
\* prices has changed by more than the threshold since the tick before it, from
\* the second tick on, while the window fills and once it slides, and whatever
\* comes of other symbols in between; of a change that is just the threshold it
\* may.  streams.mon does so for the symbols that it is written for.
AlertsOnChange ==
  \A s \in Symbol : ticked = <<s>> =>
    /\ havingAlert \in Changes(s)
    /\ s \in Watched => alert \in Changes(s)
=============================================================================
