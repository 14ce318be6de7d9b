--------------------------- MODULE DenialOfService ---------------------------
(***************************************************************************)
(* epl/dos/dos.mon: a monitor that spawns a PingChecker for each source of *)
(* pings, which counts them in intervals of a second.                      *)
(*                                                                         *)
(* A second is Interval units of time.  What happens within a unit is in   *)
(* any order: a ping may come before or after the end of an interval.      *)
(***************************************************************************)
EXTENDS Integers, Sequences, SequencesExt, FiniteSets

CONSTANTS
  Source, NoSource,
  maxPings,             \* 10 in the code
  Interval,             \* units of time in a second
  MaxPerUnit            \* bounds the pings of a source in a unit

ASSUME DenialOfServiceAssumption ==
  NoSource \notin Source /\ maxPings \in Nat /\ Interval \in Nat \ {0}

VARIABLES
  pingers,              \* the sources the monitor has a checker for
  checkers,             \* the sources whose checker is alive
  count,                \* pingAlert.count of each checker
  untilCheck,           \* the time each checker has yet to wait
  routed,               \* the source of a routed NoPing, or NoSource
  pinged,               \* history: the pings of each source in each of the
                        \* last Interval units, the current one last
  since,                \* history: its pings since it was last checked
  alertAge              \* history: the time since its last alert, up to Interval

pingVars == <<pingers, checkers, count, untilCheck, routed, pinged, since, alertAge>>

PingsInit ==
  /\ pingers = {}
  /\ checkers = {}
  /\ count = [s \in Source |-> 0]
  /\ untilCheck = [s \in Source |-> 0]
  /\ routed = NoSource
  /\ pinged = [s \in Source |-> [unit \in 1..Interval |-> 0]]
  /\ since = [s \in Source |-> 0]
  /\ alertAge = [s \in Source |-> Interval]

Pinged(s) ==
  /\ pinged[s][Interval] < MaxPerUnit
  /\ pinged' = [pinged EXCEPT ![s][Interval] = @ + 1]
  /\ since' = [since EXCEPT ![s] = @ + 1]

\* A routed event is handled before any other.
NothingRouted == routed = NoSource

\* The first ping of a source: the monitor spawns its checker, with the
\* monitor's own pingAlert, which counts one.
FirstPing(s) ==
  /\ NothingRouted
  /\ s \notin pingers
  /\ pingers' = pingers \cup {s}
  /\ checkers' = checkers \cup {s}
  /\ count' = [count EXCEPT ![s] = 1]
  /\ untilCheck' = [untilCheck EXCEPT ![s] = Interval]
  /\ Pinged(s)
  /\ UNCHANGED <<routed, alertAge>>

\* Any other: the checker counts it, if there is one.
LaterPing(s) ==
  /\ NothingRouted
  /\ s \in pingers
  /\ count' = [count EXCEPT ![s] = IF s \in checkers THEN @ + 1 ELSE @]
  /\ Pinged(s)
  /\ UNCHANGED <<pingers, checkers, untilCheck, routed, alertAge>>

\* The end of an interval.
CheckDue(s) == NothingRouted /\ s \in checkers /\ untilCheck[s] = 0

NextInterval(s) ==
  /\ count' = [count EXCEPT ![s] = 0]
  /\ untilCheck' = [untilCheck EXCEPT ![s] = Interval]
  /\ since' = [since EXCEPT ![s] = 0]
  /\ UNCHANGED <<pingers, checkers, routed, pinged>>

CheckFewPings(s) ==
  /\ CheckDue(s)
  /\ count[s] \in 1..maxPings
  /\ NextInterval(s)
  /\ UNCHANGED alertAge

\* Mutant: the limit is that of the next interval as well.
CheckManyPingsDoubled(s) ==
  /\ CheckDue(s)
  /\ count[s] > maxPings
  /\ NextInterval(s)
  /\ alertAge' = IF count[s] > maxPings + 1 THEN [alertAge EXCEPT ![s] = 0]
                                            ELSE alertAge

CheckManyPings(s) ==
  /\ CheckDue(s)
  /\ count[s] > maxPings
  /\ NextInterval(s)
  /\ alertAge' = [alertAge EXCEPT ![s] = 0]

\* No ping in an interval: the checker routes a NoPing, and dies.
CheckNoPing(s) ==
  /\ CheckDue(s)
  /\ count[s] = 0
  /\ routed' = s
  /\ checkers' = checkers \ {s}
  /\ UNCHANGED <<pingers, count, untilCheck, pinged, since, alertAge>>

OnNoPing ==
  /\ ~NothingRouted
  /\ pingers' = pingers \ {routed}
  /\ routed' = NoSource
  /\ UNCHANGED <<checkers, count, untilCheck, pinged, since, alertAge>>

PassTime ==
  /\ NothingRouted
  /\ \A s \in checkers : untilCheck[s] > 0
  /\ untilCheck' = [s \in Source |-> IF s \in checkers THEN untilCheck[s] - 1
                                                       ELSE untilCheck[s]]
  /\ pinged' = [s \in Source |-> Append(Tail(pinged[s]), 0)]
  /\ alertAge' = [s \in Source |-> IF alertAge[s] < Interval THEN alertAge[s] + 1
                                                             ELSE alertAge[s]]
  /\ UNCHANGED <<pingers, checkers, count, routed, since>>

PingsNext ==
  \/ \E s \in Source :
       \/ FirstPing(s) \/ LaterPing(s)
       \/ CheckFewPings(s) \/ CheckManyPings(s) \/ CheckNoPing(s)
  \/ OnNoPing
  \/ PassTime

PingsSpec == PingsInit /\ [][PingsNext]_pingVars

-----------------------------------------------------------------------------
(* Properties.                                                             *)

\* Every ping is counted by the checker of its source, once, also when the
\* checker is just dying or has just been spawned.
EveryPingCounted ==
  \A s \in Source : since[s] = IF s \in checkers THEN count[s] ELSE 0

\* The intervals are fixed, and a second may lie across two of them: more than
\* maxPings pings in a second may go by without an alert, but not more than
\* twice as many.
BurstsAlerted ==
  \A s \in Source :
    FoldLeft(+, 0, pinged[s]) > 2 * maxPings =>
      count[s] > maxPings \/ alertAge[s] < Interval

\* No burst is overlooked, wherever the intervals cut it, whichever checker
\* dies or is born in it.
PingsAlerted == EveryPingCounted /\ BurstsAlerted
=============================================================================
