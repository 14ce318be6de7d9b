---------------------------- MODULE RateAggregate ----------------------------
(***************************************************************************)
(* application/monitoring/MonitoringAggregates.mon: the aggregate "rate",  *)
(* over a window as in ComponentMonitor.mon, which values enter as they    *)
(* arrive and leave in the order they came.                                *)
(***************************************************************************)
EXTENDS Integers, Sequences, SequencesExt

CONSTANTS
  Reading,              \* the values: counters of a component
  MaxWindow             \* bounds the values in the window

ASSUME RateAssumption == Reading \subseteq Int

VARIABLES
  data, last,           \* the aggregate's own
  readings,             \* the values in the window
  before                \* history: the value that left the window last, or 0

rateVars == <<data, last, readings, before>>

RateInit ==
  /\ data = <<>>
  /\ last = 0
  /\ readings = <<>>
  /\ before = 0

\* add
AddReading(f) ==
  /\ Len(readings) < MaxWindow
  /\ data' = Append(data, f - last)
  /\ last' = f
  /\ readings' = Append(readings, f)
  /\ UNCHANGED before

\* Mutant: the newest difference is removed.
RemoveNewest ==
  /\ readings # <<>>
  /\ data' = Front(data)
  /\ before' = Head(readings)
  /\ readings' = Tail(readings)
  /\ UNCHANGED last

\* remove
RemoveReading ==
  /\ readings # <<>>
  /\ data' = Tail(data)
  /\ before' = Head(readings)
  /\ readings' = Tail(readings)
  /\ UNCHANGED last

RateNext == (\E f \in Reading : AddReading(f)) \/ RemoveReading

RateSpec == RateInit /\ [][RateNext]_rateVars

-----------------------------------------------------------------------------
(* Properties.                                                             *)

\* The sum that value divides by the number of differences is how much the
\* readings have grown since the one before the window's oldest, also over a
\* window that was empty in between.  Before any reading has left, it is all
\* of the newest one: the rate is too high by the first reading.
RateIsGrowth ==
  readings # <<>> =>
    /\ Len(data) = Len(readings)
    /\ FoldLeft(+, 0, data) = Last(readings) - before
=============================================================================
