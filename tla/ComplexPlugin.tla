---------------------------- MODULE ComplexPlugin ----------------------------
(***************************************************************************)
(* correlator_plugin/cpp/complex_plugin.cpp: the calls that compute with a *)
(* list.                                                                   *)
(*                                                                         *)
(* Integers are those of -Half .. Half - 1.  A sum that overflows, which   *)
(* C++ leaves undefined, wraps around as it does on the usual machines.    *)
(* Floats are exact here: a list of floats is one of integers, and         *)
(* getFloatStd gives the numerator and denominator of its result's square. *)
(***************************************************************************)
EXTENDS Integers, Sequences, SequencesExt

CONSTANTS
  Half,                 \* 2^63 in the code
  Values,               \* the integers of lists
  MaxList               \* bounds the length of a list

ASSUME ComplexPluginAssumption ==
  Half \in Nat \ {0} /\ Values \subseteq Int /\ MaxList \in 0..Half

VARIABLES
  list,                 \* the argument of a call
  result                \* of the call, or <<>>

callVars == <<list, result>>

Unsigned(x) == x % (2 * Half)
Signed(x) == IF Unsigned(x) < Half THEN Unsigned(x) ELSE Unsigned(x) - 2 * Half

Square(x) == x * x
Cube(x) == x * x * x

ListSum(l) == FoldLeft(+, 0, l)

\* Mutant: the list is summed from its second element on.
getIntAvgFromSecond(l) ==
  IF l = <<>> THEN 0
  ELSE Signed(Unsigned(FoldLeft(LAMBDA s, x : Signed(s + x), 0, Tail(l))) \div Len(l))

\* size() is unsigned, and makes the sum unsigned before it is divided.
getIntAvg(l) ==
  IF l = <<>> THEN 0
  ELSE Signed(Unsigned(FoldLeft(LAMBDA s, x : Signed(s + x), 0, l)) \div Len(l))

\* The mean is sum / n, and the mean square of the deviations from it
\* is that of (n * x - sum), divided by n^2.
Deviations(l, n, sum) == FoldLeft(LAMBDA s, x : s + Square(n * x - sum), 0, l)

getFloatStd(l) ==
  IF l = <<>> THEN <<0, 1>>
  ELSE <<Deviations(l, Len(l), ListSum(l)), Cube(Len(l))>>

\* The booleans are the signs of integers.
getBoolAnd(l) ==
  IF l = <<>> THEN FALSE
  ELSE FoldLeft(LAMBDA b, x : b /\ x >= 0, l[1] >= 0, Tail(l))

ComplexInit ==
  /\ list \in BoundedSeq(Values, MaxList)
  /\ result = <<>>

CallPlugin ==
  /\ result = <<>>
  /\ result' = [intAvg |-> getIntAvg(list), floatStd |-> getFloatStd(list),
                boolAnd |-> getBoolAnd(list)]
  /\ UNCHANGED list

ComplexSpec == ComplexInit /\ [][CallPlugin]_callVars

-----------------------------------------------------------------------------
(* Properties.                                                             *)

Truncated(x, n) == IF x >= 0 THEN x \div n ELSE -((-x) \div n)

Average(l) == IF l = <<>> THEN 0 ELSE Truncated(ListSum(l), Len(l))

SumFits(l) == ListSum(l) \in -Half..(Half - 1)

\* Of the lists whose sum is an integer that is not negative, and of those with
\* one element, getIntAvg gives the average, truncated; also when the sum of
\* their first elements is negative or overflows.
IntAvgTruncated ==
  result # <<>> /\ SumFits(list) /\ (ListSum(list) >= 0 \/ Len(list) = 1) =>
    result.intAvg = Average(list)

\* "average of integer values" (complex_plugin.cpp:6), whatever their signs.
IntAvgIsAverage ==
  result # <<>> /\ SumFits(list) => result.intAvg = Average(list)

\* getFloatStd is the standard deviation: its square is the mean of the squares
\* less the square of the mean.  getBoolAnd is true of a list of truths that is
\* not empty.
StdAndConjunction ==
  result # <<>> =>
    LET n == Len(list)
        squares == FoldLeft(LAMBDA s, x : s + Square(x), 0, list)
    IN /\ result.boolAnd <=> n > 0 /\ \A i \in 1..n : list[i] >= 0
       /\ n > 0 => result.floatStd = <<n * (n * squares - Square(ListSum(list))), Cube(n)>>

\* What the calls compute of a list, but for the average when the sum is
\* negative.
ListResults == IntAvgTruncated /\ StdAndConjunction
=============================================================================
