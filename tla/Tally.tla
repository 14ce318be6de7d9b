-------------------------------- MODULE Tally --------------------------------
(***************************************************************************)
(* A number per place that counts who has passed there, each passer once.  *)
(***************************************************************************)
EXTENDS Naturals

CONSTANTS Passer, Place, PlaceOf

VARIABLES
  value,                \* the number at each place
  passed                \* the passers counted

Init ==
  /\ value = [p \in Place |-> 0]
  /\ passed = {}

Pass(u) ==
  /\ u \notin passed
  /\ passed' = passed \cup {u}
  /\ value' = [value EXCEPT ![PlaceOf[u]] = @ + 1]

Next == \E u \in Passer : Pass(u)

Spec == Init /\ [][Next]_<<value, passed>>
=============================================================================
