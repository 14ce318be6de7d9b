------------------------------ MODULE MCUpgrader ------------------------------
(***************************************************************************)
(* The two versions of the sample, three Create events of which two give   *)
(* the same name, and two Process events.                                  *)
(***************************************************************************)
EXTENDS Upgrader, TLC

CONSTANTS c1, c2, c3, n1, n2

MCCreation == {c1, c2, c3}
MCName == {n1, n2}
MCNameOf == c1 :> n1 @@ c2 :> n2 @@ c3 :> n2
MCVersion == {1, 2}
=============================================================================
