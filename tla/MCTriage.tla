------------------------------- MODULE MCTriage -------------------------------
(* Instances of Triage for TLC. *)
EXTENDS Triage

CONSTANTS a, b, c

(* Either item is near itself only, or two are near each other as well.    *)
MCNear == {<<i, i>> : i \in Items}
MCNearBoth == MCNear \union ({a, b} \X {a, b})
=============================================================================
