------------------------------ MODULE MCAlerting ------------------------------
(* Instances of Alerting for TLC. *)
EXTENDS Alerting, TLC

CONSTANTS a, b, t1, t2

(* A verdict for one item and a SAB report that names it with another.     *)
MCRefs == (t1 :> {a}) @@ (t2 :> {a, b})

HandlerSymmetry == Permutations(Handlers)
=============================================================================
