--------------------------------- MODULE Mail ---------------------------------
(***************************************************************************)
(* What the broker owes its queues, whoever publishes, consumes or replays:*)
(* a publish puts a copy of the event into every queue bound to its key or *)
(* into none, and each copy is settled at most once.  Until the topology   *)
(* is built, once and for all, a publish may reach some of the queues only *)
(* and copies may be thrown away with a queue.  Bus implements this.       *)
(***************************************************************************)
EXTENDS Integers

CONSTANTS Events, Queues, Bound(_)

VARIABLES
  owed,     \* of each queue and event, the copies that are not settled
  building  \* whether the topology is still to be built

Init ==
  /\ owed = [q \in Queues |-> [e \in Events |-> 0]]
  /\ building \in BOOLEAN

(* One more copy of each event in each queue of copies, a set of pairs.    *)
Add(copies) ==
  owed' = [q \in Queues |-> [e \in Events |->
             owed[q][e] + IF <<q, e>> \in copies THEN 1 ELSE 0]]

Copies(es) == {c \in Queues \X es : c[1] \in Bound(c[2])}

Route(es) == Add(Copies(es))

RoutePart == building /\ \E copies \in SUBSET Copies(Events) : Add(copies)

Settle(q, e) == /\ owed[q][e] > 0
                /\ owed' = [owed EXCEPT ![q][e] = @ - 1]

Lose == /\ building
        /\ owed' \in [Queues -> [Events -> Nat]]
        /\ \A q \in Queues, e \in Events : owed'[q][e] <= owed[q][e]

Next ==
  /\ building' => building
  /\ \/ \E es \in SUBSET Events : Route(es)
     \/ RoutePart
     \/ \E q \in Queues, e \in Events : Settle(q, e)
     \/ Lose
     \/ UNCHANGED owed

Spec == Init /\ [][Next]_<<owed, building>>
=============================================================================
