------------------------------ MODULE AlertLedger ------------------------------
(***************************************************************************)
(* What alert_state promises of each CAT I item, whoever works on it: a    *)
(* firing is opened at most once per TTL, and once open it is settled at   *)
(* most once, in one of three ways.  An item may be spoiled, by a claim    *)
(* that was thrown away: the first promise still holds of it, the second   *)
(* no more.  Alerting implements this.                                     *)
(***************************************************************************)
EXTENDS Integers

CONSTANTS Items, TTL

VARIABLES
  now,
  fired,     \* when each item was last fired; -1 if it never was
  fate,      \* what became of that firing: {} while it is open
  spoiled

Fates == {"suppressed", "delivered", "dlx"}

Init == /\ now = 0
        /\ fired = [i \in Items |-> -1]
        /\ fate = [i \in Items |-> {}]
        /\ spoiled = {}

Fire(i) ==
  /\ fired[i] = -1 \/ fired[i] + TTL <= now
  /\ fired' = [fired EXCEPT ![i] = now]
  /\ fate' = [fate EXCEPT ![i] = {}]
  /\ UNCHANGED <<now, spoiled>>

Settle(i, f) ==
  /\ fired[i] # -1 /\ fate[i] = {}
  /\ fate' = [fate EXCEPT ![i] = {f}]
  /\ UNCHANGED <<now, fired, spoiled>>

Spoil(i) ==
  /\ spoiled' = spoiled \union {i}
  /\ UNCHANGED <<now, fired, fate>>

(* A firing of a spoiled item may be given a fate that is not its own.     *)
Stray(i, f) ==
  /\ i \in spoiled /\ fired[i] # -1
  /\ fate' = [fate EXCEPT ![i] = @ \union {f}]
  /\ UNCHANGED <<now, fired, spoiled>>

Tick == now' = now + 1 /\ UNCHANGED <<fired, fate, spoiled>>

Next == \/ \E i \in Items : Fire(i) \/ Spoil(i)
        \/ \E i \in Items, f \in Fates : Settle(i, f) \/ Stray(i, f)
        \/ Tick

Spec == Init /\ [][Next]_<<now, fired, fate, spoiled>>
=============================================================================
