--------------------------------- MODULE MCBus ---------------------------------
(* An instance of Bus for TLC: two handlers of the brief publish the same  *)
(* sab.published, which fans out to the alerting worker, and to q.notify,  *)
(* where nobody listens; the topology is the one of another version.       *)
EXTENDS Bus, TLC

CONSTANTS brief, alerting, t1, t2, a1, sab

MCProcOf == (t1 :> brief) @@ (t2 :> brief) @@ (a1 :> alerting)
MCKeyOf == sab :> "sab_published"
MCPublishes == (t1 :> {sab}) @@ (t2 :> {sab})
MCSubscription == a1 :> [key |-> "sab_published", queue |-> "q.alerting"]
MCOld == {"q.notify"}
=============================================================================
