------------------------------- MODULE Alerting -------------------------------
(***************************************************************************)
(* The CAT I alerting worker (apps/alerting) on its alert_state table.     *)
(*                                                                         *)
(* Two consumers are registered on q.alerting, each with prefetch 1, and   *)
(* share one handler, so up to two triggers are handled at once in one     *)
(* asyncio event loop.  A trigger is reduced to the CAT I items it names:  *)
(* one for a CAT I verdict.ready, none for any other verdict, any number   *)
(* for a sab.published.  For each item the handler claims the item's row,  *)
(* applies the two sliding-window caps, and then either leaves the alert   *)
(* for the digest or posts it, retrying, and dead-letters it at the end.   *)
(* The digest tick runs beside the handlers.                               *)
(*                                                                         *)
(* The event loop changes hands only at an await: a handler in one of the  *)
(* Synchronous phases runs alone.  Between two commits of a synchronous    *)
(* stretch the process can still die, so each commit is a step.            *)
(*                                                                         *)
(* The digest makes its two store calls in threads, on the handlers'       *)
(* connection.  A read ends in a rollback, and where that of the digest    *)
(* falls between a handler's statement and its commit, or a handler's      *)
(* between the digest's, the other's write is undone although its call     *)
(* returns as if it stood (StoreConnection shows how).  So a handler's     *)
(* write is a step with two outcomes, it stands or it is undone, and the   *)
(* digest's read is two steps, its SELECT and its rollback.                *)
(*                                                                         *)
(* An alert is a pair <<item, id>>, id numbering the winning claims of the *)
(* item: it stands for the uuid alert_id of each firing.  The dedupe       *)
(* id of a CAT I alert is a hash of the item id and "I", so the table has  *)
(* one row per item; alertId[i] = 0 is "no row yet".                       *)
(***************************************************************************)
EXTENDS Integers, FiniteSets

CONSTANTS
  Items,          \* item ids that carry a CAT I verdict
  Missing,        \* those whose item or enrichment row cannot be read back
  Triggers,       \* messages that reach q.alerting
  Refs,           \* Refs[t]: the CAT I items trigger t names
  Handlers,       \* handler tasks that can be active at once
  None,           \* no item held; no delivery tag (idle, or cut off)
  TTL,            \* dedupe.claim's ttl_seconds
  ShortWindow, ShortCap,   \* WINDOW_60S_SECONDS, WINDOW_60S_CAP
  LongWindow, LongCap,     \* WINDOW_10MIN_SECONDS, WINDOW_10MIN_CAP
  Attempts,       \* len(RETRY_SCHEDULE) + 1
  MaxClock,       \* bound on the clock
  MaxFaults       \* bound on crashes, broker drops, lost connections, undone writes

ASSUME ItemsAssumption    == IsFiniteSet(Items) /\ Missing \subseteq Items
ASSUME NoneAssumption     == None \notin Triggers \union Items
ASSUME RefsAssumption     == Refs \in [Triggers -> SUBSET Items]
ASSUME NumbersAssumption  ==
  /\ TTL \in Nat \ {0} /\ Attempts \in Nat \ {0}
  /\ ShortWindow \in Nat /\ LongWindow \in Nat
  /\ ShortCap \in Nat /\ LongCap \in Nat
  /\ MaxClock \in Nat /\ MaxFaults \in Nat
ASSUME WindowsAssumption  == ShortWindow <= TTL /\ LongWindow <= TTL

VARIABLES
  now,         \* the clock every NOW() reads
  (* infotriage.alert_state, by column; marks: which of suppressed,        *)
  (* digested_at, delivered_at and dlx_at are set.                         *)
  alertId, firedAt, marks,
  issued,      \* how many claims of each item a handler was told it won
  audit,       \* alerts with an alert_dead_lettered audit row
  trig,        \* where the broker has each trigger ("ready" also before it comes)
  (* Each handler task: its program counter, the trigger it will ack, the  *)
  (* items of it left to do, the alert it has claimed, the attempt it is on.*)
  phase, msg, todo, item, id, attempt,
  digest,      \* the digest task: its phase and the rows it read
  seen,        \* items whose outbox.dlx key is in this process's seen-set
  conn,        \* the worker's one database connection
  faults,      \* faults so far
  (* What has left the worker; read by no action, only by properties.      *)
  egress,      \* <<item, id, time>> that passed the throttle
  pushed,      \* alerts that reached the ntfy topic
  enumerated,  \* alerts listed in a digest that reached the topic
  outbox,      \* alerts whose payload is in outbox.dlx.queue
  orphaned,    \* alerts whose handler was cut off before it recorded a fate
  unclaimed,   \* alerts whose claim was undone
  unmarked     \* alerts of which a later write was undone

table   == <<alertId, firedAt, marks>>
held    == <<item, id, attempt>>
tasks   == <<phase, msg, todo, held>>
service == <<digest, seen, conn, faults>>
undone  == <<unclaimed, unmarked>>
outside == <<egress, pushed, enumerated, outbox, orphaned, undone>>
vars    == <<now, table, issued, audit, trig, tasks, service, outside>>

Time   == 0 .. MaxClock
Alerts == Items \X Nat
Marks  == {"suppressed", "digested", "delivered", "dlx"}

(* Phases in which the handler has a winning claim whose fate is open.     *)
Holding == {"claimed", "sending", "sent", "exhausted", "queued", "audited"}

(* Phases between two awaits: the handler has the event loop to itself.    *)
Synchronous == {"next", "claimed", "sent", "queued", "audited"}

Phases == Holding \union {"idle", "next"}

Holds(h)      == phase[h] \in Holding
HeldBy(h)     == <<item[h], id[h]>>
LoopFree(h)   == \A g \in Handlers \ {h} : phase[g] \notin Synchronous
AtPhase(h, p) == phase[h] = p /\ LoopFree(h)
Go(h, p)      == phase' = [phase EXCEPT ![h] = p]

(* An UPDATE of a row that is not there changes nothing.                   *)
Marked(i, m) == IF alertId[i] = 0 THEN marks
                ELSE [marks EXCEPT ![i] = @ \union {m}]

Pending(i)    == "suppressed" \in marks[i] /\ "digested" \notin marks[i]

Release(h) == /\ item' = [item EXCEPT ![h] = None]
              /\ id' = [id EXCEPT ![h] = 0]
              /\ attempt' = [attempt EXCEPT ![h] = 0]

Finish(h) == /\ Go(h, "idle")
             /\ msg' = [msg EXCEPT ![h] = None]
             /\ todo' = [todo EXCEPT ![h] = {}]
             /\ Release(h)

(* A value for every handler. *)
Everyone(v) == [h \in Handlers |-> v]

Asleep == [phase |-> "asleep", batch |-> {}]

Init ==
  /\ now = 0
  /\ alertId = [i \in Items |-> 0]
  /\ firedAt = [i \in Items |-> 0]
  /\ marks = [i \in Items |-> {}]
  /\ trig = [t \in Triggers |-> "ready"]
  /\ phase = Everyone("idle") /\ msg = Everyone(None) /\ todo = Everyone({})
  /\ item = Everyone(None) /\ id = Everyone(0) /\ attempt = Everyone(0)
  /\ issued = [i \in Items |-> 0]
  /\ digest = Asleep /\ seen = {} /\ conn = "open" /\ faults = 0
  /\ audit = {} /\ egress = {} /\ pushed = {} /\ enumerated = {}
  /\ outbox = {} /\ orphaned = {} /\ unclaimed = {} /\ unmarked = {}

-----------------------------------------------------------------------------
(* The clock and the broker.                                               *)

(* The claim and the window counts of one alert read the same instant, and *)
(* a delivery ends well before its claim expires: three 10 s requests and  *)
(* 6 s of sleep against a TTL of 86400 s.  (Of an alert whose claim was    *)
(* undone no row tells the age; nothing is asked of it.)                   *)
Tick ==
  /\ now < MaxClock
  /\ \A h \in Handlers :
       /\ phase[h] # "claimed"
       /\ Holds(h) /\ HeldBy(h) \notin unclaimed => now + 1 < firedAt[item[h]] + TTL
  /\ now' = now + 1
  /\ UNCHANGED <<table, issued, audit, trig, tasks, service, outside>>

Receive(h, t) ==
  /\ AtPhase(h, "idle")
  /\ trig[t] = "ready"
  /\ trig' = [trig EXCEPT ![t] = "unacked"]
  /\ Go(h, "next")
  /\ msg' = [msg EXCEPT ![h] = t]
  /\ todo' = [todo EXCEPT ![h] = Refs[t]]
  /\ UNCHANGED <<now, table, issued, audit, held, service, outside>>

(* Where trigger t ends up when handler h is done with it; a handler whose *)
(* channel was lost settles nothing.                                       *)
SettleTrigger(h, end) ==
  trig' = [t \in Triggers |-> IF t = msg[h] THEN end ELSE trig[t]]

(* Wrong variant: the loop over item_refs ends with its first item.        *)
AckAfterFirst(h) ==
  /\ AtPhase(h, "next")
  /\ msg[h] # None /\ todo[h] # Refs[msg[h]]
  /\ SettleTrigger(h, "acked")
  /\ Finish(h)
  /\ UNCHANGED <<now, table, issued, audit, service, outside>>

(* message.process() is left normally.                                     *)
Ack(h) ==
  /\ AtPhase(h, "next") /\ todo[h] = {}
  /\ SettleTrigger(h, "acked")
  /\ Finish(h)
  /\ UNCHANGED <<now, table, issued, audit, service, outside>>

-----------------------------------------------------------------------------
(* A write of a handler while the digest reads on the same connection.     *)

Fault == faults < MaxFaults /\ faults' = faults + 1

PendingIn(m) == {<<i, alertId[i]>> :
                   i \in {j \in Items : "suppressed" \in m[j] /\ "digested" \notin m[j]}}

(* The digest has read its rows and goes on with them.                     *)
Listed(batch) ==
  digest' = IF batch = {} THEN Asleep ELSE [phase |-> "posting", batch |-> batch]

(* The digest's rollback, between the statement of a handler's write and   *)
(* its commit.  Its SELECT came before that statement or, if the rollback  *)
(* alone was not yet due, sees the marks as the statement has left them.   *)
RolledBack(written) ==
  /\ Fault
  /\ \/ digest.phase = "listing" /\ Listed(digest.batch)
     \/ digest.phase = "asleep" /\ Listed(PendingIn(written))

(* mark_alert_suppressed and mark_alert_outcome.                           *)
Record(h, m) ==
  \/ marks' = Marked(item[h], m) /\ UNCHANGED <<digest, faults, unmarked>>
  \/ /\ RolledBack(Marked(item[h], m))
     /\ unmarked' = unmarked \union {HeldBy(h)}
     /\ UNCHANGED marks

-----------------------------------------------------------------------------
(* One item of a trigger: _emit_if_claimed.                                *)

(* Wrong variant: an upsert without its WHERE.                             *)
AlwaysClaimable(i) == TRUE

(* The INSERT .. ON CONFLICT .. WHERE of claim_alert takes the row.        *)
Claimable(i) == alertId[i] = 0 \/ firedAt[i] <= now - TTL

(* Wrong variant: a re-fire that does not reset the row.                   *)
WriteClaimOnly(i) ==
  /\ alertId' = [alertId EXCEPT ![i] = issued[i] + 1]
  /\ firedAt' = [firedAt EXCEPT ![i] = now]
  /\ UNCHANGED marks

WriteClaim(i) ==
  /\ alertId' = [alertId EXCEPT ![i] = issued[i] + 1]
  /\ firedAt' = [firedAt EXCEPT ![i] = now]
  /\ marks' = [marks EXCEPT ![i] = {}]

ClaimWon(h, i) ==
  /\ AtPhase(h, "next") /\ conn = "open"
  /\ i \in todo[h] /\ Claimable(i)
  /\ \/ WriteClaim(i) /\ UNCHANGED <<digest, faults, unclaimed>>
     \/ /\ RolledBack([marks EXCEPT ![i] = {}])
        /\ unclaimed' = unclaimed \union {<<i, issued[i] + 1>>}
        /\ UNCHANGED table
  /\ issued' = [issued EXCEPT ![i] = @ + 1]
  /\ Go(h, "claimed")
  /\ todo' = [todo EXCEPT ![h] = @ \ {i}]
  /\ item' = [item EXCEPT ![h] = i]
  /\ id' = [id EXCEPT ![h] = issued[i] + 1]
  /\ UNCHANGED <<now, audit, trig, msg, attempt, seen, conn,
                 egress, pushed, enumerated, outbox, orphaned, unmarked>>

ClaimLost(h, i) ==
  /\ AtPhase(h, "next") /\ conn = "open"
  /\ i \in todo[h] /\ ~Claimable(i)
  /\ todo' = [todo EXCEPT ![h] = @ \ {i}]
  /\ UNCHANGED <<now, table, issued, audit, trig, phase, msg, held, service, outside>>

(* get_item or get_enrichment is None: warned about and skipped.           *)
SkipMissing(h) ==
  /\ AtPhase(h, "claimed") /\ conn = "open"
  /\ item[h] \in Missing
  /\ Go(h, "next") /\ Release(h)
  /\ UNCHANGED <<now, table, issued, audit, trig, msg, todo, service, outside>>

InWindow(window) ==
  {i \in Items : /\ alertId[i] > 0 /\ "suppressed" \notin marks[i]
                 /\ firedAt[i] > now - window}

CountInWindow(window) == Cardinality(InWindow(window))

(* Wrong variant: caps compared as if the row just claimed were not counted. *)
WithinCapsOfOthers == /\ CountInWindow(ShortWindow) <= ShortCap + 1
                      /\ CountInWindow(LongWindow) <= LongCap + 1

WithinCaps == /\ CountInWindow(ShortWindow) <= ShortCap
              /\ CountInWindow(LongWindow) <= LongCap

PassThrottle(h) ==
  /\ AtPhase(h, "claimed") /\ conn = "open"
  /\ item[h] \notin Missing /\ WithinCaps
  /\ Go(h, "sending")
  /\ attempt' = [attempt EXCEPT ![h] = 1]
  /\ egress' = egress \union {<<item[h], id[h], now>>}
  /\ UNCHANGED <<now, table, issued, audit, trig, msg, todo, item, id, service,
                 pushed, enumerated, outbox, orphaned, undone>>

(* Wrong variants: the throttled alert is dropped, or marked and sent.     *)
SuppressSilently(h) ==
  /\ AtPhase(h, "claimed") /\ conn = "open"
  /\ item[h] \notin Missing /\ ~WithinCaps
  /\ Go(h, "next") /\ Release(h)
  /\ UNCHANGED <<now, table, issued, audit, trig, msg, todo, service, outside>>

SuppressAndSend(h) ==
  /\ AtPhase(h, "claimed") /\ conn = "open"
  /\ item[h] \notin Missing /\ ~WithinCaps
  /\ marks' = Marked(item[h], "suppressed")
  /\ Go(h, "sending")
  /\ attempt' = [attempt EXCEPT ![h] = 1]
  /\ UNCHANGED <<now, alertId, firedAt, issued, audit, trig, msg, todo, item, id,
                 service, outside>>

Suppress(h) ==
  /\ AtPhase(h, "claimed") /\ conn = "open"
  /\ item[h] \notin Missing /\ ~WithinCaps
  /\ Record(h, "suppressed")
  /\ Go(h, "next") /\ Release(h)
  /\ UNCHANGED <<now, alertId, firedAt, issued, audit, trig, msg, todo, seen, conn,
                 egress, pushed, enumerated, outbox, orphaned, unclaimed>>

-----------------------------------------------------------------------------
(* deliver_with_retry and dead_letter.                                     *)

DeliverOk(h) ==
  /\ AtPhase(h, "sending")
  /\ pushed' = pushed \union {HeldBy(h)}
  /\ Go(h, "sent")
  /\ UNCHANGED <<now, table, issued, audit, trig, msg, todo, held, service,
                 egress, enumerated, outbox, orphaned, undone>>

(* Wrong variant: the attempt is never compared with the schedule.         *)
DeliverFailsForEver(h) ==
  /\ AtPhase(h, "sending")
  /\ attempt' = [attempt EXCEPT ![h] = @ + 1]
  /\ UNCHANGED <<now, table, issued, audit, trig, phase, msg, todo, item, id, service,
                 outside>>

(* An error status or a transport error, raised whether or not the request *)
(* took effect at the server; retried after a sleep, or given up.          *)
DeliverFails(h) ==
  /\ AtPhase(h, "sending")
  /\ pushed' \in {pushed, pushed \union {HeldBy(h)}}
  /\ \/ /\ attempt[h] < Attempts
        /\ attempt' = [attempt EXCEPT ![h] = @ + 1]
        /\ UNCHANGED phase
     \/ /\ attempt[h] = Attempts
        /\ Go(h, "exhausted")
        /\ UNCHANGED attempt
  /\ UNCHANGED <<now, table, issued, audit, trig, msg, todo, item, id, service,
                 egress, enumerated, outbox, orphaned, undone>>

MarkDelivered(h) ==
  /\ AtPhase(h, "sent") /\ conn = "open"
  /\ Record(h, "delivered")
  /\ Go(h, "next") /\ Release(h)
  /\ UNCHANGED <<now, alertId, firedAt, issued, audit, trig, msg, todo, seen, conn,
                 egress, pushed, enumerated, outbox, orphaned, unclaimed>>

(* bus.publish("outbox.dlx", item_id, payload): a no-op for a key already  *)
(* in the process's seen-set.                                              *)
PublishDeadLetter(h) ==
  /\ AtPhase(h, "exhausted")
  /\ seen' = seen \union {item[h]}
  /\ outbox' = IF item[h] \in seen THEN outbox ELSE outbox \union {HeldBy(h)}
  /\ Go(h, "queued")
  /\ UNCHANGED <<now, table, issued, audit, trig, msg, todo, held, digest, conn, faults,
                 egress, pushed, enumerated, orphaned, undone>>

AuditDeadLetter(h) ==
  /\ AtPhase(h, "queued") /\ conn = "open"
  /\ \/ /\ audit' = audit \union {HeldBy(h)}
        /\ UNCHANGED <<digest, faults, unmarked>>
     \/ /\ RolledBack(marks)
        /\ unmarked' = unmarked \union {HeldBy(h)}
        /\ UNCHANGED audit
  /\ Go(h, "audited")
  /\ UNCHANGED <<now, table, issued, trig, msg, todo, held, seen, conn,
                 egress, pushed, enumerated, outbox, orphaned, unclaimed>>

MarkDeadLettered(h) ==
  /\ AtPhase(h, "audited") /\ conn = "open"
  /\ Record(h, "dlx")
  /\ Go(h, "next") /\ Release(h)
  /\ UNCHANGED <<now, alertId, firedAt, issued, audit, trig, msg, todo, seen, conn,
                 egress, pushed, enumerated, outbox, orphaned, unclaimed>>

-----------------------------------------------------------------------------
(* run_digest_tick: read in a thread, post, mark in a thread.  An error is *)
(* logged and the task sleeps until its next hour.                         *)

DigestRead ==
  /\ digest.phase = "asleep" /\ conn = "open"
  /\ digest' = [phase |-> "listing", batch |-> PendingIn(marks)]
  /\ UNCHANGED <<now, table, issued, audit, trig, tasks, seen, conn, faults, outside>>

DigestList ==
  /\ digest.phase = "listing"
  /\ Listed(IF conn = "open" THEN digest.batch ELSE {})
  /\ UNCHANGED <<now, table, issued, audit, trig, tasks, seen, conn, faults, outside>>

DigestPostOk ==
  /\ digest.phase = "posting"
  /\ digest' = [digest EXCEPT !.phase = "posted"]
  /\ enumerated' = enumerated \union digest.batch
  /\ UNCHANGED <<now, table, issued, audit, trig, tasks, seen, conn, faults,
                 egress, pushed, outbox, orphaned, undone>>

(* Wrong variants: rows are marked although the post failed, or never.     *)
DigestMarkAnyway ==
  /\ digest.phase = "posting"
  /\ digest' = [digest EXCEPT !.phase = "posted"]
  /\ UNCHANGED <<now, table, issued, audit, trig, tasks, seen, conn, faults, outside>>

DigestForgetsToMark ==
  /\ digest.phase = "posted"
  /\ digest' = Asleep
  /\ UNCHANGED <<now, table, issued, audit, trig, tasks, seen, conn, faults, outside>>

DigestPostFails ==
  /\ digest.phase = "posting"
  /\ digest' = Asleep
  /\ enumerated' \in {enumerated, enumerated \union digest.batch}
  /\ UNCHANGED <<now, table, issued, audit, trig, tasks, seen, conn, faults,
                 egress, pushed, outbox, orphaned, undone>>

(* mark_alerts_digested goes by dedupe id: it marks whatever firing the    *)
(* row holds by now.                                                       *)
InBatch(i) == conn = "open" /\ \E a \in digest.batch : a[1] = i

DigestMark ==
  /\ digest.phase = "posted"
  /\ marks' = [i \in Items |-> IF InBatch(i) THEN marks[i] \union {"digested"}
                                             ELSE marks[i]]
  /\ digest' = Asleep
  /\ UNCHANGED <<now, alertId, firedAt, issued, audit, trig, tasks, seen, conn,
                 faults, outside>>

(* A handler's get_item, get_enrichment or count ends in its rollback      *)
(* between the statement of mark_alerts_digested and its commit.           *)
DigestMarkUndone ==
  /\ digest.phase = "posted" /\ conn = "open"
  /\ \E h \in Handlers : phase[h] = "claimed"
  /\ Fault
  /\ digest' = Asleep
  /\ UNCHANGED <<now, table, issued, audit, trig, tasks, seen, conn, outside>>

-----------------------------------------------------------------------------
(* Failures.                                                               *)

(* An exception leaves message.process(): the trigger is nacked without    *)
(* requeue and goes to infotriage.dlq.                                     *)
Nack(h) ==
  /\ SettleTrigger(h, "dead")
  /\ Finish(h)
  /\ orphaned' = IF Holds(h) THEN orphaned \union {HeldBy(h)} ELSE orphaned

(* psycopg neither reconnects nor leaves a failed transaction by itself:   *)
(* once a statement has failed so does every later one, until a restart.   *)
LoseConnection ==
  /\ conn = "open" /\ conn' = "broken" /\ Fault
  /\ UNCHANGED <<now, table, issued, audit, trig, tasks, digest, seen, outside>>

StoreRaises(h) ==
  /\ conn = "broken"
  /\ \/ AtPhase(h, "next") /\ todo[h] # {}
     \/ \E p \in {"claimed", "sent", "queued", "audited"} : AtPhase(h, p)
  /\ Nack(h)
  /\ UNCHANGED <<now, table, issued, audit, service, egress, pushed, enumerated, outbox, undone>>

(* The broker refuses the dead letter, whose key has entered the seen-set. *)
PublishRaises(h) ==
  /\ AtPhase(h, "exhausted") /\ item[h] \notin seen
  /\ Fault
  /\ seen' = seen \union {item[h]}
  /\ Nack(h)
  /\ UNCHANGED <<now, table, issued, audit, digest, conn, egress, pushed, enumerated, outbox, undone>>

(* Wrong variant: what a lost channel held is never delivered again.       *)
RequeueNothing == UNCHANGED trig

Requeue == trig' = [t \in Triggers |-> IF trig[t] = "unacked" THEN "ready" ELSE trig[t]]

(* The AMQP connection drops and comes back: unacked triggers are queued   *)
(* again while their handlers run on.                                      *)
BrokerDrop ==
  /\ Fault
  /\ Requeue
  /\ msg' = Everyone(None)
  /\ UNCHANGED <<now, table, issued, audit, phase, todo, held, digest, seen, conn, outside>>

CrashAndRestart ==
  /\ Fault
  /\ Requeue
  /\ phase' = Everyone("idle") /\ msg' = Everyone(None) /\ todo' = Everyone({})
  /\ item' = Everyone(None) /\ id' = Everyone(0) /\ attempt' = Everyone(0)
  /\ digest' = Asleep /\ seen' = {} /\ conn' = "open"
  /\ orphaned' = orphaned \union {HeldBy(h) : h \in {g \in Handlers : Holds(g)}}
  /\ UNCHANGED <<now, table, issued, audit, egress, pushed, enumerated, outbox, undone>>

-----------------------------------------------------------------------------
EmitStep(h) ==
  \/ \E i \in Items : ClaimWon(h, i) \/ ClaimLost(h, i)
  \/ SkipMissing(h) \/ PassThrottle(h) \/ Suppress(h)

DeliverStep(h) ==
  \/ DeliverOk(h) \/ DeliverFails(h) \/ MarkDelivered(h)
  \/ PublishDeadLetter(h) \/ AuditDeadLetter(h) \/ MarkDeadLettered(h)

HandlerStep(h) ==
  \/ \E t \in Triggers : Receive(h, t)
  \/ Ack(h) \/ EmitStep(h) \/ DeliverStep(h) \/ StoreRaises(h)

DigestStep == DigestRead \/ DigestList \/ DigestPostOk \/ DigestPostFails \/ DigestMark

FaultStep ==
  \/ LoseConnection \/ BrokerDrop \/ CrashAndRestart \/ DigestMarkUndone
  \/ \E h \in Handlers : PublishRaises(h)

Next ==
  \/ Tick
  \/ \E h \in Handlers : HandlerStep(h)
  \/ DigestStep
  \/ FaultStep

Spec == Init /\ [][Next]_vars

(* The event loop runs every ready task, the broker hands out what is      *)
(* ready, requests end (they have a timeout), and a digest that is tried   *)
(* every hour is accepted sooner or later.  Nothing makes a trigger come,  *)
(* the clock advance or a fault happen.                                    *)
Fairness ==
  /\ \A h \in Handlers : SF_vars(HandlerStep(h))
  /\ WF_vars(DigestStep)
  /\ SF_vars(DigestPostOk)

FairSpec == Spec /\ Fairness
-----------------------------------------------------------------------------
(* Properties.                                                             *)

TypeOK ==
  /\ now \in Time
  /\ alertId \in [Items -> Nat] /\ issued \in [Items -> Nat] /\ firedAt \in [Items -> Time]
  /\ marks \in [Items -> SUBSET Marks]
  /\ trig \in [Triggers -> {"ready", "unacked", "acked", "dead"}]
  /\ phase \in [Handlers -> Phases]
  /\ msg \in [Handlers -> Triggers \union {None}]
  /\ todo \in [Handlers -> SUBSET Items]
  /\ item \in [Handlers -> Items \union {None}] /\ id \in [Handlers -> Nat]
  /\ attempt \in [Handlers -> 0 .. Attempts]
  /\ digest \in [phase : {"asleep", "listing", "posting", "posted"}, batch : SUBSET Alerts]
  /\ seen \subseteq Items
  /\ conn \in {"open", "broken"}
  /\ faults \in 0 .. MaxFaults
  /\ egress \subseteq Items \X (Nat \ {0}) \X Time
  /\ pushed \subseteq Alerts /\ enumerated \subseteq Alerts
  /\ outbox \subseteq Alerts /\ audit \subseteq Alerts /\ orphaned \subseteq Alerts
  /\ unclaimed \subseteq Alerts /\ unmarked \subseteq Alerts

(* SPEC R3, throttle.py "no fixed-clock burst loophole": in no window of   *)
(* either length do more alerts pass to egress than its cap, however       *)
(* claims, re-fires, suppressions, crashes and digests interleave.  Only   *)
(* an alert whose claim the digest's rollback undid is not counted.        *)
Passed(window) == {e \in egress : e[3] > now - window /\ <<e[1], e[2]>> \notin unclaimed}

ThrottleHolds ==
  /\ Cardinality(Passed(ShortWindow)) <= ShortCap
  /\ Cardinality(Passed(LongWindow)) <= LongCap

(* SPEC R1: the claim is the only exclusion between the two trigger paths. *)
(* No two handlers are ever in the middle of alerting on the same item     *)
(* unless the claim of one of them was undone.                             *)
OneHolderPerItem ==
  \A g, h \in Handlers :
    g # h /\ Holds(g) /\ Holds(h) /\ item[g] = item[h] =>
      HeldBy(g) \in unclaimed \/ HeldBy(h) \in unclaimed

Settled == {"suppressed", "delivered", "dlx"}

Open(i) == alertId[i] > 0 /\ marks[i] \intersect Settled = {}

HolderOf(i) == {h \in Handlers : Holds(h) /\ item[h] = i}

(* emitter.run_consumer, "the delivery outcome is recorded durably": the   *)
(* last alert a handler was told it had claimed is in its row with a fate, *)
(* or in a handler's hands, or its handler was cut off, or its item could  *)
(* not be read back, or the digest's rollback undid its claim or a write   *)
(* after it.  There is no other way to lose an alert once it is claimed.   *)
Recorded(i) == alertId[i] = issued[i] /\ marks[i] \intersect Settled # {}

NoSilentAlert ==
  \A i \in Items : issued[i] > 0 /\ ~Recorded(i) =>
    \/ HolderOf(i) # {}
    \/ <<i, issued[i]>> \in orphaned \union unclaimed \union unmarked
    \/ i \in Missing

(* A trigger leaves q.alerting by an ack only when every CAT I item it     *)
(* names has been claimed, by this trigger's handler or by another's; what *)
(* may have become of the claim is NoSilentAlert's.                        *)
AckedMeansClaimed ==
  \A t \in Triggers : trig[t] = "acked" => \A i \in Refs[t] : issued[i] > 0

(* The broker was offered a dead letter of item i, taken or refused.       *)
Offered(i) == \E a \in outbox \union orphaned : a[1] = i

(* A handler that lost its claim of the item may mark another's row of it. *)
Spoiled == {a[1] : a \in unclaimed}

(* The fate a row records happened to that very firing, and in the order   *)
(* dead_letter promises: offered to the queue, then audited (unless the    *)
(* audit row was undone), then marked.  What is in the queue is only known *)
(* for an alert of the same item: this one or one the seen-set remembers,  *)
(* unless the broker refused that one.                                     *)
FateIsTrue ==
  \A i \in Items \ Spoiled :
    LET alert == <<i, alertId[i]>> IN
    /\ "delivered" \in marks[i] => alert \in pushed
    /\ "dlx" \in marks[i] => alert \in audit \union unmarked /\ Offered(i)
    /\ \A m, n \in marks[i] \intersect Settled : m = n

(* digest.py: "a failed digest is retried whole on the next tick".  A      *)
(* suppressed row is marked digested only after some digest that reached   *)
(* the topic listed an alert of that item.                                 *)
DigestedWasEnumerated ==
  \A i \in Items : "digested" \in marks[i] => \E a \in enumerated : a[1] = i

(* SPEC R2 and R4, the table read as a ledger of firings and their fates:  *)
(* a firing opens at most once per TTL and is settled at most once, as one *)
(* of suppressed, delivered or dead-lettered, whatever two handlers, the   *)
(* digest, crashes and re-fires do to the row.  Only the fate of an item   *)
(* one of whose claims was undone is anyone's.                             *)
Ledger == INSTANCE AlertLedger WITH
            fired <- [i \in Items |-> IF alertId[i] = 0 THEN -1 ELSE firedAt[i]],
            fate <- [i \in Items |-> marks[i] \intersect Settled],
            spoiled <- Spoiled

ImplementsLedger == Ledger!Spec

(* outbox.py deliver_with_retry, emitter.py run_consumer: a trigger is     *)
(* never acked before the outcome of its alert is durably recorded.        *)
AckedMeansSettled ==
  \A t \in Triggers : trig[t] = "acked" =>
    \A i \in Refs[t] : Open(i) => HolderOf(i) # {} \/ i \in Missing

(* outbox.py dead_letter: "the alert is reconstructable from the queue     *)
(* alone (SPEC R4)".                                                       *)
DeadLetterReconstructable ==
  \A i \in Items : "dlx" \in marks[i] => <<i, alertId[i]>> \in outbox

(* Every trigger the broker holds is in the end acked or dead-lettered:    *)
(* the handlers, the event loop and the retries never wedge.               *)
TriggersDrain ==
  \A t \in Triggers : trig[t] = "ready" ~> trig[t] \in {"acked", "dead"}

(* SPEC R3: a suppressed alert does not stay pending for ever; it is       *)
(* digested or fired again, as long as the database connection lives.      *)
SuppressedIsResolved ==
  \A i \in Items : Pending(i) ~> (~Pending(i) \/ conn = "broken")
=============================================================================
