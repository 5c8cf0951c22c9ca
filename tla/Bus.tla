---------------------------------- MODULE Bus ----------------------------------
(***************************************************************************)
(* The message bus (libs/contracts, RabbitMQBus), the broker as the code   *)
(* uses it, and the consumer of its dead letters (apps/dlq_consumer).      *)
(*                                                                         *)
(* A process connects, declares the topology, publishes and consumes.  A   *)
(* routing key fans out to all the queues bound to it.  What a consumer    *)
(* nacks goes to the dead-letter queue, where a daemon logs it, announces  *)
(* it as feed.unhealthy and drops it, and where an operator's --replay     *)
(* takes it back to the exchange.  No handler is modelled here: Triage,    *)
(* Alerting and Files do that.                                             *)
(*                                                                         *)
(* The broker's queues are bags: no property is about their order.         *)
(* feed.unhealthy events are not followed into q.ops, which nobody reads.  *)
(* The topology is declared, and when another version left it, deleted,    *)
(* queue by queue: everybody else runs between two of these steps.         *)
(***************************************************************************)
EXTENDS Integers, Sequences, FiniteSetsExt

CONSTANTS
  Procs,        \* processes, each with a RabbitMQBus
  Tasks,        \* tasks that publish
  ProcOf,       \* of each task and consumer, its process
  Events,       \* (routing key, item id)
  KeyOf,        \* of each event, the routing key
  Publishes,    \* of each task, the events it may publish, again and again
  Consumers,    \* consume() calls
  Subscription, \* of each, the routing key and the queue_name it gives
  Slots,        \* dead letters the daemon works on at once
  Count,        \* replay's --count
  Threshold,    \* DLQ_DEPTH_CRITICAL_N
  Old,          \* queues that another version has left, declared otherwise
  None,
  MaxFaults,    \* bounds on faults and on replays
  MaxReplays

(* Every queue of a key receives its events; the first is consume()'s      *)
(* default.                                                                *)
ROUTING_KEY_TO_QUEUE ==
  << <<"item_ingested", "q.triage">>,
     <<"verdict_ready", "q.brief">>, <<"verdict_ready", "q.wiki">>,
     <<"verdict_ready", "q.alerting">>,
     <<"sab_published", "q.notify">>, <<"sab_published", "q.alerting">>,
     <<"feed_unhealthy", "q.ops">>,
     <<"outbox_dlx", "outbox.dlx.queue">> >>

Dlq == <<"dead", "infotriage.dlq">>
Ops == <<"feed_unhealthy", "q.ops">>

Pairs == {ROUTING_KEY_TO_QUEUE[n] : n \in DOMAIN ROUTING_KEY_TO_QUEUE}

Bound(e) == {q \in {b[2] : b \in Pairs} : <<KeyOf[e], q>> \in Pairs}

Queues == UNION {Bound(e) : e \in Events}

(* What is declared and bound, one await after the other: the dead-letter  *)
(* queue, then the queues.  Those no event here reaches are left out.      *)
Topology == {Dlq} \union {b \in Pairs : b[2] \in Queues \union {Ops[2]}}

Loop == <<Dlq>> \o SelectSeq(ROUTING_KEY_TO_QUEUE, LAMBDA b : b \in Topology)

(* The queue consume() attaches to; it raises ValueError on another.       *)
Resolve(key, name) ==
  IF name = None
  THEN SelectSeq(ROUTING_KEY_TO_QUEUE, LAMBDA b : b[1] = key)[1][2]
  ELSE name

Listens(c) == Resolve(Subscription[c].key, Subscription[c].queue)

(* A dead letter names the queue it died in and its event.                 *)
Letters      == [from : Queues, event : Events]
Letter(q, e) == [from |-> q, event |-> e]

(* A letter of no queue of ours: it names neither an event nor a routing   *)
(* key, or one too long for FeedUnhealthy.                                 *)
Stray == Letter(None, None)

Replay == "replay"
Takers == Slots \union {Replay}

ASSUME EventsAssumption ==
  /\ KeyOf \in [Events -> {b[1] : b \in Pairs}]
  /\ Publishes \in [Tasks -> SUBSET Events]
  /\ ProcOf \in [Tasks \union Consumers -> Procs]
  /\ None \notin Events \union Letters \union Queues
  /\ None \notin {Letter(None, e) : e \in Events \union {None}}
  /\ IsFiniteSet(Slots) /\ Replay \notin Slots
ASSUME SubscriptionAssumption ==  \* consumers no event can reach are left out
  /\ IsFiniteSet(Consumers)
  /\ \A c \in Consumers :
       /\ <<Subscription[c].key, Listens(c)>> \in Pairs
       /\ Listens(c) \in Queues
ASSUME BoundsAssumption ==
  /\ {Count, Threshold} \subseteq Nat \ {0}
  /\ {MaxFaults, MaxReplays} \subseteq Nat
  /\ Old \subseteq {b[2] : b \in Topology}

VARIABLES
  old,       \* queues that stand as the other version declared them
  bound,     \* (routing key, queue) as declared and bound by this version
  conn,      \* of each process, how far _ensure_connection has come
  next,      \* and at which element of Loop it is
  seen,      \* of each process, the bus's seen-set
  sending,   \* of each task, the event it has handed to the exchange
  ready,     \* of each queue and event, the copies that wait
  ear,       \* of each consumer: "off", "on", or "cut" off by the broker
  unacked,   \* of each consumer, the copy it works on
  dead,      \* of each queue and event, its copies that wait in infotriage.dlq
  strays,    \* and the stray letters that wait there
  daemon,    \* "off", "on", or "cut" off
  held,      \* of each slot and of the replay, the dead letter it works on
  told,      \* of these, those announced or republished
  left,      \* of --count, what the running replay has left
  probed,    \* a depth the probe has read and not yet judged, 0 if none
  alarmed,   \* whether the probe's last reading was critical
  faults, replays,
  cast,      \* of each bus and event, how often the broker has taken it
  returned,  \* of each bus, the events some publish has returned on
  failed,    \* and those some publish has raised on
  buried,    \* dead letters the daemon has dropped
  announced  \* and those it has announced

publisher == <<seen, sending, cast, returned, failed>>
build     == <<old, bound, conn, next>>
letters   == <<dead, strays, held, told>>
history   == <<buried, announced>>
probe     == <<probed, alarmed>>
vars      == <<build, publisher, ready, ear, unacked, letters, daemon,
               left, probe, faults, replays, history>>

Fault == faults < MaxFaults /\ faults' = faults + 1

TasksOf(p)     == {t \in Tasks : ProcOf[t] = p}
ConsumersOf(p) == {c \in Consumers : ProcOf[c] = p}
Nothing        == [q \in Queues |-> [e \in Events |-> 0]]

Put(bag, q, e)  == [bag EXCEPT ![q][e] = @ + 1]
Take(bag, q, e) == [bag EXCEPT ![q][e] = @ - 1]

Init ==
  /\ old = Old
  /\ bound \in {{}, {b \in Topology : b[2] \notin Old}}
  /\ conn = [p \in Procs |-> "down"] /\ next = [p \in Procs |-> 1]
  /\ seen = [p \in Procs |-> {}] /\ sending = [t \in Tasks |-> None]
  /\ ready = Nothing /\ dead = Nothing /\ strays = 0
  /\ ear = [c \in Consumers |-> "off"] /\ unacked = [c \in Consumers |-> None]
  /\ daemon = "off" /\ held = [k \in Takers |-> None] /\ told = {}
  /\ left = 0 /\ probed = 0 /\ alarmed = FALSE
  /\ faults = 0 /\ replays = 0
  /\ cast = [p \in Procs |-> [e \in Events |-> 0]]
  /\ returned = [p \in Procs |-> {}] /\ failed = [p \in Procs |-> {}]
  /\ buried = {} /\ announced = {}

-----------------------------------------------------------------------------
(* The queues that are bound to an event's key by now, and whether a queue *)
(* stands.                                                                 *)
BoundNow(e)  == {q \in Bound(e) : <<KeyOf[e], q>> \in bound}
Stands(q)    == q \in old \/ \E b \in bound : b[2] = q
Cut(who)     == IF who = "on" THEN "cut" ELSE who
At(p)        == Loop[next[p]]
Declaring(p) == conn[p] \in {"declaring", "redeclaring"}

(* _ensure_connection, or connect_robust after a lost connection: they     *)
(* declare what is in Loop, in order.                                      *)
Connect(p) ==
  /\ conn[p] = "down"
  /\ conn' = [conn EXCEPT ![p] = "declaring"]
  /\ UNCHANGED <<old, bound, next, publisher, ready, ear, unacked, letters,
                 daemon, left, probe, faults, replays, history>>

(* On to the next element of Loop, and from the last to the state then.    *)
Advance(p, then) ==
  /\ next' = [next EXCEPT ![p] = IF @ = Len(Loop) THEN 1 ELSE @ + 1]
  /\ conn' = [conn EXCEPT ![p] = IF next[p] = Len(Loop) THEN then ELSE @]

(* Declaring is idempotent.  A connection that is restored attaches its    *)
(* consumers again, each with its queue.                                   *)
Declare(p) ==
  /\ Declaring(p) /\ At(p)[2] \notin old
  /\ bound' = bound \union {At(p)}
  /\ ear' = [c \in Consumers |->
               IF ProcOf[c] = p /\ Listens(c) = At(p)[2] /\ ear[c] = "cut"
               THEN "on" ELSE ear[c]]
  /\ Advance(p, "up")
  /\ UNCHANGED <<old, publisher, ready, unacked, letters, daemon, left, probe,
                 faults, replays, history>>

(* The broker answers 406 to a declaration that differs: the process       *)
(* rebuilds, which is to delete everything and to declare it afresh.       *)
Mismatch(p) ==
  /\ conn[p] = "declaring" /\ At(p)[2] \in old
  /\ conn' = [conn EXCEPT ![p] = "deleting"] /\ next' = [next EXCEPT ![p] = 1]
  /\ UNCHANGED <<old, bound, publisher, ready, ear, unacked, letters, daemon,
                 left, probe, faults, replays, history>>

(* A queue goes with its copies, and its consumers are cancelled, who      *)
(* attach again only with their connection.                                *)
DeleteQueue(q) ==
  /\ ready' = [r \in Queues |-> IF r = q THEN [e \in Events |-> 0] ELSE ready[r]]
  /\ ear' = [c \in Consumers |-> IF Listens(c) = q THEN Cut(ear[c]) ELSE ear[c]]
  /\ unacked' = [c \in Consumers |-> IF Listens(c) = q THEN None ELSE unacked[c]]
  /\ UNCHANGED <<letters, daemon>>

(* With the dead-letter queue what the daemon has in hand is over; a       *)
(* letter in the hand of a replay may still be republished.                *)
Orphan(l) ==
  IF l \in {None, Stray} THEN None ELSE [from |-> None, event |-> l.event]

DeleteDlq ==
  /\ dead' = Nothing /\ strays' = 0
  /\ held' = [k \in Takers |-> IF k = Replay THEN Orphan(held[k]) ELSE None]
  /\ told' = told \ Slots
  /\ daemon' = Cut(daemon)
  /\ UNCHANGED <<ready, ear, unacked>>

Delete(p) ==
  LET q == At(p)[2] IN
  /\ conn[p] = "deleting"
  /\ old' = old \ {q} /\ bound' = {b \in bound : b[2] # q}
  /\ IF q = Dlq[2] THEN DeleteDlq ELSE DeleteQueue(q)
  /\ Advance(p, "redeclaring")
  /\ UNCHANGED <<publisher, left, probe, faults, replays, history>>

(* A deletion that raises is swallowed.                                    *)
DeleteRaises(p) ==
  /\ conn[p] = "deleting" /\ Fault
  /\ Advance(p, "redeclaring")
  /\ UNCHANGED <<old, bound, publisher, ready, ear, unacked, letters, daemon, left,
                 probe, replays, history>>

-----------------------------------------------------------------------------
(* Wrong variant of Publish: the event enters the seen-set only once the   *)
(* exchange has taken it.                                                  *)
PublishThenSeen(t, e) ==
  LET p == ProcOf[t] IN
  /\ conn[p] = "up" /\ sending[t] = None /\ e \in Publishes[t]
  /\ e \notin seen[p]
  /\ sending' = [sending EXCEPT ![t] = e]
  /\ seen' = [seen EXCEPT ![p] = @ \union {x \in Events : cast[p][x] > 0}]
  /\ UNCHANGED <<build, ready, ear, unacked, letters, daemon, left,
                 probe, faults, replays, cast, returned, failed, history>>

(* publish().  The event enters the seen-set, under the lock, before it is *)
(* handed to the exchange, and stays there when that fails.                *)

Publish(t, e) ==
  LET p == ProcOf[t] IN
  /\ conn[p] = "up" /\ sending[t] = None /\ e \in Publishes[t]
  /\ e \notin seen[p]
  /\ seen' = [seen EXCEPT ![p] = @ \union {e}]
  /\ sending' = [sending EXCEPT ![t] = e]
  /\ UNCHANGED <<build, ready, ear, unacked, letters, daemon, left,
                 probe, faults, replays, cast, returned, failed, history>>

PublishAgain(t, e) ==
  LET p == ProcOf[t] IN
  /\ conn[p] = "up" /\ sending[t] = None /\ e \in Publishes[t]
  /\ e \in seen[p]
  /\ returned' = [returned EXCEPT ![p] = @ \union {e}]
  /\ UNCHANGED <<build, seen, sending, cast, failed, ready, ear, unacked,
                 letters, daemon, left, probe, faults, replays, history>>

(* The exchange's copies of the events of es: one for every queue that is  *)
(* bound by now.                                                           *)
Routed(es) ==
  [q \in Queues |-> [e \in Events |->
     ready[q][e] + IF e \in es /\ q \in BoundNow(e) THEN 1 ELSE 0]]

Cast(p, es) ==
  [cast EXCEPT ![p] = [e \in Events |-> @[e] + IF e \in es THEN 1 ELSE 0]]

(* Wrong variant of Accept: only the first queue of the key is bound.      *)
AcceptFirst(t) ==
  LET p == ProcOf[t]
      e == sending[t]
  IN
  /\ e # None /\ BoundNow(e) # {}
  /\ ready' = Put(ready, Resolve(KeyOf[e], None), e)
  /\ cast' = Cast(p, {e})
  /\ returned' = [returned EXCEPT ![p] = @ \union {e}]
  /\ sending' = [sending EXCEPT ![t] = None]
  /\ UNCHANGED <<build, seen, failed, ear, unacked, letters, daemon,
                 left, probe, faults, replays, history>>

Accept(t) ==
  LET p == ProcOf[t]
      e == sending[t]
  IN
  /\ e # None /\ BoundNow(e) # {}
  /\ ready' = Routed({e}) /\ cast' = Cast(p, {e})
  /\ returned' = [returned EXCEPT ![p] = @ \union {e}]
  /\ sending' = [sending EXCEPT ![t] = None]
  /\ UNCHANGED <<build, seen, failed, ear, unacked, letters, daemon,
                 left, probe, faults, replays, history>>

(* Wrong variant of Unroutable: mandatory is not set, and publish returns.  *)
UnroutableReturns(t) ==
  LET p == ProcOf[t] IN
  /\ sending[t] # None /\ BoundNow(sending[t]) = {}
  /\ returned' = [returned EXCEPT ![p] = @ \union {sending[t]}]
  /\ sending' = [sending EXCEPT ![t] = None]
  /\ UNCHANGED <<build, seen, cast, failed, ready, ear, unacked,
                 letters, daemon, left, probe, faults, replays, history>>

(* mandatory=True: no queue is bound, so the publish raises.               *)
Unroutable(t) ==
  LET p == ProcOf[t] IN
  /\ sending[t] # None /\ BoundNow(sending[t]) = {}
  /\ failed' = [failed EXCEPT ![p] = @ \union {sending[t]}]
  /\ sending' = [sending EXCEPT ![t] = None]
  /\ UNCHANGED <<build, seen, cast, returned, ready, ear, unacked,
                 letters, daemon, left, probe, faults, replays, history>>

-----------------------------------------------------------------------------
(* consume() and what the handlers make of the copies.                     *)

Attach(c) ==
  /\ conn[ProcOf[c]] = "up" /\ Stands(Listens(c)) /\ ear[c] = "off"
  /\ ear' = [ear EXCEPT ![c] = "on"]
  /\ UNCHANGED <<build, publisher, ready, unacked, letters, daemon,
                 left, probe, faults, replays, history>>

Deliver(c, e) ==
  LET q == Listens(c) IN
  /\ ear[c] = "on" /\ unacked[c] = None /\ ready[q][e] > 0
  /\ unacked' = [unacked EXCEPT ![c] = e]
  /\ ready' = Take(ready, q, e)
  /\ UNCHANGED <<build, publisher, ear, letters, daemon, left, probe,
                 faults, replays, history>>

Ack(c) ==
  /\ unacked[c] # None
  /\ unacked' = [unacked EXCEPT ![c] = None]
  /\ UNCHANGED <<build, publisher, ready, ear, letters, daemon, left,
                 probe, faults, replays, history>>

(* A copy that is rejected while there is no dead-letter queue is lost.    *)
Nack(c) ==
  /\ unacked[c] # None
  /\ unacked' = [unacked EXCEPT ![c] = None]
  /\ dead' = (IF Dlq \in bound THEN Put(dead, Listens(c), unacked[c]) ELSE dead)
  /\ UNCHANGED <<build, publisher, ready, ear, strays, held, told, daemon, left,
                 probe, faults, replays, history>>

(* Copies that go back to their queues: those of the consumers of cs.      *)
Unacked(q, e, cs) ==
  Cardinality({c \in cs : Listens(c) = q /\ unacked[c] = e})

Cleared(f, gone, v) == [k \in DOMAIN f |-> IF k \in gone THEN v ELSE f[k]]

(* The connection of p is lost, or its process dies.  A publish that is    *)
(* under way raises, whether the broker has taken the event or not.        *)
Break(p, es) ==
  /\ es \subseteq {sending[t] : t \in TasksOf(p)} \ {None}
  /\ \A e \in es : BoundNow(e) # {}
  /\ ready' = [q \in Queues |-> [e \in Events |->
                 Routed(es)[q][e] + Unacked(q, e, ConsumersOf(p))]]
  /\ sending' = Cleared(sending, TasksOf(p), None)
  /\ unacked' = Cleared(unacked, ConsumersOf(p), None)

(* connect_robust reconnects by itself; a rebuild that raises is tried     *)
(* again from the start.                                                   *)
Disconnected(p, es) ==
  /\ Break(p, es) /\ cast' = Cast(p, es)
  /\ conn' = [conn EXCEPT ![p] = "down"] /\ next' = [next EXCEPT ![p] = 1]
  /\ ear' = [c \in Consumers |-> IF ProcOf[c] = p THEN Cut(ear[c]) ELSE ear[c]]
  /\ failed' = [failed EXCEPT ![p] =
                  @ \union ({sending[t] : t \in TasksOf(p)} \ {None})]
  /\ UNCHANGED <<old, bound, seen, returned, letters, daemon, left, probe,
                 replays, history>>

LoseConnection(p) ==
  /\ conn[p] # "down" /\ Fault
  /\ \E es \in SUBSET Events : Disconnected(p, es)

(* What p declares is still of the other version, or is deleted by another *)
(* process before it is bound.                                             *)
BuildFails(p) ==
  /\ \/ conn[p] = "redeclaring" /\ At(p)[2] \in old
     \/ Declaring(p) /\ \E r \in Procs : conn[r] = "deleting"
  /\ Disconnected(p, {})
  /\ UNCHANGED faults

(* The bus object dies with its process.                                   *)
Crash(p) ==
  /\ Fault
  /\ \E es \in SUBSET Events : Break(p, es)
  /\ conn' = [conn EXCEPT ![p] = "down"] /\ next' = [next EXCEPT ![p] = 1]
  /\ seen' = [seen EXCEPT ![p] = {}]
  /\ cast' = [cast EXCEPT ![p] = [e \in Events |-> 0]]
  /\ returned' = [returned EXCEPT ![p] = {}]
  /\ failed' = [failed EXCEPT ![p] = {}]
  /\ ear' = Cleared(ear, ConsumersOf(p), "off")
  /\ UNCHANGED <<old, bound, letters, daemon, left, probe, replays, history>>

-----------------------------------------------------------------------------
(* The dead-letter daemon.  message.process() acks a letter when its       *)
(* handler returns and discards it when it raises: infotriage.dlq has no   *)
(* dead-letter queue of its own.                                           *)

DaemonStarts ==
  /\ daemon = "off" /\ Stands(Dlq[2])
  /\ daemon' = "on"
  /\ UNCHANGED <<build, publisher, ready, ear, unacked, letters, left,
                 probe, faults, replays, history>>

TakeLetter(k, q, e) ==
  /\ held[k] = None /\ dead[q][e] > 0
  /\ held' = [held EXCEPT ![k] = Letter(q, e)]
  /\ dead' = Take(dead, q, e)
  /\ UNCHANGED <<strays, told>>

TakeStray(k) ==
  /\ held[k] = None /\ strays > 0
  /\ held' = [held EXCEPT ![k] = Stray] /\ strays' = strays - 1
  /\ UNCHANGED <<dead, told>>

(* Anybody may put a letter there.                                         *)
StrayArrives ==
  /\ Dlq \in bound /\ Fault
  /\ strays' = strays + 1
  /\ UNCHANGED <<build, publisher, ready, ear, unacked, dead, held, told, daemon,
                 left, probe, replays, history>>

DaemonTakes(s, q, e) ==
  /\ daemon = "on" /\ TakeLetter(s, q, e)
  /\ UNCHANGED <<build, publisher, ready, ear, unacked, daemon, left,
                 probe, faults, replays, history>>

DaemonTakesStray(s) ==
  /\ daemon = "on" /\ TakeStray(s)
  /\ UNCHANGED <<build, publisher, ready, ear, unacked, daemon, left,
                 probe, faults, replays, history>>

Announce(s) ==
  /\ held[s] \notin {None, Stray} /\ s \notin told /\ Ops \in bound
  /\ told' = told \union {s} /\ announced' = announced \union {held[s]}
  /\ UNCHANGED <<build, publisher, ready, ear, unacked, dead, strays, held,
                 daemon, left, probe, faults, replays, buried>>

(* Done with what k holds: acked, or discarded.                            *)
Drop(k) ==
  /\ held' = [held EXCEPT ![k] = None] /\ told' = told \ {k}
  /\ UNCHANGED <<dead, strays>>

AnnounceRaises(s) ==
  /\ held[s] \notin {None, Stray} /\ s \notin told
  /\ IF Ops \in bound THEN Fault ELSE UNCHANGED faults
  /\ Drop(s)
  /\ UNCHANGED <<build, publisher, ready, ear, unacked, daemon, left,
                 probe, replays, history>>

(* Wrong variant of Bury: the letter is acked as it is taken.              *)
BuryEarly(s) ==
  /\ held[s] # None
  /\ Drop(s) /\ buried' = buried \union {held[s]}
  /\ UNCHANGED <<build, publisher, ready, ear, unacked, daemon, left,
                 probe, faults, replays, announced>>

(* Wrong variant of Bury: the letter is never acked.                       *)
BuryUnacked(s) ==
  /\ held[s] # None /\ s \in told /\ held[s] \notin buried
  /\ buried' = buried \union {held[s]}
  /\ UNCHANGED <<build, publisher, ready, ear, unacked, letters, daemon,
                 left, probe, faults, replays, announced>>

(* A stray letter is logged and acked, and nothing is announced of it.     *)
Bury(s) ==
  /\ held[s] # None /\ (s \in told \/ held[s] = Stray)
  /\ Drop(s) /\ buried' = buried \union {held[s]}
  /\ UNCHANGED <<build, publisher, ready, ear, unacked, daemon, left,
                 probe, faults, replays, announced>>

(* What the takers of ks hold goes back to the dead-letter queue.          *)
Relinquish(ks) ==
  /\ dead' = [q \in Queues |-> [e \in Events |->
       dead[q][e] + Cardinality({k \in ks : held[k] = Letter(q, e)})]]
  /\ strays' = strays + Cardinality({k \in ks : held[k] = Stray})
  /\ held' = Cleared(held, ks, None) /\ told' = told \ ks

DaemonDies ==
  /\ daemon # "off" /\ Fault
  /\ daemon' = "off" /\ probed' = 0
  /\ Relinquish(Slots)
  /\ UNCHANGED <<build, publisher, ready, ear, unacked, left, alarmed,
                 replays, history>>

DaemonLosesConnection ==
  /\ daemon # "off" /\ Stands(Dlq[2]) /\ Fault
  /\ daemon' = "on"
  /\ Relinquish(Slots)
  /\ UNCHANGED <<build, publisher, ready, ear, unacked, left, probe,
                 replays, history>>

(* The probe asks the management API for all the letters, those the daemon *)
(* and the replay hold included.  Nothing is done on a failed request.     *)
Held(q, e) == Cardinality({k \in Takers : held[k] = Letter(q, e)})

Depth == MapThenSumSet(
           LAMBDA l : dead[l.from][l.event] + Held(l.from, l.event), Letters)
         + strays + Cardinality({k \in Takers : held[k] = Stray})

ReadDepth ==
  /\ daemon # "off" /\ probed = 0 /\ Depth > 0
  /\ probed' = Depth
  /\ UNCHANGED <<build, publisher, ready, ear, unacked, letters, daemon,
                 left, alarmed, faults, replays, history>>

(* Wrong variant of Critical: off by one at the threshold.                 *)
CriticalAbove(depth) == depth > Threshold

Critical(depth) == depth >= Threshold

Judge ==
  /\ probed > 0 /\ (Critical(probed) => Ops \in bound)
  /\ alarmed' = Critical(probed) /\ probed' = 0
  /\ UNCHANGED <<build, publisher, ready, ear, unacked, letters, daemon,
                 left, faults, replays, history>>

(* The probe catches what its request raises, and not what its             *)
(* announcement does: that ends the daemon.                                *)
JudgeRaises ==
  /\ probed > 0 /\ Critical(probed)
  /\ IF Ops \in bound THEN Fault ELSE UNCHANGED faults
  /\ daemon' = "off" /\ probed' = 0
  /\ Relinquish(Slots)
  /\ UNCHANGED <<build, publisher, ready, ear, unacked, left, alarmed, replays,
                 history>>

-----------------------------------------------------------------------------
(* --replay, which competes with the daemon for the letters.               *)

StartReplay ==
  /\ left = 0 /\ held[Replay] = None /\ Stands(Dlq[2])
  /\ replays < MaxReplays /\ replays' = replays + 1
  /\ left' = Count
  /\ UNCHANGED <<build, publisher, ready, ear, unacked, letters, daemon,
                 probe, faults, history>>

ReplayTakes(q, e) ==
  /\ left > 0 /\ TakeLetter(Replay, q, e)
  /\ left' = left - 1
  /\ UNCHANGED <<build, publisher, ready, ear, unacked, daemon, probe,
                 faults, replays, history>>

ReplayTakesStray ==
  /\ left > 0 /\ TakeStray(Replay)
  /\ left' = left - 1
  /\ UNCHANGED <<build, publisher, ready, ear, unacked, daemon, probe,
                 faults, replays, history>>

(* get() raises, as the queue is empty or gone, and the run ends.          *)
ReplayFindsNone ==
  /\ left > 0 /\ held[Replay] = None /\ dead = Nothing /\ strays = 0
  /\ left' = 0
  /\ UNCHANGED <<build, publisher, ready, ear, unacked, letters, daemon,
                 probe, faults, replays, history>>

(* The first routing key of the x-death header is the one the event was    *)
(* published with: the letter goes to every queue bound to it.             *)
Republish ==
  /\ held[Replay] \notin {None, Stray} /\ Replay \notin told
  /\ BoundNow(held[Replay].event) # {}
  /\ ready' = Routed({held[Replay].event})
  /\ told' = told \union {Replay}
  /\ UNCHANGED <<build, publisher, ear, unacked, dead, strays, held, daemon,
                 left, probe, faults, replays, history>>

(* A stray letter may name a key that no queue is bound to.                *)
RepublishRaises ==
  /\ held[Replay] # None /\ Replay \notin told
  /\ IF held[Replay] # Stray /\ BoundNow(held[Replay].event) # {}
     THEN Fault ELSE UNCHANGED faults
  /\ Drop(Replay) /\ left' = 0
  /\ UNCHANGED <<build, publisher, ready, ear, unacked, daemon, probe,
                 replays, history>>

(* A letter without a routing key is logged and acked.                     *)
ReplayAcks ==
  /\ Replay \in told \/ held[Replay] = Stray
  /\ Drop(Replay)
  /\ UNCHANGED <<build, publisher, ready, ear, unacked, daemon, left,
                 probe, faults, replays, history>>

ReplayDies ==
  /\ left > 0 \/ held[Replay] # None
  /\ Fault /\ left' = 0 /\ Relinquish({Replay})
  /\ UNCHANGED <<build, publisher, ready, ear, unacked, daemon, probe,
                 replays, history>>

-----------------------------------------------------------------------------
PublisherStep ==
  \/ \E t \in Tasks, e \in Events : Publish(t, e) \/ PublishAgain(t, e)
  \/ \E t \in Tasks : Accept(t) \/ Unroutable(t)
  \/ \E p \in Procs : LoseConnection(p) \/ Crash(p)

BuildStep(p) == \/ Connect(p) \/ Declare(p) \/ Mismatch(p) \/ Delete(p)
                \/ BuildFails(p)

ConsumerStep ==
  \E c \in Consumers : \/ Attach(c) \/ Ack(c) \/ Nack(c)
                       \/ \E e \in Events : Deliver(c, e)

DaemonStep ==
  \/ DaemonStarts \/ DaemonDies \/ DaemonLosesConnection
  \/ \E s \in Slots : \/ Announce(s) \/ AnnounceRaises(s) \/ Bury(s)
                      \/ DaemonTakesStray(s)
                      \/ \E q \in Queues, e \in Events : DaemonTakes(s, q, e)
  \/ ReadDepth \/ Judge \/ JudgeRaises \/ StrayArrives

ReplayStep ==
  \/ StartReplay \/ ReplayFindsNone \/ Republish \/ RepublishRaises
  \/ ReplayAcks \/ ReplayDies \/ ReplayTakesStray
  \/ \E q \in Queues, e \in Events : ReplayTakes(q, e)

Next ==
  \/ \E p \in Procs : BuildStep(p) \/ DeleteRaises(p)
  \/ PublisherStep \/ ConsumerStep \/ DaemonStep \/ ReplayStep

Spec == Init /\ [][Next]_vars

(* Processes run, the broker answers, handlers end (they all bound their   *)
(* waits) and containers are restarted.  Nothing makes a task publish, an  *)
(* operator replay, or a fault happen.                                     *)
Fairness ==
  /\ \A p \in Procs : WF_vars(BuildStep(p))
  /\ \A t \in Tasks : WF_vars(Accept(t) \/ Unroutable(t))
  /\ \A c \in Consumers :
       WF_vars(Attach(c) \/ Ack(c) \/ Nack(c) \/ \E e \in Events : Deliver(c, e))
  /\ WF_vars(DaemonStarts) /\ WF_vars(ReadDepth \/ Judge \/ JudgeRaises)
  /\ \A s \in Slots :
       WF_vars(\/ Announce(s) \/ AnnounceRaises(s) \/ Bury(s) \/ DaemonTakesStray(s)
               \/ \E q \in Queues, e \in Events : DaemonTakes(s, q, e))
  /\ WF_vars(\/ Republish \/ RepublishRaises \/ ReplayAcks \/ ReplayFindsNone
             \/ ReplayTakesStray
             \/ \E q \in Queues, e \in Events : ReplayTakes(q, e))

FairSpec == Spec /\ Fairness

-----------------------------------------------------------------------------
(* publish() is idempotent: the broker takes an event at most once from    *)
(* one bus, whichever of its tasks publish it, at once or again.           *)
OncePerBus == \A p \in Procs, e \in Events : cast[p][e] <= 1

(* publish() that returns has routed the event, or another publish of it   *)
(* by the same bus has raised or has not ended: the seen-set takes no note *)
(* of the outcome.                                                         *)
ReturnedIsRouted ==
  \A p \in Procs : \A e \in returned[p] :
    cast[p][e] > 0 \/ e \in failed[p] \/ \E t \in TasksOf(p) : sending[t] = e

(* The daemon acks no letter that died in one of the queues before it has  *)
(* announced it on feed.unhealthy, whatever dies between the two.  (Stray  *)
(* letters it acks unannounced; a letter whose announcement raises is      *)
(* discarded without an ack.)                                              *)
BurialIsAnnounced == buried \ {Stray} \subseteq announced

(* Copies of e that stand in q or died of it, in whoever's hands.          *)
Owed ==
  [q \in Queues |-> [e \in Events |->
     ready[q][e] + dead[q][e] + Held(q, e) + Unacked(q, e, Consumers)]]

(* The topology is not yet, or not for long, the one of this version.      *)
Building == \/ ~(Topology \subseteq bound) \/ old # {}
            \/ \E p \in Procs : conn[p] = "deleting"

MailBag == INSTANCE Mail WITH owed <- Owed, building <- Building

(* Once the topology is built it stays, and from then on redelivery,       *)
(* dead-lettering, burial, replay and every crash between them neither     *)
(* lose nor invent a copy, and a publish reaches all the queues of its key *)
(* or none.  Before, a publish may reach some of them only, and a deleted  *)
(* queue loses its copies.                                                 *)
ImplementsMail == MailBag!Spec

(* Another process has deleted the queue of c, which will not notice while *)
(* its connection stands.                                                  *)
Deaf(c) == ear[c] = "cut" /\ conn[ProcOf[c]] = "up"

(* A copy of e is not settled though q's consumers, some at least, listen. *)
Outstanding(e) ==
  \E c \in Consumers : ~Deaf(c) /\ Owed[Listens(c)][e] > 0

(* All the copies of an event are in the end acked, or logged by the       *)
(* daemon, but those in queues whose consumers another process's rebuild   *)
(* has cut off, and unless it has cut off the daemon.                      *)
MailSettles ==
  \A e \in Events : Outstanding(e) ~> ~Outstanding(e) \/ daemon = "cut"

(* A dead-letter queue that stays at the threshold, the daemon cut off     *)
(* from it or not, is in the end reported by the probe.                    *)
DeepIsReported ==
  [](Depth >= Threshold => <>(Depth < Threshold \/ alarmed))
=============================================================================
