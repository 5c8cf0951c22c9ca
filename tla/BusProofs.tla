------------------------------- MODULE BusProofs -------------------------------
(***************************************************************************)
(* What Bus guarantees for any processes, tasks, events, consumers and     *)
(* daemon slots, and any number of faults and replays: the types, what a   *)
(* publish that returns means, what a burial means, and that no step of    *)
(* the bus, the broker or the dead-letter consumer loses or invents a copy *)
(* (Bus implements Mail).                                                  *)
(***************************************************************************)
EXTENDS Bus, TLAPS, FiniteSetTheorems

-----------------------------------------------------------------------------
(* Types.  (The probe's reading is a sum over all the letters; no          *)
(* invariant here needs it.)                                               *)

Bags == [Queues -> [Events -> Nat]]

StateTyped ==
  /\ old \subseteq Old
  /\ conn \in [Procs -> {"down", "declaring", "deleting", "redeclaring", "up"}]
  /\ ear \in [Consumers -> {"off", "on", "cut"}]
  /\ daemon \in {"off", "on", "cut"}

PublisherTyped ==
  /\ seen \in [Procs -> SUBSET Events]
  /\ sending \in [Tasks -> Events \union {None}]
  /\ cast \in [Procs -> [Events -> Nat]]
  /\ returned \in [Procs -> SUBSET Events]
  /\ failed \in [Procs -> SUBSET Events]

(* What a taker may hold: a letter of a queue, one whose queue is gone, or *)
(* a stray one.                                                            *)
InHand == [from : Queues \union {None}, event : Events] \union {Stray}

MailTyped ==
  /\ ready \in Bags /\ dead \in Bags /\ strays \in Nat
  /\ unacked \in [Consumers -> Events \union {None}]
  /\ held \in [Takers -> InHand \union {None}] /\ told \subseteq Takers
  /\ buried \subseteq InHand /\ announced \subseteq InHand

BusTyped == StateTyped /\ PublisherTyped /\ MailTyped

(* A task publishes, and a consumer listens, in one of the processes.      *)
LEMMA Processes ==
  /\ \A t \in Tasks : ProcOf[t] \in Procs
  /\ \A c \in Consumers : ProcOf[c] \in Procs /\ Listens(c) \in Queues
BY EventsAssumption, SubscriptionAssumption

(* A copy more, or less, of one event in one queue.                        *)
LEMMA PutOne ==
  ASSUME NEW bag \in Bags, NEW q \in Queues, NEW e \in Events
  PROVE  /\ Put(bag, q, e) \in Bags
         /\ \A r \in Queues, x \in Events :
              Put(bag, q, e)[r][x] = bag[r][x] + IF r = q /\ x = e THEN 1 ELSE 0
<1>1. /\ \A r \in Queues : bag[r] \in [Events -> Nat]
      /\ \A r \in Queues, x \in Events : bag[r][x] \in Nat
  BY DEF Bags
<1> DEFINE row == [x \in Events |-> IF x = e THEN bag[q][e] + 1 ELSE bag[q][x]]
<1>2. Put(bag, q, e) = [r \in Queues |-> IF r = q THEN row ELSE bag[r]]
  BY <1>1 DEF Put, Bags
<1>3. row \in [Events -> Nat] /\ \A x \in Events : row[x] = bag[q][x] + IF x = e THEN 1 ELSE 0
  BY <1>1
<1> HIDE DEF row
<1> QED BY <1>1, <1>2, <1>3 DEF Bags

LEMMA TakeOne ==
  ASSUME NEW bag \in Bags, NEW q \in Queues, NEW e \in Events, bag[q][e] > 0
  PROVE  /\ Take(bag, q, e) \in Bags
         /\ \A r \in Queues, x \in Events :
              Take(bag, q, e)[r][x] = bag[r][x] - IF r = q /\ x = e THEN 1 ELSE 0
<1>1. /\ \A r \in Queues : bag[r] \in [Events -> Nat]
      /\ \A r \in Queues, x \in Events : bag[r][x] \in Nat
  BY DEF Bags
<1> DEFINE row == [x \in Events |-> IF x = e THEN bag[q][e] - 1 ELSE bag[q][x]]
<1>2. Take(bag, q, e) = [r \in Queues |-> IF r = q THEN row ELSE bag[r]]
  BY <1>1 DEF Take, Bags
<1>3. row \in [Events -> Nat] /\ \A x \in Events : row[x] = bag[q][x] - IF x = e THEN 1 ELSE 0
  BY <1>1
<1> HIDE DEF row
<1> QED BY <1>1, <1>2, <1>3 DEF Bags

LEMMA RouteAll ==
  ASSUME MailTyped, NEW es
  PROVE  /\ Routed(es) \in Bags
         /\ \A q \in Queues, e \in Events :
              Routed(es)[q][e] =
                ready[q][e] + IF e \in es /\ q \in BoundNow(e) THEN 1 ELSE 0
<1>1. \A q \in Queues, e \in Events : ready[q][e] \in Nat
  BY DEF MailTyped, Bags
<1> QED BY <1>1 DEF Routed, Bags

LEMMA NothingTyped == Nothing \in Bags
BY DEF Nothing, Bags

(* Finitely many copies can be in hand.                                    *)
LEMMA HandsCount ==
  /\ \A S \in SUBSET Consumers : Cardinality(S) \in Nat
  /\ \A S \in SUBSET Takers : Cardinality(S) \in Nat
<1>1. IsFiniteSet(Consumers)
  BY SubscriptionAssumption
<1>2. IsFiniteSet(Takers)
  BY EventsAssumption, FS_AddElement DEF Takers
<1> QED BY <1>1, <1>2, FS_Subset, FS_CardinalityType

LEMMA CountsAreNat ==
  /\ \A q, e, cs : cs \subseteq Consumers => Unacked(q, e, cs) \in Nat
  /\ \A ks, l : ks \subseteq Takers => Cardinality({k \in ks : held[k] = l}) \in Nat
<1>1. ASSUME NEW q, NEW e, NEW cs, cs \subseteq Consumers
      PROVE  Unacked(q, e, cs) \in Nat
  <2>1. {c \in cs : Listens(c) = q /\ unacked[c] = e} \in SUBSET Consumers
    BY <1>1
  <2> QED BY <2>1, HandsCount DEF Unacked
<1>2. ASSUME NEW ks, NEW l, ks \subseteq Takers
      PROVE  Cardinality({k \in ks : held[k] = l}) \in Nat
  <2>1. {k \in ks : held[k] = l} \in SUBSET Takers
    BY <1>2
  <2> QED BY <2>1, HandsCount
<1> QED BY <1>1, <1>2

(* The broker's hand on a bag is a step of one of few forms.               *)
LEMMA BreakTyped ==
  ASSUME BusTyped, NEW p \in Procs, NEW es, Break(p, es)
  PROVE  /\ ready' \in Bags
         /\ sending' \in [Tasks -> Events \union {None}]
         /\ unacked' \in [Consumers -> Events \union {None}]
         /\ es \subseteq Events
<1>1. \A q \in Queues, e \in Events : Routed(es)[q][e] \in Nat
  BY RouteAll DEF BusTyped, Bags
<1>2. \A q, e : Unacked(q, e, ConsumersOf(p)) \in Nat
  BY CountsAreNat DEF ConsumersOf
<1>3. ready' \in Bags
  BY <1>1, <1>2 DEF Break, Bags
<1>4. es \subseteq Events
  BY DEF Break, BusTyped, PublisherTyped, TasksOf
<1> QED BY <1>3, <1>4 DEF Break, Cleared, BusTyped, PublisherTyped, MailTyped

LEMMA RelinquishTyped ==
  ASSUME MailTyped, NEW ks, ks \subseteq Takers, Relinquish(ks)
  PROVE  /\ dead' \in Bags /\ strays' \in Nat
         /\ held' \in [Takers -> InHand \union {None}] /\ told' \subseteq Takers
<1>1. \A q \in Queues, e \in Events : dead[q][e] \in Nat
  BY DEF MailTyped, Bags
<1> DEFINE back(q, e) == Cardinality({k \in ks : held[k] = Letter(q, e)})
<1>2. \A q, e : back(q, e) \in Nat
  BY CountsAreNat
<1>3. dead' = [q \in Queues |-> [e \in Events |-> dead[q][e] + back(q, e)]]
  BY DEF Relinquish
<1> HIDE DEF back
<1>4. dead' \in Bags
  BY <1>1, <1>2, <1>3 DEF Bags
<1>5. strays' \in Nat
  <2>1. Cardinality({k \in ks : held[k] = Stray}) \in Nat
    BY CountsAreNat
  <2> QED BY <2>1 DEF Relinquish, MailTyped
<1> QED BY <1>4, <1>5 DEF Relinquish, Cleared, MailTyped

LEMMA CastTyped ==
  ASSUME PublisherTyped, NEW p \in Procs, NEW es
  PROVE  /\ Cast(p, es) \in [Procs -> [Events -> Nat]]
         /\ \A r \in Procs, e \in Events :
              Cast(p, es)[r][e] = cast[r][e] + IF r = p /\ e \in es THEN 1 ELSE 0
<1> DEFINE row == [e \in Events |-> cast[p][e] + IF e \in es THEN 1 ELSE 0]
<1>1. /\ \A r \in Procs : cast[r] \in [Events -> Nat]
      /\ \A r \in Procs, e \in Events : cast[r][e] \in Nat
  BY DEF PublisherTyped
<1>2. Cast(p, es) = [r \in Procs |-> IF r = p THEN row ELSE cast[r]]
  BY DEF Cast, PublisherTyped
<1>3. row \in [Events -> Nat]
      /\ \A e \in Events : row[e] = cast[p][e] + IF e \in es THEN 1 ELSE 0
  BY <1>1
<1> HIDE DEF row
<1> QED BY <1>1, <1>2, <1>3

(* Connections, ears and the daemon have the states they are given.        *)
LEMMA StateStep == StateTyped /\ [Next]_vars => StateTyped'
<1> SUFFICES ASSUME StateTyped, [Next]_vars PROVE StateTyped'
  OBVIOUS
<1> USE DEF StateTyped
<1>1. CASE PublisherStep
  <2>1. ASSUME NEW t \in Tasks, NEW e \in Events, Publish(t, e) \/ PublishAgain(t, e)
        PROVE  StateTyped'
    BY <2>1 DEF Publish, PublishAgain, build
  <2>2. ASSUME NEW t \in Tasks, Accept(t) \/ Unroutable(t) PROVE StateTyped'
    BY <2>2 DEF Accept, Unroutable, build
  <2>3. ASSUME NEW p \in Procs, LoseConnection(p) PROVE StateTyped'
    BY <2>3 DEF LoseConnection, Disconnected, Cut
  <2>4. ASSUME NEW p \in Procs, Crash(p) PROVE StateTyped'
    BY <2>4 DEF Crash, Cleared
  <2> QED BY <1>1, <2>1, <2>2, <2>3, <2>4 DEF PublisherStep
<1>2. CASE ConsumerStep
  BY <1>2 DEF ConsumerStep, Attach, Ack, Nack, Deliver, build
<1>3. CASE DaemonStep
  BY <1>3 DEF DaemonStep, DaemonStarts, DaemonDies, DaemonLosesConnection, Announce,
              AnnounceRaises, Bury, DaemonTakes, DaemonTakesStray, ReadDepth, Judge,
              JudgeRaises, StrayArrives, build
<1>4. CASE ReplayStep
  BY <1>4 DEF ReplayStep, StartReplay, ReplayFindsNone, Republish, RepublishRaises,
              ReplayAcks, ReplayDies, ReplayTakes, ReplayTakesStray, build
<1>5. CASE UNCHANGED vars
  BY <1>5 DEF vars, build
<1>6. ASSUME NEW p \in Procs, BuildStep(p) \/ DeleteRaises(p) PROVE StateTyped'
  <2>1. CASE Connect(p) \/ Mismatch(p)
    BY <2>1 DEF Connect, Mismatch
  <2>2. CASE Declare(p)
    BY <2>2 DEF Declare, Advance, Declaring
  <2>3. CASE DeleteRaises(p)
    BY <2>3 DEF DeleteRaises, Advance
  <2>4. CASE BuildFails(p)
    BY <2>4 DEF BuildFails, Disconnected, Cut
  <2>5. CASE Delete(p)
    <3>1. conn' \in [Procs -> {"down", "declaring", "deleting", "redeclaring", "up"}]
          /\ old' \subseteq Old
      BY <2>5 DEF Delete, Advance
    <3>2. CASE DeleteDlq
      BY <3>1, <3>2 DEF DeleteDlq, Cut
    <3>3. CASE DeleteQueue(At(p)[2])
      BY <3>1, <3>3 DEF DeleteQueue, Cut
    <3> QED BY <2>5, <3>2, <3>3 DEF Delete
  <2> QED BY <1>6, <2>1, <2>2, <2>3, <2>4, <2>5 DEF BuildStep
<1> QED BY <1>1, <1>2, <1>3, <1>4, <1>5, <1>6 DEF Next

LEMMA PublisherFrame ==
  ASSUME ConsumerStep \/ DaemonStep \/ ReplayStep \/ UNCHANGED vars
  PROVE  UNCHANGED publisher /\ UNCHANGED build
BY DEF ConsumerStep, Attach, Ack, Nack, Deliver,
       DaemonStep, DaemonStarts, DaemonDies, DaemonLosesConnection, Announce,
       AnnounceRaises, Bury, DaemonTakes, DaemonTakesStray, ReadDepth, Judge,
       JudgeRaises, StrayArrives,
       ReplayStep, StartReplay, ReplayFindsNone, Republish, RepublishRaises,
       ReplayAcks, ReplayDies, ReplayTakes, ReplayTakesStray, vars

(* Only a connection that fails disturbs, of the build, what is published. *)
LEMMA BuildFrame ==
  ASSUME NEW p \in Procs, BuildStep(p) \/ DeleteRaises(p)
  PROVE  UNCHANGED publisher \/ Disconnected(p, {})
BY DEF BuildStep, DeleteRaises, Connect, Mismatch, Declare, Delete, BuildFails

LEMMA PublisherStepTyped == BusTyped /\ [Next]_vars => PublisherTyped'
<1> SUFFICES ASSUME BusTyped, [Next]_vars PROVE PublisherTyped'
  OBVIOUS
<1> USE Processes DEF BusTyped, PublisherTyped
<1>1. ASSUME NEW t \in Tasks, NEW e \in Events, Publish(t, e) \/ PublishAgain(t, e)
      PROVE  PublisherTyped'
  <2>1. CASE Publish(t, e)
    BY <2>1 DEF Publish
  <2>2. CASE PublishAgain(t, e)
    BY <2>2 DEF PublishAgain
  <2> QED BY <1>1, <2>1, <2>2
<1>2. ASSUME NEW t \in Tasks, Accept(t) PROVE PublisherTyped'
  BY <1>2, CastTyped DEF Accept
<1>3. ASSUME NEW t \in Tasks, Unroutable(t) PROVE PublisherTyped'
  BY <1>3 DEF Unroutable
<1>4. ASSUME NEW p \in Procs, NEW es, Disconnected(p, es) PROVE PublisherTyped'
  <2>1. Break(p, es) /\ cast' = Cast(p, es)
    BY <1>4 DEF Disconnected
  <2>2. {sending[t] : t \in TasksOf(p)} \ {None} \subseteq Events
    BY DEF TasksOf
  <2> QED BY <1>4, <2>1, <2>2, BreakTyped, CastTyped DEF Disconnected
<1>5. ASSUME NEW p \in Procs, Crash(p) PROVE PublisherTyped'
  <2>1. PICK es \in SUBSET Events : Break(p, es)
    BY <1>5 DEF Crash
  <2>2. [e \in Events |-> 0] \in [Events -> Nat]
    OBVIOUS
  <2> QED BY <1>5, <2>1, <2>2, BreakTyped DEF Crash
<1>6. CASE UNCHANGED publisher
  BY <1>6 DEF publisher
<1>7. ASSUME NEW p \in Procs, LoseConnection(p) PROVE PublisherTyped'
  BY <1>4, <1>7 DEF LoseConnection
<1> QED BY <1>1, <1>2, <1>3, <1>4, <1>5, <1>6, <1>7, PublisherFrame, BuildFrame
        DEF Next, PublisherStep

mail == <<ready, dead, strays, unacked, held, told, buried, announced>>

LEMMA MailStepTyped == BusTyped /\ [Next]_vars => MailTyped'
<1> SUFFICES ASSUME BusTyped, [Next]_vars PROVE MailTyped'
  OBVIOUS
<1> USE DEF BusTyped
<1>1. CASE UNCHANGED mail
  BY <1>1 DEF mail, MailTyped
<1>2. ASSUME NEW t \in Tasks, Accept(t) PROVE MailTyped'
  BY <1>2, RouteAll DEF Accept, MailTyped, letters, history
<1>3. ASSUME NEW p \in Procs, Delete(p) PROVE MailTyped'
  <2>1. CASE DeleteDlq
    <3>1. \A l \in InHand \union {None} : Orphan(l) \in InHand \union {None}
      BY DEF Orphan, InHand, Stray, Letter
    <3> QED BY <1>3, <2>1, <3>1, NothingTyped
            DEF Delete, DeleteDlq, MailTyped, history, Takers
  <2>2. CASE DeleteQueue(At(p)[2])
    <3>1. ready' \in Bags
      BY <2>2 DEF DeleteQueue, MailTyped, Bags
    <3> QED BY <1>3, <2>2, <3>1 DEF Delete, DeleteQueue, MailTyped, letters, history
  <2> QED BY <1>3, <2>1, <2>2 DEF Delete
<1>4. ASSUME NEW p \in Procs, NEW es, Break(p, es), UNCHANGED <<letters, history>>
      PROVE  MailTyped'
  BY <1>4, BreakTyped DEF MailTyped, letters, history
<1>5. ASSUME NEW c \in Consumers, NEW e \in Events, Deliver(c, e) PROVE MailTyped'
  <2>1. ready' \in Bags
    BY <1>5, Processes, TakeOne DEF Deliver, MailTyped
  <2> QED BY <1>5, <2>1 DEF Deliver, MailTyped, letters, history
<1>6. ASSUME NEW c \in Consumers, Ack(c) PROVE MailTyped'
  BY <1>6 DEF Ack, MailTyped, letters, history
<1>7. ASSUME NEW c \in Consumers, Nack(c) PROVE MailTyped'
  <2>1. dead' \in Bags
    BY <1>7, Processes, PutOne DEF Nack, MailTyped
  <2> QED BY <1>7, <2>1 DEF Nack, MailTyped, history
<1>8. ASSUME NEW k \in Takers, NEW q \in Queues, NEW e \in Events, TakeLetter(k, q, e),
             UNCHANGED <<ready, unacked, history>>
      PROVE  MailTyped'
  <2>1. dead' \in Bags
    BY <1>8, TakeOne DEF TakeLetter, MailTyped
  <2>2. Letter(q, e) \in InHand
    BY DEF Letter, InHand
  <2> QED BY <1>8, <2>1, <2>2 DEF TakeLetter, MailTyped, history
<1>9. ASSUME NEW s \in Slots, Announce(s) PROVE MailTyped'
  BY <1>9 DEF Announce, MailTyped, Takers
<1>10. ASSUME NEW k \in Takers, Drop(k), UNCHANGED <<ready, unacked, announced>>,
              buried' = buried \/ (held[k] # None /\ buried' = buried \union {held[k]})
       PROVE  MailTyped'
  BY <1>10 DEF Drop, MailTyped
<1>11. ASSUME NEW ks, ks \subseteq Takers, Relinquish(ks),
              UNCHANGED <<ready, unacked, history>>
       PROVE  MailTyped'
  BY <1>11, RelinquishTyped DEF MailTyped, history
<1>18. ASSUME NEW k \in Takers, TakeStray(k), UNCHANGED <<ready, unacked, history>>
       PROVE  MailTyped'
  <2>1. Stray \in InHand
    BY DEF Stray, Letter, InHand
  <2> QED BY <1>18, <2>1 DEF TakeStray, MailTyped, history
<1>12. CASE Republish
  BY <1>12, RouteAll DEF Republish, MailTyped, Takers, history
<1>13. CASE PublisherStep
  <2>1. ASSUME NEW p \in Procs, LoseConnection(p) PROVE MailTyped'
    BY <1>4, <2>1 DEF LoseConnection, Disconnected
  <2>2. ASSUME NEW p \in Procs, Crash(p) PROVE MailTyped'
    BY <1>4, <2>2 DEF Crash
  <2> QED BY <1>1, <1>2, <1>13, <2>1, <2>2
          DEF PublisherStep, Publish, PublishAgain, Unroutable, mail, letters, history
<1>14. CASE ConsumerStep
  BY <1>1, <1>5, <1>6, <1>7, <1>14
     DEF ConsumerStep, Attach, mail, letters, history
<1>15. CASE DaemonStep
  <2>1. ASSUME NEW s \in Slots, AnnounceRaises(s) \/ Bury(s) PROVE MailTyped'
    BY <1>10, <2>1 DEF AnnounceRaises, Bury, Takers, history
  <2>2. ASSUME NEW s \in Slots, NEW q \in Queues, NEW e \in Events, DaemonTakes(s, q, e)
        PROVE  MailTyped'
    BY <1>8, <2>2 DEF DaemonTakes, Takers
  <2>3. CASE DaemonDies \/ DaemonLosesConnection
    BY <1>11, <2>3 DEF DaemonDies, DaemonLosesConnection, Takers
  <2>4. CASE DaemonStarts \/ ReadDepth \/ Judge
    BY <1>1, <2>4 DEF DaemonStarts, ReadDepth, Judge, mail, letters, history
  <2>5. CASE JudgeRaises
    BY <1>11, <2>5 DEF JudgeRaises, Takers
  <2>6. CASE StrayArrives
    BY <2>6 DEF StrayArrives, MailTyped, history
  <2>7. ASSUME NEW s \in Slots, DaemonTakesStray(s) PROVE MailTyped'
    BY <1>18, <2>7 DEF DaemonTakesStray, Takers
  <2> QED BY <1>9, <1>15, <2>1, <2>2, <2>3, <2>4, <2>5, <2>6, <2>7 DEF DaemonStep
<1>16. CASE ReplayStep
  <2>1. ASSUME NEW q \in Queues, NEW e \in Events, ReplayTakes(q, e) PROVE MailTyped'
    BY <1>8, <2>1 DEF ReplayTakes, Takers
  <2>2. CASE RepublishRaises
    BY <1>10, <2>2 DEF RepublishRaises, Takers, history
  <2>3. CASE ReplayAcks
    <3>1. Drop(Replay) /\ UNCHANGED <<ready, unacked, history>>
      BY <2>3 DEF ReplayAcks
    <3> QED BY <3>1 DEF Drop, MailTyped, history
  <2>4. CASE ReplayDies
    BY <1>11, <2>4 DEF ReplayDies, Takers
  <2>5. CASE StartReplay \/ ReplayFindsNone
    BY <1>1, <2>5 DEF StartReplay, ReplayFindsNone, mail, letters, history
  <2>6. CASE ReplayTakesStray
    BY <1>18, <2>6 DEF ReplayTakesStray, Takers
  <2> QED BY <1>12, <1>16, <2>1, <2>2, <2>3, <2>4, <2>5, <2>6 DEF ReplayStep
<1>17. CASE UNCHANGED vars
  BY <1>1, <1>17 DEF vars, mail, letters, history
<1>19. ASSUME NEW p \in Procs, BuildStep(p) \/ DeleteRaises(p) PROVE MailTyped'
  <2>1. CASE Connect(p) \/ Mismatch(p) \/ Declare(p) \/ DeleteRaises(p)
    BY <1>1, <2>1 DEF Connect, Mismatch, Declare, DeleteRaises, mail, letters, history
  <2>2. CASE BuildFails(p)
    BY <1>4, <2>2 DEF BuildFails, Disconnected
  <2> QED BY <1>3, <1>19, <2>1, <2>2 DEF BuildStep
<1> QED BY <1>13, <1>14, <1>15, <1>16, <1>17, <1>19 DEF Next

LEMMA TypedInit == Init => BusTyped
BY NothingTyped
   DEF Init, BusTyped, StateTyped, PublisherTyped, MailTyped

(* Every variable but the probe's keeps to its type: no queue ever counts  *)
(* fewer than no copies, and what is in hand is an event of the system.    *)
THEOREM BusTypes == Spec => []BusTyped
<1>1. Init => BusTyped
  BY TypedInit
<1>2. BusTyped /\ [Next]_vars => BusTyped'
  BY StateStep, PublisherStepTyped, MailStepTyped DEF BusTyped
<1> QED BY <1>1, <1>2, PTL DEF Spec

-----------------------------------------------------------------------------
(* Publishing.  An event that is on its way or has been taken is in the    *)
(* seen-set of its bus, so no other task of that bus sends it, and one     *)
(* that is in the seen-set is on its way, has been taken or has failed.    *)

SendingIsSeen ==
  \A t \in Tasks : sending[t] # None => sending[t] \in seen[ProcOf[t]]

OneSender ==
  \A t, u \in Tasks :
    t # u /\ ProcOf[t] = ProcOf[u] /\ sending[t] # None => sending[t] # sending[u]

CastIsSeen ==
  \A p \in Procs, e \in Events :
    /\ cast[p][e] \in {0, 1}
    /\ cast[p][e] = 1 =>
         e \in seen[p] /\ \A t \in Tasks : ProcOf[t] = p => sending[t] # e

SeenHasOutcome ==
  \A p \in Procs : \A e \in seen[p] :
    \/ cast[p][e] > 0 \/ e \in failed[p]
    \/ \E t \in Tasks : ProcOf[t] = p /\ sending[t] = e

ReturnedIsSeen == \A p \in Procs : returned[p] \subseteq seen[p]

PubInv == SendingIsSeen /\ OneSender /\ CastIsSeen /\ SeenHasOutcome /\ ReturnedIsSeen

(* What the tasks of a lost connection were sending they send no more.     *)
LEMMA BreakSending ==
  ASSUME PublisherTyped, NEW p \in Procs, NEW es, Break(p, es)
  PROVE  /\ \A t \in Tasks : sending'[t] = IF ProcOf[t] = p THEN None ELSE sending[t]
         /\ es \subseteq Events
         /\ \A e \in es : \E t \in Tasks : ProcOf[t] = p /\ sending[t] = e
BY DEF Break, Cleared, TasksOf, PublisherTyped

(* Publishing takes the lock of the seen-set before it sends, a broker's   *)
(* answer ends what it answers, and a lost connection ends all its sends.  *)
LEMMA PublishStep == BusTyped /\ PubInv /\ [Next]_vars => PubInv'
<1> SUFFICES ASSUME BusTyped, PubInv, [Next]_vars PROVE PubInv'
  OBVIOUS
<1>0. PublisherTyped /\ PublisherTyped'
  BY PublisherStepTyped DEF BusTyped
<1> USE Processes, EventsAssumption DEF PubInv
<1>1. ASSUME NEW t \in Tasks, NEW e \in Events, Publish(t, e) PROVE PubInv'
  <2>1. /\ e \notin seen[ProcOf[t]] /\ e # None
        /\ seen' = [seen EXCEPT ![ProcOf[t]] = @ \union {e}]
        /\ sending' = [sending EXCEPT ![t] = e] /\ sending[t] = None
        /\ UNCHANGED <<cast, returned, failed>>
    BY <1>1 DEF Publish
  <2>0. /\ \A u \in Tasks : sending'[u] = IF u = t THEN e ELSE sending[u]
        /\ \A r \in Procs, x \in Events :
             x \in seen'[r] <=> x \in seen[r] \/ (r = ProcOf[t] /\ x = e)
        /\ \A u \in Tasks : sending[u] # None => sending[u] \in Events
    BY <1>0, <2>1 DEF PublisherTyped
  <2>2. SendingIsSeen'
    BY <2>0, <2>1 DEF SendingIsSeen
  <2>3. OneSender'
    <3>1. \A u \in Tasks : ProcOf[u] = ProcOf[t] => sending[u] # e
      BY <2>1 DEF SendingIsSeen
    <3> QED BY <2>0, <3>1 DEF OneSender
  <2>4. CastIsSeen'
    BY <2>0, <2>1 DEF CastIsSeen
  <2>5. SeenHasOutcome'
    <3> SUFFICES ASSUME NEW p \in Procs, NEW x \in seen'[p]
                 PROVE  \/ cast'[p][x] > 0 \/ x \in failed'[p]
                        \/ \E u \in Tasks : ProcOf[u] = p /\ sending'[u] = x
      BY DEF SeenHasOutcome
    <3>1. CASE x \in seen[p]
      <4>1. \A u \in Tasks : sending[u] = x => sending'[u] = x
        BY <1>0, <2>1, <3>1 DEF PublisherTyped
      <4> QED BY <2>1, <3>1, <4>1 DEF SeenHasOutcome
    <3>2. CASE x \notin seen[p]
      BY <1>0, <2>1, <3>2 DEF PublisherTyped
    <3> QED BY <3>1, <3>2
  <2>6. ReturnedIsSeen'
    BY <1>0, <2>1 DEF ReturnedIsSeen, PublisherTyped
  <2> QED BY <2>2, <2>3, <2>4, <2>5, <2>6
<1>2. ASSUME NEW t \in Tasks, NEW e \in Events, PublishAgain(t, e) PROVE PubInv'
  <2>1. /\ e \in seen[ProcOf[t]]
        /\ returned' = [returned EXCEPT ![ProcOf[t]] = @ \union {e}]
        /\ UNCHANGED <<seen, sending, cast, failed>>
    BY <1>2 DEF PublishAgain
  <2>2. ReturnedIsSeen'
    BY <1>0, <2>1 DEF ReturnedIsSeen, PublisherTyped
  <2> QED BY <2>1, <2>2 DEF SendingIsSeen, OneSender, CastIsSeen, SeenHasOutcome
<1>3. ASSUME NEW t \in Tasks, Accept(t) PROVE PubInv'
  <2>0. PICK p \in Procs, e \in Events : p = ProcOf[t] /\ e = sending[t]
    BY <1>0, <1>3 DEF Accept, PublisherTyped
  <2>1. /\ e \in seen[p]
        /\ cast' = Cast(p, {e}) /\ cast[p][e] = 0
        /\ returned' = [returned EXCEPT ![p] = @ \union {e}]
        /\ sending' = [sending EXCEPT ![t] = None]
        /\ UNCHANGED <<seen, failed>>
    BY <1>0, <1>3, <2>0 DEF Accept, SendingIsSeen, CastIsSeen, PublisherTyped
  <2>2. \A r \in Procs, x \in Events :
          cast'[r][x] = IF r = p /\ x = e THEN 1 ELSE cast[r][x]
    BY <1>0, <2>1, CastTyped DEF CastIsSeen
  <2>3. /\ \A u \in Tasks : sending'[u] = IF u = t THEN None ELSE sending[u]
        /\ \A u \in Tasks : u # t /\ ProcOf[u] = p => sending[u] # e
        /\ \A r \in Procs : seen[r] \subseteq Events
    BY <1>0, <1>3, <2>0, <2>1 DEF PublisherTyped, OneSender, Accept
  <2>4. SendingIsSeen' /\ OneSender'
    BY <2>0, <2>1, <2>3 DEF SendingIsSeen, OneSender
  <2>5. ReturnedIsSeen'
    BY <1>0, <2>1 DEF ReturnedIsSeen, PublisherTyped
  <2>6. CastIsSeen'
    <3> SUFFICES ASSUME NEW r \in Procs, NEW x \in Events
                 PROVE  /\ cast'[r][x] \in {0, 1}
                        /\ cast'[r][x] = 1 =>
                             /\ x \in seen'[r]
                             /\ \A u \in Tasks : ProcOf[u] = r => sending'[u] # x
      BY DEF CastIsSeen
    <3>1. CASE r = p /\ x = e
      <4>1. cast'[r][x] = 1
        BY <2>2, <3>1
      <4>2. x \in seen'[r]
        BY <2>1, <3>1
      <4>3. \A u \in Tasks : ProcOf[u] = r => sending'[u] # x
        BY <2>0, <2>3, <3>1
      <4> QED BY <4>1, <4>2, <4>3
    <3>2. CASE ~(r = p /\ x = e)
      <4>1. cast'[r][x] = cast[r][x] /\ seen'[r] = seen[r]
        BY <2>1, <2>2, <3>2
      <4>2. \A u \in Tasks : ProcOf[u] = r /\ sending[u] # x => sending'[u] # x
        BY <2>3
      <4> QED BY <4>1, <4>2 DEF CastIsSeen
    <3> QED BY <3>1, <3>2
  <2>7. SeenHasOutcome'
    <3> SUFFICES ASSUME NEW r \in Procs, NEW x \in seen[r]
                 PROVE  \/ cast'[r][x] > 0 \/ x \in failed'[r]
                        \/ \E u \in Tasks : ProcOf[u] = r /\ sending'[u] = x
      BY <2>1 DEF SeenHasOutcome
    <3>1. CASE r = p /\ x = e
      <4>1. cast'[r][x] = 1
        BY <2>2, <3>1
      <4> QED BY <4>1
    <3>2. CASE ~(r = p /\ x = e)
      <4>1. cast'[r][x] = cast[r][x] /\ failed'[r] = failed[r]
        BY <2>0, <2>1, <2>2, <2>3, <3>2
      <4>2. \A u \in Tasks : ProcOf[u] = r /\ sending[u] = x => sending'[u] = x
        BY <2>0, <2>3, <3>2
      <4> QED BY <4>1, <4>2 DEF SeenHasOutcome
    <3> QED BY <3>1, <3>2
  <2> QED BY <2>4, <2>5, <2>6, <2>7
<1>4. ASSUME NEW t \in Tasks, Unroutable(t) PROVE PubInv'
  <2> DEFINE p == ProcOf[t]  e == sending[t]
  <2>1. /\ failed' = [failed EXCEPT ![p] = @ \union {e}]
        /\ sending' = [sending EXCEPT ![t] = None]
        /\ UNCHANGED <<seen, cast, returned>>
    BY <1>4 DEF Unroutable
  <2>2. SendingIsSeen' /\ OneSender'
    BY <1>0, <2>1 DEF SendingIsSeen, OneSender, PublisherTyped
  <2>3. CastIsSeen'
    BY <1>0, <2>1 DEF CastIsSeen, PublisherTyped
  <2>4. SeenHasOutcome'
    BY <1>0, <2>1 DEF SeenHasOutcome, PublisherTyped
  <2>5. ReturnedIsSeen'
    BY <2>1 DEF ReturnedIsSeen
  <2> QED BY <2>2, <2>3, <2>4, <2>5
<1>5. ASSUME NEW p \in Procs, NEW es, Disconnected(p, es) PROVE PubInv'
  <2>1. Break(p, es) /\ cast' = Cast(p, es)
    BY <1>5 DEF Disconnected
  <2>2. /\ failed' = [failed EXCEPT ![p] =
                        @ \union ({sending[t] : t \in TasksOf(p)} \ {None})]
        /\ UNCHANGED <<seen, returned>>
    BY <1>5 DEF Disconnected
  <2>3. \A t \in Tasks : sending'[t] = IF ProcOf[t] = p THEN None ELSE sending[t]
    BY <1>0, <2>1, BreakSending
  <2>4. \A e \in es : e \in seen[p] /\ cast[p][e] = 0
    <3> SUFFICES ASSUME NEW e \in es PROVE e \in seen[p] /\ cast[p][e] = 0
      OBVIOUS
    <3>1. PICK t \in Tasks : ProcOf[t] = p /\ sending[t] = e
      BY <1>0, <2>1, BreakSending
    <3>2. e \in Events
      BY <1>0, <2>1, BreakSending
    <3> QED BY <1>0, <3>1, <3>2 DEF SendingIsSeen, CastIsSeen
  <2>5. \A r \in Procs, x \in Events :
          cast'[r][x] = IF r = p /\ x \in es THEN 1 ELSE cast[r][x]
    BY <1>0, <2>1, <2>4, CastTyped DEF CastIsSeen
  <2>6. SendingIsSeen' /\ OneSender'
    BY <2>2, <2>3 DEF SendingIsSeen, OneSender
  <2>7. CastIsSeen'
    BY <2>2, <2>3, <2>4, <2>5 DEF CastIsSeen
  <2>8. SeenHasOutcome'
    <3> SUFFICES ASSUME NEW r \in Procs, NEW x \in seen[r]
                 PROVE  \/ cast'[r][x] > 0 \/ x \in failed'[r]
                        \/ \E u \in Tasks : ProcOf[u] = r /\ sending'[u] = x
      BY <2>2 DEF SeenHasOutcome
    <3>1. x \in Events
      BY <1>0 DEF PublisherTyped
    <3>2. CASE cast[r][x] > 0
      BY <2>5, <3>1, <3>2
    <3>3. CASE x \in failed[r]
      BY <1>0, <2>2, <3>3 DEF PublisherTyped
    <3>4. ASSUME NEW u \in Tasks, ProcOf[u] = r, sending[u] = x
          PROVE  x \in failed'[r] \/ sending'[u] = x
      BY <1>0, <2>2, <2>3, <3>1, <3>4 DEF PublisherTyped, TasksOf
    <3> QED BY <3>2, <3>3, <3>4 DEF SeenHasOutcome
  <2>9. ReturnedIsSeen'
    BY <2>2 DEF ReturnedIsSeen
  <2> QED BY <2>6, <2>7, <2>8, <2>9
<1>6. ASSUME NEW p \in Procs, Crash(p) PROVE PubInv'
  <2>1. PICK es \in SUBSET Events : Break(p, es)
    BY <1>6 DEF Crash
  <2>2. /\ \A r \in Procs : seen'[r] = IF r = p THEN {} ELSE seen[r]
        /\ \A r \in Procs : returned'[r] = IF r = p THEN {} ELSE returned[r]
        /\ \A r \in Procs : failed'[r] = IF r = p THEN {} ELSE failed[r]
        /\ \A r \in Procs, x \in Events :
             cast'[r][x] = IF r = p THEN 0 ELSE cast[r][x]
    BY <1>0, <1>6 DEF Crash, PublisherTyped
  <2>3. \A t \in Tasks : sending'[t] = IF ProcOf[t] = p THEN None ELSE sending[t]
    BY <1>0, <2>1, BreakSending
  <2>4. SendingIsSeen' /\ OneSender'
    BY <2>2, <2>3 DEF SendingIsSeen, OneSender
  <2>5. CastIsSeen'
    BY <2>2, <2>3 DEF CastIsSeen
  <2>6. SeenHasOutcome'
    <3> SUFFICES ASSUME NEW r \in Procs, NEW x \in seen'[r]
                 PROVE  \/ cast'[r][x] > 0 \/ x \in failed'[r]
                        \/ \E u \in Tasks : ProcOf[u] = r /\ sending'[u] = x
      BY DEF SeenHasOutcome
    <3>1. r # p /\ x \in seen[r] /\ x \in Events
      BY <1>0, <2>2 DEF PublisherTyped
    <3>2. cast'[r][x] = cast[r][x] /\ failed'[r] = failed[r]
      BY <2>2, <3>1
    <3>3. \A u \in Tasks : ProcOf[u] = r => sending'[u] = sending[u]
      BY <2>3, <3>1
    <3> QED BY <3>1, <3>2, <3>3 DEF SeenHasOutcome
  <2>7. ReturnedIsSeen'
    BY <2>2 DEF ReturnedIsSeen
  <2> QED BY <2>4, <2>5, <2>6, <2>7
<1>7. ASSUME NEW p \in Procs, LoseConnection(p) PROVE PubInv'
  BY <1>5, <1>7 DEF LoseConnection
<1>8. CASE UNCHANGED publisher
  BY <1>8 DEF publisher, SendingIsSeen, OneSender, CastIsSeen, SeenHasOutcome,
              ReturnedIsSeen
<1> QED BY <1>1, <1>2, <1>3, <1>4, <1>5, <1>6, <1>7, <1>8, PublisherFrame, BuildFrame
        DEF Next, PublisherStep

(* Publishing, for any tasks and processes and however often they retry.   *)
THEOREM PublishInvariance == Spec => []PubInv
<1>1. Init => PubInv
  BY EventsAssumption
     DEF Init, PubInv, SendingIsSeen, OneSender, CastIsSeen, SeenHasOutcome,
         ReturnedIsSeen
<1>2. BusTyped /\ PubInv /\ [Next]_vars => PubInv'
  BY PublishStep
<1> QED BY <1>1, <1>2, BusTypes, PTL DEF Spec

(* publish() is idempotent: the broker takes an event at most once from    *)
(* one bus, whichever of its tasks publish it, at once or again.           *)
THEOREM BusOncePerBus == Spec => []OncePerBus
<1>1. PubInv => OncePerBus
  BY DEF PubInv, CastIsSeen, OncePerBus
<1> QED BY <1>1, PublishInvariance, PTL

(* A publish that returns has routed its event, unless another publish of  *)
(* the event by the same bus has failed or has not ended.                  *)
THEOREM BusReturnedIsRouted == Spec => []ReturnedIsRouted
<1>1. PubInv => ReturnedIsRouted
  BY DEF PubInv, SeenHasOutcome, ReturnedIsSeen, ReturnedIsRouted, TasksOf
<1> QED BY <1>1, PublishInvariance, PTL

-----------------------------------------------------------------------------
(* Burial.  Whoever has been told of holds a letter, and what a slot that  *)
(* has been told of holds has been announced.                              *)

ToldHolds ==
  /\ \A k \in told : held[k] \notin {None, Stray}
  /\ \A s \in Slots : s \in told => held[s] \in announced

BuryInv == ToldHolds /\ BurialIsAnnounced

(* Only an announcement tells of a slot's letter, and whatever empties the *)
(* slot untells it.                                                        *)
LEMMA BuryStep == BusTyped /\ BuryInv /\ [Next]_vars => BuryInv'
<1> SUFFICES ASSUME BusTyped, BuryInv, [Next]_vars PROVE BuryInv'
  OBVIOUS
<1>0. /\ held \in [Takers -> InHand \union {None}] /\ told \subseteq Takers
      /\ Replay \notin Slots
      /\ \A q \in Queues, e \in Events : Letter(q, e) # None
  BY EventsAssumption DEF BusTyped, MailTyped, Letter, Letters
<1> USE <1>0 DEF BuryInv, ToldHolds, BurialIsAnnounced, Takers
<1>1. CASE UNCHANGED <<held, told, history>>
  BY <1>1 DEF history
<1>2. ASSUME NEW k \in Takers, NEW q \in Queues, NEW e \in Events, TakeLetter(k, q, e),
             UNCHANGED history
      PROVE  BuryInv'
  BY <1>2 DEF TakeLetter, history
<1>11. ASSUME NEW k \in Takers, TakeStray(k), UNCHANGED history PROVE BuryInv'
  BY <1>11 DEF TakeStray, history
<1>3. ASSUME NEW s \in Slots, Announce(s) PROVE BuryInv'
  BY <1>3 DEF Announce
<1>4. ASSUME NEW k \in Takers, Drop(k), UNCHANGED announced,
             \/ buried' = buried
             \/ /\ k \in Slots /\ (k \in told \/ held[k] = Stray)
                /\ buried' = buried \union {held[k]}
      PROVE  BuryInv'
  BY <1>4 DEF Drop
<1>5. ASSUME NEW ks, ks \subseteq Takers, Relinquish(ks), UNCHANGED history
      PROVE  BuryInv'
  BY <1>5 DEF Relinquish, Cleared, history
<1>6. CASE PublisherStep
  <2>1. UNCHANGED <<held, told, history>>
    BY <1>6 DEF PublisherStep, Publish, PublishAgain, Accept, Unroutable,
                LoseConnection, Disconnected, Crash, letters
  <2> QED BY <1>1, <2>1
<1>12. ASSUME NEW p \in Procs, BuildStep(p) \/ DeleteRaises(p) PROVE BuryInv'
  <2>1. CASE Delete(p)
    <3>1. CASE DeleteDlq
      <4>1. \A l \in InHand : l # Stray => Orphan(l) \notin {None, Stray}
        BY EventsAssumption DEF InHand, Orphan, Stray, Letter
      <4>2. /\ told' = told \ Slots /\ UNCHANGED history
            /\ held' = [k \in Takers |-> IF k = Replay THEN Orphan(held[k]) ELSE None]
        BY <2>1, <3>1 DEF Delete, DeleteDlq
      <4>3. \A k \in told' : k = Replay /\ held[k] \in InHand /\ held[k] # Stray
        BY <4>2
      <4> QED BY <4>1, <4>2, <4>3 DEF history
    <3>2. CASE DeleteQueue(At(p)[2])
      BY <1>1, <2>1, <3>2 DEF Delete, DeleteQueue, letters
    <3> QED BY <2>1, <3>1, <3>2 DEF Delete
  <2>2. CASE ~Delete(p)
    <3>1. UNCHANGED <<held, told, history>>
      BY <1>12, <2>2 DEF BuildStep, DeleteRaises, Connect, Mismatch, Declare,
                         BuildFails, Disconnected, letters
    <3> QED BY <1>1, <3>1
  <2> QED BY <2>1, <2>2
<1>7. CASE ConsumerStep
  BY <1>1, <1>7 DEF ConsumerStep, Attach, Ack, Nack, Deliver, letters
<1>8. CASE DaemonStep
  <2>1. ASSUME NEW s \in Slots, AnnounceRaises(s) PROVE BuryInv'
    BY <1>4, <2>1 DEF AnnounceRaises, history
  <2>2. ASSUME NEW s \in Slots, Bury(s) PROVE BuryInv'
    BY <1>4, <2>2 DEF Bury
  <2>3. ASSUME NEW s \in Slots, NEW q \in Queues, NEW e \in Events, DaemonTakes(s, q, e)
        PROVE  BuryInv'
    BY <1>2, <2>3 DEF DaemonTakes
  <2>4. CASE DaemonDies \/ DaemonLosesConnection
    BY <1>5, <2>4 DEF DaemonDies, DaemonLosesConnection
  <2>5. CASE DaemonStarts \/ ReadDepth \/ Judge \/ StrayArrives
    BY <1>1, <2>5 DEF DaemonStarts, ReadDepth, Judge, StrayArrives, letters
  <2>6. CASE JudgeRaises
    BY <1>5, <2>6 DEF JudgeRaises
  <2>7. ASSUME NEW s \in Slots, DaemonTakesStray(s) PROVE BuryInv'
    BY <1>11, <2>7 DEF DaemonTakesStray
  <2> QED BY <1>3, <1>8, <2>1, <2>2, <2>3, <2>4, <2>5, <2>6, <2>7 DEF DaemonStep
<1>9. CASE ReplayStep
  <2>1. ASSUME NEW q \in Queues, NEW e \in Events, ReplayTakes(q, e) PROVE BuryInv'
    BY <1>2, <2>1 DEF ReplayTakes
  <2>2. CASE RepublishRaises \/ ReplayAcks
    BY <1>4, <2>2 DEF RepublishRaises, ReplayAcks, history
  <2>3. CASE Republish
    BY <2>3 DEF Republish, history
  <2>4. CASE ReplayDies
    BY <1>5, <2>4 DEF ReplayDies
  <2>5. CASE StartReplay \/ ReplayFindsNone
    BY <1>1, <2>5 DEF StartReplay, ReplayFindsNone, letters
  <2>6. CASE ReplayTakesStray
    BY <1>11, <2>6 DEF ReplayTakesStray
  <2> QED BY <1>9, <2>1, <2>2, <2>3, <2>4, <2>5, <2>6 DEF ReplayStep
<1>10. CASE UNCHANGED vars
  BY <1>1, <1>10 DEF vars, letters
<1> QED BY <1>6, <1>7, <1>8, <1>9, <1>10, <1>12 DEF Next

(* The daemon's letters, for any number of slots and replays.              *)
THEOREM BuryInvariance == Spec => []BuryInv
<1>1. Init => BuryInv
  BY DEF Init, BuryInv, ToldHolds, BurialIsAnnounced
<1>2. BusTyped /\ BuryInv /\ [Next]_vars => BuryInv'
  BY BuryStep
<1> QED BY <1>1, <1>2, BusTypes, PTL DEF Spec

(* The daemon acks no letter that died in one of the queues before it has  *)
(* announced it, whatever dies, drops its connection or rebuilds the       *)
(* topology between the two; stray letters it acks unannounced.            *)
THEOREM BusBurialIsAnnounced == Spec => []BurialIsAnnounced
BY BuryInvariance, PTL DEF BuryInv

-----------------------------------------------------------------------------
(* Counting what is in hand: those of S for which f is v.                  *)

Counted(S, f, v) == Cardinality({x \in S : f[x] = v})

(* Between f and g the hands of ks, and no others, are emptied.            *)
Emptied(S, ks, f, g, none) ==
  /\ ks \subseteq S
  /\ \A x \in ks : g[x] = none
  /\ \A x \in S \ ks : g[x] = f[x]

(* Emptying the hands of ks takes away what they held.                     *)
LEMMA CountSplit ==
  ASSUME NEW S, IsFiniteSet(S), NEW ks, NEW f, NEW g, NEW none, NEW v, v # none,
         Emptied(S, ks, f, g, none)
  PROVE  /\ Counted(S, f, v) = Counted(ks, f, v) + Counted(S, g, v)
         /\ Counted(S, g, v) \in Nat /\ Counted(ks, f, v) \in Nat
<1> DEFINE A == {x \in ks : f[x] = v}
           B == {x \in S : g[x] = v}
<1>1. A \subseteq S /\ B \subseteq S /\ A \intersect B = {}
      /\ {x \in S : f[x] = v} = A \union B
  BY DEF Emptied
<1>2. IsFiniteSet(A) /\ IsFiniteSet(B)
  BY <1>1, FS_Subset
<1>3. Cardinality(A) \in Nat /\ Cardinality(B) \in Nat /\ Cardinality(A \intersect B) = 0
  BY <1>1, <1>2, FS_CardinalityType, FS_EmptySet
<1>4. Cardinality(A \union B) =
        Cardinality(A) + Cardinality(B) - Cardinality(A \intersect B)
  BY <1>2, FS_Union
<1> HIDE DEF A, B
<1>5. Cardinality(A \union B) = Cardinality(A) + Cardinality(B)
  BY <1>3, <1>4
<1> QED BY <1>1, <1>3, <1>5 DEF A, B, Counted

(* Emptying one hand takes away at most one.                               *)
LEMMA CountOne ==
  ASSUME NEW S, IsFiniteSet(S), NEW k, NEW f, NEW g, NEW none, NEW v, v # none,
         Emptied(S, {k}, f, g, none)
  PROVE  /\ Counted(S, f, v) = Counted(S, g, v) + IF f[k] = v THEN 1 ELSE 0
         /\ Counted(S, g, v) \in Nat
<1>2. /\ Counted(S, f, v) = Counted({k}, f, v) + Counted(S, g, v)
      /\ Counted(S, g, v) \in Nat
  BY CountSplit
<1>3. Counted({k}, f, v) = IF f[k] = v THEN 1 ELSE 0
  <2>1. CASE f[k] = v
    <3>1. {x \in {k} : f[x] = v} = {k}
      BY <2>1
    <3> QED BY <2>1, <3>1, FS_Singleton DEF Counted
  <2>2. CASE f[k] # v
    <3>1. {x \in {k} : f[x] = v} = {}
      BY <2>2
    <3> QED BY <2>2, <3>1, FS_EmptySet DEF Counted
  <2> QED BY <2>1, <2>2
<1> QED BY <1>2, <1>3

LEMMA Finite ==
  /\ IsFiniteSet(Takers)
  /\ \A q : IsFiniteSet({c \in Consumers : Listens(c) = q})
<1>1. IsFiniteSet(Takers)
  BY EventsAssumption, FS_AddElement DEF Takers
<1>2. \A q : {c \in Consumers : Listens(c) = q} \subseteq Consumers
  OBVIOUS
<1> QED BY <1>1, <1>2, SubscriptionAssumption, FS_Subset

LEMMA LetterIs ==
  ASSUME NEW q \in Queues, NEW e \in Events
  PROVE  /\ Letter(q, e) \in InHand /\ Letter(q, e) # None
         /\ Letter(q, e).from = q /\ Letter(q, e).event = e
         /\ \A l \in InHand : l = Letter(q, e) <=> l.from = q /\ l.event = e
<1>1. Letter(q, e) \in InHand
  BY DEF Letter, InHand
<1>2. \A l \in InHand : l = Letter(q, e) <=> l.from = q /\ l.event = e
  BY DEF Letter, InHand, Stray
<1>3. Letter(q, e) \in Letters
  BY DEF Letter, Letters
<1>4. Letter(q, e).from = q /\ Letter(q, e).event = e
  BY DEF Letter
<1> QED BY <1>1, <1>2, <1>3, <1>4, EventsAssumption

(* A taker takes a letter.                                                 *)
LEMMA HeldTaken ==
  ASSUME MailTyped, NEW k \in Takers, NEW l \in InHand, held[k] = None,
         held' = [held EXCEPT ![k] = l], NEW q \in Queues, NEW e \in Events
  PROVE  /\ Held(q, e)' = Held(q, e) + IF l.from = q /\ l.event = e THEN 1 ELSE 0
         /\ Held(q, e) \in Nat
<1> DEFINE f == held'  g == held
<1>1. Emptied(Takers, {k}, f, g, None) /\ f[k] = l
  BY DEF MailTyped, Emptied
<1>2. Letter(q, e) # None /\ (l = Letter(q, e) <=> l.from = q /\ l.event = e)
  BY LetterIs
<1>4. IsFiniteSet(Takers)
  BY Finite
<1> HIDE DEF f, g
<1>3. /\ Counted(Takers, f, Letter(q, e)) =
           Counted(Takers, g, Letter(q, e)) + IF f[k] = Letter(q, e) THEN 1 ELSE 0
      /\ Counted(Takers, g, Letter(q, e)) \in Nat
  BY <1>1, <1>2, <1>4, CountOne
<1> QED BY <1>1, <1>2, <1>3 DEF Held, Counted, f, g

(* A taker is done with its letter.                                        *)
LEMMA HeldDropped ==
  ASSUME MailTyped, NEW k \in Takers, held[k] # None,
         held' = [held EXCEPT ![k] = None], NEW q \in Queues, NEW e \in Events
  PROVE  /\ Held(q, e) =
              Held(q, e)' + IF held[k].from = q /\ held[k].event = e THEN 1 ELSE 0
         /\ Held(q, e)' \in Nat
<1> DEFINE f == held  g == held'
<1>1. Emptied(Takers, {k}, f, g, None) /\ f[k] \in InHand
  BY DEF MailTyped, Emptied
<1>2. Letter(q, e) # None /\ (f[k] = Letter(q, e) <=> f[k].from = q /\ f[k].event = e)
  BY <1>1, LetterIs
<1> HIDE DEF f, g
<1>3. /\ Counted(Takers, f, Letter(q, e)) =
           Counted(Takers, g, Letter(q, e)) + IF f[k] = Letter(q, e) THEN 1 ELSE 0
      /\ Counted(Takers, g, Letter(q, e)) \in Nat
  BY <1>1, <1>2, Finite, CountOne
<1> QED BY <1>1, <1>2, <1>3 DEF Held, Counted, f, g

(* Takers give back what they hold.                                        *)
LEMMA HeldRelinquished ==
  ASSUME MailTyped, NEW ks, ks \subseteq Takers, held' = Cleared(held, ks, None),
         NEW q \in Queues, NEW e \in Events
  PROVE  /\ Held(q, e) = Counted(ks, held, Letter(q, e)) + Held(q, e)'
         /\ Held(q, e)' \in Nat /\ Counted(ks, held, Letter(q, e)) \in Nat
<1> DEFINE f == held  g == held'
<1>1. Emptied(Takers, ks, f, g, None)
  BY DEF MailTyped, Cleared, Emptied
<1>2. Letter(q, e) # None
  BY LetterIs
<1> HIDE DEF f, g
<1>3. /\ Counted(Takers, f, Letter(q, e)) =
           Counted(ks, f, Letter(q, e)) + Counted(Takers, g, Letter(q, e))
      /\ Counted(Takers, g, Letter(q, e)) \in Nat
      /\ Counted(ks, f, Letter(q, e)) \in Nat
  BY <1>1, <1>2, Finite, CountSplit
<1> QED BY <1>3 DEF Held, Counted, f, g

(* The consumers of a queue.                                               *)
Listeners(q) == {c \in Consumers : Listens(c) = q}

(* A consumer takes a copy, or is done with it: at its queue one more, or  *)
(* one fewer, copy of the event is in hand.                                *)
LEMMA UnackedOne ==
  ASSUME NEW c \in Consumers, NEW f, NEW g, NEW q, NEW e \in Events,
         Emptied(Consumers, {c}, f, g, None)
  PROVE  /\ Counted(Listeners(q), f, e) =
              Counted(Listeners(q), g, e) + IF Listens(c) = q /\ f[c] = e THEN 1 ELSE 0
         /\ Counted(Listeners(q), g, e) \in Nat
<1> DEFINE cs == Listeners(q)
<1>1. IsFiniteSet(cs) /\ e # None
  BY Finite, EventsAssumption DEF Listeners
<1>2. CASE Listens(c) = q
  <2>1. Emptied(cs, {c}, f, g, None)
    BY <1>2 DEF Emptied, Listeners
  <2>2. /\ Counted(cs, f, e) = Counted(cs, g, e) + IF f[c] = e THEN 1 ELSE 0
        /\ Counted(cs, g, e) \in Nat
    BY <1>1, <2>1, CountOne
  <2> QED BY <1>2, <2>2
<1>3. CASE Listens(c) # q
  <2>1. Emptied(cs, {}, f, g, None)
    BY <1>3 DEF Emptied, Listeners
  <2>2. Counted(cs, f, e) = Counted({}, f, e) + Counted(cs, g, e)
        /\ Counted(cs, g, e) \in Nat
    BY <1>1, <2>1, CountSplit
  <2>3. {x \in {} : f[x] = e} = {}
    OBVIOUS
  <2>4. Counted({}, f, e) = 0
    BY <2>3, FS_EmptySet DEF Counted
  <2> QED BY <1>3, <2>2, <2>4
<1> QED BY <1>2, <1>3

LEMMA UnackedTaken ==
  ASSUME MailTyped, NEW c \in Consumers, NEW v \in Events, unacked[c] = None,
         unacked' = [unacked EXCEPT ![c] = v], NEW q \in Queues, NEW e \in Events
  PROVE  /\ Unacked(q, e, Consumers)' =
              Unacked(q, e, Consumers) + IF Listens(c) = q /\ v = e THEN 1 ELSE 0
         /\ Unacked(q, e, Consumers) \in Nat
<1> DEFINE f == unacked'  g == unacked  cs == Listeners(q)
<1>1. Emptied(Consumers, {c}, f, g, None) /\ f[c] = v
  BY DEF MailTyped, Emptied
<1>2. /\ Unacked(q, e, Consumers) = Counted(cs, g, e)
      /\ Unacked(q, e, Consumers)' = Counted(cs, f, e)
  <2>1. \A h : {d \in Consumers : Listens(d) = q /\ h[d] = e} = {d \in cs : h[d] = e}
    BY DEF Listeners
  <2> QED BY <2>1 DEF Unacked, Counted
<1> HIDE DEF f, g
<1>3. /\ Counted(cs, f, e) =
           Counted(cs, g, e) + IF Listens(c) = q /\ f[c] = e THEN 1 ELSE 0
      /\ Counted(cs, g, e) \in Nat
  BY <1>1, UnackedOne
<1> QED BY <1>1, <1>2, <1>3

LEMMA UnackedDropped ==
  ASSUME MailTyped, NEW c \in Consumers, unacked[c] # None,
         unacked' = [unacked EXCEPT ![c] = None], NEW q \in Queues, NEW e \in Events
  PROVE  /\ Unacked(q, e, Consumers) =
              Unacked(q, e, Consumers)' + IF Listens(c) = q /\ unacked[c] = e THEN 1 ELSE 0
         /\ Unacked(q, e, Consumers)' \in Nat
<1> DEFINE f == unacked  g == unacked'  cs == Listeners(q)
<1>1. Emptied(Consumers, {c}, f, g, None) /\ f[c] = unacked[c]
  BY DEF MailTyped, Emptied
<1>2. /\ Unacked(q, e, Consumers) = Counted(cs, f, e)
      /\ Unacked(q, e, Consumers)' = Counted(cs, g, e)
  <2>1. \A h : {d \in Consumers : Listens(d) = q /\ h[d] = e} = {d \in cs : h[d] = e}
    BY DEF Listeners
  <2> QED BY <2>1 DEF Unacked, Counted
<1> HIDE DEF f, g
<1>3. /\ Counted(cs, f, e) =
           Counted(cs, g, e) + IF Listens(c) = q /\ f[c] = e THEN 1 ELSE 0
      /\ Counted(cs, g, e) \in Nat
  BY <1>1, UnackedOne
<1> QED BY <1>1, <1>2, <1>3

(* The consumers of gone give back what they work on.                      *)
LEMMA UnackedReturned ==
  ASSUME MailTyped, NEW gone, gone \subseteq Consumers,
         unacked' = Cleared(unacked, gone, None), NEW q \in Queues, NEW e \in Events
  PROVE  /\ Unacked(q, e, Consumers) = Unacked(q, e, gone) + Unacked(q, e, Consumers)'
         /\ Unacked(q, e, gone) \in Nat /\ Unacked(q, e, Consumers)' \in Nat
<1> DEFINE f == unacked  g == unacked'
           cs == Listeners(q)
           ks == {d \in gone : Listens(d) = q}
<1>1. Emptied(cs, ks, f, g, None)
  BY DEF MailTyped, Emptied, Cleared, Listeners
<1>2. /\ Unacked(q, e, Consumers) = Counted(cs, f, e)
      /\ Unacked(q, e, Consumers)' = Counted(cs, g, e)
      /\ Unacked(q, e, gone) = Counted(ks, f, e)
  <2>1. \A h : /\ {d \in Consumers : Listens(d) = q /\ h[d] = e} = {d \in cs : h[d] = e}
               /\ {d \in gone : Listens(d) = q /\ h[d] = e} = {d \in ks : h[d] = e}
    BY DEF Listeners
  <2> QED BY <2>1 DEF Unacked, Counted
<1>3. IsFiniteSet(cs) /\ e # None
  BY Finite, EventsAssumption DEF Listeners
<1> HIDE DEF f, g, cs, ks
<1> QED BY <1>1, <1>2, <1>3, CountSplit

-----------------------------------------------------------------------------
(* Bus implements Mail.  Copies(q, e) is what Owed says of q and e.        *)

Copies(q, e) == ready[q][e] + dead[q][e] + Held(q, e) + Unacked(q, e, Consumers)

Hands == <<ready, dead, held, unacked>>

LEMMA CopiesAreNat ==
  ASSUME MailTyped, NEW q \in Queues, NEW e \in Events
  PROVE  /\ ready[q][e] \in Nat /\ dead[q][e] \in Nat
         /\ Held(q, e) \in Nat /\ Unacked(q, e, Consumers) \in Nat
         /\ Copies(q, e) \in Nat
<1>1. ready[q][e] \in Nat /\ dead[q][e] \in Nat
  BY DEF MailTyped, Bags
<1>2. Held(q, e) \in Nat /\ Unacked(q, e, Consumers) \in Nat
  BY CountsAreNat DEF Held
<1> QED BY <1>1, <1>2 DEF Copies

LEMMA OwedIs ==
  /\ Owed = [q \in Queues |-> [e \in Events |-> Copies(q, e)]]
  /\ Owed' = [q \in Queues |-> [e \in Events |-> Copies(q, e)']]
BY DEF Owed, Copies

LEMMA CopiesAreNatThen ==
  ASSUME MailTyped'
  PROVE  \A q \in Queues, e \in Events : Copies(q, e)' \in Nat
<1> SUFFICES ASSUME NEW q \in Queues, NEW e \in Events PROVE Copies(q, e)' \in Nat
  OBVIOUS
<1>1. ready'[q][e] \in Nat /\ dead'[q][e] \in Nat
  BY DEF MailTyped, Bags
<1>2. {k \in Takers : held'[k] = Letter(q, e)} \in SUBSET Takers
  OBVIOUS
<1>3. {c \in Consumers : Listens(c) = q /\ unacked'[c] = e} \in SUBSET Consumers
  OBVIOUS
<1>4. Held(q, e)' \in Nat /\ Unacked(q, e, Consumers)' \in Nat
  BY <1>2, <1>3, HandsCount DEF Held, Unacked
<1> QED BY <1>1, <1>4 DEF Copies

(* What Mail asks of every step about the topology.                        *)
BuildShrinks == Building' => Building

LEMMA OwedSame ==
  ASSUME \A q \in Queues, e \in Events : Copies(q, e)' = Copies(q, e)
  PROVE  Owed' = Owed
<1> DEFINE new(q, e) == Copies(q, e)'  old_(q, e) == Copies(q, e)
<1>1. \A q \in Queues, e \in Events : new(q, e) = old_(q, e)
  OBVIOUS
<1>2. /\ Owed = [q \in Queues |-> [e \in Events |-> old_(q, e)]]
      /\ Owed' = [q \in Queues |-> [e \in Events |-> new(q, e)]]
  BY OwedIs
<1> HIDE DEF new, old_
<1> QED BY <1>1, <1>2

(* Once the topology is built a publish reaches all the queues of its key, *)
(* and until then some of them.                                            *)
LEMMA OwedRoutes ==
  ASSUME NEW es \in SUBSET Events, BuildShrinks,
         \A q \in Queues, e \in Events :
           Copies(q, e)' = Copies(q, e) + IF e \in es /\ q \in BoundNow(e) THEN 1 ELSE 0
  PROVE  MailBag!Next
<1> DEFINE new(q, e) == Copies(q, e)'  old_(q, e) == Copies(q, e)
           more(q, e) == IF e \in es /\ q \in BoundNow(e) THEN 1 ELSE 0
           cs == {c \in Queues \X Events : c[2] \in es /\ c[1] \in BoundNow(c[2])}
<1>1. \A q \in Queues, e \in Events : new(q, e) = old_(q, e) + more(q, e)
  OBVIOUS
<1>2. /\ Owed = [q \in Queues |-> [e \in Events |-> old_(q, e)]]
      /\ Owed' = [q \in Queues |-> [e \in Events |-> new(q, e)]]
  BY OwedIs
<1>3. Owed' = [q \in Queues |-> [e \in Events |-> Owed[q][e] + more(q, e)]]
  <2> HIDE DEF new, old_, more
  <2> QED BY <1>1, <1>2
<1>4. \A q \in Queues, e \in Events : more(q, e) = IF <<q, e>> \in cs THEN 1 ELSE 0
  OBVIOUS
<1>5. MailBag!Add(cs)
  <2> HIDE DEF more, cs
  <2> QED BY <1>3, <1>4 DEF MailBag!Add
<1>6. CASE Building
  <2>1. cs \in SUBSET MailBag!Copies(Events)
    BY DEF MailBag!Copies, BoundNow
  <2> HIDE DEF cs
  <2> QED BY <1>5, <1>6, <2>1 DEF MailBag!RoutePart, MailBag!Next, BuildShrinks
<1>7. CASE ~Building
  <2>1. \A e \in Events : BoundNow(e) = Bound(e)
    <3>1. ASSUME NEW e \in Events, NEW q \in Bound(e) PROVE <<KeyOf[e], q>> \in Topology
      BY <3>1 DEF Bound, Topology, Queues
    <3> QED BY <1>7, <3>1 DEF Building, BoundNow
  <2>2. cs = MailBag!Copies(es)
    BY <2>1 DEF MailBag!Copies
  <2> HIDE DEF cs
  <2> QED BY <1>5, <2>2 DEF MailBag!Route, MailBag!Next, BuildShrinks
<1> QED BY <1>6, <1>7

LEMMA OwedSettles ==
  ASSUME MailTyped, NEW r \in Queues, NEW x \in Events, BuildShrinks,
         Copies(r, x) > 0,
         \A q \in Queues, e \in Events :
           Copies(q, e)' = Copies(q, e) - IF q = r /\ e = x THEN 1 ELSE 0
  PROVE  MailBag!Next
<1> DEFINE new(q, e) == Copies(q, e)'  old_(q, e) == Copies(q, e)
<1>1. /\ \A q \in Queues, e \in Events :
           new(q, e) = old_(q, e) - IF q = r /\ e = x THEN 1 ELSE 0
      /\ old_(r, x) > 0 /\ \A q \in Queues, e \in Events : old_(q, e) \in Nat
  BY CopiesAreNat
<1>2. /\ Owed = [q \in Queues |-> [e \in Events |-> old_(q, e)]]
      /\ Owed' = [q \in Queues |-> [e \in Events |-> new(q, e)]]
  BY OwedIs
<1> HIDE DEF new, old_
<1>3. Owed \in Bags /\ Owed[r][x] > 0
  BY <1>1, <1>2 DEF Bags
<1>4. /\ Take(Owed, r, x) \in Bags
      /\ \A q \in Queues, e \in Events :
           Take(Owed, r, x)[q][e] = Owed[q][e] - IF q = r /\ e = x THEN 1 ELSE 0
  BY <1>3, TakeOne
<1>5. \A q \in Queues, e \in Events : Take(Owed, r, x)[q][e] = new(q, e)
  BY <1>1, <1>2, <1>4
<1>6. Take(Owed, r, x) = [q \in Queues |-> [e \in Events |-> new(q, e)]]
  BY <1>4, <1>5 DEF Bags
<1>7. MailBag!Settle(r, x)
  BY <1>2, <1>3, <1>6 DEF MailBag!Settle, Take
<1> QED BY <1>7 DEF MailBag!Next, BuildShrinks

LEMMA OwedLoses ==
  ASSUME MailTyped, MailTyped', BuildShrinks, Building,
         \A q \in Queues, e \in Events : Copies(q, e)' <= Copies(q, e)
  PROVE  MailBag!Next
<1> DEFINE new(q, e) == Copies(q, e)'  old_(q, e) == Copies(q, e)
<1>1. \A q \in Queues, e \in Events : new(q, e) <= old_(q, e)
  OBVIOUS
<1>2. \A q \in Queues, e \in Events : new(q, e) \in Nat
  BY CopiesAreNatThen
<1>3. /\ Owed = [q \in Queues |-> [e \in Events |-> old_(q, e)]]
      /\ Owed' = [q \in Queues |-> [e \in Events |-> new(q, e)]]
  BY OwedIs
<1> HIDE DEF new, old_
<1>4. MailBag!Lose
  BY <1>1, <1>2, <1>3 DEF MailBag!Lose
<1> QED BY <1>4 DEF MailBag!Next, BuildShrinks

(* Only a 406 starts a rebuild, and a topology that is built answers none. *)
LEMMA BuildStays ==
  ASSUME StateTyped, [Next]_vars
  PROVE  BuildShrinks
<1> SUFFICES ASSUME ~Building PROVE ~Building'
  BY DEF BuildShrinks
<1>0. Topology \subseteq bound /\ old = {} /\ \A p \in Procs : conn[p] # "deleting"
  BY DEF Building
<1>1. CASE UNCHANGED build
  BY <1>0, <1>1 DEF Building, build
<1>2. ASSUME NEW p \in Procs, conn' = [conn EXCEPT ![p] = "down"], UNCHANGED <<old, bound>>
      PROVE  ~Building'
  BY <1>0, <1>2 DEF Building, StateTyped
<1>3. ASSUME NEW p \in Procs, BuildStep(p) \/ DeleteRaises(p)
      PROVE  ~Building'
  <2>1. CASE Connect(p)
    BY <1>0, <2>1 DEF Connect, Building, StateTyped
  <2>2. CASE Declare(p)
    <3>1. \A r \in Procs : conn'[r] \in {conn[r], "up"}
      BY <2>2 DEF Declare, Advance, StateTyped
    <3> QED BY <1>0, <2>2, <3>1 DEF Declare, Building
  <2>3. CASE BuildFails(p)
    BY <1>2, <2>3 DEF BuildFails, Disconnected
  <2>4. CASE Mismatch(p) \/ Delete(p) \/ DeleteRaises(p)
    BY <1>0, <2>4 DEF Mismatch, Delete, DeleteRaises
  <2> QED BY <1>3, <2>1, <2>2, <2>3, <2>4 DEF BuildStep
<1>4. CASE PublisherStep
  <2>1. ASSUME NEW t \in Tasks, NEW e \in Events, Publish(t, e) \/ PublishAgain(t, e)
        PROVE  UNCHANGED build
    BY <2>1 DEF Publish, PublishAgain
  <2>2. ASSUME NEW t \in Tasks, Accept(t) \/ Unroutable(t)
        PROVE  UNCHANGED build
    BY <2>2 DEF Accept, Unroutable
  <2>3. ASSUME NEW p \in Procs, LoseConnection(p) PROVE ~Building'
    BY <1>2, <2>3 DEF LoseConnection, Disconnected
  <2>4. ASSUME NEW p \in Procs, Crash(p) PROVE ~Building'
    BY <1>2, <2>4 DEF Crash
  <2> QED BY <1>1, <1>4, <2>1, <2>2, <2>3, <2>4 DEF PublisherStep
<1> QED BY <1>1, <1>3, <1>4, PublisherFrame DEF Next

MailStep == Owed' = Owed \/ MailBag!Next

(* A copy that changes hands is still owed.                                *)
LEMMA HandsSame ==
  ASSUME UNCHANGED Hands
  PROVE  Owed' = Owed
BY DEF Hands, Owed, Held, Unacked

LEMMA DeliverKeeps ==
  ASSUME BusTyped, NEW c \in Consumers, NEW e \in Events, Deliver(c, e)
  PROVE  Owed' = Owed
<1>1. ASSUME NEW q \in Queues, NEW x \in Events
      PROVE  Copies(q, x)' = Copies(q, x)
  <2>1. ready'[q][x] = ready[q][x] - IF q = Listens(c) /\ x = e THEN 1 ELSE 0
    BY Processes, TakeOne DEF Deliver, BusTyped, MailTyped
  <2>2. Unacked(q, x, Consumers)' =
          Unacked(q, x, Consumers) + IF Listens(c) = q /\ e = x THEN 1 ELSE 0
    BY UnackedTaken DEF Deliver, BusTyped
  <2>3. Held(q, x)' = Held(q, x) /\ dead' = dead
    BY DEF Deliver, Held, letters
  <2>4. /\ ready[q][x] \in Nat /\ dead[q][x] \in Nat
        /\ Held(q, x) \in Nat /\ Unacked(q, x, Consumers) \in Nat
    BY CopiesAreNat DEF BusTyped
  <2> QED BY <2>1, <2>2, <2>3, <2>4 DEF Copies
<1> QED BY <1>1, OwedSame

(* A copy goes where the dead letters go.                                  *)
LEMMA NackKeeps ==
  ASSUME BusTyped, NEW c \in Consumers, Nack(c), Dlq \in bound
  PROVE  Owed' = Owed
<1>0. PICK v \in Events : unacked[c] = v
  BY DEF Nack, BusTyped, MailTyped
<1>1. ASSUME NEW q \in Queues, NEW x \in Events
      PROVE  Copies(q, x)' = Copies(q, x)
  <2>1. dead'[q][x] = dead[q][x] + IF q = Listens(c) /\ x = v THEN 1 ELSE 0
    BY <1>0, Processes, PutOne DEF Nack, BusTyped, MailTyped
  <2>2. /\ Unacked(q, x, Consumers) =
             Unacked(q, x, Consumers)' + IF Listens(c) = q /\ unacked[c] = x THEN 1 ELSE 0
        /\ Unacked(q, x, Consumers)' \in Nat
    BY UnackedDropped DEF Nack, BusTyped
  <2>3. Held(q, x)' = Held(q, x) /\ ready' = ready
    BY DEF Nack, Held
  <2>4. /\ ready[q][x] \in Nat /\ dead[q][x] \in Nat
        /\ Held(q, x) \in Nat /\ Unacked(q, x, Consumers) \in Nat
    BY CopiesAreNat DEF BusTyped
  <2> QED BY <1>0, <2>1, <2>2, <2>3, <2>4 DEF Copies
<1> QED BY <1>0, <1>1, OwedSame

LEMMA TakeLetterKeeps ==
  ASSUME MailTyped, NEW k \in Takers, NEW q \in Queues, NEW e \in Events,
         TakeLetter(k, q, e), UNCHANGED <<ready, unacked>>
  PROVE  Owed' = Owed
<1>1. ASSUME NEW r \in Queues, NEW x \in Events
      PROVE  Copies(r, x)' = Copies(r, x)
  <2>1. dead'[r][x] = dead[r][x] - IF r = q /\ x = e THEN 1 ELSE 0
    BY TakeOne DEF TakeLetter, MailTyped
  <2>2. Letter(q, e) \in InHand /\ Letter(q, e).from = q /\ Letter(q, e).event = e
    BY LetterIs
  <2>3. Held(r, x)' = Held(r, x) + IF q = r /\ e = x THEN 1 ELSE 0
    BY <2>2, HeldTaken DEF TakeLetter
  <2>4. Unacked(r, x, Consumers)' = Unacked(r, x, Consumers) /\ ready' = ready
    BY DEF Unacked
  <2>5. /\ ready[r][x] \in Nat /\ dead[r][x] \in Nat
        /\ Held(r, x) \in Nat /\ Unacked(r, x, Consumers) \in Nat
    BY CopiesAreNat
  <2> QED BY <2>1, <2>3, <2>4, <2>5 DEF Copies
<1> QED BY <1>1, OwedSame

LEMMA RelinquishKeeps ==
  ASSUME MailTyped, NEW ks, ks \subseteq Takers, Relinquish(ks),
         UNCHANGED <<ready, unacked>>
  PROVE  Owed' = Owed
<1>1. ASSUME NEW q \in Queues, NEW x \in Events
      PROVE  Copies(q, x)' = Copies(q, x)
  <2>1. dead'[q][x] = dead[q][x] + Counted(ks, held, Letter(q, x))
    BY DEF Relinquish, Counted
  <2>2. /\ Held(q, x) = Counted(ks, held, Letter(q, x)) + Held(q, x)'
        /\ Held(q, x)' \in Nat /\ Counted(ks, held, Letter(q, x)) \in Nat
    BY HeldRelinquished DEF Relinquish
  <2>3. Unacked(q, x, Consumers)' = Unacked(q, x, Consumers) /\ ready' = ready
    BY DEF Unacked
  <2>4. /\ ready[q][x] \in Nat /\ dead[q][x] \in Nat
        /\ Held(q, x) \in Nat /\ Unacked(q, x, Consumers) \in Nat
    BY CopiesAreNat
  <2> QED BY <2>1, <2>2, <2>3, <2>4 DEF Copies
<1> QED BY <1>1, OwedSame

(* A stray letter is no copy of an event.                                  *)
LEMMA TakeStrayKeeps ==
  ASSUME MailTyped, NEW k \in Takers, TakeStray(k), UNCHANGED <<ready, unacked>>
  PROVE  Owed' = Owed
<1>1. ASSUME NEW r \in Queues, NEW x \in Events
      PROVE  Copies(r, x)' = Copies(r, x)
  <2>1. Stray \in InHand /\ Stray.from # r
    BY EventsAssumption DEF Stray, Letter, InHand
  <2>0. held[k] = None /\ held' = [held EXCEPT ![k] = Stray]
    BY DEF TakeStray
  <2>4. PICK l \in InHand : l = Stray
    BY <2>1
  <2>5. /\ Held(r, x)' = Held(r, x) + IF l.from = r /\ l.event = x THEN 1 ELSE 0
        /\ Held(r, x) \in Nat
    BY <2>0, <2>4, HeldTaken
  <2>2. Held(r, x)' = Held(r, x)
    BY <2>1, <2>4, <2>5
  <2>3. Unacked(r, x, Consumers)' = Unacked(r, x, Consumers) /\ ready' = ready /\ dead' = dead
    BY DEF Unacked, TakeStray
  <2> QED BY <2>2, <2>3 DEF Copies
<1> QED BY <1>1, OwedSame

(* A copy that is acked, rejected into nothing, or dropped is settled.     *)
LEMMA AckSettles ==
  ASSUME BusTyped, BuildShrinks, NEW c \in Consumers,
         unacked[c] # None, unacked' = [unacked EXCEPT ![c] = None],
         UNCHANGED <<ready, dead, held>>
  PROVE  MailBag!Next
<1>0. PICK v \in Events : unacked[c] = v
  BY DEF BusTyped, MailTyped
<1>1. ASSUME NEW q \in Queues, NEW x \in Events
      PROVE  /\ Copies(q, x)' = Copies(q, x) - IF q = Listens(c) /\ x = v THEN 1 ELSE 0
             /\ q = Listens(c) /\ x = v => Copies(q, x) > 0
  <2>1. /\ Unacked(q, x, Consumers) =
             Unacked(q, x, Consumers)' + IF Listens(c) = q /\ unacked[c] = x THEN 1 ELSE 0
        /\ Unacked(q, x, Consumers)' \in Nat
    BY UnackedDropped DEF BusTyped
  <2>2. Held(q, x)' = Held(q, x) /\ ready' = ready /\ dead' = dead
    BY DEF Held
  <2>3. /\ ready[q][x] \in Nat /\ dead[q][x] \in Nat
        /\ Held(q, x) \in Nat /\ Unacked(q, x, Consumers) \in Nat
    BY CopiesAreNat DEF BusTyped
  <2>4. /\ Unacked(q, x, Consumers) =
             Unacked(q, x, Consumers)' + IF q = Listens(c) /\ x = v THEN 1 ELSE 0
        /\ Unacked(q, x, Consumers)' \in Nat
    BY <1>0, <2>1
  <2> QED BY <2>2, <2>3, <2>4 DEF Copies
<1>3. Copies(Listens(c), v) > 0 /\ Listens(c) \in Queues /\ MailTyped
  BY <1>1, Processes DEF BusTyped
<1> QED BY <1>1, <1>3, OwedSettles

LEMMA DropSettles ==
  ASSUME MailTyped, BuildShrinks, NEW k \in Takers, Drop(k), held[k] # None,
         UNCHANGED <<ready, unacked>>
  PROVE  MailStep
<1>0. PICK l \in InHand : held[k] = l
  BY DEF MailTyped
<1>1. l.from \in Queues => l.event \in Events
  BY EventsAssumption DEF InHand, Stray, Letter
<1>2. ASSUME NEW q \in Queues, NEW x \in Events
      PROVE  /\ Copies(q, x)' = Copies(q, x) - IF q = l.from /\ x = l.event THEN 1 ELSE 0
             /\ q = l.from /\ x = l.event => Copies(q, x) > 0
             /\ Copies(q, x) \in Nat
  <2>1. /\ Held(q, x) = Held(q, x)' + IF l.from = q /\ l.event = x THEN 1 ELSE 0
        /\ Held(q, x)' \in Nat
    BY <1>0, HeldDropped DEF Drop
  <2>2. Unacked(q, x, Consumers)' = Unacked(q, x, Consumers) /\ ready' = ready
        /\ dead' = dead
    BY DEF Drop, Unacked
  <2>3. /\ ready[q][x] \in Nat /\ dead[q][x] \in Nat
        /\ Held(q, x) \in Nat /\ Unacked(q, x, Consumers) \in Nat
    BY CopiesAreNat
  <2> QED BY <2>1, <2>2, <2>3 DEF Copies
<1>3. CASE l.from \in Queues
  <2>1. Copies(l.from, l.event) > 0
    BY <1>1, <1>2, <1>3
  <2> QED BY <1>1, <1>2, <1>3, <2>1, OwedSettles DEF MailStep
<1>4. CASE l.from \notin Queues
  <2>1. \A q \in Queues, x \in Events : Copies(q, x)' = Copies(q, x)
    BY <1>2, <1>4
  <2> QED BY <2>1, OwedSame DEF MailStep
<1> QED BY <1>3, <1>4

(* What the exchange takes it puts into the queues bound to the key.       *)
LEMMA RoutedOwes ==
  ASSUME MailTyped, BuildShrinks, NEW es \in SUBSET Events, ready' = Routed(es),
         UNCHANGED <<dead, held, unacked>>
  PROVE  MailBag!Next
<1>1. ASSUME NEW q \in Queues, NEW x \in Events
      PROVE  Copies(q, x)' = Copies(q, x) + IF x \in es /\ q \in BoundNow(x) THEN 1 ELSE 0
  <2>1. ready'[q][x] = ready[q][x] + IF x \in es /\ q \in BoundNow(x) THEN 1 ELSE 0
    BY RouteAll
  <2>2. /\ Held(q, x)' = Held(q, x) /\ dead' = dead
        /\ Unacked(q, x, Consumers)' = Unacked(q, x, Consumers)
    BY DEF Held, Unacked
  <2>3. /\ ready[q][x] \in Nat /\ dead[q][x] \in Nat
        /\ Held(q, x) \in Nat /\ Unacked(q, x, Consumers) \in Nat
    BY CopiesAreNat
  <2> QED BY <2>1, <2>2, <2>3 DEF Copies
<1> QED BY <1>1, OwedRoutes

(* A connection that breaks gives back what its consumers work on, and its *)
(* unanswered publishes have reached the queues bound by now or none.      *)
LEMMA BreakOwes ==
  ASSUME BusTyped, BuildShrinks, NEW p \in Procs, NEW es, Break(p, es),
         UNCHANGED <<dead, held>>
  PROVE  MailStep
<1> USE DEF BusTyped
<1>1. ASSUME NEW q \in Queues, NEW x \in Events
      PROVE  Copies(q, x)' = Copies(q, x) + IF x \in es /\ q \in BoundNow(x) THEN 1 ELSE 0
  <2>1. ready'[q][x] = Routed(es)[q][x] + Unacked(q, x, ConsumersOf(p))
    BY DEF Break
  <2>2. Routed(es)[q][x] = ready[q][x] + IF x \in es /\ q \in BoundNow(x) THEN 1 ELSE 0
    BY RouteAll
  <2>3. /\ Unacked(q, x, Consumers) =
             Unacked(q, x, ConsumersOf(p)) + Unacked(q, x, Consumers)'
        /\ Unacked(q, x, ConsumersOf(p)) \in Nat /\ Unacked(q, x, Consumers)' \in Nat
    <3>1. ConsumersOf(p) \subseteq Consumers
      BY DEF ConsumersOf
    <3> QED BY <3>1, UnackedReturned DEF Break
  <2>4. Held(q, x)' = Held(q, x) /\ dead' = dead
    BY DEF Held
  <2>5. /\ ready[q][x] \in Nat /\ dead[q][x] \in Nat
        /\ Held(q, x) \in Nat /\ Unacked(q, x, Consumers) \in Nat
    BY CopiesAreNat
  <2> DEFINE more == IF x \in es /\ q \in BoundNow(x) THEN 1 ELSE 0
  <2>6. more \in Nat
    OBVIOUS
  <2>7. ready'[q][x] = ready[q][x] + more + Unacked(q, x, ConsumersOf(p))
    BY <2>1, <2>2
  <2> HIDE DEF more
  <2>8. Copies(q, x)' = Copies(q, x) + more
    BY <2>3, <2>4, <2>5, <2>6, <2>7 DEF Copies
  <2> QED BY <2>8 DEF more
<1>2. es \in SUBSET Events
  BY BreakTyped
<1> QED BY <1>1, <1>2, OwedRoutes DEF MailStep

(* The queue that a rebuild deletes loses its copies, or those that have   *)
(* died, and no other queue does.                                          *)
LEMMA DeleteLoses ==
  ASSUME BusTyped, MailTyped', BuildShrinks, NEW p \in Procs, Delete(p)
  PROVE  MailBag!Next
<1> USE DEF BusTyped
<1>1. Building
  BY DEF Delete, Building
<1>2. ASSUME NEW q \in Queues, NEW x \in Events
      PROVE  Copies(q, x)' <= Copies(q, x)
  <2>1. /\ ready[q][x] \in Nat /\ dead[q][x] \in Nat
        /\ Held(q, x) \in Nat /\ Unacked(q, x, Consumers) \in Nat
    BY CopiesAreNat
  <2>2. CASE DeleteDlq
    <3>1. dead'[q][x] = 0
      BY <2>2 DEF DeleteDlq, Nothing
    <3>2. Held(q, x)' = 0
      <4>1. \A k \in Takers : held'[k] # Letter(q, x)
        <5>1. None # Letter(q, x) /\ None \notin Queues
          BY LetterIs, EventsAssumption
        <5>2. \A l : Orphan(l) # Letter(q, x)
          BY <5>1 DEF Orphan, Letter
        <5> QED BY <2>2, <5>1, <5>2 DEF DeleteDlq
      <4>2. {k \in Takers : held'[k] = Letter(q, x)} = {}
        BY <4>1
      <4> QED BY <4>2, FS_EmptySet DEF Held
    <3>3. ready' = ready /\ Unacked(q, x, Consumers)' = Unacked(q, x, Consumers)
      BY <2>2 DEF DeleteDlq, Unacked
    <3> QED BY <2>1, <3>1, <3>2, <3>3 DEF Copies
  <2>3. CASE DeleteQueue(At(p)[2])
    <3>1. ready'[q][x] \in Nat /\ ready'[q][x] <= ready[q][x]
      BY <2>1, <2>3 DEF DeleteQueue
    <3>2. /\ Unacked(q, x, Consumers)' \in Nat
          /\ Unacked(q, x, Consumers)' <= Unacked(q, x, Consumers)
      <4> DEFINE gone == Listeners(At(p)[2])
      <4>1. gone \subseteq Consumers /\ unacked' = Cleared(unacked, gone, None)
        BY <2>3 DEF DeleteQueue, Cleared, Listeners, MailTyped
      <4> HIDE DEF gone
      <4>2. /\ Unacked(q, x, Consumers) = Unacked(q, x, gone) + Unacked(q, x, Consumers)'
            /\ Unacked(q, x, gone) \in Nat /\ Unacked(q, x, Consumers)' \in Nat
        BY <4>1, UnackedReturned
      <4> QED BY <4>2
    <3>3. Held(q, x)' = Held(q, x) /\ dead' = dead
      BY <2>3 DEF DeleteQueue, Held, letters
    <3> QED BY <2>1, <3>1, <3>2, <3>3 DEF Copies
  <2> QED BY <2>2, <2>3 DEF Delete
<1> QED BY <1>1, <1>2, OwedLoses

(* A stray letter is something in the hand.                                *)
LEMMA StrayIsOne == Stray # None
BY EventsAssumption DEF Stray

(* Every step of Bus is a step of Mail, or one that owes what was owed.    *)
LEMMA BusStepIsMailStep ==
  ASSUME BusTyped, BuryInv, [Next]_vars
  PROVE  MailStep
<1>0. BuildShrinks
  BY BuildStays DEF BusTyped
<1>1. CASE UNCHANGED Hands
  BY <1>1, HandsSame DEF MailStep
<1>2. ASSUME NEW k \in Takers, Drop(k), held[k] # None,
             UNCHANGED <<ready, unacked>>
      PROVE  MailStep
  BY <1>0, <1>2, DropSettles DEF BusTyped
<1>3. ASSUME NEW ks, ks \subseteq Takers, Relinquish(ks), UNCHANGED <<ready, unacked>>
      PROVE  MailStep
  BY <1>3, RelinquishKeeps DEF MailStep, BusTyped
<1>4. ASSUME NEW e \in Events, ready' = Routed({e}),
             UNCHANGED <<dead, held, unacked>>
      PROVE  MailStep
  BY <1>0, <1>4, RoutedOwes DEF MailStep, BusTyped
<1>10. ASSUME NEW p \in Procs, NEW es, Break(p, es), UNCHANGED <<dead, held>>
       PROVE  MailStep
  BY <1>0, <1>10, BreakOwes
<1>11. ASSUME NEW p \in Procs, BuildStep(p) \/ DeleteRaises(p) PROVE MailStep
  <2>1. CASE Connect(p) \/ Mismatch(p) \/ Declare(p) \/ DeleteRaises(p)
    <3>1. UNCHANGED Hands
      BY <2>1 DEF Connect, Mismatch, Declare, DeleteRaises, Hands, letters
    <3> QED BY <1>1, <3>1
  <2>2. CASE BuildFails(p)
    BY <1>10, <2>2 DEF BuildFails, Disconnected, letters
  <2>3. CASE Delete(p)
    BY <1>0, <2>3, DeleteLoses, MailStepTyped DEF MailStep
  <2> QED BY <1>11, <2>1, <2>2, <2>3 DEF BuildStep
<1>5. CASE PublisherStep
  <2>1. ASSUME NEW t \in Tasks, NEW e \in Events, Publish(t, e) \/ PublishAgain(t, e)
        PROVE  UNCHANGED Hands
    BY <2>1 DEF Publish, PublishAgain, Hands, letters
  <2>2. ASSUME NEW t \in Tasks, Accept(t) PROVE MailStep
    <3>1. sending[t] \in Events
      BY <2>2 DEF Accept, BusTyped, PublisherTyped
    <3> QED BY <1>4, <2>2, <3>1 DEF Accept, letters
  <2>3. ASSUME NEW t \in Tasks, Unroutable(t) PROVE UNCHANGED Hands
    BY <2>3 DEF Unroutable, Hands, letters
  <2>4. ASSUME NEW p \in Procs, LoseConnection(p) \/ Crash(p) PROVE MailStep
    BY <1>10, <2>4 DEF LoseConnection, Disconnected, Crash, letters
  <2> QED BY <1>1, <1>5, <2>1, <2>2, <2>3, <2>4 DEF PublisherStep
<1>6. CASE ConsumerStep
  <2>1. ASSUME NEW c \in Consumers, Attach(c) PROVE UNCHANGED Hands
    BY <2>1 DEF Attach, Hands, letters
  <2>2. ASSUME NEW c \in Consumers, Ack(c) PROVE MailStep
    BY <1>0, <2>2, AckSettles DEF Ack, MailStep, letters
  <2>3. ASSUME NEW c \in Consumers, Nack(c) PROVE MailStep
    <3>1. CASE Dlq \in bound
      BY <2>3, <3>1, NackKeeps DEF MailStep
    <3>2. CASE Dlq \notin bound
      BY <1>0, <2>3, <3>2, AckSettles DEF Nack, MailStep
    <3> QED BY <3>1, <3>2
  <2>4. ASSUME NEW c \in Consumers, NEW e \in Events, Deliver(c, e) PROVE MailStep
    BY <2>4, DeliverKeeps DEF MailStep
  <2> QED BY <1>1, <1>6, <2>1, <2>2, <2>3, <2>4 DEF ConsumerStep
<1>7. CASE DaemonStep
  <2>1. ASSUME NEW s \in Slots, Announce(s) PROVE UNCHANGED Hands
    BY <2>1 DEF Announce, Hands
  <2>2. ASSUME NEW s \in Slots, AnnounceRaises(s) \/ Bury(s) PROVE MailStep
    BY <1>2, <2>2, StrayIsOne DEF AnnounceRaises, Bury, Takers, BuryInv, ToldHolds
  <2>3. ASSUME NEW s \in Slots, NEW q \in Queues, NEW e \in Events, DaemonTakes(s, q, e)
        PROVE  MailStep
    BY <2>3, TakeLetterKeeps DEF DaemonTakes, MailStep, BusTyped, Takers
  <2>4. CASE DaemonDies \/ DaemonLosesConnection
    BY <1>3, <2>4 DEF DaemonDies, DaemonLosesConnection, Takers
  <2>5. CASE DaemonStarts \/ ReadDepth \/ Judge \/ StrayArrives
    BY <1>1, <2>5 DEF DaemonStarts, ReadDepth, Judge, StrayArrives, Hands, letters
  <2>6. CASE JudgeRaises
    BY <1>3, <2>6 DEF JudgeRaises, Takers
  <2>7. ASSUME NEW s \in Slots, DaemonTakesStray(s) PROVE MailStep
    BY <2>7, TakeStrayKeeps DEF DaemonTakesStray, MailStep, BusTyped, Takers
  <2> QED BY <1>1, <1>7, <2>1, <2>2, <2>3, <2>4, <2>5, <2>6, <2>7 DEF DaemonStep
<1>8. CASE ReplayStep
  <2>0. Replay \in Takers
    BY DEF Takers
  <2>1. ASSUME NEW q \in Queues, NEW e \in Events, ReplayTakes(q, e) PROVE MailStep
    BY <2>0, <2>1, TakeLetterKeeps DEF ReplayTakes, MailStep, BusTyped
  <2>2. CASE RepublishRaises
    BY <1>2, <2>0, <2>2 DEF RepublishRaises
  <2>3. CASE ReplayAcks
    BY <1>2, <2>0, <2>3, StrayIsOne DEF ReplayAcks, BuryInv, ToldHolds
  <2>4. CASE Republish
    <3>1. held[Replay].event \in Events
      BY <2>0, <2>4 DEF Republish, BusTyped, MailTyped, InHand
    <3> QED BY <1>4, <2>4, <3>1 DEF Republish
  <2>5. CASE ReplayDies
    BY <1>3, <2>0, <2>5 DEF ReplayDies
  <2>6. CASE StartReplay \/ ReplayFindsNone
    BY <1>1, <2>6 DEF StartReplay, ReplayFindsNone, Hands, letters
  <2>7. CASE ReplayTakesStray
    BY <2>0, <2>7, TakeStrayKeeps DEF ReplayTakesStray, MailStep, BusTyped
  <2> QED BY <1>8, <2>1, <2>2, <2>3, <2>4, <2>5, <2>6, <2>7 DEF ReplayStep
<1>9. CASE UNCHANGED vars
  BY <1>1, <1>9 DEF vars, Hands, letters
<1> QED BY <1>5, <1>6, <1>7, <1>8, <1>9, <1>11 DEF Next

(* Nothing is owed before anything is published.                           *)
LEMMA BusInitIsMailInit == Init => MailBag!Init
<1> SUFFICES ASSUME Init PROVE MailBag!Init
  OBVIOUS
<1>1. ASSUME NEW q \in Queues, NEW x \in Events
      PROVE  Copies(q, x) = 0
  <2>1. ready[q][x] = 0 /\ dead[q][x] = 0
    BY DEF Init, Nothing
  <2>2. Unacked(q, x, Consumers) = 0
    <3>1. {c \in Consumers : Listens(c) = q /\ unacked[c] = x} = {}
      BY EventsAssumption DEF Init
    <3> QED BY <3>1, FS_EmptySet DEF Unacked
  <2>3. Held(q, x) = 0
    <3>1. {k \in Takers : held[k] = Letter(q, x)} = {}
      BY LetterIs DEF Init
    <3> QED BY <3>1, FS_EmptySet DEF Held
  <2> QED BY <2>1, <2>2, <2>3 DEF Copies
<1>2. Owed = [q \in Queues |-> [e \in Events |-> 0]]
  BY <1>1, OwedIs
<1>3. Building \in BOOLEAN
  BY DEF Building
<1> QED BY <1>2, <1>3 DEF MailBag!Init

(* Bus implements Mail, for any number of processes, consumers, slots,     *)
(* faults and replays: once the topology is built it stays, and from then  *)
(* on redelivery, dead-lettering, burial, replay and the crashes between   *)
(* them neither lose nor invent a copy, and a publish reaches all the      *)
(* queues of its key or none; until then it may reach some of them, and a  *)
(* queue that is deleted loses its copies.                                 *)
THEOREM BusImplementsMail == Spec => ImplementsMail
<1>1. ASSUME BusTyped, BuryInv, [Next]_vars
      PROVE  [MailBag!Next]_<<Owed, Building>>
  <2>1. CASE MailBag!Next
    BY <2>1
  <2>2. CASE Owed' = Owed
    BY <1>1, <2>2, BuildStays DEF MailBag!Next, BusTyped, BuildShrinks
  <2> QED BY <1>1, <2>1, <2>2, BusStepIsMailStep DEF MailStep
<1>2. BusTyped /\ BuryInv /\ [Next]_vars => [MailBag!Next]_<<Owed, Building>>
  BY <1>1
<1> QED BY <1>2, BusInitIsMailInit, BusTypes, BuryInvariance, PTL
        DEF Spec, ImplementsMail, MailBag!Spec
=============================================================================
