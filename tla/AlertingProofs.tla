---------------------------- MODULE AlertingProofs ----------------------------
(***************************************************************************)
(* What Alerting guarantees for any items, triggers, caps, windows and     *)
(* number of handlers.  The inductive invariant IInv is a conjunction of   *)
(* parts; each part has a lemma that says a step preserves it, given the   *)
(* parts it needs.  Within such a lemma every action the part can notice   *)
(* has a step of its own and the others share one.                         *)
(***************************************************************************)
EXTENDS Alerting, TLAPS, FiniteSetTheorems

-----------------------------------------------------------------------------
(* Types.  TypeOK alone is not inductive: a handler that records a fate    *)
(* must be known to hold an alert.                                         *)

HeldTyped == \A h \in Handlers : Holds(h) => item[h] \in Items /\ id[h] \in Nat \ {0}

TInv == TypeOK /\ HeldTyped

(* A digest that goes on with rows it may have seen keeps its type.        *)
LEMMA ListedTyped ==
  ASSUME TInv, NEW batch \in SUBSET Alerts, Listed(batch)
  PROVE  digest' \in [phase : {"asleep", "listing", "posting", "posted"}, batch : SUBSET Alerts]
BY DEF Listed, Asleep

LEMMA PendingTyped ==
  ASSUME TInv, NEW m
  PROVE  PendingIn(m) \in SUBSET Alerts
BY DEF PendingIn, Alerts, TInv, TypeOK

LEMMA RolledBackTyped ==
  ASSUME TInv, NEW m, RolledBack(m)
  PROVE  /\ digest' \in [phase : {"asleep", "listing", "posting", "posted"}, batch : SUBSET Alerts]
         /\ faults' \in 0 .. MaxFaults
<1>1. faults' \in 0 .. MaxFaults
  BY NumbersAssumption DEF RolledBack, Fault, TInv, TypeOK
<1>2. digest.batch \in SUBSET Alerts
  BY DEF TInv, TypeOK
<1>3. Listed(digest.batch) \/ Listed(PendingIn(m))
  BY DEF RolledBack
<1> QED BY <1>1, <1>2, <1>3, ListedTyped, PendingTyped

LEMMA RecordTyped ==
  ASSUME TInv, NEW h \in Handlers, Holds(h), NEW m \in Marks, Record(h, m)
  PROVE  /\ marks' \in [Items -> SUBSET Marks]
         /\ digest' \in [phase : {"asleep", "listing", "posting", "posted"}, batch : SUBSET Alerts]
         /\ faults' \in 0 .. MaxFaults
         /\ unmarked' \subseteq Alerts
<1>1. item[h] \in Items /\ HeldBy(h) \in Alerts /\ marks \in [Items -> SUBSET Marks]
  BY DEF TInv, TypeOK, HeldTyped, HeldBy, Alerts
<1>2. marks' \in [Items -> SUBSET Marks] /\ unmarked' \subseteq Alerts
  BY <1>1 DEF Record, Marked, TInv, TypeOK
<1>3. CASE UNCHANGED <<digest, faults>>
  BY <1>2, <1>3 DEF TInv, TypeOK
<1>4. CASE RolledBack(Marked(item[h], m))
  BY <1>2, <1>4, RolledBackTyped
<1> QED BY <1>3, <1>4 DEF Record

(* The empty table and idle handlers have the declared types.              *)
LEMMA TypeInit == Init => TInv
BY NumbersAssumption
   DEF Init, TInv, HeldTyped, Holds, TypeOK, Time, Phases, Holding, Alerts,
       Asleep, Everyone

(* Every handler, digest and failure step keeps the types.                 *)
LEMMA TypeStep == TInv /\ [Next]_vars => TInv'
<1> SUFFICES ASSUME TInv, [Next]_vars PROVE TInv'
  OBVIOUS
<1> USE NumbersAssumption, RefsAssumption, NoneAssumption DEF TInv, HeldTyped,
      Holds, TypeOK, Time, Phases, Holding, Alerts, Marks,
      AtPhase, HeldBy, Go, Release, Everyone, Asleep,
      table, tasks, held, service, outside, undone
<1>1. CASE Tick
  BY <1>1 DEF Tick
<1>2. ASSUME NEW h \in Handlers, NEW t \in Triggers, Receive(h, t) PROVE TInv'
  BY <1>2 DEF Receive
<1>3. ASSUME NEW h \in Handlers, Ack(h) PROVE TInv'
  BY <1>3 DEF Ack, SettleTrigger, Finish
<1>4. ASSUME NEW h \in Handlers, NEW i \in Items, ClaimWon(h, i) PROVE TInv'
  <2>1. /\ alertId' \in [Items -> Nat] /\ firedAt' \in [Items -> Time]
        /\ marks' \in [Items -> SUBSET Marks] /\ issued' \in [Items -> Nat]
    BY <1>4 DEF ClaimWon, WriteClaim
  <2>2. /\ digest' \in [phase : {"asleep", "listing", "posting", "posted"}, batch : SUBSET Alerts]
        /\ faults' \in 0 .. MaxFaults /\ unclaimed' \subseteq Alerts
    BY <1>4, RolledBackTyped DEF ClaimWon
  <2>3. HeldTyped'
    BY <1>4 DEF ClaimWon
  <2> HIDE DEF HeldTyped
  <2> QED BY <1>4, <2>1, <2>2, <2>3 DEF ClaimWon
<1>5. ASSUME NEW h \in Handlers, NEW i \in Items, ClaimLost(h, i) PROVE TInv'
  BY <1>5 DEF ClaimLost, Claimable
<1>6. ASSUME NEW h \in Handlers, SkipMissing(h) PROVE TInv'
  BY <1>6 DEF SkipMissing
<1>7. ASSUME NEW h \in Handlers, PassThrottle(h) PROVE TInv'
  BY <1>7 DEF PassThrottle
<1>8. ASSUME NEW h \in Handlers, Suppress(h) PROVE TInv'
  BY <1>8, RecordTyped DEF Suppress
<1>9. ASSUME NEW h \in Handlers, DeliverOk(h) PROVE TInv'
  BY <1>9 DEF DeliverOk
<1>10. ASSUME NEW h \in Handlers, DeliverFails(h) PROVE TInv'
  BY <1>10 DEF DeliverFails
<1>11. ASSUME NEW h \in Handlers, MarkDelivered(h) PROVE TInv'
  BY <1>11, RecordTyped DEF MarkDelivered
<1>12. ASSUME NEW h \in Handlers, PublishDeadLetter(h) PROVE TInv'
  BY <1>12 DEF PublishDeadLetter
<1>13. ASSUME NEW h \in Handlers, AuditDeadLetter(h) PROVE TInv'
  BY <1>13, RolledBackTyped DEF AuditDeadLetter
<1>14. ASSUME NEW h \in Handlers, MarkDeadLettered(h) PROVE TInv'
  BY <1>14, RecordTyped DEF MarkDeadLettered
<1>15. CASE DigestRead \/ DigestList
  BY <1>15, ListedTyped, PendingTyped DEF DigestRead, DigestList
<1>16. CASE DigestPostOk
  BY <1>16 DEF DigestPostOk
<1>17. CASE DigestPostFails
  BY <1>17 DEF DigestPostFails
<1>18. CASE DigestMark
  BY <1>18 DEF DigestMark
<1>19. ASSUME NEW h \in Handlers, StoreRaises(h) PROVE TInv'
  BY <1>19 DEF StoreRaises, Nack, SettleTrigger, Finish
<1>20. ASSUME NEW h \in Handlers, PublishRaises(h) PROVE TInv'
  BY <1>20 DEF PublishRaises, Nack, SettleTrigger, Finish, Fault
<1>21. CASE BrokerDrop
  BY <1>21 DEF BrokerDrop, Fault, Requeue
<1>22. CASE CrashAndRestart
  BY <1>22 DEF CrashAndRestart, Fault, Requeue
<1>23. CASE LoseConnection \/ DigestMarkUndone \/ UNCHANGED vars
  BY <1>23 DEF LoseConnection, DigestMarkUndone, Fault, vars
<1>24. QED
  BY <1>1, <1>2, <1>3, <1>4, <1>5, <1>6, <1>7, <1>8, <1>9, <1>10, <1>11,
     <1>12, <1>13, <1>14, <1>15, <1>16, <1>17, <1>18, <1>19, <1>20, <1>21,
     <1>22, <1>23
     DEF Next, HandlerStep, EmitStep, DeliverStep, DigestStep, FaultStep

-----------------------------------------------------------------------------
(* Numbers.  An alert's number is at most the number of claims its item's  *)
(* handlers were told they won, and a row never holds an undone claim.     *)

Numbered ==
  /\ \A i \in Items : alertId[i] <= issued[i]
  /\ \A i \in Items, n \in Nat : <<i, n>> \in unclaimed => n <= issued[i] /\ n # alertId[i]
  /\ \A h \in Handlers : Holds(h) => id[h] <= issued[item[h]]
  /\ \A e \in egress : e[2] <= issued[e[1]]

(* A step that makes no claim and sends nothing keeps the numbers.         *)
LEMMA NumberFrame ==
  ASSUME Numbered, UNCHANGED <<alertId, issued, unclaimed, egress>>,
         \A g \in Handlers : Holds(g)' => Holds(g) /\ item'[g] = item[g] /\ id'[g] = id[g]
  PROVE  Numbered'
BY DEF Numbered

(* A new claim takes a number nothing has yet.                             *)
LEMMA NumberStep == TInv /\ Numbered /\ [Next]_vars => Numbered'
<1> SUFFICES ASSUME TInv, Numbered, [Next]_vars PROVE Numbered'
  OBVIOUS
<1>1. ASSUME NEW h \in Handlers, NEW i \in Items, ClaimWon(h, i) PROVE Numbered'
  <2>1. /\ issued' = [issued EXCEPT ![i] = issued[i] + 1] /\ egress' = egress
        /\ alertId' = alertId \/ alertId' = [alertId EXCEPT ![i] = issued[i] + 1]
        /\ unclaimed' = unclaimed \/ (/\ unclaimed' = unclaimed \union {<<i, issued[i] + 1>>}
                                      /\ alertId' = alertId)
        /\ id' = [id EXCEPT ![h] = issued[i] + 1] /\ item' = [item EXCEPT ![h] = i]
        /\ phase' = [phase EXCEPT ![h] = "claimed"]
    BY <1>1 DEF ClaimWon, WriteClaim, table, Go
  <2>2. issued \in [Items -> Nat] /\ alertId \in [Items -> Nat]
    BY DEF TInv, TypeOK
  <2>3. \A j \in Items : alertId'[j] <= issued'[j] /\ issued[j] <= issued'[j]
    BY <2>1, <2>2 DEF Numbered
  <2>4. \A j \in Items, n \in Nat : <<j, n>> \in unclaimed' => n <= issued'[j] /\ n # alertId'[j]
    <3> SUFFICES ASSUME NEW j \in Items, NEW n \in Nat, <<j, n>> \in unclaimed'
                 PROVE  n <= issued'[j] /\ n # alertId'[j]
      OBVIOUS
    <3>1. CASE <<j, n>> \in unclaimed
      <4>1. n <= issued[j] /\ n # alertId[j]
        BY <3>1 DEF Numbered
      <4> QED BY <2>1, <2>2, <2>3, <4>1
    <3>2. CASE <<j, n>> = <<i, issued[i] + 1>> /\ alertId' = alertId
      <4>1. alertId[i] <= issued[i]
        BY DEF Numbered
      <4> QED BY <2>1, <2>2, <3>2, <4>1
    <3> QED BY <2>1, <3>1, <3>2
  <2>5. \A g \in Handlers : Holds(g)' => id'[g] <= issued'[item'[g]]
    <3> SUFFICES ASSUME NEW g \in Handlers, Holds(g)' PROVE id'[g] <= issued'[item'[g]]
      OBVIOUS
    <3>1. CASE g = h
      BY <2>1, <2>2, <3>1 DEF TInv, TypeOK
    <3>2. CASE g # h
      <4>1. Holds(g) /\ item'[g] = item[g] /\ id'[g] = id[g]
        BY <2>1, <3>2 DEF Holds, TInv, TypeOK
      <4>2. id[g] <= issued[item[g]] /\ id[g] \in Nat /\ item[g] \in Items
        BY <4>1 DEF Numbered, TInv, HeldTyped
      <4>3. issued[item[g]] <= issued'[item[g]]
        BY <2>3, <4>2
      <4>4. issued'[item[g]] \in Nat
        BY <2>1, <2>2, <4>2
      <4> QED BY <2>2, <4>1, <4>2, <4>3, <4>4
    <3> QED BY <3>1, <3>2
  <2>6. \A e \in egress' : e[2] <= issued'[e[1]]
    <3> SUFFICES ASSUME NEW e \in egress PROVE e[2] <= issued'[e[1]]
      BY <2>1
    <3>1. e[1] \in Items /\ e[2] \in Nat
      BY DEF TInv, TypeOK
    <3>2. e[2] <= issued[e[1]]
      BY DEF Numbered
    <3> QED BY <2>1, <2>2, <3>1, <3>2
  <2> QED BY <2>3, <2>4, <2>5, <2>6 DEF Numbered
<1>2. ASSUME NEW h \in Handlers, PassThrottle(h) PROVE Numbered'
  <2>1. /\ UNCHANGED <<alertId, issued, unclaimed, item, id>> /\ Holds(h)
        /\ egress' = egress \union {<<item[h], id[h], now>>}
        /\ \A g \in Handlers : Holds(g)' => Holds(g)
    BY <1>2 DEF PassThrottle, table, outside, undone, AtPhase, Go, Holds, Holding, TInv, TypeOK
  <2>2. id[h] <= issued[item[h]]
    BY <2>1 DEF Numbered
  <2> QED BY <2>1, <2>2 DEF Numbered
<1>3. ASSUME NEW h \in Handlers,
             \/ (\E t \in Triggers : Receive(h, t))
             \/ (\E i \in Items : ClaimLost(h, i))
             \/ Ack(h) \/ SkipMissing(h) \/ Suppress(h) \/ DeliverOk(h)
             \/ DeliverFails(h) \/ MarkDelivered(h) \/ PublishDeadLetter(h)
             \/ AuditDeadLetter(h) \/ MarkDeadLettered(h)
             \/ StoreRaises(h) \/ PublishRaises(h)
      PROVE  Numbered'
  <2>1. UNCHANGED <<alertId, issued, unclaimed, egress>>
    BY <1>3 DEF Receive, ClaimLost, Ack, SkipMissing, Suppress, DeliverOk,
       DeliverFails, MarkDelivered, PublishDeadLetter, AuditDeadLetter, MarkDeadLettered,
       StoreRaises, PublishRaises, Nack, table, outside, undone
  <2>2. ASSUME NEW g \in Handlers, Holds(g)'
        PROVE  Holds(g) /\ item'[g] = item[g] /\ id'[g] = id[g]
    BY <1>3, <2>2 DEF Receive, ClaimLost, Ack, SkipMissing, Suppress, DeliverOk,
       DeliverFails, MarkDelivered, PublishDeadLetter, AuditDeadLetter, MarkDeadLettered,
       StoreRaises, PublishRaises, Nack, SettleTrigger, Finish, Holds, Holding,
       AtPhase, Go, Release, held, tasks, TInv, TypeOK
  <2> QED BY <2>1, <2>2, NumberFrame
<1>4. CASE
     Tick \/ DigestRead \/ DigestList \/ DigestPostOk \/ DigestPostFails \/ DigestMark \/
     LoseConnection \/ DigestMarkUndone \/ BrokerDrop \/ CrashAndRestart \/ UNCHANGED vars
  <2>1. UNCHANGED <<alertId, issued, unclaimed, egress>>
    BY <1>4 DEF Tick, DigestRead, DigestList, DigestPostOk, DigestPostFails, DigestMark,
       LoseConnection, DigestMarkUndone, BrokerDrop, CrashAndRestart, vars, table,
       outside, undone
  <2>2. ASSUME NEW g \in Handlers, Holds(g)'
        PROVE  Holds(g) /\ item'[g] = item[g] /\ id'[g] = id[g]
    BY <1>4, <2>2 DEF Tick, DigestRead, DigestList, DigestPostOk, DigestPostFails,
       DigestMark, LoseConnection, DigestMarkUndone, BrokerDrop, CrashAndRestart, vars,
       tasks, held, Holds, Holding, Everyone
  <2> QED BY <2>1, <2>2, NumberFrame
<1> QED
  BY <1>1, <1>2, <1>3, <1>4
     DEF Next, HandlerStep, EmitStep, DeliverStep, DigestStep, FaultStep

-----------------------------------------------------------------------------
(* The claim.  A held alert whose claim stands is the row's current firing *)
(* and its TTL has not run out, so no other handler can claim the item     *)
(* meanwhile; it is unsettled, unless the item is spoiled.                 *)

Fresh(h) == /\ alertId[item[h]] = id[h]
            /\ item[h] \notin Spoiled => marks[item[h]] \intersect Settled = {}
            /\ firedAt[item[h]] <= now /\ now < firedAt[item[h]] + TTL

ClaimIsFresh == \A h \in Handlers : Holds(h) /\ HeldBy(h) \notin unclaimed => Fresh(h)

HoldInv == ClaimIsFresh /\ OneHolderPerItem

(* An undone claim spoils its item.                                        *)
LEMMA Spoils ==
  /\ \A h \in Handlers : HeldBy(h) \in unclaimed => item[h] \in Spoiled
  /\ \A i, n : <<i, n>> \in unclaimed => i \in Spoiled
BY DEF Spoiled, HeldBy

(* It survives a step that makes no claim and settles no row of a standing *)
(* claim that goes on.                                                     *)
LEMMA HoldFrame ==
  ASSUME TInv, HoldInv, UNCHANGED <<now, alertId, firedAt, unclaimed>>,
         \A g \in Handlers : Holds(g)' =>
           /\ Holds(g) /\ item'[g] = item[g] /\ id'[g] = id[g]
           /\ \/ marks'[item[g]] \intersect Settled = marks[item[g]] \intersect Settled
              \/ item[g] \in Spoiled \/ HeldBy(g) \in unclaimed
  PROVE  HoldInv'
<1>1. ASSUME NEW g \in Handlers, Holds(g)' PROVE Holds(g) /\ HeldBy(g)' = HeldBy(g)
  BY <1>1 DEF HeldBy
<1>2. OneHolderPerItem'
  <2> SUFFICES ASSUME NEW g \in Handlers, NEW h \in Handlers, g # h,
                      Holds(g)', Holds(h)', item'[g] = item'[h]
               PROVE  HeldBy(g)' \in unclaimed' \/ HeldBy(h)' \in unclaimed'
    BY DEF OneHolderPerItem
  <2>1. Holds(g) /\ Holds(h) /\ item[g] = item[h]
    OBVIOUS
  <2>2. HeldBy(g) \in unclaimed \/ HeldBy(h) \in unclaimed
    BY <2>1 DEF HoldInv, OneHolderPerItem
  <2> QED BY <1>1, <2>2
<1>3. ASSUME NEW g \in Handlers, Holds(g)', HeldBy(g)' \notin unclaimed' PROVE Fresh(g)'
  <2>1. Holds(g) /\ HeldBy(g) \notin unclaimed /\ item'[g] = item[g] /\ id'[g] = id[g]
    BY <1>1, <1>3
  <2>2. Fresh(g)
    BY <2>1 DEF HoldInv, ClaimIsFresh
  <2>3. Spoiled' = Spoiled
    BY DEF Spoiled
  <2>4. item[g] \notin Spoiled => marks'[item[g]] \intersect Settled = {}
    BY <1>3, <2>1, <2>2 DEF Fresh
  <2> QED BY <2>1, <2>2, <2>3, <2>4 DEF Fresh
<1> QED BY <1>2, <1>3 DEF HoldInv, ClaimIsFresh

(* A handler that records a fate settles no row of another's standing      *)
(* claim, unless its own was undone.                                       *)
LEMMA RecordFrame ==
  ASSUME TInv, HoldInv, NEW h \in Handlers, Holds(h), NEW m \in Settled, Record(h, m),
         NEW g \in Handlers, g # h, Holds(g)
  PROVE  \/ marks'[item[g]] \intersect Settled = marks[item[g]] \intersect Settled
         \/ item[g] \in Spoiled \/ HeldBy(g) \in unclaimed
<1>1. item[g] \in Items /\ item[h] \in Items /\ marks \in [Items -> SUBSET Marks]
  BY DEF TInv, TypeOK, HeldTyped
<1>2. CASE item[g] # item[h]
  BY <1>1, <1>2 DEF Record, Marked
<1>3. CASE item[g] = item[h]
  BY <1>3, Spoils DEF HoldInv, OneHolderPerItem
<1> QED BY <1>2, <1>3

(* One holder per item, and its claim fresh, survive every step.           *)
LEMMA HoldStep == TInv /\ Numbered /\ HoldInv /\ [Next]_vars => HoldInv'
<1> SUFFICES ASSUME TInv, Numbered, HoldInv, [Next]_vars PROVE HoldInv'
  OBVIOUS
<1>1. CASE Tick
  <2>1. /\ now' = now + 1 /\ UNCHANGED <<alertId, firedAt, marks, item, id, phase, unclaimed>>
        /\ \A h \in Handlers : Holds(h) /\ HeldBy(h) \notin unclaimed =>
             now + 1 < firedAt[item[h]] + TTL
    BY <1>1 DEF Tick, table, tasks, held, outside, undone
  <2>2. \A h \in Handlers : (Holds(h)' <=> Holds(h)) /\ HeldBy(h)' = HeldBy(h)
    BY <2>1 DEF Holds, HeldBy
  <2>3. OneHolderPerItem'
    BY <2>1, <2>2 DEF HoldInv, OneHolderPerItem
  <2>4. ASSUME NEW h \in Handlers, Holds(h), HeldBy(h) \notin unclaimed
        PROVE  Fresh(h)'
    <3>1. Fresh(h) /\ item[h] \in Items
      BY <2>4 DEF HoldInv, ClaimIsFresh, TInv, HeldTyped
    <3>2. firedAt[item[h]] \in Nat /\ now \in Nat
      BY <3>1, NumbersAssumption DEF TInv, TypeOK, Time
    <3>3. Spoiled' = Spoiled
      BY <2>1 DEF Spoiled
    <3> QED BY <2>1, <2>4, <3>1, <3>2, <3>3 DEF Fresh
  <2> QED BY <2>1, <2>2, <2>3, <2>4 DEF HoldInv, ClaimIsFresh
<1>2. ASSUME NEW h \in Handlers, NEW i \in Items, ClaimWon(h, i) PROVE HoldInv'
  <2>1. /\ now' = now /\ phase[h] = "next" /\ phase' = [phase EXCEPT ![h] = "claimed"]
        /\ item' = [item EXCEPT ![h] = i] /\ id' = [id EXCEPT ![h] = issued[i] + 1]
        /\ alertId[i] = 0 \/ firedAt[i] + TTL <= now
    BY <1>2, NumbersAssumption DEF ClaimWon, Claimable, AtPhase, Go, TInv, TypeOK, Time
  <2>2. /\ Holds(h)' /\ HeldBy(h)' = <<i, issued[i] + 1>> /\ ~Holds(h)
        /\ \A g \in Handlers \ {h} :
             (Holds(g)' <=> Holds(g)) /\ HeldBy(g)' = HeldBy(g) /\ item'[g] = item[g]
             /\ id'[g] = id[g]
    BY <2>1 DEF Holds, Holding, HeldBy, TInv, TypeOK
  <2>3. unclaimed \subseteq unclaimed'
    BY <1>2 DEF ClaimWon
  <2>4. ASSUME NEW g \in Handlers, g # h, Holds(g), item[g] = i
        PROVE  HeldBy(g) \in unclaimed
    <3> SUFFICES ASSUME HeldBy(g) \notin unclaimed PROVE FALSE
      OBVIOUS
    <3>1. Fresh(g) /\ id[g] \in Nat \ {0}
      BY <2>4 DEF HoldInv, ClaimIsFresh, TInv, HeldTyped
    <3>2. firedAt[i] \in Nat /\ now \in Nat /\ alertId[i] \in Nat
      BY NumbersAssumption DEF TInv, TypeOK, Time
    <3> QED BY <2>1, <2>4, <3>1, <3>2, NumbersAssumption DEF Fresh
  <2>5. OneHolderPerItem'
    <3> SUFFICES ASSUME NEW f \in Handlers, NEW g \in Handlers, f # g,
                        Holds(f)', Holds(g)', item'[f] = item'[g]
                 PROVE  HeldBy(f)' \in unclaimed' \/ HeldBy(g)' \in unclaimed'
      BY DEF OneHolderPerItem
    <3>1. item'[h] = i
      BY <2>1 DEF TInv, TypeOK
    <3>2. CASE f = h
      BY <2>2, <2>3, <2>4, <3>1, <3>2
    <3>3. CASE g = h
      BY <2>2, <2>3, <2>4, <3>1, <3>3
    <3>4. CASE f # h /\ g # h
      BY <2>2, <2>3, <3>4 DEF HoldInv, OneHolderPerItem
    <3> QED BY <3>2, <3>3, <3>4
  <2>6. ASSUME NEW g \in Handlers, g # h, Holds(g), HeldBy(g) \notin unclaimed
        PROVE  Fresh(g)'
    <3>1. Fresh(g) /\ item[g] # i /\ item[g] \in Items
      BY <2>4, <2>6 DEF HoldInv, ClaimIsFresh, TInv, HeldTyped
    <3>2. /\ alertId'[item[g]] = alertId[item[g]] /\ firedAt'[item[g]] = firedAt[item[g]]
          /\ marks'[item[g]] = marks[item[g]]
      BY <1>2, <3>1 DEF ClaimWon, WriteClaim, table, TInv, TypeOK
    <3>3. item[g] \in Spoiled => item[g] \in Spoiled'
      BY <2>3 DEF Spoiled
    <3> QED BY <2>1, <2>2, <2>6, <3>1, <3>2, <3>3 DEF Fresh
  <2>7. HeldBy(h)' \notin unclaimed' => Fresh(h)'
    <3> SUFFICES ASSUME HeldBy(h)' \notin unclaimed' PROVE Fresh(h)'
      OBVIOUS
    <3>1. WriteClaim(i)
      BY <1>2, <2>2 DEF ClaimWon
    <3>2. /\ alertId'[i] = issued[i] + 1 /\ firedAt'[i] = now /\ marks'[i] = {}
          /\ item'[h] = i /\ id'[h] = issued[i] + 1 /\ now' = now /\ now \in Nat
      BY <2>1, <3>1, NumbersAssumption DEF WriteClaim, TInv, TypeOK, Time
    <3> QED BY <3>2, NumbersAssumption DEF Fresh
  <2>8. ClaimIsFresh'
    <3> SUFFICES ASSUME NEW g \in Handlers, Holds(g)', HeldBy(g)' \notin unclaimed'
                 PROVE  Fresh(g)'
      BY DEF ClaimIsFresh
    <3>1. CASE g = h
      BY <2>7, <3>1
    <3>2. CASE g # h
      BY <2>2, <2>3, <2>6, <3>2
    <3> QED BY <3>1, <3>2
  <2> QED BY <2>5, <2>8 DEF HoldInv
<1>3. ASSUME NEW h \in Handlers, Suppress(h) \/ MarkDelivered(h) \/ MarkDeadLettered(h)
      PROVE  HoldInv'
  <2>1. PICK m \in Settled : Record(h, m)
    BY <1>3 DEF Suppress, MarkDelivered, MarkDeadLettered, Settled
  <2>2. /\ Holds(h) /\ ~Holds(h)' /\ UNCHANGED <<now, alertId, firedAt, unclaimed>>
        /\ \A g \in Handlers \ {h} :
             (Holds(g)' <=> Holds(g)) /\ item'[g] = item[g] /\ id'[g] = id[g]
    BY <1>3 DEF Suppress, MarkDelivered, MarkDeadLettered, AtPhase, Holds, Holding,
                Go, Release, TInv, TypeOK
  <2> QED BY <2>1, <2>2, HoldFrame, RecordFrame
<1>4. CASE DigestMark
  <2>1. UNCHANGED <<now, alertId, firedAt, unclaimed, phase, item, id>>
    BY <1>4 DEF DigestMark, tasks, held, outside, undone
  <2>2. \A i \in Items : marks'[i] \intersect Settled = marks[i] \intersect Settled
    BY <1>4 DEF DigestMark, Settled, TInv, TypeOK
  <2> QED BY <2>1, <2>2, HoldFrame DEF Holds, TInv, HeldTyped
<1>5. ASSUME UNCHANGED <<now, alertId, firedAt, marks, unclaimed>>,
             \A g \in Handlers : Holds(g)' =>
               Holds(g) /\ item'[g] = item[g] /\ id'[g] = id[g]
      PROVE  HoldInv'
  BY <1>5, HoldFrame
<1>6. ASSUME NEW h \in Handlers,
             \/ (\E t \in Triggers : Receive(h, t))
             \/ (\E i \in Items : ClaimLost(h, i))
             \/ Ack(h) \/ SkipMissing(h) \/ PassThrottle(h) \/ DeliverOk(h)
             \/ DeliverFails(h) \/ PublishDeadLetter(h) \/ AuditDeadLetter(h)
             \/ StoreRaises(h) \/ PublishRaises(h)
      PROVE  HoldInv'
  <2>1. UNCHANGED <<now, alertId, firedAt, marks, unclaimed>>
    BY <1>6 DEF Receive, ClaimLost, Ack, SkipMissing, PassThrottle, DeliverOk,
       DeliverFails, PublishDeadLetter, AuditDeadLetter, StoreRaises, PublishRaises,
       Nack, table, outside, undone
  <2>2. ASSUME NEW g \in Handlers, Holds(g)'
        PROVE  Holds(g) /\ item'[g] = item[g] /\ id'[g] = id[g]
    BY <1>6, <2>2 DEF Receive, ClaimLost, Ack, SkipMissing, PassThrottle, DeliverOk,
       DeliverFails, PublishDeadLetter, AuditDeadLetter, StoreRaises, PublishRaises,
       Nack, SettleTrigger, Finish, Holds, Holding, AtPhase, Go, Release, held, tasks,
       TInv, TypeOK
  <2> QED BY <1>5, <2>1, <2>2
<1>7. CASE
     DigestRead \/ DigestList \/ DigestPostOk \/ DigestPostFails \/ LoseConnection \/
     DigestMarkUndone \/ BrokerDrop \/ CrashAndRestart \/ UNCHANGED vars
  <2>1. UNCHANGED <<now, alertId, firedAt, marks, unclaimed>>
    BY <1>7 DEF DigestRead, DigestList, DigestPostOk, DigestPostFails, LoseConnection,
       DigestMarkUndone, BrokerDrop, CrashAndRestart, vars, table, outside, undone
  <2>2. ASSUME NEW g \in Handlers, Holds(g)'
        PROVE  Holds(g) /\ item'[g] = item[g] /\ id'[g] = id[g]
    BY <1>7, <2>2 DEF DigestRead, DigestList, DigestPostOk, DigestPostFails,
       LoseConnection, DigestMarkUndone, BrokerDrop, CrashAndRestart, vars, tasks, held,
       Holds, Holding, Everyone
  <2> QED BY <1>5, <2>1, <2>2
<1> QED
  BY <1>1, <1>2, <1>3, <1>4, <1>6, <1>7
     DEF Next, HandlerStep, EmitStep, DeliverStep, DigestStep, FaultStep

-----------------------------------------------------------------------------
(* Acks.  Of the items of a trigger it will settle, a handler has claimed, *)
(* or lost the claim of, every one it no longer has to do.                 *)

DoneMeansClaimed ==
  \A h \in Handlers : msg[h] # None => \A i \in Refs[msg[h]] \ todo[h] : issued[i] > 0

AckInv == DoneMeansClaimed /\ AckedMeansClaimed

(* No step acks a trigger one of whose items was never claimed.            *)
LEMMA AckStep == TInv /\ Numbered /\ AckInv /\ [Next]_vars => AckInv'
<1> SUFFICES ASSUME TInv, Numbered, AckInv, [Next]_vars PROVE AckInv'
  OBVIOUS
<1> USE RefsAssumption, NoneAssumption DEF AckInv, DoneMeansClaimed,
      AckedMeansClaimed, TInv, TypeOK,
      AtPhase, HeldBy, Go, Marked, Record, Release, Everyone, Asleep,
      table, tasks, held, service, outside, undone
<1>1. ASSUME NEW h \in Handlers, NEW t \in Triggers, Receive(h, t) PROVE AckInv'
  BY <1>1 DEF Receive
<1>2. ASSUME NEW h \in Handlers, Ack(h) PROVE AckInv'
  BY <1>2 DEF Ack, SettleTrigger, Finish
<1>3. ASSUME NEW h \in Handlers, NEW i \in Items, ClaimWon(h, i) PROVE AckInv'
  BY <1>3 DEF ClaimWon, WriteClaim, Claimable
<1>4. ASSUME NEW h \in Handlers, NEW i \in Items, ClaimLost(h, i) PROVE AckInv'
  <2>1. issued[i] > 0
    BY <1>4 DEF ClaimLost, Claimable, Numbered
  <2> QED BY <1>4, <2>1 DEF ClaimLost
<1>5. ASSUME NEW h \in Handlers, StoreRaises(h) PROVE AckInv'
  BY <1>5 DEF StoreRaises, Nack, SettleTrigger, Finish
<1>6. ASSUME NEW h \in Handlers, PublishRaises(h) PROVE AckInv'
  BY <1>6 DEF PublishRaises, Nack, SettleTrigger, Finish, Fault
<1>7. CASE BrokerDrop
  BY <1>7 DEF BrokerDrop, Fault, Requeue
<1>8. CASE CrashAndRestart
  BY <1>8 DEF CrashAndRestart, Fault, Requeue
<1>9. ASSUME NEW h \in Handlers,
             SkipMissing(h) \/ PassThrottle(h) \/ Suppress(h) \/ DeliverOk(h)
             \/ DeliverFails(h) \/ MarkDelivered(h) \/ PublishDeadLetter(h)
             \/ AuditDeadLetter(h) \/ MarkDeadLettered(h)
      PROVE  AckInv'
  BY <1>9 DEF SkipMissing, PassThrottle, Suppress, DeliverOk, DeliverFails,
     MarkDelivered, PublishDeadLetter, AuditDeadLetter, MarkDeadLettered
<1>10. CASE
     Tick \/ DigestRead \/ DigestList \/ DigestPostOk \/ DigestPostFails \/ DigestMark \/
     LoseConnection \/ DigestMarkUndone \/ UNCHANGED vars
  BY <1>10 DEF Tick, DigestRead, DigestList, DigestPostOk, DigestPostFails, DigestMark,
     LoseConnection, DigestMarkUndone, Fault, vars
<1>11. QED
  BY <1>1, <1>2, <1>3, <1>4, <1>5, <1>6, <1>7, <1>8, <1>9, <1>10
     DEF Next, HandlerStep, EmitStep, DeliverStep, DigestStep, FaultStep

-----------------------------------------------------------------------------
(* Open alerts.  The handler that holds an item's last alert holds it.     *)

OpenIsHeld ==
  \A i \in Items : issued[i] > 0 =>
    \/ Recorded(i)
    \/ \E h \in Handlers : Holds(h) /\ HeldBy(h) = <<i, issued[i]>>
    \/ <<i, issued[i]>> \in orphaned \union unclaimed \union unmarked
    \/ i \in Missing

(* A handler that records a fate lets go of an alert that now has one, or  *)
(* was undone.                                                             *)
LEMMA RecordOpen ==
  ASSUME TInv, Numbered, HoldInv, OpenIsHeld, NEW h \in Handlers,
         Suppress(h) \/ MarkDelivered(h) \/ MarkDeadLettered(h)
  PROVE  OpenIsHeld'
<1>1. PICK m \in Settled : Record(h, m)
  BY DEF Suppress, MarkDelivered, MarkDeadLettered, Settled
<1>2. /\ Holds(h) /\ UNCHANGED <<alertId, issued, orphaned, unclaimed>>
      /\ \A g \in Handlers \ {h} : Holds(g) => Holds(g)' /\ HeldBy(g)' = HeldBy(g)
  BY DEF Suppress, MarkDelivered, MarkDeadLettered, AtPhase, Holds, Holding,
         Go, Release, HeldBy, TInv, TypeOK
<1>3. unmarked \subseteq unmarked' /\ item[h] \in Items /\ id[h] \in Nat \ {0}
  BY <1>1, <1>2 DEF Record, TInv, HeldTyped
<1>4. \A i \in Items : marks[i] \subseteq marks'[i]
  BY <1>1, <1>3 DEF Record, Marked, TInv, TypeOK
<1>5. \/ HeldBy(h) \in unclaimed \union unmarked'
      \/ (alertId[item[h]] = issued[item[h]] /\ marks'[item[h]] \intersect Settled # {})
      \/ HeldBy(h) # <<item[h], issued[item[h]]>>
  <2> SUFFICES ASSUME HeldBy(h) \notin unclaimed \union unmarked',
                      HeldBy(h) = <<item[h], issued[item[h]]>>
               PROVE  (alertId[item[h]] = issued[item[h]] /\ marks'[item[h]] \intersect Settled # {})
    OBVIOUS
  <2>1. alertId[item[h]] = id[h] /\ id[h] = issued[item[h]]
    BY <1>2 DEF HoldInv, ClaimIsFresh, Fresh, HeldBy
  <2>2. marks' = [marks EXCEPT ![item[h]] = @ \union {m}]
    BY <1>1, <1>3, <2>1 DEF Record, Marked
  <2>3. m \in marks'[item[h]]
    BY <1>3, <2>2 DEF TInv, TypeOK
  <2> QED BY <2>1, <2>3
<1> QED
  <2> SUFFICES ASSUME NEW i \in Items, issued[i] > 0
               PROVE  \/ Recorded(i)'
                      \/ \E g \in Handlers : Holds(g)' /\ HeldBy(g)' = <<i, issued[i]>>
                      \/ <<i, issued[i]>> \in orphaned \union unclaimed \union unmarked'
                      \/ i \in Missing
    BY <1>2 DEF OpenIsHeld
  <2>1. CASE Recorded(i)
    BY <1>2, <1>4, <2>1 DEF Recorded
  <2>2. ASSUME NEW g \in Handlers, Holds(g), HeldBy(g) = <<i, issued[i]>>
        PROVE  \/ Recorded(i)' \/ (Holds(g)' /\ HeldBy(g)' = <<i, issued[i]>>)
               \/ <<i, issued[i]>> \in unclaimed \union unmarked'
    <3>1. CASE g = h
      <4>1. item[h] = i
        BY <2>2, <3>1 DEF HeldBy
      <4> QED BY <1>2, <1>5, <2>2, <3>1, <4>1 DEF Recorded
    <3>2. CASE g # h
      BY <1>2, <2>2, <3>2
    <3> QED BY <3>1, <3>2
  <2> QED BY <1>2, <1>3, <2>1, <2>2 DEF OpenIsHeld

(* A handler that is told it won a claim holds the item's last alert, and  *)
(* leaves those of the other items as they are.                            *)
LEMMA ClaimOpen ==
  ASSUME TInv, OpenIsHeld, NEW h \in Handlers, NEW i \in Items, ClaimWon(h, i)
  PROVE  OpenIsHeld'
<1>1. /\ issued' = [issued EXCEPT ![i] = @ + 1] /\ ~Holds(h)
      /\ Holds(h)' /\ HeldBy(h)' = <<i, issued[i] + 1>>
      /\ \A g \in Handlers \ {h} : Holds(g)' = Holds(g) /\ HeldBy(g)' = HeldBy(g)
  BY DEF ClaimWon, AtPhase, Holds, Holding, Go, HeldBy, TInv, TypeOK
<1>2. /\ \A j \in Items \ {i} : alertId'[j] = alertId[j] /\ marks'[j] = marks[j]
      /\ unclaimed \subseteq unclaimed' /\ UNCHANGED <<orphaned, unmarked>>
  BY DEF ClaimWon, WriteClaim, table, TInv, TypeOK
<1> SUFFICES ASSUME NEW j \in Items, issued'[j] > 0
             PROVE  \/ Recorded(j)'
                    \/ \E g \in Handlers : Holds(g)' /\ HeldBy(g)' = <<j, issued'[j]>>
                    \/ <<j, issued'[j]>> \in orphaned' \union unclaimed' \union unmarked'
                    \/ j \in Missing
  BY DEF OpenIsHeld
<1>3. CASE j = i
  <2>1. issued'[j] = issued[i] + 1
    BY <1>1, <1>3 DEF TInv, TypeOK
  <2> QED BY <1>1, <1>3, <2>1
<1>4. CASE j # i
  <2>1. issued'[j] = issued[j]
    BY <1>1, <1>4 DEF TInv, TypeOK
  <2>2. CASE Recorded(j)
    BY <1>2, <1>4, <2>1, <2>2 DEF Recorded
  <2>3. CASE \E g \in Handlers : Holds(g) /\ HeldBy(g) = <<j, issued[j]>>
    BY <1>1, <2>1, <2>3
  <2> QED BY <1>2, <2>1, <2>2, <2>3 DEF OpenIsHeld
<1> QED BY <1>3, <1>4

(* No step leaves an alert without a holder or takes it away silently.     *)
LEMMA OpenStep == TInv /\ Numbered /\ HoldInv /\ OpenIsHeld /\ [Next]_vars => OpenIsHeld'
<1> SUFFICES ASSUME TInv, Numbered, HoldInv, OpenIsHeld, [Next]_vars PROVE OpenIsHeld'
  OBVIOUS
<1> USE NumbersAssumption, NoneAssumption DEF OpenIsHeld, Recorded, Settled, Numbered,
      Holds, Holding, HoldInv, ClaimIsFresh, Fresh, OneHolderPerItem, TInv,
      TypeOK, HeldTyped,
      AtPhase, HeldBy, Go, Marked, Record, Release, Everyone, Asleep,
      table, tasks, held, service, outside, undone
<1>1. ASSUME NEW h \in Handlers, NEW t \in Triggers, Receive(h, t) PROVE OpenIsHeld'
  BY <1>1 DEF Receive
<1>2. ASSUME NEW h \in Handlers, Ack(h) PROVE OpenIsHeld'
  BY <1>2 DEF Ack, SettleTrigger, Finish
<1>3. ASSUME NEW h \in Handlers, NEW i \in Items, ClaimWon(h, i) PROVE OpenIsHeld'
  BY <1>3, ClaimOpen
<1>4. ASSUME NEW h \in Handlers, NEW i \in Items, ClaimLost(h, i) PROVE OpenIsHeld'
  BY <1>4 DEF ClaimLost, Claimable
<1>5. ASSUME NEW h \in Handlers, SkipMissing(h) PROVE OpenIsHeld'
  BY <1>5 DEF SkipMissing
<1>6. ASSUME NEW h \in Handlers, PassThrottle(h) PROVE OpenIsHeld'
  BY <1>6 DEF PassThrottle
<1>7. ASSUME NEW h \in Handlers, Suppress(h) \/ MarkDelivered(h) \/ MarkDeadLettered(h)
      PROVE  OpenIsHeld'
  BY <1>7, RecordOpen
<1>8. ASSUME NEW h \in Handlers, DeliverOk(h) PROVE OpenIsHeld'
  BY <1>8 DEF DeliverOk
<1>9. ASSUME NEW h \in Handlers, DeliverFails(h) PROVE OpenIsHeld'
  BY <1>9 DEF DeliverFails
<1>11. ASSUME NEW h \in Handlers, PublishDeadLetter(h) PROVE OpenIsHeld'
  BY <1>11 DEF PublishDeadLetter
<1>12. ASSUME NEW h \in Handlers, AuditDeadLetter(h) PROVE OpenIsHeld'
  BY <1>12 DEF AuditDeadLetter
<1>14. CASE DigestMark
  BY <1>14 DEF DigestMark
<1>15. ASSUME NEW h \in Handlers, StoreRaises(h) PROVE OpenIsHeld'
  BY <1>15 DEF StoreRaises, Nack, SettleTrigger, Finish
<1>16. ASSUME NEW h \in Handlers, PublishRaises(h) PROVE OpenIsHeld'
  BY <1>16 DEF PublishRaises, Nack, SettleTrigger, Finish, Fault
<1>17. CASE CrashAndRestart
  BY <1>17 DEF CrashAndRestart, Fault, Requeue
<1>18. CASE
     Tick \/ DigestRead \/ DigestList \/ DigestPostOk \/ DigestPostFails \/
     LoseConnection \/ DigestMarkUndone \/ BrokerDrop \/ UNCHANGED vars
  BY <1>18 DEF Tick, DigestRead, DigestList, DigestPostOk, DigestPostFails,
     LoseConnection, DigestMarkUndone, Fault, BrokerDrop, Requeue, vars
<1>19. QED
  BY <1>1, <1>2, <1>3, <1>4, <1>5, <1>6, <1>7, <1>8, <1>9, <1>11,
     <1>12, <1>14, <1>15, <1>16, <1>17, <1>18
     DEF Next, HandlerStep, EmitStep, DeliverStep, DigestStep, FaultStep

-----------------------------------------------------------------------------
(* Fates.  What a handler's phase says has already happened to its alert.  *)

PhaseInv ==
  /\ \A i \in seen : Offered(i)
  /\ \A h \in Handlers :
       /\ phase[h] = "sent" => HeldBy(h) \in pushed
       /\ phase[h] \in {"queued", "audited"} => Offered(item[h])
       /\ phase[h] = "audited" => HeldBy(h) \in audit \union unmarked

(* Each phase is reached only by doing what it stands for.                 *)
LEMMA PhaseStep == TInv /\ PhaseInv /\ [Next]_vars => PhaseInv'
<1> SUFFICES ASSUME TInv, PhaseInv, [Next]_vars PROVE PhaseInv'
  OBVIOUS
<1> USE NoneAssumption DEF PhaseInv, Offered, TInv, TypeOK, HeldTyped, Holds,
      Holding,
      AtPhase, HeldBy, Go, Marked, Record, Release, Everyone, Asleep,
      table, tasks, held, service, outside, undone
<1>1. ASSUME NEW h \in Handlers, NEW t \in Triggers, Receive(h, t) PROVE PhaseInv'
  BY <1>1 DEF Receive
<1>2. ASSUME NEW h \in Handlers, NEW i \in Items, ClaimWon(h, i) PROVE PhaseInv'
  BY <1>2 DEF ClaimWon, WriteClaim, Claimable
<1>3. ASSUME NEW h \in Handlers, NEW i \in Items, ClaimLost(h, i) PROVE PhaseInv'
  BY <1>3 DEF ClaimLost, Claimable
<1>4. ASSUME NEW h \in Handlers, SkipMissing(h) PROVE PhaseInv'
  BY <1>4 DEF SkipMissing
<1>5. ASSUME NEW h \in Handlers, PassThrottle(h) PROVE PhaseInv'
  BY <1>5 DEF PassThrottle
<1>6. ASSUME NEW h \in Handlers, Suppress(h) PROVE PhaseInv'
  BY <1>6 DEF Suppress
<1>7. ASSUME NEW h \in Handlers, DeliverOk(h) PROVE PhaseInv'
  BY <1>7 DEF DeliverOk
<1>8. ASSUME NEW h \in Handlers, DeliverFails(h) PROVE PhaseInv'
  BY <1>8 DEF DeliverFails
<1>9. ASSUME NEW h \in Handlers, MarkDelivered(h) PROVE PhaseInv'
  BY <1>9 DEF MarkDelivered
<1>10. ASSUME NEW h \in Handlers, PublishDeadLetter(h) PROVE PhaseInv'
  <2>1. outbox \subseteq outbox' /\ orphaned' = orphaned
    BY <1>10 DEF PublishDeadLetter
  <2>2. ASSUME NEW i \in Items, Offered(i) PROVE Offered(i)'
    BY <2>1, <2>2
  <2>3. Offered(item[h])'
    <3>1. item' = item /\ seen \subseteq Items
      BY <1>10 DEF PublishDeadLetter
    <3>2. CASE item[h] \in seen
      <4>1. Offered(item[h])
        BY <3>2
      <4>2. QED
        BY <2>1, <3>1, <4>1
    <3>3. CASE item[h] \notin seen
      <4>1. HeldBy(h) \in outbox' /\ HeldBy(h)[1] = item[h]
        BY <3>3, <1>10 DEF PublishDeadLetter
      <4>2. QED
        BY <3>1, <4>1
    <3>4. QED
      BY <3>2, <3>3
  <2>4. \A i \in seen' : Offered(i)'
    BY <2>2, <2>3, <1>10 DEF PublishDeadLetter
  <2>5. ASSUME NEW g \in Handlers
        PROVE  /\ phase'[g] = "sent" => HeldBy(g)' \in pushed'
               /\ phase'[g] \in {"queued", "audited"} => Offered(item[g])'
               /\ phase'[g] = "audited" => HeldBy(g)' \in (audit \union unmarked)'
    BY <2>2, <2>3, <2>5, <1>10 DEF PublishDeadLetter
  <2>6. QED
    BY <2>4, <2>5
<1>11. ASSUME NEW h \in Handlers, AuditDeadLetter(h) PROVE PhaseInv'
  BY <1>11 DEF AuditDeadLetter
<1>12. ASSUME NEW h \in Handlers, MarkDeadLettered(h) PROVE PhaseInv'
  BY <1>12 DEF MarkDeadLettered
<1>13. ASSUME NEW h \in Handlers, StoreRaises(h) PROVE PhaseInv'
  BY <1>13 DEF StoreRaises, Nack, SettleTrigger, Finish
<1>14. ASSUME NEW h \in Handlers, PublishRaises(h) PROVE PhaseInv'
  <2>1. outbox' = outbox /\ orphaned' = orphaned \union {HeldBy(h)}
    BY <1>14 DEF PublishRaises, Nack
  <2>2. ASSUME NEW i \in Items, Offered(i) PROVE Offered(i)'
    BY <2>1, <2>2
  <2>3. HeldBy(h) \in orphaned' /\ HeldBy(h)[1] = item[h]
    BY <2>1
  <2>4. \A i \in seen' : Offered(i)'
    BY <2>2, <2>3, <1>14 DEF PublishRaises
  <2>5. ASSUME NEW g \in Handlers
        PROVE  /\ phase'[g] = "sent" => HeldBy(g)' \in pushed'
               /\ phase'[g] \in {"queued", "audited"} => Offered(item[g])'
               /\ phase'[g] = "audited" => HeldBy(g)' \in (audit \union unmarked)'
    BY <2>2, <2>5, <1>14 DEF PublishRaises, Nack, SettleTrigger, Finish
  <2>6. QED
    BY <2>4, <2>5
<1>15. CASE CrashAndRestart
  BY <1>15 DEF CrashAndRestart, Fault, Requeue
<1>16. ASSUME NEW h \in Handlers,
             Ack(h)
      PROVE  PhaseInv'
  BY <1>16 DEF Ack, SettleTrigger, Finish
<1>17. CASE
     Tick \/ DigestRead \/ DigestList \/ DigestPostOk \/ DigestPostFails \/ DigestMark \/
     LoseConnection \/ DigestMarkUndone \/ BrokerDrop \/ UNCHANGED vars
  BY <1>17 DEF Tick, DigestRead, DigestList, DigestPostOk, DigestPostFails, DigestMark,
     LoseConnection, DigestMarkUndone, Fault, BrokerDrop, Requeue, vars
<1>18. QED
  BY <1>1, <1>2, <1>3, <1>4, <1>5, <1>6, <1>7, <1>8, <1>9, <1>10, <1>11,
     <1>12, <1>13, <1>14, <1>15, <1>16, <1>17
     DEF Next, HandlerStep, EmitStep, DeliverStep, DigestStep, FaultStep

(* A mark is set on the row of the firing the phase speaks of, and only on *)
(* an unsettled one, if no claim of the item was undone.                   *)
LEMMA RecordFate ==
  ASSUME TInv, HoldInv, PhaseInv, FateIsTrue, NEW h \in Handlers,
         Suppress(h) \/ MarkDelivered(h) \/ MarkDeadLettered(h)
  PROVE  FateIsTrue'
<1>1. PICK m \in Settled :
        /\ Record(h, m)
        /\ m = "delivered" => HeldBy(h) \in pushed
        /\ m = "dlx" => HeldBy(h) \in audit \union unmarked /\ Offered(item[h])
  BY DEF Suppress, MarkDelivered, MarkDeadLettered, Settled, AtPhase, PhaseInv
<1>2. /\ UNCHANGED <<alertId, pushed, audit, outbox, orphaned, unclaimed>>
      /\ Holds(h) /\ item[h] \in Items /\ id[h] \in Nat \ {0}
  BY DEF Suppress, MarkDelivered, MarkDeadLettered, AtPhase, Holds, Holding, TInv, HeldTyped
<1>3. unmarked \subseteq unmarked'
  BY <1>1 DEF Record
<1>4. \A i : Offered(i) => Offered(i)'
  BY <1>2 DEF Offered
<1> SUFFICES ASSUME NEW i \in Items, i \notin Spoiled
             PROVE  /\ "delivered" \in marks'[i] => <<i, alertId[i]>> \in pushed
                    /\ "dlx" \in marks'[i] =>
                         <<i, alertId[i]>> \in audit \union unmarked' /\ Offered(i)'
                    /\ \A f, g \in marks'[i] \intersect Settled : f = g
  BY <1>2 DEF FateIsTrue, Spoiled
<1>5. /\ "delivered" \in marks[i] => <<i, alertId[i]>> \in pushed
      /\ "dlx" \in marks[i] => <<i, alertId[i]>> \in audit \union unmarked /\ Offered(i)
      /\ \A f, g \in marks[i] \intersect Settled : f = g
  BY DEF FateIsTrue
<1>6. CASE marks'[i] = marks[i]
  BY <1>3, <1>4, <1>5, <1>6
<1>7. CASE marks'[i] # marks[i]
  <2>1. i = item[h] /\ marks'[i] = marks[i] \union {m}
    BY <1>1, <1>2, <1>7 DEF Record, Marked, TInv, TypeOK
  <2>2. Fresh(h)
    BY <1>2, <2>1, Spoils DEF HoldInv, ClaimIsFresh
  <2>3. marks[i] \intersect Settled = {} /\ HeldBy(h) = <<i, alertId[i]>>
    BY <2>1, <2>2 DEF Fresh, HeldBy
  <2>4. "delivered" \in Settled /\ "dlx" \in Settled
    BY DEF Settled
  <2> QED BY <1>1, <1>3, <1>4, <2>1, <2>3, <2>4
<1> QED BY <1>6, <1>7

(* Nothing else touches a fate but a claim, which wipes it.                *)
LEMMA FateStep == TInv /\ Numbered /\ HoldInv /\ PhaseInv /\ FateIsTrue /\ [Next]_vars => FateIsTrue'
<1> SUFFICES ASSUME TInv, Numbered, HoldInv, PhaseInv, FateIsTrue, [Next]_vars PROVE FateIsTrue'
  OBVIOUS
<1> USE DEF FateIsTrue, Spoiled, Offered, PhaseInv, HoldInv, ClaimIsFresh, Fresh,
      Settled, Marks, TInv, TypeOK, HeldTyped, Holds, Holding,
      AtPhase, HeldBy, Go, Marked, Record, Release, Everyone, Asleep,
      table, tasks, held, service, outside, undone
<1>1. ASSUME NEW h \in Handlers, NEW t \in Triggers, Receive(h, t) PROVE FateIsTrue'
  BY <1>1 DEF Receive
<1>2. ASSUME NEW h \in Handlers, NEW i \in Items, ClaimWon(h, i) PROVE FateIsTrue'
  BY <1>2 DEF ClaimWon, WriteClaim, Claimable
<1>3. ASSUME NEW h \in Handlers, NEW i \in Items, ClaimLost(h, i) PROVE FateIsTrue'
  BY <1>3 DEF ClaimLost, Claimable
<1>4. ASSUME NEW h \in Handlers, Suppress(h) \/ MarkDelivered(h) \/ MarkDeadLettered(h)
      PROVE  FateIsTrue'
  BY <1>4, RecordFate
<1>5. ASSUME NEW h \in Handlers, DeliverOk(h) PROVE FateIsTrue'
  BY <1>5 DEF DeliverOk
<1>6. ASSUME NEW h \in Handlers, DeliverFails(h) PROVE FateIsTrue'
  BY <1>6 DEF DeliverFails
<1>8. ASSUME NEW h \in Handlers, PublishDeadLetter(h) PROVE FateIsTrue'
  BY <1>8 DEF PublishDeadLetter
<1>9. ASSUME NEW h \in Handlers, AuditDeadLetter(h) PROVE FateIsTrue'
  BY <1>9 DEF AuditDeadLetter
<1>11. CASE DigestMark
  BY <1>11 DEF DigestMark
<1>12. ASSUME NEW h \in Handlers, StoreRaises(h) PROVE FateIsTrue'
  BY <1>12 DEF StoreRaises, Nack, SettleTrigger, Finish
<1>13. ASSUME NEW h \in Handlers, PublishRaises(h) PROVE FateIsTrue'
  BY <1>13 DEF PublishRaises, Nack, SettleTrigger, Finish, Fault
<1>14. CASE CrashAndRestart
  BY <1>14 DEF CrashAndRestart, Fault, Requeue
<1>15. ASSUME NEW h \in Handlers,
             Ack(h) \/ SkipMissing(h) \/ PassThrottle(h)
      PROVE  FateIsTrue'
  BY <1>15 DEF Ack, SettleTrigger, Finish, SkipMissing, PassThrottle
<1>16. CASE
     Tick \/ DigestRead \/ DigestList \/ DigestPostOk \/ DigestPostFails \/
     LoseConnection \/ DigestMarkUndone \/ BrokerDrop \/ UNCHANGED vars
  BY <1>16 DEF Tick, DigestRead, DigestList, DigestPostOk, DigestPostFails,
     LoseConnection, DigestMarkUndone, Fault, BrokerDrop, Requeue, vars
<1>17. QED
  BY <1>1, <1>2, <1>3, <1>4, <1>5, <1>6, <1>8, <1>9, <1>11,
     <1>12, <1>13, <1>14, <1>15, <1>16
     DEF Next, HandlerStep, EmitStep, DeliverStep, DigestStep, FaultStep

-----------------------------------------------------------------------------
(* The digest marks rows only of a batch that has been posted.             *)

DigestInv ==
  /\ digest.phase = "posted" => digest.batch \subseteq enumerated
  /\ DigestedWasEnumerated

(* The digest's post comes before its mark in every interleaving.          *)
LEMMA DigestInvStep == TInv /\ DigestInv /\ [Next]_vars => DigestInv'
<1> SUFFICES ASSUME TInv, DigestInv, [Next]_vars PROVE DigestInv'
  OBVIOUS
<1> USE DEF DigestInv, DigestedWasEnumerated, InBatch, RolledBack, Listed, TInv, TypeOK,
      AtPhase, HeldBy, Go, Marked, Record, Release, Everyone, Asleep,
      table, tasks, held, service, outside, undone
<1>1. ASSUME NEW h \in Handlers, NEW t \in Triggers, Receive(h, t) PROVE DigestInv'
  BY <1>1 DEF Receive
<1>2. ASSUME NEW h \in Handlers, NEW i \in Items, ClaimWon(h, i) PROVE DigestInv'
  BY <1>2 DEF ClaimWon, WriteClaim, Claimable
<1>3. ASSUME NEW h \in Handlers, NEW i \in Items, ClaimLost(h, i) PROVE DigestInv'
  BY <1>3 DEF ClaimLost, Claimable
<1>4. ASSUME NEW h \in Handlers, Suppress(h) PROVE DigestInv'
  BY <1>4 DEF Suppress
<1>5. ASSUME NEW h \in Handlers, MarkDelivered(h) PROVE DigestInv'
  BY <1>5 DEF MarkDelivered
<1>6. ASSUME NEW h \in Handlers, MarkDeadLettered(h) PROVE DigestInv'
  BY <1>6 DEF MarkDeadLettered
<1>7. CASE DigestRead \/ DigestList
  BY <1>7 DEF DigestRead, DigestList, Listed
<1>8. CASE DigestPostOk
  BY <1>8 DEF DigestPostOk
<1>9. CASE DigestPostFails
  BY <1>9 DEF DigestPostFails
<1>10. CASE DigestMark
  BY <1>10 DEF DigestMark
<1>11. CASE CrashAndRestart
  BY <1>11 DEF CrashAndRestart, Fault, Requeue
<1>12. ASSUME NEW h \in Handlers,
             Ack(h) \/ SkipMissing(h) \/ PassThrottle(h) \/ DeliverOk(h) \/
             DeliverFails(h) \/ PublishDeadLetter(h) \/ AuditDeadLetter(h) \/
             StoreRaises(h) \/ PublishRaises(h)
      PROVE  DigestInv'
  BY <1>12 DEF Ack, SettleTrigger, Finish, SkipMissing, PassThrottle,
     DeliverOk, DeliverFails, PublishDeadLetter, AuditDeadLetter, StoreRaises,
     Nack, PublishRaises, Fault
<1>13. CASE
     Tick \/ LoseConnection \/ DigestMarkUndone \/ BrokerDrop \/ UNCHANGED vars
  BY <1>13 DEF Tick, LoseConnection, DigestMarkUndone, Fault, BrokerDrop, Requeue, vars
<1>14. QED
  BY <1>1, <1>2, <1>3, <1>4, <1>5, <1>6, <1>7, <1>8, <1>9, <1>10, <1>11,
     <1>12, <1>13
     DEF Next, HandlerStep, EmitStep, DeliverStep, DigestStep, FaultStep

-----------------------------------------------------------------------------
(* Egress.  Of what was ever sent for an item, only the alert the row now  *)
(* holds can be younger than a TTL, and the caps counted it.               *)

EgressInv ==
  /\ \A e \in egress : <<e[1], e[2]>> \notin unclaimed =>
       /\ e[2] <= alertId[e[1]]
       /\ e[2] < alertId[e[1]] => e[3] + TTL <= now
       /\ e[2] = alertId[e[1]] =>
            /\ e[3] = firedAt[e[1]]
            /\ "suppressed" \notin marks[e[1]] \/ e[3] + TTL <= now
  /\ \A h \in Handlers : phase[h] = "claimed" =>
       /\ HeldBy(h) \notin unclaimed =>
            firedAt[item[h]] = now /\ "suppressed" \notin marks[item[h]]
       /\ HeldBy(h) \in unclaimed =>
            alertId[item[h]] = 0 \/ firedAt[item[h]] + TTL <= now
       /\ \A e \in egress : e[1] = item[h] => e[2] < id[h]

(* A claim, a throttle decision and the clock keep egress and rows in step. *)
LEMMA EgressStep == TInv /\ Numbered /\ HoldInv /\ EgressInv /\ [Next]_vars => EgressInv'
<1> SUFFICES ASSUME TInv, Numbered, HoldInv, EgressInv, [Next]_vars PROVE EgressInv'
  OBVIOUS
<1> USE NumbersAssumption, NoneAssumption DEF EgressInv, HoldInv,
      ClaimIsFresh, Fresh, Settled, LoopFree, Synchronous, TInv, TypeOK,
      HeldTyped, Holds, Holding, Time, Marks,
      AtPhase, HeldBy, Go, Marked, Record, Release, Everyone, Asleep,
      table, tasks, held, service, outside, undone
<1>1. CASE Tick
  BY <1>1 DEF Tick
<1>2. ASSUME NEW h \in Handlers, NEW t \in Triggers, Receive(h, t) PROVE EgressInv'
  BY <1>2 DEF Receive
<1>3. ASSUME NEW h \in Handlers, NEW i \in Items, ClaimWon(h, i) PROVE EgressInv'
  <2>1. /\ now' = now /\ egress' = egress
        /\ phase[h] = "next" /\ phase' = [phase EXCEPT ![h] = "claimed"]
        /\ item' = [item EXCEPT ![h] = i]
        /\ id' = [id EXCEPT ![h] = issued[i] + 1]
        /\ alertId[i] = 0 \/ firedAt[i] + TTL <= now
        /\ \A g \in Handlers \ {h} : phase[g] # "claimed"
    BY <1>3 DEF ClaimWon, Claimable
  <2>2. \A e \in egress : e[2] <= issued[e[1]]
    BY DEF Numbered
  <2>3. \A g \in Handlers : phase'[g] = "claimed" => g = h
    BY <2>1
  <2>4. HeldBy(h)' = <<i, issued[i] + 1>> /\ <<i, issued[i] + 1>> \notin unclaimed
    BY <2>1 DEF Numbered
  <2>5. CASE WriteClaim(i) /\ UNCHANGED unclaimed
    <3>1. /\ alertId' = [alertId EXCEPT ![i] = issued[i] + 1]
          /\ firedAt' = [firedAt EXCEPT ![i] = now]
          /\ marks' = [marks EXCEPT ![i] = {}]
      BY <2>5 DEF WriteClaim
    <3>2. ASSUME NEW e \in egress, <<e[1], e[2]>> \notin unclaimed
          PROVE  /\ e[2] <= alertId'[e[1]]
                 /\ e[2] < alertId'[e[1]] => e[3] + TTL <= now
                 /\ e[2] = alertId'[e[1]] =>
                      /\ e[3] = firedAt'[e[1]]
                      /\ "suppressed" \notin marks'[e[1]] \/ e[3] + TTL <= now
      <4>1. e[1] \in Items /\ e[2] \in Nat \ {0} /\ e[3] \in Nat
        OBVIOUS
      <4>2. CASE e[1] # i
        BY <3>1, <3>2, <4>1, <4>2
      <4>3. CASE e[1] = i
        BY <2>1, <2>2, <3>1, <3>2, <4>1, <4>3
      <4> QED BY <4>2, <4>3
    <3>3. /\ HeldBy(h)' \notin unclaimed' /\ firedAt'[item'[h]] = now
          /\ "suppressed" \notin marks'[item'[h]]
          /\ \A e \in egress : e[1] = item'[h] => e[2] < id'[h]
      BY <2>1, <2>2, <2>4, <2>5, <3>1
    <3> QED BY <2>1, <2>3, <2>5, <3>2, <3>3
  <2>6. CASE UNCHANGED table /\ unclaimed' = unclaimed \union {<<i, issued[i] + 1>>}
    <3>1. /\ HeldBy(h)' \in unclaimed'
          /\ alertId'[item'[h]] = 0 \/ firedAt'[item'[h]] + TTL <= now
          /\ \A e \in egress : e[1] = item'[h] => e[2] < id'[h]
      BY <2>1, <2>2, <2>4, <2>6
    <3> QED BY <2>1, <2>3, <2>6, <3>1
  <2> QED BY <2>5, <2>6, <1>3 DEF ClaimWon
<1>4. ASSUME NEW h \in Handlers, NEW i \in Items, ClaimLost(h, i) PROVE EgressInv'
  BY <1>4 DEF ClaimLost, Claimable
<1>5. ASSUME NEW h \in Handlers, PassThrottle(h) PROVE EgressInv'
  <2>1. /\ UNCHANGED <<now, alertId, firedAt, marks, unclaimed, item, id>>
        /\ egress' = egress \union {<<item[h], id[h], now>>}
        /\ phase[h] = "claimed" /\ phase' = [phase EXCEPT ![h] = "sending"]
        /\ \A g \in Handlers \ {h} : phase[g] # "claimed"
    BY <1>5 DEF PassThrottle
  <2>2. \A g \in Handlers : phase'[g] # "claimed"
    BY <2>1
  <2>3. HeldBy(h) \notin unclaimed =>
          /\ alertId[item[h]] = id[h] /\ firedAt[item[h]] = now
          /\ "suppressed" \notin marks[item[h]]
    BY <2>1
  <2>5. ASSUME NEW e, e = <<item[h], id[h], now>>, <<e[1], e[2]>> \notin unclaimed
        PROVE  /\ e[2] = alertId[e[1]] /\ e[3] = firedAt[e[1]]
               /\ "suppressed" \notin marks[e[1]]
    BY <2>3, <2>5
  <2>6. ASSUME NEW e \in egress', <<e[1], e[2]>> \notin unclaimed
        PROVE  /\ e[2] <= alertId[e[1]]
               /\ e[2] < alertId[e[1]] => e[3] + TTL <= now
               /\ e[2] = alertId[e[1]] =>
                    /\ e[3] = firedAt[e[1]]
                    /\ "suppressed" \notin marks[e[1]] \/ e[3] + TTL <= now
    <3>1. CASE e \in egress
      BY <2>6, <3>1
    <3>2. CASE e = <<item[h], id[h], now>>
      <4>1. item[h] \in Items /\ alertId[item[h]] \in Nat /\ e[1] = item[h]
        BY <2>1, <3>2
      <4> QED BY <2>5, <2>6, <3>2, <4>1
    <3> QED BY <2>1, <3>1, <3>2
  <2> QED BY <2>1, <2>2, <2>6
<1>6. ASSUME NEW h \in Handlers, Suppress(h) PROVE EgressInv'
  <2>1. /\ UNCHANGED <<now, alertId, firedAt, egress, unclaimed>>
        /\ phase[h] = "claimed" /\ phase' = [phase EXCEPT ![h] = "next"]
        /\ \A g \in Handlers \ {h} : phase[g] # "claimed"
        /\ marks' = marks \/ marks' = Marked(item[h], "suppressed")
    BY <1>6 DEF Suppress
  <2>2. \A g \in Handlers : phase'[g] # "claimed"
    BY <2>1
  <2>3. ASSUME NEW e \in egress, <<e[1], e[2]>> \notin unclaimed, e[2] = alertId[e[1]]
        PROVE  "suppressed" \notin marks'[e[1]] \/ e[3] + TTL <= now
    <3>1. e[1] \in Items /\ e[2] \in Nat \ {0} /\ item[h] \in Items /\ id[h] \in Nat
      BY <2>1
    <3>2. "suppressed" \notin marks[e[1]] \/ e[3] + TTL <= now
      BY <2>3
    <3>3. CASE e[1] # item[h] \/ marks' = marks
      BY <2>1, <3>1, <3>2, <3>3
    <3>4. CASE e[1] = item[h] /\ HeldBy(h) \notin unclaimed
      <4>1. alertId[item[h]] = id[h] /\ e[2] < id[h]
        BY <2>1, <2>3, <3>4
      <4> QED BY <2>3, <3>1, <3>4, <4>1
    <3>5. CASE e[1] = item[h] /\ HeldBy(h) \in unclaimed
      <4>1. alertId[item[h]] = 0 \/ firedAt[item[h]] + TTL <= now
        BY <2>1, <3>5
      <4>2. e[3] = firedAt[item[h]] /\ alertId[item[h]] # 0
        BY <2>3, <3>1, <3>5
      <4> QED BY <4>1, <4>2
    <3> QED BY <2>1, <3>3, <3>4, <3>5
  <2> QED BY <2>1, <2>2, <2>3
<1>7. ASSUME NEW h \in Handlers, MarkDelivered(h) PROVE EgressInv'
  BY <1>7 DEF MarkDelivered
<1>8. ASSUME NEW h \in Handlers, MarkDeadLettered(h) PROVE EgressInv'
  BY <1>8 DEF MarkDeadLettered
<1>9. CASE DigestMark
  BY <1>9 DEF DigestMark
<1>10. ASSUME NEW h \in Handlers, StoreRaises(h) PROVE EgressInv'
  BY <1>10 DEF StoreRaises, Nack, SettleTrigger, Finish
<1>11. ASSUME NEW h \in Handlers, PublishRaises(h) PROVE EgressInv'
  BY <1>11 DEF PublishRaises, Nack, SettleTrigger, Finish, Fault
<1>12. CASE CrashAndRestart
  BY <1>12 DEF CrashAndRestart, Fault, Requeue
<1>13. ASSUME NEW h \in Handlers,
             Ack(h) \/ SkipMissing(h) \/ DeliverOk(h) \/ DeliverFails(h) \/
             PublishDeadLetter(h) \/ AuditDeadLetter(h)
      PROVE  EgressInv'
  BY <1>13 DEF Ack, SettleTrigger, Finish, SkipMissing, DeliverOk,
     DeliverFails, PublishDeadLetter, AuditDeadLetter
<1>14. CASE
     DigestRead \/ DigestList \/ DigestPostOk \/ DigestPostFails \/ LoseConnection \/ DigestMarkUndone \/
     BrokerDrop \/ UNCHANGED vars
  BY <1>14 DEF DigestRead, DigestList, DigestPostOk, DigestPostFails, LoseConnection, DigestMarkUndone,
     Fault, BrokerDrop, Requeue, vars
<1>15. QED
  BY <1>1, <1>2, <1>3, <1>4, <1>5, <1>6, <1>7, <1>8, <1>9, <1>10, <1>11,
     <1>12, <1>13, <1>14
     DEF Next, HandlerStep, EmitStep, DeliverStep, DigestStep, FaultStep

(* A set of triples with distinct first components in a finite set is no    *)
(* larger than that set.                                                   *)
LEMMA FirstComponentBound ==
  ASSUME NEW E, NEW C, IsFiniteSet(C),
         \A e \in E : e[1] \in C,
         \A e, f \in E : e[1] = f[1] => e = f
  PROVE  IsFiniteSet(E) /\ Cardinality(E) <= Cardinality(C)
<1> DEFINE first == [e \in E |-> e[1]]
<1>1. first \in Injection(E, C)
  BY DEF Injection, IsInjective
<1> HIDE DEF first
<1>2. QED
  BY <1>1, FS_Injection

(* Alerts that passed within a window no longer than the TTL belong to     *)
(* distinct rows, and each of those rows is counted by CountInWindow.      *)
PassedBound ==
  \A W \in Nat : W <= TTL =>
    /\ IsFiniteSet(Passed(W))
    /\ Cardinality(Passed(W)) <= Cardinality(InWindow(W))

LEMMA PassedAreCounted == TInv /\ EgressInv => PassedBound
<1> SUFFICES ASSUME TInv, EgressInv, NEW W \in Nat, W <= TTL
             PROVE  /\ IsFiniteSet(Passed(W))
                    /\ Cardinality(Passed(W)) <= Cardinality(InWindow(W))
  BY DEF PassedBound
<1> USE DEF TInv, TypeOK, Time
<1>1. ASSUME NEW e \in Passed(W)
      PROVE  /\ e[1] \in InWindow(W)
             /\ e = <<e[1], alertId[e[1]], firedAt[e[1]]>>
  <2>1. e \in egress /\ e[3] > now - W /\ <<e[1], e[2]>> \notin unclaimed
    BY <1>1 DEF Passed
  <2>2. /\ e[1] \in Items /\ e[2] \in Nat \ {0} /\ e[3] \in Nat
        /\ e = <<e[1], e[2], e[3]>>
    BY <2>1, NumbersAssumption
  <2>3. e[2] = alertId[e[1]]
    BY <2>1, <2>2, NumbersAssumption DEF EgressInv
  <2>4. e[3] = firedAt[e[1]] /\ "suppressed" \notin marks[e[1]]
    <3>1. ~(e[3] + TTL <= now)
      BY <2>1, <2>2, NumbersAssumption
    <3> QED BY <2>1, <2>3, <3>1 DEF EgressInv
  <2>5. QED
    BY <2>1, <2>2, <2>3, <2>4 DEF InWindow
<1>2. IsFiniteSet(InWindow(W))
  BY ItemsAssumption, FS_Subset DEF InWindow
<1>3. \A e, f \in Passed(W) : e[1] = f[1] => e = f
  BY <1>1
<1>4. QED
  BY <1>1, <1>2, <1>3, FirstComponentBound

(* Only PassThrottle adds to what passed, and only under the caps; the     *)
(* clock only lets alerts leave a window.                                  *)
LEMMA ThrottleStep ==
  TInv /\ TInv' /\ EgressInv /\ EgressInv' /\ ThrottleHolds /\ [Next]_vars => ThrottleHolds'
<1> SUFFICES ASSUME TInv, TInv', EgressInv, EgressInv', ThrottleHolds, [Next]_vars
             PROVE  ThrottleHolds'
  OBVIOUS
<1>a. PassedBound /\ PassedBound'
  BY PassedAreCounted, PTL
<1> USE NumbersAssumption, WindowsAssumption
<1> DEFINE Counted(W, cap) == Cardinality(Passed(W)) <= cap
<1>1. ASSUME NEW h \in Handlers, PassThrottle(h) PROVE ThrottleHolds'
  <2>1. ASSUME NEW W \in Nat, NEW cap \in Nat, W <= TTL, CountInWindow(W) <= cap
        PROVE  Counted(W, cap)'
    <3>1. InWindow(W)' = InWindow(W)
      BY <1>1 DEF PassThrottle, InWindow, table
    <3>2. Cardinality(Passed(W)') <= Cardinality(InWindow(W))
      BY <1>a, <2>1, <3>1 DEF PassedBound
    <3>3. IsFiniteSet(Passed(W)') /\ IsFiniteSet(InWindow(W))
      BY <1>a, <2>1, ItemsAssumption, FS_Subset DEF InWindow, PassedBound
    <3>4. Cardinality(Passed(W)') \in Nat /\ Cardinality(InWindow(W)) \in Nat
      BY <3>3, FS_CardinalityType
    <3>5. QED
      BY <2>1, <3>2, <3>4 DEF CountInWindow
  <2>2. QED
    BY <1>1, <2>1 DEF PassThrottle, WithinCaps, ThrottleHolds
<1>2. ASSUME egress' = egress, unclaimed \subseteq unclaimed', now' \in {now, now + 1} PROVE ThrottleHolds'
  <2>1. ASSUME NEW W \in Nat, NEW cap \in Nat, W <= TTL, Counted(W, cap)
        PROVE  Counted(W, cap)'
    <3>1. Passed(W)' \subseteq Passed(W)
      BY <1>2 DEF Passed, TInv, TypeOK, Time
    <3>2. IsFiniteSet(Passed(W))
      BY <1>a, <2>1 DEF PassedBound
    <3>3. Cardinality(Passed(W)') <= Cardinality(Passed(W)) /\ IsFiniteSet(Passed(W)')
      BY <3>1, <3>2, FS_Subset
    <3>4. Cardinality(Passed(W)') \in Nat /\ Cardinality(Passed(W)) \in Nat
      BY <3>2, <3>3, FS_CardinalityType
    <3>5. QED
      BY <2>1, <3>3, <3>4
  <2>2. QED
    BY <2>1 DEF ThrottleHolds
<1>3. ASSUME NEW h \in Handlers,
             \/ (\E t \in Triggers : Receive(h, t))
             \/ (\E i \in Items : ClaimWon(h, i) \/ ClaimLost(h, i))
             \/ Ack(h) \/ SkipMissing(h) \/ Suppress(h) \/ DeliverOk(h)
             \/ DeliverFails(h) \/ MarkDelivered(h) \/ PublishDeadLetter(h) \/ AuditDeadLetter(h)
             \/ MarkDeadLettered(h) \/ StoreRaises(h) \/ PublishRaises(h)
      PROVE  egress' = egress /\ unclaimed \subseteq unclaimed' /\ now' = now
  BY <1>3 DEF Receive, ClaimWon, ClaimLost, Ack, SkipMissing, Suppress,
     DeliverOk, DeliverFails, MarkDelivered, PublishDeadLetter,
     AuditDeadLetter, MarkDeadLettered, StoreRaises, PublishRaises, Nack,
     outside, undone
<1>4. CASE
     Tick \/ DigestRead \/ DigestList \/ DigestPostOk \/ DigestPostFails \/ DigestMark \/
     LoseConnection \/ DigestMarkUndone \/ BrokerDrop \/ CrashAndRestart \/ UNCHANGED vars
  BY <1>2, <1>4 DEF Tick, DigestRead, DigestList, DigestPostOk, DigestPostFails,
     DigestMark, LoseConnection, DigestMarkUndone, BrokerDrop, CrashAndRestart, vars, outside, undone
<1>5. QED
  BY <1>1, <1>2, <1>3, <1>4
     DEF Next, HandlerStep, EmitStep, DeliverStep, DigestStep, FaultStep

-----------------------------------------------------------------------------
(* The inductive invariant.                                                *)

IInv == /\ TInv /\ Numbered /\ HoldInv /\ AckInv /\ OpenIsHeld
        /\ PhaseInv /\ FateIsTrue /\ DigestInv
        /\ EgressInv /\ ThrottleHolds

(* It holds of the empty table.                                            *)
LEMMA InitIInv == Init => IInv
<1> SUFFICES ASSUME Init PROVE IInv
  OBVIOUS
<1> USE DEF Init, Everyone, Asleep
<1>1. TInv
  BY TypeInit
<1>0. Numbered
  BY DEF Numbered, Holds, Holding
<1>2. HoldInv
  BY DEF HoldInv, ClaimIsFresh, OneHolderPerItem, Holds, Holding
<1>3. AckInv
  BY DEF AckInv, DoneMeansClaimed, AckedMeansClaimed
<1>4. OpenIsHeld
  BY DEF OpenIsHeld
<1>5. PhaseInv /\ FateIsTrue /\ DigestInv
  BY DEF PhaseInv, FateIsTrue, DigestInv, DigestedWasEnumerated
<1>6. EgressInv
  BY DEF EgressInv
<1>7. ThrottleHolds
  <2>1. Passed(ShortWindow) = {} /\ Passed(LongWindow) = {}
    BY DEF Passed
  <2>2. QED
    BY <2>1, FS_EmptySet, NumbersAssumption DEF ThrottleHolds
<1>8. QED
  BY <1>0, <1>1, <1>2, <1>3, <1>4, <1>5, <1>6, <1>7 DEF IInv

(* Every step preserves it.                                                *)
LEMMA NextIInv == IInv /\ [Next]_vars => IInv'
BY TypeStep, NumberStep, HoldStep, AckStep, OpenStep, PhaseStep, FateStep, DigestInvStep,
   EgressStep, ThrottleStep DEF IInv

(* In every behaviour of the worker the inductive invariant holds.         *)
THEOREM Invariance == Spec => []IInv
BY InitIInv, NextIInv, PTL DEF Spec

(* The variables keep their types in every instance.                       *)
THEOREM TypeCorrect == Spec => []TypeOK
<1>1. IInv => TypeOK
  BY DEF IInv, TInv
<1>2. QED
  BY <1>1, Invariance, PTL

(* R3: no window ever lets more alerts through than its cap, for every cap *)
(* and every window no longer than the TTL, alerts whose claim was undone  *)
(* left out.                                                               *)
THEOREM Throttled == Spec => []ThrottleHolds
<1>1. IInv => ThrottleHolds
  BY DEF IInv
<1>2. QED
  BY <1>1, Invariance, PTL

(* R1: no two of any number of handlers work on one item at once, unless   *)
(* the claim of one was undone.                                            *)
THEOREM Exclusive == Spec => []OneHolderPerItem
<1>1. IInv => OneHolderPerItem
  BY DEF IInv, HoldInv
<1>2. QED
  BY <1>1, Invariance, PTL

(* A claimed alert without a fate is held, or was cut off or unreadable,   *)
(* or the digest's rollback undid its claim or a write after it.           *)
THEOREM NoneSilent == Spec => []NoSilentAlert
<1>1. IInv => NoSilentAlert
  BY DEF IInv, OpenIsHeld, NoSilentAlert, HolderOf, HeldBy
<1>2. QED
  BY <1>1, Invariance, PTL

(* No ack before every item of the trigger has been claimed.               *)
THEOREM AckedClaimed == Spec => []AckedMeansClaimed
<1>1. IInv => AckedMeansClaimed
  BY DEF IInv, AckInv
<1>2. QED
  BY <1>1, Invariance, PTL

(* The fate a row records is what happened to that firing.                 *)
THEOREM FateTrue == Spec => []FateIsTrue
<1>1. IInv => FateIsTrue
  BY DEF IInv
<1>2. QED
  BY <1>1, Invariance, PTL

(* A row is marked digested only after a digest with its item was posted.  *)
THEOREM DigestTrue == Spec => []DigestedWasEnumerated
<1>1. IInv => DigestedWasEnumerated
  BY DEF IInv, DigestInv
<1>2. QED
  BY <1>1, Invariance, PTL


-----------------------------------------------------------------------------
(* Refinement.                                                             *)

LedgerFate  == [i \in Items |-> marks[i] \intersect Settled]
LedgerFired == [i \in Items |-> IF alertId[i] = 0 THEN -1 ELSE firedAt[i]]

LedgerStep == [Ledger!Next]_<<now, LedgerFired, LedgerFate, Spoiled>>

(* A mark set by a handler settles the firing of a row in the ledger, its  *)
(* own or, if its claim was undone, another's.                             *)
LEMMA MarkSettles ==
  ASSUME TInv, HoldInv, NEW h \in Handlers, Holds(h), NEW m \in Settled,
         marks' = Marked(item[h], m), UNCHANGED <<now, alertId, firedAt, unclaimed>>
  PROVE  LedgerStep
<1> USE DEF Ledger!Next, LedgerStep
<1>1. item[h] \in Items /\ id[h] \in Nat \ {0} /\ m \in Ledger!Fates
  BY DEF TInv, HeldTyped, Settled, Ledger!Fates
<1>2. LedgerFired' = LedgerFired /\ Spoiled' = Spoiled
  BY DEF LedgerFired, Spoiled
<1>3. CASE alertId[item[h]] = 0
  BY <1>2, <1>3 DEF Marked, LedgerFate
<1>4. CASE alertId[item[h]] # 0
  <2>1. marks' = [marks EXCEPT ![item[h]] = marks[item[h]] \union {m}]
    BY <1>4 DEF Marked
  <2>2. LedgerFate' = [LedgerFate EXCEPT ![item[h]] = @ \union {m}]
    <3>1. ASSUME NEW j \in Items, j # item[h]
          PROVE  marks'[j] \intersect Settled = marks[j] \intersect Settled
      BY <2>1, <3>1 DEF TInv, TypeOK
    <3>2. marks'[item[h]] \intersect Settled = (marks[item[h]] \intersect Settled) \union {m}
      BY <1>1, <2>1 DEF TInv, TypeOK
    <3> QED BY <1>1, <3>1, <3>2 DEF LedgerFate
  <2>3. LedgerFired[item[h]] # -1
    BY <1>1, <1>4 DEF LedgerFired, TInv, TypeOK, Time
  <2>4. CASE item[h] \in Spoiled
    <3>1. Ledger!Stray(item[h], m)
      BY <1>2, <2>2, <2>3, <2>4 DEF Ledger!Stray, LedgerFate, LedgerFired
    <3> QED BY <1>1, <3>1
  <2>5. CASE item[h] \notin Spoiled
    <3>1. marks[item[h]] \intersect Settled = {}
      BY <2>5, Spoils DEF HoldInv, ClaimIsFresh, Fresh
    <3>2. LedgerFate[item[h]] = {} /\ LedgerFate' = [LedgerFate EXCEPT ![item[h]] = {m}]
      BY <1>1, <2>2, <3>1 DEF LedgerFate
    <3>3. Ledger!Settle(item[h], m)
      BY <1>2, <2>3, <3>2 DEF Ledger!Settle, LedgerFate, LedgerFired
    <3> QED BY <1>1, <3>3
  <2> QED BY <2>4, <2>5
<1> QED BY <1>3, <1>4

(* Every step of the worker is a step of the ledger or leaves it alone.    *)
LEMMA StepImplements == TInv /\ HoldInv /\ [Next]_vars => LedgerStep
<1> SUFFICES ASSUME TInv, HoldInv, [Next]_vars PROVE LedgerStep
  OBVIOUS
<1>1. ASSUME UNCHANGED <<now, table, unclaimed>> PROVE LedgerStep
  BY <1>1 DEF table, LedgerFate, LedgerFired, Spoiled, LedgerStep
<1>2. CASE Tick
  BY <1>2 DEF Tick, table, outside, undone, LedgerFate, LedgerFired, Spoiled,
     LedgerStep, Ledger!Next, Ledger!Tick
<1>3. ASSUME NEW h \in Handlers, NEW i \in Items, ClaimWon(h, i) PROVE LedgerStep
  <2>1. now' = now /\ (alertId[i] = 0 \/ firedAt[i] <= now - TTL)
    BY <1>3 DEF ClaimWon, Claimable
  <2>2. CASE WriteClaim(i) /\ UNCHANGED unclaimed
    <3>1. /\ alertId' = [alertId EXCEPT ![i] = issued[i] + 1]
          /\ firedAt' = [firedAt EXCEPT ![i] = now]
          /\ marks' = [marks EXCEPT ![i] = {}]
          /\ issued[i] + 1 # 0
      BY <2>2 DEF WriteClaim, TInv, TypeOK
    <3>2. LedgerFired[i] = -1 \/ LedgerFired[i] + TTL <= now
      BY <2>1, NumbersAssumption DEF LedgerFired, TInv, TypeOK, Time
    <3>3. LedgerFired' = [LedgerFired EXCEPT ![i] = now]
      BY <3>1 DEF LedgerFired, TInv, TypeOK
    <3>4. LedgerFate' = [LedgerFate EXCEPT ![i] = {}]
      BY <3>1 DEF LedgerFate, TInv, TypeOK
    <3>5. Spoiled' = Spoiled
      BY <2>2 DEF Spoiled
    <3>6. Ledger!Fire(i)
      BY <2>1, <3>2, <3>3, <3>4, <3>5 DEF Ledger!Fire, LedgerFate, LedgerFired
    <3> QED BY <3>6 DEF LedgerStep, Ledger!Next
  <2>3. CASE UNCHANGED table /\ unclaimed' = unclaimed \union {<<i, issued[i] + 1>>}
    <3>1. LedgerFired' = LedgerFired /\ LedgerFate' = LedgerFate
      BY <2>3 DEF table, LedgerFired, LedgerFate
    <3>2. Spoiled' = Spoiled \union {i}
      <4>1. \A a : a \in unclaimed' <=> a \in unclaimed \/ a = <<i, issued[i] + 1>>
        BY <2>3
      <4>2. <<i, issued[i] + 1>>[1] = i
        OBVIOUS
      <4>3. Spoiled' \subseteq Spoiled \union {i}
        BY <4>1, <4>2 DEF Spoiled
      <4>4. Spoiled \union {i} \subseteq Spoiled'
        BY <4>1, <4>2 DEF Spoiled
      <4> QED BY <4>3, <4>4
    <3>3. Ledger!Spoil(i)
      BY <2>1, <3>1, <3>2 DEF Ledger!Spoil, LedgerFired, LedgerFate
    <3> QED BY <3>3 DEF LedgerStep, Ledger!Next
  <2> QED BY <1>3, <2>2, <2>3 DEF ClaimWon
<1>4. ASSUME NEW h \in Handlers,
             Suppress(h) \/ MarkDelivered(h) \/ MarkDeadLettered(h)
      PROVE  LedgerStep
  <2>1. PICK m \in Settled : Record(h, m)
    BY <1>4 DEF Suppress, MarkDelivered, MarkDeadLettered, Settled
  <2>2. Holds(h)
    BY <1>4 DEF Suppress, MarkDelivered, MarkDeadLettered, AtPhase, Holds, Holding
  <2>3. UNCHANGED <<now, alertId, firedAt, unclaimed>>
    BY <1>4 DEF Suppress, MarkDelivered, MarkDeadLettered
  <2>4. CASE marks' = Marked(item[h], m)
    BY <2>2, <2>3, <2>4, MarkSettles
  <2>5. CASE UNCHANGED marks
    BY <1>1, <2>3, <2>5 DEF table
  <2> QED BY <2>1, <2>4, <2>5 DEF Record
<1>5. CASE DigestMark
  <2>1. /\ UNCHANGED <<now, alertId, firedAt, unclaimed>>
        /\ marks' = [i \in Items |-> IF InBatch(i) THEN marks[i] \union {"digested"}
                                                   ELSE marks[i]]
    BY <1>5 DEF DigestMark, outside, undone
  <2>2. LedgerFate' = LedgerFate /\ LedgerFired' = LedgerFired /\ Spoiled' = Spoiled
    BY <2>1 DEF LedgerFate, LedgerFired, Spoiled, Settled
  <2> QED BY <2>1, <2>2 DEF LedgerStep
<1>6. ASSUME NEW h \in Handlers,
             \/ (\E t \in Triggers : Receive(h, t))
             \/ (\E i \in Items : ClaimLost(h, i))
             \/ Ack(h) \/ SkipMissing(h) \/ PassThrottle(h)
             \/ DeliverOk(h) \/ DeliverFails(h) \/ PublishDeadLetter(h)
             \/ AuditDeadLetter(h) \/ StoreRaises(h) \/ PublishRaises(h)
      PROVE  UNCHANGED <<now, table, unclaimed>>
  BY <1>6 DEF Receive, ClaimLost, Ack, SkipMissing, PassThrottle, DeliverOk,
     DeliverFails, PublishDeadLetter, AuditDeadLetter, StoreRaises,
     PublishRaises, Nack, outside, undone
<1>7. CASE
     DigestRead \/ DigestList \/ DigestPostOk \/ DigestPostFails \/ LoseConnection \/
     DigestMarkUndone \/ BrokerDrop \/ CrashAndRestart \/ UNCHANGED vars
  BY <1>1, <1>7 DEF DigestRead, DigestList, DigestPostOk, DigestPostFails, LoseConnection,
     DigestMarkUndone, BrokerDrop, CrashAndRestart, vars, outside, undone
<1>8. QED
  BY <1>1, <1>2, <1>3, <1>4, <1>5, <1>6, <1>7
     DEF Next, HandlerStep, EmitStep, DeliverStep, DigestStep, FaultStep

(* The worker implements the ledger: whatever two handlers, the digest,    *)
(* crashes and lost connections do, a firing is opened at most once per    *)
(* TTL, and settled at most once unless a claim of its item was undone.    *)
THEOREM LedgerImplemented == Spec => ImplementsLedger
<1>1. Init => Ledger!Init
  BY DEF Init, Ledger!Init, Spoiled
<1>2. IInv /\ [Next]_vars =>
        [Ledger!Next]_<<now, [i \in Items |-> IF alertId[i] = 0 THEN -1 ELSE firedAt[i]],
                        [i \in Items |-> marks[i] \intersect Settled], Spoiled>>
  BY StepImplements DEF IInv, LedgerStep, LedgerFate, LedgerFired
<1>3. QED
  BY <1>1, <1>2, Invariance, PTL DEF Spec, ImplementsLedger, Ledger!Spec
===============================================================================
