----------------------------- MODULE IngestProofs -----------------------------
(***************************************************************************)
(* Theorems about Ingest, for all adapters, sources, mail, windows, tasks  *)
(* and faults: the in-flight lock, and what is announced of an item.       *)
(***************************************************************************)
EXTENDS Ingest, SequenceTheorems, TLAPS

(* What a task is publishing has its row and no event yet, and no other    *)
(* task is publishing it.                                                  *)
PublishInv ==
  /\ \A r \in Tasks : At(r, "publish") =>
       Head(batch[r]) \in articles /\ sent[Head(batch[r])] = 0
  /\ \A r, q \in Tasks :
       At(r, "publish") /\ At(q, "publish") /\ Head(batch[r]) = Head(batch[q]) => r = q

EventInv == PublishInv /\ AnnouncedAtMostOnce /\ NoSilentItem

IInv == TypeOK /\ LockMatchesRun /\ EventInv

-----------------------------------------------------------------------------
(* The batch read of a source is a sequence of items.                      *)
LEMMA RecentType ==
  ASSUME TypeOK, NEW a \in Adapters, NEW s \in Sources
  PROVE  Recent(a, s) \in Seq(Items)
<1> DEFINE length == IF arrived[s] < Window THEN arrived[s] ELSE Window
<1> DEFINE at(k) == IF a \in NewestFirst THEN arrived[s] + 1 - k ELSE arrived[s] - length + k
<1>1. arrived[s] \in Nat /\ arrived[s] <= Len(Mail[s]) BY DEF TypeOK
<1>2. length \in Nat /\ length <= arrived[s] BY <1>1, BoundsAssumption
<1>3. Mail[s] \in Seq(Items) BY MailAssumption
<1>4. ASSUME NEW k \in 1..length PROVE Mail[s][at(k)] \in Items
  <2>1. at(k) \in 1..arrived[s] BY <1>1, <1>2
  <2>2. at(k) \in 1..Len(Mail[s]) BY <2>1, <1>1, <1>3
  <2> QED BY <2>2, <1>3, ElementOfSeq
<1>5. Recent(a, s) = [k \in 1..length |-> Mail[s][at(k)]] BY DEF Recent
<1>6. [k \in 1..length |-> Mail[s][at(k)]] \in [1..length -> Items] BY <1>4
<1> HIDE DEF length, at
<1> QED BY <1>2, <1>5, <1>6, SeqDef

(* A task that has a phase has an adapter; what it is at is a source.      *)
LEMMA HereType ==
  ASSUME TypeOK, NEW r \in Tasks, ~At(r, "off")
  PROVE  /\ runs[r] \in Adapters
         /\ More(r) => Here(r) \in Sources
<1>1. runs[r] \in Adapters BY DEF TypeOK
<1>2. SourcesOf[runs[r]] \in Seq(Sources) BY <1>1, AdaptersAssumption
<1>3. ASSUME More(r) PROVE Here(r) \in Sources
  <2>1. source[r] \in 1..Len(SourcesOf[runs[r]]) BY <1>2, <1>3 DEF TypeOK, More
  <2> QED BY <1>2, <2>1, ElementOfSeq DEF Here
<1> QED BY <1>1, <1>3

(* The next item of a batch, and the rest of it.                           *)
LEMMA BatchType ==
  ASSUME TypeOK, NEW r \in Tasks, batch[r] # <<>>
  PROVE  Head(batch[r]) \in Items /\ Tail(batch[r]) \in Seq(Items)
BY HeadTailProperties DEF TypeOK

-----------------------------------------------------------------------------
LEMMA InitInv == Init => IInv
<1> SUFFICES ASSUME Init PROVE IInv OBVIOUS
<1>1. TypeOK BY AdaptersAssumption, BoundsAssumption, EmptySeq, MailAssumption
        DEF Init, TypeOK, At, Phases
<1>2. LockMatchesRun BY AdaptersAssumption DEF Init, LockMatchesRun
<1>3. EventInv BY DEF Init, EventInv, PublishInv, AnnouncedAtMostOnce, NoSilentItem, At
<1> QED BY <1>1, <1>2, <1>3 DEF IInv

-----------------------------------------------------------------------------
(* The type invariant is inductive.                                        *)
LEMMA TypeStep == TypeOK /\ [Next]_vars => TypeOK'
<1> SUFFICES ASSUME TypeOK, [Next]_vars PROVE TypeOK' OBVIOUS
<1> USE DEF At, Go, locals, history
<1>1. ASSUME NEW s \in Sources, Arrive(s) PROVE TypeOK' BY <1>1, MailAssumption DEF TypeOK, Arrive
<1>2. ASSUME NEW a \in Adapters, NEW r \in Tasks, Post(a, r) PROVE TypeOK'
  BY <1>2, AdaptersAssumption DEF TypeOK, Post, Phases
<1>3. ASSUME NEW r \in Tasks, Fetch(r) PROVE TypeOK'
  <2>1. Recent(runs[r], Here(r)) \in Seq(Items)
    BY <1>3, HereType, RecentType DEF Fetch, CanRead
  <2> QED BY <1>3, <2>1 DEF TypeOK, Fetch, Phases
<1>4. ASSUME NEW r \in Tasks, FetchRaises(r) PROVE TypeOK'
  BY <1>4, BoundsAssumption DEF TypeOK, FetchRaises, Fault, Phases
<1>5. ASSUME NEW r \in Tasks, NextSource(r) PROVE TypeOK' BY <1>5 DEF TypeOK, NextSource, Phases
<1>6. ASSUME NEW r \in Tasks, Return(r) PROVE TypeOK' BY <1>6 DEF TypeOK, Return, Phases
<1>7. ASSUME NEW r \in Tasks, Persist(r) PROVE TypeOK'
  BY <1>7, BatchType DEF TypeOK, Persist, Ready, PutItem, Drop, Phases
<1>8. ASSUME NEW r \in Tasks, StoreRaises(r) PROVE TypeOK'
  BY <1>8, BatchType, BoundsAssumption DEF TypeOK, StoreRaises, Ready, PutItem, Fault, Phases
<1>9. ASSUME NEW r \in Tasks, PublishConfirmed(r) PROVE TypeOK'
  <2>1. batch[r] # <<>> BY <1>9 DEF TypeOK, PublishConfirmed
  <2> QED BY <1>9, <2>1, BatchType DEF TypeOK, PublishConfirmed, Sent, Drop, Phases
<1>10. ASSUME NEW r \in Tasks, PublishRaises(r) PROVE TypeOK'
  <2>1. batch[r] # <<>> BY <1>10 DEF TypeOK, PublishRaises
  <2>2. Head(batch[r]) \in Items BY <2>1, BatchType
  <2>3. sent' \in [Items -> Nat] /\ cut' \subseteq Items
    BY <1>10, <2>2 DEF TypeOK, PublishRaises, Sent
  <2>4. faults' \in 0..MaxFaults BY <1>10, BoundsAssumption DEF TypeOK, PublishRaises, Fault
  <2>5. UNCHANGED <<arrived, inFlight, runs, source, batch, articles>> BY <1>10 DEF PublishRaises
  <2>6. phase[r] = "publish" /\ phase' = [phase EXCEPT ![r] = "ending"] BY <1>10 DEF PublishRaises
  <2> QED BY <2>3, <2>4, <2>5, <2>6 DEF TypeOK, Phases
<1>11. ASSUME NEW r \in Tasks, End(r) PROVE TypeOK'
  BY <1>11, EmptySeq DEF TypeOK, End, Leave, Cleared, Phases
<1>12. ASSUME NEW a \in Adapters, Crash(a) PROVE TypeOK'
  <2>1. Publishing(a) \subseteq Items BY BatchType DEF Publishing, RunsOf, TypeOK
  <2> QED BY <1>12, <2>1, EmptySeq, BoundsAssumption
        DEF TypeOK, Crash, Leave, Cleared, Fault, Phases
<1>13. ASSUME NEW r \in Tasks, FetchNothing(r) PROVE TypeOK'
  BY <1>13, EmptySeq, BoundsAssumption DEF TypeOK, FetchNothing, Fault, Phases
<1>14. ASSUME NEW r \in Tasks, Skip(r) PROVE TypeOK'
  BY <1>14, BatchType DEF TypeOK, Skip, Drop
<1>15. CASE UNCHANGED vars BY <1>15 DEF TypeOK, vars
<1> QED BY <1>1, <1>2, <1>3, <1>4, <1>5, <1>6, <1>7, <1>8, <1>9, <1>10, <1>11, <1>12, <1>13,
           <1>14, <1>15
      DEF Next, RunStep

-----------------------------------------------------------------------------
(* The lock is touched by the start and the two ends of a run.             *)
LEMMA LockStep == TypeOK /\ LockMatchesRun /\ [Next]_vars => LockMatchesRun'
<1> SUFFICES ASSUME TypeOK, LockMatchesRun, [Next]_vars PROVE LockMatchesRun' OBVIOUS
<1>1. CASE UNCHANGED <<inFlight, runs>> BY <1>1 DEF LockMatchesRun
<1>2. ASSUME NEW a \in Adapters, NEW r \in Tasks, Post(a, r) PROVE LockMatchesRun'
  BY <1>2, AdaptersAssumption DEF TypeOK, LockMatchesRun, Post, Free, At
<1>3. ASSUME NEW r \in Tasks, End(r) PROVE LockMatchesRun'
  <2>1. runs[r] \in Adapters BY <1>3, HereType DEF End, At
  <2> QED BY <1>3, <2>1, AdaptersAssumption DEF TypeOK, LockMatchesRun, End, Leave, Cleared
<1>4. ASSUME NEW a \in Adapters, Crash(a) PROVE LockMatchesRun'
  BY <1>4, AdaptersAssumption DEF TypeOK, LockMatchesRun, Crash, Leave, Cleared, RunsOf
<1>5. ASSUME NEW r \in Tasks, RunStep(r), ~End(r) PROVE UNCHANGED <<inFlight, runs>>
  BY <1>5 DEF RunStep, Fetch, FetchNothing, FetchRaises, NextSource, Return, Skip, Persist,
              StoreRaises, PublishConfirmed, PublishRaises
<1>6. ASSUME NEW s \in Sources, Arrive(s) PROVE UNCHANGED <<inFlight, runs>>
  BY <1>6 DEF Arrive, locals
<1>7. CASE UNCHANGED vars BY <1>1, <1>7 DEF vars, locals
<1> QED BY <1>1, <1>2, <1>3, <1>4, <1>5, <1>6, <1>7 DEF Next

-----------------------------------------------------------------------------
(* What the events depend on is changed by the steps of                    *)
(* persist_and_publish and by a crash.                                     *)
Announcing == <<articles, sent, cut>>

(* A step that neither starts nor ends a publish keeps the event invariant. *)
LEMMA EventKept ==
  ASSUME EventInv, UNCHANGED Announcing,
         \A r \in Tasks : At(r, "publish")' <=> At(r, "publish"),
         \A r \in Tasks : At(r, "publish") => batch'[r] = batch[r]
  PROVE  EventInv'
BY DEF EventInv, PublishInv, AnnouncedAtMostOnce, NoSilentItem, Announcing, At

(* The event of an item without a row has not been taken.                  *)
LEMMA Unannounced ==
  ASSUME TypeOK, AnnouncedAtMostOnce, NEW i \in Items, i \notin articles
  PROVE  sent[i] = 0
<1>1. sent[i] \in Nat BY DEF TypeOK
<1>2. sent[i] <= 1 /\ sent[i] # 1 BY DEF AnnouncedAtMostOnce
<1> QED BY <1>1, <1>2

LEMMA EventStep == TypeOK /\ TypeOK' /\ EventInv /\ [Next]_vars => EventInv'
<1> SUFFICES ASSUME TypeOK, TypeOK', EventInv, [Next]_vars PROVE EventInv' OBVIOUS
<1>1. ASSUME NEW s \in Sources, Arrive(s) PROVE EventInv'
  BY <1>1, EventKept DEF Arrive, Announcing, At, locals, history
<1>2. ASSUME NEW a \in Adapters, NEW r \in Tasks, Post(a, r) PROVE EventInv'
  BY <1>2, EventKept DEF Post, Announcing, At, Go, history, TypeOK
<1>3. ASSUME NEW r \in Tasks,
             \/ Fetch(r) \/ FetchNothing(r) \/ FetchRaises(r)
             \/ NextSource(r) \/ Return(r) \/ Skip(r)
      PROVE EventInv'
  BY <1>3, EventKept DEF Fetch, FetchNothing, FetchRaises, NextSource, Return, Skip, Drop,
                         Announcing, At, Go, history, TypeOK
<1>4. ASSUME NEW r \in Tasks, End(r) PROVE EventInv'
  BY <1>4, EventKept DEF End, Leave, Cleared, Announcing, At, history, TypeOK
<1>5. ASSUME NEW r \in Tasks, Persist(r) PROVE EventInv'
  <2> DEFINE i == Head(batch[r])
  <2>1. CASE ~IsNew(i)
    BY <1>5, <2>1, EventKept DEF Persist, Ready, IsNew, PutItem, Drop, Announcing, At, Go, history, TypeOK
  <2>2. CASE IsNew(i)
    <3>1. i \in Items BY <1>5, BatchType DEF Persist, Ready
    <3>2. articles' = articles \union {i} /\ batch' = batch /\ sent' = sent /\ cut' = cut
      BY <1>5, <2>2 DEF Persist, PutItem, history
    <3>3. phase' = [phase EXCEPT ![r] = "publish"] BY <1>5, <2>2 DEF Persist, Go
    <3>4. sent[i] = 0 BY <2>2, <3>1, Unannounced DEF EventInv, IsNew
    <3>5. PublishInv' BY <2>2, <3>2, <3>3, <3>4 DEF EventInv, PublishInv, IsNew, At, TypeOK
    <3>6. AnnouncedAtMostOnce' BY <3>2 DEF EventInv, AnnouncedAtMostOnce
    <3>7. NoSilentItem' BY <1>5, <3>2, <3>3 DEF EventInv, NoSilentItem, At, TypeOK
    <3> QED BY <3>5, <3>6, <3>7 DEF EventInv
  <2> QED BY <2>1, <2>2
<1>6. ASSUME NEW r \in Tasks, StoreRaises(r) PROVE EventInv'
  <2> DEFINE i == Head(batch[r])
  <2>1. i \in Items /\ phase[r] = "persist" BY <1>6, BatchType DEF StoreRaises, Ready, At
  <2>2. sent' = sent /\ batch' = batch /\ phase' = [phase EXCEPT ![r] = "ending"]
    BY <1>6 DEF StoreRaises, Go
  <2>3. articles \subseteq articles' /\ cut \subseteq cut' /\ articles' \subseteq articles \union cut'
    BY <1>6 DEF StoreRaises, PutItem, IsNew
  <2>4. \A q \in Tasks : At(q, "publish")' <=> At(q, "publish") BY <2>1, <2>2 DEF At, TypeOK
  <2>5. PublishInv' BY <2>2, <2>3, <2>4 DEF EventInv, PublishInv
  <2>6. AnnouncedAtMostOnce' BY <2>2, <2>3 DEF EventInv, AnnouncedAtMostOnce
  <2>7. NoSilentItem' BY <2>2, <2>3, <2>4 DEF EventInv, NoSilentItem
  <2> QED BY <2>5, <2>6, <2>7 DEF EventInv
<1>7. ASSUME NEW r \in Tasks, PublishConfirmed(r) \/ PublishRaises(r) PROVE EventInv'
  <2> DEFINE i == Head(batch[r])
  <2>1. phase[r] = "publish" /\ articles' = articles BY <1>7 DEF PublishConfirmed, PublishRaises, At
  <2>2. i \in Items BY <2>1, BatchType DEF TypeOK, At
  <2>3. i \in articles /\ sent[i] = 0 BY <2>1 DEF EventInv, PublishInv, At
  <2>4. /\ sent' = [sent EXCEPT ![i] = @ + 1] \/ (sent' = sent /\ i \in cut')
        /\ cut \subseteq cut'
    BY <1>7 DEF PublishConfirmed, PublishRaises, Sent
  <2>5. \A q \in Tasks : q # r => (At(q, "publish")' <=> At(q, "publish")) /\ batch'[q] = batch[q]
    BY <1>7 DEF PublishConfirmed, PublishRaises, Go, Drop, At, TypeOK
  <2>6. ~At(r, "publish")' BY <1>7 DEF PublishConfirmed, PublishRaises, Go, At, TypeOK
  <2>7. PublishInv'
    <3>1. \A q \in Tasks : At(q, "publish")' => Head(batch[q]) # i
      BY <2>1, <2>5, <2>6 DEF EventInv, PublishInv, At
    <3>2. \A q \in Tasks : At(q, "publish") => Head(batch[q]) \in Items
      BY BatchType DEF TypeOK
    <3>3. \A q \in Tasks : At(q, "publish")' => sent'[Head(batch[q])] = sent[Head(batch[q])]
      BY <2>4, <2>5, <2>6, <3>1, <3>2 DEF TypeOK
    <3> QED BY <2>1, <2>5, <2>6, <3>3 DEF EventInv, PublishInv
  <2>8. AnnouncedAtMostOnce'
    <3>1. \A j \in Items : sent'[j] = sent[j] \/ (j = i /\ sent'[j] = 1)
      BY <2>2, <2>3, <2>4 DEF TypeOK
    <3> HIDE DEF i
    <3> QED BY <2>1, <2>3, <3>1 DEF EventInv, AnnouncedAtMostOnce
  <2>9. NoSilentItem'
    <3>1. ASSUME NEW j \in articles PROVE \/ sent'[j] > 0 \/ j \in cut'
            \/ \E q \in Tasks : At(q, "publish")' /\ Head(batch'[q]) = j
      <4>1. j \in Items BY DEF TypeOK
      <4>2. CASE j = i BY <2>2, <2>3, <2>4, <4>2 DEF TypeOK
      <4>3. CASE j # i
        <5>1. sent'[j] = sent[j] BY <2>4, <4>1, <4>3 DEF TypeOK
        <5> QED BY <2>4, <2>5, <4>3, <5>1 DEF EventInv, NoSilentItem
      <4> QED BY <4>2, <4>3
    <3> QED BY <2>1, <3>1 DEF NoSilentItem
  <2> QED BY <2>7, <2>8, <2>9 DEF EventInv
<1>8. ASSUME NEW a \in Adapters, Crash(a) PROVE EventInv'
  <2>1. PICK taken \in SUBSET Publishing(a) :
          sent' = [i \in Items |-> IF i \in taken THEN sent[i] + 1 ELSE sent[i]]
    BY <1>8 DEF Crash
  <2>2. articles' = articles /\ cut' = cut \union Publishing(a) BY <1>8 DEF Crash
  <2>3. \A q \in Tasks : /\ At(q, "publish")' <=> At(q, "publish") /\ q \notin RunsOf(a)
                         /\ At(q, "publish")' => batch'[q] = batch[q]
    BY <1>8 DEF Crash, Leave, Cleared, At, TypeOK
  <2>4. \A i \in taken : i \in articles /\ sent[i] = 0
    BY DEF Publishing, RunsOf, EventInv, PublishInv
  <2>5. \A q \in Tasks : At(q, "publish")' => Head(batch[q]) \notin taken
    BY <2>3 DEF Publishing, RunsOf, EventInv, PublishInv
  <2>6. \A q \in Tasks : At(q, "publish") => Head(batch[q]) \in Items BY BatchType DEF TypeOK
  <2>7. PublishInv' BY <2>1, <2>2, <2>3, <2>5, <2>6 DEF EventInv, PublishInv, TypeOK
  <2>8. AnnouncedAtMostOnce' BY <2>1, <2>2, <2>4 DEF EventInv, AnnouncedAtMostOnce, TypeOK
  <2>9. NoSilentItem'
    <3>1. ASSUME NEW j \in articles PROVE \/ sent'[j] > 0 \/ j \in cut'
            \/ \E q \in Tasks : At(q, "publish")' /\ Head(batch'[q]) = j
      <4>1. j \in Items BY DEF TypeOK
      <4>2. CASE j \in Publishing(a) BY <2>2, <4>2
      <4>3. CASE j \notin Publishing(a)
        <5>1. sent'[j] = sent[j] BY <2>1, <4>1, <4>3
        <5>2. ASSUME NEW q \in Tasks, At(q, "publish"), Head(batch[q]) = j
              PROVE At(q, "publish")' /\ Head(batch'[q]) = j
          BY <2>3, <4>3, <5>2 DEF Publishing
        <5> QED BY <2>2, <5>1, <5>2 DEF EventInv, NoSilentItem
      <4> QED BY <4>2, <4>3
    <3> QED BY <2>2, <3>1 DEF NoSilentItem
  <2> QED BY <2>7, <2>8, <2>9 DEF EventInv
<1>9. CASE UNCHANGED vars BY <1>9, EventKept DEF vars, locals, history, Announcing, At
<1> QED BY <1>1, <1>2, <1>3, <1>4, <1>5, <1>6, <1>7, <1>8, <1>9 DEF Next, RunStep

-----------------------------------------------------------------------------
(* The inductive invariant holds in every reachable state of the ingest    *)
(* core.                                                                   *)
THEOREM IngestInvariance == Spec => []IInv
<1>1. IInv /\ [Next]_vars => IInv' BY TypeStep, LockStep, EventStep DEF IInv
<1> QED BY InitInv, <1>1, PTL DEF Spec

(* Every variable of the ingest core keeps its type.                       *)
THEOREM IngestTyped == Spec => []TypeOK
<1>1. IInv => TypeOK BY DEF IInv
<1> QED BY IngestInvariance, <1>1, PTL

(* An adapter never has two runs, and its flag never outlives its run.     *)
THEOREM LockHolds == Spec => []LockMatchesRun
<1>1. IInv => LockMatchesRun BY DEF IInv
<1> QED BY IngestInvariance, <1>1, PTL

(* The broker takes at most one event of an item, and only of a stored     *)
(* one.                                                                    *)
THEOREM AnnouncedOnce == Spec => []AnnouncedAtMostOnce
<1>1. IInv => AnnouncedAtMostOnce BY DEF IInv, EventInv
<1> QED BY IngestInvariance, <1>1, PTL

(* A stored item is announced, about to be, or was refused or cut off.     *)
THEOREM NoItemSilent == Spec => []NoSilentItem
<1>1. IInv => NoSilentItem BY DEF IInv, EventInv
<1> QED BY IngestInvariance, <1>1, PTL
=============================================================================
