------------------------------ MODULE TriageProofs ------------------------------
(***************************************************************************)
(* What Triage guarantees for any items, any near pairs and any number of  *)
(* handlers, entity threads and faults.  First the types; then what a step *)
(* may do to the shared connection; then, for each safety invariant, the   *)
(* outcome it rests on (a verdict leaves, a verdict is stored, duplicates  *)
(* have a source), the lemma that no step takes that outcome back, and the  *)
(* inductive invariant that says who has brought it about.                 *)
(***************************************************************************)
EXTENDS Triage, TLAPS

-----------------------------------------------------------------------------
(* Types.                                                                  *)

(* The ready messages, idle handlers and empty tables have their types.    *)
LEMMA TypeInit == Init => TypeOK
<1> SUFFICES ASSUME Init PROVE TypeOK
  OBVIOUS
<1>1. NoRows \in Rows
  BY DEF NoRows, Rows
<1>2. 0 \in 0 .. MaxFaults
  BY FaultsAssumption
<1> QED
  BY <1>1, <1>2, ItemsAssumption DEF Init, TypeOK, Everyone, Verdicts, Phases

(* What the statements of the connection leave in it are rows.             *)
LEMMA ConnectionTypes ==
  ASSUME TypeOK
  PROVE  /\ Undo => db' \in Rows /\ view' \in Rows /\ aborted' \in BOOLEAN
         /\ Commit => db' \in Rows /\ view' \in Rows /\ aborted' \in BOOLEAN
         /\ StatementRaises => /\ db' \in Rows /\ view' \in Rows
                               /\ aborted' \in BOOLEAN /\ faults' \in 0 .. MaxFaults
         /\ Fault => faults' \in 0 .. MaxFaults
<1>1. Fault => faults' \in 0 .. MaxFaults
  BY FaultsAssumption DEF TypeOK, Fault
<1>2. Undo => db' \in Rows /\ view' \in Rows /\ aborted' \in BOOLEAN
  BY DEF TypeOK, Undo
<1>3. Commit => db' \in Rows /\ view' \in Rows /\ aborted' \in BOOLEAN
  BY <1>2 DEF TypeOK, Commit
<1>4. StatementRaises => /\ db' \in Rows /\ view' \in Rows
                         /\ aborted' \in BOOLEAN /\ faults' \in 0 .. MaxFaults
  BY <1>1 DEF TypeOK, StatementRaises, store
<1> QED BY <1>1, <1>2, <1>3, <1>4

(* A handler that is not idle has an item.                                 *)
LEMMA ActiveHasItem ==
  ASSUME TypeOK, NEW h \in Handlers, phase[h] # "idle"
  PROVE  item[h] \in Items
BY DEF TypeOK

(* A step of one handler keeps the types of what it leaves alone or sets.  *)
LEMMA TypeStep == TypeOK /\ [Next]_vars => TypeOK'
<1> SUFFICES ASSUME TypeOK, [Next]_vars PROVE TypeOK'
  OBVIOUS
<1> USE DEF TypeOK, At, Go, queue, handlers, store, history, Phases, Verdicts
<1>1. ASSUME NEW h \in Handlers, NEW i \in Items, Receive(h, i) PROVE TypeOK'
  BY <1>1, ItemsAssumption DEF Receive
<1>2. ASSUME NEW h \in Handlers, ProcessStep(h) PROVE TypeOK'
  <2>1. CASE Fetch(h)
    BY <2>1, ConnectionTypes, ActiveHasItem DEF Fetch, Read
  <2>2. CASE FindCcir(h)
    BY <2>2, ConnectionTypes, ActiveHasItem DEF FindCcir, Read
  <2>3. CASE FindCcirRaises(h)
    BY <2>3, ConnectionTypes, ActiveHasItem DEF FindCcirRaises
  <2>4. CASE FindNearDuplicate(h)
    BY <2>4, ConnectionTypes, ActiveHasItem DEF FindNearDuplicate, Read
  <2>5. CASE Score(h)
    BY <2>5 DEF Score
  <2>6. CASE PutEnrichment(h)
    <3>1. item[h] \in Items
      BY <2>6, ActiveHasItem DEF PutEnrichment
    <3>2. view' \in Rows
      BY <2>6, <3>1 DEF PutEnrichment, Rows
    <3> QED BY <2>6, <3>1, <3>2 DEF PutEnrichment
  <2>7. CASE CommitEnrichment(h)
    BY <2>7, ConnectionTypes, ActiveHasItem DEF CommitEnrichment
  <2>8. CASE PutEmbedding(h)
    <3>1. item[h] \in Items
      BY <2>8, ActiveHasItem DEF PutEmbedding
    <3>2. view' \in Rows
      BY <2>8, <3>1 DEF PutEmbedding, Rows
    <3> QED BY <2>8, <3>1, <3>2 DEF PutEmbedding
  <2>9. CASE CommitEmbedding(h)
    BY <2>9, ConnectionTypes, ActiveHasItem DEF CommitEmbedding
  <2>10. CASE AuditSkip(h)
    BY <2>10, ConnectionTypes, ActiveHasItem DEF AuditSkip
  <2>11. CASE NerTimeout(h)
    BY <2>11, ConnectionTypes, ActiveHasItem DEF NerTimeout
  <2>12. CASE Publish(h)
    BY <2>12, ActiveHasItem DEF Publish
  <2>13. CASE PublishConfirmed(h)
    BY <2>13, ActiveHasItem DEF PublishConfirmed
  <2>14. CASE Ack(h)
    BY <2>14, ActiveHasItem DEF Ack, Settle
  <2>15. CASE StoreRaises(h)
    BY <2>15, ConnectionTypes, ActiveHasItem DEF StoreRaises, Nack, Settle
  <2>16. CASE ModelRaises(h)
    BY <2>16, ConnectionTypes, ActiveHasItem DEF ModelRaises, Nack, Settle
  <2>17. CASE VerdictInvalid(h)
    BY <2>17, ActiveHasItem DEF VerdictInvalid, Nack, Settle
  <2>18. CASE PublishRefused(h)
    BY <2>18, ConnectionTypes, ActiveHasItem DEF PublishRefused, Nack, Settle
  <2>19. ASSUME NEW z \in Threads, StartNer(h, z) PROVE TypeOK'
    BY <2>19, ItemsAssumption DEF StartNer
  <2> QED
    BY <1>2, <2>1, <2>2, <2>3, <2>4, <2>5, <2>6, <2>7, <2>8, <2>9, <2>10, <2>11,
       <2>12, <2>13, <2>14, <2>15, <2>16, <2>17, <2>18, <2>19 DEF ProcessStep
<1>3. ASSUME NEW z \in Threads, ThreadStep(z) PROVE TypeOK'
  <2>1. CASE ThreadRead(z)
    BY <2>1, ConnectionTypes DEF ThreadRead, Read
  <2>2. CASE ThreadWrite(z)
    BY <2>2 DEF ThreadWrite
  <2>3. CASE ThreadCommit(z)
    BY <2>3, ConnectionTypes DEF ThreadCommit
  <2>4. CASE ThreadEnds(z)
    BY <2>4, ItemsAssumption DEF ThreadEnds, WakeAwaiter
  <2>5. CASE ThreadRaises(z)
    BY <2>5, ConnectionTypes, ItemsAssumption DEF ThreadRaises, WakeAwaiter
  <2> QED BY <1>3, <2>1, <2>2, <2>3, <2>4, <2>5 DEF ThreadStep
<1>4. ASSUME NEW i \in Items, DlqReplay(i) PROVE TypeOK'
  BY <1>4 DEF DlqReplay
<1>5. CASE BrokerDrop
  BY <1>5, ConnectionTypes DEF BrokerDrop, Requeue, Everyone
<1>6. CASE CrashAndRestart
  <2>1. \A h \in Handlers : At(h, "publishing") \/ At(h, "vectoring") => item[h] \in Items
    BY ActiveHasItem
  <2> QED
    BY <1>6, <2>1, ConnectionTypes DEF CrashAndRestart, Requeue, Everyone
<1>7. CASE UNCHANGED vars
  BY <1>7 DEF vars
<1> QED BY <1>1, <1>2, <1>3, <1>4, <1>5, <1>6, <1>7 DEF Next

(* Every variable keeps to its type; a handler has an item exactly while   *)
(* it is not idle, and an entity thread exactly while it waits for one.    *)
THEOREM TriageTypes == Spec => []TypeOK
<1>1. Init => TypeOK
  BY TypeInit
<1>2. TypeOK /\ [Next]_vars => TypeOK'
  BY TypeStep
<1> QED BY <1>1, <1>2, PTL DEF Spec

-----------------------------------------------------------------------------
(* A verdict leaves.  Its outcome is that the broker has taken it, has     *)
(* refused it or was cut off from it, or that its publish is under way.    *)

Outcome(i) == i \in published \/ i \in refused \/ Publishing(i)

(* The seen-set holds only items with an outcome, so the publish that it   *)
(* turns into a no-op is one that had an outcome before.                   *)
SeenHasOutcome == \A i \in seen : Outcome(i)

DoneHasOutcome ==
  \A h \in Handlers, i \in Items :
    At(h, "done") /\ item[h] = i => i \in Unknown \/ Outcome(i)

AckedHasOutcome ==
  \A i \in Items : msg[i] = "acked" => i \in Unknown \/ Outcome(i)

OutInv == SeenHasOutcome /\ DoneHasOutcome /\ AckedHasOutcome

(* A publish is left only by a confirm, a refusal or the crash that cuts   *)
(* it off, and none of these is forgotten.                                 *)
LEMMA OutcomeStays ==
  ASSUME TypeOK, [Next]_vars, NEW i \in Items, Outcome(i)
  PROVE  Outcome(i)'
<1> USE DEF Outcome, Publishing, At, Go, queue, handlers, store, history
<1>1. ASSUME NEW h \in Handlers, NEW j \in Items, Receive(h, j) PROVE Outcome(i)'
  BY <1>1 DEF TypeOK, Receive
<1>2. ASSUME NEW h \in Handlers, ProcessStep(h) PROVE Outcome(i)'
  <2>1. CASE PublishConfirmed(h)
    BY <2>1 DEF TypeOK, PublishConfirmed
  <2>2. CASE PublishRefused(h)
    BY <2>2 DEF TypeOK, PublishRefused, Nack, Settle
  <2>3. CASE Fetch(h) \/ FindCcir(h) \/ FindCcirRaises(h) \/ FindNearDuplicate(h)
    BY <2>3 DEF TypeOK, Fetch, FindCcir, FindCcirRaises, FindNearDuplicate
  <2>4. CASE Score(h) \/ PutEnrichment(h) \/ CommitEnrichment(h)
    BY <2>4 DEF TypeOK, Score, PutEnrichment, CommitEnrichment
  <2>5. CASE PutEmbedding(h) \/ CommitEmbedding(h) \/ AuditSkip(h) \/ NerTimeout(h)
    BY <2>5 DEF TypeOK, PutEmbedding, CommitEmbedding, AuditSkip, NerTimeout
  <2>6. CASE Publish(h) \/ Ack(h) \/ (\E z \in Threads : StartNer(h, z))
    BY <2>6 DEF TypeOK, Publish, Ack, Settle, StartNer
  <2>7. CASE StoreRaises(h) \/ ModelRaises(h) \/ VerdictInvalid(h)
    BY <2>7 DEF TypeOK, StoreRaises, ModelRaises, VerdictInvalid, Nack, Settle
  <2> QED BY <1>2, <2>1, <2>2, <2>3, <2>4, <2>5, <2>6, <2>7 DEF ProcessStep
<1>3. ASSUME NEW z \in Threads, ThreadStep(z) PROVE Outcome(i)'
  <2>1. CASE ThreadRead(z) \/ ThreadWrite(z) \/ ThreadCommit(z)
    BY <2>1 DEF ThreadRead, ThreadWrite, ThreadCommit
  <2>2. CASE ThreadEnds(z) \/ ThreadRaises(z)
    BY <2>2, ItemsAssumption DEF TypeOK, ThreadEnds, ThreadRaises, WakeAwaiter
  <2> QED BY <1>3, <2>1, <2>2 DEF ThreadStep
<1>4. CASE CrashAndRestart
  BY <1>4 DEF TypeOK, CrashAndRestart
<1>5. CASE (\E j \in Items : DlqReplay(j)) \/ BrokerDrop \/ UNCHANGED vars
  BY <1>5 DEF DlqReplay, BrokerDrop, vars
<1> QED BY <1>1, <1>2, <1>3, <1>4, <1>5 DEF Next

(* Every step that lets an item be seen, a handler be done or a message be *)
(* acked brings the outcome about or finds it there.                       *)
LEMMA OutcomeStep == TypeOK /\ OutInv /\ [Next]_vars => OutInv'
<1> SUFFICES ASSUME TypeOK, OutInv, [Next]_vars PROVE OutInv'
  OBVIOUS
<1>0. \A i \in Items : Outcome(i) => Outcome(i)'
  BY OutcomeStays
<1> USE <1>0 DEF OutInv, SeenHasOutcome, DoneHasOutcome, AckedHasOutcome,
      At, Go, queue, handlers, store, history
<1>1. ASSUME NEW h \in Handlers, NEW j \in Items, Receive(h, j) PROVE OutInv'
  BY <1>1 DEF TypeOK, Receive
<1>2. ASSUME NEW h \in Handlers, ProcessStep(h) PROVE OutInv'
  <2>1. CASE Publish(h)
    <3>1. item[h] \in Items
      BY <2>1, ActiveHasItem DEF Publish
    <3>2. PICK i \in Items : i = item[h]
      BY <3>1
    <3>3. Outcome(i)'
      <4>1. CASE i \in seen
        BY <4>1
      <4>2. CASE i \notin seen
        BY <2>1, <3>2, <4>2 DEF Publish, TypeOK, Publishing, Outcome
      <4> QED BY <4>1, <4>2
    <3> QED BY <2>1, <3>2, <3>3 DEF Publish, TypeOK
  <2>2. CASE PublishConfirmed(h)
    <3>1. PICK i \in Items : i = item[h]
      BY <2>2, ActiveHasItem DEF PublishConfirmed
    <3>2. Outcome(i)'
      BY <2>2, <3>1 DEF PublishConfirmed, Outcome
    <3> QED BY <2>2, <3>1, <3>2 DEF PublishConfirmed, TypeOK
  <2>3. CASE Fetch(h) \/ FindCcir(h) \/ FindCcirRaises(h) \/ FindNearDuplicate(h)
    BY <2>3 DEF TypeOK, Fetch, FindCcir, FindCcirRaises, FindNearDuplicate
  <2>4. CASE Score(h) \/ PutEnrichment(h) \/ CommitEnrichment(h)
    BY <2>4 DEF TypeOK, Score, PutEnrichment, CommitEnrichment
  <2>5. CASE PutEmbedding(h) \/ CommitEmbedding(h) \/ AuditSkip(h) \/ NerTimeout(h)
    BY <2>5 DEF TypeOK, PutEmbedding, CommitEmbedding, AuditSkip, NerTimeout
  <2>6. CASE Ack(h)
    BY <2>6 DEF TypeOK, Ack, Settle
  <2>7. CASE \E z \in Threads : StartNer(h, z)
    BY <2>7 DEF TypeOK, StartNer
  <2>8. CASE StoreRaises(h) \/ ModelRaises(h) \/ VerdictInvalid(h) \/ PublishRefused(h)
    BY <2>8 DEF TypeOK, StoreRaises, ModelRaises, VerdictInvalid, PublishRefused, Nack, Settle
  <2> QED BY <1>2, <2>1, <2>2, <2>3, <2>4, <2>5, <2>6, <2>7, <2>8 DEF ProcessStep
<1>3. ASSUME NEW z \in Threads, ThreadStep(z) PROVE OutInv'
  <2>1. CASE ThreadRead(z) \/ ThreadWrite(z) \/ ThreadCommit(z)
    BY <2>1 DEF TypeOK, ThreadRead, ThreadWrite, ThreadCommit
  <2>2. CASE ThreadEnds(z) \/ ThreadRaises(z)
    BY <2>2 DEF TypeOK, ThreadEnds, ThreadRaises, WakeAwaiter
  <2> QED BY <1>3, <2>1, <2>2 DEF ThreadStep
<1>4. CASE CrashAndRestart
  BY <1>4 DEF TypeOK, CrashAndRestart, Requeue, Everyone
<1>5. CASE (\E j \in Items : DlqReplay(j)) \/ UNCHANGED vars
  BY <1>5 DEF TypeOK, DlqReplay, vars
<1>6. CASE BrokerDrop
  BY <1>6 DEF TypeOK, BrokerDrop, Requeue
<1> QED BY <1>1, <1>2, <1>3, <1>4, <1>5, <1>6 DEF Next

(* No silent data loss: an ack leaves the queue only for an unknown        *)
(* article, or after the item's verdict was published, refused or cut off, *)
(* or while it is being published, whoever redelivers, times out or        *)
(* crashes in between.                                                     *)
THEOREM TriageNoSilentVerdict == Spec => []NoSilentVerdict
<1>1. Init => OutInv
  BY DEF Init, OutInv, SeenHasOutcome, DoneHasOutcome, AckedHasOutcome, At, Everyone
<1>2. TypeOK /\ OutInv /\ [Next]_vars => OutInv'
  BY OutcomeStep
<1>3. OutInv => NoSilentVerdict
  BY DEF OutInv, AckedHasOutcome, NoSilentVerdict, Outcome
<1> QED BY <1>1, <1>2, <1>3, TriageTypes, PTL DEF Spec

-----------------------------------------------------------------------------
(* The shared connection.  A step commits what the connection sees, undoes *)
(* it, adds one row to it, or leaves both alone.                           *)

Unmoved == UNCHANGED <<db, view>>
Commits == db' = view /\ view' = view
Undoes  == db' = db /\ view' = db

LEMMA ConnectionStep ==
  ASSUME [Next]_vars
  PROVE  Unmoved \/ Commits \/ Undoes
         \/ \E h \in Handlers : PutEnrichment(h) \/ PutEmbedding(h)
<1> USE DEF Unmoved, Commits, Undoes, store
<1>1. /\ Undo => Undoes
      /\ Read => Undoes
      /\ Commit => Commits \/ Undoes
      /\ StatementRaises => Unmoved \/ Undoes
  BY DEF Undo, Read, Commit, StatementRaises
<1>2. ASSUME NEW h \in Handlers, NEW i \in Items, Receive(h, i) PROVE Unmoved
  BY <1>2 DEF Receive
<1>3. ASSUME NEW h \in Handlers, ProcessStep(h)
      PROVE  Unmoved \/ Commits \/ Undoes \/ PutEnrichment(h) \/ PutEmbedding(h)
  BY <1>1, <1>3
     DEF ProcessStep, Fetch, FindCcir, FindCcirRaises, FindNearDuplicate, Score,
         CommitEnrichment, CommitEmbedding, AuditSkip, NerTimeout, Publish,
         PublishConfirmed, Ack, StoreRaises, ModelRaises, VerdictInvalid,
         PublishRefused, StartNer
<1>4. ASSUME NEW z \in Threads, ThreadStep(z) PROVE Unmoved \/ Commits \/ Undoes
  BY <1>1, <1>4
     DEF ThreadStep, ThreadRead, ThreadWrite, ThreadCommit, ThreadEnds, ThreadRaises
<1>5. CASE (\E i \in Items : DlqReplay(i)) \/ BrokerDrop \/ UNCHANGED vars
  BY <1>5 DEF DlqReplay, BrokerDrop, vars
<1>6. CASE CrashAndRestart
  BY <1>1, <1>6 DEF CrashAndRestart
<1> QED BY <1>2, <1>3, <1>4, <1>5, <1>6 DEF Next

(* What is committed is seen, and nothing is deleted.                      *)
DbIsSeen ==
  /\ \A i \in Items : db.verdict[i] # "absent" => view.verdict[i] # "absent"
  /\ db.vectors \subseteq view.vectors

LEMMA DbIsSeenStep == TypeOK /\ DbIsSeen /\ [Next]_vars => DbIsSeen'
<1> SUFFICES ASSUME TypeOK, DbIsSeen, [Next]_vars PROVE DbIsSeen'
  OBVIOUS
<1> USE DEF DbIsSeen
<1>1. CASE Unmoved \/ Commits \/ Undoes
  BY <1>1 DEF Unmoved, Commits, Undoes
<1>2. ASSUME NEW h \in Handlers, PutEnrichment(h) PROVE DbIsSeen'
  <2>1. fields[h] # "absent" /\ item[h] \in Items
    BY <1>2, ActiveHasItem DEF TypeOK, Verdicts, PutEnrichment, At
  <2> QED BY <1>2, <2>1 DEF PutEnrichment, TypeOK, Rows
<1>3. ASSUME NEW h \in Handlers, PutEmbedding(h) PROVE DbIsSeen'
  BY <1>3 DEF PutEmbedding, TypeOK, Rows
<1> QED BY <1>1, <1>2, <1>3, ConnectionStep

LEMMA DbGrows ==
  ASSUME TypeOK, DbIsSeen, [Next]_vars
  PROVE  /\ \A i \in Items : db.verdict[i] # "absent" => db'.verdict[i] # "absent"
         /\ db.vectors \subseteq db'.vectors
BY ConnectionStep
   DEF DbIsSeen, Unmoved, Commits, Undoes, PutEnrichment, PutEmbedding

LEMMA LostGrows ==
  ASSUME [Next]_vars
  PROVE  lost \subseteq lost'
BY DEF Next, Receive, ProcessStep, Fetch, FindCcir, FindCcirRaises,
       FindNearDuplicate, Score, PutEnrichment, CommitEnrichment, PutEmbedding,
       CommitEmbedding, AuditSkip, NerTimeout, Publish, PublishConfirmed, Ack,
       StoreRaises, ModelRaises, VerdictInvalid, PublishRefused, StartNer,
       ThreadStep, ThreadRead, ThreadWrite, ThreadCommit, ThreadEnds,
       ThreadRaises, WakeAwaiter, DlqReplay, BrokerDrop, CrashAndRestart,
       queue, handlers, history, vars

-----------------------------------------------------------------------------
(* A verdict is stored.  Whoever has come past the commit of its verdict   *)
(* has the row stored, or has lost it to another user of the connection.   *)

Stored(i) == db.verdict[i] # "absent" \/ <<"verdict", i>> \in lost

PastCommit == {"vector", "vectoring", "audit", "ner", "wait", "build", "publishing"}

PastCommitIsStored ==
  \A h \in Handlers, i \in Items : phase[h] \in PastCommit /\ item[h] = i => Stored(i)

PublishedIsStored == \A i \in published : Stored(i)

StoreInv == DbIsSeen /\ PastCommitIsStored /\ PublishedIsStored

LEMMA StoreStep == TypeOK /\ StoreInv /\ [Next]_vars => StoreInv'
<1> SUFFICES ASSUME TypeOK, StoreInv, [Next]_vars
             PROVE  PastCommitIsStored' /\ PublishedIsStored'
  BY DbIsSeenStep DEF StoreInv
<1>0. \A i \in Items : Stored(i) => Stored(i)'
  BY DbGrows, LostGrows DEF StoreInv, Stored
<1> DEFINE Goal == PastCommitIsStored /\ PublishedIsStored
<1> USE <1>0 DEF StoreInv, PastCommitIsStored, PublishedIsStored, PastCommit,
      At, Go, queue, handlers, store, history
<1>1. ASSUME NEW h \in Handlers, NEW j \in Items, Receive(h, j) PROVE Goal'
  BY <1>1 DEF TypeOK, Receive
<1>2. ASSUME NEW h \in Handlers, ProcessStep(h) PROVE Goal'
  <2>1. CASE CommitEnrichment(h)
    <3>1. PICK i \in Items : i = item[h]
      BY <2>1, ActiveHasItem DEF CommitEnrichment
    <3>2. Stored(i)'
      BY <2>1, <3>1 DEF CommitEnrichment, Stored
    <3> QED BY <2>1, <3>1, <3>2 DEF CommitEnrichment, TypeOK
  <2>2. CASE Fetch(h) \/ FindCcir(h) \/ FindCcirRaises(h) \/ FindNearDuplicate(h)
    BY <2>2 DEF TypeOK, Fetch, FindCcir, FindCcirRaises, FindNearDuplicate
  <2>3. CASE Score(h) \/ PutEnrichment(h)
    BY <2>3 DEF TypeOK, Score, PutEnrichment
  <2>4. CASE PutEmbedding(h) \/ CommitEmbedding(h) \/ AuditSkip(h) \/ NerTimeout(h)
    BY <2>4 DEF TypeOK, PutEmbedding, CommitEmbedding, AuditSkip, NerTimeout
  <2>5. CASE Publish(h) \/ PublishConfirmed(h) \/ Ack(h)
    BY <2>5, ActiveHasItem DEF TypeOK, Publish, PublishConfirmed, Ack, Settle
  <2>6. CASE \E z \in Threads : StartNer(h, z)
    BY <2>6 DEF TypeOK, StartNer
  <2>7. CASE StoreRaises(h) \/ ModelRaises(h) \/ VerdictInvalid(h) \/ PublishRefused(h)
    BY <2>7 DEF TypeOK, StoreRaises, ModelRaises, VerdictInvalid, PublishRefused,
                Nack, Settle
  <2> QED BY <1>2, <2>1, <2>2, <2>3, <2>4, <2>5, <2>6, <2>7 DEF ProcessStep
<1>3. ASSUME NEW z \in Threads, ThreadStep(z) PROVE Goal'
  <2>1. CASE ThreadRead(z) \/ ThreadWrite(z) \/ ThreadCommit(z)
    BY <2>1 DEF TypeOK, ThreadRead, ThreadWrite, ThreadCommit
  <2>2. CASE ThreadEnds(z) \/ ThreadRaises(z)
    BY <2>2, ItemsAssumption DEF TypeOK, ThreadEnds, ThreadRaises, WakeAwaiter
  <2> QED BY <1>3, <2>1, <2>2 DEF ThreadStep
<1>4. CASE CrashAndRestart
  BY <1>4 DEF TypeOK, CrashAndRestart, Everyone
<1>5. CASE (\E j \in Items : DlqReplay(j)) \/ BrokerDrop \/ UNCHANGED vars
  BY <1>5 DEF TypeOK, DlqReplay, BrokerDrop, vars
<1> QED BY <1>1, <1>2, <1>3, <1>4, <1>5 DEF Next

(* Enrichment commits before verdict.ready: a published verdict has its    *)
(* row, unless another user of the shared connection undid the row before  *)
(* the call that wrote it committed.                                       *)
THEOREM TriageVerdictIsStored == Spec => []VerdictIsStored
<1>1. Init => StoreInv
  BY DEF Init, StoreInv, DbIsSeen, PastCommitIsStored, PublishedIsStored,
         PastCommit, Everyone, NoRows
<1>2. TypeOK /\ StoreInv /\ [Next]_vars => StoreInv'
  BY StoreStep
<1>3. StoreInv => VerdictIsStored
  BY DEF StoreInv, PublishedIsStored, VerdictIsStored, Stored
<1> QED BY <1>1, <1>2, <1>3, TriageTypes, PTL DEF Spec

-----------------------------------------------------------------------------
(* Duplicates have a source.  A source is an item whose vector is stored,  *)
(* or a handler is about to store it, or it was undone under one.          *)

Vectoring(j) == \E h \in Handlers : At(h, "vectoring") /\ item[h] = j

Source(j) == j \in db.vectors \/ <<"vector", j>> \in lost \/ Vectoring(j)

(* A vector that only the connection sees is owed by a handler, or lost.   *)
SeenVectorIsOwed == \A j \in view.vectors : Source(j)

(* No vector of the item has been written.                                 *)
Blank(i) == i \notin view.vectors /\ ~Source(i)

BeforeVector ==
  {"fetch", "ccir", "near", "unfiltered", "score", "enrich", "enriching", "vector"}

(* An item on its first delivery has one handler at most, and no vector    *)
(* until that handler writes it.                                           *)
FirstTry ==
  \A i \in Items \ again :
    /\ msg[i] = "ready" => Blank(i) /\ \A h \in Handlers : item[h] # i
    /\ \A h, g \in Handlers : item[h] = i /\ item[g] = i => h = g
    /\ \A h \in Handlers : item[h] = i /\ phase[h] \in BeforeVector => Blank(i)

(* The verdict "duplicate" on an item: reached, written or stored.         *)
Reached(i) == \E h \in Handlers : item[h] = i /\ fields[h] = "duplicate"

Claimed(i) == \/ db.verdict[i] = "duplicate" \/ view.verdict[i] = "duplicate"
              \/ Reached(i)

(* One of a group of items is near a source outside the group.             *)
Founded(D) == \E i \in D, j \in Items \ D : <<i, j>> \in Near /\ Source(j)

DuplicatesFounded ==
  \A D \in SUBSET {i \in Items : Claimed(i) /\ i \notin again} : D # {} => Founded(D)

IdleHasNoVerdict == \A h \in Handlers : At(h, "idle") => fields[h] = "scored"

DupInv == /\ DbIsSeen /\ SeenVectorIsOwed /\ FirstTry /\ DuplicatesFounded
          /\ IdleHasNoVerdict

(* A handler stops being about to store a vector only by storing it, by    *)
(* finding that it was undone, or by the crash that undoes it.             *)
LEMMA VectoringEnds ==
  ASSUME TypeOK, [Next]_vars, NEW j \in Items, Vectoring(j)
  PROVE  Source(j)'
<1> USE DEF Source, Vectoring, At, Go, queue, handlers, store, history
<1>1. ASSUME NEW h \in Handlers, NEW i \in Items, Receive(h, i) PROVE Source(j)'
  BY <1>1 DEF TypeOK, Receive
<1>2. ASSUME NEW h \in Handlers, ProcessStep(h) PROVE Source(j)'
  <2>1. CASE CommitEmbedding(h)
    BY <2>1 DEF TypeOK, CommitEmbedding
  <2>2. CASE Fetch(h) \/ FindCcir(h) \/ FindCcirRaises(h) \/ FindNearDuplicate(h)
    BY <2>2 DEF TypeOK, Fetch, FindCcir, FindCcirRaises, FindNearDuplicate
  <2>3. CASE Score(h) \/ PutEnrichment(h) \/ CommitEnrichment(h)
    BY <2>3 DEF TypeOK, Score, PutEnrichment, CommitEnrichment
  <2>4. CASE PutEmbedding(h) \/ AuditSkip(h) \/ NerTimeout(h)
    BY <2>4 DEF TypeOK, PutEmbedding, AuditSkip, NerTimeout
  <2>5. CASE Publish(h) \/ PublishConfirmed(h) \/ Ack(h)
    BY <2>5 DEF TypeOK, Publish, PublishConfirmed, Ack, Settle
  <2>6. CASE \E z \in Threads : StartNer(h, z)
    BY <2>6 DEF TypeOK, StartNer
  <2>7. CASE StoreRaises(h) \/ ModelRaises(h) \/ VerdictInvalid(h) \/ PublishRefused(h)
    BY <2>7 DEF TypeOK, StoreRaises, ModelRaises, VerdictInvalid, PublishRefused,
                Nack, Settle
  <2> QED BY <1>2, <2>1, <2>2, <2>3, <2>4, <2>5, <2>6, <2>7 DEF ProcessStep
<1>3. ASSUME NEW z \in Threads, ThreadStep(z) PROVE Source(j)'
  <2>1. CASE ThreadRead(z) \/ ThreadWrite(z) \/ ThreadCommit(z)
    BY <2>1 DEF ThreadRead, ThreadWrite, ThreadCommit
  <2>2. CASE ThreadEnds(z) \/ ThreadRaises(z)
    BY <2>2, ItemsAssumption DEF TypeOK, ThreadEnds, ThreadRaises, WakeAwaiter
  <2> QED BY <1>3, <2>1, <2>2 DEF ThreadStep
<1>4. CASE CrashAndRestart
  BY <1>4 DEF TypeOK, CrashAndRestart, Undo
<1>5. CASE (\E i \in Items : DlqReplay(i)) \/ BrokerDrop \/ UNCHANGED vars
  BY <1>5 DEF DlqReplay, BrokerDrop, vars
<1> QED BY <1>1, <1>2, <1>3, <1>4, <1>5 DEF Next

(* A source stays one.                                                     *)
LEMMA SourceStays ==
  ASSUME TypeOK, DbIsSeen, [Next]_vars, NEW j \in Items, Source(j)
  PROVE  Source(j)'
<1>1. CASE Vectoring(j)
  BY <1>1, VectoringEnds
<1>2. CASE j \in db.vectors \/ <<"vector", j>> \in lost
  BY <1>2, DbGrows, LostGrows DEF Source
<1> QED BY <1>1, <1>2 DEF Source

(* What the connection sees in a step it saw, or had stored, before, or a  *)
(* handler of the step wrote it.                                           *)
LEMMA SeenVectorStep ==
  ASSUME TypeOK, DbIsSeen, SeenVectorIsOwed, [Next]_vars
  PROVE  SeenVectorIsOwed'
<1>1. \A j \in Items : Source(j) => Source(j)'
  BY SourceStays
<1>2. \A j \in db.vectors \union view.vectors : Source(j)'
  BY <1>1 DEF SeenVectorIsOwed, DbIsSeen, TypeOK, Rows
<1>3. CASE Unmoved \/ Commits \/ Undoes
  BY <1>3, <1>2 DEF SeenVectorIsOwed, Unmoved, Commits, Undoes
<1>4. ASSUME NEW h \in Handlers, PutEnrichment(h) PROVE SeenVectorIsOwed'
  BY <1>4, <1>2 DEF SeenVectorIsOwed, PutEnrichment
<1>5. ASSUME NEW h \in Handlers, PutEmbedding(h) PROVE SeenVectorIsOwed'
  <2>1. PICK j \in Items : j = item[h]
    BY <1>5, ActiveHasItem DEF PutEmbedding, At
  <2>2. Source(j)'
    BY <1>5, <2>1 DEF Source, Vectoring, PutEmbedding, At, Go, TypeOK
  <2>3. view'.vectors = view.vectors \union {j}
    BY <1>5, <2>1 DEF PutEmbedding, TypeOK, Rows
  <2> QED BY <1>2, <2>2, <2>3 DEF SeenVectorIsOwed
<1> QED BY <1>3, <1>4, <1>5, ConnectionStep

(* A message only ever goes back to the queue by way of again.             *)
LEMMA AgainGrows ==
  ASSUME [Next]_vars
  PROVE  again \subseteq again'
BY DEF Next, Receive, ProcessStep, Fetch, FindCcir, FindCcirRaises,
       FindNearDuplicate, Score, PutEnrichment, CommitEnrichment, PutEmbedding,
       CommitEmbedding, AuditSkip, NerTimeout, Publish, PublishConfirmed, Ack,
       Settle, StoreRaises, ModelRaises, VerdictInvalid, PublishRefused, Nack,
       StartNer, ThreadStep, ThreadRead, ThreadWrite, ThreadCommit, ThreadEnds,
       ThreadRaises, WakeAwaiter, DlqReplay, BrokerDrop, CrashAndRestart, Requeue,
       queue, vars

(* No vector of an item is written but by a handler that has come past     *)
(* "vector" with it.                                                       *)
LEMMA BlankStays ==
  ASSUME TypeOK, DbIsSeen, [Next]_vars, NEW i \in Items, Blank(i),
         ~CrashAndRestart,
         \A h \in Handlers : ~(PutEmbedding(h) /\ item[h] = i)
  PROVE  Blank(i)'
<1>1. ~Vectoring(i) /\ i \notin db.vectors /\ <<"vector", i>> \notin lost
      /\ i \notin view.vectors
  BY DEF Blank, Source
<1>2. i \notin db'.vectors /\ i \notin view'.vectors
  <2>1. CASE Unmoved \/ Commits \/ Undoes
    BY <2>1, <1>1 DEF Unmoved, Commits, Undoes
  <2>2. ASSUME NEW h \in Handlers, PutEnrichment(h)
        PROVE  i \notin db'.vectors /\ i \notin view'.vectors
    BY <2>2, <1>1 DEF PutEnrichment
  <2>3. ASSUME NEW h \in Handlers, PutEmbedding(h)
        PROVE  i \notin db'.vectors /\ i \notin view'.vectors
    <3>1. item[h] # i
      BY <2>3
    <3> QED BY <2>3, <1>1, <3>1 DEF PutEmbedding, TypeOK, Rows
  <2> QED BY <2>1, <2>2, <2>3, ConnectionStep
<1>3. ~Vectoring(i)' /\ <<"vector", i>> \notin lost'
  <2> USE <1>1 DEF Vectoring, At, Go, queue, handlers, store, history
  <2> DEFINE Goal == ~Vectoring(i)' /\ <<"vector", i>> \notin lost'
  <2>1. ASSUME NEW h \in Handlers, NEW j \in Items, Receive(h, j) PROVE Goal
    BY <2>1 DEF TypeOK, Receive
  <2>2. ASSUME NEW h \in Handlers, ProcessStep(h) PROVE Goal
    <3>1. CASE PutEmbedding(h)
      BY <3>1 DEF TypeOK, PutEmbedding
    <3>2. CASE CommitEmbedding(h)
      BY <3>2 DEF TypeOK, CommitEmbedding
    <3>3. CASE CommitEnrichment(h)
      BY <3>3 DEF TypeOK, CommitEnrichment
    <3>4. CASE Fetch(h) \/ FindCcir(h) \/ FindCcirRaises(h) \/ FindNearDuplicate(h)
      BY <3>4 DEF TypeOK, Fetch, FindCcir, FindCcirRaises, FindNearDuplicate
    <3>5. CASE Score(h) \/ PutEnrichment(h) \/ AuditSkip(h) \/ NerTimeout(h)
      BY <3>5 DEF TypeOK, Score, PutEnrichment, AuditSkip, NerTimeout
    <3>6. CASE Publish(h) \/ PublishConfirmed(h) \/ Ack(h)
      BY <3>6 DEF TypeOK, Publish, PublishConfirmed, Ack, Settle
    <3>7. CASE \E z \in Threads : StartNer(h, z)
      BY <3>7 DEF TypeOK, StartNer
    <3>8. CASE StoreRaises(h) \/ ModelRaises(h) \/ VerdictInvalid(h)
               \/ PublishRefused(h)
      BY <3>8 DEF TypeOK, StoreRaises, ModelRaises, VerdictInvalid, PublishRefused,
                  Nack, Settle
    <3> QED BY <2>2, <3>1, <3>2, <3>3, <3>4, <3>5, <3>6, <3>7, <3>8 DEF ProcessStep
  <2>3. ASSUME NEW z \in Threads, ThreadStep(z) PROVE Goal
    <3>1. CASE ThreadRead(z) \/ ThreadWrite(z) \/ ThreadCommit(z)
      BY <3>1 DEF ThreadRead, ThreadWrite, ThreadCommit
    <3>2. CASE ThreadEnds(z) \/ ThreadRaises(z)
      BY <3>2 DEF TypeOK, ThreadEnds, ThreadRaises, WakeAwaiter
    <3> QED BY <2>3, <3>1, <3>2 DEF ThreadStep
  <2>4. CASE (\E j \in Items : DlqReplay(j)) \/ BrokerDrop \/ UNCHANGED vars
    BY <2>4 DEF DlqReplay, BrokerDrop, vars
  <2> QED BY <2>1, <2>2, <2>3, <2>4 DEF Next
<1> QED BY <1>2, <1>3 DEF Blank, Source

(* A first delivery stays the only one, and blank until its vector.        *)
LEMMA FirstTryStep ==
  ASSUME TypeOK, DbIsSeen, FirstTry, [Next]_vars
  PROVE  FirstTry'
<1> SUFFICES ASSUME NEW i \in Items, i \notin again'
             PROVE /\ msg'[i] = "ready" =>
                        Blank(i)' /\ \A h \in Handlers : item'[h] # i
                   /\ \A h, g \in Handlers : item'[h] = i /\ item'[g] = i => h = g
                   /\ \A h \in Handlers : item'[h] = i /\ phase'[h] \in BeforeVector
                                            => Blank(i)'
  BY DEF FirstTry
<1> DEFINE Alone  == \A h, g \in Handlers : item[h] = i /\ item[g] = i => h = g
           Ready  == msg[i] = "ready" => Blank(i) /\ \A h \in Handlers : item[h] # i
           Before == \A h \in Handlers :
                       item[h] = i /\ phase[h] \in BeforeVector => Blank(i)
           Goal   == Ready /\ Alone /\ Before
<1> SUFFICES Goal'
  OBVIOUS
<1>0. i \notin again
  BY AgainGrows
<1>1. Ready /\ Alone /\ Before
  BY <1>0 DEF FirstTry
<1>2. CASE CrashAndRestart
  <2>1. msg[i] # "unacked" /\ msg'[i] = msg[i]
    BY <1>2 DEF CrashAndRestart, Requeue, TypeOK
  <2>2. \A h \in Handlers : item'[h] # i /\ phase'[h] = "idle"
    BY <1>2, ItemsAssumption DEF CrashAndRestart, Everyone
  <2>3. ASSUME msg[i] = "ready" PROVE Blank(i)'
    <3>1. Blank(i) /\ \A h \in Handlers : item[h] # i
      BY <2>3, <1>1
    <3>2. view' = db /\ db' = db
      BY <1>2 DEF CrashAndRestart, Undo
    <3>3. <<"vector", i>> \notin lost'
      BY <1>2, <3>1 DEF CrashAndRestart, Blank, Source
    <3>4. ~Vectoring(i)'
      BY <2>2 DEF Vectoring, At
    <3> QED BY <3>1, <3>2, <3>3, <3>4 DEF Blank, Source
  <2> QED BY <2>1, <2>2, <2>3
<1>3. ASSUME NEW h \in Handlers, PutEmbedding(h), item[h] = i PROVE Goal'
  <2>1. /\ phase' = [phase EXCEPT ![h] = "vectoring"]
        /\ UNCHANGED <<msg, item>> /\ phase[h] = "vector"
    BY <1>3 DEF PutEmbedding, Go, At, queue
  <2>2. msg[i] # "ready"
    BY <1>1, <1>3
  <2>3. phase'[h] = "vectoring"
    BY <2>1 DEF TypeOK
  <2>4. \A g \in Handlers : item[g] = i => g = h
    BY <1>1, <1>3
  <2> QED BY <1>1, <2>1, <2>2, <2>3, <2>4 DEF BeforeVector
<1>4. CASE ~CrashAndRestart /\ \A h \in Handlers : ~(PutEmbedding(h) /\ item[h] = i)
  <2>1. Blank(i) => Blank(i)'
    BY <1>4, BlankStays
  <2> HIDE DEF Goal
  <2> USE DEF At, Go, queue, handlers, store, history, BeforeVector
  <2>2. ASSUME NEW h \in Handlers, NEW j \in Items, Receive(h, j) PROVE Goal'
    <3>1. CASE j = i
      <4>1. Blank(i) /\ \A g \in Handlers : item[g] # i
        BY <2>2, <3>1, <1>1 DEF Receive
      <4>2. msg'[i] = "unacked"
        BY <2>2, <3>1 DEF Receive, TypeOK
      <4>3. \A g \in Handlers : item'[g] = i => g = h
        BY <2>2, <4>1 DEF Receive, TypeOK
      <4> QED BY <2>1, <4>1, <4>2, <4>3 DEF Goal
    <3>2. CASE j # i
      BY <2>2, <3>2, <1>1, <2>1 DEF Receive, TypeOK, Goal
    <3> QED BY <3>1, <3>2
  <2>3. ASSUME NEW h \in Handlers, ProcessStep(h) PROVE Goal'
    <3>1. ASSUME UNCHANGED <<msg, item>>, NEW q, phase' = [phase EXCEPT ![h] = q],
                 q \in BeforeVector => phase[h] \in BeforeVector
          PROVE  Goal'
      BY <3>1, <1>1, <2>1 DEF TypeOK, Goal
    <3>2. ASSUME NEW e, Settle(h, e), e # "ready" PROVE Goal'
      BY <3>2, <1>1, <2>1, ItemsAssumption DEF Settle, TypeOK, Goal
    <3>3. CASE Fetch(h)
      BY <3>3, <3>1 DEF Fetch
    <3>4. CASE FindCcir(h) \/ FindCcirRaises(h)
      BY <3>4, <3>1 DEF FindCcir, FindCcirRaises
    <3>5. CASE FindNearDuplicate(h) \/ Score(h)
      BY <3>5, <3>1 DEF FindNearDuplicate, Score
    <3>6. CASE PutEnrichment(h) \/ CommitEnrichment(h)
      BY <3>6, <3>1 DEF PutEnrichment, CommitEnrichment
    <3>7. CASE PutEmbedding(h) \/ CommitEmbedding(h)
      BY <3>7, <3>1 DEF PutEmbedding, CommitEmbedding
    <3>8. CASE AuditSkip(h) \/ NerTimeout(h)
      BY <3>8, <3>1 DEF AuditSkip, NerTimeout
    <3>9. CASE Publish(h) \/ PublishConfirmed(h)
      BY <3>9, <3>1 DEF Publish, PublishConfirmed
    <3>10. CASE \E z \in Threads : StartNer(h, z)
      BY <3>10, <3>1 DEF StartNer
    <3>11. CASE Ack(h)
      BY <3>11, <3>2 DEF Ack
    <3>12. CASE StoreRaises(h) \/ ModelRaises(h) \/ VerdictInvalid(h)
                \/ PublishRefused(h)
      BY <3>12, <3>2 DEF StoreRaises, ModelRaises, VerdictInvalid, PublishRefused, Nack
    <3> QED BY <2>3, <3>3, <3>4, <3>5, <3>6, <3>7, <3>8, <3>9, <3>10, <3>11, <3>12
            DEF ProcessStep
  <2>4. ASSUME NEW z \in Threads, ThreadStep(z) PROVE Goal'
    <3>1. /\ UNCHANGED <<msg, item>>
          /\ \A h \in Handlers : phase'[h] \in BeforeVector => phase[h] \in BeforeVector
      <4>1. CASE ThreadRead(z) \/ ThreadWrite(z) \/ ThreadCommit(z)
        BY <4>1 DEF ThreadRead, ThreadWrite, ThreadCommit
      <4>2. CASE ThreadEnds(z) \/ ThreadRaises(z)
        BY <4>2 DEF ThreadEnds, ThreadRaises, WakeAwaiter
      <4> QED BY <2>4, <4>1, <4>2 DEF ThreadStep
    <3> QED BY <3>1, <1>1, <2>1 DEF Goal
  <2>5. CASE \E j \in Items : DlqReplay(j)
    BY <2>5, <1>1, <2>1 DEF DlqReplay, TypeOK, Goal
  <2>6. CASE BrokerDrop
    <3>1. msg[i] # "unacked" /\ msg'[i] = msg[i] /\ UNCHANGED <<item, phase>>
      BY <2>6 DEF BrokerDrop, Requeue, TypeOK
    <3> QED BY <3>1, <1>1, <2>1 DEF Goal
  <2>7. CASE UNCHANGED vars
    BY <2>7, <1>1, <2>1 DEF vars, Goal
  <2> QED BY <1>4, <2>2, <2>3, <2>4, <2>5, <2>6, <2>7 DEF Next
<1> QED BY <1>2, <1>3, <1>4

(* An item is newly called a duplicate only by the lookup that finds a     *)
(* vector near it; writing, committing and undoing only move the verdict.  *)
LEMMA ReachedStep ==
  ASSUME TypeOK, IdleHasNoVerdict, [Next]_vars
  PROVE  /\ IdleHasNoVerdict'
         /\ \A i \in Items : Reached(i)' =>
              \/ Reached(i)
              \/ \E h \in Handlers : /\ FindNearDuplicate(h)
                                     /\ item[h] = i /\ HasNear(i)
<1> DEFINE New(i) == \E h \in Handlers : /\ FindNearDuplicate(h)
                                         /\ item[h] = i /\ HasNear(i)
           Goal == /\ IdleHasNoVerdict'
                   /\ \A i \in Items : Reached(i)' => Reached(i) \/ New(i)
<1> USE DEF IdleHasNoVerdict, Reached, At, Go, queue, handlers, store, history
<1>1. ASSUME NEW h \in Handlers, NEW i \in Items, Receive(h, i) PROVE Goal
  BY <1>1 DEF TypeOK, Receive
<1>2. ASSUME NEW h \in Handlers, ProcessStep(h) PROVE Goal
  <2>1. CASE FindNearDuplicate(h)
    <3>1. \A g \in Handlers : /\ item'[g] = item[g]
                              /\ phase'[g] = "idle" => phase[g] = "idle" /\ g # h
                              /\ g # h => fields'[g] = fields[g]
                              /\ fields'[h] # fields[h] => HasNear(item[h])
      BY <2>1 DEF FindNearDuplicate, TypeOK
    <3> HIDE DEF FindNearDuplicate
    <3> QED BY <2>1, <3>1
  <2>2. CASE Fetch(h) \/ FindCcir(h) \/ FindCcirRaises(h) \/ Score(h)
    BY <2>2 DEF TypeOK, Fetch, FindCcir, FindCcirRaises, Score
  <2>3. CASE PutEnrichment(h) \/ CommitEnrichment(h) \/ PutEmbedding(h)
    BY <2>3 DEF TypeOK, PutEnrichment, CommitEnrichment, PutEmbedding
  <2>4. CASE CommitEmbedding(h) \/ AuditSkip(h) \/ NerTimeout(h)
    BY <2>4 DEF TypeOK, CommitEmbedding, AuditSkip, NerTimeout
  <2>5. CASE Publish(h) \/ PublishConfirmed(h) \/ Ack(h)
    BY <2>5 DEF TypeOK, Publish, PublishConfirmed, Ack, Settle
  <2>6. CASE \E z \in Threads : StartNer(h, z)
    BY <2>6 DEF TypeOK, StartNer
  <2>7. CASE StoreRaises(h) \/ ModelRaises(h) \/ VerdictInvalid(h)
             \/ PublishRefused(h)
    BY <2>7 DEF TypeOK, StoreRaises, ModelRaises, VerdictInvalid,
                PublishRefused, Nack, Settle
  <2> QED BY <1>2, <2>1, <2>2, <2>3, <2>4, <2>5, <2>6, <2>7 DEF ProcessStep
<1>3. ASSUME NEW z \in Threads, ThreadStep(z) PROVE Goal
  <2>1. CASE ThreadRead(z) \/ ThreadWrite(z) \/ ThreadCommit(z)
    BY <2>1 DEF ThreadRead, ThreadWrite, ThreadCommit
  <2>2. CASE ThreadEnds(z) \/ ThreadRaises(z)
    BY <2>2, ItemsAssumption DEF TypeOK, ThreadEnds, ThreadRaises, WakeAwaiter
  <2> QED BY <1>3, <2>1, <2>2 DEF ThreadStep
<1>4. CASE CrashAndRestart
  BY <1>4 DEF CrashAndRestart, Everyone
<1>5. CASE (\E i \in Items : DlqReplay(i)) \/ BrokerDrop \/ UNCHANGED vars
  BY <1>5 DEF DlqReplay, BrokerDrop, vars
<1> QED BY <1>1, <1>2, <1>3, <1>4, <1>5 DEF Next

LEMMA ClaimedStep ==
  ASSUME TypeOK, IdleHasNoVerdict, [Next]_vars, NEW i \in Items, Claimed(i)'
  PROVE  \/ Claimed(i)
         \/ \E h \in Handlers : FindNearDuplicate(h) /\ item[h] = i /\ HasNear(i)
<1>1. CASE Reached(i)'
  BY <1>1, ReachedStep DEF Claimed
<1>2. CASE db'.verdict[i] = "duplicate" \/ view'.verdict[i] = "duplicate"
  <2>1. CASE Unmoved \/ Commits \/ Undoes
    BY <1>2, <2>1 DEF Claimed, Unmoved, Commits, Undoes
  <2>2. ASSUME NEW h \in Handlers, PutEnrichment(h) PROVE Claimed(i)
    BY <1>2, <2>2, ActiveHasItem DEF Claimed, Reached, PutEnrichment, TypeOK, Rows
  <2>3. ASSUME NEW h \in Handlers, PutEmbedding(h) PROVE Claimed(i)
    BY <1>2, <2>3 DEF Claimed, PutEmbedding, TypeOK, Rows
  <2> QED BY <2>1, <2>2, <2>3, ConnectionStep
<1> QED BY <1>1, <1>2 DEF Claimed

(* The item a lookup newly calls a duplicate has no vector of its own, so  *)
(* it neither is its own source nor was it that of the others.             *)
LEMMA FoundedStep ==
  ASSUME TypeOK, DupInv, [Next]_vars
  PROVE  DuplicatesFounded'
<1> SUFFICES ASSUME NEW D \in SUBSET {i \in Items : Claimed(i)' /\ i \notin again'},
                    D # {}
             PROVE  Founded(D)'
  BY DEF DuplicatesFounded
<1>1. \A j \in Items : Source(j) => Source(j)'
  BY SourceStays DEF DupInv
<1>2. \A i \in D : i \in Items /\ i \notin again /\ Claimed(i)'
  BY AgainGrows
<1>3. CASE \A i \in D : Claimed(i)
  <2>1. Founded(D)
    BY <1>2, <1>3 DEF DupInv, DuplicatesFounded
  <2> QED BY <1>1, <2>1 DEF Founded
<1>4. ASSUME NEW n \in D, ~Claimed(n) PROVE Founded(D)'
  <2>1. PICK h \in Handlers : FindNearDuplicate(h) /\ item[h] = n /\ HasNear(n)
    BY <1>2, <1>4, ClaimedStep DEF DupInv
  <2>2. phase[h] \in BeforeVector
    BY <2>1 DEF FindNearDuplicate, At, BeforeVector
  <2>3. Blank(n)
    BY <1>2, <2>1, <2>2 DEF DupInv, FirstTry
  <2>4. \A i \in D \ {n} : Claimed(i)
    <3> SUFFICES ASSUME NEW i \in D, i # n, ~Claimed(i) PROVE FALSE
      OBVIOUS
    <3>1. PICK g \in Handlers : FindNearDuplicate(g) /\ item[g] = i
      BY <1>2, ClaimedStep DEF DupInv
    <3>2. g # h
      BY <2>1, <3>1
    <3>3. phase'[g] # phase[g]
      BY <3>1 DEF FindNearDuplicate, At, Go, TypeOK
    <3>4. phase'[g] = phase[g]
      BY <2>1, <3>2 DEF FindNearDuplicate, Go, TypeOK
    <3> QED BY <3>3, <3>4
  <2>5. CASE D \ {n} = {}
    <3>1. PICK j \in view.vectors : <<n, j>> \in Near
      BY <2>1 DEF HasNear
    <3>2. j \in Items /\ Source(j) /\ j # n
      BY <2>3, <3>1 DEF DupInv, SeenVectorIsOwed, TypeOK, Rows, Blank
    <3>3. j \notin D
      BY <2>5, <3>2
    <3> QED BY <1>1, <3>1, <3>2, <3>3 DEF Founded
  <2>6. CASE D \ {n} # {}
    <3>1. Founded(D \ {n})
      BY <1>2, <2>4, <2>6 DEF DupInv, DuplicatesFounded
    <3>2. PICK i \in D \ {n}, j \in Items \ (D \ {n}) : <<i, j>> \in Near /\ Source(j)
      BY <3>1 DEF Founded
    <3>3. j # n
      BY <2>3, <3>2 DEF Blank
    <3> QED BY <1>1, <3>2, <3>3 DEF Founded
  <2> QED BY <2>5, <2>6
<1> QED BY <1>3, <1>4

LEMMA DuplicateStep == TypeOK /\ DupInv /\ [Next]_vars => DupInv'
<1> SUFFICES ASSUME TypeOK, DupInv, [Next]_vars PROVE DupInv'
  OBVIOUS
<1>1. DbIsSeen /\ SeenVectorIsOwed /\ FirstTry /\ IdleHasNoVerdict
  BY DEF DupInv
<1>2. DbIsSeen'
  BY <1>1, DbIsSeenStep
<1>3. SeenVectorIsOwed'
  BY <1>1, SeenVectorStep
<1>4. FirstTry'
  BY <1>1, FirstTryStep
<1>5. IdleHasNoVerdict'
  BY <1>1, ReachedStep
<1>6. DuplicatesFounded'
  BY FoundedStep
<1> QED BY <1>2, <1>3, <1>4, <1>5, <1>6 DEF DupInv

(* No item is its own source and no group of items is skipped for one      *)
(* another only: among any that are called duplicates on their first       *)
(* delivery, one is near an item outside the group whose vector is stored, *)
(* is being stored, or was undone under the handler that had written it.   *)
THEOREM TriageDuplicateHasSource == Spec => []DuplicateHasSource
<1>1. Init => DupInv
  <2> SUFFICES ASSUME Init PROVE DupInv
    OBVIOUS
  <2>1. /\ \A h \in Handlers : phase[h] = "idle" /\ item[h] = None
        /\ \A h \in Handlers : fields[h] = "scored"
        /\ db.vectors = {} /\ view.vectors = {} /\ lost = {}
        /\ \A i \in Items : db.verdict[i] = "absent" /\ view.verdict[i] = "absent"
    BY DEF Init, Everyone, NoRows
  <2>2. \A i \in Items : Blank(i) /\ \A h \in Handlers : item[h] # i
    BY <2>1, ItemsAssumption DEF Blank, Source, Vectoring, At
  <2>3. \A i \in Items : ~Claimed(i)
    BY <2>1 DEF Claimed, Reached
  <2>4. FirstTry
    BY <2>2 DEF FirstTry
  <2>5. DuplicatesFounded
    BY <2>3 DEF DuplicatesFounded
  <2> QED BY <2>1, <2>4, <2>5 DEF DupInv, DbIsSeen, SeenVectorIsOwed, IdleHasNoVerdict
<1>2. TypeOK /\ DupInv /\ [Next]_vars => DupInv'
  BY DuplicateStep
<1>3. DupInv => DuplicateHasSource
  BY DEF DupInv, DuplicatesFounded, Claimed, DuplicateHasSource, Founded, Source,
         Vectoring
<1> QED BY <1>1, <1>2, <1>3, TriageTypes, PTL DEF Spec
=============================================================================
