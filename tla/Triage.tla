-------------------------------- MODULE Triage --------------------------------
(***************************************************************************)
(* The triage worker (apps/triage) between q.triage and verdict.ready.     *)
(*                                                                         *)
(* A message names an item.  Its handler reads the article, embeds it,     *)
(* filters it by CCIR, looks for a near duplicate, has the LLM score it,   *)
(* stores the verdict and the vector, links the entities it names, and     *)
(* publishes the verdict.  Every store and LLM call is awaited in a        *)
(* thread, so handlers interleave at each of them.  prefetch_count=1 keeps *)
(* one unacked message at the worker, but a handler whose channel dropped  *)
(* runs on beside the next one, and so does an entity thread that          *)
(* wait_for has given up on.                                               *)
(*                                                                         *)
(* All of them share one database connection, hence one transaction (see   *)
(* StoreConnection): view is what the connection sees, db what is          *)
(* committed.  A write is a statement and a commit; a read, which ends in  *)
(* a rollback, is one step.  Entity tables, the audit table and the ageing *)
(* of vectors out of the 7-day window are left out.                        *)
(***************************************************************************)
EXTENDS Integers, FiniteSets

CONSTANTS
  Items,
  Unknown,     \* items without an article row
  OffTopic,    \* items below the CCIR pre-filter's threshold
  Near,        \* pairs of items whose vectors are within the dedup threshold
  Handlers,    \* message handlers that can be active at once
  Threads,     \* entity threads that can be alive at once
  None,        \* no item; no thread
  MaxFaults    \* bound on faults

ASSUME ItemsAssumption ==
  /\ IsFiniteSet(Items) /\ Unknown \subseteq Items /\ OffTopic \subseteq Items
  /\ None \notin Items \union Threads
ASSUME NearAssumption == Near \subseteq Items \X Items /\ \A i \in Items : <<i, i>> \in Near
ASSUME FaultsAssumption == MaxFaults \in Nat

VARIABLES
  msg,         \* where the broker has the message of each item
  again,       \* items whose message has gone back to the queue
  phase, item, tagged,   \* of each handler; tagged: it can settle its message
  fields,      \* of each handler: the verdict it has reached
  ner,         \* of each handler: the entity thread it awaits
  thread,      \* what each entity thread is at
  db, view, aborted,     \* the connection; aborted: its transaction has failed
  seen,        \* items whose verdict.ready key is in this process's seen-set
  faults,
  published,   \* items with a verdict.ready that the broker has taken
  refused,     \* items with a publish that was refused or cut off
  lost         \* rows undone under a handler that had yet to commit them

queue    == <<msg, again>>
handlers == <<phase, item, tagged, fields, ner>>
store    == <<db, view, aborted>>
history  == <<published, refused, lost>>
vars     == <<queue, handlers, thread, store, seen, faults, history>>

(* The LLM's verdict, and those the worker reaches without it.             *)
Verdicts == {"scored", "duplicate", "offtopic"}

(* Each phase but "idle" is an await, named for what it waits to do; the   *)
(* embedding request is part of "ccir".                                    *)
Phases == {"idle", "fetch", "ccir", "near", "unfiltered", "score", "enrich",
           "enriching", "vector", "vectoring", "audit", "ner", "wait", "build",
           "publishing", "done"}

At(h, p)  == phase[h] = p
Go(h, p)  == phase' = [phase EXCEPT ![h] = p]
Everyone(v) == [h \in Handlers |-> v]

NoRows == [verdict |-> [i \in Items |-> "absent"], vectors |-> {}]

Init ==
  /\ msg = [i \in Items |-> "ready"] /\ again = {}
  /\ phase = Everyone("idle") /\ item = Everyone(None) /\ tagged = Everyone(FALSE)
  /\ fields = Everyone("scored") /\ ner = Everyone(None)
  /\ thread = [z \in Threads |-> "off"]
  /\ db = NoRows /\ view = NoRows /\ aborted = FALSE
  /\ seen = {} /\ faults = 0
  /\ published = {} /\ refused = {} /\ lost = {}

-----------------------------------------------------------------------------
(* The shared connection.                                                  *)

Fault == faults < MaxFaults /\ faults' = faults + 1

(* rollback(), and what commit() does to an aborted transaction.           *)
Undo == view' = db /\ aborted' = FALSE /\ UNCHANGED db

Commit == IF aborted THEN Undo ELSE db' = view /\ UNCHANGED <<view, aborted>>

Read == ~aborted /\ Undo

(* A statement raises: it fails, or the transaction had already failed.    *)
StatementRaises ==
  /\ \/ aborted /\ UNCHANGED <<store, faults>>
     \/ ~aborted /\ Fault /\ view' = db /\ aborted' = TRUE /\ UNCHANGED db

-----------------------------------------------------------------------------
(* The broker and the outcome of a message.                                *)

Receive(h, i) ==
  /\ At(h, "idle") /\ msg[i] = "ready"
  /\ \A g \in Handlers : ~tagged[g]
  /\ msg' = [msg EXCEPT ![i] = "unacked"]
  /\ Go(h, "fetch")
  /\ item' = [item EXCEPT ![h] = i]
  /\ tagged' = [tagged EXCEPT ![h] = TRUE]
  /\ UNCHANGED <<again, fields, ner, thread, store, seen, faults, history>>

(* message.process() is left; a stale delivery tag settles nothing.        *)
Settle(h, end) ==
  /\ msg' = IF tagged[h] THEN [msg EXCEPT ![item[h]] = end] ELSE msg
  /\ Go(h, "idle")
  /\ item' = [item EXCEPT ![h] = None]
  /\ tagged' = [tagged EXCEPT ![h] = FALSE]
  /\ fields' = [fields EXCEPT ![h] = "scored"]
  /\ ner' = [ner EXCEPT ![h] = None]
  /\ UNCHANGED again

Ack(h) ==
  /\ At(h, "done") /\ Settle(h, "acked")
  /\ UNCHANGED <<thread, store, seen, faults, history>>

-----------------------------------------------------------------------------
(* process_item, up to the verdict.                                        *)

Fetch(h) ==
  /\ At(h, "fetch") /\ Read
  /\ Go(h, IF item[h] \in Unknown THEN "done" ELSE "ccir")
  /\ UNCHANGED <<queue, item, tagged, fields, ner, thread, seen, faults, history>>

FindCcir(h) ==
  /\ At(h, "ccir") /\ Read
  /\ \/ /\ item[h] \in OffTopic
        /\ Go(h, "enrich")
        /\ fields' = [fields EXCEPT ![h] = "offtopic"]
     \/ /\ item[h] \notin OffTopic
        /\ Go(h, "near")
        /\ UNCHANGED fields
  /\ UNCHANGED <<queue, item, tagged, ner, thread, seen, faults, history>>

(* The CCIR lookup raises and is caught (D-07).                            *)
FindCcirRaises(h) ==
  /\ At(h, "ccir") /\ StatementRaises
  /\ Go(h, "unfiltered")
  /\ UNCHANGED <<queue, item, tagged, fields, ner, thread, seen, history>>

(* Wrong variant: a near item with a verdict, its vector stored or not.    *)
HasNearVerdict(i) == \E j \in Items \ {i} : view.verdict[j] # "absent" /\ <<i, j>> \in Near

(* Some vector, the item's own from an earlier delivery too, is near.      *)
HasNear(i) == \E j \in view.vectors : <<i, j>> \in Near

(* Wrong variant: the verdict on a duplicate is published, never stored.   *)
DuplicateUnstored(h) ==
  /\ At(h, "near") /\ Read
  /\ Go(h, IF HasNear(item[h]) THEN "ner" ELSE "score")
  /\ UNCHANGED <<queue, item, tagged, fields, ner, thread, seen, faults, history>>

FindNearDuplicate(h) ==
  /\ At(h, "near") \/ At(h, "unfiltered")
  /\ Read
  /\ \/ /\ HasNear(item[h])
        /\ Go(h, "enrich")
        /\ fields' = [fields EXCEPT ![h] = "duplicate"]
     \/ /\ ~HasNear(item[h])
        /\ Go(h, "score")
        /\ UNCHANGED fields
  /\ UNCHANGED <<queue, item, tagged, ner, thread, seen, faults, history>>

Score(h) ==
  /\ At(h, "score") /\ Go(h, "enrich")
  /\ fields' = [fields EXCEPT ![h] = "scored"]
  /\ UNCHANGED <<queue, item, tagged, ner, thread, store, seen, faults, history>>

-----------------------------------------------------------------------------
(* Verdict, vector and the audit row of a skip.                            *)

PutEnrichment(h) ==
  /\ At(h, "enrich") /\ ~aborted
  /\ view' = [view EXCEPT !.verdict[item[h]] = fields[h]]
  /\ Go(h, "enriching")
  /\ UNCHANGED <<queue, item, tagged, fields, ner, thread, db, aborted, seen, faults,
                 history>>

(* The call returns, whether or not its row is still in the transaction.   *)
CommitEnrichment(h) ==
  /\ At(h, "enriching") /\ Commit
  /\ lost' = IF db'.verdict[item[h]] = "absent"
             THEN lost \union {<<"verdict", item[h]>>} ELSE lost
  /\ Go(h, "vector")
  /\ UNCHANGED <<queue, item, tagged, fields, ner, thread, seen, faults, published,
                 refused>>

PutEmbedding(h) ==
  /\ At(h, "vector") /\ ~aborted
  /\ view' = [view EXCEPT !.vectors = @ \union {item[h]}]
  /\ Go(h, "vectoring")
  /\ UNCHANGED <<queue, item, tagged, fields, ner, thread, db, aborted, seen, faults,
                 history>>

CommitEmbedding(h) ==
  /\ At(h, "vectoring") /\ Commit
  /\ lost' = IF item[h] \notin db'.vectors
             THEN lost \union {<<"vector", item[h]>>} ELSE lost
  /\ Go(h, IF fields[h] = "offtopic" THEN "audit" ELSE "ner")
  /\ UNCHANGED <<queue, item, tagged, fields, ner, thread, seen, faults, published,
                 refused>>

(* The audit row of a pre-filter skip; a failure to write it is caught.    *)
AuditSkip(h) ==
  /\ At(h, "audit") /\ Go(h, "ner")
  /\ \/ ~aborted /\ Commit /\ UNCHANGED faults
     \/ StatementRaises
  /\ UNCHANGED <<queue, item, tagged, fields, ner, thread, seen, history>>

-----------------------------------------------------------------------------
(* Entity linking: a thread that queries and writes through the same       *)
(* connection, awaited for 15 s at most.                                   *)

StartNer(h, z) ==
  /\ At(h, "ner") /\ thread[z] = "off"
  /\ thread' = [thread EXCEPT ![z] = "thinking"]
  /\ ner' = [ner EXCEPT ![h] = z]
  /\ Go(h, "wait")
  /\ UNCHANGED <<queue, item, tagged, fields, store, seen, faults, history>>

ThreadRead(z) ==
  /\ thread[z] = "thinking" /\ Read
  /\ UNCHANGED <<queue, handlers, thread, seen, faults, history>>

ThreadWrite(z) ==
  /\ thread[z] = "thinking" /\ ~aborted
  /\ thread' = [thread EXCEPT ![z] = "writing"]
  /\ UNCHANGED <<queue, handlers, store, seen, faults, history>>

ThreadCommit(z) ==
  /\ thread[z] = "writing" /\ Commit
  /\ thread' = [thread EXCEPT ![z] = "thinking"]
  /\ UNCHANGED <<queue, handlers, seen, faults, history>>

(* Wrong variant: the awaiter goes on with the future it was woken by.     *)
WakeOnly(z) ==
  /\ thread' = [thread EXCEPT ![z] = "off"]
  /\ phase' = [h \in Handlers |-> IF ner[h] = z THEN "build" ELSE phase[h]]
  /\ UNCHANGED <<queue, item, tagged, fields, ner, seen, history>>

(* The thread is done, or raises; whoever still awaits it goes on.         *)
WakeAwaiter(z) ==
  /\ thread' = [thread EXCEPT ![z] = "off"]
  /\ phase' = [h \in Handlers |-> IF ner[h] = z THEN "build" ELSE phase[h]]
  /\ ner' = [h \in Handlers |-> IF ner[h] = z THEN None ELSE ner[h]]
  /\ UNCHANGED <<queue, item, tagged, fields, seen, history>>

ThreadEnds(z) ==
  /\ thread[z] = "thinking" /\ WakeAwaiter(z)
  /\ UNCHANGED <<store, faults>>

ThreadRaises(z) ==
  /\ thread[z] = "thinking" /\ StatementRaises /\ WakeAwaiter(z)

(* wait_for cancels the future; the thread runs on.                        *)
NerTimeout(h) ==
  /\ At(h, "wait") /\ Fault
  /\ Go(h, "build")
  /\ ner' = [ner EXCEPT ![h] = None]
  /\ UNCHANGED <<queue, item, tagged, fields, thread, store, seen, history>>

-----------------------------------------------------------------------------
(* The verdict leaves.                                                     *)

(* VerdictReady validates; publish is a no-op for a key already seen.      *)
Publish(h) ==
  /\ At(h, "build")
  /\ Go(h, IF item[h] \in seen THEN "done" ELSE "publishing")
  /\ seen' = seen \union {item[h]}
  /\ UNCHANGED <<queue, item, tagged, fields, ner, thread, store, faults, history>>

PublishConfirmed(h) ==
  /\ At(h, "publishing")
  /\ published' = published \union {item[h]}
  /\ Go(h, "done")
  /\ UNCHANGED <<queue, item, tagged, fields, ner, thread, store, seen, faults, refused,
                 lost>>

-----------------------------------------------------------------------------
(* Failures.                                                               *)

(* Wrong variant: the handler swallows the exception, so process() acks.   *)
Swallow(h) == Settle(h, "acked")

(* The exception leaves process(): nacked without requeue, to the DLQ.     *)
Nack(h) == Settle(h, "dead")

StoreRaises(h) ==
  /\ phase[h] \in {"fetch", "near", "unfiltered", "enrich", "vector"}
  /\ StatementRaises /\ Nack(h)
  /\ UNCHANGED <<thread, seen, history>>

(* The embedding or the scoring request fails or times out.                *)
ModelRaises(h) ==
  /\ At(h, "ccir") \/ At(h, "score")
  /\ Fault /\ Nack(h)
  /\ UNCHANGED <<thread, store, seen, history>>

(* VerdictReady rejects what the LLM put into a field.                     *)
VerdictInvalid(h) ==
  /\ At(h, "build") /\ fields[h] = "scored"
  /\ Nack(h)
  /\ UNCHANGED <<thread, store, seen, faults, history>>

(* The broker refuses the event, whose key has entered the seen-set.       *)
PublishRefused(h) ==
  /\ At(h, "publishing") /\ Fault
  /\ refused' = refused \union {item[h]}
  /\ Nack(h)
  /\ UNCHANGED <<thread, store, seen, published, lost>>

(* Wrong variant: what a lost channel held is never delivered again.       *)
RequeueNothing == UNCHANGED queue

Requeue ==
  /\ msg' = [i \in Items |-> IF msg[i] = "unacked" THEN "ready" ELSE msg[i]]
  /\ again' = again \union {i \in Items : msg[i] = "unacked"}

BrokerDrop ==
  /\ Fault /\ Requeue
  /\ tagged' = Everyone(FALSE)
  /\ UNCHANGED <<phase, item, fields, ner, thread, store, seen, history>>

CrashAndRestart ==
  /\ Fault /\ Requeue
  /\ phase' = Everyone("idle") /\ item' = Everyone(None) /\ tagged' = Everyone(FALSE)
  /\ fields' = Everyone("scored") /\ ner' = Everyone(None)
  /\ thread' = [z \in Threads |-> "off"]
  /\ Undo /\ seen' = {}
  /\ refused' = refused \union {item[h] : h \in {g \in Handlers : At(g, "publishing")}}
  /\ lost' = lost \union {<<"vector", item[h]>> : h \in {g \in Handlers :
                            At(g, "vectoring") /\ item[g] \notin db.vectors}}
  /\ UNCHANGED published

(* dlq_consumer --replay publishes a dead message again under its first    *)
(* routing key; one it is not run for, or discards, stays dead.            *)
DlqReplay(i) ==
  /\ msg[i] = "dead" /\ msg' = [msg EXCEPT ![i] = "ready"]
  /\ again' = again \union {i}
  /\ UNCHANGED <<handlers, thread, store, seen, faults, history>>

-----------------------------------------------------------------------------
ProcessStep(h) ==
  \/ Fetch(h) \/ FindCcir(h) \/ FindCcirRaises(h) \/ FindNearDuplicate(h)
  \/ Score(h) \/ PutEnrichment(h) \/ CommitEnrichment(h) \/ PutEmbedding(h)
  \/ CommitEmbedding(h) \/ AuditSkip(h) \/ NerTimeout(h) \/ Publish(h)
  \/ PublishConfirmed(h) \/ Ack(h)
  \/ StoreRaises(h) \/ ModelRaises(h) \/ VerdictInvalid(h) \/ PublishRefused(h)
  \/ \E z \in Threads : StartNer(h, z)

ThreadStep(z) ==
  ThreadRead(z) \/ ThreadWrite(z) \/ ThreadCommit(z) \/ ThreadEnds(z) \/ ThreadRaises(z)

Next ==
  \/ \E h \in Handlers, i \in Items : Receive(h, i)
  \/ \E h \in Handlers : ProcessStep(h)
  \/ \E z \in Threads : ThreadStep(z)
  \/ \E i \in Items : DlqReplay(i)
  \/ BrokerDrop \/ CrashAndRestart

Spec == Init /\ [][Next]_vars

(* A handler goes on when what it awaits has come, the broker hands out    *)
(* every ready message in turn, and an entity thread ends: its requests    *)
(* time out and it has finitely many names to resolve.  Nothing makes a    *)
(* fault happen or an operator replay.                                     *)
Fairness ==
  /\ \A h \in Handlers : WF_vars(ProcessStep(h))
  /\ \A i \in Items : SF_vars(\E h \in Handlers : Receive(h, i))
  /\ \A z \in Threads : WF_vars(ThreadStep(z)) /\ SF_vars(ThreadEnds(z))

FairSpec == Spec /\ Fairness
-----------------------------------------------------------------------------
(* Properties.                                                             *)

Rows == [verdict : [Items -> Verdicts \union {"absent"}], vectors : SUBSET Items]

TypeOK ==
  /\ msg \in [Items -> {"ready", "unacked", "acked", "dead"}] /\ again \subseteq Items
  /\ phase \in [Handlers -> Phases]
  /\ item \in [Handlers -> Items \union {None}]
  /\ tagged \in [Handlers -> BOOLEAN]
  /\ fields \in [Handlers -> Verdicts]
  /\ ner \in [Handlers -> Threads \union {None}]
  /\ thread \in [Threads -> {"off", "thinking", "writing"}]
  /\ db \in Rows /\ view \in Rows /\ aborted \in BOOLEAN
  /\ seen \subseteq Items /\ faults \in 0 .. MaxFaults
  /\ published \subseteq Items
  /\ refused \subseteq Items /\ lost \subseteq {"verdict", "vector"} \X Items
  /\ \A h \in Handlers : phase[h] = "idle" <=> item[h] = None
  /\ \A h \in Handlers : phase[h] = "wait" <=> ner[h] # None

Publishing(i) == \E h \in Handlers : At(h, "publishing") /\ item[h] = i

(* 05-SPEC R2, "no silent data loss": a message leaves q.triage by an ack  *)
(* only when its verdict has been published, or its article is unknown, or *)
(* an earlier attempt at publishing it was refused or cut off, after which *)
(* the seen-set makes the retry a no-op.                                   *)
NoSilentVerdict ==
  \A i \in Items : msg[i] = "acked" =>
    i \in Unknown \/ i \in published \/ Publishing(i) \/ i \in refused

(* 05-SPEC R5, "MUST NOT publish verdict.ready before enrichment commit":  *)
(* a published verdict has its row, unless another user of the connection  *)
(* undid the row before its own call committed it.                         *)
VerdictIsStored ==
  \A i \in Items : i \in published =>
    db.verdict[i] # "absent" \/ <<"verdict", i>> \in lost

(* R1, worker.py "duplicate of {dup}": however many items are called        *)
(* duplicates, one of them is near an item outside that group whose vector *)
(* is stored, is about to be, or was undone under its writer.  So none is  *)
(* its own source and no group is skipped for one another only.  Items     *)
(* whose message was delivered again are left out of the group: one of     *)
(* those does find its own vector (see RedeliveryHarmless).                *)
DuplicateHasSource ==
  \A D \in SUBSET {i \in Items : db.verdict[i] = "duplicate" /\ i \notin again} :
    D # {} => \E i \in D, j \in Items \ D :
                /\ <<i, j>> \in Near
                /\ \/ j \in db.vectors \/ <<"vector", j>> \in lost
                   \/ \E h \in Handlers : At(h, "vectoring") /\ item[h] = j

(* Every message is in the end acked or dead-lettered: no handler waits    *)
(* for ever on a hung entity thread or on another handler.                 *)
QueueDrains ==
  \A i \in Items : msg[i] = "ready" ~> msg[i] \in {"acked", "dead"}

(* 05-03-PLAN: "A duplicate item.ingested event for an already-scored      *)
(* item_id is harmless".  The LLM's verdict on an item is not replaced by  *)
(* one the LLM had no part in.                                             *)
RedeliveryHarmless ==
  [][\A i \in Items : db.verdict[i] = "scored" => db.verdict'[i] = "scored"]_vars

(* worker.py, D-07: "If CCIR lookup fails [...] fall through to the LLM    *)
(* scorer".  A failed lookup is not what sends an item to the DLQ.         *)
LookupFallsThrough ==
  [][\A h \in Handlers : At(h, "unfiltered") => msg'[item[h]] # "dead"]_vars
=============================================================================
