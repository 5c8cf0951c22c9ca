# InfoTriage in TLA+

InfoTriage collects articles from feeds and mailboxes, has an LLM judge each of
them against the commander's information requirements (CCIR), renders briefs
and wiki pages from the verdicts and pushes CAT I alerts to a phone. It is a
set of Python processes around one Postgres database and one RabbitMQ exchange.
This directory models its core: the processes whose correctness depends on the
order of steps, on crashes and on redelivered messages, and the two algorithms
that decide what a reader gets to see.

## The system

| Component | State | Operations | Talks to |
|---|---|---|---|
| Ingest adapters (`apps/ingest-*`) | none of their own | parse a source, one item at a time | ingest core |
| Ingest core (`libs/ingest_common`, `apps/scheduler`) | an in-flight flag per adapter | `POST /run`, `persist_and_publish`, the scheduler's tick | store, bus (`item.ingested`) |
| Postgres store (`libs/store`) | one connection per process; articles, enrichment, embeddings, entities, audit, `alert_state` | about 30 calls, each some statements and a commit or rollback | Postgres |
| Blob store (`_blob.py`) | content-addressed files | `put_blob`, `get_blob` | file system |
| Bus (`_bus_rabbitmq.py`) | connection, topology, a seen-set of `(routing key, item)` per process | `publish`, `subscribe`, `consume`, rebuild after a close | RabbitMQ |
| Triage worker (`apps/triage`) | its connection and seen-set | `process_item` per `item.ingested`; entity linking in a thread | store, LLM, bus (`verdict.ready`) |
| Brief (`apps/brief`) | rendered files, a vault | a render per verdict, HTTP pages, `sab.published` | store, bus |
| Wiki (`apps/wiki`) | pages in the vault | a periodic run and a run per verdict | store, LLM |
| Alerting worker (`apps/alerting`) | its seen-set; `alert_state` rows | a handler for `verdict.ready` and `sab.published`, the hourly digest | store, ntfy, bus (`outbox.dlx`) |
| DLQ consumer (`apps/dlq_consumer`) | a counter of unhealthy feeds | a daemon that logs and acks, `--replay`, a depth probe | bus |
| MVP poller (`apps/mvp`) | `since_id` in a file | a poll that fetches, scores, stores and alerts | FreshRSS, store, ntfy |
| OPML health, recall, contracts, scripts | none that lasts | probes, queries, parsing | |

`item.ingested` goes from ingest to triage, `verdict.ready` from triage to brief,
wiki and alerting, `sab.published` from brief to alerting. A consumer's handler
runs inside `message.process()`: it acks on a normal exit, and an exception nacks
without requeue, which dead-letters the message to `infotriage.dlq`.

What is hard here:

- *Two consumers, one handler.* Alerting registers its handler twice on
  `q.alerting`, each with prefetch 1, so two triggers are handled at once and can
  name the same item. The dedupe claim in `alert_state` is the only exclusion.
- *One connection, several callers.* `asyncio.to_thread` puts store calls of one
  process on several threads; a transaction of psycopg belongs to the connection.
- *Redelivery.* A crash or a dropped channel requeues what is unacked. A dropped
  channel leaves the old handler running beside the new one.
- *Commits in the middle.* Claim, delivery, dead letter, audit and mark are
  separate commits and network calls, and the process can die between any two.
- *Time.* A 24 h TTL on claims, two sliding windows, retries and timeouts.
- *Process-lifetime memory.* The bus's seen-set makes a second publish of a key a
  no-op, whether the first one arrived or not.
- *Fan-out and dead letters.* A verdict has three queues and one dead-letter queue; a
  daemon buries what an operator's `--replay` would send out again, to all three. A
  process that finds another version's queues deletes them under everybody else.
- *One temporary name.* Whoever writes a file writes the same `.tmp` beside it and
  renames it: handlers of a dropped channel, requests and blob writers can meet there.
- *Positions.* The in-memory clustering keeps clusters and centroids in two lists, and
  a document caps its sections one by one.

What makes each part correct, with the qualifications that the checks have shown to be
needed:

- *Alerting* sends no more than its caps allow and has no two handlers on one item, except for
  alerts whose claim the digest's thread rolled back. A claimed alert's row records its fate
  unless its handler was cut off, its item cannot be read back, or the digest's thread rolled
  back its claim or a later write of it.
- *The store's* calls are atomic as long as they share their transaction with no other
  caller's; a write that returned is lost only to another caller's rollback.
- *Triage* acks a message only when its verdict is out, its publish was refused or its article
  is unknown, stores a verdict before it publishes it unless another user of the connection
  undoes the row, and drops no items as duplicates of each other alone as long as their messages
  are delivered once.
- *Ingest* publishes a new item at most once and leaves a stored one unannounced only after
  a refusal or a cut between row and event.
- *The bus*, once its topology is built, puts an event into every queue of its key or none,
  and each copy is settled at most once; while it is built, neither is promised.
- *Brief and wiki* replace files as a whole unless two writers meet under the temporary name,
  and show a verdict in the end unless a job failed, an older handler overtook it, brief's
  consumer died at its start, or the wiki's run passed the page over.
- *The documents* put every verdict of a known CCIR, or of none, somewhere.
- *The poller* hands an article to ntfy once, but for posts that took effect and timed out, and
  its `since_id` passes none without a verdict and a recorded fate, but for disturbed ones.

PROJECT.json lists the hazards behind these, each at its line.

## The modules

| Module | Models |
|---|---|
| `Alerting` | the alerting worker: its handlers, its digest and the `alert_state` table |
| `AlertLedger` | what the table promises of one item: a firing at most once per TTL, settled at most once |
| `AlertingProofs` | the inductive invariant of `Alerting`, its safety properties, and that it implements `AlertLedger` |
| `StoreConnection` | `PostgresStore`: the one connection, its transaction, and the callers that share it |
| `AtomicStore` | what the store's Protocol promises: each call is one step |
| `StoreConnectionProofs` | that a call which shares its transaction with no other is atomic, and what loses a write |
| `Triage` | the triage worker between `q.triage` and `verdict.ready` |
| `TriageProofs` | the inductive invariants of `Triage` and its safety properties |
| `Ingest` | the ingest adapters' runs, `persist_and_publish`, the in-flight lock and the scheduler |
| `IngestProofs` | the inductive invariant of `Ingest` and its safety properties |
| `Bus` | `RabbitMQBus` in several processes, the broker as they use it, and the DLQ consumer: daemon, depth probe and `--replay` |
| `Mail` | what `Bus` promises: a bag of copies per queue, each settled at most once, once the topology is built |
| `BusProofs` | the inductive invariants of `Bus`, its safety properties, and that it implements `Mail` |
| `MvpPoller` | the poll loop of the minimal deployment with its `since_id` |
| `MvpPollerProofs` | the inductive invariant of `MvpPoller` and its safety properties |
| `Files` | what brief, the wiki and the blob store write by way of a temporary name |
| `FilesProofs` | the inductive invariants of `Files` and its safety properties |
| `Documents` | the clustering of verdicts, and which verdict stands where in which document |
| `DocumentsProofs` | the order of the table, the clusterings and the sections, and the safety properties of `Documents` |
| `MC*` | instances for TLC |

### Alerting

`alertId`, `firedAt` and `marks` are the columns of a row: which claim it is, when it
fired, and which of `suppressed`, `digested_at`, `delivered_at` and `dlx_at` are set;
`issued` counts the claims of an item that a handler was told it had won.
The dedupe id is a hash of the item id and the tier, so there is a row per item.
`trig` is where the broker has each trigger. Of each handler, `phase`, `msg`, `todo`,
`item`, `id` and `attempt` are its program counter and its locals. `egress`, `pushed`,
`enumerated`, `outbox` and `orphaned` record what has left the worker, `unclaimed` and
`unmarked` which alerts had a write undone, and all of them are read by properties only.

`ClaimWon` and `ClaimLost` are the two outcomes of the upsert in `claim_alert`;
`SkipMissing`, `PassThrottle` and `Suppress` are the rest of `_emit_if_claimed`;
`DeliverOk`, `DeliverFails` and `MarkDelivered` are `deliver_with_retry`;
`PublishDeadLetter`, `AuditDeadLetter` and `MarkDeadLettered` are the three durable
actions of `dead_letter`; `DigestRead`, `DigestList`, `DigestPostOk`, `DigestPostFails` and
`DigestMark` are `run_digest_tick`. `AtPhase` keeps a handler between two awaits alone
in the event loop; each commit is still a step of its own, because the process can die
after it.

The digest makes its two store calls in threads, on the handlers' own connection, and its
read ends in a rollback. Where that rollback comes between the statement and the commit of
a handler's write, the write is undone and its call returns as if it stood. So every write
of a handler (the claim in `ClaimWon`, the marks by `Record`, the audit row) is a step with
two outcomes, it stands or it is undone (`RolledBack`), and the digest's read is two steps,
its SELECT (`DigestRead`) and its rollback (`DigestList`). The converse, a handler's
rollback that undoes the digest's mark, is `DigestMarkUndone`. An undone write is one of the
`MaxFaults`. `NoSilentAlert` names these losses, and `AlertLedger` knows them as `Spoil`: of an
item whose claim was undone it promises the TTL but no single settlement (`Stray`).

`DigestedWasEnumerated` says that a row the digest marks was listed in a digest of its
item. The mark goes by dedupe id: a row that is re-fired while the digest posts is marked
by it too, although the digest listed the firing before. This is in the model (`InBatch`)
and the property does not exclude it.

Assumptions. The clock
does not advance while a handler is between its claim and its window counts, nor past
the TTL of an alert that is being delivered: a delivery is three requests of at most
10 s with 6 s of sleep between them, and the TTL is 24 h. A process that waits a day on
a dead broker inside `dead_letter` is outside the model. A lost connection is never
repaired by psycopg: `conn` stays broken until a restart.

### StoreConnection

`txn` is the transaction of the connection: idle, open with uncommitted rows, failed,
or closed with its session. A call runs its statements and then ends the transaction,
a write by `Commit`, a read by `EndRead`, which is a rollback except for the reads that
brief makes through a raw cursor. `Rescue` is `PostgresStore.rollback()`, called by
those that go on after an exception. The calls of different callers may run into each other
at every statement: a caller is a thread (an `asyncio.to_thread` call, or the event loop),
and nothing in the code keeps them apart.

`shared` records which calls had the transaction in common with another caller's, `undone`
whose uncommitted rows another caller threw away, by the rollback a read ends in, by
`Rescue` or by a failed statement. The properties say exactly what is left: `PairsTogether`
and the refinement of `AtomicStore` hold of the calls that shared nothing, `LostOnlyToRollback`
of every call. The refinement hides the others: a shared call appears in `AtomicStore` as
shared, and its rows do not count.

### Triage

`phase` names what each handler awaits; `view` is the database as the shared
connection sees it, `db` as it is committed, `aborted` says that the transaction has
failed. A write is two steps and a read is one. `thread` is an entity thread, which goes on
after `wait_for` gives up on it (`NerTimeout`). `seen` is the bus's seen-set. `lost` and
`refused` record a row that was undone under its writer and a publish that failed, so
that the properties can name these two known ways out precisely. `again` are the items whose
message went back to the queue or was replayed: one of those finds its own vector in the
dedup query, so `DuplicateHasSource` speaks of the others. Of these it says more than that
each has some similar item: in every group of duplicates one is near an item outside the
group whose vector is stored, about to be, or undone, which excludes items that are duplicates of themselves
or of each other only. The verdict is
reduced to who reached it: the LLM, the dedup query or the pre-filter. Whether vectors
are near is the constant `Near`; the 7-day window of the dedup query, the entity tables
and the content of the audit row are left out. The audit write of a pre-filter skip is
one step, for nothing reads it.

### Ingest

`runs`, `phase`, `source` and `batch` are a task that `POST /run` has created: whose it is,
what it does next, which mailbox or channel it is at, and what it has read and not yet
handled. `Free` and `Post` are the check and the set of the in-flight flag, `End` is the
`finally` of `_wrap`. `Fetch`, `NextSource` and `Return` are the loop of an adapter's
`ingest()`; `FetchRaises`, `StoreRaises` and `PublishRaises` are the exceptions that end
it. `Persist` is `get_item` and `put_item` together, since they are synchronous and
nothing in the process comes between them, and `PublishConfirmed` is the event.
`Mail` is what each source will ever hold and `arrived` how much of it is there; a run
reads the newest `Window` messages, oldest first or newest first as the adapter does.
An item's id is a hash, so one item can be in two sources of an adapter. `Unreadable` and
`Unstorable` are messages that raise when parsed and when stored. telegram and barentswatch build a store
and never enter it: their items are all `Unstorable`. `sent` and `cut` are read by
properties only.

`FetchNothing` is the fetch whose failure is logged and leaves nothing to read (yt-dlp's
timeout, a POP3 error), after which the run goes on with the next source; `Skip` is
obsidian's clip that cannot be parsed. The adapters that pass over such a message rather
than raise are `Lenient`.

### Bus and Mail

`bound` are the pairs of routing key and queue that stand as this version declares and binds
them, `old` the queues another version has left. `conn` and `next` say how far each process
has come in `_ensure_connection`: `Loop` is what it declares, one await after the other.
`Connect` begins, `Declare` is one element, `Mismatch` the 406 that makes the process delete
everything (`Delete`, one queue per step; `DeleteRaises` is the deletion that is swallowed)
and declare again, and `BuildFails` what another process's rebuild does to it in between.
`ready`, `dead`, `strays` and the consumers' and slots' hands are where each copy of each
event is. A deleted queue takes its copies along and cuts its consumers off (`Cut`).

`Publish` and `PublishAgain` are the seen-set's two branches. `Accept` is the confirm: the
event goes to the queues that are bound by then, all or, during a rebuild, some of the
queues of its key. `Unroutable` is the refusal where none is.
That a mandatory publish to no queue raises is what the code's comment says of aio_pika,
and the model takes its word.

`DaemonTakes`, `Announce` and `Bury` are `_handle_message` of the daemon, with the exception
that leaves `message.process()` as `AnnounceRaises`, after which the broker discards the
letter. A stray letter (`StrayArrives`) is one that names no event type, or that
`FeedUnhealthy` refuses to hold: the daemon logs it, announces nothing and acks it, and
`--replay` drops and acks it where it has no routing key. Only anybody else than this
code's publishers can put one there, since they all set both. The third log-and-ack path of
the daemon, without an events exchange (`worker.py:178-180`), is not taken: the daemon
consumes only after `connect()` has set it. `ReadDepth` and `Judge` are the probe, which
judges a depth read an await earlier; its own announcement is outside its `try`, and
`JudgeRaises` ends the daemon. `StartReplay` to `ReplayAcks` are `--replay`. Handlers are
reduced to an ack or a nack.

The queues are bags because no property is about order. `Mail` is the abstract
specification: it counts the copies each queue is owed, in whoever's hands. A step puts a
copy into every queue of a key or none (`Route`), or settles one copy. While the topology is
still to be built (`building`) a publish may reach some of the queues only (`RoutePart`) and copies
may be thrown away (`Lose`); once built it stays built. The refinement mapping adds up
`ready`, `dead` and what is held; `Building` holds as long as something is undeclared or a
process is deleting.

### MvpPoller

One loop: `Poll` is `fetch_new_items`, then for each item `Skip`, or `Score`, `PutItem`,
`PutEnrichment` and the alerting lane, then `Advance`; `WriteNotes` ends the cycle. The lane
is called in line: `Claim`, `Pass` or `Suppress`, `Post` or `PostFails`, `MarkDelivered` or `Bury`. It returns
normally also where nothing reached ntfy, because the throttle suppressed the alert, the
attempts ran out, or the claim was lost, and it posts again after a timeout, also one whose
post had taken effect. `claims` and `recent` are the rows younger than the TTL and those in the throttle's
window, `fate` what the row says. Every call can raise (`ItemRaises`, `AdvanceRaises`), which
the loop logs and passes over, and the process can die between any two steps. `since` and
`file` are `since_id` in memory and in the state file. `doubted` records the articles of
which a post took effect and came back as failed, `upset` those whose processing was
disturbed or whose answer could not be read, so that the properties can say exactly which
ones may be pushed again or be missing.

No digest and no bus run in this deployment. So an alert that the throttle suppresses or that
is given up stays in its row and nobody is told, although `emitter.py:94-97` speaks of the
next digest. `NoSilentGap` counts it as passed with a recorded fate, not as pushed.

### Files

A job is a handler of brief or of the wiki, a GET of `/sab`, or a `put_blob`; its phases
are the calls between which another one can run: read a snapshot of the rows, open the
temporary file, write, rename, publish. `tmp` and `dest` are the file under each of the
two names, reduced to the number of verdicts it shows and whether it is whole, `fd` says
where the file a job has open is by now (`Moved`, when somebody renames it), and `mixed`
which jobs write a file that somebody else has open. `ghost` handlers are those whose
channel dropped and which run on while their message is given to another one.

`WriteDigests` is brief's loop over its digests, which nothing interrupts but an exception or
the end of the process, and those leave some of the files written: `DigestsCut`, then `Raise` or
`Crash`. A run of the wiki takes up the few subjects with the most links, out of a bounded
recall, and logs what raises for a subject: the page of this model is one subject's, and
`PassOver` is the run that leaves it as it is. `deaf` is brief without its consumer: what
`consume()` raises ends that task, and the HTTP server runs on. (`main.py:10-12` says the same of
a broker that cannot be reached; there `_ensure_connection` retries for ever, so the
consumer waits rather than dies.) `spoilt` records that a file got less than it showed
before, or less than its job took, and `overlaps`, `drops`, `failed` and `passed` the other
ways a verdict can stay unseen; they are read by properties only.

### Documents

The rows are a table, built by `PutEnrichment` and `PutEmbedding` in any order, so that
TLC meets every table up to `MaxRows`. A row's `ccir` and `cnr` are what the LLM answered,
which nobody validates: a CCIR without a heading is `Unlisted`, a cnr that is neither I nor
none is "other". Everything else is a function of the table:
`ClusterItems` and `ClusterInMemory` are the two greedy clusterings of `clustering.py`,
written as folds, the second with its two lists and their positions as they are;
`BriefSection`, `BriefFlagged`, `ClusterDocument`, `HtmlSection`, `HtmlFlagged` and the
vault's `VaultKept` say which row each document shows where. A vector is a pair of
naturals, and distances are compared by the squares of the cosines, without rounding.
`EveryRowHasItsPlace` says in which documents a row of an unlisted CCIR has no place. One
abstraction: a CCIR that is spelled in lower case is not told apart from itself.

In `Alerting` and `Triage` alike, `BrokerDrop` requeues what is unacked and lets
the handlers run on, and `CrashAndRestart` also clears everything the process held in
memory, the seen-set included.

## What TLC checks

| Run | Instance | Distinct states | Result |
|---|---|---|---|
| `alerting` | 2 items, 2 triggers (one names both), 2 handlers, TTL 2, clock to 3, caps 1 and 1, 2 attempts, 1 fault (an undone write included) | 1,428,829 | pass |
| `alerting_live` | the same, one item unreadable, clock to 1, with fairness | 37,380 | pass |
| `alerting_crash` | the same as `alerting` | | `AckedMeansSettled` violated |
| `store` | 2 callers whose calls overlap, 5 calls (2 of two statements, 2 reads, one through a cursor), 2 errors, with fairness | 214,287 | pass |
| `store_threads` | the same without errors | | `ReturnedIsStored` violated |
| `triage` | 2 near-identical items, one off topic, 2 handlers, 1 entity thread, 1 fault, with fairness | 214,800 | pass |
| `ingest` | 2 adapters, one of them lenient, 3 sources, 7 items of which one is in two sources, two cannot be parsed and two cannot be stored, window 2, 2 tasks, 2 faults, with fairness | 149,426 | pass |
| `bus` | 2 processes that build the topology, one queue of it another version's; 2 tasks that publish one event to 2 queues, a consumer of one, a queue nobody reads; the daemon, 1 replay, 1 fault (a stray letter, a deletion or a publish that raises, a lost connection, a crash), with fairness | 257,342 | pass |
| `poller` | 7 Fever ids of 4 articles: two CAT I, one of them under two ids, a routine one and one that always fails, under three ids of which two fill a page; pages of 2, cap 1, 2 attempts, 2 faults, with fairness | 260,559 | pass |
| `files` | 2 jobs of each kind, one kind deployed at a time, 2 digests, 2 verdicts, 2 faults, 1 day, with fairness | 99,256 | pass |
| `documents` | every table of 3 rows over 2 CCIRs, an unlisted one and none, 3 CNRs, 2 scores, 3 vectors and none; 1 cluster per section | 449,377 | pass |
| `clustering_singletons` | the same | | `SingletonsStaySingle` violated |

Why the bounds are enough. Two handlers are all that alerting registers, and two items are
enough to exceed a cap of one and to have two handlers meet on one item or pass each
other. A clock of 3 with a TTL of 2 contains one re-fire of every item, and windows of 1
and 2 slide within it. Two attempts have a first, a repeated and a last failure. One fault is
one crash, drop, refusal or undone write, at any step; it is enough for every way out that
the properties name, and for the redelivery that follows it. In `store`, two callers have
a write of two rows and one of one row, a write and a read, and a write and a cursor's
read in common, and two errors are a failed statement and a lost session, or two of one. In
triage, one fault is enough for two handlers to overlap, or for an entity thread to outlive its
handler's wait and run beside the next message; two items near each other are enough for a
mutual duplicate. An item without an article, which
triage acks unseen, is in `MCTriageLookup.cfg` only. In ingest, a window
of two lets a message be overtaken, stand before another one, or be in the way and age
out; two tasks are what a broken lock needs; two faults are a failure in one run and
another in its repetition. In `bus`, two processes can rebuild one after the other or at
once, each between any two queues of the other; two tasks of one bus race through the
seen-set; a queue without a consumer
shows what fan-out leaves behind; the threshold of one makes every dead letter a breach.
In `poller`, ids 5 and 6 are a page that always fails as a whole, which is fetched again
for ever, and id 2 is one that does not; one alert in the window leaves the second one suppressed, and two
faults use up the attempts or push an article twice. Files of
different kinds share no name and no process but brief's two, whose files differ,
so the kinds are deployed one at a time; two digests are the least with a state between
two. In `documents` a cap of one with three rows is
exceeded by two, and three vectors, the middle one of which is near both others while
they are not near each other, are the least on which a greedy assignment depends on the
order. The proofs below drop the bounds for every module.

Every safety and liveness property of a passing run is violated by a wrong variant of
the code; the variants stand before the definitions they stand in for and are marked as such.

### Liveness and its fairness

`TriggersDrain` and `SuppressedIsResolved` (alerting) assume that the event loop runs
every ready task, that the broker hands out what is ready, that requests end because
they carry a timeout, and that a digest tried every hour is accepted sooner or later.
`HandlerStep` has strong fairness because another handler's synchronous stretch disables
it for a moment, again and again. A digest whose mark is undone lists its alerts again. `QueueDrains` (triage) assumes the same of the broker and of awaits,
and of the entity thread that it ends: its LLM requests time out and it has finitely
many names. `RescueHeals` (store) assumes that a thread in a call goes on. `MailIsStored` (ingest) assumes that the scheduler goes on firing, so that it finds the
adapter idle in the end, and that every source, the database and the broker answer, if
only with an error. imaplib and poplib are used without a timeout, so a mail server that
goes silent is outside this assumption and holds the adapter for ever. `MailSettles` and
`DeepIsReported` (bus) assume that processes reconnect and are restarted, that the broker
confirms or refuses, and that the probe goes on. `EveryItemHandled` (poller) assumes that
the loop goes on; it excepts the articles behind a page full of failing ones.
`EveryVerdictShows` (files) assumes that handlers go on and that the broker hands out what
is queued to a consumer that lives; brief's is not assumed to. No fairness makes a fault happen, a message or an article arrive, a
task publish, the clock advance or an operator replay.

### Where the code does not do what it says

- **`alerting_crash`.** The claim is committed before anything is delivered. After a
  crash or a dropped channel the redelivered trigger loses the claim to the dead
  handler's own row, returns, and is acked: the alert has no outcome and is not retried
  for 24 h. `outbox.py:154-156` and `emitter.py:224-226` say that redelivery covers this.
- **`store_threads`.** A read's rollback between another thread's statement and its commit
  undoes the write, and the commit then returns normally. `_postgres.py:126-128` says that
  cursors from several threads are safe: psycopg serializes statements, not the calls made of
  them. Alerting's digest makes such calls beside the handlers', which is why `NoSilentAlert` has
  the exceptions it has.
- **`clustering_singletons`.** The in-memory clustering gives an item without an embedding
  a cluster but no centroid, and then takes a centroid's position for its cluster's: a
  later item that belongs to a cluster is put into the wrong one. `clustering.py:262-263`
  says that such items pass through as singletons.

The following are kept as configurations beside the runs, to be run by hand; each ends in
the violation of the property it names.

- **`MCAlertingOutbox.cfg`**, `DeadLetterReconstructable`. A second dead letter of the same
  item in one process lifetime is dropped by the seen-set, and its row is audited and
  marked dead-lettered all the same. `outbox.py:203-205` calls the alert reconstructable
  from the queue alone.
- **`MCTriageRedelivery.cfg`**, `RedeliveryHarmless`. A redelivered item finds its own
  vector, and its verdict is overwritten with "duplicate". `05-03-PLAN.md:19` calls a
  redelivery harmless.
- **`MCTriageLookup.cfg`**, `LookupFallsThrough`. After a failed CCIR lookup the transaction
  is aborted, the dedup query raises, and the message is dead-lettered.
  `worker.py:198-199` says that such an item falls through to the scorer.
- **`MCIngestOutage.cfg`**, `OutageIsLocal`. All mailboxes of a run are read under one `try`,
  so one that raises keeps the run from those behind it, on every poll; and with the real
  `poplib` every POP3 mailbox raises, because the tuples of `uidl()` and `stat()` are
  misread (`imap_ingest.py:232`, `:253`). `imap_ingest.py:249-250` says that a POP3 outage
  must not crash the run.
- **`MCMvpPollerLoss.cfg`**, `FailedIsRefetched`. An item whose processing raised is passed
  by `since_id` when a later one of the page succeeds, and is not fetched again;
  `poller.py:237-238` says that since_id is not advanced on failure, so the item re-fetches.
- **`MCFilesGets.cfg`**, `NoPartialReads`. Two GETs of a stale `/sab` write one temporary
  file, and the first rename can put a half-written one in place under the second.
  `main.py:109` says "no partial reads on concurrent GETs".

More, seen while modelling and without a run of their own:

- `persist.py:19` promises "exactly once for new items": a crash, a refusal or a cut commit
  between the row and the event leaves an item no run announces, and `NoSilentItem` says that
  nothing else does.
- `telegram_ingest.py:157` and `barentswatch_ingest.py:335` never enter the store they build,
  so the assertion in `get_item` (`_postgres.py:230`) ends each of their runs at its first
  item; their tests use `dry_run`.
- `opml_health/service.py:130` calls `bus.connect()`, which `RabbitMQBus` does not have, so
  that service announces no unhealthy feed.
- The docstring of the DLQ consumer's probe says "Never raises" (`worker.py:249`). Its
  announcement stands outside the `try` (`worker.py:322`), and one that the broker refuses
  ends the daemon, which the container's restart policy brings back.
- `emitter.py:94-97` calls a throttled alert "pending the next hourly digest"; the poller of the
  minimal deployment calls the emitter and runs no digest.
- `main.py:10-12` of brief says that its consumer ends when the broker cannot be reached:
  `_ensure_connection` retries for ever instead. The consumer ends where `consume()` raises.

## What is proved

TLAPS checks these for every value of the constants that meets the modules' `ASSUME`s.

**Alerting** (`AlertingProofs`). The properties are not inductive by themselves. The invariant
`IInv` adds to the type invariant:

- `Numbered`: an alert's number is at most the number of claims issued of its item, and no
  row holds a claim that was undone.
- `HoldInv`: a handler that holds an alert whose claim stands holds the row's current claim,
  and no two hold one item. It stands on the assumption that the clock does not pass a held row's TTL,
  so that `Claimable` fails for it.
- `PhaseInv`: what must be true by each phase of a delivery (pushed by "sent", offered to the
  outbox by "queued", audited by "audited", unless that write was undone). `FateIsTrue`
  follows from it step by step (`FateStep`).
- `OpenIsHeld`: an item's last alert without a fate has a holder, was cut off or undone, or is of an
  unreadable item.
- `AckInv`: of an unacked or acked trigger, every item is claimed or still to do.
- `EgressInv`: whatever passed the throttle within a window is still a counted row, unless its
  claim was undone, so the
  number that passed is at most the count compared with the cap. This is where
  `ShortWindow <= TTL` and `LongWindow <= TTL` are needed: a row that
  is re-fired has left both windows.
- `DigestInv`: the rows a digest is about to mark were listed in one that was posted.

From `Invariance` follow `TypeCorrect`, `Throttled`, `Exclusive`, `NoneSilent`, `AckedClaimed`,
`FateTrue` and `DigestTrue`. `LedgerImplemented` shows that every step of `Alerting` is a
step or a stutter of `AlertLedger`: a claim is `Fire`, the three marks are `Settle`, an undone
claim is `Spoil`, and a mark its handler then makes on the row is `Stray`.

**StoreConnection** (`StoreConnectionProofs`), for any callers, overlapping at will. The
invariant `SInv` of `StoreInvariant` has a part for each thing a call can meet:

- `Apart`: two calls between a statement and their end have shared a transaction. So for a call
  that shares nothing the open transaction holds its own rows and no others (`OwnTxn`,
  `TxnRows`), what its read found is still what is stored (`FoundStored`), and its rows are
  stored together or not at all (`Whole`).
- `Kept`: what any call has written is stored, in the transaction, or thrown away by another
  caller.

`PairedWrites`, `NoOtherWriteLost` and `StoreImplemented` follow: put_item's two rows go
together, a returned write is lost only to another caller's rollback, and the calls that share
nothing are those of `AtomicStore`. Without that exception the second one is false, as
`store_threads` shows. `StoreTypes` is the type invariant.

**Triage** (`TriageProofs`), for any items, handlers, nearness, entity threads and faults,
each property with an inductive invariant of its own on top of `TriageTypes`:

- `OutInv`: whatever is in the seen-set, done or acked has an outcome, that is, its verdict
  is out, on its way, or was refused. The seen-set is the part that `NoSilentVerdict` does
  not speak of and needs: a publish it turns into a no-op ends the handler just the same.
  `OutcomeStays` says that no step takes an outcome away.
- `StoreInv`: what is committed is what the connection sees (`DbIsSeen`), and whoever has
  come past the commit of its verdict has it stored, or lost to another user of the
  connection. `VerdictIsStored` follows, since `publishing` comes after that commit.
- `DupInv`: a vector that only the connection sees is owed by the handler that is storing
  it, or is known to be undone (`SeenVectorIsOwed`), so what the dedup query finds is a source. An item
  on its first delivery has one handler at most and no vector until that one writes it
  (`FirstTry`), so what it finds is another item's. And every group of items that are called
  duplicates, in a handler's hands, in what the connection sees or committed, has such a source
  outside the group (`DuplicatesFounded`): the latest one to look found it there before it had a
  vector of its own. `DuplicateHasSource` is the committed part. `VectoringEnds` says how a handler stops owing.


**Ingest** (`IngestProofs`). The invariant adds `PublishInv` to the properties: what a task
is publishing has its row and no event yet, and no two tasks publish one item. It holds
because a task begins to publish an item only when it has just stored it for the first
time. `LockHolds`, `AnnouncedOnce` and `NoItemSilent` follow, for any number of adapters,
sources, tasks and faults and any mail.

**Bus** (`BusProofs`), for finitely many consumers and slots of the daemon and any
processes, tasks, events, queues, faults and replays.

- `PubInv` relates the seen-set to what the tasks do: what a task is sending is in its bus's
  seen-set and its connection is up, no two tasks of a bus send one event, what the broker
  has taken is in the seen-set and sent by nobody, and what is in the seen-set has been
  taken, is being sent or has failed. `OncePerBus` and `ReturnedIsRouted` follow.
- `BuryInv`: a slot that has told of its letter holds it, and the letter is announced.
  `BurialIsAnnounced` follows.
- `BusImplementsMail`: every step of `Bus` is a step of `Mail` or a stutter. The refinement
  maps a queue to the number of copies owed to it, the ready and the dead ones, those in
  consumers' hands and those in the hands of the daemon and `--replay`, the last two counted as
  cardinalities. The lemmas `HeldTaken`, `HeldDropped`, `UnackedTaken` and their like say
  how each movement changes those counts, and the `...Keeps` and `...Settles` lemmas add them
  up: delivering, nacking, taking and relinquishing keep the sum, an ack or a burial takes one away.
  A publish adds one to each queue that is bound by then (`RoutedOwes`), also where its connection
  breaks (`BreakOwes`); the deletion of a queue takes its copies and no other's (`DeleteLoses`). The queues
  bound by then are all of the key's once nothing is `Building`, and `BuildStays` shows that this
  lasts: only a queue of another version makes a process delete, and none comes back.

The assumptions behind these say that `None` is no event and no letter, that `--replay` is
no slot of the daemon, and that a consumer listens to a queue of its routing key.

**MvpPoller** (`MvpPollerProofs`). The invariant adds to the type invariant:

- `PageInv`: what is left of the page are consecutive ids beyond `since_id`, so the ids that
  have been passed are those below the one at hand.
- `PushInv`: an article without a row has met nobody in the lane (`Unheard`), and is that when
  it enters: `_kept` skips it ever after. In the lane it has been posted as often as attempts have failed, at
  most, and not at all unless one of them was doubted. `PushedOnce` is its first part.
- `ItemInv`: every stored article is settled, that is complete or upset, or the one at hand.
- `GapInv`: every id passed is settled, which is `NoSilentGap` without its case split.

From `Invariance` follow `TypeCorrect`, `PushedAtMostOnce` and `GapsAreKnown`, for any
articles, ids that share one, page size and number of faults.

**Files** (`FilesProofs`), for any jobs, verdicts, faults and days:

- `TornInv`: as long as no channel of a kind's handlers has dropped, one of them is at work at a
  time and none is a ghost; and as long as two jobs of a kind have not met, the one that
  writes has the file under the temporary name, or that file is gone, and what the one that
  renames finds there is whole. `TornOnlyByOverlap` is its third part, and `FilesReadsAreWhole`
  a consequence: what a GET serves is whole unless two GETs have met. `NoPartialReads`,
  which the docstring states without that condition, is false (see above).
- `ShownInv`: by each phase of a render the digests and the vault show the handler's snapshot,
  and they show what has been announced, for as long as nothing is spoilt (`Ledger`). Until its
  channel drops, a kind's one handler has later rows than its files (`Fresh`), so nothing is spoilt
  before (`SpoiltByDrop`): a crash, a cut between two digests and a late handler of one's own
  spoil nothing. `AnnouncedIsShown` follows. It
  needs `TornInv` for the phases in which the temporary file is the handler's own.

**Documents** (`DocumentsProofs`), for any number of rows, requirements, scores, embeddings
that are pairs of naturals, and caps. The inductive invariant `RowsInv` says that the table
is in descending order of the scores; everything else is a function of the table, and its
theorems say what these functions compute.

- *Folds.* The library's `FoldLeft` and `FlattenSeq` choose a function that satisfies a
  recursion. `Recursion` shows that such a function exists and `StepsOf` that any such
  function takes one step after another, by an induction over a set of numbers (`UpTo`)
  instead of over a predicate, for which the library's induction theorems cannot be
  instantiated. `DistinctIs`, `FlattenParted`, `CentroidIsTally`, `GroupIs` and
  `GroupsAgree` are inductions over the steps of a fold.
- *Selections.* What a comprehension over the rows leaves is ascending (`Selection`), so its
  first row scores highest (`LeadIsFirst`) and a cap leaves out only rows that score no
  higher than those it shows (`FirstOf`, `RowsInPlace`).
- *Clusters.* `Parted(C, I)`: the clusters in C partition the rows in I, each with rows of
  one CCIR in the order of the table. One more row keeps this (`PutInIs`), wherever it is put:
  that is why the shifted positions of the in-memory clustering lose no row. Sections
  that share no row can be concatenated (`ConcatParted`). That `Nearest` is a position at
  all rests on `FirstGreatest`: nearness is a strict weak order, and the first of the nearest exists.
- *Unlisted.* `InNoCluster`: a row of a CCIR without a heading is in no cluster of
  `cluster.md`; `InOneCluster`: every other one is in exactly one.
- *Sort and caps.* `SortIs`: the sort puts each cluster at its rank, so what `Shown` cuts off
  scores no higher than what it shows (`ShownIs`). `EveryRowPlaced` and `FlaggedShown` follow.
- *Agreement.* `Centred`: the centroid of a cluster is the sum of its embeddings, so what
  joins is similar to the mean of what was there (`AssignKeeps`); where every row has its
  embedding the two clusterings keep the same lists, step by step (`SameStep`), and have the
  same sections (`SameClusters`). `ClusteringsAgree` follows.

The assumptions say that each requirement has one heading, that an embedding is a pair of
naturals other than <<0, 0>>, and that a cap shows at least one.

The inductive invariants were checked by TLC, as invariants of the instances above, before
they were proved. With these, every invariant and every refinement that a
passing run checks is a theorem.

Only model-checked: every liveness property, and anything about ENABLED, which this prover
cannot reach.

## Plan

In the order of what the system depends on most: alerting first, then the store it and
everything else stands on, then the worker that feeds it.

1. Done: `Alerting`, `AlertLedger` and their proofs; `StoreConnection`, `AtomicStore` and
   their proofs; `Triage`.
2. Done: `Ingest` and its proofs.
3. Done: `Bus` and `Mail`; `MvpPoller` and its proofs; `Files`; `Documents`.
4. Done: the proofs of `Triage`, of `Bus` with its refinement of `Mail`, of `Files` and of
   `Documents`.
5. `Pipeline`: ingest, triage and alerting composed over the bus, against an abstract
   specification of an item's way from feed to fate.

Runs stay few: one per module, a liveness run of its own where it needs smaller bounds, and
one for each of the gravest disagreements between the code and what it says.

## Not modelled

Text: prompts, markup, formatting, note names and deep links, none of which a property
reads. Parsers of the individual sources, beyond whether they raise; transcription, Atom
output and token handling. Of brief, the read-only views, the BLUF texts and the item
notes; of clustering, the keyword clustering that stands in where no row has an embedding,
and `digest.py`; of the wiki, the periodic mode, which selects by the articles' clock. The
entity, CCIR-vector and recall tables of the store. OPML health, which probes feeds and
reports. The contracts' data classes and codecs, which are pure and which unit tests reach.
Health endpoints, logging, one-off scripts and the stateless LLM router. PROJECT.json gives
every component's status and the reason.
