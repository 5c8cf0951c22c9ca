--------------------------------- MODULE Files ---------------------------------
(***************************************************************************)
(* Everything the system writes by way of a temporary name: the digests    *)
(* and the vault of apps/brief's consumer, the sab.html of its HTTP server,*)
(* the pages of apps/wiki and the blobs of libs/store.                     *)
(*                                                                         *)
(* Each verdict that is committed makes brief and the wiki render all that *)
(* is stored, from a snapshot.  A job writes dest.with_suffix(".tmp"),     *)
(* which is the same name for all the writers of dest, and renames it.  A  *)
(* file's content is the number of verdicts it shows, and whether it is    *)
(* whole.  The prefetch is 1, but a handler whose channel has dropped runs *)
(* on beside the one that its redelivered message starts.                  *)
(*                                                                         *)
(* brief writes its twelve digests in one go of the event loop, which no   *)
(* other handler interrupts but an exception or a crash can.  One file     *)
(* stands for the vault's SAB notes and entity graph, and one page for the *)
(* wiki's: a run of the wiki takes up the subjects with the most links,    *)
(* and may leave this one as it is.  The vault's note of an item is not    *)
(* followed: one that cannot be written is printed and passed over.        *)
(***************************************************************************)
EXTENDS Integers, FiniteSets

CONSTANTS
  Jobs,         \* what can be at work: handlers, requests, calls
  KindOf,       \* of each, "brief", "wiki", "get" or "put"
  Deployments,  \* which kinds may be deployed together: no file is shared
                \* between kinds, and no process but brief's
  Digests,      \* how many digests brief writes
  MaxVerdicts,  \* bounds on verdicts, on faults, on days that pass,
  MaxFaults,    \* on jobs at work at once, and on requests and puts
  MaxDays,
  AtOnce,
  MaxCalls

Kinds    == {"brief", "wiki", "get", "put"}
Handlers == {"brief", "wiki"}
Items    == 1..MaxVerdicts

ASSUME JobsAssumption == KindOf \in [Jobs -> Kinds] /\ IsFiniteSet(Jobs)
ASSUME BoundsAssumption ==
  {Digests, MaxVerdicts, MaxFaults, MaxDays, AtOnce, MaxCalls} \subseteq Nat

VARIABLES
  deployed,  \* the kinds that are
  db,        \* how many verdicts are committed
  queue,     \* of q.brief and q.wiki, the items whose verdict.ready waits
  deaf,      \* brief's consumer has died as it started, and its process
             \* serves on
  phase,     \* of each job, what it does next
  item,      \* of each handler, the item of its message
  ghost,     \* handlers whose message has been given to another
  snap,      \* of each job, the verdicts its rows are of
  fd,        \* of a job that writes, where the file it has open stands now
  mixed,     \* jobs that write a file somebody else has open, too
  tmp, dest, \* of each kind, its temporary file and its file
  fresh,     \* sab.html is younger than 24 h
  digests,   \* the verdicts each of the digests shows
  seen,      \* items brief's bus has published a sab.published for
  calls, faults, days,
  announced, \* [item, snap] of those
  overlaps,  \* kinds two of whose jobs have had the temporary file at once
  drops,     \* kinds whose channel has dropped
  failed,    \* <<kind, item>> of the jobs that have raised
  spoilt,    \* kinds whose file got less than it showed, or than its job took
  passed     \* what was stored when a run of the wiki left the page alone

messages == <<deployed, db, queue, deaf>>
work     == <<item, ghost, snap>>
job      == <<phase, work>>
files    == <<fd, mixed, tmp, dest>>
shown    == <<fresh, digests, seen>>
counts   == <<calls, faults, days>>
history  == <<announced, overlaps, drops, failed, spoilt, passed>>
vars     == <<messages, job, files, shown, counts, history>>

Absent == [v |-> 0, whole |-> FALSE, there |-> FALSE]
Content(v, whole) == [v |-> v, whole |-> whole, there |-> TRUE]

At(j, p)  == phase[j] = p
Go(j, p)  == phase' = [phase EXCEPT ![j] = p]
Kind(k)   == {j \in Jobs : KindOf[j] = k}
Active    == {j \in Jobs : phase[j] # "idle"}
Room      == Cardinality(Active) < AtOnce
Spare(j)  == At(j, "idle") /\ j = CHOOSE i \in Kind(KindOf[j]) : At(i, "idle")

Fault == faults < MaxFaults /\ faults' = faults + 1

(* consume() may raise as brief starts.  (An unreachable broker is waited  *)
(* for; a queue that is gone is not.)  Nobody starts the consumer again.   *)
DeafAtStart == IF "brief" \in deployed THEN BOOLEAN ELSE {FALSE}

Init ==
  /\ deployed \in Deployments
  /\ db = 0 /\ queue = [k \in Handlers |-> {}] /\ deaf \in DeafAtStart
  /\ phase = [j \in Jobs |-> "idle"] /\ item = [j \in Jobs |-> 0]
  /\ ghost = {} /\ snap = [j \in Jobs |-> 0]
  /\ fd = [j \in Jobs |-> "none"] /\ mixed = {}
  /\ tmp = [k \in Kinds |-> Absent] /\ dest = [k \in Kinds |-> Absent]
  /\ fresh = FALSE /\ digests = [d \in 1..Digests |-> 0] /\ seen = {}
  /\ calls = 0 /\ faults = 0 /\ days = 0
  /\ announced = {} /\ overlaps = {} /\ drops = {} /\ failed = {}
  /\ spoilt = {} /\ passed = {}

(* triage commits a verdict and publishes verdict.ready.                   *)
CommitVerdict ==
  /\ db < MaxVerdicts /\ db' = db + 1
  /\ queue' = [k \in Handlers |->
               IF k \in deployed THEN queue[k] \union {db + 1} ELSE {}]
  /\ UNCHANGED <<deployed, deaf, job, files, shown, counts, history>>

DayPasses ==
  /\ fresh /\ days < MaxDays /\ days' = days + 1 /\ fresh' = FALSE
  /\ UNCHANGED <<messages, job, files, digests, seen, calls, faults, history>>

-----------------------------------------------------------------------------
(* How a job begins.                                                       *)

Deliver(j, i) ==
  LET k == KindOf[j] IN
  /\ k \in Handlers /\ Spare(j) /\ Room /\ ~(k = "brief" /\ deaf)
  /\ Kind(k) \intersect Active \subseteq ghost /\ i \in queue[k]
  /\ queue' = [queue EXCEPT ![k] = @ \ {i}]
  /\ item' = [item EXCEPT ![j] = i]
  /\ Go(j, "read")
  /\ UNCHANGED <<deployed, db, deaf, ghost, snap, files, shown, counts, history>>

(* GET /sab, and put_blob of the same bytes.  (A request with a mode, a    *)
(* window or a view is answered from the rows and touches no file.)        *)
Call(j) ==
  /\ KindOf[j] \in deployed \ Handlers /\ Spare(j) /\ Room
  /\ calls < MaxCalls /\ calls' = calls + 1
  /\ Go(j, "check")
  /\ UNCHANGED <<messages, work, files, shown, faults, days, history>>

(* sab.html is served from disk for a day; a blob that exists is kept.     *)
UpToDate(j) ==
  dest[KindOf[j]].there /\ (KindOf[j] = "get" => fresh)

Check(j) ==
  /\ At(j, "check")
  /\ Go(j, IF UpToDate(j) THEN "serve"
           ELSE IF KindOf[j] = "get" THEN "read" ELSE "open")
  /\ UNCHANGED <<messages, work, files, shown, counts, history>>

(* A job of kind k takes what is stored, and renders that.                 *)
Snapshot(j, k, p) ==
  /\ KindOf[j] = k /\ At(j, "read") /\ Go(j, p)
  /\ snap' = [snap EXCEPT ![j] = db]
  /\ UNCHANGED <<messages, item, ghost, files, shown, counts, history>>

(* The verdict's row is there; the digests are of all rows.                *)
FetchAll(j)     == Snapshot(j, "brief", "digest")
GeneratePage(j) == Snapshot(j, "wiki", "open")
RenderSab(j)    == Snapshot(j, "get", "open")

(* The page's subject is not among those with the most links, or embedding *)
(* it, recalling for it or writing about it has raised, which is logged.   *)
PassOver(j) ==
  /\ KindOf[j] = "wiki" /\ At(j, "read") /\ Go(j, "end")
  /\ passed' = passed \union {db}
  /\ UNCHANGED <<messages, work, files, shown, counts, announced, overlaps, drops,
                 failed, spoilt>>

Written(j, n) == [d \in 1..Digests |-> IF d <= n THEN snap[j] ELSE digests[d]]

SpoiltBy(k, worse) == spoilt' = IF worse THEN spoilt \union {k} ELSE spoilt

WriteDigests(j) ==
  /\ At(j, "digest")
  /\ digests' = Written(j, Digests)
  /\ SpoiltBy("brief", \E d \in 1..Digests : snap[j] < digests[d])
  /\ Go(j, "open")
  /\ UNCHANGED <<messages, work, files, fresh, seen, counts, announced, overlaps,
                 drops, failed, passed>>

(* Rendering them raises, or one cannot be written, or the process is      *)
(* about to die between two of them.                                       *)
DigestsCut(j) ==
  /\ At(j, "digest") /\ Fault
  /\ \E n \in 0..Digests :
       /\ digests' = Written(j, n)
       /\ SpoiltBy("brief", \E d \in 1..n : snap[j] < digests[d])
  /\ Go(j, "cut")
  /\ UNCHANGED <<messages, work, files, fresh, seen, calls, days, announced,
                 overlaps, drops, failed, passed>>

-----------------------------------------------------------------------------
(* tmp.write_text(...); os.replace(tmp, dest).  Opening truncates what is  *)
(* there, for everybody who has it open.                                   *)

Writing(k, where) == {i \in Kind(k) : phase[i] = "write" /\ fd[i] = where}

(* Wrong variant of Open: the file itself is written, with no temporary.   *)
OpenDest(j) ==
  LET k == KindOf[j] IN
  /\ At(j, "open") /\ Go(j, "write")
  /\ dest' = [dest EXCEPT ![k] = Content(snap[j], FALSE)]
  /\ fd' = [fd EXCEPT ![j] = "dest"]
  /\ UNCHANGED <<messages, work, mixed, tmp, shown, counts, history>>

Open(j) ==
  LET k == KindOf[j] IN
  /\ At(j, "open") /\ Go(j, "write")
  /\ tmp' = [tmp EXCEPT ![k] = Content(snap[j], FALSE)]
  /\ fd' = [fd EXCEPT ![j] = "tmp"]
  /\ mixed' = IF Writing(k, "tmp") = {} THEN mixed \ {j}
              ELSE mixed \union Writing(k, "tmp") \union {j}
  /\ overlaps' = IF \E i \in Kind(k) \ {j} : phase[i] \in {"write", "rename"}
                 THEN overlaps \union {k} ELSE overlaps
  /\ UNCHANGED <<messages, work, dest, shown, counts, announced, drops, failed,
                 spoilt, passed>>

(* What two have written at once may be either's, or some of both's; two   *)
(* puts write the same.                                                    *)
Outcomes(j) ==
  IF Writing(KindOf[j], fd[j]) # {j} THEN {FALSE}
  ELSE IF j \in mixed /\ KindOf[j] # "put" THEN BOOLEAN ELSE {TRUE}

Write(j) ==
  LET k == KindOf[j] IN
  /\ At(j, "write") /\ Go(j, "rename")
  /\ \E whole \in Outcomes(j) :
       LET f == Content(snap[j], whole) IN
       /\ tmp' = IF fd[j] = "tmp" THEN [tmp EXCEPT ![k] = f] ELSE tmp
       /\ dest' = IF fd[j] = "dest" THEN [dest EXCEPT ![k] = f] ELSE dest
       /\ SpoiltBy(k, fd[j] = "dest" /\ (~whole \/ snap[j] < dest[k].v))
  /\ fd' = [fd EXCEPT ![j] = "none"]
  /\ UNCHANGED <<messages, work, mixed, shown, counts, announced, overlaps, drops,
                 failed, passed>>

(* The temporary file becomes the file under those who still write it, and *)
(* the file they may have been writing loses its name.                     *)
Moved(k, f) ==
  [i \in Jobs |-> IF i \in Kind(k) /\ phase[i] = "write"
                  THEN IF fd[i] = "tmp" THEN f ELSE "gone" ELSE fd[i]]

AfterRename(k) ==
  CASE k = "brief" -> "publish" [] k = "wiki" -> "end" [] OTHER -> "serve"

Rename(j) ==
  LET k == KindOf[j] IN
  /\ At(j, "rename") /\ tmp[k].there
  /\ dest' = [dest EXCEPT ![k] = tmp[k]]
  /\ tmp' = [tmp EXCEPT ![k] = Absent]
  /\ fd' = Moved(k, "dest")
  /\ SpoiltBy(k, ~tmp[k].whole \/ tmp[k].v < snap[j] \/ tmp[k].v < dest[k].v)
  /\ fresh' = (fresh \/ k = "get")
  /\ Go(j, AfterRename(k))
  /\ UNCHANGED <<messages, work, mixed, digests, seen, counts, announced,
                 overlaps, drops, failed, passed>>

-----------------------------------------------------------------------------
(* How a job ends.                                                         *)

(* Wrong variant of Publish: before the files are written.                 *)
PublishFirst(j) ==
  /\ At(j, "digest") /\ item[j] \notin seen
  /\ seen' = seen \union {item[j]}
  /\ announced' = announced \union {[item |-> item[j], snap |-> snap[j]]}
  /\ UNCHANGED <<messages, job, files, fresh, digests, counts, overlaps, drops,
                 failed, spoilt, passed>>

(* sab.published, unless this bus has published one for the item.          *)
Publish(j) ==
  /\ At(j, "publish") /\ Go(j, "end")
  /\ seen' = seen \union {item[j]}
  /\ announced' = IF item[j] \in seen THEN announced
                  ELSE announced \union {[item |-> item[j], snap |-> snap[j]]}
  /\ UNCHANGED <<messages, work, files, fresh, digests, counts, overlaps,
                 drops, failed, spoilt, passed>>

(* FileResponse, or put_blob's return.                                     *)
Serve(j) ==
  /\ At(j, "serve") /\ Go(j, "end")
  /\ UNCHANGED <<messages, work, files, shown, counts, history>>

Gone(js) ==
  /\ phase' = [j \in Jobs |-> IF j \in js THEN "idle" ELSE phase[j]]
  /\ item' = [j \in Jobs |-> IF j \in js THEN 0 ELSE item[j]]
  /\ snap' = [j \in Jobs |-> IF j \in js THEN 0 ELSE snap[j]]
  /\ ghost' = ghost \ js /\ mixed' = mixed \ js

(* The ack, if its channel still stands.                                   *)
End(j) ==
  /\ At(j, "end") /\ Gone({j})
  /\ UNCHANGED <<messages, fd, tmp, dest, shown, counts, history>>

(* An exception.  brief's handler nacks to the DLQ, the wiki's logs it and *)
(* acks, a GET answers 500, put_blob unlinks the temporary file and raises.*)
Fallible == {"read", "cut", "open", "write", "rename", "publish"}

Raise(j) ==
  LET k == KindOf[j] IN
  /\ phase[j] \in Fallible
  /\ IF At(j, "cut") \/ (At(j, "rename") /\ ~tmp[k].there)
     THEN UNCHANGED faults ELSE Fault
  /\ Gone({j})
  /\ IF k = "put" /\ phase[j] \in {"open", "write", "rename"}
     THEN /\ tmp' = [tmp EXCEPT ![k] = Absent]
          /\ fd' = [Moved(k, "gone") EXCEPT ![j] = "none"]
     ELSE tmp' = tmp /\ fd' = [fd EXCEPT ![j] = "none"]
  /\ failed' = failed \union {<<k, item[j]>>}
  /\ UNCHANGED <<messages, dest, shown, calls, days, announced, overlaps,
                 drops, spoilt, passed>>

(* The channel of a handler's process drops: its message is redelivered,   *)
(* the handler runs on.                                                    *)
DropChannel(k) ==
  /\ k \in Handlers /\ Fault
  /\ \E j \in (Kind(k) \intersect Active) \ ghost :
       /\ ghost' = ghost \union {j}
       /\ queue' = [queue EXCEPT ![k] = @ \union {item[j]}]
  /\ drops' = drops \union {k}
  /\ UNCHANGED <<deployed, db, deaf, phase, item, snap, files, shown, calls, days,
                 announced, overlaps, failed, spoilt, passed>>

(* A process dies with its jobs and is started again.  brief's consumer    *)
(* and HTTP server are one process, which serves on without a consumer     *)
(* that has died as it started.                                            *)
Housemates(k) == IF k \in {"brief", "get"} THEN Kind("brief") \union Kind("get")
                 ELSE Kind(k)

(* Wrong variant of Requeued: the message is acked as it is delivered.     *)
RequeuedNone(k) == {}

Requeued(k) == {item[j] : j \in (Kind(k) \intersect Active) \ ghost}

Crash(k) ==
  LET js == Housemates(k) IN
  /\ js \intersect Active # {} /\ Fault
  /\ Gone(js) /\ fd' = [j \in Jobs |-> IF j \in js THEN "none" ELSE fd[j]]
  /\ queue' = [h \in Handlers |->
                 queue[h] \union IF Kind(h) \subseteq js THEN Requeued(h) ELSE {}]
  /\ seen' = IF Kind("brief") \subseteq js THEN {} ELSE seen
  /\ IF Kind("brief") \subseteq js THEN deaf' \in DeafAtStart ELSE deaf' = deaf
  /\ UNCHANGED <<deployed, db, tmp, dest, fresh, digests, calls, days, history>>

-----------------------------------------------------------------------------
Step(j) == \/ Check(j) \/ FetchAll(j) \/ GeneratePage(j) \/ PassOver(j)
           \/ RenderSab(j) \/ WriteDigests(j) \/ DigestsCut(j) \/ Open(j) \/ Write(j) \/ Rename(j)
           \/ Publish(j) \/ Serve(j) \/ End(j) \/ Raise(j)

Next == \/ CommitVerdict \/ DayPasses
        \/ \E j \in Jobs : \/ Call(j) \/ Step(j)
                           \/ \E i \in Items : Deliver(j, i)
        \/ \E k \in Kinds : DropChannel(k) \/ Crash(k)

Spec == Init /\ [][Next]_vars

(* Jobs that have begun go on, and the broker delivers what waits to a     *)
(* consumer that lives.                                                    *)
FairSpec ==
  /\ Spec
  /\ \A j \in Jobs : WF_vars(Step(j))
  /\ \A k \in Handlers :
       WF_vars(\E j \in Kind(k), i \in Items : Deliver(j, i))

-----------------------------------------------------------------------------
(* A file is torn only where two jobs have had its temporary name at once, *)
(* and two handlers have only when a channel has dropped: no exception and *)
(* no crash alone leaves a half-written digest, page or blob.              *)
TornOnlyByOverlap ==
  /\ \A k \in Kinds : dest[k].there /\ ~dest[k].whole => k \in overlaps
  /\ overlaps \intersect Handlers \subseteq drops

(* sab.published tells of an item the rendering took in, and every digest  *)
(* and the vault show that rendering or a later one, whole, until a        *)
(* handler puts an older one back or tears the file; and that happens only *)
(* where brief's channel has dropped and two handlers were at work.  A     *)
(* crash, an exception between two digests and a handler that ends late    *)
(* are no such excuse.                                                     *)
AnnouncedIsShown ==
  /\ \A a \in announced :
       /\ a.item <= a.snap
       /\ \/ "brief" \in spoilt
          \/ /\ \A d \in 1..Digests : a.snap <= digests[d]
             /\ a.snap <= dest["brief"].v /\ dest["brief"].whole
  /\ spoilt \intersect Handlers \subseteq drops

(* The digests and the vault come to be rendered from all verdicts, unless *)
(* brief's consumer has died and is not started again, the handler of the  *)
(* last verdict has raised, or one that outlived its channel has put an    *)
(* older state back.  So does a page of the wiki, unless the run that had  *)
(* all verdicts before it left the page alone.                             *)
Rendered(k) ==
  k \in deployed /\ db > 0 =>
    \/ /\ dest[k].v = db /\ dest[k].whole
       /\ k = "brief" => \A d \in 1..Digests : digests[d] = db
    \/ k \in spoilt \/ <<k, db>> \in failed

EveryVerdictShows ==
  /\ <>[](deaf \/ Rendered("brief"))
  /\ <>[](db \in passed \/ Rendered("wiki"))

(* What _write_atomic's docstring says: no partial reads on concurrent     *)
(* GETs.                                                                   *)
NoPartialReads ==
  \A j \in Kind("get") : At(j, "serve") => dest["get"].whole
=============================================================================
