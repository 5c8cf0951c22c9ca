------------------------------- MODULE MvpPoller -------------------------------
(***************************************************************************)
(* The poller of the minimal deployment (apps/mvp/poller.py): one process  *)
(* that reads FreshRSS, scores, stores, alerts and writes notes, with no   *)
(* bus in between.  The only progress it keeps is since_id, the highest    *)
(* Fever id it has finished with, in memory and in a state file.           *)
(*                                                                         *)
(* The health server that runs beside the loop touches none of this.  The  *)
(* alerting lane is called in line: a call claims, counts, posts again and *)
(* again, and returns normally also where nothing reached ntfy.  No digest *)
(* runs here and no bus takes the dead letter, so a suppressed or buried   *)
(* alert stays in its row.                                                 *)
(***************************************************************************)
EXTENDS Integers, Sequences, FiniteSets

CONSTANTS
  Items,      \* articles
  ItemOf,     \* of each Fever id, in order, the article: ids can share one
  CatI,       \* articles a readable answer of the LLM makes CAT I
  Poison,     \* articles put_item always raises on
  PageSize,   \* how many items FreshRSS answers with
  Cap,        \* how many alerts the throttle lets into its window
  Attempts,   \* how often the lane posts an alert before it gives it up
  None,
  MaxFaults   \* bound on faults

Ids == DOMAIN ItemOf

ASSUME ItemsAssumption ==
  ItemOf \in Seq(Items) /\ CatI \subseteq Items /\ Poison \subseteq Items
ASSUME BoundsAssumption ==
  PageSize \in Nat \ {0} /\ Cap \in Nat /\ Attempts \in Nat \ {0} /\ MaxFaults \in Nat
ASSUME NoneAssumption == None \notin {"delivered", "suppressed", "dead"}

VARIABLES
  arrived,   \* how many Fever ids FreshRSS has given out
  since,     \* since_id, in memory
  file,      \* and in the state file
  batch,     \* what is left of the page, lowest id first
  phase,
  verdict,   \* whether the item at hand was scored CAT I
  stored,    \* articles with a row
  enriched,  \* with an enrichment
  claims,    \* whose row of alert_state is younger than the TTL
  recent,    \* whose row lies in the throttle's window, not suppressed
  fate,      \* what the row says became of the alert
  attempt,   \* posts that have failed of the alert at hand
  fresh,     \* articles this cycle has enriched: new_items
  noted,     \* articles with a note in the vault
  faults,
  pushed,    \* how often ntfy has taken each article
  doubted,   \* articles of which a post took effect but was taken for failed
  upset,     \* articles whose processing has failed, been cut off or misjudged
  failed     \* Fever ids whose processing has raised

rows    == <<stored, enriched>>
alerts  == <<claims, recent, fate, attempt>>
history == <<pushed, doubted, upset, failed>>
vars    == <<arrived, since, file, batch, phase, verdict, rows, alerts, fresh,
             noted, faults, history>>

Lane   == {"alert", "judge", "post", "mark", "bury"}
Phases == {"asleep", "check", "put", "enrich", "advance", "notes"} \union Lane
Fates  == {"delivered", "suppressed", "dead"}

Fault == faults < MaxFaults /\ faults' = faults + 1

Init ==
  /\ arrived = 0 /\ since = 0 /\ file = 0 /\ batch = <<>> /\ phase = "asleep"
  /\ verdict = FALSE
  /\ stored = {} /\ enriched = {} /\ fresh = {} /\ noted = {}
  /\ claims = {} /\ recent = {} /\ fate = [i \in Items |-> None] /\ attempt = 0
  /\ faults = 0
  /\ pushed = [i \in Items |-> 0] /\ doubted = {} /\ upset = {} /\ failed = {}

Id   == Head(batch)
Item == ItemOf[Id]

Arrive ==
  /\ arrived < Len(ItemOf) /\ arrived' = arrived + 1
  /\ UNCHANGED <<since, file, batch, phase, verdict, rows, alerts, fresh, noted, faults,
                 history>>

-----------------------------------------------------------------------------
(* fetch_new_items.  A fetch that raises ends the cycle before it began.   *)

Least(a, b) == IF a < b THEN a ELSE b

Poll ==
  /\ phase = "asleep" /\ since < arrived
  /\ batch' = [k \in 1..Least(PageSize, arrived - since) |-> since + k]
  /\ phase' = "check"
  /\ UNCHANGED <<arrived, since, file, verdict, rows, alerts, fresh, noted, faults,
                 history>>

(* On to the next item, or to the notes.                                   *)
Proceed ==
  /\ batch' = Tail(batch)
  /\ phase' = IF Len(batch) > 1 THEN "check" ELSE "notes"

(* Wrong variant of Known: since_id alone tells old from new.              *)
KnownNever == Id <= since

(* _kept: get_item finds a row.                                            *)
Known == Item \in stored

Skip ==
  /\ phase = "check" /\ Known
  /\ phase' = "advance"
  /\ UNCHANGED <<arrived, since, file, batch, verdict, rows, alerts, fresh, noted,
                 faults, history>>

(* An answer that cannot be read is a verdict: nothing, score 0.           *)
Score ==
  /\ phase = "check" /\ ~Known
  /\ \/ verdict' = (Item \in CatI) /\ UNCHANGED <<faults, upset>>
     \/ Fault /\ verdict' = FALSE /\ upset' = upset \union {Item}
  /\ phase' = "put"
  /\ UNCHANGED <<arrived, since, file, batch, rows, alerts, fresh, noted,
                 pushed, doubted, failed>>

PutItem ==
  /\ phase = "put" /\ Item \notin Poison
  /\ stored' = stored \union {Item}
  /\ phase' = "enrich"
  /\ UNCHANGED <<arrived, since, file, batch, verdict, enriched, alerts, fresh,
                 noted, faults, history>>

PutEnrichment ==
  /\ phase = "enrich"
  /\ enriched' = enriched \union {Item}
  /\ fresh' = fresh \union {Item}
  /\ phase' = IF verdict THEN "alert" ELSE "advance"
  /\ UNCHANGED <<arrived, since, file, batch, verdict, stored, alerts, noted,
                 faults, history>>

-----------------------------------------------------------------------------
(* handle_verdict_ready with no bus.  A claim whose row is younger than    *)
(* the TTL is lost.                                                        *)
Claim ==
  /\ phase = "alert"
  /\ IF Item \in claims
     THEN phase' = "advance" /\ UNCHANGED <<claims, recent, fate>>
     ELSE /\ phase' = "judge"
          /\ claims' = claims \union {Item} /\ recent' = recent \union {Item}
          /\ fate' = [fate EXCEPT ![Item] = None]
  /\ UNCHANGED <<arrived, since, file, batch, verdict, rows, attempt, fresh,
                 noted, faults, history>>

WithinCap == Cardinality(recent) <= Cap

Pass ==
  /\ phase = "judge" /\ WithinCap
  /\ phase' = "post" /\ attempt' = 0
  /\ UNCHANGED <<arrived, since, file, batch, verdict, rows, claims, recent, fate,
                 fresh, noted, faults, history>>

(* Wrong variant of Suppress: the alert is only left out.                  *)
SuppressUnmarked ==
  /\ phase = "judge" /\ ~WithinCap
  /\ phase' = "advance"
  /\ UNCHANGED <<arrived, since, file, batch, verdict, rows, alerts, fresh, noted,
                 faults, history>>

Suppress ==
  /\ phase = "judge" /\ ~WithinCap
  /\ fate' = [fate EXCEPT ![Item] = "suppressed"] /\ recent' = recent \ {Item}
  /\ phase' = "advance"
  /\ UNCHANGED <<arrived, since, file, batch, verdict, rows, claims, attempt,
                 fresh, noted, faults, history>>

Post ==
  /\ phase = "post"
  /\ pushed' = [pushed EXCEPT ![Item] = @ + 1]
  /\ phase' = "mark"
  /\ UNCHANGED <<arrived, since, file, batch, verdict, rows, alerts, fresh, noted,
                 faults, doubted, upset, failed>>

(* A timeout is a failure, also where the post has taken effect.           *)
PostFails ==
  /\ phase = "post" /\ Fault
  /\ \/ UNCHANGED <<pushed, doubted>>
     \/ /\ pushed' = [pushed EXCEPT ![Item] = @ + 1]
        /\ doubted' = doubted \union {Item}
  /\ attempt' = attempt + 1
  /\ phase' = IF attempt' < Attempts THEN "post" ELSE "bury"
  /\ UNCHANGED <<arrived, since, file, batch, verdict, rows, claims, recent, fate,
                 fresh, noted, upset, failed>>

MarkDelivered ==
  /\ phase = "mark"
  /\ fate' = [fate EXCEPT ![Item] = "delivered"]
  /\ phase' = "advance"
  /\ UNCHANGED <<arrived, since, file, batch, verdict, rows, claims, recent,
                 attempt, fresh, noted, faults, history>>

(* dead_letter: without a bus, the audit and the row are all it leaves.    *)
Bury ==
  /\ phase = "bury"
  /\ fate' = [fate EXCEPT ![Item] = "dead"]
  /\ phase' = "advance"
  /\ UNCHANGED <<arrived, since, file, batch, verdict, rows, claims, recent,
                 attempt, fresh, noted, faults, history>>

(* Rows leave the window, and outlive the TTL.                             *)
WindowPasses ==
  /\ recent # {}
  /\ \E left \in SUBSET recent : left # recent /\ recent' = left
  /\ UNCHANGED <<arrived, since, file, batch, phase, verdict, rows, claims, fate,
                 attempt, fresh, noted, faults, history>>

TTLPasses(i) ==
  /\ i \in claims \ recent
  /\ claims' = claims \ {i}
  /\ UNCHANGED <<arrived, since, file, batch, phase, verdict, rows, recent, fate,
                 attempt, fresh, noted, faults, history>>

-----------------------------------------------------------------------------
Greatest(a, b) == IF a > b THEN a ELSE b

Advance ==
  /\ phase = "advance"
  /\ since' = Greatest(since, Id) /\ file' = since'
  /\ Proceed
  /\ UNCHANGED <<arrived, verdict, rows, alerts, fresh, noted, faults, history>>

-----------------------------------------------------------------------------
(* The except clause of an item: roll back, log, go on with the next.      *)

(* Wrong variant of GiveUp: the cycle ends, and the next one starts over. *)
GiveUpCycle ==
  /\ failed' = failed \union {Id} /\ upset' = upset \union {Item}
  /\ batch' = <<>> /\ phase' = "notes"

GiveUp ==
  /\ failed' = failed \union {Id} /\ upset' = upset \union {Item}
  /\ Proceed

(* What the calls before the one that raised have written stays.           *)
ItemRaises ==
  /\ phase \in {"check", "put", "enrich"} \union Lane
  /\ IF phase = "put" /\ Item \in Poison THEN UNCHANGED faults ELSE Fault
  /\ GiveUp
  /\ UNCHANGED <<arrived, since, file, verdict, rows, alerts, fresh, noted, pushed,
                 doubted>>

(* The state file cannot be written: since_id has moved all the same.      *)
AdvanceRaises ==
  /\ phase = "advance" /\ Fault
  /\ since' = Greatest(since, Id)
  /\ GiveUp
  /\ UNCHANGED <<arrived, file, verdict, rows, alerts, fresh, noted, pushed,
                 doubted>>

-----------------------------------------------------------------------------
(* _write_notes, of this cycle's items only.                               *)

WriteNotes ==
  /\ phase = "notes"
  /\ \/ noted' = noted \union fresh /\ UNCHANGED faults
     \/ Fault /\ \E done \in SUBSET fresh : noted' = noted \union done
  /\ fresh' = {} /\ phase' = "asleep"
  /\ UNCHANGED <<arrived, since, file, batch, verdict, rows, alerts, history>>

(* The process dies, or rollback() raises in an except clause and ends it. *)
Crash ==
  /\ phase # "asleep" /\ Fault
  /\ upset' = IF batch = <<>> THEN upset ELSE upset \union {Item}
  /\ since' = file /\ batch' = <<>> /\ fresh' = {} /\ phase' = "asleep"
  /\ UNCHANGED <<arrived, file, verdict, rows, alerts, noted, pushed, doubted,
                 failed>>

-----------------------------------------------------------------------------
Work == \/ Poll \/ Skip \/ Score \/ PutItem \/ PutEnrichment
        \/ Claim \/ Pass \/ Suppress \/ Post \/ PostFails \/ MarkDelivered \/ Bury
        \/ Advance \/ ItemRaises \/ WriteNotes

Next == \/ Arrive \/ Work \/ AdvanceRaises \/ Crash
        \/ WindowPasses \/ \E i \in Items : TTLPasses(i)

Spec == Init /\ [][Next]_vars

(* The loop goes on for ever; nothing makes an article arrive.             *)
FairSpec == Spec /\ WF_vars(Work)

-----------------------------------------------------------------------------
(* Every variable has its type, and the page lies beyond since_id.         *)
TypeOK ==
  /\ arrived \in 0..Len(ItemOf)
  /\ since \in 0..arrived /\ file \in 0..since
  /\ batch \in Seq(Ids) /\ phase \in Phases /\ verdict \in BOOLEAN
  /\ phase \in Phases \ {"asleep", "notes"} <=> batch # <<>>
  /\ enriched \subseteq stored /\ stored \subseteq Items
  /\ claims \subseteq Items /\ recent \subseteq claims
  /\ fate \in [Items -> Fates \union {None}] /\ attempt \in 0..Attempts
  /\ fresh \subseteq enriched /\ noted \subseteq enriched
  /\ faults \in 0..MaxFaults
  /\ pushed \in [Items -> Nat] /\ doubted \subseteq Items
  /\ upset \subseteq Items /\ failed \subseteq Ids

(* The poller hands an article to the lane at most once: over failures,    *)
(* crashes, restarts that fetch it again after the TTL, and two Fever ids  *)
(* that share it, ntfy takes it twice only where the lane posted again     *)
(* because a post that had taken effect came back as failed, and never     *)
(* more often than the lane's attempts.                                    *)
PushedOnce == \A i \in Items : pushed[i] <= IF i \in doubted THEN Attempts ELSE 1

(* What since_id has passed is scored, and if it is CAT I its row says     *)
(* where the alert went: delivered, and then ntfy took it, or suppressed   *)
(* by the throttle, or given up after the attempts, which no one here      *)
(* reads.  Only an article whose processing once raised, was cut off, or   *)
(* met an unreadable answer can be passed with less.                       *)
Complete(i) ==
  /\ i \in enriched
  /\ i \in CatI => fate[i] # None /\ (fate[i] = "delivered" => pushed[i] > 0)

NoSilentGap ==
  \A n \in Ids : n <= since /\ (batch = <<>> \/ n < Id) =>
    Complete(ItemOf[n]) \/ ItemOf[n] \in upset

(* The ids next after since_id fill a page, and each of them always fails: *)
(* since_id stays, and every cycle fetches this page again.                *)
Stuck == \A n \in (since + 1)..(since + PageSize) : n \in Ids /\ ItemOf[n] \in Poison

(* Every article that arrives is in the end scored and, if CAT I, its      *)
(* alert resolved, unless it is upset: fewer than a page of failing ones   *)
(* hold up nothing behind them, and only a page full of them does.         *)
EveryItemHandled ==
  \A n \in Ids :
    arrived >= n ~> \/ Complete(ItemOf[n]) \/ ItemOf[n] \in upset
                   \/ (Stuck /\ n > since)

(* What the comment on the except clause says: since_id is not advanced on *)
(* failure, so the item is fetched again.                                  *)
FailedIsRefetched ==
  \A n \in failed : since < n \/ Complete(ItemOf[n])
=============================================================================
