-------------------------------- MODULE Ingest --------------------------------
(***************************************************************************)
(* The ingest adapters (apps/ingest-imap and its siblings), the core they  *)
(* share (libs/ingest_common) and the scheduler that fires them.           *)
(*                                                                         *)
(* POST /run starts a task unless the adapter's in-flight flag is set.     *)
(* The task reads the adapter's sources (mailboxes, channels, a vault) one *)
(* after another, and hands each item it finds to persist_and_publish,     *)
(* which stores it and, if it was new, publishes item.ingested.  An        *)
(* exception anywhere ends the whole run; the next one starts over.        *)
(*                                                                         *)
(* get_item and put_item are synchronous and follow one another without an *)
(* await, so to the other tasks of the process they are one step, and a    *)
(* crash between them has stored nothing.  An item's id is a hash of its   *)
(* source type, url and title: two sources of an adapter can hold the same *)
(* item, two adapters cannot.  The bus is new in each run and is asked     *)
(* only about items this run has just stored, so its seen-set never bites  *)
(* and is left out.                                                        *)
(***************************************************************************)
EXTENDS Integers, Sequences

CONSTANTS
  Adapters,
  Scheduled,    \* adapters in the scheduler's table; others are fired by hand
  NewestFirst,  \* adapters that handle a source's newest message first
  Lenient,      \* adapters that skip a message they cannot parse
  Sources,
  SourcesOf,    \* of each adapter, the sources it is configured with, in order
  Down,         \* sources that raise whenever they are read
  Items,
  Mail,         \* of each source, the items it will hold, in order of arrival
  Unreadable,   \* items whose message cannot be parsed
  Unstorable,   \* items put_item raises on, and any of an adapter that never
                \* enters its store's context
  Window,       \* how many of a source's newest messages a run reads
  Tasks,        \* run tasks that can be alive at once
  None,         \* no adapter
  MaxFaults     \* bound on faults

ASSUME AdaptersAssumption ==
  /\ Scheduled \subseteq Adapters /\ NewestFirst \subseteq Adapters
  /\ Lenient \subseteq Adapters
  /\ None \notin Adapters
  /\ SourcesOf \in [Adapters -> Seq(Sources)]
ASSUME MailAssumption == Mail \in [Sources -> Seq(Items)]
ASSUME BoundsAssumption == Window \in Nat \ {0} /\ MaxFaults \in Nat

VARIABLES
  arrived,     \* of each source, how many of its messages have arrived
  inFlight,    \* of each adapter, the flag that POST /run checks
  runs,        \* of each task, the adapter it runs
  phase,       \* of each task, what it does next
  source,      \* of each task, the position of the source it is at
  batch,       \* of each task, what it has read and not yet handled
  articles,    \* items with a row
  faults,
  sent,        \* of each item, how many item.ingested the broker has taken
  cut          \* items whose put or publish was refused or cut off

locals  == <<runs, phase, source, batch>>
history == <<sent, cut>>
vars    == <<arrived, inFlight, locals, articles, faults, history>>

Phases == {"off", "fetch", "persist", "publish", "ending"}

At(r, p) == phase[r] = p
Go(r, p) == phase' = [phase EXCEPT ![r] = p]

Fault == faults < MaxFaults /\ faults' = faults + 1

Init ==
  /\ arrived = [s \in Sources |-> 0]
  /\ inFlight = [a \in Adapters |-> FALSE]
  /\ runs = [r \in Tasks |-> None] /\ phase = [r \in Tasks |-> "off"]
  /\ source = [r \in Tasks |-> 1] /\ batch = [r \in Tasks |-> <<>>]
  /\ articles = {} /\ faults = 0
  /\ sent = [i \in Items |-> 0] /\ cut = {}

-----------------------------------------------------------------------------
(* What a source holds, and what a run reads of it.                        *)

Arrive(s) ==
  /\ arrived[s] < Len(Mail[s])
  /\ arrived' = [arrived EXCEPT ![s] = @ + 1]
  /\ UNCHANGED <<inFlight, locals, articles, faults, history>>

InWindow(s, n) == n \in 1..arrived[s] /\ n + Window > arrived[s]

(* ids[-max_recent:], oldest first; other adapters are given newest first. *)
Recent(a, s) ==
  LET length == IF arrived[s] < Window THEN arrived[s] ELSE Window
  IN  [k \in 1..length |->
         Mail[s][IF a \in NewestFirst THEN arrived[s] + 1 - k
                                      ELSE arrived[s] - length + k]]

(* Reading s raises until the message that cannot be parsed has aged out.  *)
Obscured(a, s) ==
  \/ s \in Down
  \/ a \notin Lenient /\ \E n \in DOMAIN Mail[s] :
                             InWindow(s, n) /\ Mail[s][n] \in Unreadable

-----------------------------------------------------------------------------
(* POST /run.  A request that finds the flag set is answered 409 and does  *)
(* nothing.                                                                *)

(* Wrong variant of Free: no in-flight check.                              *)
FreeAnyway(a) == a \in Adapters

Free(a) == ~inFlight[a]

Post(a, r) ==
  /\ Free(a) /\ At(r, "off")
  /\ inFlight' = [inFlight EXCEPT ![a] = TRUE]
  /\ runs' = [runs EXCEPT ![r] = a]
  /\ Go(r, "fetch")
  /\ UNCHANGED <<arrived, source, batch, articles, faults, history>>

(* The task of r is gone, and with it what it held.                        *)
Cleared(f, gone, v) == [r \in Tasks |-> IF r \in gone THEN v ELSE f[r]]

Leave(gone) ==
  /\ runs' = Cleared(runs, gone, None) /\ phase' = Cleared(phase, gone, "off")
  /\ source' = Cleared(source, gone, 1) /\ batch' = Cleared(batch, gone, <<>>)

(* Wrong variant of End: the flag is not cleared.                          *)
EndLocked(r) ==
  /\ At(r, "ending") /\ Leave({r})
  /\ UNCHANGED <<arrived, inFlight, articles, faults, history>>

(* The finally clause of _wrap.                                            *)
End(r) ==
  /\ At(r, "ending")
  /\ inFlight' = [inFlight EXCEPT ![runs[r]] = FALSE]
  /\ Leave({r})
  /\ UNCHANGED <<arrived, articles, faults, history>>

-----------------------------------------------------------------------------
(* The adapter's loop over its sources.                                    *)

Here(r) == SourcesOf[runs[r]][source[r]]
More(r) == source[r] <= Len(SourcesOf[runs[r]])

CanRead(r) == More(r) /\ ~Obscured(runs[r], Here(r))

Fetch(r) ==
  /\ At(r, "fetch") /\ CanRead(r)
  /\ batch' = [batch EXCEPT ![r] = Recent(runs[r], Here(r))]
  /\ Go(r, "persist")
  /\ UNCHANGED <<arrived, inFlight, runs, source, articles, faults, history>>

(* yt-dlp timed out, or the POP3 server said -ERR: nothing is read, and    *)
(* the run goes on to the next source.                                     *)
FetchNothing(r) ==
  /\ At(r, "fetch") /\ CanRead(r) /\ Fault
  /\ batch' = [batch EXCEPT ![r] = <<>>]
  /\ Go(r, "persist")
  /\ UNCHANGED <<arrived, inFlight, runs, source, articles, history>>

FetchRaises(r) ==
  /\ At(r, "fetch") /\ More(r)
  /\ \/ ~CanRead(r) /\ UNCHANGED faults
     \/ CanRead(r) /\ Fault
  /\ Go(r, "ending")
  /\ UNCHANGED <<arrived, inFlight, runs, source, batch, articles, history>>

NextSource(r) ==
  /\ At(r, "persist") /\ batch[r] = <<>>
  /\ source' = [source EXCEPT ![r] = @ + 1]
  /\ Go(r, "fetch")
  /\ UNCHANGED <<arrived, inFlight, runs, batch, articles, faults, history>>

Return(r) ==
  /\ At(r, "fetch") /\ ~More(r)
  /\ Go(r, "ending")
  /\ UNCHANGED <<arrived, inFlight, runs, source, batch, articles, faults, history>>

-----------------------------------------------------------------------------
(* persist_and_publish.                                                    *)

(* Wrong variant of IsNew: put_item's return value, None, taken for newness. *)
AlwaysNew(i) == i \in Items

IsNew(i) == i \notin articles

Drop(r)  == batch' = [batch EXCEPT ![r] = Tail(@)]

(* A clip that cannot be parsed is logged and left out.                    *)
Skip(r) ==
  /\ At(r, "persist") /\ batch[r] # <<>> /\ Head(batch[r]) \in Unreadable
  /\ Drop(r)
  /\ UNCHANGED <<arrived, inFlight, runs, phase, source, articles, faults, history>>

(* The next item of the batch is one to store.                             *)
Ready(r) == /\ At(r, "persist") /\ batch[r] # <<>>
            /\ Head(batch[r]) \notin Unreadable

CanStore(r) == Head(batch[r]) \notin Unstorable

PutItem(i) == articles' = articles \union {i}

(* Wrong variant of Persist: get_item after put_item finds every item.     *)
PersistThenGet(r) ==
  /\ Ready(r) /\ CanStore(r)
  /\ PutItem(Head(batch[r])) /\ Drop(r)
  /\ UNCHANGED <<arrived, inFlight, runs, phase, source, faults, history>>

(* Wrong variant of Persist: the item is taken off before it is published. *)
PersistDropsFirst(r) ==
  /\ Ready(r) /\ CanStore(r)
  /\ PutItem(Head(batch[r])) /\ Drop(r)
  /\ IF IsNew(Head(batch[r])) THEN Go(r, "publish") ELSE UNCHANGED phase
  /\ UNCHANGED <<arrived, inFlight, runs, source, faults, history>>

Persist(r) ==
  /\ Ready(r) /\ CanStore(r)
  /\ PutItem(Head(batch[r]))
  /\ \/ IsNew(Head(batch[r])) /\ Go(r, "publish") /\ UNCHANGED batch
     \/ ~IsNew(Head(batch[r])) /\ Drop(r) /\ UNCHANGED phase
  /\ UNCHANGED <<arrived, inFlight, runs, source, faults, history>>

(* get_item or put_item raises; a commit that is cut off may have stored   *)
(* the row.                                                                *)
StoreRaises(r) ==
  /\ Ready(r)
  /\ \/ ~CanStore(r) /\ UNCHANGED <<articles, cut, faults>>
     \/ CanStore(r) /\ Fault /\ UNCHANGED <<articles, cut>>
     \/ /\ CanStore(r) /\ Fault /\ PutItem(Head(batch[r]))
        /\ cut' = IF IsNew(Head(batch[r])) THEN cut \union {Head(batch[r])} ELSE cut
  /\ Go(r, "ending")
  /\ UNCHANGED <<arrived, inFlight, runs, source, batch, sent>>

Sent(r) == sent' = [sent EXCEPT ![Head(batch[r])] = @ + 1]

PublishConfirmed(r) ==
  /\ At(r, "publish")
  /\ Sent(r) /\ Drop(r) /\ Go(r, "persist")
  /\ UNCHANGED <<arrived, inFlight, runs, source, articles, faults, cut>>

(* The broker refuses, or the connection drops before it confirms.         *)
PublishRaises(r) ==
  /\ At(r, "publish") /\ Fault
  /\ Sent(r) \/ UNCHANGED sent
  /\ cut' = cut \union {Head(batch[r])}
  /\ Go(r, "ending")
  /\ UNCHANGED <<arrived, inFlight, runs, source, batch, articles>>

(* The adapter's process dies; the broker may have taken what it was       *)
(* publishing.                                                             *)
RunsOf(a) == {r \in Tasks : runs[r] = a}

Publishing(a) == {Head(batch[r]) : r \in {q \in RunsOf(a) : At(q, "publish")}}

Crash(a) ==
  /\ RunsOf(a) # {} /\ Fault
  /\ inFlight' = [inFlight EXCEPT ![a] = FALSE]
  /\ \E taken \in SUBSET Publishing(a) :
       sent' = [i \in Items |-> IF i \in taken THEN sent[i] + 1 ELSE sent[i]]
  /\ cut' = cut \union Publishing(a)
  /\ Leave(RunsOf(a))
  /\ UNCHANGED <<arrived, articles>>

-----------------------------------------------------------------------------
RunStep(r) ==
  \/ Fetch(r) \/ FetchNothing(r) \/ FetchRaises(r) \/ NextSource(r) \/ Return(r)
  \/ Skip(r) \/ Persist(r) \/ StoreRaises(r) \/ PublishConfirmed(r) \/ PublishRaises(r)
  \/ End(r)

Next ==
  \/ \E s \in Sources : Arrive(s)
  \/ \E a \in Adapters, r \in Tasks : Post(a, r)
  \/ \E r \in Tasks : RunStep(r)
  \/ \E a \in Adapters : Crash(a)

Spec == Init /\ [][Next]_vars

(* The scheduler goes on firing, so it finds an idle adapter in the end;   *)
(* sources, database and broker answer, if only with an error.             *)
Fairness ==
  /\ \A a \in Scheduled : WF_vars(\E r \in Tasks : Post(a, r))
  /\ \A r \in Tasks : WF_vars(RunStep(r))

FairSpec == Spec /\ Fairness

-----------------------------------------------------------------------------
(* Every variable keeps its type.                                          *)
TypeOK ==
  /\ arrived \in [Sources -> Nat] /\ \A s \in Sources : arrived[s] <= Len(Mail[s])
  /\ inFlight \in [Adapters -> BOOLEAN]
  /\ runs \in [Tasks -> Adapters \union {None}]
  /\ phase \in [Tasks -> Phases]
  /\ \A r \in Tasks : At(r, "off") <=> runs[r] = None
  /\ source \in [Tasks -> Nat \ {0}]
  /\ batch \in [Tasks -> Seq(Items)]
  /\ \A r \in Tasks : At(r, "publish") => batch[r] # <<>>
  /\ articles \subseteq Items /\ faults \in 0..MaxFaults
  /\ sent \in [Items -> Nat] /\ cut \subseteq Items

(* An adapter has at most one run, and its flag is set exactly while it    *)
(* has one: two POSTs cannot both pass the gate, and no way a run can end  *)
(* wedges the lock (trigger.py, D-01).                                     *)
LockMatchesRun ==
  /\ \A r, q \in Tasks : runs[r] = runs[q] /\ runs[r] # None => r = q
  /\ \A a \in Adapters : inFlight[a] <=> \E r \in Tasks : runs[r] = a

(* However often an item is read, by runs that failed half-way or from two *)
(* sources, the broker takes at most one item.ingested of it (R6), and     *)
(* only once it has its row: triage drops the event of an unknown item.    *)
AnnouncedAtMostOnce ==
  \A i \in Items : sent[i] <= 1 /\ (sent[i] = 1 => i \in articles)

(* A stored item has been announced or is about to be.  What persist.py    *)
(* cannot promise is named: a run that was refused, cut off or killed      *)
(* between the row and the event leaves an item no later run announces.    *)
NoSilentItem ==
  \A i \in articles :
    \/ sent[i] > 0 \/ i \in cut
    \/ \E r \in Tasks : At(r, "publish") /\ Head(batch[r]) = i

-----------------------------------------------------------------------------
(* Liveness.                                                               *)

Stored(s, n)     == Mail[s][n] \in articles
Overtaken(s, n)  == n + Window <= arrived[s]
Skipped(a, s, n) == a \in Lenient /\ Mail[s][n] \in Unreadable

(* What becomes of message n by itself.                                    *)
Over(a, s, n) == \/ arrived[s] < n \/ Stored(s, n) \/ Overtaken(s, n)
                 \/ Skipped(a, s, n)

(* In s, something stands before message n.                                *)
Blocked(a, s, n) ==
  \/ Obscured(a, s)
  \/ \E m \in DOMAIN Mail[s] :
       /\ InWindow(s, m) /\ Mail[s][m] \in Unstorable
       /\ m = n \/ (IF a \in NewestFirst THEN m > n ELSE m < n)

(* No run gets past s.                                                     *)
Dead(a, s) == Obscured(a, s) \/ \E m \in DOMAIN Mail[s] :
                                  InWindow(s, m) /\ Mail[s][m] \in Unstorable

(* In the end every message of a scheduled adapter is stored, unless a     *)
(* run's window passed over it, its adapter skips it, or something that raises on every run and  *)
(* is still in its window stands before it.  No fault of a bounded number, *)
(* at any point of any run, and no crash makes an exception to this.       *)
MailIsStored ==
  \A a \in Scheduled : \A k \in DOMAIN SourcesOf[a] :
    LET s == SourcesOf[a][k] IN
    \A n \in DOMAIN Mail[s] :
      <>[](Over(a, s, n) \/ Blocked(a, s, n)
           \/ \E j \in 1..(k - 1) : Dead(a, SourcesOf[a][j]))

(* "a transient POP3 outage must NOT crash the whole ingest run"           *)
(* (imap_ingest.py:249-250): what stands in one source's way does not      *)
(* keep the run from the next source.                                      *)
OutageIsLocal ==
  \A a \in Scheduled : \A k \in DOMAIN SourcesOf[a] :
    LET s == SourcesOf[a][k] IN
    \A n \in DOMAIN Mail[s] :
      <>[](Over(a, s, n) \/ Blocked(a, s, n))
=============================================================================
