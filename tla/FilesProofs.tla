------------------------------ MODULE FilesProofs ------------------------------
(***************************************************************************)
(* What Files guarantees for any jobs, verdicts, faults, days and calls:   *)
(* when a file may be torn, and what a sab.published that went out means.  *)
(***************************************************************************)
EXTENDS Files, TLAPS

-----------------------------------------------------------------------------
(* Types.                                                                  *)

Phases == {"idle", "read", "check", "digest", "cut", "open", "write", "rename",
           "publish", "serve", "end"}
File   == [v : Nat, whole : BOOLEAN, there : BOOLEAN]

JobsTyped ==
  /\ phase \in [Jobs -> Phases]
  /\ item \in [Jobs -> Nat] /\ snap \in [Jobs -> Nat]
  /\ ghost \subseteq Jobs

FilesTyped ==
  /\ fd \in [Jobs -> {"none", "tmp", "dest", "gone"}] /\ mixed \subseteq Jobs
  /\ tmp \in [Kinds -> File] /\ dest \in [Kinds -> File]
  /\ digests \in [1..Digests -> Nat]

WorldTyped ==
  /\ db \in Nat /\ queue \in [Handlers -> SUBSET Nat]
  /\ announced \subseteq [item : Nat, snap : Nat]
  /\ overlaps \subseteq Kinds /\ drops \subseteq Kinds

Typed == JobsTyped /\ FilesTyped /\ WorldTyped

-----------------------------------------------------------------------------
(* Who has the temporary name.  Until a channel drops a kind has one       *)
(* handler at most, none of them a ghost; until two jobs of a kind meet in *)
(* write or rename, the one that writes has the temporary file to itself   *)
(* (put_blob of a job that raises may have unlinked it under it), and what *)
(* the one that renames finds there is whole.                              *)

AtFile == {"write", "rename"}

OneHandler ==
  \A i \in Jobs : KindOf[i] \in Handlers /\ KindOf[i] \notin drops =>
    /\ i \notin ghost
    /\ \A j \in Jobs : KindOf[j] = KindOf[i] /\ phase[i] # "idle" /\ phase[j] # "idle"
                       => i = j

OneWriter ==
  \A i \in Jobs : KindOf[i] \notin overlaps =>
    /\ i \notin mixed
    /\ \A j \in Jobs :
         KindOf[j] = KindOf[i] /\ phase[i] \in AtFile /\ phase[j] \in AtFile => i = j
    /\ phase[i] = "write" =>
         fd[i] = "tmp" \/ (fd[i] = "gone" /\ ~tmp[KindOf[i]].there)
    /\ phase[i] = "rename" /\ tmp[KindOf[i]].there => tmp[KindOf[i]].whole

TornInv == OneHandler /\ OneWriter /\ TornOnlyByOverlap

-----------------------------------------------------------------------------
(* What a job has in hand once it has taken its rows.                      *)

Rendering == {"digest", "cut", "open", "write", "rename", "publish"}

Bounded ==
  /\ \A k \in Handlers : \A x \in queue[k] : x <= db
  /\ \A j \in Jobs : item[j] <= db /\ snap[j] <= db
  /\ \A k \in Kinds : tmp[k].v <= db /\ dest[k].v <= db
  /\ \A d \in 1..Digests : digests[d] <= db

OwnPhases ==
  \A j \in Jobs : /\ phase[j] \in {"digest", "cut", "publish"} => KindOf[j] = "brief"
                  /\ phase[j] \in {"check", "serve"} => KindOf[j] \notin Handlers

TookItsItem ==
  \A j \in Kind("brief") : phase[j] \in Rendering => item[j] <= snap[j]

(* While nothing is spoilt the files only grow, so what a handler has      *)
(* written, and what has been announced of it, they still show.            *)
DigestsShow(v) == \A d \in 1..Digests : v <= digests[d]
VaultShows(v)  == v <= dest["brief"].v /\ dest["brief"].whole

Filed == {"open", "write", "rename", "publish"}

Ledger ==
  "brief" \notin spoilt =>
    /\ \A j \in Kind("brief") :
         /\ phase[j] \in Filed => DigestsShow(snap[j])
         /\ phase[j] = "publish" => VaultShows(snap[j])
    /\ \A a \in announced : DigestsShow(a.snap) /\ VaultShows(a.snap)

(* Until its channel drops, the one handler of a kind has later rows than  *)
(* its files.                                                              *)
NoneLater(j) ==
  /\ dest[KindOf[j]].v <= snap[j]
  /\ KindOf[j] = "brief" => \A d \in 1..Digests : digests[d] <= snap[j]

Alone(j) == KindOf[j] \in Handlers /\ KindOf[j] \notin drops

Fresh ==
  \A j \in Jobs : Alone(j) =>
    /\ phase[j] \in Rendering => NoneLater(j)
    /\ phase[j] \in AtFile => tmp[KindOf[j]].v = snap[j]

AnnouncedTook == \A a \in announced : a.item <= a.snap
SpoiltByDrop  == spoilt \intersect Handlers \subseteq drops

ShownInv == /\ Bounded /\ OwnPhases /\ TookItsItem /\ AnnouncedTook
            /\ Ledger /\ Fresh /\ SpoiltByDrop

-----------------------------------------------------------------------------
(* Every step keeps the types.                                             *)

(* Jobs that go leave their hands empty and take no other job's place.     *)
LEMMA GoneTyped ==
  ASSUME JobsTyped, mixed \subseteq Jobs, NEW js, Gone(js)
  PROVE  JobsTyped' /\ mixed' \subseteq Jobs
BY DEF JobsTyped, Gone, Phases

LEMMA MovedTyped ==
  ASSUME FilesTyped, NEW k, NEW f \in {"none", "tmp", "dest", "gone"}
  PROVE  Moved(k, f) \in [Jobs -> {"none", "tmp", "dest", "gone"}]
BY DEF FilesTyped, Moved

LEMMA KindIs == \A j \in Jobs : KindOf[j] \in Kinds
BY JobsAssumption

(* However far brief's handler gets with its digests.                      *)
LEMMA DigestsGo ==
  ASSUME NEW j, WriteDigests(j) \/ DigestsCut(j)
  PROVE  \E n \in 0..Digests :
           /\ digests' = Written(j, n)
           /\ SpoiltBy("brief", \E d \in 1..n : snap[j] < digests[d])
<1>1. Digests \in 0..Digests
  BY BoundsAssumption
<1> QED BY <1>1 DEF WriteDigests, DigestsCut

LEMMA ContentTyped ==
  /\ Absent \in File
  /\ \A v \in Nat, whole \in BOOLEAN : Content(v, whole) \in File
BY DEF Absent, Content, File

LEMMA TypedStep == Typed /\ [Next]_vars => Typed'
<1> SUFFICES ASSUME Typed, [Next]_vars PROVE Typed'
  OBVIOUS
<1> USE DEF Typed
<1>1. CASE CommitVerdict
  BY <1>1 DEF CommitVerdict, JobsTyped, FilesTyped, WorldTyped, job, work, files, shown,
              history
<1>2. CASE DayPasses
  BY <1>2 DEF DayPasses, JobsTyped, FilesTyped, WorldTyped, messages, job, work, files,
              history
<1>3. ASSUME NEW j \in Jobs, Call(j) PROVE Typed'
  BY <1>3 DEF Call, Go, JobsTyped, FilesTyped, WorldTyped, messages, work, files, shown,
              history, Phases
<1>4. ASSUME NEW j \in Jobs, NEW i \in Items, Deliver(j, i) PROVE Typed'
  <2>1. i \in Nat
    BY BoundsAssumption DEF Items
  <2>2. JobsTyped'
    BY <1>4, <2>1 DEF Deliver, Go, JobsTyped, Phases
  <2>3. FilesTyped' /\ WorldTyped'
    BY <1>4 DEF Deliver, FilesTyped, WorldTyped, files, shown, history
  <2> QED BY <2>2, <2>3
<1>5. ASSUME NEW j \in Jobs, Check(j) \/ Serve(j) PROVE Typed'
  BY <1>5 DEF Check, Serve, Go, JobsTyped, FilesTyped, WorldTyped, messages, work, files,
              shown, history, Phases
<1>6. ASSUME NEW j \in Jobs, FetchAll(j) \/ GeneratePage(j) \/ RenderSab(j) PROVE Typed'
  BY <1>6 DEF FetchAll, GeneratePage, RenderSab, Snapshot, Go, JobsTyped, FilesTyped,
              WorldTyped, messages, files, shown, history, Phases
<1>7. ASSUME NEW j \in Jobs, WriteDigests(j) \/ DigestsCut(j) PROVE Typed'
  <2>1. \A n \in 0..Digests : Written(j, n) \in [1..Digests -> Nat]
    BY DEF Written, JobsTyped, FilesTyped
  <2>2. digests' \in [1..Digests -> Nat]
    BY <1>7, <2>1, DigestsGo
  <2> QED BY <1>7, <2>2 DEF WriteDigests, DigestsCut, Go, JobsTyped, FilesTyped, WorldTyped,
                            messages, work, files, Phases
<1>17. ASSUME NEW j \in Jobs, PassOver(j) PROVE Typed'
  BY <1>17 DEF PassOver, Go, JobsTyped, FilesTyped, WorldTyped, messages, work, files, shown,
               Phases
<1>8. ASSUME NEW j \in Jobs, Open(j) PROVE Typed'
  <2>1. JobsTyped'
    BY <1>8 DEF Open, Go, JobsTyped, work, Phases
  <2>2. Content(snap[j], FALSE) \in File
    BY ContentTyped DEF JobsTyped
  <2>3. mixed' \subseteq Jobs
    BY <1>8 DEF Open, FilesTyped, Writing, Kind
  <2>4. FilesTyped'
    BY <1>8, <2>2, <2>3 DEF Open, FilesTyped, shown
  <2>5. WorldTyped'
    BY <1>8, KindIs DEF Open, WorldTyped, messages
  <2> QED BY <2>1, <2>4, <2>5
<1>9. ASSUME NEW j \in Jobs, Write(j) PROVE Typed'
  <2>1. JobsTyped'
    BY <1>9 DEF Write, Go, JobsTyped, work, Phases
  <2>2. PICK whole \in BOOLEAN :
          LET f == Content(snap[j], whole) IN
          /\ tmp' = IF fd[j] = "tmp" THEN [tmp EXCEPT ![KindOf[j]] = f] ELSE tmp
          /\ dest' = IF fd[j] = "dest" THEN [dest EXCEPT ![KindOf[j]] = f] ELSE dest
    BY <1>9 DEF Write, Outcomes
  <2>3. Content(snap[j], whole) \in File
    BY ContentTyped DEF JobsTyped
  <2>4. FilesTyped'
    BY <1>9, <2>2, <2>3 DEF Write, FilesTyped, shown
  <2>5. WorldTyped'
    BY <1>9 DEF Write, WorldTyped, messages
  <2> QED BY <2>1, <2>4, <2>5
<1>10. ASSUME NEW j \in Jobs, Rename(j) PROVE Typed'
  <2>1. JobsTyped'
    BY <1>10 DEF Rename, Go, JobsTyped, work, Phases, AfterRename
  <2>2. FilesTyped'
    BY <1>10, MovedTyped, KindIs, ContentTyped DEF Rename, FilesTyped
  <2>3. WorldTyped'
    BY <1>10 DEF Rename, WorldTyped, messages
  <2> QED BY <2>1, <2>2, <2>3
<1>11. ASSUME NEW j \in Jobs, Publish(j) PROVE Typed'
  BY <1>11 DEF Publish, Go, JobsTyped, FilesTyped, WorldTyped, messages, work, files,
               Phases
<1>12. ASSUME NEW j \in Jobs, End(j) PROVE Typed'
  BY <1>12, GoneTyped DEF End, FilesTyped, WorldTyped, messages, shown, history
<1>13. ASSUME NEW j \in Jobs, Raise(j) PROVE Typed'
  <2>1. JobsTyped' /\ mixed' \subseteq Jobs
    BY <1>13, GoneTyped DEF Raise, FilesTyped
  <2>2. Moved(KindOf[j], "gone") \in [Jobs -> {"none", "tmp", "dest", "gone"}]
    BY MovedTyped
  <2>3. FilesTyped'
    BY <1>13, <2>1, <2>2, ContentTyped DEF Raise, FilesTyped, shown
  <2>4. WorldTyped'
    BY <1>13 DEF Raise, WorldTyped, messages
  <2> QED BY <2>1, <2>3, <2>4
<1>14. ASSUME NEW k \in Kinds, DropChannel(k) PROVE Typed'
  <2>1. PICK j \in (Kind(k) \intersect Active) \ ghost :
          /\ ghost' = ghost \union {j}
          /\ queue' = [queue EXCEPT ![k] = @ \union {item[j]}]
    BY <1>14 DEF DropChannel
  <2>2. j \in Jobs
    BY <2>1 DEF Kind
  <2>3. JobsTyped' /\ WorldTyped'
    BY <1>14, <2>1, <2>2 DEF DropChannel, JobsTyped, WorldTyped
  <2>4. FilesTyped'
    BY <1>14 DEF DropChannel, FilesTyped, files, shown
  <2> QED BY <2>3, <2>4
<1>15. ASSUME NEW k \in Kinds, Crash(k) PROVE Typed'
  <2>1. JobsTyped' /\ mixed' \subseteq Jobs
    BY <1>15, GoneTyped DEF Crash, FilesTyped
  <2>2. FilesTyped'
    BY <1>15, <2>1 DEF Crash, FilesTyped
  <2>3. \A h : Requeued(h) \subseteq Nat
    BY DEF Requeued, Kind, JobsTyped
  <2>4. queue' \in [Handlers -> SUBSET Nat]
    BY <1>15, <2>3 DEF Crash, WorldTyped
  <2>5. WorldTyped'
    BY <1>15, <2>4 DEF Crash, WorldTyped, history
  <2> QED BY <2>1, <2>2, <2>5
<1>16. CASE UNCHANGED vars
  BY <1>16 DEF vars, messages, job, work, files, shown, counts, history, JobsTyped,
               FilesTyped, WorldTyped
<1> QED BY <1>1, <1>2, <1>3, <1>4, <1>5, <1>6, <1>7, <1>8, <1>9, <1>10, <1>11, <1>12,
           <1>13, <1>14, <1>15, <1>16, <1>17 DEF Next, Step

(* The types of the variables, for any jobs and bounds.                    *)
THEOREM FilesTypes == Spec => []Typed
<1>1. Init => Typed
  BY ContentTyped, BoundsAssumption
     DEF Init, Typed, JobsTyped, FilesTyped, WorldTyped, Phases
<1>2. Typed /\ [Next]_vars => Typed'
  BY TypedStep
<1> QED BY <1>1, <1>2, PTL DEF Spec

-----------------------------------------------------------------------------
(* Torn files.                                                             *)

(* A step after which no more jobs are at work leaves one handler alone.   *)
LEMMA HandlersShrink ==
  ASSUME OneHandler, ghost' \subseteq ghost, drops' = drops,
         \A j \in Jobs : phase'[j] # "idle" => phase[j] # "idle"
  PROVE  OneHandler'
BY DEF OneHandler

(* A job that goes on is still one.                                        *)
LEMMA OneGoesOn ==
  ASSUME JobsTyped, OneHandler, NEW j \in Jobs, NEW p, phase[j] # "idle", Go(j, p),
         UNCHANGED <<ghost, drops>>
  PROVE  OneHandler'
<1>1. \A i \in Jobs : phase'[i] # "idle" => phase[i] # "idle"
  BY DEF Go, JobsTyped
<1> QED BY <1>1, HandlersShrink

(* Nothing happens at the files, but some of the writers may go.           *)
LEMMA WritersShrink ==
  ASSUME OneWriter, TornOnlyByOverlap, mixed' \subseteq mixed,
         UNCHANGED <<tmp, dest, overlaps>>, drops \subseteq drops',
         \A j \in Jobs : phase'[j] \in AtFile => phase'[j] = phase[j] /\ fd'[j] = fd[j]
  PROVE  OneWriter' /\ TornOnlyByOverlap'
<1>1. OneWriter'
  BY DEF OneWriter, AtFile
<1>2. TornOnlyByOverlap'
  BY DEF TornOnlyByOverlap
<1> QED BY <1>1, <1>2

LEMMA OneHandlerStep == Typed /\ OneHandler /\ [Next]_vars => OneHandler'
<1> SUFFICES ASSUME Typed, OneHandler, [Next]_vars PROVE OneHandler'
  OBVIOUS
<1>1. CASE CommitVerdict \/ DayPasses \/ UNCHANGED vars
  BY <1>1 DEF CommitVerdict, DayPasses, vars, job, work, history, OneHandler
<1>2. ASSUME NEW j \in Jobs, Call(j) PROVE OneHandler'
  BY <1>2 DEF Call, Go, OneHandler, Typed, JobsTyped, work, history
<1>3. ASSUME NEW j \in Jobs, NEW i \in Items, Deliver(j, i) PROVE OneHandler'
  <2>1. \A h \in Jobs : KindOf[h] = KindOf[j] /\ phase[h] # "idle" => h \in ghost
    BY <1>3 DEF Deliver, Kind, Active
  <2>2. \A h \in Jobs : phase'[h] # "idle" => h = j \/ phase[h] # "idle"
    BY <1>3 DEF Deliver, Go, Typed, JobsTyped
  <2>3. UNCHANGED <<ghost, drops>>
    BY <1>3 DEF Deliver, history
  <2> QED BY <2>1, <2>2, <2>3 DEF OneHandler
<1>4. ASSUME NEW j \in Jobs, Check(j) \/ Serve(j) PROVE OneHandler'
  BY <1>4, OneGoesOn DEF Check, Serve, At, Typed, work, history
<1>5. ASSUME NEW j \in Jobs, FetchAll(j) \/ GeneratePage(j) \/ RenderSab(j)
      PROVE  OneHandler'
  BY <1>5, OneGoesOn DEF FetchAll, GeneratePage, RenderSab, Snapshot, At, Typed, history
<1>6. ASSUME NEW j \in Jobs, WriteDigests(j) \/ DigestsCut(j) \/ Open(j) \/ Write(j)
      PROVE  OneHandler'
  BY <1>6, OneGoesOn DEF WriteDigests, DigestsCut, Open, Write, At, Typed, work
<1>11. ASSUME NEW j \in Jobs, PassOver(j) PROVE OneHandler'
  BY <1>11, OneGoesOn DEF PassOver, At, Typed, work
<1>7. ASSUME NEW j \in Jobs, Rename(j) \/ Publish(j) PROVE OneHandler'
  BY <1>7, OneGoesOn DEF Rename, Publish, At, Typed, work
<1>8. ASSUME NEW j \in Jobs, End(j) \/ Raise(j) PROVE OneHandler'
  BY <1>8, HandlersShrink DEF End, Raise, Gone, history
<1>9. ASSUME NEW k \in Kinds, DropChannel(k) PROVE OneHandler'
  <2>1. PICK j \in Jobs : KindOf[j] = k /\ ghost' = ghost \union {j}
    BY <1>9 DEF DropChannel, Kind
  <2>2. phase' = phase /\ drops' = drops \union {k}
    BY <1>9 DEF DropChannel
  <2> QED BY <2>1, <2>2 DEF OneHandler
<1>10. ASSUME NEW k \in Kinds, Crash(k) PROVE OneHandler'
  BY <1>10, HandlersShrink DEF Crash, Gone, history
<1> QED BY <1>1, <1>2, <1>3, <1>4, <1>5, <1>6, <1>7, <1>8, <1>9, <1>10, <1>11 DEF Next, Step

LEMMA TornStep == Typed /\ TornInv /\ [Next]_vars => TornInv'
<1> SUFFICES ASSUME Typed, TornInv, [Next]_vars PROVE TornInv'
  OBVIOUS
<1>0. OneHandler' /\ OneHandler /\ OneWriter /\ TornOnlyByOverlap
  BY OneHandlerStep DEF TornInv
<1> SUFFICES OneWriter' /\ TornOnlyByOverlap'
  BY <1>0 DEF TornInv
<1> USE <1>0
<1>1. CASE CommitVerdict \/ DayPasses \/ UNCHANGED vars
  BY <1>1, WritersShrink DEF CommitVerdict, DayPasses, vars, job, files, history
<1>2. ASSUME NEW j \in Jobs, Call(j) PROVE OneWriter' /\ TornOnlyByOverlap'
  BY <1>2, WritersShrink DEF Call, Go, AtFile, Typed, JobsTyped, files, history
<1>3. ASSUME NEW j \in Jobs, NEW i \in Items, Deliver(j, i)
      PROVE  OneWriter' /\ TornOnlyByOverlap'
  BY <1>3, WritersShrink DEF Deliver, Go, AtFile, Typed, JobsTyped, files, history
<1>4. ASSUME NEW j \in Jobs, Check(j) \/ Serve(j) PROVE OneWriter' /\ TornOnlyByOverlap'
  BY <1>4, WritersShrink DEF Check, Serve, Go, AtFile, Typed, JobsTyped, files, history
<1>5. ASSUME NEW j \in Jobs, FetchAll(j) \/ GeneratePage(j) \/ RenderSab(j)
      PROVE  OneWriter' /\ TornOnlyByOverlap'
  BY <1>5, WritersShrink DEF FetchAll, GeneratePage, RenderSab, Snapshot, Go, AtFile,
                             Typed, JobsTyped, files, history
<1>6. ASSUME NEW j \in Jobs, WriteDigests(j) \/ DigestsCut(j) \/ PassOver(j)
      PROVE  OneWriter' /\ TornOnlyByOverlap'
  BY <1>6, WritersShrink DEF WriteDigests, DigestsCut, PassOver, Go, AtFile, Typed, JobsTyped,
                             files
<1>7. ASSUME NEW j \in Jobs, Open(j) PROVE OneWriter' /\ TornOnlyByOverlap'
  <2> DEFINE k == KindOf[j]
  <2>1. /\ phase[j] = "open" /\ dest' = dest /\ drops' = drops
        /\ \A i \in Jobs : phase'[i] = IF i = j THEN "write" ELSE phase[i]
        /\ \A i \in Jobs : fd'[i] = IF i = j THEN "tmp" ELSE fd[i]
        /\ \A i \in Jobs : KindOf[i] # k => tmp'[KindOf[i]] = tmp[KindOf[i]]
    BY <1>7 DEF Open, At, Go, Typed, JobsTyped, FilesTyped
  <2>2. overlaps \subseteq overlaps' /\ overlaps' \subseteq overlaps \union {k}
    BY <1>7 DEF Open
  <2>3. ASSUME NEW i \in Jobs \ {j}, KindOf[i] = k, phase[i] \in AtFile
        PROVE  k \in overlaps'
    BY <1>7, <2>3 DEF Open, Kind, AtFile
  <2>4. ASSUME NEW i \in Jobs, KindOf[i] # k PROVE i \in mixed' <=> i \in mixed
    BY <1>7, <2>4 DEF Open, Writing, Kind
  <2>5. ASSUME NEW i \in Jobs, KindOf[i] = k, k \notin overlaps' PROVE i \notin mixed'
    <3>1. Writing(k, "tmp") = {}
      BY <2>1, <2>3, <2>5 DEF Writing, Kind, AtFile
    <3>2. i \notin mixed
      BY <2>2, <2>5 DEF OneWriter
    <3> QED BY <1>7, <3>1, <3>2 DEF Open
  <2>6. OneWriter'
    <3>1. ASSUME NEW i \in Jobs, KindOf[i] \notin overlaps', KindOf[i] = k
          PROVE  /\ i \notin mixed'
                 /\ \A h \in Jobs : KindOf[h] = KindOf[i] /\ phase'[i] \in AtFile
                                      /\ phase'[h] \in AtFile => i = h
                 /\ phase'[i] = "write" => fd'[i] = "tmp"
                 /\ phase'[i] # "rename"
      BY <2>1, <2>3, <2>5, <3>1 DEF AtFile
    <3>2. ASSUME NEW i \in Jobs, KindOf[i] \notin overlaps', KindOf[i] # k
          PROVE  /\ i \notin mixed'
                 /\ \A h \in Jobs : KindOf[h] = KindOf[i] /\ phase'[i] \in AtFile
                                      /\ phase'[h] \in AtFile => i = h
                 /\ phase'[i] = "write" =>
                      fd'[i] = "tmp" \/ (fd'[i] = "gone" /\ ~tmp'[KindOf[i]].there)
                 /\ phase'[i] = "rename" /\ tmp'[KindOf[i]].there => tmp'[KindOf[i]].whole
      BY <2>1, <2>2, <2>4, <3>2 DEF AtFile, OneWriter
    <3> QED BY <3>1, <3>2 DEF OneWriter
  <2>7. k \in overlaps' /\ k \notin overlaps /\ k \in Handlers => k \in drops
    <3>1. k \in overlaps' /\ k \notin overlaps =>
            \E i \in Jobs \ {j} : KindOf[i] = k /\ phase[i] \in AtFile
      BY <1>7 DEF Open, Kind, AtFile
    <3> QED BY <2>1, <3>1 DEF OneHandler, AtFile
  <2>8. TornOnlyByOverlap'
    BY <2>1, <2>2, <2>7 DEF TornOnlyByOverlap
  <2> QED BY <2>6, <2>8
<1>8. ASSUME NEW j \in Jobs, Write(j) PROVE OneWriter' /\ TornOnlyByOverlap'
  <2> DEFINE k == KindOf[j]
  <2>0. PICK whole \in Outcomes(j) :
          LET f == Content(snap[j], whole) IN
          /\ tmp' = IF fd[j] = "tmp" THEN [tmp EXCEPT ![k] = f] ELSE tmp
          /\ dest' = IF fd[j] = "dest" THEN [dest EXCEPT ![k] = f] ELSE dest
    BY <1>8 DEF Write
  <2>1. /\ phase[j] = "write" /\ UNCHANGED <<mixed, overlaps, drops>>
        /\ \A i \in Jobs : phase'[i] = IF i = j THEN "rename" ELSE phase[i]
        /\ \A i \in Jobs \ {j} : fd'[i] = fd[i]
    BY <1>8 DEF Write, At, Go, Typed, JobsTyped, FilesTyped
  <2>2. \A x \in Kinds \ {k} : tmp'[x] = tmp[x] /\ dest'[x] = dest[x]
    BY <2>0 DEF Typed, FilesTyped
  <2>3. ASSUME k \notin overlaps
        PROVE  dest' = dest /\ (tmp'[k].there => tmp'[k].whole)
    <3>1. j \notin mixed /\ (fd[j] = "tmp" \/ (fd[j] = "gone" /\ ~tmp[k].there))
      BY <2>1, <2>3 DEF OneWriter
    <3>2. Writing(k, fd[j]) = {j}
      BY <2>1, <2>3 DEF OneWriter, Writing, Kind, AtFile
    <3>3. whole = TRUE
      BY <2>0, <3>1, <3>2 DEF Outcomes
    <3>4. CASE fd[j] = "tmp"
      BY <2>0, <3>3, <3>4, KindIs DEF Content, Typed, FilesTyped
    <3>5. CASE fd[j] = "gone"
      BY <2>0, <3>1, <3>5
    <3> QED BY <3>1, <3>4, <3>5
  <2>4. OneWriter'
    <3>1. ASSUME NEW i \in Jobs, KindOf[i] \notin overlaps', KindOf[i] = k
          PROVE  /\ i \notin mixed'
                 /\ \A h \in Jobs : KindOf[h] = KindOf[i] /\ phase'[i] \in AtFile
                                      /\ phase'[h] \in AtFile => i = h
                 /\ phase'[i] # "write"
                 /\ phase'[i] = "rename" /\ tmp'[KindOf[i]].there => tmp'[KindOf[i]].whole
      BY <2>1, <2>3, <3>1 DEF AtFile, OneWriter
    <3>2. ASSUME NEW i \in Jobs, KindOf[i] \notin overlaps', KindOf[i] # k
          PROVE  /\ i \notin mixed'
                 /\ \A h \in Jobs : KindOf[h] = KindOf[i] /\ phase'[i] \in AtFile
                                      /\ phase'[h] \in AtFile => i = h
                 /\ phase'[i] = "write" =>
                      fd'[i] = "tmp" \/ (fd'[i] = "gone" /\ ~tmp'[KindOf[i]].there)
                 /\ phase'[i] = "rename" /\ tmp'[KindOf[i]].there => tmp'[KindOf[i]].whole
      <4>1. tmp'[KindOf[i]] = tmp[KindOf[i]]
        BY <2>2, <3>2, KindIs
      <4> QED BY <2>1, <3>2, <4>1 DEF AtFile, OneWriter
    <3> QED BY <3>1, <3>2 DEF OneWriter
  <2>5. TornOnlyByOverlap'
    BY <2>1, <2>2, <2>3 DEF TornOnlyByOverlap
  <2> QED BY <2>4, <2>5
<1>9. ASSUME NEW j \in Jobs, Rename(j) PROVE OneWriter' /\ TornOnlyByOverlap'
  <2> DEFINE k == KindOf[j]
  <2>1. /\ phase[j] = "rename" /\ tmp[k].there /\ UNCHANGED <<mixed, overlaps, drops>>
        /\ phase'[j] \notin AtFile
        /\ \A i \in Jobs \ {j} : phase'[i] = phase[i]
    BY <1>9 DEF Rename, At, Go, AfterRename, AtFile, Typed, JobsTyped
  <2>2. /\ \A x \in Kinds \ {k} : tmp'[x] = tmp[x] /\ dest'[x] = dest[x]
        /\ dest'[k] = tmp[k]
        /\ \A i \in Jobs : KindOf[i] # k => fd'[i] = fd[i]
    BY <1>9, KindIs DEF Rename, Moved, Kind, Typed, FilesTyped
  <2>3. k \notin overlaps =>
          tmp[k].whole /\ \A i \in Jobs \ {j} : KindOf[i] = k => phase[i] \notin AtFile
    BY <2>1 DEF OneWriter, AtFile
  <2>4. OneWriter'
    <3>1. ASSUME NEW i \in Jobs, KindOf[i] \notin overlaps', KindOf[i] = k
          PROVE  i \notin mixed' /\ phase'[i] \notin AtFile
      BY <2>1, <2>3, <3>1 DEF AtFile, OneWriter
    <3>2. ASSUME NEW i \in Jobs, KindOf[i] \notin overlaps', KindOf[i] # k
          PROVE  /\ i \notin mixed'
                 /\ \A h \in Jobs : KindOf[h] = KindOf[i] /\ phase'[i] \in AtFile
                                      /\ phase'[h] \in AtFile => i = h
                 /\ phase'[i] = "write" =>
                      fd'[i] = "tmp" \/ (fd'[i] = "gone" /\ ~tmp'[KindOf[i]].there)
                 /\ phase'[i] = "rename" /\ tmp'[KindOf[i]].there => tmp'[KindOf[i]].whole
      <4>1. tmp'[KindOf[i]] = tmp[KindOf[i]]
        BY <2>2, <3>2, KindIs
      <4> QED BY <2>1, <2>2, <3>2, <4>1 DEF AtFile, OneWriter
    <3> QED BY <3>1, <3>2 DEF OneWriter, AtFile
  <2>5. TornOnlyByOverlap'
    BY <2>1, <2>2, <2>3, KindIs DEF TornOnlyByOverlap
  <2> QED BY <2>4, <2>5
<1>10. ASSUME NEW j \in Jobs, Publish(j) PROVE OneWriter' /\ TornOnlyByOverlap'
  BY <1>10, WritersShrink DEF Publish, Go, AtFile, Typed, JobsTyped, files
<1>11. ASSUME NEW j \in Jobs, End(j) PROVE OneWriter' /\ TornOnlyByOverlap'
  BY <1>11, WritersShrink DEF End, Gone, AtFile, history
<1>12. ASSUME NEW j \in Jobs, Raise(j) PROVE OneWriter' /\ TornOnlyByOverlap'
  <2> DEFINE k == KindOf[j]
  <2>1. /\ UNCHANGED <<dest, overlaps, drops>> /\ mixed' \subseteq mixed
        /\ \A i \in Jobs : phase'[i] = IF i = j THEN "idle" ELSE phase[i]
    BY <1>12 DEF Raise, Gone
  <2>2. CASE tmp' = tmp /\ fd' = [fd EXCEPT ![j] = "none"]
    <3>1. \A i \in Jobs : phase'[i] \in AtFile => phase'[i] = phase[i] /\ fd'[i] = fd[i]
      BY <2>1, <2>2 DEF AtFile, Typed, FilesTyped
    <3> QED BY <2>1, <2>2, <3>1, WritersShrink
  <2>3. CASE /\ tmp' = [tmp EXCEPT ![k] = Absent]
             /\ fd' = [Moved(k, "gone") EXCEPT ![j] = "none"]
    <3>1. ~tmp'[k].there
      BY <2>3, KindIs DEF Absent, Typed, FilesTyped
    <3>2. ASSUME NEW i \in Jobs \ {j}, KindOf[i] = k, phase[i] = "write"
          PROVE  fd'[i] = "gone"
      BY <2>3, <3>2 DEF Moved, Kind
    <3>3. ASSUME NEW i \in Jobs, KindOf[i] # k PROVE fd'[i] = fd[i]
      BY <2>3, <3>3 DEF Moved, Kind
    <3>4. ASSUME NEW i \in Jobs, KindOf[i] # k PROVE tmp'[KindOf[i]] = tmp[KindOf[i]]
      BY <2>3, <3>4, KindIs DEF Typed, FilesTyped
    <3>5. OneWriter'
      <4>1. ASSUME NEW i \in Jobs, KindOf[i] \notin overlaps'
            PROVE  /\ i \notin mixed'
                   /\ \A h \in Jobs : KindOf[h] = KindOf[i] /\ phase'[i] \in AtFile
                                        /\ phase'[h] \in AtFile => i = h
        BY <2>1, <4>1 DEF OneWriter, AtFile
      <4>2. ASSUME NEW i \in Jobs, KindOf[i] \notin overlaps'
            PROVE  /\ phase'[i] = "write" =>
                        fd'[i] = "tmp" \/ (fd'[i] = "gone" /\ ~tmp'[KindOf[i]].there)
                   /\ phase'[i] = "rename" /\ tmp'[KindOf[i]].there
                        => tmp'[KindOf[i]].whole
        <5>1. CASE KindOf[i] = k
          BY <2>1, <3>1, <3>2, <5>1
        <5>2. CASE KindOf[i] # k
          BY <2>1, <3>3, <3>4, <4>2, <5>2 DEF OneWriter
        <5> QED BY <5>1, <5>2
      <4> QED BY <4>1, <4>2 DEF OneWriter
    <3>6. TornOnlyByOverlap'
      BY <2>1 DEF TornOnlyByOverlap
    <3> QED BY <3>5, <3>6
  <2> QED BY <1>12, <2>2, <2>3 DEF Raise
<1>13. ASSUME NEW k \in Kinds, DropChannel(k) PROVE OneWriter' /\ TornOnlyByOverlap'
  BY <1>13, WritersShrink DEF DropChannel, files
<1>14. ASSUME NEW k \in Kinds, Crash(k) PROVE OneWriter' /\ TornOnlyByOverlap'
  <2>1. \A i \in Jobs : phase'[i] \in AtFile => phase'[i] = phase[i] /\ fd'[i] = fd[i]
    BY <1>14 DEF Crash, Gone, AtFile
  <2> QED BY <1>14, <2>1, WritersShrink DEF Crash, Gone, history
<1> QED BY <1>1, <1>2, <1>3, <1>4, <1>5, <1>6, <1>7, <1>8, <1>9, <1>10, <1>11, <1>12,
           <1>13, <1>14 DEF Next, Step

(* Who may be at a temporary name, and what is found there.                *)
THEOREM TornInvariance == Spec => []TornInv
<1>1. Init => TornInv
  BY KindIs DEF Init, TornInv, OneHandler, OneWriter, TornOnlyByOverlap, Absent, AtFile
<1>2. Typed /\ TornInv /\ [Next]_vars => TornInv'
  BY TornStep
<1> QED BY <1>1, <1>2, FilesTypes, PTL DEF Spec

(* A file is torn only where two jobs have had its temporary name at once, *)
(* and two handlers have only when a channel has dropped, however many     *)
(* jobs, exceptions and crashes there are.                                 *)
THEOREM FilesTornOnlyByOverlap == Spec => []TornOnlyByOverlap
BY TornInvariance, PTL DEF TornInv

-----------------------------------------------------------------------------
(* What sab.published tells of.                                            *)

LEMMA BoundedStep == Typed /\ Bounded /\ [Next]_vars => Bounded'
<1> SUFFICES ASSUME Typed, Bounded, [Next]_vars PROVE Bounded'
  OBVIOUS
<1> DEFINE Waits   == \A k \in Handlers : \A x \in queue[k] : x <= db
           Held    == \A j \in Jobs : item[j] <= db /\ snap[j] <= db
           OnDisk  == \A k \in Kinds : tmp[k].v <= db /\ dest[k].v <= db
           Digest  == \A d \in 1..Digests : digests[d] <= db
<1>0. /\ db \in Nat /\ \A k \in Handlers : queue[k] \subseteq Nat
      /\ \A j \in Jobs : item[j] \in Nat /\ snap[j] \in Nat
      /\ \A k \in Kinds : tmp[k].v \in Nat /\ dest[k].v \in Nat
      /\ \A d \in 1..Digests : digests[d] \in Nat
      /\ Waits /\ Held /\ OnDisk /\ Digest
  BY DEF Typed, WorldTyped, JobsTyped, FilesTyped, File, Bounded
<1>1. CASE CommitVerdict
  <2>1. db' = db + 1 /\ UNCHANGED <<item, snap, tmp, dest, digests>>
        /\ \A k \in Handlers : \A x \in queue'[k] : x \in queue[k] \/ x = db + 1
    BY <1>1 DEF CommitVerdict, job, work, files, shown
  <2>2. \A k \in Handlers : \A x \in queue[k] : x <= db + 1
    BY <1>0
  <2>3. Waits'
    BY <1>0, <2>1, <2>2
  <2>4. Held' /\ OnDisk' /\ Digest'
    BY <1>0, <2>1
  <2> QED BY <2>3, <2>4 DEF Bounded
<1>2. ASSUME db' = db, Waits', Held', UNCHANGED <<tmp, dest, digests>> PROVE Bounded'
  BY <1>0, <1>2 DEF Bounded
<1>3. ASSUME UNCHANGED <<db, queue, item, snap>>, OnDisk', Digest' PROVE Bounded'
  BY <1>0, <1>3 DEF Bounded
<1>4. ASSUME UNCHANGED <<db, queue>>,
             \A j \in Jobs : /\ item'[j] = item[j] \/ item'[j] = 0
                             /\ snap'[j] = snap[j] \/ snap'[j] = 0 \/ snap'[j] = db
      PROVE  Waits' /\ Held'
  BY <1>0, <1>4
<1>5. CASE DayPasses \/ UNCHANGED vars
  BY <1>0, <1>3, <1>5 DEF DayPasses, vars, messages, job, work, files, shown
<1>6. ASSUME NEW j \in Jobs, Call(j) \/ Check(j) \/ Serve(j) \/ Publish(j) \/ PassOver(j)
      PROVE  Bounded'
  BY <1>0, <1>3, <1>6 DEF Call, Check, Serve, Publish, PassOver, work, messages, files, shown
<1>7. ASSUME NEW j \in Jobs, NEW i \in Items, Deliver(j, i) PROVE Bounded'
  <2>1. i <= db
    BY <1>0, <1>7 DEF Deliver
  <2>2. /\ \A k \in Handlers : \A x \in queue'[k] : x \in queue[k]
        /\ \A h \in Jobs : item'[h] = IF h = j THEN i ELSE item[h]
        /\ UNCHANGED <<db, snap, tmp, dest, digests>>
    BY <1>7 DEF Deliver, Typed, WorldTyped, JobsTyped, files, shown
  <2> QED BY <1>0, <1>2, <2>1, <2>2
<1>8. ASSUME NEW j \in Jobs, FetchAll(j) \/ GeneratePage(j) \/ RenderSab(j)
      PROVE  Bounded'
  <2>1. UNCHANGED <<db, queue, tmp, dest, digests>>
        /\ \A h \in Jobs : item'[h] = item[h] /\ snap'[h] \in {snap[h], db}
    BY <1>8 DEF FetchAll, GeneratePage, RenderSab, Snapshot, messages, files, shown, Typed,
                JobsTyped
  <2> QED BY <1>2, <1>4, <2>1
<1>9. ASSUME NEW j \in Jobs, WriteDigests(j) \/ DigestsCut(j) PROVE Bounded'
  <2>1. /\ \E n \in 0..Digests : digests' = Written(j, n)
        /\ UNCHANGED <<db, queue, item, snap, tmp, dest>>
    BY <1>9, DigestsGo DEF WriteDigests, DigestsCut, messages, work, files
  <2>2. \A d \in 1..Digests : digests'[d] \in {snap[j], digests[d]}
    BY <2>1 DEF Written
  <2> QED BY <1>0, <1>3, <2>1, <2>2
<1>10. ASSUME NEW j \in Jobs, Open(j) \/ Write(j) PROVE Bounded'
  <2>1. UNCHANGED <<db, queue, item, snap, digests>>
    BY <1>10 DEF Open, Write, messages, work, shown
  <2>2. \A k \in Kinds : /\ tmp'[k].v \in {snap[j], tmp[k].v}
                         /\ dest'[k].v \in {snap[j], dest[k].v}
    <3>1. CASE Open(j)
      BY <3>1, KindIs DEF Open, Content, Typed, FilesTyped
    <3>2. CASE Write(j)
      <4>1. PICK whole \in Outcomes(j) :
              LET f == Content(snap[j], whole) IN
              /\ tmp' = IF fd[j] = "tmp" THEN [tmp EXCEPT ![KindOf[j]] = f] ELSE tmp
              /\ dest' = IF fd[j] = "dest" THEN [dest EXCEPT ![KindOf[j]] = f] ELSE dest
        BY <3>2 DEF Write
      <4> QED BY <4>1, KindIs DEF Content, Typed, FilesTyped
    <3> QED BY <1>10, <3>1, <3>2
  <2>3. \A k \in Kinds : tmp'[k].v <= db /\ dest'[k].v <= db
    BY <1>0, <2>2
  <2> QED BY <1>0, <1>3, <2>1, <2>3
<1>11. ASSUME NEW j \in Jobs, Rename(j) PROVE Bounded'
  <2>1. UNCHANGED <<db, queue, item, snap, digests>>
    BY <1>11 DEF Rename, messages, work
  <2>2. \A k \in Kinds : /\ tmp'[k].v \in {0, tmp[k].v}
                         /\ dest'[k].v \in {tmp[k].v, dest[k].v}
    BY <1>11, KindIs DEF Rename, Absent, Typed, FilesTyped
  <2>3. \A k \in Kinds : tmp'[k].v <= db /\ dest'[k].v <= db
    BY <1>0, <2>2
  <2> QED BY <1>0, <1>3, <2>1, <2>3
<1>12. ASSUME NEW j \in Jobs, End(j) \/ Raise(j) PROVE Bounded'
  <2>1. Waits' /\ Held'
    BY <1>4, <1>12 DEF End, Raise, Gone, messages
  <2>2. tmp' = tmp \/ tmp' = [tmp EXCEPT ![KindOf[j]] = Absent]
    BY <1>12 DEF End, Raise
  <2>3. \A k \in Kinds : tmp'[k].v \in {0, tmp[k].v}
    BY <2>2, KindIs DEF Absent, Typed, FilesTyped
  <2>4. UNCHANGED <<db, dest, digests>>
    BY <1>12 DEF End, Raise, messages, shown
  <2>5. OnDisk' /\ Digest'
    BY <1>0, <2>3, <2>4
  <2> QED BY <2>1, <2>5 DEF Bounded
<1>13. ASSUME NEW k \in Kinds, DropChannel(k) PROVE Bounded'
  <2>1. UNCHANGED <<db, item, snap, tmp, dest, digests>>
        /\ \A h \in Handlers : \A x \in queue'[h] :
             x \in queue[h] \/ \E j \in Jobs : x = item[j]
    BY <1>13 DEF DropChannel, Kind, Typed, WorldTyped, files, shown
  <2> QED BY <1>0, <1>2, <2>1
<1>14. ASSUME NEW k \in Kinds, Crash(k) PROVE Bounded'
  <2>1. \A h \in Handlers : \A x \in queue'[h] :
          x \in queue[h] \/ \E j \in Jobs : x = item[j]
    BY <1>14 DEF Crash, Requeued, Kind
  <2>2. UNCHANGED <<db, tmp, dest, digests>>
        /\ \A j \in Jobs : /\ item'[j] = item[j] \/ item'[j] = 0
                           /\ snap'[j] = snap[j] \/ snap'[j] = 0
    BY <1>14 DEF Crash, Gone
  <2>3. Held' /\ Waits'
    BY <1>0, <2>1, <2>2
  <2> QED BY <1>2, <2>2, <2>3
<1> QED BY <1>1, <1>5, <1>6, <1>7, <1>8, <1>9, <1>10, <1>11, <1>12, <1>13, <1>14
        DEF Next, Step

LEMMA OwnPhasesStep == Typed /\ OwnPhases /\ [Next]_vars => OwnPhases'
<1> SUFFICES ASSUME Typed, OwnPhases, [Next]_vars PROVE OwnPhases'
  OBVIOUS
<1>1. ASSUME \A j \in Jobs : phase'[j] = phase[j]
                             \/ phase'[j] \notin {"digest", "cut", "publish", "check", "serve"}
      PROVE  OwnPhases'
  BY <1>1 DEF OwnPhases
<1>2. ASSUME NEW j \in Jobs, NEW p, Go(j, p),
             p \in {"digest", "cut", "publish"} => KindOf[j] = "brief",
             p \in {"check", "serve"} => KindOf[j] \notin Handlers
      PROVE  OwnPhases'
  BY <1>2 DEF OwnPhases, Go, Typed, JobsTyped
<1>3. CASE CommitVerdict \/ DayPasses \/ UNCHANGED vars
  BY <1>1, <1>3 DEF CommitVerdict, DayPasses, vars, job
<1>4. ASSUME NEW j \in Jobs, Call(j) PROVE OwnPhases'
  BY <1>2, <1>4 DEF Call
<1>5. ASSUME NEW j \in Jobs, NEW i \in Items, Deliver(j, i) PROVE OwnPhases'
  BY <1>2, <1>5 DEF Deliver
<1>6. ASSUME NEW j \in Jobs, \/ Check(j) \/ Serve(j) \/ Open(j) \/ Write(j)
                             \/ WriteDigests(j) \/ DigestsCut(j) \/ Publish(j)
      PROVE  OwnPhases'
  BY <1>2, <1>6 DEF Check, At, Serve, Open, Write, WriteDigests, DigestsCut, Publish, OwnPhases
<1>7. ASSUME NEW j \in Jobs, FetchAll(j) \/ GeneratePage(j) \/ PassOver(j) \/ RenderSab(j)
      PROVE  OwnPhases'
  BY <1>2, <1>7 DEF FetchAll, GeneratePage, PassOver, RenderSab, Snapshot
<1>8. ASSUME NEW j \in Jobs, Rename(j) PROVE OwnPhases'
  BY <1>2, <1>8, KindIs DEF Rename, AfterRename, Handlers
<1>9. ASSUME NEW j \in Jobs, End(j) \/ Raise(j) PROVE OwnPhases'
  BY <1>1, <1>9 DEF End, Raise, Gone
<1>10. ASSUME NEW k \in Kinds, DropChannel(k) \/ Crash(k) PROVE OwnPhases'
  BY <1>1, <1>10 DEF DropChannel, Crash, Gone
<1> QED BY <1>3, <1>4, <1>5, <1>6, <1>7, <1>8, <1>9, <1>10 DEF Next, Step

(* A job keeps its item and its rows while it renders and writes: it takes *)
(* the rows as it begins to, and only one that was at it can be at it yet. *)
Kept(j) == /\ phase[j] \in Rendering /\ item'[j] = item[j] /\ snap'[j] = snap[j]
           /\ phase'[j] \in AtFile => phase[j] \in AtFile \union {"open"}
Took(j) == phase[j] = "read" /\ item'[j] = item[j] /\ snap'[j] = db /\ db' = db

LEMMA RenderingStep ==
  ASSUME Typed, OwnPhases, [Next]_vars, NEW j \in Jobs, phase'[j] \in Rendering
  PROVE  Kept(j) \/ (Took(j) /\ phase'[j] = IF KindOf[j] = "brief" THEN "digest" ELSE "open")
         \/ (KindOf[j] \notin Handlers /\ phase[j] = "check" /\ phase'[j] = "open")
<1>1. ASSUME UNCHANGED <<phase, item, snap>> PROVE Kept(j)
  BY <1>1 DEF Kept, AtFile, Rendering
<1>2. ASSUME NEW i \in Jobs, NEW p, Go(i, p), phase[i] \in Rendering,
             p \in AtFile => phase[i] \in AtFile \union {"open"}, UNCHANGED <<item, snap>>
      PROVE  Kept(j)
  BY <1>2 DEF Kept, Go, Typed, JobsTyped, AtFile
<1>3. ASSUME NEW i \in Jobs, NEW p, Go(i, p), p \notin Rendering,
             \A h \in Jobs \ {i} : item'[h] = item[h] /\ snap'[h] = snap[h]
      PROVE  Kept(j)
  <2>1. j # i /\ phase'[j] = phase[j]
    BY <1>3 DEF Go, Typed, JobsTyped
  <2> QED BY <1>3, <2>1 DEF Kept
<1>4. ASSUME NEW js, Gone(js) PROVE Kept(j)
  <2>1. j \notin js
    BY <1>4 DEF Gone, Rendering
  <2> QED BY <1>4, <2>1 DEF Gone, Kept
<1>5. CASE CommitVerdict \/ DayPasses \/ UNCHANGED vars
  BY <1>1, <1>5 DEF CommitVerdict, DayPasses, vars, job, work
<1>6. ASSUME NEW i \in Jobs, Call(i) \/ Serve(i) \/ PassOver(i) \/ Publish(i) PROVE Kept(j)
  BY <1>3, <1>6 DEF Call, Serve, PassOver, Publish, work, Rendering
<1>7. ASSUME NEW i \in Jobs, NEW x \in Items, Deliver(i, x) PROVE Kept(j)
  <2>1. \A h \in Jobs \ {i} : item'[h] = item[h] /\ snap'[h] = snap[h]
    BY <1>7 DEF Deliver, Typed, JobsTyped
  <2> QED BY <1>3, <1>7, <2>1 DEF Deliver, Rendering
<1>8. ASSUME NEW i \in Jobs, Check(i)
      PROVE  Kept(j) \/ (KindOf[j] \notin Handlers /\ phase[j] = "check" /\ phase'[j] = "open")
  <2>1. UNCHANGED <<item, snap>> /\ phase[i] = "check"
    BY <1>8 DEF Check, At, work
  <2>2. CASE i # j
    <3>1. phase'[j] = phase[j]
      BY <1>8, <2>2 DEF Check, Go, Typed, JobsTyped
    <3> QED BY <2>1, <3>1 DEF Kept
  <2>3. CASE i = j
    <3>1. phase'[j] \in {"serve", "read", "open"}
          /\ (phase'[j] = "open" => ~UpToDate(j) /\ KindOf[j] # "get")
      BY <1>8, <2>3 DEF Check, Go, Typed, JobsTyped
    <3>2. phase'[j] = "open" /\ KindOf[j] \notin Handlers
      BY <2>1, <2>3, <3>1 DEF Rendering, OwnPhases
    <3> QED BY <2>1, <2>3, <3>2
  <2> QED BY <2>2, <2>3
<1>9. ASSUME NEW i \in Jobs, FetchAll(i) \/ GeneratePage(i) \/ RenderSab(i)
      PROVE  Kept(j) \/ (Took(j) /\ phase'[j] = IF KindOf[j] = "brief" THEN "digest" ELSE "open")
  <2>1. Snapshot(i, KindOf[i], IF KindOf[i] = "brief" THEN "digest" ELSE "open")
    BY <1>9 DEF FetchAll, GeneratePage, RenderSab, Snapshot
  <2>2. CASE i = j
    BY <2>1, <2>2 DEF Snapshot, Took, At, Go, Typed, JobsTyped, messages
  <2>3. CASE i # j
    BY <2>1, <2>3 DEF Snapshot, Kept, Go, Typed, JobsTyped
  <2> QED BY <2>2, <2>3
<1>10. ASSUME NEW i \in Jobs, WriteDigests(i) \/ DigestsCut(i) \/ Open(i) \/ Write(i)
       PROVE  Kept(j)
  BY <1>2, <1>10 DEF WriteDigests, DigestsCut, Open, Write, At, work, Rendering, AtFile
<1>11. ASSUME NEW i \in Jobs, Rename(i) PROVE Kept(j)
  <2>1. AfterRename(KindOf[i]) \in {"publish", "end", "serve"}
    BY DEF AfterRename
  <2> QED BY <1>2, <1>11, <2>1 DEF Rename, At, work, Rendering, AtFile
<1>12. ASSUME NEW i \in Jobs, End(i) \/ Raise(i) PROVE Kept(j)
  BY <1>4, <1>12 DEF End, Raise
<1>13. ASSUME NEW k \in Kinds, DropChannel(k) PROVE Kept(j)
  BY <1>1, <1>13 DEF DropChannel
<1>14. ASSUME NEW k \in Kinds, Crash(k) PROVE Kept(j)
  BY <1>4, <1>14 DEF Crash
<1> QED BY <1>5, <1>6, <1>7, <1>8, <1>9, <1>10, <1>11, <1>12, <1>13, <1>14 DEF Next, Step

(* How a job comes to its file's phases: brief's handler past its digests, *)
(* any at its temporary file, and one that has a rename behind it.         *)
LEMMA EnteringStep ==
  ASSUME Typed, OwnPhases, [Next]_vars, NEW j \in Jobs
  PROVE  /\ KindOf[j] = "brief" /\ phase'[j] \in Filed /\ phase[j] \notin Filed
              => WriteDigests(j)
         /\ phase'[j] \in AtFile /\ phase[j] \notin AtFile => Open(j)
         /\ phase'[j] = "publish" /\ phase[j] # "publish" => Rename(j)
<1> DEFINE Goal == /\ KindOf[j] = "brief" /\ phase'[j] \in Filed /\ phase[j] \notin Filed
                        => WriteDigests(j)
                   /\ phase'[j] \in AtFile /\ phase[j] \notin AtFile => Open(j)
                   /\ phase'[j] = "publish" /\ phase[j] # "publish" => Rename(j)
<1>1. ASSUME phase'[j] = phase[j] \/ phase'[j] \notin Filed PROVE Goal
  BY <1>1 DEF Filed, AtFile
<1>2. ASSUME NEW i \in Jobs, NEW p, Go(i, p), p \notin Filed PROVE Goal
  BY <1>1, <1>2 DEF Go, Typed, JobsTyped
<1>3. ASSUME NEW i \in Jobs, NEW p, Go(i, p), i # j PROVE Goal
  BY <1>1, <1>3 DEF Go, Typed, JobsTyped
<1>4. ASSUME NEW js, Gone(js) PROVE Goal
  BY <1>1, <1>4 DEF Gone, Filed
<1> HIDE DEF Goal
<1>5. ASSUME CommitVerdict \/ DayPasses \/ UNCHANGED vars PROVE Goal
  BY <1>1, <1>5 DEF CommitVerdict, DayPasses, vars, job
<1>6. ASSUME NEW i \in Jobs, Call(i) \/ Serve(i) \/ PassOver(i) \/ Publish(i)
                             \/ FetchAll(i) \/ DigestsCut(i)
      PROVE  Goal
  BY <1>2, <1>6 DEF Call, Serve, PassOver, Publish, FetchAll, Snapshot, DigestsCut, Filed
<1>7. ASSUME NEW i \in Jobs, NEW x \in Items, Deliver(i, x) PROVE Goal
  BY <1>2, <1>7 DEF Deliver, Filed
<1>8. ASSUME NEW i \in Jobs, GeneratePage(i) \/ RenderSab(i) \/ Check(i) PROVE Goal
  <2>1. CASE i # j
    BY <1>3, <1>8, <2>1 DEF GeneratePage, RenderSab, Snapshot, Check
  <2>2. CASE i = j
    <3>1. KindOf[j] # "brief"
      BY <1>8, <2>2 DEF GeneratePage, RenderSab, Snapshot, Check, At, OwnPhases, Handlers
    <3>2. phase'[j] \in {"open", "serve", "read"}
      BY <1>8, <2>2 DEF GeneratePage, RenderSab, Snapshot, Check, Go, Typed, JobsTyped
    <3> QED BY <3>1, <3>2 DEF Goal, AtFile
  <2> QED BY <2>1, <2>2
<1>9. ASSUME NEW i \in Jobs, WriteDigests(i) PROVE Goal
  <2>1. CASE i # j
    BY <1>3, <1>9, <2>1 DEF WriteDigests
  <2>2. CASE i = j
    BY <1>9, <2>2 DEF WriteDigests, Go, Typed, JobsTyped, Goal, AtFile
  <2> QED BY <2>1, <2>2
<1>10. ASSUME NEW i \in Jobs, Open(i) \/ Write(i) \/ Rename(i) PROVE Goal
  <2>1. CASE i # j
    BY <1>3, <1>10, <2>1 DEF Open, Write, Rename
  <2>2. CASE i = j
    <3>1. phase[j] \in Filed
      BY <1>10, <2>2 DEF Open, Write, Rename, At, Filed
    <3>2. CASE Open(i)
      BY <2>2, <3>1, <3>2 DEF Open, Go, Typed, JobsTyped, Goal
    <3>3. CASE Write(i)
      BY <2>2, <3>1, <3>3 DEF Write, At, Go, Typed, JobsTyped, Goal, AtFile
    <3>4. CASE Rename(i)
      BY <2>2, <3>1, <3>4 DEF Rename, At, Goal, AtFile
    <3> QED BY <1>10, <3>2, <3>3, <3>4
  <2> QED BY <2>1, <2>2
<1>11. ASSUME NEW i \in Jobs, End(i) \/ Raise(i) PROVE Goal
  BY <1>4, <1>11 DEF End, Raise
<1>12. ASSUME NEW k \in Kinds, DropChannel(k) PROVE Goal
  BY <1>1, <1>12 DEF DropChannel
<1>13. ASSUME NEW k \in Kinds, Crash(k) PROVE Goal
  BY <1>4, <1>13 DEF Crash
<1>14. Goal
  <2>1. ASSUME NEW i \in Jobs, Step(i) PROVE Goal
    BY <1>6, <1>8, <1>9, <1>10, <1>11, <2>1 DEF Step
  <2> QED BY <1>5, <1>6, <1>7, <1>12, <1>13, <2>1 DEF Next
<1> QED BY <1>14 DEF Goal

(* What is announced anew, a handler that publishes has in hand.           *)
LEMMA AnnouncedStep ==
  ASSUME [Next]_vars
  PROVE  announced' \subseteq announced
         \/ \E j \in Jobs : /\ phase[j] = "publish"
                            /\ announced' \subseteq
                                 announced \union {[item |-> item[j], snap |-> snap[j]]}
BY DEF Next, CommitVerdict, DayPasses, Call, Deliver, Step, Check, FetchAll, GeneratePage,
         PassOver, RenderSab, Snapshot, WriteDigests, DigestsCut, Open, Write, Rename,
         Publish, At, Serve, End, Raise, DropChannel, Crash, vars, history

(* A job has taken in the item it renders for, and so tells of.            *)
LEMMA TookStep ==
  Typed /\ Bounded /\ OwnPhases /\ TookItsItem /\ AnnouncedTook /\ [Next]_vars
    => TookItsItem' /\ AnnouncedTook'
<1> SUFFICES ASSUME Typed, Bounded, OwnPhases, TookItsItem, AnnouncedTook, [Next]_vars
             PROVE  TookItsItem' /\ AnnouncedTook'
  OBVIOUS
<1>1. ASSUME NEW j \in Kind("brief"), phase'[j] \in Rendering PROVE item'[j] <= snap'[j]
  <2>1. j \in Jobs /\ KindOf[j] \in Handlers
    BY DEF Kind, Handlers
  <2>2. CASE Kept(j)
    BY <2>2 DEF Kept, TookItsItem
  <2>3. CASE Took(j)
    BY <2>1, <2>3 DEF Took, Bounded
  <2> QED BY <1>1, <2>1, <2>2, <2>3, RenderingStep
<1>2. announced' \subseteq announced
      \/ \E j \in Jobs : /\ phase[j] = "publish"
                         /\ announced' \subseteq
                              announced \union {[item |-> item[j], snap |-> snap[j]]}
  BY AnnouncedStep
<1>3. ASSUME NEW j \in Jobs, phase[j] = "publish" PROVE item[j] <= snap[j]
  BY <1>3 DEF OwnPhases, TookItsItem, Kind, Rendering
<1>4. ASSUME NEW a \in announced' PROVE a.item <= a.snap
  BY <1>2, <1>3 DEF AnnouncedTook
<1> QED BY <1>1, <1>4 DEF TookItsItem, AnnouncedTook, Kind

(* What happens to a handler's files: nothing, or what one of its jobs at  *)
(* a file does.                                                            *)
Untouched(k) == /\ tmp'[k] = tmp[k] /\ dest'[k] = dest[k]
                /\ k = "brief" => digests' = digests
Touched(i, k) ==
  /\ phase[i] \in {"digest", "open", "write", "rename"}
  /\ k = "brief" => \A d \in 1..Digests : digests'[d] \in {snap[i], digests[d]}
  /\ \/ dest'[k].v \in {snap[i], dest[k].v}
     \/ phase[i] = "rename" /\ dest'[k] = tmp[k]
  /\ \/ tmp'[k] = tmp[k] \/ tmp'[k].v = snap[i]
     \/ phase'[i] \notin AtFile

LEMMA FileStep ==
  ASSUME Typed, OwnPhases, [Next]_vars, NEW k \in Handlers
  PROVE  Untouched(k) \/ \E i \in Kind(k) : Touched(i, k)
<1>0. k \in Kinds /\ k # "put"
  BY DEF Handlers, Kinds
<1>1. ASSUME UNCHANGED <<tmp, dest, digests>> PROVE Untouched(k)
  BY <1>1 DEF Untouched
<1>2. CASE CommitVerdict \/ DayPasses \/ UNCHANGED vars
  BY <1>1, <1>2 DEF CommitVerdict, DayPasses, vars, files, shown
<1>3. ASSUME NEW j \in Jobs, \/ Call(j) \/ Serve(j) \/ PassOver(j) \/ Publish(j) \/ Check(j)
                             \/ FetchAll(j) \/ GeneratePage(j) \/ RenderSab(j) \/ End(j)
      PROVE  Untouched(k)
  BY <1>1, <1>3 DEF Call, Serve, PassOver, Publish, Check, FetchAll, GeneratePage, RenderSab,
                    Snapshot, End, files, shown
<1>4. ASSUME NEW j \in Jobs, NEW x \in Items, Deliver(j, x) PROVE Untouched(k)
  BY <1>1, <1>4 DEF Deliver, files, shown
<1>5. ASSUME NEW j \in Jobs, Raise(j) PROVE Untouched(k)
  <2>1. dest' = dest /\ digests' = digests
    BY <1>5 DEF Raise, shown
  <2>2. tmp' = tmp \/ tmp' = [tmp EXCEPT !["put"] = Absent]
    BY <1>5 DEF Raise
  <2> QED BY <1>0, <2>1, <2>2 DEF Untouched, Typed, FilesTyped
<1>6. ASSUME NEW x \in Kinds, DropChannel(x) \/ Crash(x) PROVE Untouched(k)
  BY <1>1, <1>6 DEF DropChannel, Crash, files, shown
<1>7. ASSUME NEW j \in Jobs, WriteDigests(j) \/ DigestsCut(j)
      PROVE  Untouched(k) \/ \E i \in Kind(k) : Touched(i, k)
  <2>1. PICK n \in 0..Digests : digests' = Written(j, n)
    BY <1>7, DigestsGo
  <2>2. phase[j] = "digest" /\ UNCHANGED <<tmp, dest>>
    BY <1>7 DEF WriteDigests, DigestsCut, At, files
  <2>3. \A d \in 1..Digests : digests'[d] \in {snap[j], digests[d]}
    BY <2>1 DEF Written
  <2>4. CASE k = "brief"
    <3>1. j \in Kind(k)
      BY <2>2, <2>4 DEF OwnPhases, Kind
    <3>2. Touched(j, k)
      BY <2>2, <2>3 DEF Touched
    <3> QED BY <3>1, <3>2
  <2>5. CASE k # "brief"
    BY <2>2, <2>5 DEF Untouched
  <2> QED BY <2>4, <2>5
<1>8. ASSUME NEW j \in Jobs, Open(j) \/ Write(j) \/ Rename(j)
      PROVE  Untouched(k) \/ \E i \in Kind(k) : Touched(i, k)
  <2>0. digests' = digests
    BY <1>8 DEF Open, Write, Rename, shown
  <2>1. CASE KindOf[j] # k
    <3>1. tmp'[k] = tmp[k] /\ dest'[k] = dest[k]
      <4>1. CASE Open(j)
        BY <1>0, <2>1, <4>1 DEF Open, Typed, FilesTyped
      <4>2. CASE Write(j)
        BY <1>0, <2>1, <4>2 DEF Write, Typed, FilesTyped
      <4>3. CASE Rename(j)
        BY <1>0, <2>1, <4>3 DEF Rename, Typed, FilesTyped
      <4> QED BY <1>8, <4>1, <4>2, <4>3
    <3> QED BY <2>0, <3>1 DEF Untouched
  <2>2. CASE KindOf[j] = k
    <3>0. j \in Kind(k) /\ \A d \in 1..Digests : digests'[d] \in {snap[j], digests[d]}
      BY <2>0, <2>2 DEF Kind
    <3>1. CASE Open(j)
      <4>1. phase[j] = "open" /\ tmp'[k].v = snap[j] /\ dest' = dest
        BY <1>0, <2>2, <3>1 DEF Open, At, Content, Typed, FilesTyped
      <4> QED BY <3>0, <4>1 DEF Touched
    <3>2. CASE Write(j)
      <4>1. PICK whole \in Outcomes(j) :
              LET f == Content(snap[j], whole) IN
              /\ tmp' = IF fd[j] = "tmp" THEN [tmp EXCEPT ![k] = f] ELSE tmp
              /\ dest' = IF fd[j] = "dest" THEN [dest EXCEPT ![k] = f] ELSE dest
        BY <2>2, <3>2 DEF Write
      <4>2. /\ tmp'[k] = tmp[k] \/ tmp'[k].v = snap[j]
            /\ dest'[k].v \in {snap[j], dest[k].v}
        BY <1>0, <4>1 DEF Content, Typed, FilesTyped
      <4>3. phase[j] = "write"
        BY <3>2 DEF Write, At
      <4> QED BY <3>0, <4>2, <4>3 DEF Touched
    <3>3. CASE Rename(j)
      <4>1. /\ phase[j] = "rename" /\ dest'[k] = tmp[k]
            /\ phase'[j] = AfterRename(k)
        BY <1>0, <2>2, <3>3 DEF Rename, At, Go, Typed, FilesTyped, JobsTyped
      <4>2. phase'[j] \notin AtFile
        BY <4>1 DEF AfterRename, AtFile
      <4> QED BY <3>0, <4>1, <4>2 DEF Touched
    <3> QED BY <1>8, <3>1, <3>2, <3>3
  <2> QED BY <2>1, <2>2
<1> QED BY <1>2, <1>3, <1>4, <1>5, <1>6, <1>7, <1>8 DEF Next, Step

(* While brief's files are not spoilt they grow, and stay whole.           *)
LEMMA GrownStep ==
  ASSUME Typed, [Next]_vars, "brief" \notin spoilt'
  PROVE  /\ "brief" \notin spoilt
         /\ \A d \in 1..Digests : digests[d] <= digests'[d]
         /\ dest["brief"].v <= dest'["brief"].v
         /\ dest["brief"].whole => dest'["brief"].whole
<1> DEFINE Grown == /\ "brief" \notin spoilt
                    /\ \A d \in 1..Digests : digests[d] <= digests'[d]
                    /\ dest["brief"].v <= dest'["brief"].v
                    /\ dest["brief"].whole => dest'["brief"].whole
<1>0. /\ \A d \in 1..Digests : digests[d] \in Nat
      /\ dest["brief"].v \in Nat /\ tmp["brief"].v \in Nat
      /\ \A j \in Jobs : snap[j] \in Nat
      /\ "brief" \in Kinds
  BY DEF Typed, JobsTyped, FilesTyped, File, Kinds
<1>1. ASSUME UNCHANGED <<dest, digests, spoilt>> PROVE Grown
  BY <1>0, <1>1
<1>2. ASSUME UNCHANGED digests, dest'["brief"] = dest["brief"], "brief" \notin spoilt
      PROVE  Grown
  BY <1>0, <1>2
<1>3. CASE CommitVerdict \/ DayPasses \/ UNCHANGED vars
  BY <1>1, <1>3 DEF CommitVerdict, DayPasses, vars, files, shown, history
<1>4. ASSUME NEW j \in Jobs, \/ Call(j) \/ Serve(j) \/ PassOver(j) \/ Publish(j) \/ Check(j)
                             \/ FetchAll(j) \/ GeneratePage(j) \/ RenderSab(j) \/ End(j)
                             \/ Raise(j) \/ Open(j)
      PROVE  Grown
  BY <1>1, <1>4 DEF Call, Serve, PassOver, Publish, Check, FetchAll, GeneratePage, RenderSab,
                    Snapshot, End, Raise, Open, files, shown, history
<1>5. ASSUME NEW j \in Jobs, NEW x \in Items, Deliver(j, x) PROVE Grown
  BY <1>1, <1>5 DEF Deliver, files, shown, history
<1>6. ASSUME NEW x \in Kinds, DropChannel(x) \/ Crash(x) PROVE Grown
  BY <1>1, <1>6 DEF DropChannel, Crash, files, shown, history
<1>7. ASSUME NEW j \in Jobs, WriteDigests(j) \/ DigestsCut(j) PROVE Grown
  <2>1. PICK n \in 0..Digests :
          /\ digests' = Written(j, n)
          /\ SpoiltBy("brief", \E d \in 1..n : snap[j] < digests[d])
    BY <1>7, DigestsGo
  <2>2. "brief" \notin spoilt /\ \A d \in 1..n : ~(snap[j] < digests[d])
    BY <2>1 DEF SpoiltBy
  <2>3. dest' = dest
    BY <1>7 DEF WriteDigests, DigestsCut, files
  <2>4. ASSUME NEW d \in 1..Digests PROVE digests[d] <= digests'[d]
    <3>1. CASE d <= n
      <4>1. d \in 1..n /\ digests'[d] = snap[j]
        BY <2>1, <3>1, BoundsAssumption DEF Written
      <4> QED BY <1>0, <2>2, <4>1
    <3>2. CASE ~(d <= n)
      BY <1>0, <2>1, <3>2 DEF Written
    <3> QED BY <3>1, <3>2
  <2> QED BY <1>0, <2>2, <2>3, <2>4
<1>8. ASSUME NEW j \in Jobs, Write(j) PROVE Grown
  <2> DEFINE k == KindOf[j]
  <2>1. PICK whole \in Outcomes(j) :
          LET f == Content(snap[j], whole) IN
          /\ dest' = IF fd[j] = "dest" THEN [dest EXCEPT ![k] = f] ELSE dest
          /\ SpoiltBy(k, fd[j] = "dest" /\ (~whole \/ snap[j] < dest[k].v))
    BY <1>8 DEF Write
  <2>2. digests' = digests /\ "brief" \notin spoilt
    BY <1>8, <2>1 DEF Write, shown, SpoiltBy
  <2>3. CASE k # "brief" \/ fd[j] # "dest"
    <3>1. dest'["brief"] = dest["brief"]
      BY <2>1, <2>3 DEF Typed, FilesTyped
    <3> QED BY <1>2, <2>2, <3>1
  <2>4. CASE k = "brief" /\ fd[j] = "dest"
    <3>1. whole /\ ~(snap[j] < dest["brief"].v)
      BY <2>1, <2>4 DEF SpoiltBy, Outcomes
    <3>2. dest'["brief"].v = snap[j] /\ dest'["brief"].whole = whole
      BY <1>0, <2>1, <2>4 DEF Content, Typed, FilesTyped
    <3> QED BY <1>0, <2>2, <3>1, <3>2
  <2> QED BY <2>3, <2>4
<1>9. ASSUME NEW j \in Jobs, Rename(j) PROVE Grown
  <2> DEFINE k == KindOf[j]
  <2>1. /\ dest' = [dest EXCEPT ![k] = tmp[k]] /\ digests' = digests
        /\ SpoiltBy(k, ~tmp[k].whole \/ tmp[k].v < snap[j] \/ tmp[k].v < dest[k].v)
    BY <1>9 DEF Rename
  <2>2. "brief" \notin spoilt
    BY <2>1 DEF SpoiltBy
  <2>3. CASE k # "brief"
    <3>1. dest'["brief"] = dest["brief"]
      BY <2>1, <2>3 DEF Typed, FilesTyped
    <3> QED BY <1>2, <2>1, <2>2, <3>1
  <2>4. CASE k = "brief"
    <3>1. tmp["brief"].whole /\ ~(tmp["brief"].v < dest["brief"].v)
      BY <2>1, <2>4 DEF SpoiltBy
    <3>2. dest'["brief"] = tmp["brief"]
      BY <1>0, <2>1, <2>4 DEF Typed, FilesTyped
    <3> QED BY <1>0, <2>1, <2>2, <3>1, <3>2
  <2> QED BY <2>3, <2>4
<1> QED BY <1>3, <1>4, <1>5, <1>6, <1>7, <1>8, <1>9 DEF Next, Step

LEMMA ShowsStep ==
  ASSUME Typed, Typed', [Next]_vars, "brief" \notin spoilt', NEW v \in Nat
  PROVE  (DigestsShow(v) => DigestsShow(v)') /\ (VaultShows(v) => VaultShows(v)')
<1>1. /\ \A d \in 1..Digests : digests[d] \in Nat /\ digests'[d] \in Nat
      /\ dest["brief"].v \in Nat /\ dest'["brief"].v \in Nat
  BY DEF Typed, FilesTyped, File, Kinds
<1> QED BY <1>1, GrownStep DEF DigestsShow, VaultShows

LEMMA LedgerStep == Typed /\ OwnPhases /\ Ledger /\ [Next]_vars => Ledger'
<1> SUFFICES ASSUME Typed, OwnPhases, Ledger, [Next]_vars, "brief" \notin spoilt'
             PROVE  /\ \A j \in Kind("brief") :
                         /\ phase'[j] \in Filed => DigestsShow(snap[j])'
                         /\ phase'[j] = "publish" => VaultShows(snap[j])'
                    /\ \A a \in announced' : DigestsShow(a.snap)' /\ VaultShows(a.snap)'
  BY DEF Ledger, Kind
<1>0. /\ Typed' /\ "brief" \notin spoilt
      /\ \A j \in Jobs : snap[j] \in Nat
      /\ \A a \in announced : a.snap \in Nat
  BY TypedStep, GrownStep DEF Typed, JobsTyped, WorldTyped
<1>1. /\ \A j \in Kind("brief") :
           /\ phase[j] \in Filed => DigestsShow(snap[j])
           /\ phase[j] = "publish" => VaultShows(snap[j])
      /\ \A a \in announced : DigestsShow(a.snap) /\ VaultShows(a.snap)
  BY <1>0 DEF Ledger
<1>2. ASSUME NEW v \in Nat
      PROVE  /\ DigestsShow(v) => \A d \in 1..Digests : v <= digests'[d]
             /\ VaultShows(v) => v <= dest'["brief"].v /\ dest'["brief"].whole
  BY <1>0, ShowsStep DEF DigestsShow, VaultShows
<1>3. ASSUME NEW j \in Kind("brief"), phase'[j] \in Filed
      PROVE  /\ \A d \in 1..Digests : snap'[j] <= digests'[d]
             /\ phase'[j] = "publish" => snap'[j] <= dest'["brief"].v /\ dest'["brief"].whole
  <2>0. j \in Jobs /\ KindOf[j] = "brief" /\ KindOf[j] \in Handlers /\ phase'[j] # "digest"
    BY <1>3 DEF Kind, Handlers, Filed
  <2>1. Kept(j)
    <3>1. phase'[j] \in Rendering
      BY <1>3 DEF Filed, Rendering
    <3> QED BY <2>0, <3>1, RenderingStep
  <2>2. snap'[j] = snap[j] /\ snap[j] \in Nat
    BY <1>0, <2>0, <2>1 DEF Kept
  <2>3. \A d \in 1..Digests : snap[j] <= digests'[d]
    <3>1. CASE phase[j] \in Filed
      BY <1>1, <1>2, <2>2, <3>1
    <3>2. CASE phase[j] \notin Filed
      <4>1. WriteDigests(j)
        BY <1>3, <2>0, <3>2, EnteringStep
      <4>2. \A d \in 1..Digests : digests'[d] = snap[j]
        BY <4>1 DEF WriteDigests, Written
      <4> QED BY <2>2, <4>2
    <3> QED BY <3>1, <3>2
  <2>4. ASSUME phase'[j] = "publish"
        PROVE  snap[j] <= dest'["brief"].v /\ dest'["brief"].whole
    <3>1. CASE phase[j] = "publish"
      BY <1>1, <1>2, <2>2, <3>1
    <3>2. CASE phase[j] # "publish"
      <4>1. Rename(j)
        BY <2>0, <2>4, <3>2, EnteringStep
      <4>2. tmp["brief"].whole /\ ~(tmp["brief"].v < snap[j])
        BY <2>0, <4>1 DEF Rename, SpoiltBy
      <4>3. dest'["brief"] = tmp["brief"] /\ tmp["brief"].v \in Nat
        BY <2>0, <4>1, KindIs DEF Rename, Typed, FilesTyped, File
      <4> QED BY <2>2, <4>2, <4>3
    <3> QED BY <3>1, <3>2
  <2> QED BY <2>2, <2>3, <2>4
<1>4. ASSUME NEW a \in announced'
      PROVE  /\ \A d \in 1..Digests : a.snap <= digests'[d]
             /\ a.snap <= dest'["brief"].v /\ dest'["brief"].whole
  <2>1. a \in announced
        \/ \E j \in Jobs : phase[j] = "publish" /\ a.snap = snap[j]
    BY AnnouncedStep
  <2>2. CASE a \in announced
    BY <1>0, <1>1, <1>2, <2>2
  <2>3. ASSUME NEW j \in Jobs, phase[j] = "publish", a.snap = snap[j]
        PROVE  DigestsShow(a.snap) /\ VaultShows(a.snap) /\ a.snap \in Nat
    BY <1>0, <1>1, <2>3 DEF OwnPhases, Kind, Filed
  <2> QED BY <1>2, <2>1, <2>2, <2>3
<1> QED BY <1>3, <1>4 DEF DigestsShow, VaultShows, Filed

LEMMA FreshStep ==
  Typed /\ OneHandler /\ Bounded /\ OwnPhases /\ Fresh /\ [Next]_vars => Fresh'
<1> SUFFICES ASSUME Typed, OneHandler, Bounded, OwnPhases, Fresh, [Next]_vars,
                    NEW j \in Jobs, Alone(j)'
             PROVE  /\ phase'[j] \in Rendering => NoneLater(j)'
                    /\ phase'[j] \in AtFile => tmp'[KindOf[j]].v = snap'[j]
  BY DEF Fresh
<1> DEFINE k == KindOf[j]
<1>0. drops \subseteq drops'
  BY DEF Next, CommitVerdict, DayPasses, Call, Deliver, Step, Check, FetchAll, GeneratePage,
         PassOver, RenderSab, Snapshot, WriteDigests, DigestsCut, Open, Write, Rename,
         Publish, Serve, End, Raise, DropChannel, Crash, vars, history
<1>1. k \in Handlers /\ k \in Kinds /\ k \notin drops /\ Alone(j)
  BY <1>0, KindIs DEF Alone
<1>2. /\ phase[j] \in Rendering => NoneLater(j)
      /\ phase[j] \in AtFile => tmp[k].v = snap[j]
  BY <1>1 DEF Fresh
<1>3. CASE phase'[j] \notin Rendering
  BY <1>3 DEF Rendering, AtFile
<1>4. CASE phase'[j] \in Rendering /\ Took(j) /\ phase'[j] \in {"digest", "open"}
  <2>1. Bounded' /\ snap'[j] = db'
    BY <1>4, BoundedStep DEF Took
  <2>2. NoneLater(j)'
    BY <1>1, <2>1 DEF Bounded, NoneLater
  <2> QED BY <1>4, <2>2 DEF AtFile
<1>5. CASE phase'[j] \in Rendering /\ Kept(j)
  <2>0. /\ phase[j] \in Rendering /\ phase[j] # "idle" /\ snap'[j] = snap[j]
        /\ NoneLater(j)
    BY <1>2, <1>5 DEF Kept, Rendering
  <2>1. \A i \in Kind(k) : phase[i] # "idle" => i = j
    BY <1>1, <2>0 DEF OneHandler, Kind
  <2>2. CASE Untouched(k)
    <3>1. NoneLater(j)'
      BY <2>0, <2>2 DEF NoneLater, Untouched
    <3>2. ASSUME phase'[j] \in AtFile PROVE tmp'[k].v = snap'[j]
      <4>1. CASE phase[j] \in AtFile
        BY <1>2, <2>0, <2>2, <4>1 DEF Untouched
      <4>2. CASE phase[j] \notin AtFile
        <5>1. Open(j)
          BY <3>2, <4>2, EnteringStep
        <5> QED BY <1>1, <2>0, <5>1 DEF Open, Content, Typed, FilesTyped
      <4> QED BY <4>1, <4>2
    <3> QED BY <3>1, <3>2
  <2>3. CASE \E i \in Kind(k) : Touched(i, k)
    <3>1. Touched(j, k)
      BY <2>1, <2>3 DEF Touched
    <3>2. /\ snap[j] \in Nat
          /\ phase[j] = "rename" => tmp[k].v = snap[j]
      BY <1>2 DEF AtFile, Typed, JobsTyped
    <3>3. dest'[k].v = snap[j] \/ dest'[k].v = dest[k].v
      BY <3>1, <3>2 DEF Touched
    <3>4. NoneLater(j)'
      BY <2>0, <3>1, <3>2, <3>3 DEF NoneLater, Touched
    <3>5. ASSUME phase'[j] \in AtFile PROVE tmp'[k].v = snap'[j]
      <4>1. CASE phase[j] \in AtFile
        BY <1>2, <2>0, <3>1, <3>5, <4>1 DEF Touched
      <4>2. CASE phase[j] \notin AtFile
        <5>1. Open(j)
          BY <3>5, <4>2, EnteringStep
        <5> QED BY <1>1, <2>0, <5>1 DEF Open, Content, Typed, FilesTyped
      <4> QED BY <4>1, <4>2
    <3> QED BY <3>4, <3>5
  <2> QED BY <1>1, <2>2, <2>3, FileStep
<1> QED BY <1>1, <1>3, <1>4, <1>5, RenderingStep

(* Who spoils a file shares it with another handler.                       *)
LEMMA SpoiltStep ==
  Typed /\ TornInv /\ OwnPhases /\ Fresh /\ SpoiltByDrop /\ [Next]_vars => SpoiltByDrop'
<1> SUFFICES ASSUME Typed, TornInv, OwnPhases, Fresh, SpoiltByDrop, [Next]_vars
             PROVE  SpoiltByDrop'
  OBVIOUS
<1>0. /\ OneWriter /\ overlaps \intersect Handlers \subseteq drops
      /\ \A d \in 1..Digests : digests[d] \in Nat
      /\ \A k \in Kinds : tmp[k].v \in Nat /\ dest[k].v \in Nat
      /\ \A j \in Jobs : snap[j] \in Nat /\ KindOf[j] \in Kinds
  BY KindIs DEF TornInv, TornOnlyByOverlap, Typed, JobsTyped, FilesTyped, File
<1>1. ASSUME spoilt' = spoilt, drops \subseteq drops' PROVE SpoiltByDrop'
  BY <1>1 DEF SpoiltByDrop
<1>2. ASSUME NEW k, NEW worse, SpoiltBy(k, worse), drops' = drops,
             k \in Handlers /\ k \notin drops => ~worse
      PROVE  SpoiltByDrop'
  BY <1>2 DEF SpoiltByDrop, SpoiltBy
<1>3. CASE CommitVerdict \/ DayPasses \/ UNCHANGED vars
  BY <1>1, <1>3 DEF CommitVerdict, DayPasses, vars, history
<1>4. ASSUME NEW j \in Jobs, \/ Call(j) \/ Serve(j) \/ PassOver(j) \/ Publish(j) \/ Check(j)
                             \/ FetchAll(j) \/ GeneratePage(j) \/ RenderSab(j) \/ End(j)
                             \/ Raise(j) \/ Open(j)
      PROVE  SpoiltByDrop'
  BY <1>1, <1>4 DEF Call, Serve, PassOver, Publish, Check, FetchAll, GeneratePage, RenderSab,
                    Snapshot, End, Raise, Open, history
<1>5. ASSUME NEW j \in Jobs, NEW x \in Items, Deliver(j, x) PROVE SpoiltByDrop'
  BY <1>1, <1>5 DEF Deliver, history
<1>6. ASSUME NEW x \in Kinds, DropChannel(x) \/ Crash(x) PROVE SpoiltByDrop'
  BY <1>1, <1>6 DEF DropChannel, Crash, history
<1>7. ASSUME NEW j \in Jobs, WriteDigests(j) \/ DigestsCut(j) PROVE SpoiltByDrop'
  <2>1. PICK n \in 0..Digests :
          SpoiltBy("brief", \E d \in 1..n : snap[j] < digests[d])
    BY <1>7, DigestsGo
  <2>2. phase[j] = "digest" /\ KindOf[j] = "brief" /\ drops' = drops
    BY <1>7 DEF WriteDigests, DigestsCut, At, OwnPhases
  <2>3. ASSUME "brief" \in Handlers, "brief" \notin drops
        PROVE  ~\E d \in 1..n : snap[j] < digests[d]
    <3>1. \A d \in 1..Digests : digests[d] <= snap[j]
      BY <2>2, <2>3 DEF Fresh, Alone, NoneLater, Rendering
    <3>2. ASSUME NEW d \in 1..n PROVE d \in 1..Digests
      BY BoundsAssumption
    <3>3. ASSUME NEW d \in 1..n PROVE ~(snap[j] < digests[d])
      BY <1>0, <3>1, <3>2
    <3> QED BY <3>3
  <2> QED BY <1>2, <2>1, <2>2, <2>3
<1>8. ASSUME NEW j \in Jobs, Write(j) PROVE SpoiltByDrop'
  <2> DEFINE k == KindOf[j]
  <2>1. PICK whole \in Outcomes(j) :
          SpoiltBy(k, fd[j] = "dest" /\ (~whole \/ snap[j] < dest[k].v))
    BY <1>8 DEF Write
  <2>2. phase[j] = "write" /\ drops' = drops
    BY <1>8 DEF Write, At
  <2>3. ASSUME k \in Handlers, k \notin drops PROVE fd[j] # "dest"
    BY <1>0, <2>2, <2>3 DEF OneWriter
  <2> QED BY <1>2, <2>1, <2>2, <2>3
<1>9. ASSUME NEW j \in Jobs, Rename(j) PROVE SpoiltByDrop'
  <2> DEFINE k == KindOf[j]
  <2>1. /\ SpoiltBy(k, ~tmp[k].whole \/ tmp[k].v < snap[j] \/ tmp[k].v < dest[k].v)
        /\ phase[j] = "rename" /\ tmp[k].there /\ drops' = drops
    BY <1>9 DEF Rename, At
  <2>2. ASSUME k \in Handlers, k \notin drops
        PROVE  ~(~tmp[k].whole \/ tmp[k].v < snap[j] \/ tmp[k].v < dest[k].v)
    <3>1. tmp[k].whole
      BY <1>0, <2>1, <2>2 DEF OneWriter
    <3>2. tmp[k].v = snap[j] /\ dest[k].v <= snap[j]
      BY <2>1, <2>2 DEF Fresh, Alone, NoneLater, Rendering, AtFile
    <3> QED BY <1>0, <3>1, <3>2
  <2> QED BY <1>2, <2>1, <2>2
<1> QED BY <1>3, <1>4, <1>5, <1>6, <1>7, <1>8, <1>9 DEF Next, Step

(* What a job has in hand, what its files show, and that only handlers at  *)
(* work together put an older state back, however the jobs interleave.     *)
THEOREM ShownInvariance == Spec => []ShownInv
<1>1. Init => ShownInv
  <2> SUFFICES ASSUME Init PROVE ShownInv
    OBVIOUS
  <2>1. /\ db = 0 /\ announced = {} /\ spoilt = {} /\ \A k \in Handlers : queue[k] = {}
        /\ \A j \in Jobs : phase[j] = "idle" /\ item[j] = 0 /\ snap[j] = 0
        /\ \A k \in Kinds : tmp[k].v = 0 /\ dest[k].v = 0
        /\ \A d \in 1..Digests : digests[d] = 0
    BY DEF Init, Absent
  <2>2. Bounded
    BY <2>1 DEF Bounded
  <2>3. OwnPhases /\ TookItsItem /\ AnnouncedTook
    BY <2>1 DEF OwnPhases, TookItsItem, AnnouncedTook, Rendering, Kind
  <2>4. Ledger /\ Fresh /\ SpoiltByDrop
    BY <2>1 DEF Ledger, Fresh, SpoiltByDrop, Rendering, Filed, AtFile, Kind
  <2> QED BY <2>2, <2>3, <2>4 DEF ShownInv
<1>2. Typed /\ TornInv /\ ShownInv /\ [Next]_vars => ShownInv'
  BY BoundedStep, OwnPhasesStep, TookStep, LedgerStep, FreshStep, SpoiltStep
     DEF ShownInv, TornInv
<1> QED BY <1>1, <1>2, FilesTypes, TornInvariance, PTL DEF Spec

(* sab.published tells of an item its rendering took in, and the digests   *)
(* and the vault show that rendering or a later one, whole, as long as     *)
(* they are not spoilt; and they are only where brief's channel has        *)
(* dropped and left two handlers at work, never by a crash, an exception   *)
(* or a late end alone.                                                    *)
THEOREM FilesAnnouncedIsShown == Spec => []AnnouncedIsShown
<1>1. ShownInv => AnnouncedIsShown
  BY DEF ShownInv, AnnouncedIsShown, AnnouncedTook, Ledger, DigestsShow, VaultShows,
         SpoiltByDrop
<1> QED BY <1>1, ShownInvariance, PTL

-----------------------------------------------------------------------------
(* What is served exists.                                                  *)
ServedIsThere == \A j \in Jobs : phase[j] = "serve" => dest[KindOf[j]].there

(* A file that is there stays there.                                       *)
LEMMA DestStays ==
  ASSUME Typed, [Next]_vars, NEW k \in Kinds, dest[k].there
  PROVE  dest'[k].there
<1>1. ASSUME NEW j \in Jobs, Write(j) PROVE dest'[k].there
  <2>1. PICK whole \in Outcomes(j) :
          dest' = IF fd[j] = "dest"
                  THEN [dest EXCEPT ![KindOf[j]] = Content(snap[j], whole)] ELSE dest
    BY <1>1 DEF Write
  <2> QED BY <2>1 DEF Content, Typed, FilesTyped
<1>2. ASSUME NEW j \in Jobs, Rename(j) PROVE dest'[k].there
  BY <1>2 DEF Rename, Typed, FilesTyped
<1>3. ASSUME NEW j \in Jobs, Step(j), ~Write(j), ~Rename(j) PROVE dest' = dest
  BY <1>3 DEF Step, Check, FetchAll, GeneratePage, PassOver, RenderSab, Snapshot,
              WriteDigests, DigestsCut, Open, Publish, Serve, End, Raise, files
<1>4. ASSUME NEW j \in Jobs, Call(j) \/ \E i \in Items : Deliver(j, i) PROVE dest' = dest
  BY <1>4 DEF Call, Deliver, files
<1>5. ASSUME NEW x \in Kinds, DropChannel(x) \/ Crash(x) PROVE dest' = dest
  BY <1>5 DEF DropChannel, Crash, files
<1>6. CASE CommitVerdict \/ DayPasses \/ UNCHANGED vars
  BY <1>6 DEF CommitVerdict, DayPasses, vars, files
<1> QED BY <1>1, <1>2, <1>3, <1>4, <1>5, <1>6 DEF Next

LEMMA ServedStep == Typed /\ ServedIsThere /\ [Next]_vars => ServedIsThere'
<1> SUFFICES ASSUME Typed, ServedIsThere, [Next]_vars, NEW j \in Jobs,
                    phase'[j] = "serve"
             PROVE  dest'[KindOf[j]].there
  BY DEF ServedIsThere
<1>1. CASE phase[j] = "serve"
  BY <1>1, DestStays, KindIs DEF ServedIsThere
<1>2. CASE phase[j] # "serve"
  <2>1. Check(j) \/ Rename(j)
    <3>1. ASSUME NEW i \in Jobs, Step(i) PROVE Check(j) \/ Rename(j)
      <4>1. CASE Gone({i})
        BY <1>2, <4>1 DEF Gone
      <4>2. ASSUME NEW p, Go(i, p), p # "serve" PROVE FALSE
        BY <1>2, <4>2 DEF Go, Typed, JobsTyped
      <4>3. CASE Check(i) \/ Rename(i)
        BY <1>2, <4>3 DEF Check, Rename, Go, Typed, JobsTyped
      <4> QED BY <3>1, <4>1, <4>2, <4>3 DEF Step, FetchAll, GeneratePage, PassOver,
                 RenderSab, Snapshot, WriteDigests, DigestsCut, Open, Write, Publish, Serve, End, Raise
    <3>2. ASSUME NEW i \in Jobs, Call(i) \/ \E x \in Items : Deliver(i, x) PROVE FALSE
      BY <1>2, <3>2 DEF Call, Deliver, Go, Typed, JobsTyped
    <3>3. ASSUME NEW k \in Kinds, DropChannel(k) \/ Crash(k) PROVE FALSE
      BY <1>2, <3>3 DEF DropChannel, Crash, Gone
    <3>4. CASE CommitVerdict \/ DayPasses \/ UNCHANGED vars
      BY <1>2, <3>4 DEF CommitVerdict, DayPasses, vars, job
    <3> QED BY <3>1, <3>2, <3>3, <3>4 DEF Next
  <2>2. CASE Check(j)
    BY <1>2, <2>2, DestStays, KindIs DEF Check, UpToDate, Go, Typed, JobsTyped
  <2>3. CASE Rename(j)
    BY <2>3, KindIs DEF Rename, Typed, FilesTyped
  <2> QED BY <2>1, <2>2, <2>3
<1> QED BY <1>1, <1>2

(* A GET serves a whole page, as _write_atomic's docstring says, unless    *)
(* two requests have had the temporary file at once.                       *)
THEOREM FilesReadsAreWhole == Spec => []("get" \in overlaps \/ NoPartialReads)
<1>1. Init => ServedIsThere
  BY DEF Init, ServedIsThere
<1>2. Typed /\ ServedIsThere /\ [Next]_vars => ServedIsThere'
  BY ServedStep
<1>3. ServedIsThere /\ TornOnlyByOverlap => ("get" \in overlaps \/ NoPartialReads)
  BY DEF ServedIsThere, TornOnlyByOverlap, NoPartialReads, Kind, At, Kinds
<1> QED BY <1>1, <1>2, <1>3, FilesTypes, FilesTornOnlyByOverlap, PTL DEF Spec
=============================================================================
