---------------------------- MODULE MvpPollerProofs ----------------------------
(***************************************************************************)
(* Theorems about MvpPoller, for all articles, Fever ids, page sizes and   *)
(* faults: no article is handed to the lane twice, and since_id passes none*)
(* whose row does not say what became of it.                               *)
(***************************************************************************)
EXTENDS MvpPoller, SequenceTheorems, TLAPS

Empty == batch = <<>>

(* What is left of the page are consecutive ids beyond since_id.           *)
PageInv ==
  ~Empty => /\ since < Id
            /\ \A k \in DOMAIN batch : batch[k] = Id + (k - 1) /\ batch[k] <= arrived

(* No article is pushed but in the lane, which it enters once, when it is  *)
(* stored: until then it has no row, no fate and no post.                  *)
Unheard(i) == /\ i \notin claims /\ i \notin doubted
              /\ pushed[i] = 0 /\ fate[i] = None

PushInv ==
  /\ PushedOnce
  /\ \A i \in Items : i \in stored \/ Unheard(i)
  /\ phase = "put" => Item \notin stored
  /\ phase \in {"enrich"} \union Lane => Item \in stored
  /\ phase \in {"enrich", "alert"} => Unheard(Item)
  /\ phase = "judge" => pushed[Item] = 0
  /\ phase = "post" => /\ attempt < Attempts /\ pushed[Item] <= attempt
                       /\ Item \notin doubted => pushed[Item] = 0
  /\ phase = "mark" => pushed[Item] > 0

Settled(i) == Complete(i) \/ i \in upset

(* What the item at hand still needs is what its phase is about to do.     *)
ItemInv ==
  /\ phase \in {"put", "enrich"} /\ ~verdict => Item \notin CatI \/ Item \in upset
  /\ phase \in Lane => Item \in enriched
  /\ phase = "advance" => Settled(Item)
  /\ \A i \in stored :
       Settled(i) \/ (~Empty /\ i = Item /\ phase \in {"enrich"} \union Lane)

(* The ids below the one at hand, or up to since_id where none is.         *)
Passed(n) == IF Empty THEN n <= since ELSE n < Id

GapInv == \A n \in Ids : Passed(n) => Settled(ItemOf[n])

IInv == TypeOK /\ PageInv /\ PushInv /\ ItemInv /\ GapInv

-----------------------------------------------------------------------------
(* Fever ids are numbers, and each stands for an article.                  *)
LEMMA IdsType ==
  /\ Ids = 1..Len(ItemOf) /\ Len(ItemOf) \in Nat
  /\ \A n \in Ids : n \in Nat /\ n > 0 /\ ItemOf[n] \in Items
<1>1. Ids = 1..Len(ItemOf) /\ Len(ItemOf) \in Nat
  BY ItemsAssumption, LenProperties DEF Ids
<1>2. \A n \in Ids : ItemOf[n] \in Items BY <1>1, ItemsAssumption, ElementOfSeq
<1> QED BY <1>1, <1>2

(* The item at hand is one that has arrived.                               *)
LEMMA HereType ==
  ASSUME TypeOK, PageInv, ~Empty
  PROVE  Id \in Ids /\ Id \in Nat /\ Item \in Items /\ since < Id /\ Id <= arrived
<1>1. batch \in Seq(Ids) /\ batch # <<>> BY DEF TypeOK, Empty
<1>2. Id \in Ids BY <1>1, HeadTailProperties DEF Id
<1>3. DOMAIN batch = 1..Len(batch) /\ Len(batch) \in Nat \ {0}
  BY <1>1, LenProperties, EmptySeq
<1>4. Id = batch[1] /\ 1 \in DOMAIN batch BY <1>1, <1>3 DEF Id
<1>5. since < Id /\ Id <= arrived BY <1>4 DEF PageInv
<1> QED BY <1>2, <1>5, IdsType DEF Item

(* Proceed leaves the rest of the page, which starts at the next id.       *)
LEMMA Proceeding ==
  ASSUME TypeOK, PageInv, ~Empty, Proceed
  PROVE  /\ batch' \in Seq(Ids)
         /\ phase' = IF Empty' THEN "notes" ELSE "check"
         /\ ~Empty' => /\ Id' = Id + 1
                       /\ \A k \in DOMAIN batch' :
                            batch'[k] = Id' + (k - 1) /\ batch'[k] <= arrived
<1>1. batch \in Seq(Ids) /\ batch # <<>> /\ batch' = Tail(batch)
  BY DEF TypeOK, Empty, Proceed
<1>2. /\ batch' \in Seq(Ids) /\ Len(batch') = Len(batch) - 1
      /\ \A k \in 1..Len(batch') : batch'[k] = batch[k + 1]
  BY <1>1, HeadTailProperties
<1>3. DOMAIN batch = 1..Len(batch) /\ Len(batch) \in Nat \ {0}
  BY <1>1, LenProperties, EmptySeq
<1>4. DOMAIN batch' = 1..Len(batch') /\ Len(batch') \in Nat
  BY <1>2, LenProperties
<1>5. Empty' <=> Len(batch') = 0 BY <1>2, EmptySeq DEF Empty
<1>6. phase' = IF Empty' THEN "notes" ELSE "check"
  BY <1>2, <1>3, <1>5 DEF Proceed
<1>7. ASSUME ~Empty'
      PROVE  /\ Id' = Id + 1
             /\ \A k \in DOMAIN batch' :
                  batch'[k] = Id' + (k - 1) /\ batch'[k] <= arrived
  <2>1. \A k \in DOMAIN batch' :
          batch'[k] = Id + k /\ batch'[k] <= arrived
    <3> SUFFICES ASSUME NEW k \in DOMAIN batch'
                 PROVE  batch'[k] = Id + k /\ batch'[k] <= arrived
      OBVIOUS
    <3>1. k \in 1..Len(batch') /\ batch'[k] = batch[k + 1] BY <1>2, <1>4
    <3>2. k \in Nat /\ k + 1 \in DOMAIN batch BY <3>1, <1>2, <1>3, <1>4
    <3>3. batch[k + 1] = Id + ((k + 1) - 1) /\ batch[k + 1] <= arrived BY <3>2 DEF PageInv
    <3>4. Id \in Nat BY HereType
    <3> QED BY <3>1, <3>2, <3>3, <3>4
  <2>2. 1 \in DOMAIN batch' BY <1>4, <1>5, <1>7
  <2>3. Id' = batch'[1] BY <1>2, <1>7 DEF Id, Empty
  <2>4. Id' = Id + 1 BY <2>1, <2>2, <2>3
  <2> QED BY <2>1, <2>4, <1>4, HereType
<1> QED BY <1>2, <1>6, <1>7

-----------------------------------------------------------------------------
LEMMA InitInv == Init => IInv
<1> SUFFICES ASSUME Init PROVE IInv OBVIOUS
<1>1. TypeOK
  <2>1. arrived \in 0..Len(ItemOf) /\ since \in 0..arrived /\ file \in 0..since
    BY IdsType DEF Init
  <2>2. faults \in 0..MaxFaults /\ pushed \in [Items -> Nat]
    BY BoundsAssumption DEF Init
  <2>3. batch = <<>> /\ batch \in Seq(Ids) BY EmptySeq DEF Init
  <2>4. attempt \in 0..Attempts BY BoundsAssumption DEF Init
  <2> QED BY <2>1, <2>2, <2>3, <2>4 DEF Init, TypeOK, Phases, Lane
<1>2. PageInv /\ ItemInv BY DEF Init, PageInv, ItemInv, Empty, Lane
<1>4. PushInv
  BY BoundsAssumption DEF Init, PushInv, PushedOnce, Unheard, Lane
<1>3. GapInv BY IdsType DEF Init, GapInv, Passed, Empty
<1> QED BY <1>1, <1>2, <1>3, <1>4 DEF IInv

(* What a poll leaves: a page of consecutive ids beyond since_id.          *)
LEMMA PollPage ==
  ASSUME TypeOK, Poll
  PROVE  /\ batch' \in Seq(Ids) /\ ~Empty' /\ Id' = since + 1
         /\ \A k \in DOMAIN batch' : batch'[k] = Id' + (k - 1) /\ batch'[k] <= arrived
<1> DEFINE length == Least(PageSize, arrived - since)
<1>1. since \in Nat /\ arrived \in Nat /\ arrived <= Len(ItemOf) /\ since < arrived
  BY IdsType DEF TypeOK, Poll
<1>2. length \in Nat \ {0} /\ length <= arrived - since
  BY <1>1, BoundsAssumption DEF Least
<1>3. batch' = [k \in 1..length |-> since + k] BY DEF Poll
<1>4. \A k \in 1..length : since + k \in Ids BY <1>1, <1>2, IdsType
<1> HIDE DEF length
<1>5. batch' \in [1..length -> Ids] BY <1>3, <1>4
<1>6. batch' \in Seq(Ids) BY <1>2, <1>5, SeqDef
<1>7. DOMAIN batch' = 1..length BY <1>3
<1>8. batch' # <<>> BY <1>2, <1>6, <1>7, LenProperties, EmptySeq
<1>9. Id' = since + 1 BY <1>2, <1>3, <1>6, <1>8 DEF Id
<1> QED BY <1>1, <1>2, <1>3, <1>6, <1>7, <1>8, <1>9 DEF Empty

-----------------------------------------------------------------------------
(* The type invariant needs that the page has arrived, and that what is    *)
(* about to be enriched is stored.                                         *)
LEMMA TypeStep == TypeOK /\ PageInv /\ PushInv /\ [Next]_vars => TypeOK'
<1> SUFFICES ASSUME TypeOK, PageInv, PushInv, [Next]_vars PROVE TypeOK' OBVIOUS
<1> USE DEF rows, alerts, history, Phases, Lane
<1>1. CASE Arrive BY <1>1, IdsType DEF TypeOK, Arrive
<1>2. CASE Poll BY <1>2, PollPage DEF TypeOK, Poll, Empty
<1>3. CASE Skip BY <1>3 DEF TypeOK, Skip
<1>4. CASE Score
  <2>1. Item \in Items BY <1>4, HereType DEF Score, TypeOK, Empty
  <2>2. faults' \in 0..MaxFaults BY <1>4, BoundsAssumption DEF Score, Fault, TypeOK
  <2>3. upset' \subseteq Items BY <1>4, <2>1 DEF Score, TypeOK
  <2>4. verdict' = (Item \in CatI) \/ verdict' = FALSE BY <1>4, Zenon DEF Score
  <2>5. verdict' \in BOOLEAN
    <3>1. (Item \in CatI) \in BOOLEAN OBVIOUS
    <3> QED BY <2>4, <3>1, Zenon
  <2> QED BY <1>4, <2>2, <2>3, <2>5 DEF TypeOK, Score
<1>5. CASE PutItem
  <2>1. Item \in Items BY <1>5, HereType DEF PutItem, TypeOK, Empty
  <2> QED BY <1>5, <2>1 DEF TypeOK, PutItem
<1>6. CASE PutEnrichment
  <2>1. phase' \in {"alert", "advance"} BY <1>6 DEF PutEnrichment
  <2>2. Item \in stored BY <1>6 DEF PutEnrichment, PushInv
  <2> QED BY <1>6, <2>1, <2>2 DEF TypeOK, PutEnrichment
<1>7. CASE Claim
  <2>1. Item \in Items BY <1>7, HereType DEF Claim, TypeOK, Empty
  <2>2. /\ claims' \subseteq Items /\ recent' \subseteq claims'
        /\ fate' \in [Items -> Fates \union {None}] /\ phase' \in {"advance", "judge"}
    BY <1>7, <2>1 DEF TypeOK, Claim
  <2> QED BY <1>7, <2>2 DEF TypeOK, Claim
<1>15. CASE Pass
  <2>1. attempt' \in 0..Attempts BY <1>15, BoundsAssumption DEF Pass
  <2> QED BY <1>15, <2>1 DEF TypeOK, Pass
<1>16. CASE Suppress \/ MarkDelivered \/ Bury
  <2>1. fate' \in [Items -> Fates \union {None}]
    BY <1>16 DEF TypeOK, Suppress, MarkDelivered, Bury, Fates
  <2> QED BY <1>16, <2>1 DEF TypeOK, Suppress, MarkDelivered, Bury
<1>17. CASE Post
  <2>0. Item \in Items BY <1>17, HereType DEF Post, TypeOK, Empty
  <2>1. pushed' \in [Items -> Nat] BY <1>17, <2>0 DEF TypeOK, Post
  <2> QED BY <1>17, <2>1 DEF TypeOK, Post
<1>18. CASE PostFails
  <2>0. Item \in Items BY <1>18, HereType DEF PostFails, TypeOK, Empty
  <2>1. pushed' \in [Items -> Nat] /\ doubted' \subseteq Items
    BY <1>18, <2>0 DEF TypeOK, PostFails
  <2>2. faults' \in 0..MaxFaults BY <1>18, BoundsAssumption DEF PostFails, Fault, TypeOK
  <2>3. attempt' \in 0..Attempts /\ phase' \in {"post", "bury"}
    BY <1>18, BoundsAssumption DEF PostFails, PushInv, TypeOK
  <2> QED BY <1>18, <2>1, <2>2, <2>3 DEF TypeOK, PostFails
<1>19. CASE WindowPasses \/ \E i \in Items : TTLPasses(i)
  BY <1>19 DEF TypeOK, WindowPasses, TTLPasses
<1>8. CASE Advance
  <2>1. ~Empty BY <1>8 DEF Advance, TypeOK, Empty
  <2>2. since' \in 0..arrived' /\ file' \in 0..since'
    BY <1>8, <2>1, HereType DEF Advance, Greatest, TypeOK
  <2> QED BY <1>8, <2>1, <2>2, Proceeding DEF TypeOK, Advance, Empty
<1>9. CASE ItemRaises
  <2>1. ~Empty BY <1>9 DEF ItemRaises, TypeOK, Empty
  <2>2. faults' \in 0..MaxFaults BY <1>9, BoundsAssumption DEF ItemRaises, Fault, TypeOK
  <2>3. failed' \subseteq Ids /\ upset' \subseteq Items
    BY <1>9, <2>1, HereType DEF ItemRaises, GiveUp, TypeOK
  <2> QED BY <1>9, <2>1, <2>2, <2>3, Proceeding DEF TypeOK, ItemRaises, GiveUp, Empty
<1>11. CASE AdvanceRaises
  <2>1. ~Empty BY <1>11 DEF AdvanceRaises, TypeOK, Empty
  <2>2. faults' \in 0..MaxFaults BY <1>11, BoundsAssumption DEF AdvanceRaises, Fault, TypeOK
  <2>3. failed' \subseteq Ids /\ upset' \subseteq Items
    BY <1>11, <2>1, HereType DEF AdvanceRaises, GiveUp, TypeOK
  <2>4. since' \in 0..arrived' /\ file' \in 0..since'
    BY <1>11, <2>1, HereType DEF AdvanceRaises, Greatest, TypeOK
  <2> QED BY <1>11, <2>1, <2>2, <2>3, <2>4, Proceeding DEF TypeOK, AdvanceRaises, GiveUp, Empty
<1>12. CASE WriteNotes
  <2>1. faults' \in 0..MaxFaults BY <1>12, BoundsAssumption DEF WriteNotes, Fault, TypeOK
  <2>2. noted' \subseteq enriched BY <1>12 DEF WriteNotes, TypeOK
  <2> QED BY <1>12, <2>1, <2>2 DEF TypeOK, WriteNotes
<1>13. CASE Crash
  <2>1. faults' \in 0..MaxFaults BY <1>13, BoundsAssumption DEF Crash, Fault, TypeOK
  <2>2. upset' \subseteq Items BY <1>13, HereType DEF Crash, TypeOK, Empty
  <2>3. since' \in 0..arrived' /\ file' \in 0..since' BY <1>13 DEF Crash, TypeOK
  <2>4. batch' = <<>> /\ batch' \in Seq(Ids) /\ phase' = "asleep" /\ fresh' = {}
    BY <1>13, EmptySeq DEF Crash
  <2> QED BY <1>13, <2>1, <2>2, <2>3, <2>4 DEF TypeOK, Crash
<1>14. CASE UNCHANGED vars BY <1>14 DEF TypeOK, vars
<1> QED BY <1>1, <1>2, <1>3, <1>4, <1>5, <1>6, <1>7, <1>8, <1>9, <1>11, <1>12, <1>13,
           <1>14, <1>15, <1>16, <1>17, <1>18, <1>19
      DEF Next, Work

-----------------------------------------------------------------------------
(* What the item at hand is depends on the page alone.                     *)
LEMMA SameItem ==
  ASSUME UNCHANGED batch
  PROVE  (Empty' <=> Empty) /\ Id' = Id /\ Item' = Item
BY DEF Empty, Id, Item

(* The page stays beyond since_id: what advances it takes the item off.    *)
LEMMA PageStep == TypeOK /\ PageInv /\ [Next]_vars => PageInv'
<1> SUFFICES ASSUME TypeOK, PageInv, [Next]_vars PROVE PageInv' OBVIOUS
<1>1. CASE UNCHANGED <<since, batch, arrived>> BY <1>1 DEF PageInv, Empty, Id
<1>2. CASE Arrive
  <2>1. arrived' = arrived + 1 /\ UNCHANGED <<since, batch>> BY <1>2 DEF Arrive
  <2>2. arrived \in Nat BY IdsType DEF TypeOK
  <2>3. ASSUME ~Empty, NEW k \in DOMAIN batch PROVE batch[k] <= arrived'
    <3>1. batch[k] = Id + (k - 1) /\ batch[k] <= arrived BY <2>3 DEF PageInv
    <3>2. k \in Nat BY LenProperties DEF TypeOK
    <3> QED BY <3>1, <3>2, <2>1, <2>2, <2>3, HereType
  <2> QED BY <2>1, <2>3 DEF PageInv, Empty, Id
<1>3. CASE Poll
  <2>1. since' = since /\ arrived' = arrived /\ since \in Nat
    BY <1>3, IdsType DEF Poll, TypeOK
  <2> QED BY <1>3, <2>1, PollPage DEF PageInv
<1>4. CASE Proceed /\ ~Empty /\ arrived' = arrived /\ since' \in {since, Greatest(since, Id)}
  <2>1. since' \in Int /\ since' <= Id BY <1>4, HereType DEF Greatest, TypeOK
  <2>2. ~Empty' => since' < Id' BY <1>4, <2>1, HereType, Proceeding
  <2> QED BY <1>4, <2>2, Proceeding DEF PageInv
<1>5. CASE Advance \/ ItemRaises \/ AdvanceRaises
  BY <1>4, <1>5 DEF Advance, ItemRaises, AdvanceRaises, GiveUp, TypeOK, Empty, Lane
<1>6. CASE Crash BY <1>6 DEF Crash, PageInv, Empty
<1> QED BY <1>1, <1>2, <1>3, <1>5, <1>6
      DEF Next, Work, Skip, Score, PutItem, PutEnrichment, Claim, Pass, Suppress, Post,
          PostFails, MarkDelivered, Bury, WindowPasses, TTLPasses, WriteNotes, vars

-----------------------------------------------------------------------------
(* What the lane does to the item at hand is all that happens to a push, a *)
(* row or a fate.                                                          *)
LEMMA PushStep == TypeOK /\ PageInv /\ PushInv /\ [Next]_vars => PushInv'
<1> SUFFICES ASSUME TypeOK, PageInv, PushInv, [Next]_vars PROVE PushInv' OBVIOUS
<1> DEFINE Quiet == /\ UNCHANGED <<pushed, doubted, stored, fate>>
                    /\ claims' \subseteq claims
<1>0. ASSUME Quiet
      PROVE  PushedOnce' /\ \A i \in Items : (i \in stored \/ Unheard(i))'
  BY <1>0 DEF PushInv, PushedOnce, Unheard
<1>1. ASSUME Quiet, phase' \notin {"put", "enrich"} \union Lane PROVE PushInv'
  BY <1>0, <1>1 DEF PushInv, Lane
<1>2. CASE Arrive \/ UNCHANGED vars \/ WindowPasses \/ \E i \in Items : TTLPasses(i)
  <2>1. /\ Quiet /\ UNCHANGED <<batch, phase, attempt>>
    BY <1>2 DEF Arrive, WindowPasses, TTLPasses, rows, alerts, history, vars
  <2>2. Unheard(Item) => Unheard(Item)'
    BY <2>1, SameItem DEF Unheard
  <2> QED BY <1>0, <2>1, <2>2, SameItem DEF PushInv
<1>3. CASE Poll \/ Skip \/ WriteNotes \/ Crash
  BY <1>1, <1>3 DEF Poll, Skip, WriteNotes, Crash, rows, alerts, history, Lane
<1>4. CASE Advance \/ ItemRaises \/ AdvanceRaises
  <2>1. phase' \in {"check", "notes"}
    BY <1>4 DEF Advance, ItemRaises, AdvanceRaises, GiveUp, Proceed
  <2> QED BY <1>1, <1>4, <2>1 DEF Advance, ItemRaises, AdvanceRaises, rows, alerts, history, Lane
<1>5. CASE Score
  <2>1. Item' = Item /\ Item \notin stored /\ phase' = "put" /\ Quiet
    BY <1>5, SameItem DEF Score, Known, rows, alerts
  <2> QED BY <1>0, <2>1 DEF PushInv, Lane
<1>6. CASE PutItem
  <2>1. /\ Item' = Item /\ Item \notin stored /\ stored' = stored \union {Item}
        /\ phase' = "enrich" /\ UNCHANGED <<pushed, doubted, fate, claims>>
    BY <1>6, SameItem DEF PutItem, PushInv, alerts, history
  <2>2. Item \in Items BY <1>6, HereType DEF PutItem, TypeOK, Empty
  <2>3. Unheard(Item)' BY <2>1, <2>2 DEF PushInv, Unheard
  <2>4. PushedOnce' /\ \A i \in Items : (i \in stored \/ Unheard(i))'
    BY <2>1 DEF PushInv, PushedOnce, Unheard
  <2> QED BY <2>1, <2>2, <2>3, <2>4 DEF PushInv, Lane
<1>7. CASE PutEnrichment
  <2>1. /\ Item' = Item /\ Quiet /\ phase = "enrich" /\ phase' \in {"alert", "advance"}
    BY <1>7, SameItem DEF PutEnrichment, alerts, history
  <2>2. Unheard(Item)' BY <2>1 DEF PushInv, Unheard
  <2> QED BY <1>0, <2>1, <2>2 DEF PushInv, Lane
<1>8. ASSUME phase \in Lane
      PROVE  /\ Item \in Items /\ Item \in stored
             /\ pushed \in [Items -> Nat] /\ Attempts \in Nat \ {0}
  BY <1>8, HereType, BoundsAssumption DEF PushInv, TypeOK, Empty, Lane
(* A step of the lane touches the item at hand alone.                      *)
<1>9. ASSUME phase \in Lane, stored' = stored,
             \A i \in Items : i # Item =>
               /\ pushed'[i] = pushed[i] /\ fate'[i] = fate[i]
               /\ (i \in doubted' <=> i \in doubted) /\ (i \in claims' <=> i \in claims),
             pushed'[Item] <= IF Item \in doubted' THEN Attempts ELSE 1
      PROVE  PushedOnce' /\ \A i \in Items : (i \in stored \/ Unheard(i))'
  BY <1>8, <1>9 DEF PushInv, PushedOnce, Unheard
<1>10. CASE Claim
  <2>1. /\ phase \in Lane /\ Item' = Item /\ phase' = "judge"
        /\ UNCHANGED <<stored, pushed, doubted>> /\ claims' = claims \union {Item}
        /\ fate' = [fate EXCEPT ![Item] = None] /\ pushed[Item] = 0
    BY <1>10, SameItem DEF Claim, PushInv, Unheard, Lane, rows, history
  <2>2. PushedOnce' /\ \A i \in Items : (i \in stored \/ Unheard(i))'
    BY <1>8, <1>9, <2>1 DEF TypeOK
  <2> QED BY <1>8, <2>1, <2>2 DEF PushInv, Lane
<1>11. CASE Pass
  <2>1. /\ phase = "judge" /\ Item' = Item /\ phase' = "post" /\ Quiet /\ attempt' = 0
    BY <1>11, SameItem DEF Pass, rows, history
  <2> QED BY <1>0, <1>8, <2>1 DEF PushInv, Lane
<1>12. CASE Suppress \/ MarkDelivered \/ Bury
  <2>1. /\ phase \in Lane /\ phase' = "advance"
        /\ UNCHANGED <<stored, pushed, doubted, claims>>
        /\ \A i \in Items : i # Item => fate'[i] = fate[i]
    BY <1>12 DEF Suppress, MarkDelivered, Bury, rows, history, Lane, TypeOK
  <2>2. pushed'[Item] <= IF Item \in doubted' THEN Attempts ELSE 1
    BY <1>8, <2>1 DEF PushInv, PushedOnce
  <2>3. PushedOnce' /\ \A i \in Items : (i \in stored \/ Unheard(i))'
    BY <1>9, <2>1, <2>2
  <2> QED BY <2>1, <2>3 DEF PushInv, Lane
<1>13. CASE Post
  <2>1. /\ phase = "post" /\ Item' = Item /\ phase' = "mark"
        /\ UNCHANGED <<stored, doubted, fate, claims>>
        /\ pushed' = [pushed EXCEPT ![Item] = @ + 1]
    BY <1>13, SameItem DEF Post, rows, alerts
  <2>2. /\ pushed'[Item] = pushed[Item] + 1 /\ attempt \in Nat
        /\ \A i \in Items : i # Item => pushed'[i] = pushed[i]
    BY <1>8, <2>1 DEF Lane, TypeOK
  <2>3. pushed'[Item] <= IF Item \in doubted' THEN Attempts ELSE 1
    BY <1>8, <2>1, <2>2 DEF PushInv, Lane
  <2>4. PushedOnce' /\ \A i \in Items : (i \in stored \/ Unheard(i))'
    BY <1>9, <2>1, <2>2, <2>3 DEF Lane
  <2> QED BY <1>8, <2>1, <2>2, <2>4 DEF PushInv, Lane
<1>14. CASE PostFails
  <2>1. /\ phase = "post" /\ Item' = Item /\ UNCHANGED <<stored, fate, claims>>
        /\ attempt' = attempt + 1 /\ attempt \in Nat /\ attempt < Attempts
        /\ phase' = IF attempt' < Attempts THEN "post" ELSE "bury"
        /\ \/ UNCHANGED <<pushed, doubted>>
           \/ /\ pushed' = [pushed EXCEPT ![Item] = @ + 1]
              /\ doubted' = doubted \union {Item}
    BY <1>14, SameItem, BoundsAssumption DEF PostFails, rows, PushInv, TypeOK
  <2>2. /\ pushed'[Item] <= attempt'
        /\ Item \notin doubted' => pushed'[Item] = 0
        /\ pushed'[Item] \in Nat
        /\ \A i \in Items : i # Item =>
             pushed'[i] = pushed[i] /\ (i \in doubted' <=> i \in doubted)
    BY <1>8, <2>1 DEF Lane, PushInv
  <2>3. pushed'[Item] <= IF Item \in doubted' THEN Attempts ELSE 1
    BY <1>8, <2>1, <2>2 DEF Lane
  <2>4. PushedOnce' /\ \A i \in Items : (i \in stored \/ Unheard(i))'
    BY <1>9, <2>1, <2>2, <2>3 DEF Lane
  <2> QED BY <1>8, <2>1, <2>2, <2>4 DEF PushInv, Lane
<1> QED BY <1>2, <1>3, <1>4, <1>5, <1>6, <1>7, <1>10, <1>11, <1>12, <1>13, <1>14 DEF Next, Work

-----------------------------------------------------------------------------
(* Nothing is unstored, unpushed or forgotten: what is settled stays so.   *)
LEMMA SettledStays ==
  ASSUME TypeOK, PageInv, PushInv, [Next]_vars, NEW i \in Items, Settled(i)
  PROVE  Settled(i)'
<1> USE DEF rows, alerts, history, vars
<1>1. enriched \subseteq enriched' /\ upset \subseteq upset'
  BY DEF Next, Work, Arrive, Poll, Skip, Score, PutItem, PutEnrichment, Claim, Pass, Suppress,
         Post, PostFails, MarkDelivered, Bury, Advance, ItemRaises, AdvanceRaises, WriteNotes,
         Crash, GiveUp, WindowPasses, TTLPasses
<1>2. \/ pushed' = pushed
      \/ ~Empty /\ pushed' = [pushed EXCEPT ![Item] = @ + 1]
  BY DEF Next, Work, Arrive, Poll, Skip, Score, PutItem, PutEnrichment, Claim, Pass, Suppress,
         Post, PostFails, MarkDelivered, Bury, Advance, ItemRaises, AdvanceRaises, WriteNotes,
         Crash, WindowPasses, TTLPasses, TypeOK, Empty
<1>3. pushed[i] > 0 => pushed'[i] > 0
  <2>1. pushed \in [Items -> Nat] BY DEF TypeOK
  <2>2. CASE pushed' = pushed BY <2>2
  <2>3. CASE ~Empty /\ pushed' = [pushed EXCEPT ![Item] = @ + 1] BY <2>1, <2>3
  <2> QED BY <1>2, <2>2, <2>3
<1>4. \/ fate'[i] = fate[i]
      \/ fate'[i] # None /\ (fate'[i] = "delivered" => pushed'[i] > 0)
  <2>1. CASE Claim
    <3>1. Item \in Items /\ fate[Item] = None /\ fate \in [Items -> Fates \union {None}]
      BY <2>1, HereType DEF Claim, PushInv, Unheard, TypeOK, Empty
    <3> QED BY <2>1, <3>1 DEF Claim
  <2>2. CASE Suppress \/ Bury
    BY <2>2, NoneAssumption DEF Suppress, Bury, TypeOK
  <2>3. CASE MarkDelivered
    BY <2>3, NoneAssumption DEF MarkDelivered, TypeOK, PushInv
  <2>4. CASE fate' = fate BY <2>4
  <2> QED BY <2>1, <2>2, <2>3, <2>4
          DEF Next, Work, Arrive, Poll, Skip, Score, PutItem, PutEnrichment, Pass, Post,
              PostFails, Advance, ItemRaises, AdvanceRaises, WriteNotes, Crash, WindowPasses,
              TTLPasses
<1> QED BY <1>1, <1>3, <1>4 DEF Settled, Complete

(* An item the cycle has failed on, or ended under, is upset.              *)
LEMMA ItemStep == TypeOK /\ PageInv /\ PushInv /\ ItemInv /\ [Next]_vars => ItemInv'
<1> SUFFICES ASSUME TypeOK, PageInv, PushInv, ItemInv, [Next]_vars PROVE ItemInv' OBVIOUS
<1> DEFINE AtHand(i) == ~Empty /\ i = Item /\ phase \in {"enrich"} \union Lane
<1>1. \A i \in Items : Settled(i) => Settled(i)' BY SettledStays
<1>2. stored \subseteq Items BY DEF TypeOK
<1>3. \A i \in stored : Settled(i)' \/ AtHand(i) BY <1>1, <1>2 DEF ItemInv
<1>4. ASSUME UNCHANGED stored, phase' \notin {"put", "enrich", "advance"} \union Lane,
             phase \notin {"enrich"} \union Lane \/ Empty \/ Item \in upset'
      PROVE  ItemInv'
  BY <1>3, <1>4 DEF ItemInv, Settled
<1> USE DEF Lane
<1>5. CASE Arrive \/ UNCHANGED vars \/ WindowPasses \/ \E i \in Items : TTLPasses(i)
  <2>1. UNCHANGED <<batch, phase, verdict, stored, enriched, fate, pushed, upset>>
    BY <1>5 DEF Arrive, WindowPasses, TTLPasses, rows, alerts, history, vars
  <2> QED BY <1>3, <2>1, SameItem DEF ItemInv, Settled, Complete
<1>6. CASE Poll \/ WriteNotes
  BY <1>4, <1>6 DEF Poll, WriteNotes, rows
<1>7. CASE Crash BY <1>4, <1>7 DEF Crash, rows, Empty
<1>8. CASE Advance BY <1>4, <1>8 DEF Advance, Proceed, rows
<1>9. CASE ItemRaises \/ AdvanceRaises
  <2>1. Item \in upset' /\ phase' \in {"check", "notes"} /\ UNCHANGED stored
    BY <1>9 DEF ItemRaises, AdvanceRaises, GiveUp, Proceed, rows
  <2> QED BY <1>4, <2>1
<1>10. CASE Skip
  <2>1. /\ Item' = Item /\ UNCHANGED stored /\ phase = "check" /\ phase' = "advance"
        /\ Item \in stored
    BY <1>10, SameItem DEF Skip, Known, rows
  <2> QED BY <1>3, <2>1 DEF ItemInv, Settled, Complete
<1>11. CASE Score
  <2>1. Item' = Item /\ UNCHANGED stored /\ phase = "check" /\ phase' = "put"
    BY <1>11, SameItem DEF Score, rows
  <2>2. ~verdict' => Item \notin CatI \/ Item \in upset' BY <1>11 DEF Score
  <2> QED BY <1>3, <2>1, <2>2 DEF ItemInv, Settled, Complete
<1>12. CASE PutItem
  <2>1. /\ Item' = Item /\ ~Empty' /\ stored' = stored \union {Item} /\ phase = "put"
        /\ phase' = "enrich" /\ UNCHANGED <<verdict, upset>>
    BY <1>12, SameItem DEF PutItem, history, TypeOK, Empty
  <2> QED BY <1>3, <2>1 DEF ItemInv, Settled, Complete
<1>13. CASE PutEnrichment
  <2>1. /\ Item' = Item /\ ~Empty /\ (Empty' <=> Empty) /\ UNCHANGED <<stored, upset>>
        /\ phase = "enrich" /\ Item \in enriched'
        /\ phase' = IF verdict THEN "alert" ELSE "advance"
    BY <1>13, SameItem DEF PutEnrichment, history, TypeOK, Empty
  <2>2. CASE verdict BY <1>3, <2>1, <2>2 DEF ItemInv, Settled, Complete
  <2>3. CASE ~verdict
    <3>1. Settled(Item)' BY <2>1, <2>3 DEF ItemInv, Settled, Complete
    <3> QED BY <1>3, <2>1, <2>3, <3>1 DEF ItemInv, Settled, Complete
  <2> QED BY <2>2, <2>3
<1>14. ASSUME phase \in Lane, phase' \in Lane, UNCHANGED <<batch, stored, enriched>>
       PROVE  ItemInv'
  <2>1. Item' = Item /\ ~Empty /\ (Empty' <=> Empty)
    BY <1>14, SameItem DEF TypeOK, Empty, Phases
  <2> QED BY <1>3, <1>14, <2>1 DEF ItemInv
<1>15. CASE Claim
  <2>1. phase' = "judge" BY <1>15 DEF Claim, PushInv, Unheard
  <2> QED BY <1>14, <1>15, <2>1 DEF Claim, rows
<1>16. CASE Pass \/ Post \/ PostFails
  BY <1>14, <1>16 DEF Pass, Post, PostFails, rows
<1>17. CASE Suppress \/ MarkDelivered \/ Bury
  <2>1. /\ Item' = Item /\ UNCHANGED <<stored, enriched, pushed>> /\ phase \in Lane
        /\ phase' = "advance"
    BY <1>17, SameItem DEF Suppress, MarkDelivered, Bury, rows, history
  <2>2. Item \in Items /\ fate \in [Items -> Fates \union {None}]
    BY <2>1, HereType DEF TypeOK, Empty
  <2>3. fate'[Item] # None /\ (fate'[Item] = "delivered" => pushed[Item] > 0)
    BY <1>17, <2>2, NoneAssumption DEF Suppress, MarkDelivered, Bury, PushInv
  <2>4. Settled(Item)' BY <2>1, <2>3 DEF ItemInv, Settled, Complete
  <2> QED BY <1>3, <2>1, <2>4 DEF ItemInv, Settled, Complete
<1> QED BY <1>5, <1>6, <1>7, <1>8, <1>9, <1>10, <1>11, <1>12, <1>13, <1>15, <1>16, <1>17
      DEF Next, Work

-----------------------------------------------------------------------------
(* The ids that are passed grow by the one at hand, when it is settled.    *)
LEMMA GapStep == IInv /\ [Next]_vars => GapInv'
<1> SUFFICES ASSUME IInv, [Next]_vars PROVE GapInv' OBVIOUS
<1> USE DEF IInv
<1>1. \A n \in Ids : Settled(ItemOf[n]) => Settled(ItemOf[n])'
  BY SettledStays, IdsType
<1>2. ASSUME \A n \in Ids : Passed(n)' => Passed(n) \/ Settled(ItemOf[n])' PROVE GapInv'
  BY <1>1, <1>2 DEF GapInv
<1>3. CASE UNCHANGED <<since, batch>>
  <2>1. \A n \in Ids : Passed(n)' <=> Passed(n) BY <1>3, SameItem DEF Passed
  <2> QED BY <1>2, <2>1
<1>4. CASE Poll
  <2>1. Empty /\ since \in Nat BY <1>4, IdsType DEF Poll, TypeOK, Empty
  <2>2. \A n \in Ids : Passed(n)' => n < since + 1 BY <1>4, PollPage DEF Passed
  <2>3. \A n \in Ids : Passed(n)' => Passed(n) BY <2>1, <2>2, IdsType DEF Passed
  <2> QED BY <1>2, <2>3
<1>5. ASSUME Proceed, ~Empty, since' \in {since, Greatest(since, Id)},
             NEW i, i = Item, Settled(i)'
      PROVE  GapInv'
  <2>1. Id \in Nat /\ since \in Nat /\ since < Id BY <1>5, HereType, IdsType DEF TypeOK
  <2>2. since' \in Nat /\ since' <= Id BY <1>5, <2>1 DEF Greatest
  <2>3. \A n \in Ids : Passed(n)' => n <= Id
    BY <1>5, <2>1, <2>2, Proceeding, IdsType DEF Passed
  <2>4. \A n \in Ids : Passed(n)' => Passed(n) \/ n = Id
    BY <1>5, <2>1, <2>3, IdsType DEF Passed
  <2>5. i = ItemOf[Id] BY <1>5 DEF Item
  <2> QED BY <1>2, <1>5, <2>4, <2>5
<1>6. CASE Advance
  <2>1. Item \in Items /\ Settled(Item) BY <1>6, HereType DEF Advance, ItemInv, TypeOK, Empty
  <2>2. PICK i \in Items : i = Item BY <2>1
  <2>3. Settled(i)' BY <2>1, <2>2, SettledStays
  <2> QED BY <1>5, <1>6, <2>2, <2>3 DEF Advance, TypeOK, Empty
<1>7. CASE ItemRaises \/ AdvanceRaises
  <2>1. PICK i : i = Item OBVIOUS
  <2>2. i \in upset'
    BY <1>7, <2>1 DEF ItemRaises, AdvanceRaises, GiveUp
  <2>3. ~Empty /\ Proceed /\ since' \in {since, Greatest(since, Id)}
    BY <1>7 DEF ItemRaises, AdvanceRaises, GiveUp, TypeOK, Empty, Lane
  <2> QED BY <1>5, <2>1, <2>2, <2>3 DEF Settled
<1>8. CASE Crash
  <2>1. Empty' /\ since' = file /\ file \in Nat /\ file <= since /\ since \in Nat
    BY <1>8, IdsType DEF Crash, Empty, TypeOK
  <2>2. \A n \in Ids : Passed(n)' => n <= since BY <2>1, IdsType DEF Passed
  <2>3. \A n \in Ids : Passed(n)' => Passed(n) BY <2>1, <2>2, HereType, IdsType DEF Passed
  <2> QED BY <1>2, <2>3
<1> QED BY <1>3, <1>4, <1>6, <1>7, <1>8
      DEF Next, Work, Arrive, Skip, Score, PutItem, PutEnrichment, Claim, Pass, Suppress,
          Post, PostFails, MarkDelivered, Bury, WindowPasses, TTLPasses, WriteNotes, vars

-----------------------------------------------------------------------------
(* What holds at every moment of the poller, from which the rest follows.  *)
THEOREM Invariance == Spec => []IInv
<1>1. Init => IInv BY InitInv
<1>2. IInv /\ [Next]_vars => IInv'
  BY TypeStep, PageStep, PushStep, ItemStep, GapStep DEF IInv
<1> QED BY <1>1, <1>2, PTL DEF Spec

(* Every variable has its type, and since_id neither overtakes FreshRSS    *)
(* nor falls behind the state file.                                        *)
THEOREM TypeCorrect == Spec => []TypeOK
<1>1. IInv => TypeOK BY DEF IInv
<1> QED BY <1>1, Invariance, PTL

(* No article is handed to the lane twice, whatever fails, and however     *)
(* often a restart makes the poller fetch it again: the row is written     *)
(* before the lane is called and _kept looks for the row.  So ntfy takes   *)
(* it twice only where the lane itself posted again after a post that had  *)
(* taken effect.                                                           *)
THEOREM PushedAtMostOnce == Spec => []PushedOnce
<1>1. IInv => PushedOnce BY DEF IInv, PushInv
<1> QED BY <1>1, Invariance, PTL

(* since_id never passes an article that is not scored, or CAT I without a *)
(* row that says delivered, suppressed or given up, unless its processing  *)
(* has raised, was cut off or misjudged it.                                *)
THEOREM GapsAreKnown == Spec => []NoSilentGap
<1>1. ASSUME IInv, NEW n \in Ids, n <= since, batch = <<>> \/ n < Id
      PROVE  Complete(ItemOf[n]) \/ ItemOf[n] \in upset
  BY <1>1 DEF IInv, GapInv, Passed, Empty, Settled
<1>2. IInv => NoSilentGap BY <1>1 DEF NoSilentGap
<1> QED BY <1>2, Invariance, PTL
=============================================================================
