------------------------------- MODULE Documents -------------------------------
(***************************************************************************)
(* What apps/brief makes of the verdicts: the clusters of clustering.py,   *)
(* and which verdict stands where in brief.md, cluster.md, sab.html and    *)
(* the vault's obsidian-sab.md.  (list.md is those that score 8.)          *)
(*                                                                         *)
(* The rows are those of the query, ORDER BY score DESC, with ties in any  *)
(* order.  Every sort the renderers do by score is stable and finds its    *)
(* rows in that order, so a selection of rows is a sequence of their       *)
(* positions, ascending.  An embedding is a vector in the plane; distances *)
(* are compared by the squares of the cosines.  A document is which rows   *)
(* it shows under which heading; wording and markup are left out, and that *)
(* a CCIR may be spelled in lower case, too.                               *)
(***************************************************************************)
EXTENDS Integers, SequencesExt

CONSTANTS
  Order,       \* CCIR_ORDER, the requirements that have a heading, once each
  NoCcir,      \* the ccir of a row that answers none
  Unlisted,    \* what else a model's answer may give, which nobody checks
  Scores,
  Vectors,     \* embeddings, pairs of naturals, not <<0, 0>>
  NoVector,    \* the LEFT JOIN finds none
  SectionCap,  \* clusters shown under a heading, 6 in the code
  RowCaps,     \* rows shown without clustering: of those without a CCIR, 10
               \* in brief.md and 30 in sab.html; of a CCIR, 10 in the vault
  MaxRows      \* bound

(* "II" is treated as "none" is, in a group of its own.  The answer may    *)
(* leave the cnr out or give another, and that is stored as well.          *)
Ccirs == ToSet(Order) \union Unlisted \union {NoCcir}
Cnrs  == {"I", "none", "other"}

ASSUME DocumentsAssumption ==
  /\ Order \in Seq(ToSet(Order)) /\ IsInjective(Order)
  /\ NoCcir \notin ToSet(Order) \union Unlisted /\ ToSet(Order) \intersect Unlisted = {}
  /\ NoVector \notin Nat \X Nat
  /\ Vectors \subseteq (Nat \X Nat) \ {<<0, 0>>}
  /\ Scores \subseteq 0..10 /\ SectionCap \in Nat \ {0} /\ MaxRows \in Nat
  /\ RowCaps \in [{"routine", "filtered", "vault"} -> Nat \ {0}]

VARIABLE rows

Row == [ccir : Ccirs, cnr : Cnrs, score : Scores,
        vec : Vectors \union {NoVector}]

Init == rows = <<>>

(* triage stores a verdict; its embedding is another transaction.          *)
PutEnrichment(k, r) ==
  /\ Len(rows) < MaxRows /\ r.vec = NoVector
  /\ k > 1 => rows[k - 1].score >= r.score
  /\ k <= Len(rows) => r.score >= rows[k].score
  /\ rows' = InsertAt(rows, k, r)

PutEmbedding(k, v) ==
  /\ rows[k].vec = NoVector
  /\ rows' = [rows EXCEPT ![k].vec = v]

Next == \/ \E k \in 1..(Len(rows) + 1), r \in Row : PutEnrichment(k, r)
        \/ \E k \in DOMAIN rows, v \in Vectors : PutEmbedding(k, v)

Spec == Init /\ [][Next]_rows

-----------------------------------------------------------------------------
(* clustering.py.                                                          *)

(* The positions in S as a list, in their order: what a comprehension over *)
(* the rows leaves.                                                        *)
InOrder(S) ==
  [n \in 1..Cardinality(S) |->
     CHOOSE i \in S : Cardinality({j \in S : j < i}) = n - 1]

(* The keys of a dict to which the values are added in turn.               *)
Distinct(values) ==
  FoldLeft(LAMBDA s, x : IF Contains(s, x) THEN s ELSE Append(s, x), <<>>, values)

AllRows == [k \in DOMAIN rows |-> k]

Dot(a, b) == a[1] * b[1] + a[2] * b[2]

(* The cosine is above the threshold of 0.75.                              *)
Similar(a, b) ==
  Dot(a, b) > 0 /\ 16 * Dot(a, b) * Dot(a, b) > 9 * Dot(a, a) * Dot(b, b)

(* Of two vectors similar to v, a is nearer than b.                        *)
Nearer(v, a, b) ==
  Dot(v, a) * Dot(v, a) * Dot(b, b) > Dot(v, b) * Dot(v, b) * Dot(a, a)

(* The first of the nearest centroids within the threshold, or 0.          *)
Nearest(v, centroids) ==
  LET near == {k \in DOMAIN centroids :
                 centroids[k] # NoVector /\ Similar(v, centroids[k])}
  IN IF near = {} THEN 0
     ELSE CHOOSE k \in near : \A l \in near \ {k} :
            IF l < k THEN Nearer(v, centroids[k], centroids[l])
            ELSE ~Nearer(v, centroids[l], centroids[k])

(* Wrong variant of Centroid: the first item's embedding stays the centroid. *)
FirstEmbedding(items) == rows[items[1]].vec

(* The direction of the mean of the items' embeddings.                     *)
Centroid(items) ==
  LET embedded == InOrder({i \in ToSet(items) : rows[i].vec # NoVector})
  IN FoldLeft(LAMBDA c, i : <<c[1] + rows[i].vec[1], c[2] + rows[i].vec[2]>>,
              <<0, 0>>, embedded)

OfCcir(items, ccir) == InOrder({i \in ToSet(items) : rows[i].ccir = ccir})

(* One step of cluster_items: a list of clusters, each with its centroid.  *)
Assign(clusters, i) ==
  LET v == rows[i].vec
      b == IF v = NoVector THEN 0
           ELSE Nearest(v, [k \in DOMAIN clusters |-> clusters[k].centroid])
      all == IF b = 0 THEN <<i>> ELSE Append(clusters[b].items, i)
  IN IF b = 0 THEN Append(clusters, [centroid |-> v, items |-> all])
     ELSE [clusters EXCEPT ![b] = [centroid |-> Centroid(all), items |-> all]]

ClusterItems(items) ==
  FlattenSeq([s \in DOMAIN Order |->
    LET found == FoldLeft(Assign, <<>>, OfCcir(items, Order[s]))
    IN [k \in DOMAIN found |-> found[k].items]])

(* Wrong variant of AssignInMemory: an item without an embedding is left.  *)
AssignEmbedded(acc, i) ==
  LET v == rows[i].vec
      b == IF v = NoVector THEN 0 ELSE Nearest(v, acc.centroids)
      all == IF b = 0 THEN <<i>> ELSE Append(acc.clusters[b], i)
  IN CASE v = NoVector -> acc
       [] v # NoVector /\ b = 0 -> [clusters  |-> Append(acc.clusters, all),
                                    centroids |-> Append(acc.centroids, v)]
       [] OTHER -> [clusters  |-> [acc.clusters EXCEPT ![b] = all],
                    centroids |-> [acc.centroids EXCEPT ![b] = Centroid(all)]]

(* One step of cluster_items_in_memory: clusters and centroids are two     *)
(* lists, and an item without an embedding enters the first one only.      *)
AssignInMemory(acc, i) ==
  LET v == rows[i].vec
      b == IF v = NoVector THEN 0 ELSE Nearest(v, acc.centroids)
      all == IF b = 0 THEN <<i>> ELSE Append(acc.clusters[b], i)
  IN CASE v = NoVector -> [acc EXCEPT !.clusters = Append(@, all)]
       [] v # NoVector /\ b = 0 -> [clusters  |-> Append(acc.clusters, all),
                                    centroids |-> Append(acc.centroids, v)]
       [] OTHER -> [clusters  |-> [acc.clusters EXCEPT ![b] = all],
                    centroids |-> [acc.centroids EXCEPT ![b] = Centroid(all)]]

(* The sections of cluster_items_in_memory, in order of appearance.        *)
FirstSeen(items) == Distinct([n \in DOMAIN items |-> rows[items[n]].ccir])

ClusterInMemory(items) ==
  LET sections == FirstSeen(items)
      empty == [clusters |-> <<>>, centroids |-> <<>>]
  IN FlattenSeq([s \in DOMAIN sections |->
       FoldLeft(AssignInMemory, empty, OfCcir(items, sections[s])).clusters])

-----------------------------------------------------------------------------
(* The documents.                                                          *)

(* Its first item has the highest score, for the items are in that order;  *)
(* it is the one whose title is shown.                                     *)
Lead(cluster) ==
  CHOOSE i \in ToSet(cluster) : \A j \in ToSet(cluster) :
    rows[j].score < rows[i].score \/ (rows[j].score = rows[i].score /\ i <= j)

Score(cluster) == rows[Lead(cluster)].score

(* sorted(clusters, key=-score), which is stable.                          *)
Before(clusters, k) ==
  {l \in DOMAIN clusters :
     \/ Score(clusters[l]) > Score(clusters[k])
     \/ (Score(clusters[l]) = Score(clusters[k]) /\ l < k)}

ByScore(clusters) ==
  [n \in DOMAIN clusters |->
     clusters[CHOOSE k \in DOMAIN clusters :
                Cardinality(Before(clusters, k)) = n - 1]]

Shown(clusters) ==
  SubSeq(ByScore(clusters), 1, IF Len(clusters) < SectionCap THEN Len(clusters)
                               ELSE SectionCap)

Kept   == InOrder({i \in DOMAIN rows : rows[i].ccir # NoCcir})
Others == OfCcir(AllRows, NoCcir)
OfCnr(items, cnr) == InOrder({i \in ToSet(items) : rows[i].cnr = cnr})

(* Wrong variant of BriefFlagged: it is capped as the other headings are.  *)
FlaggedCapped == Shown(ClusterInMemory(OfCnr(Kept, "I")))

(* brief.md: the CNR section, and a heading for each CCIR in each of the   *)
(* groups "I" and "none".                                                  *)
BriefFlagged == ClusterInMemory(OfCnr(Kept, "I"))

BriefSection(cnr, ccir) ==
  Shown(ClusterInMemory(OfCcir(OfCnr(Kept, cnr), ccir)))

(* cluster.md: all clusters, those without a CCIR last.                    *)
ClusterDocument ==
  FlattenSeq([s \in DOMAIN Order |-> ClusterInMemory(OfCcir(Kept, Order[s]))])
    \o ClusterInMemory(Others)

(* html_renderer: the clusters of each CCIR, under the numbers by which    *)
(* sab_html's cluster() groups what it is given of them.                   *)
Grouped(items) ==
  LET clusters == ClusterInMemory(AllRows)
      key(i)  == CHOOSE k \in DOMAIN clusters : Contains(clusters[k], i)
      keys    == Distinct([n \in DOMAIN items |-> key(items[n])])
  IN [n \in DOMAIN keys |->
        InOrder({i \in ToSet(items) : key(i) = keys[n]})]

HtmlFlagged == Grouped(OfCnr(Kept, "I"))

HtmlSection(ccir) == Shown(Grouped(OfCcir(Kept, ccir)))

(* What is shown row by row: under brief.md's Routine and sab.html's       *)
(* Filtrert ut those without a CCIR, and in obsidian-sab.md, under each    *)
(* ccir, those that score 8 or answer one.                                 *)
Strict(i) == rows[i].score >= 8

VaultKept == InOrder({i \in DOMAIN rows : Strict(i) \/ rows[i].ccir # NoCcir})

Rowwise(place, ccir) ==
  CASE place = "routine"  -> OfCnr(Others, "none")
    [] place = "filtered" -> Others
    [] place = "vault"    -> OfCcir(VaultKept, ccir)

FirstRows(place, ccir) ==
  LET all == Rowwise(place, ccir) IN
  SubSeq(all, 1, IF Len(all) < RowCaps[place] THEN Len(all) ELSE RowCaps[place])

-----------------------------------------------------------------------------
Total(items, d) == FoldLeft(LAMBDA x, i : x + rows[i].vec[d], 0, items)

(* What cluster_items' docstring promises: a row is in one cluster, alone  *)
(* if it has no embedding, and with rows of its CCIR only, each similar to *)
(* the mean of those that were there before it.                            *)
Sound(clusters, items) ==
  /\ \A i \in ToSet(items) :
       Cardinality({k \in DOMAIN clusters : Contains(clusters[k], i)}) = 1
  /\ \A k \in DOMAIN clusters : \A n \in 2..Len(clusters[k]) :
       LET c == clusters[k] IN
       /\ rows[c[n]].ccir = rows[c[1]].ccir
       /\ NoVector \notin {rows[c[n]].vec, rows[c[1]].vec}
       /\ Similar(rows[c[n]].vec, <<Total(SubSeq(c, 1, n - 1), 1),
                                    Total(SubSeq(c, 1, n - 1), 2)>>)

(* cluster_items' clusters of the rows whose CCIR has a heading are sound, *)
(* and cluster_items_in_memory, which the documents use, finds the same    *)
(* where every row has its embedding.                                      *)
Headed == InOrder({i \in DOMAIN rows : rows[i].ccir \in ToSet(Order)})

ClustersAgree ==
  /\ Sound(ClusterItems(AllRows), Headed)
  /\ (\A i \in DOMAIN rows : rows[i].vec # NoVector) =>
       ToSet(ClusterItems(AllRows)) = ToSet(ClusterInMemory(Headed))

(* Which verdicts are lost between the sections: none whose CCIR has a     *)
(* heading or is none.  cluster.md has each of those in one of its         *)
(* clusters, and one that another document leaves out gives way to as many *)
(* as its section shows, each with the same or a higher score.  brief.md   *)
(* has no section for a CAT I row without a CCIR, nor one for a cnr that   *)
(* is none of the three; those are in cluster.md and sab.html.  A row with *)
(* an unlisted CCIR is in neither cluster.md nor a section: only the vault *)
(* makes a heading of whatever is stored (and FlaggedIsShown has it where  *)
(* it is CAT I).                                                           *)
InPlace(i, shown) ==
  \/ \E k \in DOMAIN shown : Contains(shown[k], i)
  \/ /\ Len(shown) = SectionCap
     /\ \A k \in DOMAIN shown : Score(shown[k]) >= rows[i].score

RowInPlace(i, place) ==
  LET shown == FirstRows(place, rows[i].ccir) IN
  \/ Contains(shown, i)
  \/ /\ Len(shown) = RowCaps[place]
     /\ \A j \in ToSet(shown) : rows[j].score >= rows[i].score

EveryRowHasItsPlace ==
  \A i \in DOMAIN rows :
    /\ LET doc == ClusterDocument
       IN Cardinality({k \in DOMAIN doc : Contains(doc[k], i)}) =
            IF rows[i].ccir \in Unlisted THEN 0 ELSE 1
    /\ rows[i].ccir \in ToSet(Order) =>
         /\ rows[i].cnr # "other" => InPlace(i, BriefSection(rows[i].cnr, rows[i].ccir))
         /\ InPlace(i, HtmlSection(rows[i].ccir))
    /\ rows[i].ccir # NoCcir \/ Strict(i) => RowInPlace(i, "vault")
    /\ rows[i].ccir = NoCcir =>
         /\ RowInPlace(i, "filtered")
         /\ rows[i].cnr = "none" => RowInPlace(i, "routine")

(* A CAT I verdict with any CCIR stands in the CNR sections, itself        *)
(* or behind a CAT I verdict of its CCIR that scores as high; nothing else *)
(* stands there.                                                           *)
FlaggedIsShown ==
  \A doc \in {BriefFlagged, HtmlFlagged} :
    /\ \A i \in DOMAIN rows : rows[i].cnr = "I" /\ rows[i].ccir # NoCcir =>
         \E k \in DOMAIN doc :
           /\ Contains(doc[k], i)
           /\ Score(doc[k]) >= rows[i].score
           /\ rows[Lead(doc[k])].ccir = rows[i].ccir
    /\ \A k \in DOMAIN doc : rows[Lead(doc[k])].cnr = "I"

(* What cluster_items_in_memory's docstring says: items without embeddings *)
(* pass through as singleton clusters.                                     *)
SingletonsStaySingle ==
  \A k \in DOMAIN ClusterInMemory(AllRows) :
    LET c == ClusterInMemory(AllRows)[k] IN
    Len(c) > 1 => \A i \in ToSet(c) : rows[i].vec # NoVector
=============================================================================
