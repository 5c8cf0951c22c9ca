---------------------------- MODULE DocumentsProofs ----------------------------
(***************************************************************************)
(* What the clusters and the documents of apps/brief guarantee for any     *)
(* table, any requirements, scores and embeddings, and any caps.  First    *)
(* the order of the table, which every selection of rows inherits; then    *)
(* what each row by row place leaves out; then that both clusterings put a *)
(* row in one cluster, kept by each step of their folds; then the CNR      *)
(* sections, the sort and the caps; last that the two clusterings agree.   *)
(*                                                                         *)
(* FoldLeft and FlattenSeq choose a function that recurs.  That there is   *)
(* one, and which, is shown by induction over a set of numbers (UpTo).     *)
(***************************************************************************)
EXTENDS Documents, SequenceTheorems, FiniteSetTheorems, WellFoundedInduction, TLAPS

-----------------------------------------------------------------------------
(* Induction and folds.  Both are stated about sets and functions, so that *)
(* they can be cited.                                                      *)

(* What holds of 0, and of k + 1 if it holds of k, holds up to n.          *)
LEMMA UpTo ==
  ASSUME NEW n \in Nat, NEW S, 0 \in S, \A k \in 0 .. n - 1 : k \in S => k + 1 \in S
  PROVE  0 .. n \subseteq S
<1> DEFINE bad == {k \in 0..n : k \notin S}
<1>1. SUFFICES ASSUME bad # {} PROVE FALSE
  BY DEF bad
<1>2. PICK k \in bad : \A j \in bad : ~(<<j, k>> \in OpToRel(<, Nat))
  <2> bad \subseteq Nat
    OBVIOUS
  <2> QED BY <1>1, WFMin, NatLessThanWellFounded
<1>3. k \in Nat /\ k # 0 /\ k - 1 \in Nat /\ k - 1 < k
  OBVIOUS
<1>4. <<k - 1, k>> \in OpToRel(<, Nat)
  BY <1>3 DEF OpToRel
<1>5. k - 1 \notin bad
  BY <1>2, <1>4
<1>6. k - 1 \in S
  BY <1>5, <1>3
<1> QED BY <1>6, <1>3

(* The greatest of the first k positions.                                  *)
LEMMA MaxIs ==
  ASSUME NEW k \in Nat \ {0}, NEW s \in SUBSET (1..k), k \in s
  PROVE  Max(s) = k
<1>1. \E x \in s : \A y \in s : x >= y
  OBVIOUS
<1>2. Max(s) \in s /\ \A y \in s : Max(s) >= y
  BY <1>1 DEF Max
<1>3. Max(s) \in 1..k /\ Max(s) >= k
  BY <1>2
<1> QED BY <1>3

(* A fold over n positions is a function of their subsets.                 *)
HasFold(n, T, base, step) ==
  \E g \in [SUBSET (1..n) -> T] : \A s \in SUBSET (1..n) :
    g[s] = IF s = {} THEN base ELSE step[<<Max(s), g[s \ {Max(s)}]>>]

(* Every step and every base have such a function.                         *)
LEMMA Recursion ==
  ASSUME NEW n \in Nat, NEW T, NEW base \in T, NEW step \in [(1..n) \X T -> T]
  PROVE  HasFold(n, T, base, step)
<1> DEFINE S == {k \in 0..n : HasFold(k, T, base, step)}
<1>1. 0 \in S
  <2> DEFINE g == [s \in SUBSET (1..0) |-> base]
  <2>1. g \in [SUBSET (1..0) -> T] /\ \A s \in SUBSET (1..0) : s = {} /\ g[s] = base
    OBVIOUS
  <2> HIDE DEF g
  <2>2. HasFold(0, T, base, step)
    BY <2>1 DEF HasFold
  <2> QED BY <2>2
<1>2. ASSUME NEW k \in 0 .. n - 1, k \in S PROVE k + 1 \in S
  <2>1. PICK g \in [SUBSET (1..k) -> T] : \A s \in SUBSET (1..k) :
             g[s] = IF s = {} THEN base ELSE step[<<Max(s), g[s \ {Max(s)}]>>]
    BY <1>2 DEF HasFold
  <2> DEFINE h == [s \in SUBSET (1..(k + 1)) |->
                     IF k + 1 \in s THEN step[<<k + 1, g[s \ {k + 1}]>>] ELSE g[s]]
  <2>2. /\ k + 1 \in 1..n /\ k + 1 \in Nat \ {0}
        /\ \A s \in SUBSET (1..(k + 1)) : s \ {k + 1} \in SUBSET (1..k)
    OBVIOUS
  <2>3. \A s \in SUBSET (1..(k + 1)) : k + 1 \notin s => s \in SUBSET (1..k)
    OBVIOUS
  <2>4. h \in [SUBSET (1..(k + 1)) -> T]
    BY <2>2, <2>3
  <2>5. \A s \in SUBSET (1..k) : s \in SUBSET (1..(k + 1)) /\ h[s] = g[s]
    BY <2>3
  <2>6. ASSUME NEW s \in SUBSET (1..(k + 1))
        PROVE  h[s] = IF s = {} THEN base ELSE step[<<Max(s), h[s \ {Max(s)}]>>]
    <3>1. CASE k + 1 \in s
      <4>1. Max(s) = k + 1
        BY <3>1, <2>2, MaxIs
      <4>2. h[s \ {k + 1}] = g[s \ {k + 1}] /\ h[s] = step[<<k + 1, g[s \ {k + 1}]>>]
        BY <3>1, <2>2, <2>5
      <4>3. s # {}
        BY <3>1
      <4> QED BY <4>1, <4>2, <4>3
    <3>2. CASE k + 1 \notin s
      <4>1. s \in SUBSET (1..k)
        BY <3>2, <2>3
      <4>2. s \ {Max(s)} \in SUBSET (1..k)
        BY <4>1
      <4>3. h[s] = g[s] /\ h[s \ {Max(s)}] = g[s \ {Max(s)}]
        BY <4>1, <4>2, <2>5
      <4> QED BY <4>1, <4>3, <2>1
    <3> QED BY <3>1, <3>2
  <2> HIDE DEF h
  <2>7. HasFold(k + 1, T, base, step)
    BY <2>4, <2>6 DEF HasFold
  <2> QED BY <2>7, <2>2
<1>3. 0..n \subseteq S
  BY <1>1, <1>2, UpTo
<1> QED BY <1>3

(* The last of the first k positions, and what is left without it.         *)
LEMMA ButTheLast ==
  ASSUME NEW k \in Nat \ {0}
  PROVE  (1..k) \ {k} = 1 .. (k - 1) /\ Max(1..k) = k
<1>1. k \in 1..k
  OBVIOUS
<1>2. Max(1..k) = k
  BY <1>1, MaxIs
<1>3. (1..k) \ {k} = 1 .. (k - 1)
  OBVIOUS
<1> QED BY <1>2, <1>3

(* A function of the first n positions is a sequence.                      *)
LEMMA FunctionIsSeq ==
  ASSUME NEW n \in Nat, NEW S, NEW c \in [1..n -> S]
  PROVE  c \in Seq(S) /\ Len(c) = n /\ DOMAIN c = 1..n
<1>1. DOMAIN c = 1..n
  OBVIOUS
<1>2. c \in Seq(S)
  BY SeqDef
<1>3. Len(c) \in Nat /\ DOMAIN c = 1..Len(c)
  BY <1>2, LenProperties
<1>4. Len(c) = n
  BY <1>1, <1>3
<1> QED BY <1>1, <1>2, <1>4

-----------------------------------------------------------------------------
(* Order.  In a finite set that is strictly ordered, the elements with     *)
(* none, one, two ... elements below them are all there.                   *)
Ordered(D, below) ==
  /\ IsFiniteSet(D) /\ below \in [D -> SUBSET D]
  /\ \A k \in D : k \notin below[k]
  /\ \A k, l \in D : k \in below[l] => below[k] \subseteq below[l]
  /\ \A k, l \in D : k # l => k \in below[l] \/ l \in below[k]

(* Each of those numbers, up to the size of the set, is some element's.    *)
LEMMA Ranks ==
  ASSUME NEW D, NEW below, Ordered(D, below)
  PROVE  /\ Cardinality(D) \in Nat
         /\ \A k \in D : Cardinality(below[k]) \in 0 .. Cardinality(D) - 1
         /\ \A k, l \in D : k \in below[l] => Cardinality(below[k]) < Cardinality(below[l])
         /\ \A n \in 1..Cardinality(D) : \E k \in D : Cardinality(below[k]) = n - 1
<1> USE DEF Ordered
<1>1. Cardinality(D) \in Nat
  BY FS_CardinalityType
<1>2. ASSUME NEW k \in D
      PROVE  /\ IsFiniteSet(below[k]) /\ Cardinality(below[k]) \in Nat
             /\ Cardinality(below[k]) < Cardinality(D)
  <2>1. below[k] \in SUBSET D /\ below[k] # D
    OBVIOUS
  <2>2. IsFiniteSet(below[k]) /\ Cardinality(below[k]) <= Cardinality(D)
        /\ Cardinality(below[k]) # Cardinality(D)
    BY <2>1, FS_Subset
  <2>3. Cardinality(below[k]) \in Nat
    BY <2>2, FS_CardinalityType
  <2> QED BY <1>1, <2>2, <2>3
<1>3. ASSUME NEW k \in D, NEW l \in D, k \in below[l]
      PROVE  Cardinality(below[k]) < Cardinality(below[l])
  <2>1. below[k] \in SUBSET below[l] /\ below[k] # below[l]
    BY <1>3
  <2>2. Cardinality(below[k]) <= Cardinality(below[l])
        /\ Cardinality(below[k]) # Cardinality(below[l])
    BY <1>2, <2>1, FS_Subset
  <2> QED BY <1>2, <2>2
<1> DEFINE N == Cardinality(D)
           f == [k \in D |-> Cardinality(below[k])]
<1>4. f \in Injection(D, 0 .. N - 1)
  <2>1. f \in [D -> 0 .. N - 1]
    BY <1>1, <1>2
  <2>2. ASSUME NEW k \in D, NEW l \in D, f[k] = f[l] PROVE k = l
    BY <1>2, <1>3, <2>2
  <2> HIDE DEF f, N
  <2> QED BY <2>1, <2>2 DEF Injection, IsInjective
<1>5. IsFiniteSet(0 .. N - 1) /\ Cardinality(0 .. N - 1) = N
  <2>1. N \in Nat
    BY <1>1
  <2> HIDE DEF N, f
  <2>2. 0 \in Int /\ N - 1 \in Int /\ (0 > N - 1 => N = 0) /\ (0 <= N - 1 => N - 1 - 0 + 1 = N)
    BY <2>1
  <2> QED BY <2>1, <2>2, FS_Interval
<1> HIDE DEF f
<1>6. f \in Surjection(D, 0 .. N - 1)
  BY <1>4, <1>5, FS_Injection
<1>7. ASSUME NEW n \in 1..N PROVE \E k \in D : Cardinality(below[k]) = n - 1
  <2>1. n - 1 \in 0 .. N - 1
    BY <1>1
  <2>2. PICK k \in D : f[k] = n - 1
    BY <1>6, <2>1 DEF Surjection
  <2> QED BY <2>2 DEF f
<1> QED BY <1>1, <1>2, <1>3, <1>7

Ascending(c) == \A m, n \in DOMAIN c : m < n => c[m] < c[n]

(* The positions in S as a list: all of them, ascending.                   *)
LEMMA InOrderIs ==
  ASSUME NEW S \in SUBSET Nat, IsFiniteSet(S)
  PROVE  /\ InOrder(S) \in Seq(S) /\ Len(InOrder(S)) = Cardinality(S)
         /\ ToSet(InOrder(S)) = S /\ Ascending(InOrder(S))
<1> DEFINE below == [i \in S |-> {j \in S : j < i}]
           N == Cardinality(S)
           c == InOrder(S)
<1>a. below \in [S -> SUBSET S] /\ \A i \in S : below[i] = {j \in S : j < i}
  OBVIOUS
<1> HIDE DEF below
<1>2. /\ below \in [S -> SUBSET S] /\ \A i \in S : below[i] = {j \in S : j < i}
      /\ \A i, j \in S : j < i <=> j \in below[i]
  BY <1>a
<1>1. /\ \A k \in S : k \notin below[k]
      /\ \A k, l \in S : k \in below[l] => below[k] \subseteq below[l]
      /\ \A k, l \in S : k # l => k \in below[l] \/ l \in below[k]
  <2>1. \A i \in S : i \in Nat
    OBVIOUS
  <2>2. \A k \in S : k \notin below[k]
    BY <1>2, <2>1
  <2>3. \A k, l \in S : k # l => k \in below[l] \/ l \in below[k]
    BY <1>2, <2>1
  <2>4. ASSUME NEW k \in S, NEW l \in S, k \in below[l], NEW j \in below[k]
        PROVE  j \in below[l]
    <3>1. j \in S /\ j < k /\ k < l
      BY <1>2, <2>4
    <3>2. j < l
      BY <2>1, <3>1
    <3> QED BY <1>2, <3>1, <3>2
  <2> QED BY <2>2, <2>3, <2>4
<1>3. /\ N \in Nat /\ \A k \in S : Cardinality(below[k]) \in 0 .. N - 1
      /\ \A k, l \in S : k \in below[l] => Cardinality(below[k]) < Cardinality(below[l])
      /\ \A n \in 1..N : \E k \in S : Cardinality(below[k]) = n - 1
  <2>1. Ordered(S, below)
    BY <1>1, <1>2 DEF Ordered
  <2> QED BY <2>1, Ranks
<1>4. ASSUME NEW n \in 1..N PROVE c[n] \in S /\ Cardinality(below[c[n]]) = n - 1
  <2>1. \E i \in S : Cardinality({j \in S : j < i}) = n - 1
    BY <1>2, <1>3
  <2>2. c[n] = CHOOSE i \in S : Cardinality({j \in S : j < i}) = n - 1
    BY DEF InOrder
  <2>3. c[n] \in S /\ Cardinality({j \in S : j < c[n]}) = n - 1
    BY <2>1, <2>2
  <2> QED BY <2>3, <1>2
<1>5. c \in Seq(S) /\ Len(c) = N /\ DOMAIN c = 1..N
  <2>1. \A n \in 1..N : (CHOOSE i \in S : Cardinality({j \in S : j < i}) = n - 1) \in S
    BY <1>2, <1>3
  <2>2. c \in [1..N -> S]
    BY <2>1 DEF InOrder
  <2> HIDE DEF c, N
  <2> QED BY <2>2, <1>3, FunctionIsSeq
<1> HIDE DEF c
<1>6. ASSUME NEW m \in 1..N, NEW n \in 1..N, m < n PROVE c[m] < c[n]
  <2>1. c[m] \in Nat /\ c[n] \in Nat /\ c[m] \in S /\ c[n] \in S
    BY <1>4
  <2>2. Cardinality(below[c[m]]) = m - 1 /\ Cardinality(below[c[n]]) = n - 1
    BY <1>4
  <2>3. c[m] # c[n]
    BY <2>2, <1>6
  <2>4. c[n] \notin below[c[m]]
    BY <2>1, <2>2, <1>3, <1>6
  <2> QED BY <2>1, <2>3, <2>4, <1>2
<1> HIDE DEF N
<1>7. ASSUME NEW i \in S PROVE \E n \in 1..N : c[n] = i
  <2>1. Cardinality(below[i]) + 1 \in 1..N
    BY <1>3
  <2> DEFINE n == Cardinality(below[i]) + 1
  <2>2. c[n] \in S /\ Cardinality(below[c[n]]) = Cardinality(below[i])
    BY <1>4, <1>3, <2>1
  <2>3. c[n] = i
    <3>1. c[n] \notin below[i] /\ i \notin below[c[n]]
      <4>1. c[n] \in S /\ Cardinality(below[i]) \in Int
        BY <2>2, <1>3
      <4>2. \A k, l \in S : Cardinality(below[k]) = Cardinality(below[l]) => k \notin below[l]
        BY <1>3
      <4> QED BY <4>1, <4>2, <2>2
    <3> QED BY <2>2, <3>1, <1>1
  <2> QED BY <2>1, <2>3
<1>8. Ascending(c)
  BY <1>5, <1>6 DEF Ascending
<1>9. ToSet(c) = S
  BY <1>4, <1>5, <1>7 DEF ToSet
<1> QED BY <1>5, <1>8, <1>9 DEF c, N

-----------------------------------------------------------------------------
(* The table.  The query's ORDER BY is what the documents rely on: the     *)
(* first row of a selection is the one that scores highest.                *)
RowsInv ==
  /\ rows \in Seq(Row)
  /\ \A k, l \in DOMAIN rows : k < l => rows[l].score <= rows[k].score

Inserted(s, k, e, S, t) ==
  /\ t \in Seq(S) /\ Len(t) = Len(s) + 1
  /\ \A j \in 1 .. Len(s) + 1 : t[j] = IF j < k THEN s[j] ELSE IF j = k THEN e ELSE s[j - 1]

(* InsertAt puts e at place k and moves what stood there on.               *)
LEMMA InsertAtIs ==
  ASSUME NEW S, NEW s \in Seq(S), NEW k \in 1 .. Len(s) + 1, NEW e \in S
  PROVE  Inserted(s, k, e, S, InsertAt(s, k, e))
<1> DEFINE a == SubSeq(s, 1, k - 1)
           b == SubSeq(s, k, Len(s))
<1>1. /\ Len(s) \in Nat /\ k \in Int /\ \A j \in 1..Len(s) : s[j] \in S
      /\ k - 1 \in Int /\ k <= Len(s) + 1 /\ k >= 1
  BY LenProperties
<1>2. a \in Seq(S) /\ Len(a) = k - 1 /\ \A j \in 1 .. k - 1 : a[j] = s[j]
  <2>1. \A j \in 1 .. k - 1 : s[j] \in S
    BY <1>1
  <2>2. /\ a \in Seq(S) /\ Len(a) = IF 1 <= k - 1 THEN k - 1 - 1 + 1 ELSE 0
        /\ \A j \in 1 .. k - 1 - 1 + 1 : a[j] = s[1 + j - 1]
    BY <1>1, <2>1, SubSeqProperties
  <2> HIDE DEF a
  <2> QED BY <1>1, <2>2
<1>3. /\ b \in Seq(S) /\ Len(b) = Len(s) - k + 1
      /\ \A j \in 1 .. Len(s) - k + 1 : b[j] = s[k + j - 1]
  <2>1. \A j \in k..Len(s) : s[j] \in S
    BY <1>1
  <2>2. /\ b \in Seq(S) /\ Len(b) = IF k <= Len(s) THEN Len(s) - k + 1 ELSE 0
        /\ \A j \in 1 .. Len(s) - k + 1 : b[j] = s[k + j - 1]
    BY <1>1, <2>1, SubSeqProperties
  <2> HIDE DEF b
  <2> QED BY <1>1, <2>2
<1>4. <<e>> \in Seq(S) /\ Len(<<e>>) = 1 /\ <<e>>[1] = e
  OBVIOUS
<1> DEFINE ae == a \o <<e>>
<1>5. InsertAt(s, k, e) = ae \o b
  BY DEF InsertAt
<1> HIDE DEF a, b
<1>6. /\ ae \in Seq(S) /\ Len(ae) = k
      /\ \A j \in 1 .. k : ae[j] = IF j < k THEN s[j] ELSE e
  <2>1. /\ ae \in Seq(S) /\ Len(ae) = Len(a) + 1
        /\ \A j \in 1 .. Len(a) + 1 : ae[j] = IF j <= Len(a) THEN a[j] ELSE <<e>>[j - Len(a)]
    BY <1>2, <1>4, ConcatProperties
  <2> HIDE DEF ae
  <2> QED BY <1>1, <1>2, <1>4, <2>1
<1> HIDE DEF ae
<1>7. /\ ae \o b \in Seq(S) /\ Len(ae \o b) = k + Len(b)
      /\ \A j \in 1 .. k + Len(b) : (ae \o b)[j] = IF j <= k THEN ae[j] ELSE b[j - k]
  BY <1>3, <1>6, ConcatProperties
<1> QED BY <1>1, <1>3, <1>5, <1>6, <1>7 DEF Inserted

(* Scores can be compared.                                                 *)
LEMMA ScoresAreInt == \A r \in Row : r.score \in Int
<1> SUFFICES ASSUME NEW r \in Row PROVE r.score \in Int
  OBVIOUS
<1>1. r.score \in Scores
  BY DEF Row
<1>2. Scores \subseteq 0..10
  BY DocumentsAssumption
<1>3. r.score \in 0..10
  BY <1>1, <1>2
<1> QED BY <1>3

(* A new verdict finds its place in the order, and an embedding leaves it. *)
LEMMA RowsStep == RowsInv /\ [Next]_rows => RowsInv'
<1> SUFFICES ASSUME RowsInv, [Next]_rows PROVE RowsInv'
  OBVIOUS
<1>0. rows \in Seq(Row) /\ Len(rows) \in Nat /\ DOMAIN rows = 1..Len(rows)
  BY LenProperties DEF RowsInv
<1>1. ASSUME NEW k \in 1..(Len(rows) + 1), NEW r \in Row, PutEnrichment(k, r)
      PROVE  RowsInv'
  <2>0. rows' = InsertAt(rows, k, r) /\ k \in 1 .. Len(rows) + 1
    BY <1>1 DEF PutEnrichment
  <2>1. /\ rows' \in Seq(Row) /\ Len(rows') = Len(rows) + 1
        /\ \A j \in 1 .. Len(rows) + 1 :
             rows'[j] = IF j < k THEN rows[j] ELSE IF j = k THEN r ELSE rows[j - 1]
    <3>1. \A s \in Seq(Row) : \A j \in 1 .. Len(s) + 1 :
            Inserted(s, j, r, Row, InsertAt(s, j, r))
      BY InsertAtIs
    <3>2. Inserted(rows, k, r, Row, InsertAt(rows, k, r))
      BY <1>0, <2>0, <3>1, Zenon
    <3>3. Inserted(rows, k, r, Row, rows')
      BY <2>0, <3>2, Zenon
    <3> QED BY <3>3 DEF Inserted
  <2>2. DOMAIN rows' = 1 .. Len(rows) + 1
    BY <2>1, LenProperties
  <2>3. /\ \A j \in 1..Len(rows) : rows[j].score \in Int
        /\ r.score \in Int
        /\ \A j, l \in 1..Len(rows) : j < l => rows[l].score <= rows[j].score
        /\ k > 1 => rows[k - 1].score >= r.score
        /\ k <= Len(rows) => r.score >= rows[k].score
    BY <1>0, <1>1, ScoresAreInt, ElementOfSeq DEF RowsInv, PutEnrichment
  <2>4. ASSUME NEW j \in 1..Len(rows)
        PROVE  IF j < k THEN rows[j].score >= r.score ELSE r.score >= rows[j].score
    <3>1. CASE j < k - 1
      <4>1. k - 1 \in 1..Len(rows) /\ rows[k - 1].score <= rows[j].score
        BY <1>0, <2>3, <3>1
      <4> QED BY <2>3, <3>1, <4>1
    <3>2. CASE j = k - 1 \/ j = k
      BY <2>3, <3>2
    <3>3. CASE j > k
      <4>1. k \in 1..Len(rows) /\ rows[j].score <= rows[k].score
        BY <1>0, <2>3, <3>3
      <4> QED BY <2>3, <3>3, <4>1
    <3> QED BY <1>0, <3>1, <3>2, <3>3
  <2>5. ASSUME NEW j \in 1 .. Len(rows) + 1, NEW l \in 1 .. Len(rows) + 1, j < l
        PROVE  rows'[l].score <= rows'[j].score
    <3>1. CASE l < k
      <4>1. /\ j \in 1..Len(rows) /\ l \in 1..Len(rows)
            /\ rows'[l] = rows[l] /\ rows'[j] = rows[j]
        BY <1>0, <2>1, <2>5, <3>1
      <4> QED BY <2>3, <2>5, <4>1
    <3>2. CASE l = k
      <4>1. j \in 1..Len(rows) /\ j < k /\ rows'[l] = r /\ rows'[j] = rows[j]
        BY <1>0, <2>1, <2>5, <3>2
      <4> QED BY <2>3, <2>4, <4>1
    <3>3. CASE l > k
      <4>1. /\ l - 1 \in 1..Len(rows) /\ ~(l - 1 < k) /\ rows'[l] = rows[l - 1]
            /\ r.score >= rows[l - 1].score
        BY <1>0, <2>1, <2>4, <3>3
      <4>2. CASE j < k
        <5>1. /\ j \in 1..Len(rows) /\ j < l - 1 /\ rows'[j] = rows[j]
          BY <1>0, <2>1, <3>3, <4>2
        <5> QED BY <2>3, <4>1, <5>1
      <4>3. CASE j = k
        <5>1. rows'[j] = r
          BY <1>0, <2>1, <4>3
        <5> QED BY <4>1, <5>1
      <4>4. CASE j > k
        <5>1. /\ j - 1 \in 1..Len(rows) /\ j - 1 < l - 1 /\ rows'[j] = rows[j - 1]
          BY <1>0, <2>1, <2>5, <4>4
        <5> QED BY <2>3, <4>1, <5>1
      <4> QED BY <4>2, <4>3, <4>4
    <3> QED BY <3>1, <3>2, <3>3
  <2> QED BY <2>1, <2>2, <2>5 DEF RowsInv
<1>2. ASSUME NEW k \in DOMAIN rows, NEW v \in Vectors, PutEmbedding(k, v)
      PROVE  RowsInv'
  <2>1. rows' = [rows EXCEPT ![k] = [rows[k] EXCEPT !.vec = v]]
    BY <1>2 DEF PutEmbedding
  <2>2. /\ rows[k] \in Row /\ [rows[k] EXCEPT !.vec = v] \in Row
        /\ [rows[k] EXCEPT !.vec = v].score = rows[k].score
    <3>1. rows[k] \in Row /\ v \in Vectors \union {NoVector}
      BY <1>0, <1>2, ElementOfSeq
    <3> QED BY <3>1 DEF Row
  <2>3. /\ rows' \in Seq(Row) /\ Len(rows') = Len(rows)
        /\ \A j \in 1..Len(rows) : rows'[j] = IF j = k THEN [rows[k] EXCEPT !.vec = v] ELSE rows[j]
    BY <1>0, <1>2, <2>1, <2>2, ExceptSeq
  <2>4. \A j \in 1..Len(rows) : rows'[j].score = rows[j].score
    BY <2>2, <2>3
  <2>5. DOMAIN rows' = DOMAIN rows
    BY <1>0, <2>3, LenProperties
  <2> QED BY <1>0, <2>3, <2>4, <2>5 DEF RowsInv
<1>3. CASE UNCHANGED rows
  BY <1>3 DEF RowsInv
<1> QED BY <1>1, <1>2, <1>3 DEF Next

(* However verdicts and embeddings come in, the table the renderers are    *)
(* given is one of rows in descending order of their scores.               *)
THEOREM RowsInOrder == Spec => []RowsInv
<1>1. Init => RowsInv
  BY DEF Init, RowsInv
<1> QED BY <1>1, RowsStep, PTL DEF Spec

(* What a selection of rows is: some positions, ascending.                 *)
Selected(c) == c \in Seq(DOMAIN rows) /\ Ascending(c)

(* The positions of the table, and what stands at each.                    *)
LEMMA PositionsAre ==
  ASSUME RowsInv
  PROVE  /\ Len(rows) \in Nat /\ DOMAIN rows = 1..Len(rows) /\ DOMAIN rows \in SUBSET Nat
         /\ IsFiniteSet(DOMAIN rows)
         /\ \A i \in DOMAIN rows : rows[i] \in Row /\ rows[i].score \in Int
<1>1. rows \in Seq(Row) /\ Len(rows) \in Nat /\ DOMAIN rows = 1..Len(rows)
  BY LenProperties DEF RowsInv
<1>2. \A i \in DOMAIN rows : rows[i] \in Row /\ rows[i].score \in Int
  BY <1>1, ElementOfSeq, ScoresAreInt
<1>3. IsFiniteSet(1..Len(rows))
  BY <1>1, FS_Interval
<1> QED BY <1>1, <1>2, <1>3

(* _cluster_rows and the renderers take a cluster's first item for the one *)
(* that scores highest: the lead of a selection is its first position.     *)
LEMMA LeadIsFirst ==
  ASSUME RowsInv, NEW c, Selected(c), c # <<>>
  PROVE  /\ Lead(c) = c[1] /\ c[1] \in ToSet(c) /\ Score(c) \in Int
         /\ \A j \in ToSet(c) : rows[j].score <= Score(c)
<1>1. /\ Len(c) \in Nat \ {0} /\ DOMAIN c = 1..Len(c)
      /\ \A m \in 1..Len(c) : c[m] \in DOMAIN rows
  <2>1. c \in Seq(DOMAIN rows)
    BY DEF Selected
  <2> QED BY <2>1, LenProperties, EmptySeq, ElementOfSeq
<1>2. c[1] \in ToSet(c) /\ 1 \in DOMAIN c
  BY <1>1 DEF ToSet
<1>3. \A i \in ToSet(c) : i \in DOMAIN rows /\ i \in Nat /\ rows[i].score \in Int
  BY <1>1, PositionsAre DEF ToSet
<1>4. ASSUME NEW j \in ToSet(c)
      PROVE  /\ rows[j].score < rows[c[1]].score
                \/ (rows[j].score = rows[c[1]].score /\ c[1] <= j)
             /\ rows[j].score <= rows[c[1]].score
  <2>1. PICK m \in 1..Len(c) : j = c[m]
    BY <1>1 DEF ToSet
  <2>2. c[1] <= j
    BY <1>1, <1>2, <1>3, <2>1 DEF Selected, Ascending
  <2>3. c[1] < j => rows[j].score <= rows[c[1]].score
    BY <1>2, <1>3 DEF RowsInv
  <2> QED BY <1>2, <1>3, <2>2, <2>3
<1> DEFINE Best(i) == \A j \in ToSet(c) :
             rows[j].score < rows[i].score \/ (rows[j].score = rows[i].score /\ i <= j)
<1>5. Best(c[1])
  BY <1>4
<1>6. Lead(c) = CHOOSE i \in ToSet(c) : Best(i)
  BY DEF Lead
<1>7. Lead(c) \in ToSet(c) /\ Best(Lead(c))
  <2> HIDE DEF Best
  <2> QED BY <1>2, <1>5, <1>6
<1>8. Lead(c) = c[1]
  BY <1>2, <1>3, <1>5, <1>7
<1> QED BY <1>2, <1>3, <1>4, <1>8 DEF Score


(* A list contains the elements of its set.                                *)
LEMMA ContainsIs ==
  ASSUME NEW S, NEW c \in Seq(S), NEW e
  PROVE  Contains(c, e) <=> e \in ToSet(c)
<1>1. DOMAIN c = 1..Len(c)
  BY LenProperties
<1> QED BY <1>1 DEF Contains, ToSet

(* A comprehension over the rows is a selection.                           *)
LEMMA Selection ==
  ASSUME RowsInv, NEW S \in SUBSET DOMAIN rows
  PROVE  Selected(InOrder(S)) /\ ToSet(InOrder(S)) = S
<1>1. S \in SUBSET Nat /\ IsFiniteSet(S)
  BY PositionsAre, FS_Subset
<1>2. /\ InOrder(S) \in Seq(S) /\ ToSet(InOrder(S)) = S /\ Ascending(InOrder(S))
  BY <1>1, InOrderIs
<1>3. InOrder(S) \in Seq(DOMAIN rows)
  BY <1>2, SeqDef
<1> QED BY <1>2, <1>3 DEF Selected

(* A selection is of positions of the table.                               *)
LEMMA SelectedSet == ASSUME NEW c, Selected(c) PROVE ToSet(c) \in SUBSET DOMAIN rows
<1>1. c \in Seq(DOMAIN rows)
  BY DEF Selected
<1> QED BY <1>1, ElementOfSeq, LenProperties DEF ToSet

(* The rows of one CCIR, or one category, among some.                      *)
LEMMA OfCcirIs ==
  ASSUME RowsInv, NEW c, Selected(c), NEW ccir
  PROVE  /\ Selected(OfCcir(c, ccir))
         /\ ToSet(OfCcir(c, ccir)) = {i \in ToSet(c) : rows[i].ccir = ccir}
<1>1. {i \in ToSet(c) : rows[i].ccir = ccir} \in SUBSET DOMAIN rows
  BY SelectedSet
<1> QED BY <1>1, Selection DEF OfCcir

(* Those of one category.                                                  *)
LEMMA OfCnrIs ==
  ASSUME RowsInv, NEW c, Selected(c), NEW cnr
  PROVE  /\ Selected(OfCnr(c, cnr))
         /\ ToSet(OfCnr(c, cnr)) = {i \in ToSet(c) : rows[i].cnr = cnr}
<1>1. {i \in ToSet(c) : rows[i].cnr = cnr} \in SUBSET DOMAIN rows
  BY SelectedSet
<1> QED BY <1>1, Selection DEF OfCnr

(* What the renderers are given.                                           *)
LEMMA KeptIs ==
  ASSUME RowsInv
  PROVE  /\ Selected(AllRows) /\ ToSet(AllRows) = DOMAIN rows
         /\ Selected(Kept) /\ ToSet(Kept) = {i \in DOMAIN rows : rows[i].ccir # NoCcir}
         /\ Selected(Others) /\ ToSet(Others) = {i \in DOMAIN rows : rows[i].ccir = NoCcir}
         /\ Selected(VaultKept)
         /\ ToSet(VaultKept) = {i \in DOMAIN rows : Strict(i) \/ rows[i].ccir # NoCcir}
         /\ Selected(Headed)
         /\ ToSet(Headed) = {i \in DOMAIN rows : rows[i].ccir \in ToSet(Order)}
<1>1. Selected(AllRows) /\ ToSet(AllRows) = DOMAIN rows
  <2>1. /\ AllRows \in [1..Len(rows) -> DOMAIN rows] /\ DOMAIN AllRows = 1..Len(rows)
        /\ DOMAIN rows = 1..Len(rows) /\ Len(rows) \in Nat
        /\ \A k \in 1..Len(rows) : AllRows[k] = k
    BY PositionsAre DEF AllRows
  <2>2. AllRows \in Seq(DOMAIN rows)
    BY <2>1, FunctionIsSeq
  <2>3. Ascending(AllRows)
    BY <2>1 DEF Ascending
  <2>4. ToSet(AllRows) = DOMAIN rows
    BY <2>1 DEF ToSet
  <2> QED BY <2>2, <2>3, <2>4 DEF Selected
<1>2. Selected(Kept) /\ ToSet(Kept) = {i \in DOMAIN rows : rows[i].ccir # NoCcir}
  <2>1. {i \in DOMAIN rows : rows[i].ccir # NoCcir} \in SUBSET DOMAIN rows
    OBVIOUS
  <2> QED BY <2>1, Selection DEF Kept
<1>3. Selected(Others) /\ ToSet(Others) = {i \in DOMAIN rows : rows[i].ccir = NoCcir}
  BY <1>1, OfCcirIs DEF Others
<1>4. /\ Selected(VaultKept)
      /\ ToSet(VaultKept) = {i \in DOMAIN rows : Strict(i) \/ rows[i].ccir # NoCcir}
  <2>1. {i \in DOMAIN rows : Strict(i) \/ rows[i].ccir # NoCcir} \in SUBSET DOMAIN rows
    OBVIOUS
  <2> QED BY <2>1, Selection DEF VaultKept
<1>5. /\ Selected(Headed)
      /\ ToSet(Headed) = {i \in DOMAIN rows : rows[i].ccir \in ToSet(Order)}
  <2>1. {i \in DOMAIN rows : rows[i].ccir \in ToSet(Order)} \in SUBSET DOMAIN rows
    OBVIOUS
  <2> QED BY <2>1, Selection DEF Headed
<1> QED BY <1>1, <1>2, <1>3, <1>4, <1>5

-----------------------------------------------------------------------------
(* What is shown row by row.  A cap leaves out only rows that score no     *)
(* higher than those it shows.                                             *)
LEMMA FirstOf ==
  ASSUME RowsInv, NEW c, Selected(c), NEW n, NEW cut \in 0..Len(c),
         cut >= Len(c) \/ cut = n, NEW i \in ToSet(c)
  PROVE  \/ Contains(SubSeq(c, 1, cut), i)
         \/ /\ Len(SubSeq(c, 1, cut)) = n
            /\ \A j \in ToSet(SubSeq(c, 1, cut)) : rows[j].score >= rows[i].score
<1>1. /\ Len(c) \in Nat /\ DOMAIN c = 1..Len(c) /\ c \in Seq(DOMAIN rows)
      /\ \A m \in 1..Len(c) : c[m] \in DOMAIN rows
  <2>1. c \in Seq(DOMAIN rows)
    BY DEF Selected
  <2> QED BY <2>1, LenProperties, ElementOfSeq
<1>2. cut \in Nat /\ cut <= Len(c)
  BY <1>1
<1> DEFINE shown == SubSeq(c, 1, cut)
<1>3. /\ Len(shown) = cut /\ shown \in Seq(DOMAIN rows) /\ DOMAIN shown = 1 .. cut
      /\ \A m \in 1 .. cut : shown[m] = c[m]
  <2>1. \A m \in 1 .. cut : c[m] \in DOMAIN rows
    BY <1>1, <1>2
  <2>2. /\ SubSeq(c, 1, cut) \in Seq(DOMAIN rows)
        /\ Len(SubSeq(c, 1, cut)) = IF 1 <= cut THEN cut - 1 + 1 ELSE 0
        /\ \A m \in 1 .. cut - 1 + 1 : SubSeq(c, 1, cut)[m] = c[1 + m - 1]
    BY <1>1, <1>2, <2>1, SubSeqProperties
  <2>3. shown = SubSeq(c, 1, cut)
    OBVIOUS
  <2> HIDE DEF shown
  <2>4. Len(shown) = cut /\ shown \in Seq(DOMAIN rows)
    BY <1>2, <2>2, <2>3
  <2>5. DOMAIN shown = 1 .. cut
    BY <2>4, LenProperties
  <2>6. \A m \in 1 .. cut : shown[m] = c[m]
    BY <1>1, <1>2, <2>2, <2>3
  <2> QED BY <2>4, <2>5, <2>6
<1> HIDE DEF shown
<1>4. PICK m \in 1..Len(c) : c[m] = i
  BY <1>1 DEF ToSet
<1>5. CASE m <= cut
  <2>1. i \in ToSet(shown)
    BY <1>1, <1>2, <1>3, <1>4, <1>5 DEF ToSet
  <2>2. shown \in Seq(DOMAIN rows)
    BY <1>3
  <2>3. Contains(shown, i)
    BY <2>1, <2>2, ContainsIs
  <2> QED BY <2>3 DEF shown
<1>6. CASE cut < m
  <2>1. cut = n
    BY <1>1, <1>2, <1>6
  <2>2. ASSUME NEW j \in ToSet(shown) PROVE rows[j].score >= rows[i].score
    <3>1. PICK p \in 1 .. cut : j = c[p]
      BY <1>3 DEF ToSet
    <3>2. p \in 1..Len(c) /\ p < m
      BY <1>1, <1>2, <1>6
    <3>3. j < i
      BY <1>1, <1>4, <3>1, <3>2 DEF Selected, Ascending
    <3>4. j \in DOMAIN rows /\ i \in DOMAIN rows
      BY <1>1, <1>4, <3>1, <3>2
    <3> QED BY <3>3, <3>4, PositionsAre DEF RowsInv
  <2>3. Len(shown) = n
    BY <1>3, <2>1
  <2> QED BY <2>2, <2>3 DEF shown
<1>7. m <= cut \/ cut < m
  BY <1>1, <1>2
<1> QED BY <1>5, <1>6, <1>7 DEF shown

(* A row that a place selects is shown there, or outscored by all that are.*)
LEMMA RowwiseIs ==
  ASSUME RowsInv, NEW place \in {"routine", "filtered", "vault"}, NEW i \in DOMAIN rows,
         i \in ToSet(Rowwise(place, rows[i].ccir)), Selected(Rowwise(place, rows[i].ccir))
  PROVE  RowInPlace(i, place)
<1> DEFINE all == Rowwise(place, rows[i].ccir)
<1>1. RowCaps[place] \in Nat \ {0}
  BY DocumentsAssumption
<1>2. FirstRows(place, rows[i].ccir)
        = SubSeq(all, 1, IF Len(all) < RowCaps[place] THEN Len(all) ELSE RowCaps[place])
  BY DEF FirstRows
<1> HIDE DEF all
<1>3. i \in ToSet(all) /\ Selected(all) /\ Len(all) \in Nat
  <2>1. i \in ToSet(all) /\ Selected(all)
    BY DEF all
  <2> QED BY <2>1, LenProperties DEF Selected
<1>4. PICK cut \in 0..Len(all) : /\ cut >= Len(all) \/ cut = RowCaps[place]
                                /\ FirstRows(place, rows[i].ccir) = SubSeq(all, 1, cut)
  <2>1. CASE Len(all) < RowCaps[place]
    BY <1>2, <1>3, <2>1
  <2>2. CASE ~(Len(all) < RowCaps[place])
    <3>1. FirstRows(place, rows[i].ccir) = SubSeq(all, 1, RowCaps[place])
      BY <1>2, <2>2, Zenon
    <3>2. RowCaps[place] \in 0..Len(all)
      BY <1>1, <1>3, <2>2
    <3> QED BY <3>1, <3>2
  <2> QED BY <2>1, <2>2
<1>5. \/ Contains(SubSeq(all, 1, cut), i)
      \/ /\ Len(SubSeq(all, 1, cut)) = RowCaps[place]
         /\ \A j \in ToSet(SubSeq(all, 1, cut)) : rows[j].score >= rows[i].score
  BY <1>3, <1>4, FirstOf
<1> QED BY <1>4, <1>5 DEF RowInPlace

(* Every row has its place in what is shown row by row.                    *)
LEMMA RowsInPlace ==
  ASSUME RowsInv, NEW i \in DOMAIN rows
  PROVE  /\ rows[i].ccir # NoCcir \/ Strict(i) => RowInPlace(i, "vault")
         /\ rows[i].ccir = NoCcir =>
              /\ RowInPlace(i, "filtered")
              /\ rows[i].cnr = "none" => RowInPlace(i, "routine")
<1>1. ASSUME rows[i].ccir # NoCcir \/ Strict(i) PROVE RowInPlace(i, "vault")
  <2>1. Rowwise("vault", rows[i].ccir) = OfCcir(VaultKept, rows[i].ccir)
    BY DEF Rowwise
  <2> QED BY <1>1, <2>1, KeptIs, OfCcirIs, RowwiseIs
<1>2. ASSUME rows[i].ccir = NoCcir PROVE RowInPlace(i, "filtered")
  <2>1. Rowwise("filtered", rows[i].ccir) = Others
    BY DEF Rowwise
  <2> QED BY <1>2, <2>1, KeptIs, RowwiseIs
<1>3. ASSUME rows[i].ccir = NoCcir, rows[i].cnr = "none" PROVE RowInPlace(i, "routine")
  <2>1. Rowwise("routine", rows[i].ccir) = OfCnr(Others, "none")
    BY DEF Rowwise
  <2> QED BY <1>3, <2>1, KeptIs, OfCnrIs, RowwiseIs
<1> QED BY <1>1, <1>2, <1>3

-----------------------------------------------------------------------------
(* The nearest centroid.  Comparing the squares of two cosines crosswise   *)
(* is a strict weak order, so the first of the nearest is well defined.    *)
LEMMA Times ==
  ASSUME NEW a \in Int, NEW b \in Int, NEW c \in Int, c > 0
  PROVE  a > b <=> a * c > b * c
OBVIOUS

(* Fractions with positive denominators are ordered transitively.          *)
LEMMA Cross ==
  ASSUME NEW pm \in Int, NEW pk \in Int, NEW pl \in Int,
         NEW nm \in Int, NEW nk \in Int, NEW nl \in Int, nm > 0, nk > 0, nl > 0,
         pm * nk > pk * nm, ~(pl * nk > pk * nl)
  PROVE  pm * nl > pl * nm
<1>1. (pm * nk) * nl > (pk * nm) * nl
  BY Times
<1>2. ~((pl * nk) * nm > (pk * nl) * nm)
  BY Times
<1>3. /\ (pm * nk) * nl = (pm * nl) * nk /\ (pk * nm) * nl = (pk * nl) * nm
      /\ (pl * nk) * nm = (pl * nm) * nk
  OBVIOUS
<1>4. (pm * nl) * nk > (pl * nm) * nk
  BY <1>1, <1>2, <1>3
<1> QED BY <1>4, Times

(* Of numbered things under a strict weak order, one is the first of the   *)
(* greatest.                                                               *)
LEMMA FirstGreatest ==
  ASSUME NEW n \in Nat, NEW near \in SUBSET (1..n), near # {}, NEW R,
         \A k, l \in near : <<k, l>> \in R => <<l, k>> \notin R,
         \A m, k, l \in near : <<m, k>> \in R /\ <<l, k>> \notin R => <<m, l>> \in R
  PROVE  \E k \in near : \A l \in near \ {k} :
           IF l < k THEN <<k, l>> \in R ELSE <<l, k>> \notin R
<1> DEFINE First(k, m) == \A l \in near \ {k} : l <= m =>
             IF l < k THEN <<k, l>> \in R ELSE <<l, k>> \notin R
           S == {m \in 0..n : (\E l \in near : l <= m) => \E k \in near : k <= m /\ First(k, m)}
<1>1. 0 \in S
  OBVIOUS
<1>2. ASSUME NEW m \in 0 .. n - 1, m \in S PROVE m + 1 \in S
  <2>1. CASE m + 1 \notin near
    <3>1. \A l \in near : l <= m + 1 <=> l <= m
      BY <2>1
    <3> QED BY <1>2, <3>1
  <2>2. CASE m + 1 \in near /\ ~\E l \in near : l <= m
    <3>1. \A l \in near : l <= m + 1 => l = m + 1
      BY <2>2
    <3>2. First(m + 1, m + 1)
      BY <3>1
    <3> HIDE DEF First
    <3> QED BY <2>2, <3>2
  <2>3. CASE m + 1 \in near /\ \E l \in near : l <= m
    <3>1. PICK k \in near : k <= m /\ First(k, m)
      BY <1>2, <2>3
    <3>2. CASE <<m + 1, k>> \in R
      <4>1. ASSUME NEW l \in near \ {m + 1}, l <= m + 1 PROVE l < m + 1 /\ <<m + 1, l>> \in R
        <5>1. l < m + 1 /\ l <= m
          BY <4>1
        <5>2. CASE l = k
          BY <3>2, <5>1, <5>2
        <5>3. CASE l # k /\ l < k
          <6>1. <<k, l>> \in R
            BY <3>1, <5>1, <5>3
          <6>2. <<l, k>> \notin R
            BY <6>1
          <6> QED BY <2>3, <3>2, <5>1, <6>1, <6>2
        <5>4. CASE l # k /\ ~(l < k)
          <6>1. <<l, k>> \notin R
            BY <3>1, <5>1, <5>4
          <6> QED BY <2>3, <3>2, <5>1, <6>1
        <5> QED BY <5>2, <5>3, <5>4
      <4>2. First(m + 1, m + 1)
        BY <4>1
      <4> HIDE DEF First
      <4> QED BY <2>3, <4>2
    <3>3. CASE <<m + 1, k>> \notin R
      <4>1. ASSUME NEW l \in near \ {k}, l <= m + 1
            PROVE  IF l < k THEN <<k, l>> \in R ELSE <<l, k>> \notin R
        <5>1. l <= m \/ l = m + 1
          BY <4>1
        <5> QED BY <3>1, <3>3, <5>1
      <4>2. First(k, m + 1)
        BY <4>1
      <4> HIDE DEF First
      <4> QED BY <3>1, <4>2
    <3> QED BY <3>2, <3>3
  <2> QED BY <2>1, <2>2, <2>3
<1>3. n \in S
  <2> HIDE DEF S
  <2>1. 0..n \subseteq S
    BY <1>1, <1>2, UpTo
  <2> QED BY <2>1
<1>4. PICK k \in near : First(k, n)
  BY <1>3
<1> QED BY <1>4

Vec == Nat \X Nat

(* A vector that is not at a right angle to another is not zero.           *)
LEMMA DotIs ==
  ASSUME NEW a \in Vec, NEW b \in Vec
  PROVE  Dot(a, b) \in Nat /\ (Dot(a, b) > 0 => Dot(b, b) > 0)
<1>1. /\ a[1] \in Nat /\ a[2] \in Nat /\ b[1] \in Nat /\ b[2] \in Nat
  BY DEF Vec
<1>2. \A x, y \in Nat : x * y \in Nat /\ (x * y > 0 => y * y > 0)
  <2> SUFFICES ASSUME NEW x \in Nat, NEW y \in Nat
               PROVE  x * y \in Nat /\ (x * y > 0 => y * y > 0)
    OBVIOUS
  <2>1. x * y \in Nat
    OBVIOUS
  <2>2. CASE y = 0
    BY <2>2
  <2>3. CASE y > 0
    <3>1. y * y > 0
      BY <2>3
    <3> QED BY <2>1, <3>1
  <2> QED BY <2>2, <2>3
<1> DEFINE p == a[1] * b[1]
           q == a[2] * b[2]
           s == b[1] * b[1]
           t == b[2] * b[2]
<1>3. /\ p \in Nat /\ q \in Nat /\ s \in Nat /\ t \in Nat
      /\ (p > 0 => s > 0) /\ (q > 0 => t > 0)
  BY <1>1, <1>2
<1>4. Dot(a, b) = p + q /\ Dot(b, b) = s + t
  BY DEF Dot
<1> HIDE DEF p, q, s, t
<1> QED BY <1>3, <1>4

(* Nearest finds a cluster, if any, whose centroid is similar.             *)
LEMMA NearestIs ==
  ASSUME NEW v \in Vec, NEW cs \in Seq(Vec \union {NoVector})
  PROVE  /\ Nearest(v, cs) \in 0..Len(cs)
         /\ Nearest(v, cs) # 0 => LET c == cs[Nearest(v, cs)] IN c \in Vec /\ Similar(v, c)
<1> DEFINE near == {k \in DOMAIN cs : cs[k] # NoVector /\ Similar(v, cs[k])}
           R == {p \in near \X near : Nearer(v, cs[p[1]], cs[p[2]])}
<1>1. Len(cs) \in Nat /\ DOMAIN cs = 1..Len(cs)
  BY LenProperties
<1>2. near \in SUBSET (1..Len(cs))
  BY <1>1
<1>3. ASSUME NEW k \in near
      PROVE  /\ cs[k] \in Vec /\ Dot(v, cs[k]) * Dot(v, cs[k]) \in Int
             /\ Dot(cs[k], cs[k]) \in Int /\ Dot(cs[k], cs[k]) > 0
  <2>1. cs[k] \in Vec
    <3>1. cs[k] \in Vec \union {NoVector}
      BY <1>1, ElementOfSeq
    <3> QED BY <3>1
  <2>2. Dot(v, cs[k]) > 0
    BY DEF Similar
  <2> QED BY <2>1, <2>2, DotIs
<1> DEFINE P(k) == Dot(v, cs[k]) * Dot(v, cs[k])
           N(k) == Dot(cs[k], cs[k])
<1>4. \A k, l \in near : <<k, l>> \in R <=> P(k) * N(l) > P(l) * N(k)
  BY DEF Nearer
<1>5. \A k \in near : P(k) \in Int /\ N(k) \in Int /\ N(k) > 0
  BY <1>3
<1> HIDE DEF near, R, P, N
<1>6. \A k, l \in near : <<k, l>> \in R => <<l, k>> \notin R
  <2> SUFFICES ASSUME NEW k \in near, NEW l \in near, <<k, l>> \in R
               PROVE  <<l, k>> \notin R
    OBVIOUS
  <2>1. P(k) * N(l) \in Int /\ P(l) * N(k) \in Int
    BY <1>5
  <2> QED BY <1>4, <2>1
<1>7. \A m, k, l \in near : <<m, k>> \in R /\ <<l, k>> \notin R => <<m, l>> \in R
  <2> SUFFICES ASSUME NEW m \in near, NEW k \in near, NEW l \in near,
                      <<m, k>> \in R, <<l, k>> \notin R
               PROVE  <<m, l>> \in R
    OBVIOUS
  <2>1. P(m) * N(k) > P(k) * N(m) /\ ~(P(l) * N(k) > P(k) * N(l))
    BY <1>4
  <2>2. P(m) * N(l) > P(l) * N(m)
    BY <1>5, <2>1, Cross
  <2> QED BY <1>4, <2>2
<1>8. near # {} => \E k \in near : \A l \in near \ {k} :
        IF l < k THEN <<k, l>> \in R ELSE <<l, k>> \notin R
  BY <1>1, <1>2, <1>6, <1>7, FirstGreatest
<1>9. near # {} => \E k \in near : \A l \in near \ {k} :
        IF l < k THEN Nearer(v, cs[k], cs[l]) ELSE ~Nearer(v, cs[l], cs[k])
  <2>1. \A k, l \in near : <<k, l>> \in R <=> Nearer(v, cs[k], cs[l])
    BY DEF R
  <2> QED BY <1>8, <2>1
<1>10. /\ near = {} => Nearest(v, cs) = 0
       /\ near # {} => Nearest(v, cs) \in near
  <2>1. Nearest(v, cs) = IF near = {} THEN 0
          ELSE CHOOSE k \in near : \A l \in near \ {k} :
            IF l < k THEN Nearer(v, cs[k], cs[l]) ELSE ~Nearer(v, cs[l], cs[k])
    BY DEF Nearest, near
  <2> QED BY <1>9, <2>1
<1>11. Nearest(v, cs) = 0 \/ Nearest(v, cs) \in 1..Len(cs)
  BY <1>2, <1>10
<1>12. Nearest(v, cs) \in 0..Len(cs)
  BY <1>1, <1>11
<1>13. ASSUME Nearest(v, cs) # 0
       PROVE  cs[Nearest(v, cs)] \in Vec /\ Similar(v, cs[Nearest(v, cs)])
  <2>1. Nearest(v, cs) \in near
    BY <1>10, <1>13
  <2> QED BY <2>1, <1>3 DEF near
<1> QED BY <1>12, <1>13

-----------------------------------------------------------------------------
(* What a fold computes: a value for each prefix of the sequence.          *)
Steps(n, T, base, step, result) ==
  \E f \in [0..n -> T] : /\ f[0] = base /\ f[n] = result
                         /\ \A k \in 1..n : f[k] = step[<<k, f[k - 1]>>]

(* A function of the subsets of 1..n that recurs as FoldLeft's does.       *)
Recurs(iter, n, base, T, step) ==
  /\ \A s : s = {} => iter[s] = base
  /\ \A k \in 1..n : LET m == Max(1..k) IN
       iter[(1..k) \ {m}] \in T => iter[1..k] = step[<<m, iter[(1..k) \ {m}]>>]

(* What recurs so takes as many steps as there are positions.              *)
LEMMA StepsOf ==
  ASSUME NEW n \in Nat, NEW T, NEW base \in T, NEW step \in [(1..n) \X T -> T],
         NEW iter, Recurs(iter, n, base, T, step)
  PROVE  Steps(n, T, base, step, iter[1..n])
<1> DEFINE f == [k \in 0..n |-> iter[1..k]]
           S == {k \in 0..n : f[k] \in T}
<1>0. \A k \in 0..n : f[k] = iter[1..k]
  OBVIOUS
<1>1. f[0] = base
  <2>1. 1..0 = {}
    OBVIOUS
  <2>2. iter[1..0] = base
    BY <2>1, Zenon DEF Recurs
  <2> QED BY <2>2, <1>0
<1> HIDE DEF f
<1>2. ASSUME NEW k \in 1..n, f[k - 1] \in T PROVE f[k] = step[<<k, f[k - 1]>>] /\ f[k] \in T
  <2>1. k \in Nat \ {0} /\ k \in 0..n /\ k - 1 \in 0..n
    OBVIOUS
  <2>2. (1..k) \ {k} = 1 .. (k - 1) /\ Max(1..k) = k
    BY <2>1, ButTheLast
  <2>3. iter[(1..k) \ {k}] \in T => iter[1..k] = step[<<k, iter[(1..k) \ {k}]>>]
    BY <2>2, Zenon DEF Recurs
  <2>4. f[k] = iter[1..k] /\ f[k - 1] = iter[(1..k) \ {k}]
    BY <1>0, <2>1, <2>2
  <2>5. f[k] = step[<<k, f[k - 1]>>]
    BY <1>2, <2>3, <2>4, Zenon
  <2> QED BY <1>2, <2>5
<1>3. 0..n \subseteq S
  <2>1. 0 \in S
    BY <1>1
  <2>2. ASSUME NEW k \in 0 .. n - 1, k \in S PROVE k + 1 \in S
    <3>1. PICK j \in 1..n : j = k + 1 /\ j - 1 = k /\ j \in 0..n
      OBVIOUS
    <3>2. f[j - 1] \in T
      BY <2>2, <3>1
    <3>3. f[j] \in T
      BY <1>2, <3>2
    <3> QED BY <3>1, <3>3
  <2> HIDE DEF S
  <2> QED BY <2>1, <2>2, UpTo
<1>4. f \in [0..n -> T]
  BY <1>3 DEF f
<1>5. f[n] = iter[1..n]
  BY <1>0
<1>6. \A k \in 1..n : f[k] = step[<<k, f[k - 1]>>]
  <2> SUFFICES ASSUME NEW k \in 1..n PROVE f[k] = step[<<k, f[k - 1]>>]
    OBVIOUS
  <2>1. k - 1 \in 0..n
    OBVIOUS
  <2> QED BY <1>2, <1>4, <2>1
<1> QED BY <1>1, <1>4, <1>5, <1>6 DEF Steps

(* A set of some of the first n positions has a greatest one.              *)
LEMMA MaxIn == ASSUME NEW n \in Nat, NEW s \in SUBSET (1..n), s # {} PROVE Max(s) \in s
<1> DEFINE S == {k \in 0..n : (\E x \in s : x <= k) => \E x \in s : \A y \in s : y <= k => x >= y}
<1>1. 0 \in S
  OBVIOUS
<1>2. ASSUME NEW k \in 0 .. n - 1, k \in S PROVE k + 1 \in S
  <2>1. CASE k + 1 \in s
    <3>1. \A y \in s : y <= k + 1 => k + 1 >= y
      OBVIOUS
    <3> QED BY <2>1, <3>1
  <2>2. CASE k + 1 \notin s
    <3>1. \A y \in s : y <= k + 1 <=> y <= k
      BY <2>2
    <3> QED BY <1>2, <3>1
  <2> QED BY <2>1, <2>2
<1>3. n \in S
  <2> HIDE DEF S
  <2>1. 0..n \subseteq S
    BY <1>1, <1>2, UpTo
  <2> QED BY <2>1
<1>4. \E x \in s : \A y \in s : x >= y
  <2>1. \A y \in s : y \in 1..n /\ y <= n
    OBVIOUS
  <2>2. \E x \in s : \A y \in s : y <= n => x >= y
    BY <1>3, <2>1
  <2> QED BY <2>1, <2>2, Zenon
<1> QED BY <1>4 DEF Max

(* The first k of n positions.                                             *)
LEMMA Prefix ==
  ASSUME NEW n \in Nat, NEW k \in 1..n
  PROVE  k \in Nat \ {0} /\ 1..k \in SUBSET (1..n) /\ 1..k # {}
<1>1. k \in 1..k /\ k \in Nat \ {0}
  OBVIOUS
<1>2. \A x \in 1..k : x \in 1..n
  OBVIOUS
<1> QED BY <1>1, <1>2

(* The sum of the embeddings of those that have one.                       *)
Embedded(items) == InOrder({i \in ToSet(items) : rows[i].vec # NoVector})

(* The sum takes a step for each of them.                                  *)
LEMMA CentroidSteps ==
  ASSUME RowsInv, NEW items, ToSet(items) \in SUBSET DOMAIN rows,
         NEW e, e = Embedded(items)
  PROVE  /\ Len(e) \in Nat
         /\ Steps(Len(e), Vec, <<0, 0>>,
                  [p \in (1..Len(e)) \X Vec |->
                     <<p[2][1] + rows[e[p[1]]].vec[1], p[2][2] + rows[e[p[1]]].vec[2]>>],
                  Centroid(items))
<1> DEFINE n == Len(e)
           step == [p \in (1..n) \X Vec |->
                      <<p[2][1] + rows[e[p[1]]].vec[1], p[2][2] + rows[e[p[1]]].vec[2]>>]
<1>1. /\ n \in Nat /\ DOMAIN e = 1..n
      /\ \A k \in 1..n : rows[e[k]].vec \in Vec
  <2>1. {i \in ToSet(items) : rows[i].vec # NoVector} \in SUBSET DOMAIN rows
    OBVIOUS
  <2>2. /\ e \in Seq(DOMAIN rows)
        /\ ToSet(e) = {i \in ToSet(items) : rows[i].vec # NoVector}
    BY <2>1, Selection DEF Selected, Embedded
  <2>3. n \in Nat /\ DOMAIN e = 1..n
    BY <2>2, LenProperties
  <2>4. ASSUME NEW k \in 1..n PROVE rows[e[k]].vec \in Vec
    <3>1. e[k] \in DOMAIN rows /\ rows[e[k]].vec # NoVector
      BY <2>2, <2>3 DEF ToSet
    <3>2. rows[e[k]] \in Row
      BY <3>1, PositionsAre
    <3>3. rows[e[k]].vec \in Vectors
      BY <3>1, <3>2 DEF Row
    <3> QED BY <3>3, DocumentsAssumption DEF Vec
  <2> QED BY <2>3, <2>4
<1>2. step \in [(1..n) \X Vec -> Vec]
  <2> SUFFICES ASSUME NEW p \in (1..n) \X Vec
               PROVE <<p[2][1] + rows[e[p[1]]].vec[1], p[2][2] + rows[e[p[1]]].vec[2]>> \in Vec
    OBVIOUS
  <2>1. p[2] \in Vec /\ rows[e[p[1]]].vec \in Vec
    BY <1>1
  <2>2. \A a, b \in Vec : <<a[1] + b[1], a[2] + b[2]>> \in Vec
    BY DEF Vec
  <2> QED BY <2>1, <2>2
<1>3. <<0, 0>> \in Vec
  BY DEF Vec
<1>4. PICK g \in [SUBSET (1..n) -> Vec] : \A s \in SUBSET (1..n) :
            g[s] = IF s = {} THEN <<0, 0>> ELSE step[<<Max(s), g[s \ {Max(s)}]>>]
  <2> HIDE DEF step, n
  <2>1. HasFold(n, Vec, <<0, 0>>, step)
    BY <1>1, <1>2, <1>3, Recursion
  <2> QED BY <2>1 DEF HasFold
<1> DEFINE Rec(h, s) == IF s = {} THEN <<0, 0>>
             ELSE LET x == Max(s) IN
               <<h[s \ {x}][1] + rows[e[x]].vec[1], h[s \ {x}][2] + rows[e[x]].vec[2]>>
<1>5. g = [s \in SUBSET (1..n) |-> Rec(g, s)]
  <2> SUFFICES ASSUME NEW s \in SUBSET (1..n) PROVE g[s] = Rec(g, s)
    OBVIOUS
  <2>1. CASE s # {}
    <3>0. Max(s) \in s
      <4> HIDE DEF n, step
      <4>1. n \in Nat
        BY <1>1
      <4> QED BY <2>1, <4>1, MaxIn
    <3>1. Max(s) \in 1..n /\ s \ {Max(s)} \in SUBSET (1..n)
      BY <3>0, Zenon
    <3>2. <<Max(s), g[s \ {Max(s)}]>> \in (1..n) \X Vec
      BY <3>1
    <3>3. g[s] = step[<<Max(s), g[s \ {Max(s)}]>>]
      BY <1>4, <2>1, Zenon
    <3> QED BY <2>1, <3>2, <3>3
  <2> QED BY <1>4, <2>1
<1> DEFINE iter == CHOOSE h : h = [s \in SUBSET (DOMAIN e) |-> Rec(h, s)]
<1>6. iter = [s \in SUBSET (1..n) |-> Rec(iter, s)]
  <2> HIDE DEF Rec
  <2>1. g = [s \in SUBSET (DOMAIN e) |-> Rec(g, s)]
    BY <1>1, <1>5
  <2>2. iter = [s \in SUBSET (DOMAIN e) |-> Rec(iter, s)]
    BY <2>1, Zenon
  <2> QED BY <1>1, <2>2
<1>7. Centroid(items) = iter[1..n]
  BY <1>1, Zenon DEF Centroid, Embedded, FoldLeft, MapThenFoldSet
<1>8. Recurs(iter, n, <<0, 0>>, Vec, step)
  <2>1. ASSUME NEW s, s = {} PROVE iter[s] = <<0, 0>>
    <3>1. s \in SUBSET (1..n)
      BY <2>1
    <3> HIDE DEF iter
    <3> QED BY <1>6, <2>1, <3>1
  <2>2. ASSUME NEW k \in 1..n, NEW m, m = Max(1..k), iter[(1..k) \ {m}] \in Vec
        PROVE  iter[1..k] = step[<<m, iter[(1..k) \ {m}]>>]
    <3> HIDE DEF iter
    <3>1. m = k /\ 1..k \in SUBSET (1..n) /\ 1..k # {}
      <4> HIDE DEF step, n
      <4>1. n \in Nat
        BY <1>1
      <4>2. k \in Nat \ {0} /\ 1..k \in SUBSET (1..n) /\ 1..k # {}
        BY <4>1, Prefix
      <4>3. m = k
        BY <2>2, <4>2, ButTheLast, Zenon
      <4> QED BY <4>2, <4>3
    <3>2. iter[1..k] = <<iter[(1..k) \ {m}][1] + rows[e[m]].vec[1],
                         iter[(1..k) \ {m}][2] + rows[e[m]].vec[2]>>
      BY <1>6, <2>2, <3>1
    <3>3. <<m, iter[(1..k) \ {m}]>> \in (1..n) \X Vec
      BY <2>2, <3>1
    <3> QED BY <3>2, <3>3
  <2> HIDE DEF iter, step
  <2> QED BY <2>1, <2>2 DEF Recurs
<1>9. Steps(n, Vec, <<0, 0>>, step, Centroid(items))
  <2> HIDE DEF iter, step, n
  <2>1. n \in Nat
    BY <1>1
  <2>2. Steps(n, Vec, <<0, 0>>, step, iter[1..n])
    BY <2>1, <1>2, <1>3, <1>8, StepsOf, Zenon
  <2> QED BY <2>2, <1>7, Zenon
<1> QED BY <1>1, <1>9

(* A centroid is a vector.                                                 *)
LEMMA CentroidIs ==
  ASSUME RowsInv, NEW items, ToSet(items) \in SUBSET DOMAIN rows
  PROVE  Centroid(items) \in Vec
<1> DEFINE e == Embedded(items)
           step == [p \in (1..Len(e)) \X Vec |->
                      <<p[2][1] + rows[e[p[1]]].vec[1], p[2][2] + rows[e[p[1]]].vec[2]>>]
<1>1. Len(e) \in Nat /\ Steps(Len(e), Vec, <<0, 0>>, step, Centroid(items))
  BY CentroidSteps
<1> HIDE DEF e, step
<1> QED BY <1>1 DEF Steps

-----------------------------------------------------------------------------
(* Clusters that partition the rows in I: each row of I is in one of them, *)
(* in the order of the table, with rows of its CCIR only.                  *)
Parted(C, I) ==
  /\ C \in Seq(Seq(DOMAIN rows))
  /\ \A k \in DOMAIN C : Selected(C[k]) /\ C[k] # <<>> /\ ToSet(C[k]) \subseteq I
  /\ \A i \in I : \E k \in DOMAIN C : i \in ToSet(C[k])
  /\ \A k, l \in DOMAIN C : \A i \in ToSet(C[k]) : i \in ToSet(C[l]) => k = l
  /\ \A k \in DOMAIN C : \A i, j \in ToSet(C[k]) : rows[i].ccir = rows[j].ccir

(* What either clustering does with one more item.                         *)
PutIn(C, i, D) ==
  \/ D = Append(C, <<i>>)
  \/ \E b \in DOMAIN C : D = [C EXCEPT ![b] = Append(C[b], i)]

(* One more item in a list.                                                *)
LEMMA AppendIs ==
  ASSUME NEW S, NEW c \in Seq(S), NEW i \in S
  PROVE  /\ Append(c, i) \in Seq(S) /\ Len(Append(c, i)) = Len(c) + 1
         /\ DOMAIN Append(c, i) = 1 .. Len(c) + 1 /\ ToSet(Append(c, i)) = ToSet(c) \union {i}
         /\ \A n \in 1 .. Len(c) + 1 : Append(c, i)[n] = IF n = Len(c) + 1 THEN i ELSE c[n]
<1>1. /\ Len(c) \in Nat /\ DOMAIN c = 1..Len(c)
  BY LenProperties
<1>2. /\ Append(c, i) \in Seq(S) /\ Len(Append(c, i)) = Len(c) + 1
      /\ \A n \in 1..Len(c) : Append(c, i)[n] = c[n] 
      /\ Append(c, i)[Len(c) + 1] = i
  BY AppendProperties
<1>3. DOMAIN Append(c, i) = 1 .. Len(c) + 1
  BY <1>2, LenProperties
<1>4. \A n \in 1 .. Len(c) + 1 : Append(c, i)[n] = IF n = Len(c) + 1 THEN i ELSE c[n]
  BY <1>1, <1>2
<1>5. ToSet(Append(c, i)) = ToSet(c) \union {i}
  <2>1. ASSUME NEW x \in ToSet(Append(c, i)) PROVE x \in ToSet(c) \union {i}
    <3>1. PICK n \in 1 .. Len(c) + 1 : x = Append(c, i)[n]
      BY <1>3 DEF ToSet
    <3>2. CASE n = Len(c) + 1
      BY <1>2, <3>1, <3>2
    <3>3. CASE n # Len(c) + 1
      <4>1. n \in 1..Len(c)
        BY <1>1, <3>3
      <4>2. x = c[n]
        BY <1>2, <3>1, <4>1
      <4> QED BY <1>1, <4>1, <4>2 DEF ToSet
    <3> QED BY <3>2, <3>3
  <2>2. ASSUME NEW x \in ToSet(c) PROVE x \in ToSet(Append(c, i))
    <3>1. PICK n \in 1..Len(c) : x = c[n]
      BY <1>1 DEF ToSet
    <3>2. n \in 1 .. Len(c) + 1 /\ x = Append(c, i)[n]
      BY <1>1, <1>2, <3>1
    <3> QED BY <1>3, <3>2 DEF ToSet
  <2>3. i \in ToSet(Append(c, i))
    <3>1. Len(c) + 1 \in 1 .. Len(c) + 1
      BY <1>1
    <3> QED BY <1>2, <1>3, <3>1 DEF ToSet
  <2> QED BY <2>1, <2>2, <2>3
<1> QED BY <1>2, <1>3, <1>4, <1>5

(* A later row extends a selection.                                        *)
LEMMA AppendSelected ==
  ASSUME RowsInv, NEW c, Selected(c), NEW i \in DOMAIN rows, \A j \in ToSet(c) : j < i
  PROVE  /\ Selected(Append(c, i)) /\ ToSet(Append(c, i)) = ToSet(c) \union {i}
         /\ Append(c, i) # <<>>
<1>1. c \in Seq(DOMAIN rows)
  BY DEF Selected
<1>2. /\ Len(c) \in Nat /\ DOMAIN c = 1..Len(c)
  BY <1>1, LenProperties
<1>3. /\ Append(c, i) \in Seq(DOMAIN rows) /\ Len(Append(c, i)) = Len(c) + 1
      /\ DOMAIN Append(c, i) = 1 .. Len(c) + 1 /\ ToSet(Append(c, i)) = ToSet(c) \union {i}
      /\ \A n \in 1 .. Len(c) + 1 : Append(c, i)[n] = IF n = Len(c) + 1 THEN i ELSE c[n]
  BY <1>1, AppendIs
<1>4. ASSUME NEW m \in 1 .. Len(c) + 1, NEW n \in 1 .. Len(c) + 1, m < n
      PROVE  Append(c, i)[m] < Append(c, i)[n]
  <2>1. m \in 1..Len(c) /\ Append(c, i)[m] = c[m] /\ c[m] \in ToSet(c)
    BY <1>2, <1>3, <1>4 DEF ToSet
  <2>2. CASE n = Len(c) + 1
    BY <1>3, <2>1, <2>2
  <2>3. CASE n # Len(c) + 1
    <3>1. n \in 1..Len(c) /\ Append(c, i)[n] = c[n]
      BY <1>2, <1>3, <2>3
    <3> QED BY <1>2, <1>4, <2>1, <3>1 DEF Selected, Ascending
  <2> QED BY <2>2, <2>3
<1>5. Ascending(Append(c, i))
  BY <1>3, <1>4 DEF Ascending
<1>6. Append(c, i) # <<>>
  BY <1>1, AppendProperties
<1> QED BY <1>3, <1>5, <1>6 DEF Selected

(* One more row, later than those in I, of their CCIR, is in one cluster.  *)
LEMMA PutInIs ==
  ASSUME RowsInv, NEW C, NEW I, Parted(C, I), NEW i \in DOMAIN rows, i \notin I,
         \A j \in I : j < i /\ rows[j].ccir = rows[i].ccir, NEW D, PutIn(C, i, D)
  PROVE  Parted(D, I \union {i})
<1>1. /\ C \in Seq(Seq(DOMAIN rows)) /\ Len(C) \in Nat /\ DOMAIN C = 1..Len(C)
  BY LenProperties DEF Parted
<1>2. CASE D = Append(C, <<i>>)
  <2>1. /\ <<i>> \in Seq(DOMAIN rows) /\ ToSet(<<i>>) = {i} /\ <<i>> # <<>>
        /\ Selected(<<i>>)
    <3>1. /\ <<i>> \in Seq(DOMAIN rows) /\ DOMAIN <<i>> = 1..1 /\ <<i>>[1] = i /\ <<i>> # <<>>
      OBVIOUS
    <3>2. ToSet(<<i>>) = {i}
      BY <3>1 DEF ToSet
    <3>3. Ascending(<<i>>)
      BY <3>1 DEF Ascending
    <3> QED BY <3>1, <3>2, <3>3 DEF Selected
  <2>2. /\ D \in Seq(Seq(DOMAIN rows)) /\ DOMAIN D = 1 .. Len(C) + 1
        /\ \A n \in 1 .. Len(C) + 1 : D[n] = IF n = Len(C) + 1 THEN <<i>> ELSE C[n]
    BY <1>1, <1>2, <2>1, AppendIs
  <2>3. \A k \in DOMAIN D : \/ k \in DOMAIN C /\ D[k] = C[k]
                            \/ k = Len(C) + 1 /\ D[k] = <<i>>
    BY <1>1, <2>2
  <2>4. \A k \in DOMAIN C : k \in DOMAIN D /\ D[k] = C[k] /\ k # Len(C) + 1
    <3>1. \A k \in DOMAIN C : k \in DOMAIN D /\ k # Len(C) + 1
      BY <1>1, <2>2
    <3> QED BY <2>3, <3>1
  <2>5. Len(C) + 1 \in DOMAIN D /\ D[Len(C) + 1] = <<i>>
    BY <1>1, <2>2
  <2>6. \A k \in DOMAIN D : Selected(D[k]) /\ D[k] # <<>> /\ ToSet(D[k]) \subseteq I \union {i}
    BY <2>1, <2>3 DEF Parted
  <2>7. \A j \in I \union {i} : \E k \in DOMAIN D : j \in ToSet(D[k])
    BY <2>1, <2>4, <2>5 DEF Parted
  <2>8. \A k \in DOMAIN C : i \notin ToSet(C[k])
    BY DEF Parted
  <2>9. ASSUME NEW k \in DOMAIN D, NEW l \in DOMAIN D, NEW j \in ToSet(D[k]), j \in ToSet(D[l])
        PROVE  k = l
    <3>1. CASE j = i
      BY <2>3, <2>8, <2>9, <3>1
    <3>2. CASE j # i
      <4>1. k \in DOMAIN C /\ l \in DOMAIN C /\ j \in ToSet(C[k]) /\ j \in ToSet(C[l])
        BY <2>1, <2>3, <2>9, <3>2
      <4> QED BY <4>1 DEF Parted
    <3> QED BY <3>1, <3>2
  <2>10. ASSUME NEW k \in DOMAIN D, NEW j \in ToSet(D[k]), NEW m \in ToSet(D[k])
         PROVE  rows[j].ccir = rows[m].ccir
    <3>1. j \in I \union {i} /\ m \in I \union {i}
      BY <2>6
    <3> QED BY <3>1
  <2> QED BY <2>2, <2>6, <2>7, <2>9, <2>10 DEF Parted
<1>3. ASSUME NEW b \in DOMAIN C, D = [C EXCEPT ![b] = Append(C[b], i)]
      PROVE  Parted(D, I \union {i})
  <2>1. Selected(C[b]) /\ \A j \in ToSet(C[b]) : j \in I
    BY DEF Parted
  <2>2. /\ Selected(Append(C[b], i)) /\ ToSet(Append(C[b], i)) = ToSet(C[b]) \union {i}
        /\ Append(C[b], i) # <<>>
    BY <2>1, AppendSelected
  <2>3. /\ D \in Seq(Seq(DOMAIN rows)) /\ DOMAIN D = DOMAIN C
        /\ \A k \in DOMAIN C : D[k] = IF k = b THEN Append(C[b], i) ELSE C[k]
    <3>1. Append(C[b], i) \in Seq(DOMAIN rows)
      BY <2>2 DEF Selected
    <3> QED BY <1>1, <1>3, <3>1, ExceptSeq
  <2>4. \A k \in DOMAIN D : /\ Selected(D[k]) /\ D[k] # <<>> /\ ToSet(D[k]) \subseteq I \union {i}
    BY <2>2, <2>3 DEF Parted
  <2>5. ASSUME NEW j \in I \union {i} PROVE \E k \in DOMAIN D : j \in ToSet(D[k])
    <3>1. CASE j = i
      BY <2>2, <2>3, <3>1
    <3>2. CASE j \in I
      <4>1. PICK k \in DOMAIN C : j \in ToSet(C[k])
        BY <3>2 DEF Parted
      <4> QED BY <2>2, <2>3, <4>1
    <3> QED BY <3>1, <3>2
  <2>6. \A k \in DOMAIN C : i \notin ToSet(C[k])
    BY DEF Parted
  <2>7. ASSUME NEW k \in DOMAIN D, NEW l \in DOMAIN D, NEW j \in ToSet(D[k]), j \in ToSet(D[l])
        PROVE  k = l
    <3>1. CASE j = i
      BY <2>3, <2>6, <2>7, <3>1, Zenon
    <3>2. CASE j # i
      <4>1. j \in ToSet(C[k]) /\ j \in ToSet(C[l])
        BY <2>2, <2>3, <2>7, <3>2
      <4> QED BY <2>3, <4>1 DEF Parted
    <3> QED BY <3>1, <3>2
  <2>8. ASSUME NEW k \in DOMAIN D, NEW j \in ToSet(D[k]), NEW m \in ToSet(D[k])
        PROVE  rows[j].ccir = rows[m].ccir
    <3>1. j \in I \union {i} /\ m \in I \union {i}
      BY <2>4
    <3> QED BY <3>1
  <2> QED BY <2>3, <2>4, <2>5, <2>7, <2>8 DEF Parted
<1> QED BY <1>2, <1>3 DEF PutIn

(* What cluster_items_in_memory carries from item to item.  A cluster of a *)
(* row without an embedding has no centroid, so there may be fewer of them.*)
Acc == {acc \in [clusters : Seq(Seq(DOMAIN rows)), centroids : Seq(Vec)] :
          Len(acc.centroids) <= Len(acc.clusters)}

(* cluster_items_in_memory puts the item in one cluster.                   *)
LEMMA AssignInMemoryIs ==
  ASSUME RowsInv, NEW acc \in Acc, NEW i \in DOMAIN rows
  PROVE  /\ AssignInMemory(acc, i) \in Acc
         /\ PutIn(acc.clusters, i, AssignInMemory(acc, i).clusters)
<1> DEFINE v == rows[i].vec
           b == IF v = NoVector THEN 0 ELSE Nearest(v, acc.centroids)
           all == IF b = 0 THEN <<i>> ELSE Append(acc.clusters[b], i)
           new == AssignInMemory(acc, i)
<1>1. /\ acc.clusters \in Seq(Seq(DOMAIN rows)) /\ acc.centroids \in Seq(Vec)
      /\ Len(acc.centroids) \in Nat /\ Len(acc.clusters) \in Nat
      /\ DOMAIN acc.clusters = 1..Len(acc.clusters) /\ DOMAIN acc.centroids = 1..Len(acc.centroids)
      /\ Len(acc.centroids) <= Len(acc.clusters)
      /\ acc = [clusters |-> acc.clusters, centroids |-> acc.centroids]
  <2>1. /\ acc.clusters \in Seq(Seq(DOMAIN rows)) /\ acc.centroids \in Seq(Vec)
        /\ Len(acc.centroids) <= Len(acc.clusters)
        /\ acc = [clusters |-> acc.clusters, centroids |-> acc.centroids]
    BY DEF Acc
  <2> QED BY <2>1, LenProperties
<1>2. v # NoVector => v \in Vec
  <2>1. rows[i] \in Row
    BY PositionsAre
  <2> QED BY <2>1, DocumentsAssumption DEF Row, Vec
<1>3. b \in 0..Len(acc.centroids) /\ (b # 0 => v # NoVector)
  <2>1. CASE v = NoVector
    BY <1>1, <2>1
  <2>2. CASE v # NoVector
    <3>1. v \in Vec /\ acc.centroids \in Seq(Vec \union {NoVector})
      BY <1>1, <1>2, <2>2, SeqDef
    <3>2. Nearest(v, acc.centroids) \in 0..Len(acc.centroids)
      BY <3>1, NearestIs
    <3> QED BY <2>2, <3>2
  <2> QED BY <2>1, <2>2
<1>4. new = CASE v = NoVector -> [acc EXCEPT !.clusters = Append(@, all)]
       [] v # NoVector /\ b = 0 -> [clusters  |-> Append(acc.clusters, all),
                                    centroids |-> Append(acc.centroids, v)]
       [] OTHER -> [clusters  |-> [acc.clusters EXCEPT ![b] = all],
                    centroids |-> [acc.centroids EXCEPT ![b] = Centroid(all)]]
  BY DEF AssignInMemory
<1> HIDE DEF new, v, b
<1>5. CASE b = 0
  <2>1. all = <<i>> /\ all \in Seq(DOMAIN rows)
    BY <1>5
  <2> HIDE DEF all
  <2>2. Append(acc.clusters, all) \in Seq(Seq(DOMAIN rows))
        /\ Len(Append(acc.clusters, all)) = Len(acc.clusters) + 1
    BY <1>1, <2>1, AppendProperties
  <2>3. CASE v = NoVector
    <3>1. new = [clusters |-> Append(acc.clusters, all), centroids |-> acc.centroids]
      BY <1>1, <1>4, <2>3
    <3>2. new \in Acc
      BY <1>1, <2>2, <3>1 DEF Acc
    <3> QED BY <2>1, <3>1, <3>2 DEF PutIn, new
  <2>4. CASE v # NoVector
    <3>1. new = [clusters |-> Append(acc.clusters, all), centroids |-> Append(acc.centroids, v)]
      BY <1>4, <1>5, <2>4
    <3>2. /\ Append(acc.centroids, v) \in Seq(Vec)
          /\ Len(Append(acc.centroids, v)) = Len(acc.centroids) + 1
      BY <1>1, <1>2, <2>4, AppendProperties
    <3>3. new \in Acc
      BY <1>1, <2>2, <3>1, <3>2 DEF Acc
    <3> QED BY <2>1, <3>1, <3>3 DEF PutIn, new
  <2> QED BY <2>3, <2>4
<1>6. CASE b # 0
  <2>1. /\ b \in 1..Len(acc.centroids) /\ b \in 1..Len(acc.clusters)
        /\ v # NoVector /\ all = Append(acc.clusters[b], i)
    BY <1>1, <1>3, <1>6
  <2> HIDE DEF all
  <2>2. all \in Seq(DOMAIN rows) /\ ToSet(all) \in SUBSET DOMAIN rows
    <3>1. acc.clusters[b] \in Seq(DOMAIN rows)
      BY <1>1, <2>1, ElementOfSeq
    <3>2. all \in Seq(DOMAIN rows)
      BY <2>1, <3>1, AppendProperties
    <3>3. ToSet(all) \in SUBSET DOMAIN rows
      BY <3>2, ElementOfSeq, LenProperties DEF ToSet
    <3> QED BY <3>2, <3>3
  <2>3. Centroid(all) \in Vec
    BY <2>2, CentroidIs
  <2>4. new = [clusters  |-> [acc.clusters EXCEPT ![b] = all],
               centroids |-> [acc.centroids EXCEPT ![b] = Centroid(all)]]
    BY <1>4, <1>6, <2>1
  <2>5. /\ [acc.clusters EXCEPT ![b] = all] \in Seq(Seq(DOMAIN rows))
        /\ Len([acc.clusters EXCEPT ![b] = all]) = Len(acc.clusters)
    BY <1>1, <2>1, <2>2, ExceptSeq
  <2>6. /\ [acc.centroids EXCEPT ![b] = Centroid(all)] \in Seq(Vec)
        /\ Len([acc.centroids EXCEPT ![b] = Centroid(all)]) = Len(acc.centroids)
    BY <1>1, <2>1, <2>3, ExceptSeq
  <2>7. new \in Acc
    BY <1>1, <2>4, <2>5, <2>6 DEF Acc
  <2>8. new.clusters = [acc.clusters EXCEPT ![b] = Append(acc.clusters[b], i)]
    BY <2>1, <2>4
  <2>9. PutIn(acc.clusters, i, new.clusters)
    BY <1>1, <2>1, <2>8 DEF PutIn
  <2> QED BY <2>7, <2>9 DEF new
<1> QED BY <1>5, <1>6

(* The rows of one section, assigned in turn.                              *)
Empty == [clusters |-> <<>>, centroids |-> <<>>]

(* Its fold takes a step for each row.                                     *)
LEMMA InMemorySteps ==
  ASSUME RowsInv, NEW items \in Seq(DOMAIN rows)
  PROVE  Steps(Len(items), Acc, Empty,
               [p \in (1..Len(items)) \X Acc |-> AssignInMemory(p[2], items[p[1]])],
               FoldLeft(AssignInMemory, Empty, items))
<1> DEFINE n == Len(items)
           step == [p \in (1..n) \X Acc |-> AssignInMemory(p[2], items[p[1]])]
<1>1. n \in Nat /\ DOMAIN items = 1..n /\ \A k \in 1..n : items[k] \in DOMAIN rows
  BY LenProperties, ElementOfSeq
<1>2. step \in [(1..n) \X Acc -> Acc]
  <2> SUFFICES ASSUME NEW p \in (1..n) \X Acc
               PROVE  AssignInMemory(p[2], items[p[1]]) \in Acc
    OBVIOUS
  <2>1. p[2] \in Acc /\ items[p[1]] \in DOMAIN rows
    BY <1>1
  <2> QED BY <2>1, AssignInMemoryIs
<1>3. Empty \in Acc
  <2>1. <<>> \in Seq(Seq(DOMAIN rows)) /\ <<>> \in Seq(Vec) /\ Len(<<>>) <= Len(<<>>)
    OBVIOUS
  <2> QED BY <2>1 DEF Empty, Acc
<1>4. PICK g \in [SUBSET (1..n) -> Acc] : \A s \in SUBSET (1..n) :
            g[s] = IF s = {} THEN Empty ELSE step[<<Max(s), g[s \ {Max(s)}]>>]
  <2> HIDE DEF step, n
  <2>1. HasFold(n, Acc, Empty, step)
    BY <1>1, <1>2, <1>3, Recursion
  <2> QED BY <2>1 DEF HasFold
<1> DEFINE Rec(h, s) == IF s = {} THEN Empty
             ELSE LET x == Max(s) IN AssignInMemory(h[s \ {x}], items[x])
<1>5. g = [s \in SUBSET (1..n) |-> Rec(g, s)]
  <2> SUFFICES ASSUME NEW s \in SUBSET (1..n) PROVE g[s] = Rec(g, s)
    OBVIOUS
  <2>1. CASE s # {}
    <3>1. Max(s) \in 1..n /\ s \ {Max(s)} \in SUBSET (1..n)
      BY <1>1, <2>1, MaxIn
    <3>2. <<Max(s), g[s \ {Max(s)}]>> \in (1..n) \X Acc
      BY <3>1
    <3>3. g[s] = step[<<Max(s), g[s \ {Max(s)}]>>]
      BY <1>4, <2>1
    <3> QED BY <2>1, <3>2, <3>3
  <2> QED BY <1>4, <2>1
<1> DEFINE iter == CHOOSE h : h = [s \in SUBSET (DOMAIN items) |-> Rec(h, s)]
<1>6. iter = [s \in SUBSET (1..n) |-> Rec(iter, s)]
  <2> HIDE DEF Rec
  <2>1. g = [s \in SUBSET (DOMAIN items) |-> Rec(g, s)]
    BY <1>1, <1>5
  <2>2. iter = [s \in SUBSET (DOMAIN items) |-> Rec(iter, s)]
    BY <2>1
  <2> QED BY <1>1, <2>2
<1>7. FoldLeft(AssignInMemory, Empty, items) = iter[1..n]
  BY <1>1 DEF FoldLeft, MapThenFoldSet
<1>8. Recurs(iter, n, Empty, Acc, step)
  <2>1. ASSUME NEW s, s = {} PROVE iter[s] = Empty
    <3>1. s \in SUBSET (1..n)
      BY <2>1
    <3> HIDE DEF iter
    <3> QED BY <1>6, <2>1, <3>1
  <2>2. ASSUME NEW k \in 1..n, NEW m, m = Max(1..k), iter[(1..k) \ {m}] \in Acc
        PROVE  iter[1..k] = step[<<m, iter[(1..k) \ {m}]>>]
    <3> HIDE DEF iter
    <3>1. m = k /\ 1..k \in SUBSET (1..n) /\ 1..k # {}
      <4>1. k \in Nat \ {0} /\ k \in 1..k
        BY <1>1
      <4>2. m = k
        BY <2>2, <4>1, ButTheLast
      <4>3. \A x \in 1..k : x \in 1..n
        BY <1>1
      <4> QED BY <4>1, <4>2, <4>3
    <3>2. iter[1..k] = AssignInMemory(iter[(1..k) \ {m}], items[m])
      BY <1>6, <2>2, <3>1
    <3>3. <<m, iter[(1..k) \ {m}]>> \in (1..n) \X Acc
      BY <2>2, <3>1
    <3> QED BY <3>2, <3>3
  <2> HIDE DEF iter, step
  <2> QED BY <2>1, <2>2 DEF Recurs
<1> HIDE DEF iter, step, n
<1>9. n \in Nat
  BY <1>1
<1>10. Steps(n, Acc, Empty, step, iter[1..n])
  BY <1>9, <1>2, <1>3, <1>8, StepsOf, Zenon
<1>11. Steps(n, Acc, Empty, step, FoldLeft(AssignInMemory, Empty, items))
  BY <1>10, <1>7, Zenon
<1> QED BY <1>11 DEF n, step

(* The fold as a function of the prefixes.                                 *)
LEMMA InMemoryRun ==
  ASSUME RowsInv, NEW items \in Seq(DOMAIN rows)
  PROVE  \E f \in [0..Len(items) -> Acc] :
           /\ f[0] = Empty /\ f[Len(items)] = FoldLeft(AssignInMemory, Empty, items)
           /\ \A k \in 1..Len(items) : f[k] = AssignInMemory(f[k - 1], items[k])
<1> DEFINE n == Len(items)
           step == [p \in (1..n) \X Acc |-> AssignInMemory(p[2], items[p[1]])]
<1>1. n \in Nat /\ Steps(n, Acc, Empty, step, FoldLeft(AssignInMemory, Empty, items))
  BY InMemorySteps, LenProperties
<1> HIDE DEF step, n
<1>2. PICK f \in [0..n -> Acc] :
        /\ f[0] = Empty /\ f[n] = FoldLeft(AssignInMemory, Empty, items)
        /\ \A k \in 1..n : f[k] = step[<<k, f[k - 1]>>]
  BY <1>1 DEF Steps
<1>3. ASSUME NEW k \in 1..n PROVE f[k] = AssignInMemory(f[k - 1], items[k])
  <2>1. k - 1 \in 0..n
    BY <1>1
  <2>2. <<k, f[k - 1]>> \in (1..n) \X Acc
    BY <2>1
  <2>3. step[<<k, f[k - 1]>>] = AssignInMemory(f[k - 1], items[k])
    BY <2>2 DEF step
  <2> QED BY <1>2, <2>3
<1>4. \E h \in [0..n -> Acc] :
        /\ h[0] = Empty /\ h[n] = FoldLeft(AssignInMemory, Empty, items)
        /\ \A k \in 1..n : h[k] = AssignInMemory(h[k - 1], items[k])
  BY <1>2, <1>3
<1> QED BY <1>4 DEF n

(* No clusters partition no rows.                                          *)
LEMMA NoClusters == ASSUME NEW I, I = {} PROVE Parted(<<>>, I)
<1>1. <<>> \in Seq(Seq(DOMAIN rows)) /\ DOMAIN <<>> = {}
  OBVIOUS
<1> QED BY <1>1 DEF Parted

(* The clusters of a section partition its rows.                           *)
LEMMA GroupIs ==
  ASSUME RowsInv, NEW items, Selected(items),
         \A i, j \in ToSet(items) : rows[i].ccir = rows[j].ccir
  PROVE  Parted(FoldLeft(AssignInMemory, Empty, items).clusters, ToSet(items))
<1> DEFINE n == Len(items)
           upto(k) == {items[m] : m \in 1..k}
<1>1. /\ items \in Seq(DOMAIN rows) /\ n \in Nat /\ DOMAIN items = 1..n
      /\ \A k \in 1..n : items[k] \in DOMAIN rows
      /\ \A k, l \in 1..n : k < l => items[k] < items[l]
  <2>1. items \in Seq(DOMAIN rows)
    BY DEF Selected
  <2>2. n \in Nat /\ DOMAIN items = 1..n
    BY <2>1, LenProperties
  <2> QED BY <2>1, <2>2, ElementOfSeq DEF Selected, Ascending
<1>2. PICK f \in [0..n -> Acc] :
        /\ f[0] = Empty /\ f[n] = FoldLeft(AssignInMemory, Empty, items)
        /\ \A k \in 1..n : f[k] = AssignInMemory(f[k - 1], items[k])
  BY <1>1, InMemoryRun
<1> DEFINE S == {k \in 0..n : Parted(f[k].clusters, upto(k))}
<1>3. 0 \in S
  <2>1. f[0].clusters = <<>> /\ upto(0) = {}
    BY <1>2 DEF Empty
  <2> QED BY <1>1, <2>1, NoClusters
<1>4. ASSUME NEW k \in 0 .. n - 1, k \in S PROVE k + 1 \in S
  <2>1. PICK l \in 1..n : l = k + 1 /\ l - 1 = k /\ k \in 0..n /\ l \in 0..n
    BY <1>1
  <2>2. /\ f[k] \in Acc /\ Parted(f[k].clusters, upto(k)) /\ items[l] \in DOMAIN rows
        /\ f[l] = AssignInMemory(f[k], items[l])
    BY <1>1, <1>2, <1>4, <2>1
  <2>3. PutIn(f[k].clusters, items[l], f[l].clusters)
    BY <2>2, AssignInMemoryIs
  <2>4. ASSUME NEW j \in upto(k)
        PROVE  j < items[l] /\ rows[j].ccir = rows[items[l]].ccir
    <3>1. PICK m \in 1..k : j = items[m]
      BY <2>4
    <3>2. m \in 1..n /\ m < l
      BY <1>1, <2>1
    <3>3. j \in ToSet(items) /\ items[l] \in ToSet(items)
      BY <1>1, <3>1, <3>2 DEF ToSet
    <3> QED BY <1>1, <3>1, <3>2, <3>3
  <2>5. items[l] \notin upto(k)
    <3>1. items[l] \in Nat
      BY <2>2, PositionsAre
    <3> QED BY <2>4, <3>1
  <2>6. upto(l) = upto(k) \union {items[l]}
    <3>1. \A m : m \in 1..l <=> m \in 1..k \/ m = l
      BY <2>1
    <3> QED BY <3>1
  <2> HIDE DEF upto
  <2>7. Parted(f[l].clusters, upto(k) \union {items[l]})
    BY <2>2, <2>3, <2>4, <2>5, PutInIs
  <2> QED BY <2>1, <2>6, <2>7
<1>5. n \in S
  <2> HIDE DEF S
  <2>1. 0..n \subseteq S
    BY <1>1, <1>3, <1>4, UpTo
  <2> QED BY <1>1, <2>1
<1>6. upto(n) = ToSet(items)
  BY <1>1 DEF ToSet
<1> QED BY <1>2, <1>5, <1>6

-----------------------------------------------------------------------------
(* The keys of a dict, in the order they appear.                           *)
LEMMA DistinctSteps ==
  ASSUME NEW V, NEW values \in Seq(V)
  PROVE  Steps(Len(values), Seq(V), <<>>,
               [p \in (1..Len(values)) \X Seq(V) |->
                  IF Contains(p[2], values[p[1]]) THEN p[2] ELSE Append(p[2], values[p[1]])],
               Distinct(values))
<1> DEFINE n == Len(values)
           step == [p \in (1..n) \X Seq(V) |->
                      IF Contains(p[2], values[p[1]]) THEN p[2] ELSE Append(p[2], values[p[1]])]
<1>1. n \in Nat /\ DOMAIN values = 1..n /\ \A k \in 1..n : values[k] \in V
  BY LenProperties, ElementOfSeq
<1>2. step \in [(1..n) \X Seq(V) -> Seq(V)]
  <2> SUFFICES ASSUME NEW p \in (1..n) \X Seq(V)
               PROVE  (IF Contains(p[2], values[p[1]]) THEN p[2]
                       ELSE Append(p[2], values[p[1]])) \in Seq(V)
    OBVIOUS
  <2>1. p[2] \in Seq(V) /\ values[p[1]] \in V
    BY <1>1
  <2>2. Append(p[2], values[p[1]]) \in Seq(V)
    BY <2>1, AppendProperties
  <2> QED BY <2>1, <2>2
<1>3. <<>> \in Seq(V)
  OBVIOUS
<1>4. PICK g \in [SUBSET (1..n) -> Seq(V)] : \A s \in SUBSET (1..n) :
            g[s] = IF s = {} THEN <<>> ELSE step[<<Max(s), g[s \ {Max(s)}]>>]
  <2> HIDE DEF step, n
  <2>1. HasFold(n, Seq(V), <<>>, step)
    BY <1>1, <1>2, <1>3, Recursion
  <2> QED BY <2>1 DEF HasFold
<1> DEFINE Rec(h, s) == IF s = {} THEN <<>>
             ELSE LET x == Max(s) IN
               IF Contains(h[s \ {x}], values[x]) THEN h[s \ {x}]
               ELSE Append(h[s \ {x}], values[x])
<1>5. g = [s \in SUBSET (1..n) |-> Rec(g, s)]
  <2> SUFFICES ASSUME NEW s \in SUBSET (1..n) PROVE g[s] = Rec(g, s)
    OBVIOUS
  <2>1. CASE s # {}
    <3>1. Max(s) \in 1..n /\ s \ {Max(s)} \in SUBSET (1..n)
      BY <1>1, <2>1, MaxIn
    <3>2. <<Max(s), g[s \ {Max(s)}]>> \in (1..n) \X Seq(V)
      BY <3>1
    <3>3. g[s] = step[<<Max(s), g[s \ {Max(s)}]>>]
      BY <1>4, <2>1
    <3> QED BY <2>1, <3>2, <3>3
  <2> QED BY <1>4, <2>1
<1> DEFINE iter == CHOOSE h : h = [s \in SUBSET (DOMAIN values) |-> Rec(h, s)]
<1>6. iter = [s \in SUBSET (1..n) |-> Rec(iter, s)]
  <2> HIDE DEF Rec
  <2>1. g = [s \in SUBSET (DOMAIN values) |-> Rec(g, s)]
    BY <1>1, <1>5
  <2>2. iter = [s \in SUBSET (DOMAIN values) |-> Rec(iter, s)]
    BY <2>1
  <2> QED BY <1>1, <2>2
<1>7. Distinct(values) = iter[1..n]
  BY <1>1 DEF Distinct, FoldLeft, MapThenFoldSet
<1>8. Recurs(iter, n, <<>>, Seq(V), step)
  <2>1. ASSUME NEW s, s = {} PROVE iter[s] = <<>>
    <3>1. s \in SUBSET (1..n)
      BY <2>1
    <3> HIDE DEF iter
    <3> QED BY <1>6, <2>1, <3>1
  <2>2. ASSUME NEW k \in 1..n, NEW m, m = Max(1..k), iter[(1..k) \ {m}] \in Seq(V)
        PROVE  iter[1..k] = step[<<m, iter[(1..k) \ {m}]>>]
    <3> HIDE DEF iter
    <3>1. m = k /\ 1..k \in SUBSET (1..n) /\ 1..k # {}
      <4>1. k \in Nat \ {0} /\ k \in 1..k
        BY <1>1
      <4>2. m = k
        BY <2>2, <4>1, ButTheLast
      <4>3. \A x \in 1..k : x \in 1..n
        BY <1>1
      <4> QED BY <4>1, <4>2, <4>3
    <3>2. iter[1..k] = IF Contains(iter[(1..k) \ {m}], values[m]) THEN iter[(1..k) \ {m}]
                       ELSE Append(iter[(1..k) \ {m}], values[m])
      BY <1>6, <2>2, <3>1
    <3>3. <<m, iter[(1..k) \ {m}]>> \in (1..n) \X Seq(V)
      BY <2>2, <3>1
    <3> QED BY <3>2, <3>3
  <2> HIDE DEF iter, step
  <2> QED BY <2>1, <2>2 DEF Recurs
<1> HIDE DEF iter, step, n
<1>9. n \in Nat
  BY <1>1
<1>10. Steps(n, Seq(V), <<>>, step, iter[1..n])
  BY <1>9, <1>2, <1>3, <1>8, StepsOf, Zenon
<1>11. Steps(n, Seq(V), <<>>, step, Distinct(values))
  BY <1>10, <1>7, Zenon
<1> QED BY <1>11 DEF n, step

(* Each value once.                                                        *)
Once(s) == \A m, n \in DOMAIN s : s[m] = s[n] => m = n

(* Every value is a key, once.                                             *)
LEMMA DistinctIs ==
  ASSUME NEW V, NEW values \in Seq(V)
  PROVE  /\ Distinct(values) \in Seq(V) /\ Once(Distinct(values))
         /\ ToSet(Distinct(values)) = ToSet(values)
<1> DEFINE n == Len(values)
           upto(k) == {values[m] : m \in 1..k}
<1>1. n \in Nat /\ DOMAIN values = 1..n /\ \A k \in 1..n : values[k] \in V
  BY LenProperties, ElementOfSeq
<1>2. PICK f \in [0..n -> Seq(V)] :
        /\ f[0] = <<>> /\ f[n] = Distinct(values)
        /\ \A k \in 1..n : f[k] = IF Contains(f[k - 1], values[k]) THEN f[k - 1]
                                  ELSE Append(f[k - 1], values[k])
  <2> DEFINE step == [p \in (1..n) \X Seq(V) |->
                 IF Contains(p[2], values[p[1]]) THEN p[2] ELSE Append(p[2], values[p[1]])]
  <2>1. Steps(n, Seq(V), <<>>, step, Distinct(values))
    BY <1>1, DistinctSteps
  <2> HIDE DEF step
  <2>2. PICK f \in [0..n -> Seq(V)] :
          /\ f[0] = <<>> /\ f[n] = Distinct(values)
          /\ \A k \in 1..n : f[k] = step[<<k, f[k - 1]>>]
    BY <2>1 DEF Steps
  <2>3. ASSUME NEW k \in 1..n
        PROVE  f[k] = IF Contains(f[k - 1], values[k]) THEN f[k - 1]
                      ELSE Append(f[k - 1], values[k])
    <3>1. k - 1 \in 0..n
      BY <1>1
    <3>2. <<k, f[k - 1]>> \in (1..n) \X Seq(V)
      BY <2>2, <3>1
    <3>3. step[<<k, f[k - 1]>>] = IF Contains(f[k - 1], values[k]) THEN f[k - 1]
                                  ELSE Append(f[k - 1], values[k])
      BY <3>2 DEF step
    <3> QED BY <2>2, <3>3
  <2> QED BY <2>2, <2>3
<1> DEFINE S == {k \in 0..n : Once(f[k]) /\ ToSet(f[k]) = upto(k)}
<1>3. 0 \in S
  <2>1. f[0] = <<>> /\ upto(0) = {} /\ DOMAIN <<>> = {}
    BY <1>2
  <2> QED BY <1>1, <2>1 DEF Once, ToSet
<1>4. ASSUME NEW k \in 0 .. n - 1, k \in S PROVE k + 1 \in S
  <2>1. PICK l \in 1..n : l = k + 1 /\ l - 1 = k /\ k \in 0..n /\ l \in 0..n
    BY <1>1
  <2>2. /\ f[k] \in Seq(V) /\ Once(f[k]) /\ ToSet(f[k]) = upto(k) /\ values[l] \in V
        /\ f[l] = IF Contains(f[k], values[l]) THEN f[k] ELSE Append(f[k], values[l])
    BY <1>1, <1>2, <1>4, <2>1
  <2>3. upto(l) = upto(k) \union {values[l]}
    <3>1. \A m : m \in 1..l <=> m \in 1..k \/ m = l
      BY <2>1
    <3> QED BY <3>1
  <2>4. Contains(f[k], values[l]) <=> values[l] \in ToSet(f[k])
    BY <2>2, ContainsIs
  <2> HIDE DEF upto
  <2>5. CASE Contains(f[k], values[l])
    <3>1. f[l] = f[k] /\ upto(l) = upto(k)
      BY <2>2, <2>3, <2>4, <2>5
    <3> QED BY <2>1, <2>2, <3>1
  <2>6. CASE ~Contains(f[k], values[l])
    <3> DEFINE c == f[k]
               e == values[l]
    <3>1. f[l] = Append(c, e)
      BY <2>2, <2>6
    <3>2. /\ DOMAIN Append(c, e) = 1 .. Len(c) + 1 /\ ToSet(Append(c, e)) = ToSet(c) \union {e}
          /\ \A m \in 1 .. Len(c) + 1 : Append(c, e)[m] = IF m = Len(c) + 1 THEN e ELSE c[m]
      BY <2>2, AppendIs
    <3>3. /\ Len(c) \in Nat /\ DOMAIN c = 1..Len(c) /\ \A m \in 1..Len(c) : c[m] # e
      <4>1. Len(c) \in Nat /\ DOMAIN c = 1..Len(c)
        BY <2>2, LenProperties
      <4> QED BY <2>4, <2>6, <4>1 DEF ToSet
    <3>4. \A m, p \in 1..Len(c) : c[m] = c[p] => m = p
      BY <2>2, <3>3 DEF Once
    <3> HIDE DEF c, e
    <3>5. ASSUME NEW m \in 1 .. Len(c) + 1, NEW p \in 1 .. Len(c) + 1,
                 Append(c, e)[m] = Append(c, e)[p]
          PROVE  m = p
      <4>1. \A x \in 1 .. Len(c) + 1 : x = Len(c) + 1 \/ x \in 1..Len(c)
        BY <3>3
      <4> QED BY <3>2, <3>3, <3>4, <3>5, <4>1
    <3>6. Once(f[l])
      BY <3>1, <3>2, <3>5 DEF Once
    <3>7. ToSet(f[l]) = upto(l)
      BY <2>2, <2>3, <3>1, <3>2 DEF c, e
    <3> QED BY <2>1, <3>6, <3>7
  <2> QED BY <2>5, <2>6
<1>5. n \in S
  <2> HIDE DEF S
  <2>1. 0..n \subseteq S
    BY <1>1, <1>3, <1>4, UpTo
  <2> QED BY <1>1, <2>1
<1>6. upto(n) = ToSet(values)
  BY <1>1 DEF ToSet
<1> QED BY <1>1, <1>2, <1>5, <1>6

-----------------------------------------------------------------------------
(* One list after another.                                                 *)
Flattened(X, n, D) ==
  \E f \in [0..n -> Seq(X)] :
    f[0] = <<>> /\ f[n] = FlattenSeq(D) /\ \A k \in 1..n : f[k] = f[k - 1] \o D[k]

(* FlattenSeq appends list after list.                                     *)
LEMMA FlattenSteps ==
  ASSUME NEW X, NEW n \in Nat, NEW D \in [1..n -> Seq(X)]
  PROVE  Flattened(X, n, D)
<1>1. D \in Seq(Seq(X)) /\ Len(D) = n /\ DOMAIN D = 1..n
  BY FunctionIsSeq
<1>2. CASE n = 0
  <2>1. FlattenSeq(D) = D
    BY <1>1, <1>2 DEF FlattenSeq
  <2>2. D = <<>>
    BY <1>1, <1>2, EmptySeq
  <2> DEFINE f == [k \in 0..n |-> <<>>]
  <2>3. f \in [0..n -> Seq(X)] /\ f[0] = <<>> /\ f[n] = <<>> /\ 1..n = {}
    BY <1>2
  <2> HIDE DEF f
  <2> QED BY <2>1, <2>2, <2>3 DEF Flattened
<1>3. CASE n > 0
  <2> DEFINE step == [p \in (1..n) \X Seq(X) |-> p[2] \o D[p[1]]]
  <2>1. step \in [(1..n) \X Seq(X) -> Seq(X)]
    <3> SUFFICES ASSUME NEW p \in (1..n) \X Seq(X) PROVE p[2] \o D[p[1]] \in Seq(X)
      OBVIOUS
    <3>1. p[2] \in Seq(X) /\ D[p[1]] \in Seq(X)
      OBVIOUS
    <3> QED BY <3>1, ConcatProperties
  <2>2. <<>> \in Seq(X)
    OBVIOUS
  <2>3. PICK g \in [SUBSET (1..n) -> Seq(X)] : \A s \in SUBSET (1..n) :
              g[s] = IF s = {} THEN <<>> ELSE step[<<Max(s), g[s \ {Max(s)}]>>]
    <3> HIDE DEF step
    <3>1. HasFold(n, Seq(X), <<>>, step)
      BY <2>1, <2>2, Recursion
    <3> QED BY <3>1 DEF HasFold
  <2> DEFINE f == [k \in 0..n |-> g[1..k]]
  <2>4. \A k \in 0..n : f[k] = g[1..k] /\ f[k] \in Seq(X)
    <3>1. \A k \in 0..n : 1..k \in SUBSET (1..n)
      OBVIOUS
    <3> QED BY <3>1
  <2>5. f[0] = <<>>
    <3>1. 1..0 = {} /\ 1..0 \in SUBSET (1..n) /\ 0 \in 0..n
      OBVIOUS
    <3> HIDE DEF step, f
    <3>2. g[1..0] = <<>>
      BY <2>3, <3>1
    <3> QED BY <2>4, <3>1, <3>2
  <2>6. f \in [0..n -> Seq(X)]
    BY <2>4
  <2> HIDE DEF f
  <2>7. ASSUME NEW k \in 1..n PROVE f[k] = f[k - 1] \o D[k]
    <3>0. k \in 1..k /\ \A m \in 1..k : m \in 1..n
      OBVIOUS
    <3>1. k \in Nat \ {0} /\ 1..k \in SUBSET (1..n) /\ 1..k # {} /\ k - 1 \in 0..n /\ k \in 0..n
      <4>1. k \in Nat \ {0} /\ k - 1 \in 0..n /\ k \in 0..n
        OBVIOUS
      <4>2. 1..k \in SUBSET (1..n) /\ 1..k # {}
        BY <3>0, Zenon
      <4> QED BY <4>1, <4>2
    <3>2. (1..k) \ {k} = 1 .. (k - 1) /\ Max(1..k) = k
      BY <3>1, ButTheLast
    <3>3. f[k] = step[<<k, f[k - 1]>>]
      <4> HIDE DEF step
      <4>1. g[1..k] = step[<<Max(1..k), g[(1..k) \ {Max(1..k)}]>>]
        BY <2>3, <3>1
      <4> QED BY <2>4, <3>1, <3>2, <4>1
    <3>4. <<k, f[k - 1]>> \in (1..n) \X Seq(X)
      BY <2>4, <3>1
    <3> QED BY <3>3, <3>4
  <2> DEFINE Rec(h, i) == IF i = 1 THEN D[i] ELSE h[i - 1] \o D[i]
             h0 == [i \in 1..n |-> f[i]]
             flatten == CHOOSE h : h = [i \in 1..Len(D) |-> Rec(h, i)]
  <2>8. h0 = [i \in 1..n |-> Rec(h0, i)]
    <3> SUFFICES ASSUME NEW i \in 1..n PROVE f[i] = Rec(h0, i)
      OBVIOUS
    <3>1. CASE i = 1
      <4>0. 1 \in 1..n /\ 1 - 1 = 0
        BY <1>3
      <4>1. f[1] = <<>> \o D[1] /\ D[1] \in Seq(X)
        BY <2>5, <2>7, <4>0
      <4>2. <<>> \o D[1] = D[1]
        BY <4>1, ConcatEmptySeq
      <4> QED BY <3>1, <4>1, <4>2
    <3>2. CASE i # 1
      <4>1. i - 1 \in 1..n
        BY <3>2
      <4>2. h0[i - 1] = f[i - 1]
        BY <4>1
      <4> QED BY <2>7, <3>2, <4>2
    <3> QED BY <3>1, <3>2
  <2>9. flatten = [i \in 1..n |-> Rec(flatten, i)]
    <3> HIDE DEF Rec, h0
    <3>1. h0 = [i \in 1..Len(D) |-> Rec(h0, i)]
      BY <1>1, <2>8
    <3>2. flatten = [i \in 1..Len(D) |-> Rec(flatten, i)]
      BY <3>1
    <3> QED BY <1>1, <3>2
  <2>10. FlattenSeq(D) = flatten[n]
    BY <1>1, <1>3 DEF FlattenSeq
  <2> DEFINE S == {k \in 0..n : k > 0 => flatten[k] = f[k]}
  <2> HIDE DEF flatten
  <2>11. ASSUME NEW k \in 0 .. n - 1, k \in S PROVE k + 1 \in S
    <3>1. PICK l \in 1..n : l = k + 1 /\ l - 1 = k /\ k \in 0..n /\ l \in 0..n
      OBVIOUS
    <3>2. flatten[l] = Rec(flatten, l)
      BY <2>9
    <3>3. CASE k = 0
      <4>0. l = 1 /\ 1 \in 1..n
        BY <3>1, <3>3
      <4>1. l = 1 /\ h0[1] = D[1] /\ h0[1] = f[1]
        BY <2>8, <4>0
      <4>2. flatten[1] = D[1]
        BY <3>2, <4>1
      <4> QED BY <3>1, <4>1, <4>2
    <3>4. CASE k > 0
      <4>0. flatten[k] = f[k]
        BY <2>11, <3>4
      <4>1. flatten[l] = flatten[k] \o D[l] /\ flatten[k] = f[k]
        <5>1. l # 1
          BY <3>1, <3>4
        <5>2. flatten[l] = flatten[l - 1] \o D[l]
          BY <3>2, <5>1, Zenon
        <5> QED BY <3>1, <4>0, <5>2, Zenon
      <4>2. f[l] = f[k] \o D[l]
        BY <2>7, <3>1
      <4> QED BY <3>1, <4>1, <4>2
    <3> QED BY <3>3, <3>4
  <2>12. n \in S
    <3>1. 0 \in S
      OBVIOUS
    <3> HIDE DEF S
    <3>2. 0..n \subseteq S
      BY <2>11, <3>1, UpTo
    <3> QED BY <3>2
  <2>13. f[n] = FlattenSeq(D)
    BY <1>3, <2>10, <2>12
  <2> QED BY <2>5, <2>6, <2>7, <2>13 DEF Flattened
<1>4. n = 0 \/ n > 0
  OBVIOUS
<1> QED BY <1>2, <1>3, <1>4, Zenon

(* The clusters of two sections that share no row.                         *)
LEMMA ConcatParted ==
  ASSUME NEW C, NEW I, Parted(C, I), NEW D, NEW J, Parted(D, J), \A i \in I : i \notin J
  PROVE  Parted(C \o D, I \union J)
<1>1. /\ C \in Seq(Seq(DOMAIN rows)) /\ Len(C) \in Nat /\ DOMAIN C = 1..Len(C)
      /\ D \in Seq(Seq(DOMAIN rows)) /\ Len(D) \in Nat /\ DOMAIN D = 1..Len(D)
  BY LenProperties DEF Parted
<1> DEFINE E == C \o D
           m == Len(C)
<1>2. /\ E \in Seq(Seq(DOMAIN rows)) /\ Len(E) = m + Len(D)
      /\ \A k \in 1 .. m + Len(D) : E[k] = IF k <= m THEN C[k] ELSE D[k - m]
  BY <1>1, ConcatProperties
<1>3. DOMAIN E = 1 .. m + Len(D)
  BY <1>2, LenProperties
<1> HIDE DEF E, m
<1>a. m \in Nat /\ Len(D) \in Nat /\ DOMAIN C = 1..m
  BY <1>1 DEF m
<1>4. \A k \in DOMAIN E : \/ k \in DOMAIN C /\ E[k] = C[k]
                          \/ k > m /\ k - m \in DOMAIN D /\ E[k] = D[k - m]
  <2> SUFFICES ASSUME NEW k \in 1 .. m + Len(D)
               PROVE  \/ k \in 1..m /\ E[k] = C[k]
                      \/ k > m /\ k - m \in 1..Len(D) /\ E[k] = D[k - m]
    BY <1>1, <1>3, <1>a
  <2>1. CASE k <= m
    BY <1>2, <1>a, <2>1
  <2>2. CASE k > m
    <3>1. k - m \in 1..Len(D) /\ ~(k <= m)
      BY <1>a, <2>2
    <3> QED BY <1>2, <2>2, <3>1
  <2> QED BY <1>a, <2>1, <2>2
<1>5. \A k \in DOMAIN C : k \in DOMAIN E /\ E[k] = C[k]
  <2> SUFFICES ASSUME NEW k \in 1..m PROVE k \in DOMAIN E /\ E[k] = C[k]
    BY <1>a
  <2>1. k \in 1 .. m + Len(D) /\ k <= m
    BY <1>a
  <2> QED BY <1>2, <1>3, <2>1
<1>6. \A k \in DOMAIN D : k + m \in DOMAIN E /\ E[k + m] = D[k]
  <2> SUFFICES ASSUME NEW k \in 1..Len(D) PROVE k + m \in DOMAIN E /\ E[k + m] = D[k]
    BY <1>1
  <2>1. PICK l \in 1 .. m + Len(D) : l = k + m /\ ~(l <= m) /\ l - m = k
    BY <1>a
  <2>2. E[l] = D[l - m]
    BY <1>2, <2>1, Zenon
  <2> QED BY <1>3, <2>1, <2>2
<1>7. ASSUME NEW k \in DOMAIN E
      PROVE  /\ Selected(E[k]) /\ E[k] # <<>> /\ ToSet(E[k]) \subseteq I \union J
             /\ \A i, j \in ToSet(E[k]) : rows[i].ccir = rows[j].ccir
  <2>1. CASE k \in DOMAIN C /\ E[k] = C[k]
    BY <2>1 DEF Parted
  <2>2. CASE k > m /\ k - m \in DOMAIN D /\ E[k] = D[k - m]
    BY <2>2 DEF Parted
  <2> QED BY <1>4, <2>1, <2>2
<1>8. ASSUME NEW i \in I \union J PROVE \E k \in DOMAIN E : i \in ToSet(E[k])
  <2>1. CASE i \in I
    <3>1. PICK k \in DOMAIN C : i \in ToSet(C[k])
      BY <2>1 DEF Parted
    <3> QED BY <1>5, <3>1
  <2>2. CASE i \in J
    <3>1. PICK k \in DOMAIN D : i \in ToSet(D[k])
      BY <2>2 DEF Parted
    <3> QED BY <1>6, <3>1
  <2> QED BY <2>1, <2>2
<1>9. ASSUME NEW k \in DOMAIN E, NEW l \in DOMAIN E, NEW i \in ToSet(E[k]), i \in ToSet(E[l])
      PROVE  k = l
  <2>1. \A x \in DOMAIN C : \A j \in ToSet(C[x]) : j \in I
    BY DEF Parted
  <2>2. \A x \in DOMAIN D : \A j \in ToSet(D[x]) : j \in J
    BY DEF Parted
  <2>3. CASE k \in DOMAIN C /\ E[k] = C[k]
    <3>1. l \in DOMAIN C /\ E[l] = C[l]
      BY <1>4, <1>9, <2>1, <2>2, <2>3
    <3> QED BY <1>9, <2>3, <3>1 DEF Parted
  <2>4. CASE k > m /\ k - m \in DOMAIN D /\ E[k] = D[k - m]
    <3>1. l > m /\ l - m \in DOMAIN D /\ E[l] = D[l - m]
      BY <1>4, <1>9, <2>1, <2>2, <2>4
    <3>2. k - m = l - m
      BY <1>9, <2>4, <3>1 DEF Parted
    <3>3. k \in Int /\ l \in Int
      BY <1>3, <1>a
    <3> QED BY <1>a, <3>2, <3>3
  <2> QED BY <1>4, <2>3, <2>4
<1>10. Parted(E, I \union J)
  BY <1>2, <1>7, <1>8, <1>9 DEF Parted
<1> QED BY <1>10 DEF E

(* The sections of a document, their rows apart.                           *)
LEMMA FlattenParted ==
  ASSUME NEW n \in Nat, NEW I, NEW D \in [1..n -> Seq(Seq(DOMAIN rows))],
         \A k \in 1..n : Parted(D[k], I[k]),
         \A k, l \in 1..n : \A i \in I[k] : i \in I[l] => k = l
  PROVE  Parted(FlattenSeq(D), UNION {I[k] : k \in 1..n})
<1> DEFINE upto(k) == UNION {I[l] : l \in 1..k}
<1>1. PICK f \in [0..n -> Seq(Seq(DOMAIN rows))] :
        f[0] = <<>> /\ f[n] = FlattenSeq(D) /\ \A k \in 1..n : f[k] = f[k - 1] \o D[k]
  <2>1. Flattened(Seq(DOMAIN rows), n, D)
    BY FlattenSteps
  <2> QED BY <2>1 DEF Flattened
<1> DEFINE S == {k \in 0..n : Parted(f[k], upto(k))}
<1>2. 0 \in S
  <2>1. upto(0) = {}
    OBVIOUS
  <2>2. Parted(f[0], upto(0))
    BY <1>1, <2>1, NoClusters
  <2> QED BY <2>2
<1>3. ASSUME NEW k \in 0 .. n - 1, k \in S PROVE k + 1 \in S
  <2>1. PICK l \in 1..n : l = k + 1 /\ l - 1 = k /\ k \in 0..n /\ l \in 0..n
    OBVIOUS
  <2>2. f[l] = f[k] \o D[l] /\ Parted(f[k], upto(k)) /\ Parted(D[l], I[l])
    BY <1>1, <1>3, <2>1
  <2>3. \A i \in upto(k) : i \notin I[l]
    <3> SUFFICES ASSUME NEW i \in upto(k), i \in I[l] PROVE FALSE
      OBVIOUS
    <3>1. PICK m \in 1..k : i \in I[m]
      OBVIOUS
    <3>2. m \in 1..n /\ m # l
      BY <2>1
    <3> QED BY <3>1, <3>2
  <2>4. upto(l) = upto(k) \union I[l]
    <3>1. \A m : m \in 1..l <=> m \in 1..k \/ m = l
      BY <2>1
    <3> QED BY <3>1
  <2> HIDE DEF upto
  <2>5. Parted(f[l], upto(l))
    <3>1. Parted(f[k] \o D[l], upto(k) \union I[l])
      BY <2>2, <2>3, ConcatParted
    <3> QED BY <2>2, <2>4, <3>1, Zenon
  <2> QED BY <2>1, <2>5
<1>4. n \in S
  <2> HIDE DEF S
  <2>1. 0..n \subseteq S
    BY <1>2, <1>3, UpTo
  <2> QED BY <2>1
<1> QED BY <1>1, <1>4

(* The sections of cluster_items_in_memory.                                *)
Section(items, ccir) == FoldLeft(AssignInMemory, Empty, OfCcir(items, ccir)).clusters

(* There is a section for every CCIR that a row has, and no other.         *)
LEMMA SectionsAre ==
  ASSUME RowsInv, NEW items, Selected(items), NEW sections, sections = FirstSeen(items)
  PROVE  /\ Once(sections) /\ Len(sections) \in Nat /\ DOMAIN sections = 1..Len(sections)
         /\ \A i \in ToSet(items) : \E k \in 1..Len(sections) : sections[k] = rows[i].ccir
         /\ \A k \in 1..Len(sections) : \E i \in ToSet(items) : sections[k] = rows[i].ccir
         /\ ClusterInMemory(items)
              = FlattenSeq([k \in 1..Len(sections) |-> Section(items, sections[k])])
<1> DEFINE values == [k \in DOMAIN items |-> rows[items[k]].ccir]
           V == {rows[i].ccir : i \in ToSet(items)}
           n == Len(sections)
<1>1. items \in Seq(DOMAIN rows) /\ Len(items) \in Nat /\ DOMAIN items = 1..Len(items)
  BY LenProperties DEF Selected
<1>2. /\ sections \in Seq(V) /\ Once(sections) /\ n \in Nat /\ DOMAIN sections = 1..n
      /\ \A i \in ToSet(items) : \E k \in 1..n : sections[k] = rows[i].ccir
  <2>1. values \in [1..Len(items) -> V]
    <3> SUFFICES ASSUME NEW k \in 1..Len(items) PROVE rows[items[k]].ccir \in V
      BY <1>1
    <3>1. items[k] \in ToSet(items)
      BY <1>1 DEF ToSet
    <3> QED BY <3>1
  <2>2. values \in Seq(V)
    BY <1>1, <2>1, FunctionIsSeq
  <2>3. sections = Distinct(values)
    BY DEF FirstSeen
  <2> HIDE DEF V
  <2>4. sections \in Seq(V) /\ Once(sections) /\ ToSet(sections) = ToSet(values)
    <3> HIDE DEF values
    <3> QED BY <2>2, <2>3, DistinctIs
  <2>5. n \in Nat /\ DOMAIN sections = 1..n
    BY <2>4, LenProperties
  <2>6. ASSUME NEW i \in ToSet(items) PROVE \E k \in 1..n : sections[k] = rows[i].ccir
    <3>1. PICK m \in 1..Len(items) : i = items[m]
      BY <1>1 DEF ToSet
    <3>2. rows[i].ccir \in ToSet(values)
      BY <1>1, <3>1 DEF ToSet
    <3>3. rows[i].ccir \in ToSet(sections)
      BY <2>4, <3>2
    <3> QED BY <2>5, <3>3 DEF ToSet
  <2> QED BY <2>4, <2>5, <2>6
<1>3. ClusterInMemory(items) = FlattenSeq([k \in 1..n |-> Section(items, sections[k])])
  <2>1. ClusterInMemory(items)
          = FlattenSeq([k \in DOMAIN sections |-> Section(items, sections[k])])
    BY DEF ClusterInMemory, Section, Empty
  <2> QED BY <1>2, <2>1
<1>4. \A k \in 1..n : \E i \in ToSet(items) : sections[k] = rows[i].ccir
  <2>1. \A k \in 1..n : sections[k] \in V
    BY <1>2, ElementOfSeq
  <2> QED BY <2>1
<1> QED BY <1>2, <1>3, <1>4

(* The clusters of a section partition the rows of its CCIR.               *)
LEMMA SectionIs ==
  ASSUME RowsInv, NEW items, Selected(items), NEW ccir
  PROVE  Parted(Section(items, ccir), {i \in ToSet(items) : rows[i].ccir = ccir})
<1>1. /\ Selected(OfCcir(items, ccir))
      /\ ToSet(OfCcir(items, ccir)) = {i \in ToSet(items) : rows[i].ccir = ccir}
  BY OfCcirIs
<1>2. \A i, j \in ToSet(OfCcir(items, ccir)) : rows[i].ccir = rows[j].ccir
  BY <1>1
<1>3. Parted(Section(items, ccir), ToSet(OfCcir(items, ccir)))
  BY <1>1, <1>2, GroupIs DEF Section
<1> QED BY <1>1, <1>3

(* cluster_items_in_memory puts each of its items in one cluster, whatever *)
(* it groups by: the embeddings only say in which.                         *)
LEMMA ClusterInMemoryIs ==
  ASSUME RowsInv, NEW items, Selected(items)
  PROVE  Parted(ClusterInMemory(items), ToSet(items))
<1> DEFINE sections == FirstSeen(items)
           n == Len(sections)
           D == [k \in 1..n |-> Section(items, sections[k])]
           I == [k \in 1..n |-> {i \in ToSet(items) : rows[i].ccir = sections[k]}]
<1>1. /\ Once(sections) /\ n \in Nat /\ DOMAIN sections = 1..n
      /\ \A i \in ToSet(items) : \E k \in 1..n : sections[k] = rows[i].ccir
      /\ ClusterInMemory(items) = FlattenSeq(D)
  BY SectionsAre
<1> HIDE DEF sections, n
<1>4. ASSUME NEW k \in 1..n PROVE Parted(D[k], I[k])
  <2>1. Parted(Section(items, sections[k]), I[k])
    BY SectionIs
  <2> QED BY <2>1
<1>5. D \in [1..n -> Seq(Seq(DOMAIN rows))]
  <2>1. \A k \in 1..n : D[k] \in Seq(Seq(DOMAIN rows))
    BY <1>4 DEF Parted
  <2> QED BY <2>1
<1>6. \A k, l \in 1..n : \A i \in I[k] : i \in I[l] => k = l
  BY <1>1 DEF Once
<1>7. UNION {I[k] : k \in 1..n} = ToSet(items)
  BY <1>1
<1> HIDE DEF D, I
<1>8. Parted(FlattenSeq(D), UNION {I[k] : k \in 1..n})
  BY <1>1, <1>4, <1>5, <1>6, FlattenParted
<1> QED BY <1>1, <1>7, <1>8

-----------------------------------------------------------------------------
(* The documents.                                                          *)
LEMMA ClusterSet ==
  ASSUME NEW C, NEW I, Parted(C, I)
  PROVE  /\ C \in Seq(Seq(DOMAIN rows)) /\ Len(C) \in Nat /\ DOMAIN C = 1..Len(C)
         /\ \A k \in DOMAIN C : \A i : Contains(C[k], i) <=> i \in ToSet(C[k])
<1>1. C \in Seq(Seq(DOMAIN rows)) /\ Len(C) \in Nat /\ DOMAIN C = 1..Len(C)
  BY LenProperties DEF Parted
<1>2. ASSUME NEW k \in DOMAIN C, NEW i PROVE Contains(C[k], i) <=> i \in ToSet(C[k])
  <2>1. C[k] \in Seq(DOMAIN rows)
    BY <1>1, ElementOfSeq
  <2> QED BY <2>1, ContainsIs
<1> QED BY <1>1, <1>2

(* html_renderer numbers the clusters of the whole table, and sab_html     *)
(* groups some of the rows by those numbers.                               *)
LEMMA GroupedIs ==
  ASSUME RowsInv, NEW items, Selected(items)
  PROVE  Parted(Grouped(items), ToSet(items))
<1> DEFINE clusters == ClusterInMemory(AllRows)
           key(i) == CHOOSE k \in DOMAIN clusters : Contains(clusters[k], i)
           values == [n \in DOMAIN items |-> key(items[n])]
           keys == Distinct(values)
           G == Grouped(items)
<1>1. items \in Seq(DOMAIN rows) /\ Len(items) \in Nat /\ DOMAIN items = 1..Len(items)
  BY LenProperties DEF Selected
<1>2. Parted(clusters, DOMAIN rows)
  BY KeptIs, ClusterInMemoryIs
<1>3. ToSet(items) \in SUBSET DOMAIN rows
  BY SelectedSet
<1> HIDE DEF clusters
<1>4. ASSUME NEW i \in DOMAIN rows
      PROVE  key(i) \in DOMAIN clusters /\ i \in ToSet(clusters[key(i)])
  <2>1. PICK k \in DOMAIN clusters : i \in ToSet(clusters[k])
    BY <1>2 DEF Parted
  <2>2. \E l \in DOMAIN clusters : Contains(clusters[l], i)
    BY <1>2, <2>1, ClusterSet
  <2>3. key(i) \in DOMAIN clusters /\ Contains(clusters[key(i)], i)
    BY <2>2
  <2> QED BY <1>2, <2>3, ClusterSet
<1>5. G = [n \in DOMAIN keys |-> InOrder({i \in ToSet(items) : key(i) = keys[n]})]
  BY DEF Grouped, clusters
<1> HIDE DEF key, G
<1>6. /\ keys \in Seq(DOMAIN clusters) /\ Len(keys) \in Nat /\ DOMAIN keys = 1..Len(keys)
      /\ Once(keys) /\ ToSet(keys) = ToSet(values)
  <2>1. \A n \in 1..Len(items) : values[n] \in DOMAIN clusters
    <3> SUFFICES ASSUME NEW n \in 1..Len(items) PROVE key(items[n]) \in DOMAIN clusters
      BY <1>1
    <3>1. items[n] \in DOMAIN rows
      BY <1>1, ElementOfSeq
    <3> QED BY <1>4, <3>1
  <2>2. values \in [1..Len(items) -> DOMAIN clusters]
    BY <1>1, <2>1
  <2> HIDE DEF values
  <2>3. values \in Seq(DOMAIN clusters)
    BY <1>1, <2>2, FunctionIsSeq
  <2>4. keys \in Seq(DOMAIN clusters) /\ Once(keys) /\ ToSet(keys) = ToSet(values)
    BY <2>3, DistinctIs
  <2> QED BY <2>4, LenProperties
<1> DEFINE of(n) == {i \in ToSet(items) : key(i) = keys[n]}
<1>7. ASSUME NEW n \in DOMAIN keys
      PROVE  G[n] = InOrder(of(n)) /\ Selected(G[n]) /\ ToSet(G[n]) = of(n)
  <2>1. of(n) \in SUBSET DOMAIN rows
    BY <1>3
  <2>2. G[n] = InOrder(of(n))
    BY <1>5
  <2> QED BY <2>1, <2>2, Selection
<1>8. G \in Seq(Seq(DOMAIN rows)) /\ DOMAIN G = DOMAIN keys
  <2>1. \A n \in 1..Len(keys) : G[n] \in Seq(DOMAIN rows)
    BY <1>6, <1>7 DEF Selected
  <2>2. G \in [1..Len(keys) -> Seq(DOMAIN rows)]
    <3> HIDE DEF keys
    <3> QED BY <1>5, <1>6, <2>1
  <2> HIDE DEF keys
  <2> QED BY <1>6, <2>2, FunctionIsSeq
<1>9. ASSUME NEW i \in ToSet(items) PROVE \E n \in DOMAIN keys : i \in of(n)
  <2>1. PICK m \in 1..Len(items) : i = items[m]
    BY <1>1 DEF ToSet
  <2>2. key(i) \in ToSet(values)
    BY <1>1, <2>1 DEF ToSet
  <2>3. key(i) \in ToSet(keys)
    BY <1>6, <2>2
  <2>4. PICK n \in DOMAIN keys : keys[n] = key(i)
    BY <2>3 DEF ToSet
  <2> QED BY <2>4
<1>10. ASSUME NEW n \in DOMAIN keys PROVE G[n] # <<>>
  <2>1. keys[n] \in ToSet(values)
    BY <1>6 DEF ToSet
  <2>2. PICK m \in DOMAIN items : keys[n] = key(items[m])
    BY <2>1 DEF ToSet
  <2>3. items[m] \in of(n)
    BY <2>2 DEF ToSet
  <2>4. DOMAIN G[n] # {}
    BY <1>7, <2>3 DEF ToSet
  <2> QED BY <2>4
<1>11. ASSUME NEW m \in DOMAIN keys, NEW n \in DOMAIN keys, NEW i \in of(m), i \in of(n)
       PROVE  m = n
  BY <1>6, <1>11 DEF Once
<1>12. ASSUME NEW n \in DOMAIN keys, NEW i \in of(n), NEW j \in of(n)
       PROVE  rows[i].ccir = rows[j].ccir
  <2>1. i \in DOMAIN rows /\ j \in DOMAIN rows /\ key(i) = key(j)
    BY <1>3
  <2>2. /\ key(i) \in DOMAIN clusters
        /\ i \in ToSet(clusters[key(i)]) /\ j \in ToSet(clusters[key(i)])
    BY <1>4, <2>1
  <2> QED BY <1>2, <2>2 DEF Parted
<1> HIDE DEF of, keys
<1>13. \A n \in DOMAIN keys : of(n) \subseteq ToSet(items)
  BY DEF of
<1>14. Parted(G, ToSet(items))
  BY <1>7, <1>8, <1>9, <1>10, <1>11, <1>12, <1>13 DEF Parted
<1> QED BY <1>14 DEF G

(* A CNR section shows every row it is given and is led by them.           *)
LEMMA FlaggedIs ==
  ASSUME RowsInv,
         NEW doc, Parted(doc, {i \in DOMAIN rows : rows[i].cnr = "I" /\ rows[i].ccir # NoCcir})
  PROVE  /\ \A i \in DOMAIN rows : rows[i].cnr = "I" /\ rows[i].ccir # NoCcir =>
              \E k \in DOMAIN doc : /\ Contains(doc[k], i)
                                    /\ Score(doc[k]) >= rows[i].score
                                    /\ rows[Lead(doc[k])].ccir = rows[i].ccir
         /\ \A k \in DOMAIN doc : rows[Lead(doc[k])].cnr = "I"
<1> DEFINE I == {i \in DOMAIN rows : rows[i].cnr = "I" /\ rows[i].ccir # NoCcir}
<1>1. ASSUME NEW k \in DOMAIN doc
      PROVE  /\ Lead(doc[k]) \in ToSet(doc[k]) /\ Lead(doc[k]) \in I /\ Score(doc[k]) \in Int
             /\ \A j \in ToSet(doc[k]) : rows[j].score <= Score(doc[k])
  <2>1. Selected(doc[k]) /\ doc[k] # <<>> /\ ToSet(doc[k]) \subseteq I
    BY DEF Parted
  <2>2. /\ Lead(doc[k]) \in ToSet(doc[k]) /\ Score(doc[k]) \in Int
        /\ \A j \in ToSet(doc[k]) : rows[j].score <= Score(doc[k])
    BY <2>1, LeadIsFirst
  <2> QED BY <2>1, <2>2
<1>2. ASSUME NEW i \in I
      PROVE  \E k \in DOMAIN doc : /\ Contains(doc[k], i)
                                   /\ Score(doc[k]) >= rows[i].score
                                   /\ rows[Lead(doc[k])].ccir = rows[i].ccir
  <2>1. PICK k \in DOMAIN doc : i \in ToSet(doc[k])
    BY DEF Parted
  <2>2. Contains(doc[k], i)
    BY <2>1, ClusterSet
  <2>3. rows[Lead(doc[k])].ccir = rows[i].ccir
    BY <1>1, <2>1 DEF Parted
  <2>4. rows[i].score \in Int /\ Score(doc[k]) \in Int /\ rows[i].score <= Score(doc[k])
    BY <1>1, <2>1, PositionsAre
  <2> QED BY <2>2, <2>3, <2>4
<1>3. \A k \in DOMAIN doc : rows[Lead(doc[k])].cnr = "I"
  BY <1>1
<1> QED BY <1>2, <1>3

(* Both CNR sections are such.                                             *)
LEMMA FlaggedAlways == RowsInv => FlaggedIsShown
<1> SUFFICES ASSUME RowsInv PROVE FlaggedIsShown
  OBVIOUS
<1> DEFINE I == {i \in DOMAIN rows : rows[i].cnr = "I" /\ rows[i].ccir # NoCcir}
<1>1. Selected(OfCnr(Kept, "I")) /\ ToSet(OfCnr(Kept, "I")) = I
  BY KeptIs, OfCnrIs
<1>2. Parted(BriefFlagged, I)
  BY <1>1, ClusterInMemoryIs DEF BriefFlagged
<1>3. Parted(HtmlFlagged, I)
  BY <1>1, GroupedIs DEF HtmlFlagged
<1> QED BY <1>2, <1>3, FlaggedIs DEF FlaggedIsShown

(* brief.md and sab.html show every CAT I verdict that answers a CCIR in   *)
(* their CNR sections, in a cluster whose title is that of a CAT I verdict *)
(* of its CCIR that scores as high, and nothing else there: for any number *)
(* of rows, any embeddings, and wherever a verdict or an embedding arrives.*)
THEOREM FlaggedShown == Spec => []FlaggedIsShown
<1>1. Init => RowsInv
  BY DEF Init, RowsInv
<1> QED BY <1>1, RowsStep, FlaggedAlways, PTL DEF Spec

-----------------------------------------------------------------------------
(* The cap of a section.  The sort by score is total and keeps ties in     *)
(* place, so what a cap leaves out scores no higher than what it shows.    *)
LEMMA BeforeIs ==
  ASSUME RowsInv, NEW C, NEW I, Parted(C, I)
  PROVE  /\ \A k \in DOMAIN C : Score(C[k]) \in Int
         /\ Ordered(DOMAIN C, [k \in DOMAIN C |-> Before(C, k)])
         /\ Cardinality(DOMAIN C) = Len(C)
<1>1. C \in Seq(Seq(DOMAIN rows)) /\ Len(C) \in Nat /\ DOMAIN C = 1..Len(C)
  BY ClusterSet
<1>2. \A k \in DOMAIN C : Score(C[k]) \in Int
  BY LeadIsFirst DEF Parted
<1>3. IsFiniteSet(DOMAIN C) /\ Cardinality(DOMAIN C) = Len(C)
  <2>1. \A n \in Nat : IsFiniteSet(1..n) /\ Cardinality(1..n) = n
    BY FS_Interval
  <2> QED BY <1>1, <2>1
<1> DEFINE below == [k \in DOMAIN C |-> Before(C, k)]
<1>4. \A k, l \in DOMAIN C : l \in below[k] <=>
        \/ Score(C[l]) > Score(C[k])
        \/ Score(C[l]) = Score(C[k]) /\ l < k
  BY DEF Before
<1>5. below \in [DOMAIN C -> SUBSET DOMAIN C]
  BY DEF Before
<1>6. \A k \in DOMAIN C : k \in Int
  BY <1>1
<1> HIDE DEF below
<1>7. \A k \in DOMAIN C : k \notin below[k]
  BY <1>2, <1>4, <1>6
<1>8. \A k, l \in DOMAIN C : k # l => k \in below[l] \/ l \in below[k]
  BY <1>2, <1>4, <1>6
<1>9. ASSUME NEW k \in DOMAIN C, NEW l \in DOMAIN C, k \in below[l], NEW j \in below[k]
      PROVE  j \in below[l]
  <2>1. j \in DOMAIN C
    BY <1>5, <1>9
  <2>2. /\ Score(C[j]) \in Int /\ Score(C[k]) \in Int /\ Score(C[l]) \in Int
        /\ j \in Int /\ k \in Int /\ l \in Int
    BY <1>2, <1>6, <2>1
  <2>3. Score(C[k]) > Score(C[l]) \/ (Score(C[k]) = Score(C[l]) /\ k < l)
    BY <1>4, <1>9
  <2>4. Score(C[j]) > Score(C[k]) \/ (Score(C[j]) = Score(C[k]) /\ j < k)
    BY <1>4, <1>9, <2>1
  <2>5. Score(C[j]) > Score(C[l]) \/ (Score(C[j]) = Score(C[l]) /\ j < l)
    BY <2>2, <2>3, <2>4
  <2> QED BY <1>4, <2>1, <2>5
<1>10. Ordered(DOMAIN C, below)
  BY <1>3, <1>5, <1>7, <1>8, <1>9 DEF Ordered
<1> QED BY <1>2, <1>3, <1>10 DEF below

(* The sort by score: every cluster, at its rank.                          *)
LEMMA SortIs ==
  ASSUME RowsInv, NEW C, NEW I, Parted(C, I)
  PROVE  /\ ByScore(C) \in Seq(Seq(DOMAIN rows)) /\ Len(ByScore(C)) = Len(C)
         /\ \A n \in 1..Len(C) : \E k \in DOMAIN C :
              ByScore(C)[n] = C[k] /\ Cardinality(Before(C, k)) = n - 1
         /\ \A k \in DOMAIN C :
              /\ Cardinality(Before(C, k)) \in 0 .. Len(C) - 1
              /\ ByScore(C)[Cardinality(Before(C, k)) + 1] = C[k]
         /\ \A k, l \in DOMAIN C :
              Cardinality(Before(C, k)) < Cardinality(Before(C, l)) => Score(C[k]) >= Score(C[l])
<1> DEFINE below == [k \in DOMAIN C |-> Before(C, k)]
           D == DOMAIN C
           N == Len(C)
<1>1. C \in Seq(Seq(DOMAIN rows)) /\ N \in Nat /\ D = 1..N
  BY ClusterSet
<1>2. /\ \A k \in D : Score(C[k]) \in Int
      /\ Ordered(D, below) /\ Cardinality(D) = N
  BY BeforeIs
<1>3. \A k \in D : below[k] = Before(C, k)
  OBVIOUS
<1>4. \A k, l \in D : l \in below[k] <=>
        \/ Score(C[l]) > Score(C[k])
        \/ Score(C[l]) = Score(C[k]) /\ l < k
  BY DEF Before
<1> HIDE DEF below, D, N
<1>5. /\ \A k \in D : Cardinality(below[k]) \in 0 .. N - 1
      /\ \A k, l \in D : k \in below[l] => Cardinality(below[k]) < Cardinality(below[l])
      /\ \A n \in 1..N : \E k \in D : Cardinality(below[k]) = n - 1
  <2>1. /\ \A k \in D : Cardinality(below[k]) \in 0 .. Cardinality(D) - 1
        /\ \A k, l \in D : k \in below[l] => Cardinality(below[k]) < Cardinality(below[l])
        /\ \A n \in 1..Cardinality(D) : \E k \in D : Cardinality(below[k]) = n - 1
    BY <1>2, Ranks
  <2> QED BY <1>2, <2>1
<1> DEFINE at(n) == CHOOSE k \in D : Cardinality(Before(C, k)) = n - 1
<1>6. ASSUME NEW n \in 1..N PROVE at(n) \in D /\ Cardinality(below[at(n)]) = n - 1
  <2>1. \E k \in D : Cardinality(Before(C, k)) = n - 1
    BY <1>3, <1>5
  <2>2. at(n) \in D /\ Cardinality(Before(C, at(n))) = n - 1
    BY <2>1
  <2> QED BY <1>3, <2>2
<1>7. ByScore(C) = [n \in 1..N |-> C[at(n)]]
  BY <1>1 DEF ByScore, D
<1> HIDE DEF at
<1>8. ByScore(C) \in Seq(Seq(DOMAIN rows)) /\ Len(ByScore(C)) = N
  <2>1. \A n \in 1..N : C[at(n)] \in Seq(DOMAIN rows)
    <3> SUFFICES ASSUME NEW n \in 1..N PROVE C[at(n)] \in Seq(DOMAIN rows)
      OBVIOUS
    <3>1. at(n) \in 1..Len(C)
      BY <1>1, <1>6 DEF N
    <3> QED BY <1>1, <3>1, ElementOfSeq
  <2>2. ByScore(C) \in [1..N -> Seq(DOMAIN rows)]
    BY <1>7, <2>1
  <2> QED BY <1>1, <2>2, FunctionIsSeq
<1>9. ASSUME NEW n \in 1..N
      PROVE  \E k \in D : ByScore(C)[n] = C[k] /\ Cardinality(Before(C, k)) = n - 1
  BY <1>3, <1>6, <1>7
<1>10. ASSUME NEW k \in D, NEW l \in D, Cardinality(below[k]) < Cardinality(below[l])
       PROVE  Score(C[k]) >= Score(C[l])
  <2>1. /\ Cardinality(below[k]) \in Int /\ Cardinality(below[l]) \in Int
        /\ Score(C[k]) \in Int /\ Score(C[l]) \in Int
    <3>1. \A x \in 0 .. N - 1 : x \in Int
      BY <1>1
    <3> QED BY <1>2, <1>5, <3>1
  <2>2. l \notin below[k]
    BY <1>5, <1>10, <2>1
  <2> QED BY <1>1, <1>4, <2>1, <2>2, <1>2, <1>10
<1>11. ASSUME NEW k \in D
       PROVE  ByScore(C)[Cardinality(below[k]) + 1] = C[k]
  <2>1. PICK n \in 1..N : n = Cardinality(below[k]) + 1 /\ n - 1 = Cardinality(below[k])
    BY <1>1, <1>5
  <2>2. at(n) \in D /\ Cardinality(below[at(n)]) = Cardinality(below[k])
    BY <1>6, <2>1
  <2>3. at(n) \notin below[k] /\ k \notin below[at(n)]
    <3>1. \A x, y \in D : Cardinality(below[x]) = Cardinality(below[y]) => x \notin below[y]
      BY <1>1, <1>5
    <3> QED BY <2>2, <3>1
  <2>4. at(n) = k
    BY <1>2, <2>2, <2>3 DEF Ordered
  <2> QED BY <1>7, <2>1, <2>4
<1> QED BY <1>3, <1>5, <1>8, <1>9, <1>10, <1>11 DEF D, N

(* A row is in a cluster that is shown, or outscored by all that are.      *)
LEMMA ShownIs ==
  ASSUME RowsInv, NEW C, NEW I, Parted(C, I), NEW i \in I
  PROVE  InPlace(i, Shown(C))
<1> DEFINE B == ByScore(C)
           N == Len(C)
           R(k) == Cardinality(Before(C, k))
<1>1. /\ C \in Seq(Seq(DOMAIN rows)) /\ N \in Nat /\ DOMAIN C = 1..N
      /\ \A k \in DOMAIN C : \A j : Contains(C[k], j) <=> j \in ToSet(C[k])
  BY ClusterSet
<1>2. /\ B \in Seq(Seq(DOMAIN rows)) /\ Len(B) = N
      /\ \A n \in 1..N : \E k \in DOMAIN C : B[n] = C[k] /\ R(k) = n - 1
      /\ \A k \in DOMAIN C : R(k) \in 0 .. N - 1 /\ B[R(k) + 1] = C[k]
      /\ \A k, l \in DOMAIN C : R(k) < R(l) => Score(C[k]) >= Score(C[l])
  BY SortIs
<1>3. SectionCap \in Nat \ {0}
  BY DocumentsAssumption
<1>4. PICK cut \in 0..N : /\ cut >= N \/ cut = SectionCap
                         /\ Shown(C) = SubSeq(B, 1, cut)
  <2>1. Shown(C) = SubSeq(B, 1, IF N < SectionCap THEN N ELSE SectionCap)
    BY DEF Shown
  <2> HIDE DEF B, N
  <2>2. CASE N < SectionCap
    BY <1>1, <2>1, <2>2
  <2>3. CASE ~(N < SectionCap)
    <3>1. Shown(C) = SubSeq(B, 1, SectionCap)
      BY <2>1, <2>3, Zenon
    <3>2. SectionCap \in 0..N
      BY <1>1, <1>3, <2>3
    <3> QED BY <3>1, <3>2
  <2> QED BY <2>2, <2>3
<1> DEFINE shown == Shown(C)
<1> HIDE DEF B, N, R, shown
<1>5. /\ cut \in Nat /\ cut <= N /\ Len(shown) = cut /\ DOMAIN shown = 1..cut
      /\ \A n \in 1..cut : shown[n] = B[n]
  <2>1. cut \in Nat /\ cut <= N
    BY <1>1
  <2>2. \A n \in 1..cut : B[n] \in Seq(DOMAIN rows)
    <3>1. \A n \in 1..cut : n \in 1..Len(B)
      BY <1>1, <1>2, <2>1
    <3> QED BY <1>2, <3>1, ElementOfSeq
  <2>3. /\ SubSeq(B, 1, cut) \in Seq(Seq(DOMAIN rows))
        /\ Len(SubSeq(B, 1, cut)) = IF 1 <= cut THEN cut - 1 + 1 ELSE 0
        /\ \A n \in 1 .. cut - 1 + 1 : SubSeq(B, 1, cut)[n] = B[1 + n - 1]
    BY <1>2, <2>1, <2>2, SubSeqProperties
  <2>4. shown = SubSeq(B, 1, cut)
    BY <1>4 DEF shown
  <2>5. shown \in Seq(Seq(DOMAIN rows)) /\ Len(shown) = cut
    BY <2>1, <2>3, <2>4
  <2>6. DOMAIN shown = 1..cut
    BY <2>5, LenProperties
  <2>7. \A n \in 1..cut : shown[n] = B[n]
    BY <2>1, <2>3, <2>4
  <2> QED BY <2>1, <2>5, <2>6, <2>7
<1>6. PICK k0 \in DOMAIN C : i \in ToSet(C[k0])
  BY DEF Parted
<1>7. R(k0) \in 0 .. N - 1 /\ B[R(k0) + 1] = C[k0]
  BY <1>2
<1>8. PICK r \in 1..N : r = R(k0) + 1 /\ R(k0) = r - 1 /\ B[r] = C[k0]
  BY <1>1, <1>7
<1>9. CASE r <= cut
  <2>1. r \in DOMAIN shown /\ shown[r] = C[k0]
    BY <1>5, <1>8, <1>9
  <2>2. Contains(shown[r], i)
    BY <1>1, <1>6, <2>1
  <2> QED BY <2>1, <2>2 DEF InPlace, shown
<1>10. CASE cut < r
  <2>1. cut = SectionCap
    <3>1. r <= N
      BY <1>1
    <3> QED BY <1>1, <1>4, <1>5, <1>10, <3>1
  <2>2. /\ \A k \in DOMAIN C : Score(C[k]) \in Int
        /\ rows[i].score <= Score(C[k0]) /\ rows[i].score \in Int
    <3>1. Selected(C[k0]) /\ C[k0] # <<>>
      BY DEF Parted
    <3>2. rows[i].score <= Score(C[k0])
      BY <1>6, <3>1, LeadIsFirst
    <3>3. i \in DOMAIN rows
      BY <1>6, <3>1, SelectedSet
    <3> QED BY <3>2, <3>3, BeforeIs, PositionsAre
  <2>3. ASSUME NEW n \in 1..cut PROVE Score(shown[n]) >= rows[i].score
    <3>1. n \in 1..N /\ n < r /\ shown[n] = B[n]
      BY <1>1, <1>5, <1>10
    <3>2. PICK k \in DOMAIN C : B[n] = C[k] /\ R(k) = n - 1
      BY <1>2, <3>1
    <3>3. R(k) < R(k0)
      BY <1>8, <3>1, <3>2
    <3>4. Score(C[k]) >= Score(C[k0])
      BY <1>2, <3>3
    <3>5. Score(C[k]) \in Int /\ Score(C[k0]) \in Int
      BY <2>2
    <3> QED BY <2>2, <3>1, <3>2, <3>4, <3>5
  <2> QED BY <1>5, <2>1, <2>3 DEF InPlace, shown
<1> QED BY <1>5, <1>9, <1>10

-----------------------------------------------------------------------------
(* cluster.md.                                                             *)
LEMMA ClusterDocumentIs ==
  ASSUME RowsInv
  PROVE  Parted(ClusterDocument, {i \in DOMAIN rows : rows[i].ccir \notin Unlisted})
<1> DEFINE n == Len(Order)
           D == [s \in 1..n |-> ClusterInMemory(OfCcir(Kept, Order[s]))]
           I == [s \in 1..n |-> {i \in ToSet(Kept) : rows[i].ccir = Order[s]}]
           K == {i \in DOMAIN rows : rows[i].ccir \in ToSet(Order)}
           O == {i \in DOMAIN rows : rows[i].ccir = NoCcir}
<1>1. /\ n \in Nat /\ DOMAIN Order = 1..n
      /\ \A k, l \in 1..n : Order[k] = Order[l] => k = l
      /\ \A k \in 1..n : Order[k] \in ToSet(Order)
      /\ NoCcir \notin ToSet(Order)
  <2>1. n \in Nat /\ DOMAIN Order = 1..n
    BY DocumentsAssumption, LenProperties
  <2> QED BY <2>1, DocumentsAssumption DEF IsInjective, ToSet
<1>2. /\ ToSet(Kept) = {i \in DOMAIN rows : rows[i].ccir # NoCcir} /\ Selected(Kept)
      /\ ToSet(Others) = O /\ Selected(Others)
  BY KeptIs
<1> HIDE DEF n
<1>3. ASSUME NEW s \in 1..n PROVE Parted(D[s], I[s])
  <2>1. Selected(OfCcir(Kept, Order[s])) /\ ToSet(OfCcir(Kept, Order[s])) = I[s]
    BY <1>2, OfCcirIs
  <2>2. Parted(ClusterInMemory(OfCcir(Kept, Order[s])), I[s])
    BY <2>1, ClusterInMemoryIs
  <2> QED BY <2>2
<1>4. D \in [1..n -> Seq(Seq(DOMAIN rows))]
  <2>1. \A s \in 1..n : D[s] \in Seq(Seq(DOMAIN rows))
    BY <1>3 DEF Parted
  <2> QED BY <2>1
<1>5. \A k, l \in 1..n : \A i \in I[k] : i \in I[l] => k = l
  BY <1>1
<1>6. UNION {I[s] : s \in 1..n} = K
  <2>1. ASSUME NEW i \in K PROVE \E s \in 1..n : i \in I[s]
    <3>1. rows[i].ccir \in ToSet(Order) /\ rows[i].ccir # NoCcir
      BY <1>1
    <3>2. PICK s \in 1..n : rows[i].ccir = Order[s]
      BY <1>1, <3>1 DEF ToSet
    <3> QED BY <1>2, <3>1, <3>2
  <2>2. ASSUME NEW s \in 1..n, NEW i \in I[s] PROVE i \in K
    BY <1>1, <1>2
  <2> HIDE DEF I, K
  <2> QED BY <2>1, <2>2
<1>7. ClusterDocument = FlattenSeq(D) \o ClusterInMemory(Others)
  <2> DEFINE E == [s \in DOMAIN Order |-> ClusterInMemory(OfCcir(Kept, Order[s]))]
  <2>1. ClusterDocument = FlattenSeq(E) \o ClusterInMemory(Others)
    BY DEF ClusterDocument
  <2>2. E = D
    BY <1>1
  <2> QED BY <2>1, <2>2, Zenon
<1> HIDE DEF D, I
<1>8. Parted(FlattenSeq(D), K)
  <2>1. Parted(FlattenSeq(D), UNION {I[s] : s \in 1..n})
    <3>1. n \in Nat
      BY <1>1
    <3>2. \A k \in 1..n : Parted(D[k], I[k])
      BY <1>3
    <3> QED BY <3>1, <3>2, <1>4, <1>5, FlattenParted
  <2> QED BY <1>6, <2>1
<1>9. Parted(ClusterInMemory(Others), O)
  BY <1>2, ClusterInMemoryIs
<1>10. Parted(FlattenSeq(D) \o ClusterInMemory(Others), K \union O)
  <2>1. \A i \in K : i \notin O
    BY <1>1
  <2> HIDE DEF K, O
  <2> QED BY <1>8, <1>9, <2>1, ConcatParted
<1>11. K \union O = {i \in DOMAIN rows : rows[i].ccir \notin Unlisted}
  <2>1. \A i \in DOMAIN rows :
          rows[i].ccir \in ToSet(Order) \/ rows[i].ccir \in Unlisted \/ rows[i].ccir = NoCcir
    BY PositionsAre DEF Row, Ccirs
  <2> QED BY <2>1, DocumentsAssumption
<1> QED BY <1>7, <1>10, <1>11

(* Of clusters that partition the rows one contains a row.                 *)
LEMMA InOneCluster ==
  ASSUME NEW C, NEW I, Parted(C, I), NEW i \in I
  PROVE  Cardinality({k \in DOMAIN C : Contains(C[k], i)}) = 1
<1>1. PICK k \in DOMAIN C : i \in ToSet(C[k])
  BY DEF Parted
<1>2. {l \in DOMAIN C : Contains(C[l], i)} = {k}
  <2>1. \A l \in DOMAIN C : Contains(C[l], i) <=> i \in ToSet(C[l])
    BY ClusterSet
  <2>2. \A l \in DOMAIN C : i \in ToSet(C[l]) <=> l = k
    BY <1>1 DEF Parted
  <2> QED BY <2>1, <2>2
<1> QED BY <1>2, FS_Singleton

(* And none contains another.                                              *)
LEMMA InNoCluster ==
  ASSUME NEW C, NEW I, Parted(C, I), NEW i, i \notin I
  PROVE  Cardinality({k \in DOMAIN C : Contains(C[k], i)}) = 0
<1>1. \A k \in DOMAIN C : ~Contains(C[k], i)
  BY ClusterSet DEF Parted
<1>2. {k \in DOMAIN C : Contains(C[k], i)} = {}
  BY <1>1
<1> QED BY <1>2, FS_EmptySet

(* Every row has its place, in the clusters and row by row.                *)
LEMMA PlacedAlways == RowsInv => EveryRowHasItsPlace
<1> SUFFICES ASSUME RowsInv, NEW i \in DOMAIN rows
             PROVE  /\ LET doc == ClusterDocument
                       IN Cardinality({k \in DOMAIN doc : Contains(doc[k], i)}) =
                            IF rows[i].ccir \in Unlisted THEN 0 ELSE 1
                    /\ rows[i].ccir \in ToSet(Order) =>
                         /\ rows[i].cnr # "other" =>
                              InPlace(i, BriefSection(rows[i].cnr, rows[i].ccir))
                         /\ InPlace(i, HtmlSection(rows[i].ccir))
                    /\ rows[i].ccir # NoCcir \/ Strict(i) => RowInPlace(i, "vault")
                    /\ rows[i].ccir = NoCcir =>
                         /\ RowInPlace(i, "filtered")
                         /\ rows[i].cnr = "none" => RowInPlace(i, "routine")
  BY DEF EveryRowHasItsPlace
<1>1. Cardinality({k \in DOMAIN ClusterDocument : Contains(ClusterDocument[k], i)}) =
        IF rows[i].ccir \in Unlisted THEN 0 ELSE 1
  <2> DEFINE L == {j \in DOMAIN rows : rows[j].ccir \notin Unlisted}
  <2>1. Parted(ClusterDocument, L)
    BY ClusterDocumentIs
  <2>2. i \in L <=> rows[i].ccir \notin Unlisted
    OBVIOUS
  <2> HIDE DEF L
  <2>3. CASE i \in L
    BY <2>1, <2>2, <2>3, InOneCluster
  <2>4. CASE i \notin L
    BY <2>1, <2>2, <2>4, InNoCluster
  <2> QED BY <2>3, <2>4
<1>2. ASSUME rows[i].ccir \in ToSet(Order)
      PROVE  /\ InPlace(i, BriefSection(rows[i].cnr, rows[i].ccir))
             /\ InPlace(i, HtmlSection(rows[i].ccir))
  <2> DEFINE cnr == rows[i].cnr
             ccir == rows[i].ccir
  <2>1. Selected(Kept) /\ i \in ToSet(Kept)
    BY <1>2, KeptIs, DocumentsAssumption
  <2>2. Selected(OfCnr(Kept, cnr)) /\ i \in ToSet(OfCnr(Kept, cnr))
    BY <2>1, OfCnrIs
  <2>3. Selected(OfCcir(OfCnr(Kept, cnr), ccir)) /\ i \in ToSet(OfCcir(OfCnr(Kept, cnr), ccir))
    BY <2>2, OfCcirIs
  <2>4. Selected(OfCcir(Kept, ccir)) /\ i \in ToSet(OfCcir(Kept, ccir))
    BY <2>1, OfCcirIs
  <2> HIDE DEF cnr, ccir
  <2>5. InPlace(i, BriefSection(cnr, ccir))
    BY <2>3, ClusterInMemoryIs, ShownIs DEF BriefSection
  <2>6. InPlace(i, HtmlSection(ccir))
    BY <2>4, GroupedIs, ShownIs DEF HtmlSection
  <2> QED BY <2>5, <2>6 DEF cnr, ccir
<1> QED BY <1>1, <1>2, RowsInPlace

(* No verdict whose CCIR has a heading, or is none, is lost between the    *)
(* sections of the documents, for any number of rows and any caps:         *)
(* cluster.md has each in exactly one of its clusters, and where another   *)
(* document caps a section, what it leaves out scores no higher than       *)
(* everything it shows there.  One with an unlisted CCIR is lost to all    *)
(* but the vault (and the CNR sections).                                   *)
THEOREM EveryRowPlaced == Spec => []EveryRowHasItsPlace
<1>1. Init => RowsInv
  BY DEF Init, RowsInv
<1> QED BY <1>1, RowsStep, PlacedAlways, PTL DEF Spec

-----------------------------------------------------------------------------
(* cluster_items.  A centroid is the sum of the embeddings of its cluster, *)
(* so what joins a cluster is similar to the mean of what was there.       *)
AllEmbedded(c) == \A i \in ToSet(c) : rows[i].vec # NoVector

Tally(c) == <<Total(c, 1), Total(c, 2)>>

(* A selection is the one list of its rows in their order.                 *)
LEMMA SelectedIsInOrder ==
  ASSUME RowsInv, NEW c, Selected(c)
  PROVE  InOrder(ToSet(c)) = c
<1> DEFINE S == ToSet(c)
           d == InOrder(S)
           n == Len(c)
           T == {k \in 0..n : \A m \in 1..k : d[m] = c[m]}
<1>1. /\ c \in Seq(DOMAIN rows) /\ n \in Nat /\ DOMAIN c = 1..n
      /\ \A k, l \in 1..n : k < l => c[k] < c[l]
      /\ \A k \in 1..n : c[k] \in S
  <2>1. c \in Seq(DOMAIN rows)
    BY DEF Selected
  <2>2. n \in Nat /\ DOMAIN c = 1..n
    BY <2>1, LenProperties
  <2> QED BY <2>1, <2>2 DEF Selected, Ascending, ToSet
<1>2. S \in SUBSET DOMAIN rows /\ S \in SUBSET Nat /\ IsFiniteSet(S)
  BY SelectedSet, PositionsAre, FS_Subset
<1>3. /\ d \in Seq(S) /\ Len(d) = Cardinality(S) /\ ToSet(d) = S
      /\ \A k, l \in DOMAIN d : k < l => d[k] < d[l]
  BY <1>2, InOrderIs DEF Ascending
<1>4. Cardinality(S) = n
  <2> DEFINE f == [k \in 1..n |-> c[k]]
  <2>1. f \in [1..n -> S]
    BY <1>1
  <2>2. ASSUME NEW k \in 1..n, NEW l \in 1..n, f[k] = f[l] PROVE k = l
    <3>1. c[k] \in Nat /\ c[l] \in Nat /\ c[k] = c[l]
      BY <1>1, <1>2, <2>2
    <3>2. ~(c[k] < c[l]) /\ ~(c[l] < c[k])
      BY <3>1
    <3> QED BY <1>1, <3>2
  <2>3. \A i \in S : \E k \in 1..n : f[k] = i
    BY <1>1 DEF ToSet
  <2> HIDE DEF f, S
  <2>4. f \in Bijection(1..n, S)
    BY <2>1, <2>2, <2>3 DEF Bijection, Injection, Surjection, IsInjective
  <2>5. ExistsBijection(1..n, S)
    BY <2>4 DEF ExistsBijection
  <2> QED BY <1>1, <2>5, FS_CountingElements
<1>5. DOMAIN d = 1..n /\ \A k \in 1..n : d[k] \in S
  <2> HIDE DEF d, S
  <2>1. Len(d) = n /\ d \in Seq(S)
    BY <1>3, <1>4
  <2> QED BY <2>1, LenProperties, ElementOfSeq
<1>6. \A i \in S : (\E k \in 1..n : c[k] = i) /\ (\E k \in 1..n : d[k] = i)
  <2>1. \A i \in S : \E k \in 1..n : c[k] = i
    BY <1>1 DEF ToSet
  <2>2. \A i \in ToSet(d) : \E k \in 1..n : d[k] = i
    BY <1>5 DEF ToSet
  <2> QED BY <1>3, <2>1, <2>2
<1> HIDE DEF S, d, n
<1>7. 0 \in T
  BY <1>1
<1>8. ASSUME NEW k \in 0 .. n - 1, k \in T PROVE k + 1 \in T
  <2>1. PICK l \in 1..n : l = k + 1 /\ l - 1 = k /\ l \in 0..n
    BY <1>1
  <2>2. \A m \in 1..n : m < l => d[m] = c[m]
    BY <1>1, <1>8, <2>1
  <2>3. c[l] \in Nat /\ d[l] \in Nat /\ c[l] \in S /\ d[l] \in S
    BY <1>1, <1>2, <1>5
  <2>4. ~(c[l] < d[l])
    <3>1. SUFFICES ASSUME c[l] < d[l] PROVE FALSE
      OBVIOUS
    <3>2. PICK m \in 1..n : d[m] = c[l]
      BY <1>6, <2>3
    <3>3. m < l
      <4>1. ~(l < m) /\ l # m
        BY <1>3, <1>5, <2>3, <3>1, <3>2
      <4> QED BY <1>1, <4>1
    <3>4. c[m] = c[l] /\ c[m] < c[l]
      BY <1>1, <2>2, <3>2, <3>3
    <3> QED BY <2>3, <3>4
  <2>5. ~(d[l] < c[l])
    <3>1. SUFFICES ASSUME d[l] < c[l] PROVE FALSE
      OBVIOUS
    <3>2. PICK m \in 1..n : c[m] = d[l]
      BY <1>6, <2>3
    <3>3. m < l
      <4>1. ~(l < m) /\ l # m
        BY <1>1, <2>3, <3>1, <3>2
      <4> QED BY <1>1, <4>1
    <3>4. d[m] = d[l] /\ d[m] < d[l]
      BY <1>3, <1>5, <2>2, <3>2, <3>3
    <3> QED BY <2>3, <3>4
  <2>6. d[l] = c[l]
    BY <2>3, <2>4, <2>5
  <2>7. \A m \in 1..l : d[m] = c[m]
    BY <1>1, <2>1, <2>2, <2>6
  <2> QED BY <2>1, <2>7
<1>9. \A m \in 1..n : d[m] = c[m]
  <2> HIDE DEF T
  <2>1. 0..n \subseteq T
    BY <1>1, <1>7, <1>8, UpTo
  <2>2. n \in T
    BY <1>1, <2>1
  <2> QED BY <2>2 DEF T
<1>10. d = c
  <2>1. d \in Seq(DOMAIN rows) /\ Len(d) = n
    BY <1>2, <1>3, <1>4, SeqDef
  <2>2. Len(c) = n
    BY DEF n
  <2> QED BY <1>1, <1>9, <2>1, <2>2, SeqEqual
<1> QED BY <1>10 DEF d, S

(* A sum takes a step for each item.                                       *)
LEMMA TotalSteps ==
  ASSUME RowsInv, NEW c \in Seq(DOMAIN rows), AllEmbedded(c), NEW d \in {1, 2}
  PROVE  Steps(Len(c), Nat, 0, [p \in (1..Len(c)) \X Nat |-> p[2] + rows[c[p[1]]].vec[d]],
               Total(c, d))
<1> DEFINE n == Len(c)
           step == [p \in (1..n) \X Nat |-> p[2] + rows[c[p[1]]].vec[d]]
<1>1. /\ n \in Nat /\ DOMAIN c = 1..n
      /\ \A k \in 1..n : rows[c[k]].vec[d] \in Nat
  <2>1. n \in Nat /\ DOMAIN c = 1..n
    BY LenProperties
  <2>2. ASSUME NEW k \in 1..n PROVE rows[c[k]].vec[d] \in Nat
    <3>1. c[k] \in DOMAIN rows /\ rows[c[k]].vec # NoVector
      BY <2>1, ElementOfSeq DEF ToSet, AllEmbedded
    <3>2. rows[c[k]] \in Row
      BY <3>1, PositionsAre
    <3>3. rows[c[k]].vec \in Vectors
      BY <3>1, <3>2 DEF Row
    <3>4. rows[c[k]].vec \in Nat \X Nat
      BY <3>3, DocumentsAssumption
    <3> QED BY <3>4
  <2> QED BY <2>1, <2>2
<1>2. step \in [(1..n) \X Nat -> Nat]
  <2> SUFFICES ASSUME NEW p \in (1..n) \X Nat
               PROVE  p[2] + rows[c[p[1]]].vec[d] \in Nat
    OBVIOUS
  <2>1. p[2] \in Nat /\ rows[c[p[1]]].vec[d] \in Nat
    BY <1>1
  <2> QED BY <2>1
<1>4. PICK g \in [SUBSET (1..n) -> Nat] : \A s \in SUBSET (1..n) :
            g[s] = IF s = {} THEN 0 ELSE step[<<Max(s), g[s \ {Max(s)}]>>]
  <2> HIDE DEF step, n
  <2>1. HasFold(n, Nat, 0, step)
    BY <1>1, <1>2, Recursion
  <2> QED BY <2>1 DEF HasFold
<1> DEFINE Rec(h, s) == IF s = {} THEN 0
             ELSE LET x == Max(s) IN h[s \ {x}] + rows[c[x]].vec[d]
<1>5. g = [s \in SUBSET (1..n) |-> Rec(g, s)]
  <2> SUFFICES ASSUME NEW s \in SUBSET (1..n) PROVE g[s] = Rec(g, s)
    OBVIOUS
  <2>1. CASE s # {}
    <3>1. Max(s) \in 1..n /\ s \ {Max(s)} \in SUBSET (1..n)
      BY <1>1, <2>1, MaxIn
    <3>2. <<Max(s), g[s \ {Max(s)}]>> \in (1..n) \X Nat
      BY <3>1
    <3>3. g[s] = step[<<Max(s), g[s \ {Max(s)}]>>]
      BY <1>4, <2>1
    <3> QED BY <2>1, <3>2, <3>3
  <2> QED BY <1>4, <2>1
<1> DEFINE iter == CHOOSE h : h = [s \in SUBSET (DOMAIN c) |-> Rec(h, s)]
<1>6. iter = [s \in SUBSET (1..n) |-> Rec(iter, s)]
  <2> HIDE DEF Rec
  <2>1. g = [s \in SUBSET (DOMAIN c) |-> Rec(g, s)]
    BY <1>1, <1>5
  <2>2. iter = [s \in SUBSET (DOMAIN c) |-> Rec(iter, s)]
    BY <2>1
  <2> QED BY <1>1, <2>2
<1>7. Total(c, d) = iter[1..n]
  BY <1>1 DEF Total, FoldLeft, MapThenFoldSet
<1>8. Recurs(iter, n, 0, Nat, step)
  <2>1. ASSUME NEW s, s = {} PROVE iter[s] = 0
    <3>1. s \in SUBSET (1..n)
      BY <2>1
    <3> HIDE DEF iter
    <3> QED BY <1>6, <2>1, <3>1
  <2>2. ASSUME NEW k \in 1..n, NEW m, m = Max(1..k), iter[(1..k) \ {m}] \in Nat
        PROVE  iter[1..k] = step[<<m, iter[(1..k) \ {m}]>>]
    <3> HIDE DEF iter
    <3>1. m = k /\ 1..k \in SUBSET (1..n) /\ 1..k # {}
      <4>1. k \in Nat \ {0} /\ k \in 1..k
        BY <1>1
      <4>2. m = k
        BY <2>2, <4>1, ButTheLast
      <4>3. \A x \in 1..k : x \in 1..n
        BY <1>1
      <4> QED BY <4>1, <4>2, <4>3
    <3>2. iter[1..k] = iter[(1..k) \ {m}] + rows[c[m]].vec[d]
      BY <1>6, <2>2, <3>1
    <3>3. <<m, iter[(1..k) \ {m}]>> \in (1..n) \X Nat
      BY <2>2, <3>1
    <3> QED BY <3>2, <3>3
  <2> HIDE DEF iter, step
  <2> QED BY <2>1, <2>2 DEF Recurs
<1> HIDE DEF iter, step, n
<1>9. n \in Nat /\ 0 \in Nat
  BY <1>1
<1>10. Steps(n, Nat, 0, step, iter[1..n])
  BY <1>9, <1>2, <1>8, StepsOf, Zenon
<1>11. Steps(n, Nat, 0, step, Total(c, d))
  BY <1>10, <1>7, Zenon
<1> QED BY <1>11 DEF n, step

(* The sums as functions of the prefixes.                                  *)
LEMMA TotalIs ==
  ASSUME RowsInv, NEW c \in Seq(DOMAIN rows), AllEmbedded(c), NEW d \in {1, 2}
  PROVE  \E f \in [0..Len(c) -> Nat] :
           /\ f[0] = 0 /\ f[Len(c)] = Total(c, d)
           /\ \A k \in 1..Len(c) : f[k] = f[k - 1] + rows[c[k]].vec[d]
<1> DEFINE n == Len(c)
           step == [p \in (1..n) \X Nat |-> p[2] + rows[c[p[1]]].vec[d]]
<1>1. n \in Nat /\ Steps(n, Nat, 0, step, Total(c, d))
  BY LenProperties, TotalSteps
<1> HIDE DEF step, n
<1>2. PICK f \in [0..n -> Nat] :
        f[0] = 0 /\ f[n] = Total(c, d) /\ \A k \in 1..n : f[k] = step[<<k, f[k - 1]>>]
  BY <1>1 DEF Steps
<1>3. ASSUME NEW k \in 1..n PROVE f[k] = f[k - 1] + rows[c[k]].vec[d]
  <2>1. k - 1 \in 0..n
    BY <1>1
  <2>2. <<k, f[k - 1]>> \in (1..n) \X Nat
    BY <2>1
  <2>3. step[<<k, f[k - 1]>>] = f[k - 1] + rows[c[k]].vec[d]
    BY <2>2 DEF step
  <2> QED BY <1>2, <2>3
<1>4. \E h \in [0..n -> Nat] :
        h[0] = 0 /\ h[n] = Total(c, d) /\ \A k \in 1..n : h[k] = h[k - 1] + rows[c[k]].vec[d]
  BY <1>2, <1>3
<1> QED BY <1>4 DEF n

(* The sum of one embedding.                                               *)
LEMMA TallyOfOne ==
  ASSUME RowsInv, NEW i \in DOMAIN rows, rows[i].vec # NoVector
  PROVE  Tally(<<i>>) = rows[i].vec /\ rows[i].vec \in Vec
<1>1. rows[i].vec \in Nat \X Nat
  <2>1. rows[i] \in Row
    BY PositionsAre
  <2> QED BY <2>1, DocumentsAssumption DEF Row
<1>2. /\ <<i>> \in Seq(DOMAIN rows) /\ Len(<<i>>) = 1 /\ <<i>>[1] = i /\ DOMAIN <<i>> = 1..1
  OBVIOUS
<1>3. AllEmbedded(<<i>>)
  BY <1>2 DEF AllEmbedded, ToSet
<1>4. ASSUME NEW d \in {1, 2} PROVE Total(<<i>>, d) = rows[i].vec[d]
  <2>1. PICK f \in [0..1 -> Nat] :
          /\ f[0] = 0 /\ f[1] = Total(<<i>>, d)
          /\ \A k \in 1..1 : f[k] = f[k - 1] + rows[<<i>>[k]].vec[d]
    BY <1>2, <1>3, TotalIs
  <2>2. f[1] = f[0] + rows[i].vec[d]
    <3>1. 1 \in 1..1 /\ 1 - 1 = 0
      OBVIOUS
    <3> QED BY <1>2, <2>1, <3>1
  <2>3. rows[i].vec[d] \in Nat
    BY <1>1
  <2> QED BY <2>1, <2>2, <2>3
<1>5. Total(<<i>>, 1) = rows[i].vec[1] /\ Total(<<i>>, 2) = rows[i].vec[2]
  BY <1>4
<1> QED BY <1>1, <1>5 DEF Tally, Vec

(* Where all have an embedding the centroid is the sum.                    *)
LEMMA CentroidIsTally ==
  ASSUME RowsInv, NEW c, Selected(c), AllEmbedded(c)
  PROVE  Centroid(c) = Tally(c) /\ Tally(c) \in Vec
<1> DEFINE n == Len(c)
           step == [p \in (1..n) \X Vec |->
                      <<p[2][1] + rows[c[p[1]]].vec[1], p[2][2] + rows[c[p[1]]].vec[2]>>]
<1>1. c \in Seq(DOMAIN rows) /\ n \in Nat /\ ToSet(c) \in SUBSET DOMAIN rows
  BY SelectedSet, LenProperties DEF Selected
<1>2. c = Embedded(c)
  <2>1. {i \in ToSet(c) : rows[i].vec # NoVector} = ToSet(c)
    BY DEF AllEmbedded
  <2> QED BY <2>1, SelectedIsInOrder DEF Embedded
<1>3. Steps(n, Vec, <<0, 0>>, step, Centroid(c))
  BY <1>1, <1>2, CentroidSteps
<1> HIDE DEF step, n
<1>4. PICK f \in [0..n -> Vec] :
        /\ f[0] = <<0, 0>> /\ f[n] = Centroid(c)
        /\ \A k \in 1..n : f[k] = step[<<k, f[k - 1]>>]
  BY <1>3 DEF Steps
<1>5. PICK g \in [0..n -> Nat] :
        /\ g[0] = 0 /\ g[n] = Total(c, 1)
        /\ \A k \in 1..n : g[k] = g[k - 1] + rows[c[k]].vec[1]
  BY <1>1, TotalIs DEF n
<1>6. PICK h \in [0..n -> Nat] :
        /\ h[0] = 0 /\ h[n] = Total(c, 2)
        /\ \A k \in 1..n : h[k] = h[k - 1] + rows[c[k]].vec[2]
  BY <1>1, TotalIs DEF n
<1> DEFINE S == {k \in 0..n : f[k] = <<g[k], h[k]>>}
<1>7. 0 \in S
  BY <1>1, <1>4, <1>5, <1>6
<1>8. ASSUME NEW k \in 0 .. n - 1, k \in S PROVE k + 1 \in S
  <2>1. PICK l \in 1..n : l = k + 1 /\ l - 1 = k /\ k \in 0..n /\ l \in 0..n
    BY <1>1
  <2>2. f[l] = step[<<l, f[k]>>] /\ <<l, f[k]>> \in (1..n) \X Vec
    BY <1>4, <2>1
  <2>3. f[l] = <<f[k][1] + rows[c[l]].vec[1], f[k][2] + rows[c[l]].vec[2]>>
    BY <2>2 DEF step
  <2>4. f[k][1] = g[k] /\ f[k][2] = h[k]
    BY <1>8
  <2>5. g[l] = g[k] + rows[c[l]].vec[1] /\ h[l] = h[k] + rows[c[l]].vec[2]
    BY <1>5, <1>6, <2>1
  <2> QED BY <2>1, <2>3, <2>4, <2>5
<1>9. n \in S
  <2> HIDE DEF S
  <2>1. 0..n \subseteq S
    BY <1>1, <1>7, <1>8, UpTo
  <2> QED BY <1>1, <2>1
<1>10. Centroid(c) = Tally(c)
  BY <1>4, <1>5, <1>6, <1>9 DEF Tally
<1> QED BY <1>1, <1>10, CentroidIs

(* A cluster of cluster_items, and what holds of it.                       *)
Clusters == Seq([centroid : Vec \union {NoVector}, items : Seq(DOMAIN rows)])

Items(C) == [k \in DOMAIN C |-> C[k].items]

Centroids(C) == [k \in DOMAIN C |-> C[k].centroid]

Chain(c) == \A n \in 2..Len(c) :
  NoVector \notin {rows[c[n]].vec, rows[c[1]].vec}
    /\ Similar(rows[c[n]].vec, Tally(SubSeq(c, 1, n - 1)))

Centred(r) == /\ Chain(r.items)
              /\ r.centroid # NoVector => AllEmbedded(r.items) /\ r.centroid = Tally(r.items)

Joined(C, i, b) ==
  LET all == Append(C[b].items, i) IN
  [C EXCEPT ![b] = [centroid |-> Centroid(all), items |-> all]]

(* cluster_items opens a cluster or joins one with a similar centroid.     *)
LEMMA AssignIs ==
  ASSUME RowsInv, NEW C \in Clusters, NEW i \in DOMAIN rows
  PROVE  /\ Assign(C, i) \in Clusters
         /\ \/ Assign(C, i) = Append(C, [centroid |-> rows[i].vec, items |-> <<i>>])
            \/ \E b \in DOMAIN C :
                 /\ rows[i].vec # NoVector /\ C[b].centroid # NoVector
                 /\ Similar(rows[i].vec, C[b].centroid)
                 /\ Assign(C, i) = Joined(C, i, b)
<1> DEFINE v == rows[i].vec
           cs == [k \in DOMAIN C |-> C[k].centroid]
           b == IF v = NoVector THEN 0 ELSE Nearest(v, cs)
           R == [centroid : Vec \union {NoVector}, items : Seq(DOMAIN rows)]
           new == Assign(C, i)
<1>1. /\ Len(C) \in Nat /\ DOMAIN C = 1..Len(C) /\ C \in Seq(R)
      /\ \A k \in 1..Len(C) : C[k] \in R
  <2>1. C \in Seq(R)
    BY DEF Clusters
  <2> HIDE DEF R
  <2> QED BY <2>1, LenProperties, ElementOfSeq
<1>2. v \in Vec \union {NoVector}
  <2>1. rows[i] \in Row
    BY PositionsAre
  <2> QED BY <2>1, DocumentsAssumption DEF Row, Vec
<1>3. cs \in Seq(Vec \union {NoVector}) /\ Len(cs) = Len(C)
  <2>1. cs \in [1..Len(C) -> Vec \union {NoVector}]
    BY <1>1
  <2> HIDE DEF cs
  <2> QED BY <1>1, <2>1, FunctionIsSeq
<1>4. /\ b \in 0..Len(C)
      /\ b # 0 => v # NoVector /\ b \in DOMAIN C /\ C[b].centroid \in Vec
                  /\ Similar(v, C[b].centroid)
  <2>1. CASE v = NoVector
    BY <1>1, <2>1
  <2>2. CASE v # NoVector
    <3>1. v \in Vec
      BY <1>2, <2>2
    <3>2. /\ Nearest(v, cs) \in 0..Len(cs)
          /\ Nearest(v, cs) # 0 => LET c == cs[Nearest(v, cs)] IN c \in Vec /\ Similar(v, c)
      BY <1>3, <3>1, NearestIs
    <3>3. b = Nearest(v, cs)
      BY <2>2
    <3> HIDE DEF b
    <3>4. b \in 0..Len(C) /\ (b # 0 => cs[b] \in Vec /\ Similar(v, cs[b]))
      BY <1>3, <3>2, <3>3
    <3>5. b # 0 => b \in DOMAIN C
      BY <1>1, <3>4
    <3>6. b # 0 => cs[b] = C[b].centroid
      BY <3>5
    <3> HIDE DEF v, cs
    <3> QED BY <2>2, <3>4, <3>5, <3>6
  <2> QED BY <2>1, <2>2
<1> DEFINE all == IF b = 0 THEN <<i>> ELSE Append(C[b].items, i)
<1>5. new = IF b = 0 THEN Append(C, [centroid |-> v, items |-> all])
            ELSE [C EXCEPT ![b] = [centroid |-> Centroid(all), items |-> all]]
  BY DEF Assign
<1> HIDE DEF b, new, v, cs
<1>6. CASE b = 0
  <2>1. new = Append(C, [centroid |-> v, items |-> <<i>>])
    BY <1>5, <1>6
  <2>2. [centroid |-> v, items |-> <<i>>] \in R
    BY <1>2
  <2>3. new \in Seq(R)
    <3> HIDE DEF R
    <3> QED BY <1>1, <2>1, <2>2, AppendProperties
  <2> QED BY <2>1, <2>3 DEF Clusters, new, v
<1>7. CASE b # 0
  <2>1. b \in 1..Len(C) /\ C[b].items \in Seq(DOMAIN rows) /\ C[b].centroid # NoVector
    <3>1. b \in 1..Len(C) /\ C[b].centroid \in Vec
      BY <1>1, <1>4, <1>7
    <3>2. C[b].items \in Seq(DOMAIN rows)
      BY <1>1, <3>1
    <3> QED BY <3>1, <3>2, DocumentsAssumption DEF Vec
  <2> DEFINE a == Append(C[b].items, i)
  <2>2. new = [C EXCEPT ![b] = [centroid |-> Centroid(a), items |-> a]]
    BY <1>5, <1>7
  <2>3. a \in Seq(DOMAIN rows) /\ ToSet(a) \in SUBSET DOMAIN rows
    <3>1. a \in Seq(DOMAIN rows)
      BY <2>1, AppendProperties
    <3> HIDE DEF a
    <3> QED BY <3>1, ElementOfSeq, LenProperties DEF ToSet
  <2>4. new = Joined(C, i, b)
    BY <2>2 DEF Joined
  <2> HIDE DEF a
  <2>5. [centroid |-> Centroid(a), items |-> a] \in R
    BY <2>3, CentroidIs
  <2>6. new \in Seq(R)
    <3> HIDE DEF R
    <3> QED BY <1>1, <2>1, <2>2, <2>5, ExceptSeq
  <2> QED BY <1>1, <1>4, <1>7, <2>1, <2>4, <2>6 DEF Clusters, new, v
<1> QED BY <1>6, <1>7

(* The items, and the centroids, of the clusters as lists.                 *)
LEMMA ItemsAre ==
  ASSUME NEW C \in Clusters
  PROVE  /\ Len(C) \in Nat /\ DOMAIN C = 1..Len(C)
         /\ Items(C) \in Seq(Seq(DOMAIN rows)) /\ Len(Items(C)) = Len(C)
         /\ DOMAIN Items(C) = DOMAIN C /\ \A k \in DOMAIN C : Items(C)[k] = C[k].items
         /\ Centroids(C) \in Seq(Vec \union {NoVector}) /\ Len(Centroids(C)) = Len(C)
         /\ \A k \in DOMAIN C : Centroids(C)[k] = C[k].centroid
<1> DEFINE R == [centroid : Vec \union {NoVector}, items : Seq(DOMAIN rows)]
<1>1. /\ Len(C) \in Nat /\ DOMAIN C = 1..Len(C)
      /\ \A k \in 1..Len(C) : C[k] \in R
  <2>1. C \in Seq(R)
    BY DEF Clusters
  <2> HIDE DEF R
  <2> QED BY <2>1, LenProperties, ElementOfSeq
<1>2. Items(C) \in [1..Len(C) -> Seq(DOMAIN rows)]
  BY <1>1 DEF Items
<1>3. Items(C) \in Seq(Seq(DOMAIN rows)) /\ Len(Items(C)) = Len(C)
  BY <1>1, <1>2, FunctionIsSeq
<1>4. Centroids(C) \in [1..Len(C) -> Vec \union {NoVector}]
  BY <1>1 DEF Centroids
<1>5. Centroids(C) \in Seq(Vec \union {NoVector}) /\ Len(Centroids(C)) = Len(C)
  BY <1>1, <1>4, FunctionIsSeq
<1> QED BY <1>1, <1>3, <1>5 DEF Items, Centroids

(* A new cluster adds to both.                                             *)
LEMMA FieldsOfAppend ==
  ASSUME NEW C \in Clusters, NEW v \in Vec \union {NoVector}, NEW c \in Seq(DOMAIN rows),
         NEW D, D = Append(C, [centroid |-> v, items |-> c])
  PROVE  /\ D \in Clusters /\ Items(D) = Append(Items(C), c)
         /\ Centroids(D) = Append(Centroids(C), v)
<1> DEFINE R == [centroid : Vec \union {NoVector}, items : Seq(DOMAIN rows)]
           r == [centroid |-> v, items |-> c]
<1>1. r \in R /\ r.items = c /\ r.centroid = v
  OBVIOUS
<1>2. C \in Seq(R) /\ D = Append(C, r)
  BY DEF Clusters
<1> HIDE DEF R, r
<1>3. /\ D \in Seq(R) /\ Len(D) = Len(C) + 1 /\ D[Len(C) + 1] = r
      /\ \A k \in 1..Len(C) : D[k] = C[k]
  BY <1>1, <1>2, AppendProperties
<1>4. D \in Clusters
  BY <1>3 DEF Clusters, R
<1>5. /\ Len(C) \in Nat /\ DOMAIN C = 1..Len(C) /\ DOMAIN D = 1 .. Len(C) + 1
      /\ Items(C) \in Seq(Seq(DOMAIN rows)) /\ Len(Items(C)) = Len(C)
      /\ Items(D) \in Seq(Seq(DOMAIN rows)) /\ Len(Items(D)) = Len(C) + 1
      /\ Centroids(C) \in Seq(Vec \union {NoVector}) /\ Len(Centroids(C)) = Len(C)
      /\ Centroids(D) \in Seq(Vec \union {NoVector}) /\ Len(Centroids(D)) = Len(C) + 1
  BY <1>3, <1>4, ItemsAre
<1>6. \A k \in 1 .. Len(C) + 1 : /\ Items(D)[k] = D[k].items /\ Centroids(D)[k] = D[k].centroid
                                 /\ D[k] = IF k = Len(C) + 1 THEN r ELSE C[k]
  <2> SUFFICES ASSUME NEW k \in 1 .. Len(C) + 1
               PROVE  /\ Items(D)[k] = D[k].items /\ Centroids(D)[k] = D[k].centroid
                      /\ D[k] = IF k = Len(C) + 1 THEN r ELSE C[k]
    OBVIOUS
  <2>1. Items(D)[k] = D[k].items /\ Centroids(D)[k] = D[k].centroid
    BY <1>4, <1>5, ItemsAre
  <2>2. k = Len(C) + 1 \/ k \in 1..Len(C)
    BY <1>5
  <2> QED BY <1>3, <2>1, <2>2
<1>7. \A k \in 1..Len(C) : Items(C)[k] = C[k].items /\ Centroids(C)[k] = C[k].centroid
  BY <1>5, ItemsAre
<1>8. Items(D) = Append(Items(C), c)
  <2> DEFINE E == Append(Items(C), c)
  <2>1. /\ E \in Seq(Seq(DOMAIN rows)) /\ Len(E) = Len(C) + 1 /\ E[Len(C) + 1] = c
        /\ \A k \in 1..Len(C) : E[k] = Items(C)[k]
    BY <1>5, AppendProperties
  <2> HIDE DEF E
  <2>2. \A k \in 1 .. Len(C) + 1 : k = Len(C) + 1 \/ k \in 1..Len(C)
    BY <1>5
  <2>3. \A k \in 1 .. Len(C) + 1 : Items(D)[k] = E[k]
    BY <1>1, <1>6, <1>7, <2>1, <2>2
  <2>4. Items(D) = E
    BY <1>5, <2>1, <2>3, SeqEqual
  <2> QED BY <2>4 DEF E
<1>9. Centroids(D) = Append(Centroids(C), v)
  <2> DEFINE E == Append(Centroids(C), v)
  <2>1. /\ E \in Seq(Vec \union {NoVector}) /\ Len(E) = Len(C) + 1 /\ E[Len(C) + 1] = v
        /\ \A k \in 1..Len(C) : E[k] = Centroids(C)[k]
    BY <1>5, AppendProperties
  <2> HIDE DEF E
  <2>2. \A k \in 1 .. Len(C) + 1 : k = Len(C) + 1 \/ k \in 1..Len(C)
    BY <1>5
  <2>3. \A k \in 1 .. Len(C) + 1 : Centroids(D)[k] = E[k]
    BY <1>1, <1>6, <1>7, <2>1, <2>2
  <2>4. Centroids(D) = E
    BY <1>5, <2>1, <2>3, SeqEqual
  <2> QED BY <2>4 DEF E
<1> QED BY <1>4, <1>8, <1>9

(* Seen by their items alone, cluster_items' lists grow as the others do.  *)
LEMMA AssignPutsIn ==
  ASSUME RowsInv, NEW C \in Clusters, NEW i \in DOMAIN rows
  PROVE  PutIn(Items(C), i, Items(Assign(C, i)))
<1> DEFINE r == [centroid |-> rows[i].vec, items |-> <<i>>]
           new == Assign(C, i)
<1>1. new \in Clusters
  BY AssignIs
<1>2. /\ Len(C) \in Nat /\ DOMAIN C = 1..Len(C) /\ Items(C) \in Seq(Seq(DOMAIN rows))
      /\ Len(Items(C)) = Len(C) /\ DOMAIN Items(C) = DOMAIN C
      /\ \A k \in DOMAIN C : Items(C)[k] = C[k].items
  BY ItemsAre
<1>3. /\ Len(new) \in Nat /\ DOMAIN new = 1..Len(new) /\ Items(new) \in Seq(Seq(DOMAIN rows))
      /\ Len(Items(new)) = Len(new) /\ DOMAIN Items(new) = DOMAIN new
      /\ \A k \in DOMAIN new : Items(new)[k] = new[k].items
  BY <1>1, ItemsAre
<1> HIDE DEF new
<1>4. CASE new = Append(C, r)
  <2>1. rows[i].vec \in Vec \union {NoVector} /\ <<i>> \in Seq(DOMAIN rows)
    <3>1. rows[i] \in Row
      BY PositionsAre
    <3> QED BY <3>1, DocumentsAssumption DEF Row, Vec
  <2>2. Items(new) = Append(Items(C), <<i>>)
    BY <1>4, <2>1, FieldsOfAppend, Zenon
  <2> QED BY <2>2 DEF PutIn, new
<1>5. ASSUME NEW b \in DOMAIN C, new = Joined(C, i, b)
      PROVE  PutIn(Items(C), i, Items(new))
  <2> DEFINE a == Append(C[b].items, i)
             D == [Items(C) EXCEPT ![b] = Append(Items(C)[b], i)]
  <2>1. /\ DOMAIN new = DOMAIN C
        /\ \A k \in DOMAIN C : new[k].items = IF k = b THEN a ELSE C[k].items
    BY <1>5 DEF Joined
  <2>2. /\ DOMAIN D = DOMAIN C
        /\ \A k \in DOMAIN C : D[k] = IF k = b THEN a ELSE C[k].items
    BY <1>2
  <2> HIDE DEF a
  <2>3. Items(new) = [k \in DOMAIN C |-> IF k = b THEN a ELSE C[k].items]
    BY <2>1 DEF Items
  <2>4. D = [k \in DOMAIN C |-> IF k = b THEN a ELSE C[k].items]
    <3>1. D = [k \in DOMAIN Items(C) |-> IF k = b THEN Append(Items(C)[b], i) ELSE Items(C)[k]]
      OBVIOUS
    <3> QED BY <1>2, <3>1 DEF a
  <2>5. Items(new) = D
    BY <2>3, <2>4
  <2> QED BY <1>2, <2>5, Zenon DEF PutIn
<1>6. PutIn(Items(C), i, Items(new))
  BY <1>4, <1>5, AssignIs DEF new
<1> QED BY <1>6 DEF new

(* What joins a cluster is similar to the sum of what was there.           *)
LEMMA ChainGrows ==
  ASSUME RowsInv, NEW c, Selected(c), c # <<>>, Chain(c), AllEmbedded(c),
         NEW i \in DOMAIN rows, rows[i].vec # NoVector, Similar(rows[i].vec, Tally(c))
  PROVE  Chain(Append(c, i)) /\ AllEmbedded(Append(c, i))
<1> DEFINE d == Append(c, i)
<1>1. c \in Seq(DOMAIN rows) /\ Len(c) \in Nat \ {0} /\ DOMAIN c = 1..Len(c)
  <2>1. c \in Seq(DOMAIN rows)
    BY DEF Selected
  <2> QED BY <2>1, LenProperties, EmptySeq
<1>2. /\ d \in Seq(DOMAIN rows) /\ Len(d) = Len(c) + 1 /\ ToSet(d) = ToSet(c) \union {i}
      /\ \A n \in 1 .. Len(c) + 1 : d[n] = IF n = Len(c) + 1 THEN i ELSE c[n]
  BY <1>1, AppendIs
<1>3. AllEmbedded(d)
  BY <1>2 DEF AllEmbedded
<1> HIDE DEF d
<1>4. ASSUME NEW n \in 2..Len(d)
      PROVE  /\ NoVector \notin {rows[d[n]].vec, rows[d[1]].vec}
             /\ Similar(rows[d[n]].vec, Tally(SubSeq(d, 1, n - 1)))
  <2>1. n - 1 \in 1..Len(c) /\ n \in 1 .. Len(c) + 1 /\ 1 \in 1 .. Len(c) + 1 /\ 1 # Len(c) + 1
    BY <1>1, <1>2
  <2>2. SubSeq(d, 1, n - 1) = SubSeq(c, 1, n - 1)
    <3> DEFINE x == SubSeq(d, 1, n - 1)
               y == SubSeq(c, 1, n - 1)
               m == n - 1
    <3>0. m \in 1..Len(c) /\ m \in Int /\ 1 <= m /\ m - 1 + 1 = m
      BY <2>1
    <3> HIDE DEF m
    <3>1. \A k \in 1..m : /\ d[k] \in DOMAIN rows /\ c[k] \in DOMAIN rows /\ d[k] = c[k]
                          /\ 1 + k - 1 = k
      <4> SUFFICES ASSUME NEW k \in 1..m
                   PROVE d[k] \in DOMAIN rows /\ c[k] \in DOMAIN rows /\ d[k] = c[k] /\ 1 + k - 1 = k
        OBVIOUS
      <4>1. k \in 1..Len(c) /\ k \in 1 .. Len(c) + 1 /\ k # Len(c) + 1 /\ 1 + k - 1 = k
        BY <1>1, <3>0
      <4> QED BY <1>1, <1>2, <4>1, ElementOfSeq
    <3>2. /\ SubSeq(d, 1, m) \in Seq(DOMAIN rows)
          /\ Len(SubSeq(d, 1, m)) = IF 1 <= m THEN m - 1 + 1 ELSE 0
          /\ \A k \in 1 .. m - 1 + 1 : SubSeq(d, 1, m)[k] = d[1 + k - 1]
      BY <3>0, <3>1, SubSeqProperties
    <3>3. /\ SubSeq(c, 1, m) \in Seq(DOMAIN rows)
          /\ Len(SubSeq(c, 1, m)) = IF 1 <= m THEN m - 1 + 1 ELSE 0
          /\ \A k \in 1 .. m - 1 + 1 : SubSeq(c, 1, m)[k] = c[1 + k - 1]
      BY <3>0, <3>1, SubSeqProperties
    <3>4. x = SubSeq(d, 1, m) /\ y = SubSeq(c, 1, m)
      BY DEF m
    <3> HIDE DEF x, y
    <3>5. Len(x) = m /\ Len(y) = m /\ x \in Seq(DOMAIN rows) /\ y \in Seq(DOMAIN rows)
      BY <3>0, <3>2, <3>3, <3>4
    <3>6. \A k \in 1..m : x[k] = y[k]
      BY <3>0, <3>1, <3>2, <3>3, <3>4
    <3>7. x = y
      BY <3>5, <3>6, SeqEqual
    <3> QED BY <3>7 DEF x, y
  <2>3. rows[d[n]].vec # NoVector /\ rows[d[1]].vec # NoVector
    <3>1. DOMAIN d = 1 .. Len(c) + 1
      BY <1>2, LenProperties
    <3>2. d[n] \in ToSet(d) /\ d[1] \in ToSet(d)
      BY <2>1, <3>1 DEF ToSet
    <3> QED BY <1>3, <3>2 DEF AllEmbedded
  <2>4. CASE n <= Len(c)
    <3>1. n \in 2..Len(c) /\ d[n] = c[n]
      BY <1>1, <1>2, <2>1, <2>4
    <3>2. Similar(rows[c[n]].vec, Tally(SubSeq(c, 1, n - 1)))
      BY <3>1 DEF Chain
    <3> QED BY <2>2, <2>3, <3>1, <3>2
  <2>5. CASE n = Len(c) + 1
    <3>1. d[n] = i /\ n - 1 = Len(c)
      BY <1>1, <1>2, <2>1, <2>5
    <3>2. SubSeq(c, 1, Len(c)) = c
      BY <1>1, SubSeqFull
    <3>3. SubSeq(d, 1, n - 1) = c
      BY <2>2, <3>1, <3>2
    <3> QED BY <2>3, <3>1, <3>3
  <2> QED BY <1>1, <1>2, <2>1, <2>4, <2>5
<1>5. Chain(d)
  BY <1>4 DEF Chain
<1> QED BY <1>3, <1>5 DEF d

(* What cluster_items' list is once the rows in I have been assigned.      *)
Good(C, I) == /\ C \in Clusters /\ Parted(Items(C), I)
              /\ \A k \in DOMAIN C : Centred(C[k])

(* One more row leaves the clusters sound.                                 *)
LEMMA AssignKeeps ==
  ASSUME RowsInv, NEW C, NEW I, Good(C, I), NEW i \in DOMAIN rows, i \notin I,
         \A j \in I : j < i /\ rows[j].ccir = rows[i].ccir
  PROVE  Good(Assign(C, i), I \union {i})
<1> DEFINE D == Assign(C, i)
           r == [centroid |-> rows[i].vec, items |-> <<i>>]
<1>1. C \in Clusters /\ Parted(Items(C), I) /\ \A k \in DOMAIN C : Centred(C[k])
  BY DEF Good
<1>2. D \in Clusters /\ Parted(Items(D), I \union {i})
  BY <1>1, AssignIs, AssignPutsIn, PutInIs
<1>3. /\ Len(C) \in Nat /\ DOMAIN C = 1..Len(C) /\ DOMAIN D = 1..Len(D)
      /\ \A k \in DOMAIN C : Selected(C[k].items) /\ C[k].items # <<>>
                             /\ ToSet(C[k].items) \subseteq I
  <2>1. /\ Len(C) \in Nat /\ DOMAIN C = 1..Len(C) /\ DOMAIN D = 1..Len(D)
        /\ DOMAIN Items(C) = DOMAIN C /\ \A k \in DOMAIN C : Items(C)[k] = C[k].items
    BY <1>1, <1>2, ItemsAre
  <2> QED BY <1>1, <2>1 DEF Parted
<1>4. \/ D = Append(C, r)
      \/ \E b \in DOMAIN C : /\ rows[i].vec # NoVector /\ C[b].centroid # NoVector
                             /\ Similar(rows[i].vec, C[b].centroid)
                             /\ D = Joined(C, i, b)
  BY <1>1, AssignIs
<1> HIDE DEF D
<1>5. ASSUME D = Append(C, r), NEW k \in DOMAIN D PROVE Centred(D[k])
  <2>1. Centred(r)
    <3>1. r.items = <<i>> /\ r.centroid = rows[i].vec /\ Len(<<i>>) = 1 /\ 2..1 = {}
      OBVIOUS
    <3>2. ToSet(<<i>>) = {i}
      BY DEF ToSet
    <3>3. Chain(r.items)
      BY <3>1 DEF Chain
    <3>4. ASSUME r.centroid # NoVector
          PROVE  AllEmbedded(r.items) /\ r.centroid = Tally(r.items)
      BY <3>1, <3>2, <3>4, TallyOfOne DEF AllEmbedded
    <3> QED BY <3>3, <3>4 DEF Centred
  <2>2. /\ DOMAIN D = 1 .. Len(C) + 1 /\ D[Len(C) + 1] = r
        /\ \A m \in 1..Len(C) : D[m] = C[m]
    <3>1. /\ C \in Seq([centroid : Vec \union {NoVector}, items : Seq(DOMAIN rows)])
          /\ D \in Seq([centroid : Vec \union {NoVector}, items : Seq(DOMAIN rows)])
      BY <1>1, <1>2 DEF Clusters, D
    <3>2. r \in [centroid : Vec \union {NoVector}, items : Seq(DOMAIN rows)]
      <4>1. rows[i] \in Row
        BY PositionsAre
      <4>2. rows[i].vec \in Vec \union {NoVector}
        BY <4>1, DocumentsAssumption DEF Row, Vec
      <4> QED BY <4>2
    <3> HIDE DEF r
    <3>3. /\ Len(D) = Len(C) + 1 /\ D[Len(C) + 1] = r
          /\ \A m \in 1..Len(C) : D[m] = C[m]
      BY <1>5, <3>1, <3>2, AppendProperties
    <3> QED BY <1>3, <3>3 DEF D
  <2> HIDE DEF r
  <2>3. CASE k = Len(C) + 1
    BY <2>1, <2>2, <2>3
  <2>4. CASE k # Len(C) + 1
    <3>1. k \in 1..Len(C) /\ k \in DOMAIN C
      BY <1>3, <1>5, <2>2, <2>4
    <3> QED BY <1>1, <2>2, <3>1
  <2> QED BY <2>3, <2>4
<1>6. ASSUME NEW b \in DOMAIN C, rows[i].vec # NoVector, C[b].centroid # NoVector,
             Similar(rows[i].vec, C[b].centroid), D = Joined(C, i, b), NEW k \in DOMAIN D
      PROVE  Centred(D[k])
  <2> DEFINE c == C[b].items
             all == Append(c, i)
  <2>1. /\ DOMAIN D = DOMAIN C /\ D[b] = [centroid |-> Centroid(all), items |-> all]
        /\ \A m \in DOMAIN C : m # b => D[m] = C[m]
    BY <1>6 DEF Joined
  <2>2. /\ Selected(c) /\ c # <<>> /\ Chain(c) /\ AllEmbedded(c) /\ C[b].centroid = Tally(c)
        /\ \A j \in ToSet(c) : j \in I
    BY <1>1, <1>3, <1>6 DEF Centred
  <2> HIDE DEF c
  <2>3. Similar(rows[i].vec, Tally(c))
    BY <1>6, <2>2
  <2>4. Chain(all) /\ AllEmbedded(all) /\ Selected(all)
    BY <1>6, <2>2, <2>3, ChainGrows, AppendSelected
  <2> HIDE DEF all
  <2>5. Centroid(all) = Tally(all)
    BY <2>4, CentroidIsTally
  <2>6. Centred(D[b])
    BY <2>1, <2>4, <2>5 DEF Centred
  <2> QED BY <1>1, <1>6, <2>1, <2>6
<1>7. \A k \in DOMAIN D : Centred(D[k])
  BY <1>4, <1>5, <1>6
<1>8. Good(D, I \union {i})
  BY <1>2, <1>7 DEF Good, D
<1> QED BY <1>8 DEF D

(* Where every row has its embedding the two keep the same lists.          *)
Match(C, acc) == acc = [clusters |-> Items(C), centroids |-> Centroids(C)]

(* One more row, with its embedding, leaves the lists the same.            *)
LEMMA SameStep ==
  ASSUME RowsInv, NEW C \in Clusters, NEW acc, Match(C, acc),
         NEW i \in DOMAIN rows, rows[i].vec # NoVector
  PROVE  Match(Assign(C, i), AssignInMemory(acc, i))
<1> DEFINE v == rows[i].vec
           b == Nearest(v, Centroids(C))
           D == Assign(C, i)
<1>1. /\ Len(C) \in Nat /\ DOMAIN C = 1..Len(C) /\ DOMAIN Items(C) = DOMAIN C
      /\ DOMAIN Centroids(C) = DOMAIN C
      /\ \A k \in DOMAIN C : Items(C)[k] = C[k].items
      /\ Centroids(C) \in Seq(Vec \union {NoVector}) /\ Len(Centroids(C)) = Len(C)
  BY ItemsAre DEF Centroids
<1>2. v \in Vec /\ v \in Vec \union {NoVector} /\ v # NoVector /\ <<i>> \in Seq(DOMAIN rows)
  <2>1. rows[i] \in Row
    BY PositionsAre
  <2> QED BY <2>1, DocumentsAssumption DEF Row, Vec
<1>3. b = 0 \/ b \in DOMAIN C
  <2>1. b \in 0..Len(C)
    BY <1>1, <1>2, NearestIs
  <2> QED BY <1>1, <2>1
<1>4. acc.clusters = Items(C) /\ acc.centroids = Centroids(C)
  BY DEF Match
<1>5. CASE b = 0
  <2>1. D = Append(C, [centroid |-> v, items |-> <<i>>])
    BY <1>2, <1>5 DEF Assign, Centroids
  <2> HIDE DEF D, v
  <2>2. Items(D) = Append(Items(C), <<i>>) /\ Centroids(D) = Append(Centroids(C), v)
    BY <1>2, <2>1, FieldsOfAppend, Zenon
  <2> USE DEF v
  <2>3. AssignInMemory(acc, i) = [clusters  |-> Append(Items(C), <<i>>),
                                  centroids |-> Append(Centroids(C), v)]
    BY <1>2, <1>4, <1>5 DEF AssignInMemory
  <2> QED BY <2>2, <2>3 DEF Match, D
<1>6. CASE b \in DOMAIN C
  <2> DEFINE all == Append(C[b].items, i)
  <2>1. b # 0 /\ Append(Items(C)[b], i) = all
    BY <1>1, <1>6
  <2>2. D = [C EXCEPT ![b] = [centroid |-> Centroid(all), items |-> all]]
    BY <1>2, <2>1 DEF Assign, Centroids
  <2>3. AssignInMemory(acc, i) = [clusters  |-> [Items(C) EXCEPT ![b] = all],
                                  centroids |-> [Centroids(C) EXCEPT ![b] = Centroid(all)]]
    BY <1>2, <1>4, <2>1 DEF AssignInMemory
  <2> HIDE DEF all, b, D
  <2>4. Items(D) = [Items(C) EXCEPT ![b] = all]
    BY <1>1, <1>6, <2>2 DEF Items
  <2>5. Centroids(D) = [Centroids(C) EXCEPT ![b] = Centroid(all)]
    BY <1>1, <1>6, <2>2 DEF Centroids
  <2> QED BY <2>3, <2>4, <2>5 DEF Match, D
<1> QED BY <1>3, <1>5, <1>6

(* The rows of one CCIR, assigned in turn.                                 *)
LEMMA AssignSteps ==
  ASSUME RowsInv, NEW items \in Seq(DOMAIN rows)
  PROVE  Steps(Len(items), Clusters, <<>>,
               [p \in (1..Len(items)) \X Clusters |-> Assign(p[2], items[p[1]])],
               FoldLeft(Assign, <<>>, items))
<1> DEFINE n == Len(items)
           step == [p \in (1..n) \X Clusters |-> Assign(p[2], items[p[1]])]
<1>1. n \in Nat /\ DOMAIN items = 1..n /\ \A k \in 1..n : items[k] \in DOMAIN rows
  BY LenProperties, ElementOfSeq
<1>2. step \in [(1..n) \X Clusters -> Clusters]
  <2> SUFFICES ASSUME NEW p \in (1..n) \X Clusters
               PROVE  Assign(p[2], items[p[1]]) \in Clusters
    OBVIOUS
  <2>1. p[2] \in Clusters /\ items[p[1]] \in DOMAIN rows
    BY <1>1
  <2> QED BY <2>1, AssignIs
<1>3. <<>> \in Clusters
  BY DEF Clusters
<1>4. PICK g \in [SUBSET (1..n) -> Clusters] : \A s \in SUBSET (1..n) :
            g[s] = IF s = {} THEN <<>> ELSE step[<<Max(s), g[s \ {Max(s)}]>>]
  <2> HIDE DEF step, n
  <2>1. HasFold(n, Clusters, <<>>, step)
    BY <1>1, <1>2, <1>3, Recursion
  <2> QED BY <2>1 DEF HasFold
<1> DEFINE Rec(h, s) == IF s = {} THEN <<>>
             ELSE LET x == Max(s) IN Assign(h[s \ {x}], items[x])
<1>5. g = [s \in SUBSET (1..n) |-> Rec(g, s)]
  <2> SUFFICES ASSUME NEW s \in SUBSET (1..n) PROVE g[s] = Rec(g, s)
    OBVIOUS
  <2>1. CASE s # {}
    <3>1. Max(s) \in 1..n /\ s \ {Max(s)} \in SUBSET (1..n)
      BY <1>1, <2>1, MaxIn
    <3>2. <<Max(s), g[s \ {Max(s)}]>> \in (1..n) \X Clusters
      BY <3>1
    <3>3. g[s] = step[<<Max(s), g[s \ {Max(s)}]>>]
      BY <1>4, <2>1
    <3> QED BY <2>1, <3>2, <3>3
  <2> QED BY <1>4, <2>1
<1> DEFINE iter == CHOOSE h : h = [s \in SUBSET (DOMAIN items) |-> Rec(h, s)]
<1>6. iter = [s \in SUBSET (1..n) |-> Rec(iter, s)]
  <2> HIDE DEF Rec
  <2>1. g = [s \in SUBSET (DOMAIN items) |-> Rec(g, s)]
    BY <1>1, <1>5
  <2>2. iter = [s \in SUBSET (DOMAIN items) |-> Rec(iter, s)]
    BY <2>1
  <2> QED BY <1>1, <2>2
<1>7. FoldLeft(Assign, <<>>, items) = iter[1..n]
  BY <1>1 DEF FoldLeft, MapThenFoldSet
<1>8. Recurs(iter, n, <<>>, Clusters, step)
  <2>1. ASSUME NEW s, s = {} PROVE iter[s] = <<>>
    <3>1. s \in SUBSET (1..n)
      BY <2>1
    <3> HIDE DEF iter
    <3> QED BY <1>6, <2>1, <3>1
  <2>2. ASSUME NEW k \in 1..n, NEW m, m = Max(1..k), iter[(1..k) \ {m}] \in Clusters
        PROVE  iter[1..k] = step[<<m, iter[(1..k) \ {m}]>>]
    <3> HIDE DEF iter
    <3>1. m = k /\ 1..k \in SUBSET (1..n) /\ 1..k # {}
      <4>1. k \in Nat \ {0} /\ k \in 1..k
        BY <1>1
      <4>2. m = k
        BY <2>2, <4>1, ButTheLast
      <4>3. \A x \in 1..k : x \in 1..n
        BY <1>1
      <4> QED BY <4>1, <4>2, <4>3
    <3>2. iter[1..k] = Assign(iter[(1..k) \ {m}], items[m])
      BY <1>6, <2>2, <3>1
    <3>3. <<m, iter[(1..k) \ {m}]>> \in (1..n) \X Clusters
      BY <2>2, <3>1
    <3> QED BY <3>2, <3>3
  <2> HIDE DEF iter, step
  <2> QED BY <2>1, <2>2 DEF Recurs
<1> HIDE DEF iter, step, n
<1>9. n \in Nat
  BY <1>1
<1>10. Steps(n, Clusters, <<>>, step, iter[1..n])
  BY <1>9, <1>2, <1>3, <1>8, StepsOf, Zenon
<1>11. Steps(n, Clusters, <<>>, step, FoldLeft(Assign, <<>>, items))
  BY <1>10, <1>7, Zenon
<1> QED BY <1>11 DEF n, step

(* The fold as a function of the prefixes.                                 *)
LEMMA AssignRun ==
  ASSUME RowsInv, NEW items \in Seq(DOMAIN rows)
  PROVE  \E f \in [0..Len(items) -> Clusters] :
           /\ f[0] = <<>> /\ f[Len(items)] = FoldLeft(Assign, <<>>, items)
           /\ \A k \in 1..Len(items) : f[k] = Assign(f[k - 1], items[k])
<1> DEFINE n == Len(items)
           step == [p \in (1..n) \X Clusters |-> Assign(p[2], items[p[1]])]
<1>1. n \in Nat /\ Steps(n, Clusters, <<>>, step, FoldLeft(Assign, <<>>, items))
  BY AssignSteps, LenProperties
<1> HIDE DEF step, n
<1>2. PICK f \in [0..n -> Clusters] :
        /\ f[0] = <<>> /\ f[n] = FoldLeft(Assign, <<>>, items)
        /\ \A k \in 1..n : f[k] = step[<<k, f[k - 1]>>]
  BY <1>1 DEF Steps
<1>3. ASSUME NEW k \in 1..n PROVE f[k] = Assign(f[k - 1], items[k])
  <2>1. k - 1 \in 0..n
    BY <1>1
  <2>2. <<k, f[k - 1]>> \in (1..n) \X Clusters
    BY <2>1
  <2>3. step[<<k, f[k - 1]>>] = Assign(f[k - 1], items[k])
    BY <2>2 DEF step
  <2> QED BY <1>2, <2>3
<1>4. \E h \in [0..n -> Clusters] :
        /\ h[0] = <<>> /\ h[n] = FoldLeft(Assign, <<>>, items)
        /\ \A k \in 1..n : h[k] = Assign(h[k - 1], items[k])
  BY <1>2, <1>3
<1> QED BY <1>4 DEF n

(* cluster_items on the rows of one CCIR.                                  *)
LEMMA GroupsAgree ==
  ASSUME RowsInv, NEW items, Selected(items),
         \A i, j \in ToSet(items) : rows[i].ccir = rows[j].ccir
  PROVE  /\ Good(FoldLeft(Assign, <<>>, items), ToSet(items))
         /\ AllEmbedded(items) => Match(FoldLeft(Assign, <<>>, items),
                                        FoldLeft(AssignInMemory, Empty, items))
<1> DEFINE n == Len(items)
           upto(k) == {items[m] : m \in 1..k}
<1>1. /\ items \in Seq(DOMAIN rows) /\ n \in Nat /\ DOMAIN items = 1..n
      /\ \A k \in 1..n : items[k] \in DOMAIN rows
      /\ \A k, l \in 1..n : k < l => items[k] < items[l]
  <2>1. items \in Seq(DOMAIN rows)
    BY DEF Selected
  <2>2. n \in Nat /\ DOMAIN items = 1..n
    BY <2>1, LenProperties
  <2> QED BY <2>1, <2>2, ElementOfSeq DEF Selected, Ascending
<1>2. PICK f \in [0..n -> Clusters] :
        /\ f[0] = <<>> /\ f[n] = FoldLeft(Assign, <<>>, items)
        /\ \A k \in 1..n : f[k] = Assign(f[k - 1], items[k])
  BY <1>1, AssignRun
<1>3. PICK h \in [0..n -> Acc] :
        /\ h[0] = Empty /\ h[n] = FoldLeft(AssignInMemory, Empty, items)
        /\ \A k \in 1..n : h[k] = AssignInMemory(h[k - 1], items[k])
  BY <1>1, InMemoryRun
<1> DEFINE S == {k \in 0..n : /\ Good(f[k], upto(k))
                              /\ AllEmbedded(items) => Match(f[k], h[k])}
<1>4. 0 \in S
  <2>1. f[0] = <<>> /\ upto(0) = {} /\ h[0] = [clusters |-> <<>>, centroids |-> <<>>]
        /\ <<>> \in Clusters
    BY <1>2, <1>3 DEF Empty, Clusters
  <2>2. Items(<<>>) = <<>> /\ Centroids(<<>>) = <<>> /\ DOMAIN <<>> = {}
    BY DEF Items, Centroids
  <2>3. Parted(<<>>, {})
    BY NoClusters
  <2>4. Good(<<>>, {})
    BY <2>1, <2>2, <2>3 DEF Good
  <2>5. Match(<<>>, h[0])
    BY <2>1, <2>2 DEF Match
  <2>6. Good(f[0], upto(0)) /\ Match(f[0], h[0])
    BY <2>1, <2>4, <2>5, Zenon
  <2> HIDE DEF upto
  <2> QED BY <1>1, <2>6
<1>5. ASSUME NEW k \in 0 .. n - 1, k \in S PROVE k + 1 \in S
  <2>1. PICK l \in 1..n : l = k + 1 /\ l - 1 = k /\ k \in 0..n /\ l \in 0..n
    BY <1>1
  <2>2. /\ f[k] \in Clusters /\ Good(f[k], upto(k)) /\ items[l] \in DOMAIN rows
        /\ f[l] = Assign(f[k], items[l]) /\ h[l] = AssignInMemory(h[k], items[l])
        /\ AllEmbedded(items) => Match(f[k], h[k])
    BY <1>1, <1>2, <1>3, <1>5, <2>1
  <2>3. ASSUME NEW j \in upto(k)
        PROVE  j < items[l] /\ rows[j].ccir = rows[items[l]].ccir
    <3>1. PICK m \in 1..k : j = items[m]
      BY <2>3
    <3>2. m \in 1..n /\ m < l
      BY <1>1, <2>1
    <3>3. j \in ToSet(items) /\ items[l] \in ToSet(items)
      BY <1>1, <3>1, <3>2 DEF ToSet
    <3> QED BY <1>1, <3>1, <3>2, <3>3
  <2>4. items[l] \notin upto(k)
    <3>1. items[l] \in Nat
      BY <2>2, PositionsAre
    <3> HIDE DEF upto
    <3>2. items[l] \in upto(k) => items[l] < items[l]
      BY <2>3
    <3> QED BY <3>1, <3>2
  <2>5. upto(l) = upto(k) \union {items[l]}
    <3>1. \A m : m \in 1..l <=> m \in 1..k \/ m = l
      BY <2>1
    <3> QED BY <3>1
  <2> HIDE DEF upto
  <2>6. Good(f[l], upto(l))
    <3>1. Good(Assign(f[k], items[l]), upto(k) \union {items[l]})
      BY <2>2, <2>3, <2>4, AssignKeeps
    <3> QED BY <2>2, <2>5, <3>1
  <2>7. ASSUME AllEmbedded(items) PROVE Match(f[l], h[l])
    <3>1. rows[items[l]].vec # NoVector
      BY <1>1, <2>7 DEF AllEmbedded, ToSet
    <3>2. Match(Assign(f[k], items[l]), AssignInMemory(h[k], items[l]))
      BY <2>2, <2>7, <3>1, SameStep
    <3> QED BY <2>2, <3>2
  <2> QED BY <2>1, <2>6, <2>7
<1>6. n \in S
  <2> HIDE DEF S
  <2>1. 0..n \subseteq S
    BY <1>1, <1>4, <1>5, UpTo
  <2> QED BY <1>1, <2>1
<1>7. upto(n) = ToSet(items)
  BY <1>1 DEF ToSet
<1> HIDE DEF upto
<1> QED BY <1>2, <1>3, <1>6, <1>7

-----------------------------------------------------------------------------
(* The two clusterings, section after section.                             *)
LEMMA ConcatSet ==
  ASSUME NEW S, NEW a \in Seq(S), NEW b \in Seq(S)
  PROVE  a \o b \in Seq(S) /\ ToSet(a \o b) = ToSet(a) \union ToSet(b)
<1>1. /\ Len(a) \in Nat /\ DOMAIN a = 1..Len(a) /\ Len(b) \in Nat /\ DOMAIN b = 1..Len(b)
  BY LenProperties
<1> DEFINE c == a \o b
           m == Len(a)
           n == Len(b)
<1>2. /\ c \in Seq(S) /\ Len(c) = m + n
      /\ \A k \in 1 .. m + n : c[k] = IF k <= m THEN a[k] ELSE b[k - m]
  BY ConcatProperties
<1>3. DOMAIN c = 1 .. m + n
  BY <1>2, LenProperties
<1>4. m \in Nat /\ n \in Nat /\ DOMAIN a = 1..m /\ DOMAIN b = 1..n
  BY <1>1
<1> HIDE DEF c, m, n
<1>5. ASSUME NEW x \in ToSet(c) PROVE x \in ToSet(a) \union ToSet(b)
  <2>1. PICK k \in 1 .. m + n : c[k] = x
    BY <1>3, <1>5 DEF ToSet
  <2>2. CASE k <= m
    <3>1. k \in 1..m /\ x = a[k]
      BY <1>2, <1>4, <2>1, <2>2
    <3> QED BY <1>4, <3>1 DEF ToSet
  <2>3. CASE ~(k <= m)
    <3>1. PICK l \in 1..n : l = k - m
      BY <1>4, <2>3
    <3>2. x = b[l]
      BY <1>2, <2>1, <2>3, <3>1
    <3> QED BY <1>4, <3>2 DEF ToSet
  <2> QED BY <2>2, <2>3
<1>6. ASSUME NEW x \in ToSet(a) PROVE x \in ToSet(c)
  <2>1. PICK k \in 1..m : a[k] = x
    BY <1>4, <1>6 DEF ToSet
  <2>2. k \in 1 .. m + n /\ k <= m
    BY <1>4
  <2>3. c[k] = x
    BY <1>2, <2>1, <2>2
  <2> QED BY <1>3, <2>2, <2>3 DEF ToSet
<1>7. ASSUME NEW x \in ToSet(b) PROVE x \in ToSet(c)
  <2>1. PICK k \in 1..n : b[k] = x
    BY <1>4, <1>7 DEF ToSet
  <2>2. PICK l \in 1 .. m + n : ~(l <= m) /\ l - m = k
    <3>1. k + m \in 1 .. m + n /\ ~(k + m <= m) /\ (k + m) - m = k
      BY <1>4
    <3> QED BY <3>1
  <2>3. c[l] = b[l - m]
    BY <1>2, <2>2, Zenon
  <2> QED BY <1>3, <2>1, <2>2, <2>3 DEF ToSet
<1> QED BY <1>2, <1>5, <1>6, <1>7 DEF c

(* What is in one of the lists, and nothing else, is in the whole.         *)
LEMMA FlattenedSet ==
  ASSUME NEW X, NEW n \in Nat, NEW D \in [1..n -> Seq(X)], NEW c
  PROVE  c \in ToSet(FlattenSeq(D)) <=> \E k \in 1..n : c \in ToSet(D[k])
<1>1. PICK f \in [0..n -> Seq(X)] :
        f[0] = <<>> /\ f[n] = FlattenSeq(D) /\ \A k \in 1..n : f[k] = f[k - 1] \o D[k]
  <2>1. Flattened(X, n, D)
    BY FlattenSteps
  <2> QED BY <2>1 DEF Flattened
<1> DEFINE S == {k \in 0..n : c \in ToSet(f[k]) <=> \E l \in 1..k : c \in ToSet(D[l])}
<1>2. 0 \in S
  <2>1. ToSet(f[0]) = {} /\ 1..0 = {}
    BY <1>1 DEF ToSet
  <2> QED BY <2>1
<1>3. ASSUME NEW k \in 0 .. n - 1, k \in S PROVE k + 1 \in S
  <2>1. PICK l \in 1..n : l = k + 1 /\ l - 1 = k /\ k \in 0..n /\ l \in 0..n
    OBVIOUS
  <2>2. f[l] = f[k] \o D[l] /\ f[k] \in Seq(X) /\ D[l] \in Seq(X)
    BY <1>1, <2>1
  <2>3. ToSet(f[l]) = ToSet(f[k]) \union ToSet(D[l])
    BY <2>2, ConcatSet
  <2>4. \A m : m \in 1..l <=> m \in 1..k \/ m = l
    BY <2>1
  <2>5. c \in ToSet(f[k]) <=> \E m \in 1..k : c \in ToSet(D[m])
    BY <1>3
  <2>6. c \in ToSet(f[l]) <=> \E m \in 1..l : c \in ToSet(D[m])
    BY <2>3, <2>4, <2>5
  <2> QED BY <2>1, <2>6
<1>4. n \in S
  <2> HIDE DEF S
  <2>1. 0..n \subseteq S
    BY <1>2, <1>3, UpTo
  <2> QED BY <2>1
<1> QED BY <1>1, <1>4

(* The sections of cluster_items, one for each CCIR that has a heading.    *)
Group(ccir) == Items(FoldLeft(Assign, <<>>, OfCcir(AllRows, ccir)))

(* The clusters of one CCIR, and when they are those of the other.         *)
LEMMA GroupIsSection ==
  ASSUME RowsInv, NEW ccir \in ToSet(Order)
  PROVE  /\ Parted(Group(ccir), {i \in ToSet(Headed) : rows[i].ccir = ccir})
         /\ \A k \in DOMAIN Group(ccir) : Chain(Group(ccir)[k])
         /\ (\A i \in DOMAIN rows : rows[i].vec # NoVector) =>
              Group(ccir) = Section(Headed, ccir)
<1> DEFINE items == OfCcir(AllRows, ccir)
           C == FoldLeft(Assign, <<>>, items)
<1>1. /\ Selected(items) /\ ToSet(items) = {i \in DOMAIN rows : rows[i].ccir = ccir}
      /\ ToSet(Headed) = {i \in DOMAIN rows : rows[i].ccir \in ToSet(Order)}
      /\ ToSet(AllRows) = DOMAIN rows
  BY KeptIs, OfCcirIs
<1>2. {i \in ToSet(Headed) : rows[i].ccir = ccir} = ToSet(items)
  BY <1>1
<1>3. items = OfCcir(Headed, ccir)
  <2>1. {i \in ToSet(Headed) : rows[i].ccir = ccir} = {i \in ToSet(AllRows) : rows[i].ccir = ccir}
    BY <1>1
  <2> QED BY <2>1, Zenon DEF OfCcir
<1> HIDE DEF items
<1>4. /\ Good(C, ToSet(items))
      /\ AllEmbedded(items) => Match(C, FoldLeft(AssignInMemory, Empty, items))
  <2>1. \A i, j \in ToSet(items) : rows[i].ccir = rows[j].ccir
    BY <1>1
  <2> QED BY <1>1, <2>1, GroupsAgree
<1>5. Group(ccir) = Items(C) /\ Section(Headed, ccir) = FoldLeft(AssignInMemory, Empty, items).clusters
  BY <1>3 DEF Group, Section, items
<1> HIDE DEF C
<1>6. /\ Parted(Items(C), ToSet(items)) /\ DOMAIN Items(C) = DOMAIN C
      /\ \A k \in DOMAIN C : Items(C)[k] = C[k].items /\ Chain(C[k].items)
  BY <1>4, ItemsAre DEF Good, Centred
<1>7. \A k \in DOMAIN Group(ccir) : Chain(Group(ccir)[k])
  BY <1>5, <1>6
<1>8. ASSUME \A i \in DOMAIN rows : rows[i].vec # NoVector
      PROVE  Group(ccir) = Section(Headed, ccir)
  <2>1. AllEmbedded(items)
    BY <1>1, <1>8 DEF AllEmbedded
  <2>2. Match(C, FoldLeft(AssignInMemory, Empty, items))
    BY <1>4, <2>1
  <2> QED BY <1>5, <2>2 DEF Match
<1> QED BY <1>2, <1>5, <1>6, <1>7, <1>8

(* cluster_items' clusters are those of its sections.                      *)
LEMMA ClusterItemsAre ==
  ASSUME RowsInv, NEW n, n = Len(Order)
  PROVE  /\ n \in Nat /\ DOMAIN Order = 1..n
         /\ Parted(ClusterItems(AllRows), ToSet(Headed))
         /\ \A c : c \in ToSet(ClusterItems(AllRows)) <=>
                     \E s \in 1..n : c \in ToSet(Group(Order[s]))
<1> DEFINE D == [s \in 1..n |-> Group(Order[s])]
           I == [s \in 1..n |-> {i \in ToSet(Headed) : rows[i].ccir = Order[s]}]
<1>1. /\ n \in Nat /\ DOMAIN Order = 1..n
      /\ \A k, l \in 1..n : Order[k] = Order[l] => k = l
      /\ \A k \in 1..n : Order[k] \in ToSet(Order)
  <2>1. n \in Nat /\ DOMAIN Order = 1..n
    BY DocumentsAssumption, LenProperties
  <2> QED BY <2>1, DocumentsAssumption DEF IsInjective, ToSet
<1>2. ClusterItems(AllRows) = FlattenSeq(D)
  <2> DEFINE found(s) == FoldLeft(Assign, <<>>, OfCcir(AllRows, Order[s]))
             E == [s \in DOMAIN Order |-> [k \in DOMAIN found(s) |-> found(s)[k].items]]
  <2>1. ClusterItems(AllRows) = FlattenSeq(E)
    BY DEF ClusterItems
  <2>2. D = [s \in DOMAIN Order |-> Group(Order[s])]
    BY <1>1
  <2>3. \A s : Group(Order[s]) = [k \in DOMAIN found(s) |-> found(s)[k].items]
    BY DEF Group, Items
  <2> HIDE DEF found, D
  <2>4. E = D
    BY <2>2, <2>3
  <2> QED BY <2>1, <2>4, Zenon
<1>3. \A s \in 1..n : Parted(D[s], I[s])
  BY <1>1, GroupIsSection
<1>4. D \in [1..n -> Seq(Seq(DOMAIN rows))]
  <2>1. \A s \in 1..n : D[s] \in Seq(Seq(DOMAIN rows))
    BY <1>3 DEF Parted
  <2> QED BY <2>1
<1>5. \A k, l \in 1..n : \A i \in I[k] : i \in I[l] => k = l
  BY <1>1
<1>6. UNION {I[s] : s \in 1..n} = ToSet(Headed)
  <2>1. ASSUME NEW i \in ToSet(Headed) PROVE \E s \in 1..n : i \in I[s]
    <3>1. rows[i].ccir \in ToSet(Order)
      BY KeptIs
    <3>2. PICK s \in 1..n : rows[i].ccir = Order[s]
      BY <1>1, <3>1 DEF ToSet
    <3> QED BY <3>2
  <2> QED BY <2>1
<1>7. \A s \in 1..n : D[s] = Group(Order[s])
  OBVIOUS
<1> HIDE DEF D, I
<1>8. Parted(FlattenSeq(D), UNION {I[s] : s \in 1..n})
  <2>1. n \in Nat
    BY <1>1
  <2> QED BY <2>1, <1>3, <1>4, <1>5, FlattenParted
<1>9. \A c : c \in ToSet(FlattenSeq(D)) <=> \E s \in 1..n : c \in ToSet(D[s])
  <2>1. n \in Nat
    BY <1>1
  <2> QED BY <2>1, <1>4, FlattenedSet
<1> QED BY <1>1, <1>2, <1>6, <1>7, <1>8, <1>9

(* A cluster of a section is one of cluster_items_in_memory's, for its     *)
(* CCIR has a section there, and the other way round.                      *)
LEMMA SameClusters ==
  ASSUME RowsInv, \A i \in DOMAIN rows : rows[i].vec # NoVector
  PROVE  ToSet(ClusterItems(AllRows)) = ToSet(ClusterInMemory(Headed))
<1> DEFINE n == Len(Order)
           sections == FirstSeen(Headed)
           m == Len(sections)
           D == [k \in 1..m |-> Section(Headed, sections[k])]
<1>1. /\ DOMAIN Order = 1..n
      /\ \A c : c \in ToSet(ClusterItems(AllRows)) <=>
                  \E s \in 1..n : c \in ToSet(Group(Order[s]))
  BY ClusterItemsAre
<1>2. \A s \in 1..n : /\ Group(Order[s]) = Section(Headed, Order[s])
                      /\ Parted(Group(Order[s]), {i \in ToSet(Headed) : rows[i].ccir = Order[s]})
  <2>1. \A s \in 1..n : Order[s] \in ToSet(Order)
    BY <1>1 DEF ToSet
  <2> QED BY <2>1, GroupIsSection
<1>3. /\ Selected(Headed)
      /\ \A i \in ToSet(Headed) : i \in DOMAIN rows /\ rows[i].ccir \in ToSet(Order)
  BY KeptIs
<1>4. /\ m \in Nat /\ ClusterInMemory(Headed) = FlattenSeq(D)
      /\ \A i \in ToSet(Headed) : \E k \in 1..m : sections[k] = rows[i].ccir
      /\ \A k \in 1..m : \E i \in ToSet(Headed) : sections[k] = rows[i].ccir
  BY <1>3, SectionsAre
<1> HIDE DEF n, m, sections
<1>5. D \in [1..m -> Seq(Seq(DOMAIN rows))] /\ \A k \in 1..m : D[k] = Section(Headed, sections[k])
  <2>1. \A k \in 1..m : Section(Headed, sections[k]) \in Seq(Seq(DOMAIN rows))
    BY <1>3, SectionIs DEF Parted
  <2> QED BY <2>1
<1> HIDE DEF D
<1>6. \A c : c \in ToSet(ClusterInMemory(Headed)) <=> \E k \in 1..m : c \in ToSet(D[k])
  BY <1>4, <1>5, FlattenedSet
<1>7. ASSUME NEW s \in 1..n, NEW c \in ToSet(Group(Order[s]))
      PROVE  \E k \in 1..m : c \in ToSet(D[k])
  <2> DEFINE G == Group(Order[s])
  <2>0. Parted(G, {i \in ToSet(Headed) : rows[i].ccir = Order[s]}) /\ c \in ToSet(G)
    BY <1>2, <1>7
  <2> HIDE DEF G
  <2>1. PICK k \in DOMAIN G : c = G[k]
    BY <2>0 DEF ToSet
  <2>2. G[k] # <<>> /\ Selected(G[k]) /\ \A i \in ToSet(G[k]) : i \in ToSet(Headed) /\ rows[i].ccir = Order[s]
    BY <2>0 DEF Parted
  <2>3. PICK i \in ToSet(Headed) : rows[i].ccir = Order[s]
    BY <2>2, LeadIsFirst
  <2>4. PICK l \in 1..m : sections[l] = Order[s]
    BY <1>4, <2>3
  <2> QED BY <1>2, <1>5, <1>7, <2>4
<1>8. ASSUME NEW k \in 1..m, NEW c \in ToSet(D[k])
      PROVE  \E s \in 1..n : c \in ToSet(Group(Order[s]))
  <2>1. PICK i \in ToSet(Headed) : sections[k] = rows[i].ccir
    BY <1>4
  <2>2. rows[i].ccir \in ToSet(Order)
    BY <1>3
  <2>3. PICK s \in 1..n : Order[s] = rows[i].ccir
    BY <1>1, <2>2 DEF ToSet
  <2> QED BY <1>2, <1>5, <1>8, <2>1, <2>3
<1> QED BY <1>1, <1>6, <1>7, <1>8

(* The clusters are sound, and the same.                                   *)
LEMMA AgreeAlways == RowsInv => ClustersAgree
<1> DEFINE C == ClusterItems(AllRows)
           n == Len(Order)
<1> SUFFICES ASSUME RowsInv PROVE Sound(C, Headed)
  BY SameClusters DEF ClustersAgree
<1>1. /\ DOMAIN Order = 1..n /\ Parted(C, ToSet(Headed))
      /\ \A c : c \in ToSet(C) <=> \E s \in 1..n : c \in ToSet(Group(Order[s]))
  BY ClusterItemsAre
<1>2. ASSUME NEW k \in DOMAIN C PROVE Chain(C[k])
  <2>1. C[k] \in ToSet(C)
    BY DEF ToSet
  <2>2. PICK s \in 1..n : C[k] \in ToSet(Group(Order[s]))
    BY <1>1, <2>1
  <2>3. Order[s] \in ToSet(Order)
    BY <1>1 DEF ToSet
  <2>4. \A l \in DOMAIN Group(Order[s]) : Chain(Group(Order[s])[l])
    BY <2>3, GroupIsSection
  <2> QED BY <2>2, <2>4 DEF ToSet
<1> HIDE DEF C
<1>3. ASSUME NEW i \in ToSet(Headed)
      PROVE  Cardinality({k \in DOMAIN C : Contains(C[k], i)}) = 1
  BY <1>1, InOneCluster
<1>4. ASSUME NEW k \in DOMAIN C, NEW m \in 2..Len(C[k])
      PROVE  LET c == C[k] IN
             /\ rows[c[m]].ccir = rows[c[1]].ccir
             /\ NoVector \notin {rows[c[m]].vec, rows[c[1]].vec}
             /\ Similar(rows[c[m]].vec, <<Total(SubSeq(c, 1, m - 1), 1),
                                          Total(SubSeq(c, 1, m - 1), 2)>>)
  <2> DEFINE c == C[k]
  <2>1. Selected(c) /\ \A i, j \in ToSet(c) : rows[i].ccir = rows[j].ccir
    BY <1>1 DEF Parted
  <2>2. Chain(c) /\ m \in 2..Len(c)
    BY <1>2, <1>4
  <2> HIDE DEF c
  <2>3. Len(c) \in Nat /\ DOMAIN c = 1..Len(c)
    BY <2>1, LenProperties DEF Selected
  <2>4. 1 \in DOMAIN c /\ m \in DOMAIN c
    BY <2>2, <2>3
  <2>5. c[m] \in ToSet(c) /\ c[1] \in ToSet(c)
    BY <2>4 DEF ToSet
  <2>6. rows[c[m]].ccir = rows[c[1]].ccir
    BY <2>1, <2>5
  <2>7. /\ NoVector \notin {rows[c[m]].vec, rows[c[1]].vec}
        /\ Similar(rows[c[m]].vec, Tally(SubSeq(c, 1, m - 1)))
    BY <2>2 DEF Chain
  <2> QED BY <2>6, <2>7, Zenon DEF c, Tally
<1> QED BY <1>3, <1>4 DEF Sound, C

(* cluster_items puts every row whose CCIR has a heading in exactly one    *)
(* cluster, with rows of its CCIR only, each similar to the mean of those  *)
(* that were there before it; and where every row has its embedding,       *)
(* cluster_items_in_memory, which the documents use, finds the same        *)
(* clusters.  For any rows, embeddings and scores.                         *)
THEOREM ClusteringsAgree == Spec => []ClustersAgree
<1>1. Init => RowsInv
  BY DEF Init, RowsInv
<1> QED BY <1>1, RowsStep, AgreeAlways, PTL DEF Spec

=============================================================================
