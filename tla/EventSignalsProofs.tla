------------------------- MODULE EventSignalsProofs -------------------------
(***************************************************************************)
(* What holds of clusters, leaders and novelty for every table, whatever   *)
(* its rows say: any number of captures, any times, any window and         *)
(* threshold.                                                              *)
(***************************************************************************)
EXTENDS EventSignals, Counting, FunctionTheorems

-----------------------------------------------------------------------------
(* Rows and their similarities. *)

RowOf == {Row(n, s) : n \in Nat, s \in Shape}

LEMMA RowTypes ==
    ASSUME NEW r \in RowOf
    PROVE  /\ r.id \in Nat /\ RecordTs(r) \in Nat
           /\ IsFiniteSet(Symbols(r)) /\ IsFiniteSet(r.reasons)
           /\ IsFiniteSet(r.assets) /\ IsFiniteSet(r.title)
<1>1. PICK n \in Nat, s \in Shape : r = Row(n, s)
  BY DEF RowOf
<1>2. /\ r.id = n /\ r.created = n /\ r.pub = s.pub /\ r.symbols = s.symbols
      /\ r.reasons = s.reasons /\ r.assets = s.assets /\ r.title = s.title
  BY <1>1 DEF Row
<1>3. s.pub \in Nat \cup {NoTime}
  BY ShapeAssumption
<1>4. IsFiniteSet(s.symbols) /\ IsFiniteSet(s.reasons) /\ IsFiniteSet(s.assets) /\ IsFiniteSet(s.title)
  BY ShapeAssumption
<1>5. IsFiniteSet(Symbols(r))
  <2> DEFINE f == [x \in s.symbols |-> Upper[x]]
             T == {Upper[x] : x \in s.symbols}
  <2>1. f \in Surjection(s.symbols, T)
    BY DEF Surjection
  <2>2. IsFiniteSet(T)
    BY <1>4, <2>1, FS_Surjection
  <2> QED BY <1>2, <2>2 DEF Symbols
<1> QED BY <1>2, <1>3, <1>4, <1>5 DEF RecordTs

LEMMA JaccardIsNat ==
    ASSUME NEW a, NEW b, IsFiniteSet(a), IsFiniteSet(b)
    PROVE  Jaccard(a, b) \in Nat
<1>1. CASE a \cap b = {}
  BY <1>1 DEF Jaccard
<1>2. CASE a \cap b # {}
  <2>1. IsFiniteSet(a \cap b) /\ IsFiniteSet(a \cup b) /\ a \cup b # {}
    BY <1>2, FS_Intersection, FS_Union
  <2>2. Cardinality(a \cap b) \in Nat /\ Cardinality(a \cup b) \in Nat \ {0}
    BY <2>1, FS_CardinalityType, FS_EmptySet
  <2>3. \A p \in Nat, q \in Nat \ {0} : (60 * p) \div q \in Nat
    OBVIOUS
  <2> QED BY <1>2, <2>2, <2>3 DEF Jaccard, Unit
<1> QED BY <1>1, <1>2

LEMMA SimilarityIsNat ==
    ASSUME NEW a \in RowOf, NEW b \in RowOf
    PROVE  PairwiseSimilarity(a, b) \in Nat /\ NoveltySimilarity(a, b) \in Nat
<1>1. /\ Jaccard(Symbols(a), Symbols(b)) \in Nat /\ Jaccard(a.reasons, b.reasons) \in Nat
      /\ Jaccard(a.assets, b.assets) \in Nat /\ Jaccard(a.title, b.title) \in Nat
  BY RowTypes, JaccardIsNat
<1> QED BY <1>1 DEF PairwiseSimilarity, NoveltySimilarity, Unit

-----------------------------------------------------------------------------
(* The table. *)

TableInv ==
    /\ table \in Seq(RowOf)
    /\ \A n \in 1..Len(table) : table[n].id = Len(table) + 1 - n

LEMMA TableInit == Init => TableInv
BY DEF Init, TableInv

LEMMA CaptureStep ==
    ASSUME TableInv, NEW s \in Shape, Capture(s)
    PROVE  /\ TableInv' /\ Len(table') = Len(table) + 1
           /\ table'[1] = Row(Len(table) + 1, s) /\ \A n \in 1..Len(table) : table'[n + 1] = table[n]
<1> DEFINE r == Row(Len(table) + 1, s)
<1>1. table \in Seq(RowOf) /\ Len(table) \in Nat /\ r \in RowOf /\ r.id = Len(table) + 1
  BY DEF TableInv, RowOf, Row
<1>2. table' = <<r>> \o table
  BY DEF Capture
<1> HIDE DEF r
<1>3. table' \in Seq(RowOf) /\ Len(table') = Len(table) + 1
  BY <1>1, <1>2
<1>4. table'[1] = r /\ \A n \in 1..Len(table) : table'[n + 1] = table[n]
  BY <1>1, <1>2
<1>5. ASSUME NEW n \in 1..Len(table')
      PROVE  table'[n].id = Len(table') + 1 - n
  <2>1. CASE n = 1
    BY <1>1, <1>3, <1>4, <2>1
  <2>2. CASE n # 1
    <3>1. n - 1 \in 1..Len(table) /\ (n - 1) + 1 = n
      BY <1>1, <1>3, <2>2
    <3>2. table'[n] = table[n - 1] /\ table[n - 1].id = Len(table) + 1 - (n - 1)
      BY <1>4, <3>1 DEF TableInv
    <3> QED BY <1>1, <1>3, <3>1, <3>2
  <2> QED BY <2>1, <2>2
<1> QED BY <1>3, <1>4, <1>5 DEF TableInv, r

LEMMA TableStep == TableInv /\ [Next]_vars => TableInv'
<1> SUFFICES ASSUME TableInv, [Next]_vars PROVE TableInv'
  OBVIOUS
<1>1. CASE UNCHANGED table
  BY <1>1 DEF TableInv
<1> QED BY <1>1, CaptureStep DEF Next, vars, RefreshClusters

\* What the reports see of it.
LEMMA RecentRows ==
    ASSUME TableInv
    PROVE  /\ Recent \in Seq(RowOf) /\ Len(Recent) <= Len(table)
           /\ \A i \in 1..Len(Recent) : Recent[i] = table[i]
           /\ \A i, j \in 1..Len(Recent) : Recent[i].id = Recent[j].id => i = j
<1> DEFINE m == IF Len(table) < Limit THEN Len(table) ELSE Limit
<1>1. table \in Seq(RowOf) /\ Len(table) \in Nat /\ m \in 0..Len(table)
  BY ShapeAssumption DEF TableInv
<1> HIDE DEF m
<1>2. SubSeq(table, 1, m) \in Seq(RowOf) /\ Len(SubSeq(table, 1, m)) = m
      /\ \A i \in 1..m : SubSeq(table, 1, m)[i] = table[i]
  BY <1>1
<1>3. Recent = SubSeq(table, 1, m)
  BY DEF Recent, m
<1>4. ASSUME NEW i \in 1..m, NEW j \in 1..m, table[i].id = table[j].id
      PROVE  i = j
  <2>1. table[i].id = Len(table) + 1 - i /\ table[j].id = Len(table) + 1 - j
    BY <1>1 DEF TableInv
  <2>2. i \in Nat /\ j \in Nat
    BY <1>1
  <2>3. Len(table) + 1 - i = Len(table) + 1 - j
    BY <1>4, <2>1
  <2> QED BY <1>1, <2>2, <2>3
<1> QED BY <1>1, <1>2, <1>3, <1>4

-----------------------------------------------------------------------------
(* Novelty. *)

\* RemoveAt(s, n) is s without its n-th element.
LEMMA RemoveAtDrops ==
    ASSUME NEW S, NEW s \in Seq(S), NEW n \in 1..Len(s)
    PROVE  /\ RemoveAt(s, n) \in Seq(S) /\ Len(RemoveAt(s, n)) = Len(s) - 1
           /\ \A k \in 1..Len(s) - 1 : RemoveAt(s, n)[k] = IF k < n THEN s[k] ELSE s[k + 1]
<1> DEFINE u == SubSeq(s, 1, n - 1)
           v == SubSeq(s, n + 1, Len(s))
<1>1. Len(s) \in Nat /\ n \in Nat /\ \A i \in 1..Len(s) : s[i] \in S
  OBVIOUS
<1>2. u \in Seq(S) /\ Len(u) = n - 1 /\ \A i \in 1..n - 1 : u[i] = s[i]
  BY <1>1
<1>3. v \in Seq(S) /\ Len(v) = Len(s) - n /\ \A i \in 1..Len(s) - n : v[i] = s[i + n]
  BY <1>1
<1>4. RemoveAt(s, n) = u \o v
  BY DEF RemoveAt
<1> HIDE DEF u, v
<1>5. u \o v \in Seq(S) /\ Len(u \o v) = Len(s) - 1
  <2>0. u \in Seq(S) /\ v \in Seq(S)
    BY <1>2, <1>3
  <2>1. u \o v \in Seq(S) /\ Len(u \o v) = Len(u) + Len(v)
    BY <2>0
  <2>2. (n - 1) + (Len(s) - n) = Len(s) - 1
    BY <1>1
  <2> QED BY <1>2, <1>3, <2>1, <2>2
<1>6. ASSUME NEW k \in 1..Len(s) - 1
      PROVE  (u \o v)[k] = IF k < n THEN s[k] ELSE s[k + 1]
  <2>1. CASE k < n
    <3>1. (u \o v)[k] = u[k]
      BY <1>1, <1>2, <1>3, <2>1
    <3> QED BY <1>1, <1>2, <2>1, <3>1
  <2>2. CASE ~ (k < n)
    <3>1. (u \o v)[k] = v[k - (n - 1)]
      BY <1>1, <1>2, <1>3, <2>2
    <3>2. k - (n - 1) \in 1..Len(s) - n /\ (k - (n - 1)) + n = k + 1
      BY <1>1, <2>2
    <3> QED BY <1>3, <2>2, <3>1, <3>2
  <2> QED BY <2>1, <2>2
<1> QED BY <1>4, <1>5, <1>6

\* The result names a row as near as any.
LEMMA NearestIsNearest ==
    ASSUME NEW r \in RowOf, NEW others \in Seq(RowOf)
    PROVE  LET sim == ResultFrom(r, others).similarity
           IN  /\ sim \in Nat
               /\ \A k \in 1..Len(others) : NoveltySimilarity(r, others[k]) <= sim
               /\ others # <<>> => \E k \in 1..Len(others) : sim = NoveltySimilarity(r, others[k])
               /\ others = <<>> => sim = 0
<1>1. CASE others = <<>>
  BY <1>1 DEF ResultFrom
<1>2. CASE others # <<>>
  <2> DEFINE m == Len(others)
             f == [k \in 1..m |-> NoveltySimilarity(r, others[k])]
             First(n) == \A k \in 1..m : f[k] < f[n] \/ (f[k] = f[n] /\ n <= k)
             best == CHOOSE n \in 1..m : First(n)
  <2>1. m \in Nat \ {0} /\ DOMAIN others = 1..m
    BY <1>2
  <2>2. \A k \in 1..m : f[k] = NoveltySimilarity(r, others[k]) /\ f[k] \in Nat
    BY SimilarityIsNat
  <2>3. ResultFrom(r, others).similarity = NoveltySimilarity(r, others[best])
    <3>1. best = CHOOSE n \in DOMAIN others : \A k \in DOMAIN others :
                     \/ NoveltySimilarity(r, others[k]) < NoveltySimilarity(r, others[n])
                     \/ NoveltySimilarity(r, others[k]) = NoveltySimilarity(r, others[n]) /\ n <= k
      BY <2>1, <2>2
    <3> HIDE DEF best
    <3> QED BY <1>2, <3>1 DEF ResultFrom
  <2> HIDE DEF f
  <2>4. \E n \in 1..m : First(n)
    <3> HIDE DEF m
    <3> QED BY <2>1, <2>2, FirstOfGreatest
  <2>5. best \in 1..m /\ First(best)
    <3> HIDE DEF First
    <3> QED BY <2>4
  <2>6. ASSUME NEW k \in 1..m
        PROVE  f[k] <= f[best]
    <3>1. f[k] < f[best] \/ f[k] = f[best]
      BY <2>5
    <3>2. f[k] \in Nat /\ f[best] \in Nat
      BY <2>2, <2>5
    <3> QED BY <3>1, <3>2
  <2> HIDE DEF best, First
  <2> QED BY <1>2, <2>2, <2>3, <2>5, <2>6
<1> QED BY <1>1, <1>2

\* The score of one record and those of all of them are the same, and name a row
\* as near as any, for every table and however its similarities fall.
THEOREM NoveltyCorrect == Spec => []NoveltyAgrees
<1>1. TableInv => NoveltyAgrees
  <2> SUFFICES ASSUME TableInv, NEW n \in DOMAIN Recent
               PROVE  /\ ComputeNovelty(Recent[n], Recent) = ScoreCorpus(Recent)[n]
                      /\ \A k \in DOMAIN Recent \ {n} :
                            NoveltySimilarity(Recent[n], Recent[k]) <= ScoreCorpus(Recent)[n].similarity
    BY DEF NoveltyAgrees
  <2> DEFINE rows == Recent
             others == RemoveAt(rows, n)
  <2>1. rows \in Seq(RowOf) /\ n \in 1..Len(rows) /\ rows[n] \in RowOf
    BY RecentRows
  <2>2. \A i, j \in 1..Len(rows) : rows[i].id = rows[j].id => i = j
    BY RecentRows
  <2> HIDE DEF rows
  <2>3. ScoreCorpus(rows)[n] = ResultFrom(rows[n], others)
    BY <2>1 DEF ScoreCorpus
  <2>4. ComputeNovelty(rows[n], rows) = ResultFrom(rows[n], others)
    <3>1. {k \in DOMAIN rows : rows[k].id = rows[n].id} = {n}
      BY <2>1, <2>2
    <3>2. Min({n}) = n
      <4>1. n \in Int /\ {n} \in SUBSET Int /\ {n} # {}
        BY <2>1
      <4>2. IsFiniteSet({n})
        BY FS_Singleton
      <4>3. Min({n}) \in {n}
        BY <4>1, <4>2, Extremes
      <4> QED BY <4>3
    <3> QED BY <3>1, <3>2 DEF ComputeNovelty
  <2>5. ASSUME NEW k \in DOMAIN rows \ {n}
        PROVE  NoveltySimilarity(rows[n], rows[k]) <= ScoreCorpus(rows)[n].similarity
    <3>1. others \in Seq(RowOf) /\ Len(others) = Len(rows) - 1
          /\ \A j \in 1..Len(rows) - 1 : others[j] = IF j < n THEN rows[j] ELSE rows[j + 1]
      BY <2>1, RemoveAtDrops
    <3>2. PICK j \in 1..Len(others) : others[j] = rows[k]
      <4>1. CASE k < n
        <5>1. k \in 1..Len(rows) - 1
          BY <2>1, <4>1
        <5> QED BY <3>1, <4>1, <5>1
      <4>2. CASE ~ (k < n)
        <5>1. k - 1 \in 1..Len(rows) - 1 /\ ~ (k - 1 < n) /\ (k - 1) + 1 = k
          BY <2>1, <4>2
        <5> QED BY <3>1, <5>1
      <4> QED BY <4>1, <4>2
    <3> HIDE DEF others
    <3>3. NoveltySimilarity(rows[n], others[j]) <= ResultFrom(rows[n], others).similarity
      BY <2>1, <3>1, NearestIsNearest
    <3> QED BY <2>3, <3>2, <3>3
  <2> QED BY <2>3, <2>4, <2>5 DEF rows
<1> QED BY <1>1, TableInit, TableStep, PTL DEF Spec

-----------------------------------------------------------------------------
(* The order of time. *)

Earlier(rows, i) == {j \in DOMAIN rows : Before(rows, j, i)}

LEMMA Placed ==
    ASSUME NEW rows \in Seq(RowOf)
    PROVE  /\ \A i \in 1..Len(rows) : Place(rows, i) \in 1..Len(rows)
           /\ \A i, j \in 1..Len(rows) : Before(rows, i, j) => Place(rows, i) < Place(rows, j)
           /\ \A i, j \in 1..Len(rows) : Place(rows, i) = Place(rows, j) => i = j
           /\ \A n \in 1..Len(rows) : \E i \in 1..Len(rows) : Place(rows, i) = n
<1> DEFINE m == Len(rows)
           D == 1..m
           R == {p \in D \X D : Before(rows, p[1], p[2])}
           before == [i \in D |-> Earlier(rows, i)]
           rank == [i \in D |-> Place(rows, i)]
<1>0. m \in Nat /\ DOMAIN rows = D /\ \A i \in D : RecordTs(rows[i]) \in Nat /\ i \in Nat
  BY RowTypes
<1>1. IsFiniteSet(D) /\ Cardinality(D) = m
  <2>1. 1 \in Int /\ m \in Int
    BY <1>0
  <2>2. IsFiniteSet(1..m) /\ Cardinality(1..m) = IF 1 > m THEN 0 ELSE m - 1 + 1
    BY <2>1, FS_Interval
  <2> QED BY <1>0, <2>2
<1> HIDE DEF m, D
<1>2. \A i, j \in D : <<i, j>> \in R <=> Before(rows, i, j)
  OBVIOUS
<1>3. Ranks(rank, before, R, D)
  BY <1>0 DEF Earlier, Place, Ranks
<1>4. \A i \in D : rank[i] = Place(rows, i)
  OBVIOUS
<1> HIDE DEF R, before, rank
<1>5. Orders(R, D)
  <2>1. /\ \A i \in D : ~ Before(rows, i, i)
        /\ \A i, j \in D : i # j => Before(rows, i, j) \/ Before(rows, j, i)
        /\ \A i, j, k \in D : Before(rows, i, j) /\ Before(rows, j, k) => Before(rows, i, k)
    BY <1>0 DEF Before
  <2>2. \A i \in D : <<i, i>> \notin R
    BY <1>2, <2>1
  <2>3. \A i, j \in D : i # j => <<i, j>> \in R \/ <<j, i>> \in R
    BY <1>2, <2>1
  <2>4. ASSUME NEW i \in D, NEW j \in D, NEW k \in D, <<i, j>> \in R, <<j, k>> \in R
        PROVE  <<i, k>> \in R
    <3>1. Before(rows, i, j) /\ Before(rows, j, k)
      BY <1>2, <2>4
    <3>2. Before(rows, i, k)
      BY <2>1, <3>1
    <3> QED BY <1>2, <3>2
  <2> QED BY <2>2, <2>3, <2>4 DEF Orders
<1>6. /\ \A i \in D : rank[i] \in 1..Cardinality(D)
      /\ \A i, j \in D : <<i, j>> \in R => rank[i] < rank[j]
      /\ \A i, j \in D : rank[i] = rank[j] => i = j
      /\ \A n \in 1..Cardinality(D) : \E i \in D : rank[i] = n
  BY <1>1, <1>3, <1>5, Ranked
<1>7. /\ \A i \in D : Place(rows, i) \in 1..m
      /\ \A i, j \in D : Before(rows, i, j) => Place(rows, i) < Place(rows, j)
      /\ \A i, j \in D : Place(rows, i) = Place(rows, j) => i = j
      /\ \A n \in 1..m : \E i \in D : Place(rows, i) = n
  BY <1>1, <1>2, <1>4, <1>6
<1> QED BY <1>7 DEF D, m

\* ByTime lists the rows, each at its place, and times never fall.
LEMMA Sorted ==
    ASSUME NEW rows \in Seq(RowOf)
    PROVE  /\ ByTime(rows) \in Seq(RowOf) /\ Len(ByTime(rows)) = Len(rows)
           /\ \A i \in 1..Len(rows) : ByTime(rows)[Place(rows, i)] = rows[i]
           /\ \A a, b \in 1..Len(rows) : a <= b =>
                  RecordTs(ByTime(rows)[a]) <= RecordTs(ByTime(rows)[b])
<1> DEFINE D == 1..Len(rows)
           index(n) == CHOOSE i \in D : Place(rows, i) = n
<1>0. Len(rows) \in Nat /\ DOMAIN rows = D /\ \A i \in D : rows[i] \in RowOf
  OBVIOUS
<1>1. \A n \in D : index(n) \in D /\ Place(rows, index(n)) = n
  <2>1. \A n \in D : \E i \in D : Place(rows, i) = n
    BY Placed
  <2> HIDE DEF D
  <2> QED BY <2>1
<1>2. ByTime(rows) = [n \in D |-> rows[index(n)]]
  BY <1>0 DEF ByTime
<1>3. ByTime(rows) \in Seq(RowOf) /\ Len(ByTime(rows)) = Len(rows)
  <2>1. \A n \in D : rows[index(n)] \in RowOf
    BY <1>0, <1>1
  <2> HIDE DEF index
  <2> QED BY <1>0, <1>2, <2>1
<1>4. ASSUME NEW i \in D
      PROVE  ByTime(rows)[Place(rows, i)] = rows[i]
  <2>1. Place(rows, i) \in D
    BY Placed
  <2>2. index(Place(rows, i)) = i
    <3>1. index(Place(rows, i)) \in D /\ Place(rows, index(Place(rows, i))) = Place(rows, i)
      BY <1>1, <2>1
    <3> HIDE DEF index
    <3> QED BY <3>1, Placed
  <2> HIDE DEF index
  <2> QED BY <1>2, <2>1, <2>2
<1>5. ASSUME NEW a \in D, NEW b \in D, a <= b
      PROVE  RecordTs(ByTime(rows)[a]) <= RecordTs(ByTime(rows)[b])
  <2>1. PICK i \in D, j \in D : Place(rows, i) = a /\ Place(rows, j) = b
    BY Placed
  <2>2. ByTime(rows)[a] = rows[i] /\ ByTime(rows)[b] = rows[j]
    BY <1>4, <2>1
  <2>3. RecordTs(rows[i]) \in Nat /\ RecordTs(rows[j]) \in Nat
    BY <1>0, RowTypes
  <2>4. ~ Before(rows, j, i)
    <3>1. Before(rows, j, i) => b < a
      BY <2>1, Placed
    <3> QED BY <1>0, <1>5, <3>1
  <2>5. ~ (RecordTs(rows[j]) < RecordTs(rows[i]))
    BY <2>4 DEF Before
  <2> QED BY <2>2, <2>3, <2>5
<1> QED BY <1>3, <1>4, <1>5

-----------------------------------------------------------------------------
(* Clusters. *)

Cluster == {c \in [members : Seq(RowOf), last : Nat] : c.members # <<>>}

Near(clusters, r) ==
    {k \in DOMAIN clusters : WithinWindow(clusters[k], r) /\ Link(clusters[k], r) >= Threshold}

\* A cluster of r alone, and one that r has joined.
Alone(r) == [members |-> <<r>>, last |-> RecordTs(r)]
Extended(c, r) ==
    [members |-> Append(c.members, r),
     last |-> IF RecordTs(r) > c.last THEN RecordTs(r) ELSE c.last]

LEMMA ClusterTypes ==
    ASSUME NEW r \in RowOf
    PROVE  Alone(r) \in Cluster /\ \A c \in Cluster : Extended(c, r) \in Cluster
<1>1. RecordTs(r) \in Nat
  BY RowTypes
<1>2. <<r>> \in Seq(RowOf) /\ <<r>> # <<>>
  OBVIOUS
<1>3. ASSUME NEW c \in Cluster
      PROVE  Extended(c, r) \in Cluster
  <2>1. c.members \in Seq(RowOf) /\ c.last \in Nat
    BY DEF Cluster
  <2>2. Append(c.members, r) \in Seq(RowOf) /\ Append(c.members, r) # <<>>
    BY <2>1
  <2> QED BY <1>1, <2>1, <2>2 DEF Cluster, Extended
<1> QED BY <1>1, <1>2, <1>3 DEF Cluster, Alone

\* The link of a record to a cluster is its similarity to one of the members.
LEMMA LinkIsSimilarity ==
    ASSUME NEW c \in Cluster, NEW r \in RowOf
    PROVE  /\ Link(c, r) \in Nat
           /\ \E n \in 1..Len(c.members) : Link(c, r) = PairwiseSimilarity(c.members[n], r)
<1> DEFINE D == 1..Len(c.members)
           f == [n \in D |-> PairwiseSimilarity(c.members[n], r)]
           T == {PairwiseSimilarity(m, r) : m \in Range(c.members)}
<1>1. c.members \in Seq(RowOf) /\ Len(c.members) \in Nat \ {0} /\ 1 \in D
  BY DEF Cluster
<1>2. ASSUME NEW n \in D
      PROVE  f[n] \in Nat
  <2>1. c.members[n] \in RowOf /\ f[n] = PairwiseSimilarity(c.members[n], r)
    BY <1>1
  <2> QED BY <2>1, SimilarityIsNat
<1>3. T = {f[n] : n \in D}
  <2>1. Range(c.members) = {c.members[n] : n \in D}
    BY <1>1 DEF Range
  <2>2. \A n \in D : f[n] = PairwiseSimilarity(c.members[n], r)
    OBVIOUS
  <2> HIDE DEF f, D
  <2> QED BY <2>1, <2>2
<1>4. IsFiniteSet(D)
  BY <1>1, FS_Interval
<1> HIDE DEF T, f, D
<1>5. IsFiniteSet({f[n] : n \in D})
  BY <1>4, ImageIsFinite
<1>6. T \in SUBSET Int /\ IsFiniteSet(T) /\ T # {}
  BY <1>1, <1>2, <1>3, <1>5
<1>7. Max(T) \in T
  BY <1>6, Extremes
<1>8. Link(c, r) = Max(T)
  BY DEF Link, T
<1>9. PICK n \in D : Link(c, r) = f[n]
  BY <1>3, <1>7, <1>8
<1> QED BY <1>2, <1>9 DEF f, D

\* Of equally close clusters there is a youngest.
LEMMA BestExists ==
    ASSUME NEW D \in SUBSET Nat, IsFiniteSet(D), D # {}, NEW f, \A k \in D : f[k] \in Nat
    PROVE  \E k \in D : \A j \in D : f[j] < f[k] \/ (f[j] = f[k] /\ j <= k)
<1> DEFINE R == {p \in D \X D : f[p[1]] > f[p[2]] \/ (f[p[1]] = f[p[2]] /\ p[1] > p[2])}
<1>1. \A x, y \in D : <<x, y>> \in R <=> f[x] > f[y] \/ (f[x] = f[y] /\ x > y)
  OBVIOUS
<1>2. \A x \in D : x \in Nat /\ f[x] \in Nat
  OBVIOUS
<1> HIDE DEF R
<1>3. (\A x \in D : <<x, x>> \notin R)
      /\ \A x, y, z \in D : <<x, y>> \in R /\ <<y, z>> \in R => <<x, z>> \in R
  BY <1>1, <1>2
<1>4. PICK k \in D : \A j \in D : <<j, k>> \notin R
  BY <1>3, SomethingIsFirst
<1>5. ASSUME NEW j \in D
      PROVE  f[j] < f[k] \/ (f[j] = f[k] /\ j <= k)
  <2>1. ~ (f[j] > f[k]) /\ ~ (f[j] = f[k] /\ j > k)
    BY <1>1, <1>4
  <2> QED BY <1>2, <2>1
<1> QED BY <1>5

\* A record founds a cluster, or joins one that is near and like enough.
LEMMA AttachCases ==
    ASSUME NEW clusters \in Seq(Cluster), NEW r \in RowOf
    PROVE  \/ Attach(clusters, r) = Append(clusters, Alone(r))
           \/ \E k \in Near(clusters, r) :
                  Attach(clusters, r) = [clusters EXCEPT ![k] = Extended(clusters[k], r)]
<1> DEFINE D == Near(clusters, r)
           IsBest(k) == \A j \in D :
                    \/ Link(clusters[j], r) < Link(clusters[k], r)
                    \/ Link(clusters[j], r) = Link(clusters[k], r) /\ j <= k
           best == CHOOSE k \in D : IsBest(k)
<1>1. Len(clusters) \in Nat /\ DOMAIN clusters = 1..Len(clusters)
      /\ D \in SUBSET (1..Len(clusters)) /\ D \in SUBSET Nat
  BY DEF Near
<1>2. IsFiniteSet(D)
  <2>1. IsFiniteSet(1..Len(clusters))
    BY <1>1, FS_Interval
  <2> QED BY <1>1, <2>1, FS_Subset
<1>3. \A k \in D : clusters[k] \in Cluster /\ Link(clusters[k], r) \in Nat
  BY <1>1, LinkIsSimilarity
<1>4. CASE D = {}
  BY <1>4 DEF Attach, Near, Alone
<1>5. CASE D # {}
  <2> DEFINE f == [k \in D |-> Link(clusters[k], r)]
  <2>1. \A k \in D : f[k] \in Nat /\ f[k] = Link(clusters[k], r)
    BY <1>3
  <2>2. \E k \in D : \A j \in D : f[j] < f[k] \/ (f[j] = f[k] /\ j <= k)
    <3> HIDE DEF f, D
    <3> QED BY <1>1, <1>2, <1>5, <2>1, BestExists
  <2>3. \E k \in D : IsBest(k)
    <3> HIDE DEF f
    <3> QED BY <2>1, <2>2
  <2>4. best \in D
    <3> HIDE DEF IsBest
    <3> QED BY <2>3
  <2>5. Attach(clusters, r) = [clusters EXCEPT ![best] = Extended(clusters[best], r)]
    BY <1>5, <2>4 DEF Attach, Near, Extended
  <2> QED BY <2>4, <2>5
<1> QED BY <1>4, <1>5

-----------------------------------------------------------------------------
(* The pass over the rows. *)

\* g is the function of the pass's clusters up to the n-th row.
IsPass(g, rows, n) ==
    g = [i \in 0..n |-> IF i = 0 THEN <<>> ELSE Attach(g[i - 1], rows[i])]

\* The recursive definition in Joined defines a function.
LEMMA PassesExist ==
    ASSUME NEW rows
    PROVE  \A n \in Nat : \E g : IsPass(g, rows, n)
<1> DEFINE S == {n \in Nat : \E g : IsPass(g, rows, n)}
<1>1. 0 \in S
  <2>1. IsPass([i \in 0..0 |-> <<>>], rows, 0)
    BY DEF IsPass
  <2> QED BY <2>1
<1>2. ASSUME NEW n \in Nat, n \in S
      PROVE  n + 1 \in S
  <2>1. PICK g : IsPass(g, rows, n)
    BY <1>2
  <2> DEFINE h == [i \in 0..(n + 1) |-> IF i = n + 1 THEN Attach(g[n], rows[n + 1]) ELSE g[i]]
             f == [i \in 0..(n + 1) |-> IF i = 0 THEN <<>> ELSE Attach(h[i - 1], rows[i])]
  <2>2. \A i \in 0..n : g[i] = IF i = 0 THEN <<>> ELSE Attach(g[i - 1], rows[i])
    BY <2>1 DEF IsPass
  <2>3. ASSUME NEW i \in 0..(n + 1)
        PROVE  h[i] = IF i = 0 THEN <<>> ELSE Attach(h[i - 1], rows[i])
    <3>1. CASE i = n + 1
      <4>1. i - 1 = n /\ n \in 0..(n + 1) /\ n # n + 1 /\ i # 0
        BY <3>1
      <4>2. h[i - 1] = g[n] /\ h[i] = Attach(g[n], rows[i])
        BY <3>1, <4>1
      <4> QED BY <4>1, <4>2
    <3>2. CASE i \in 0..n
      <4>1. i # n + 1 /\ (i # 0 => i - 1 \in 0..(n + 1) /\ i - 1 # n + 1)
        BY <3>2
      <4>2. h[i] = g[i] /\ (i # 0 => h[i - 1] = g[i - 1])
        BY <4>1
      <4> QED BY <2>2, <3>2, <4>2
    <3> QED BY <3>1, <3>2
  <2>4. h = f
    <3>1. \A i \in 0..(n + 1) : h[i] = f[i]
      BY <2>3
    <3> QED BY <3>1
  <2>5. IsPass(h, rows, n + 1)
    BY <2>4 DEF IsPass
  <2> QED BY <2>5
<1> HIDE DEF S
<1>3. \A n \in Nat : n \in S
  BY <1>1, <1>2, SetInduction
<1> QED BY <1>3 DEF S

LEMMA JoinedSteps ==
    ASSUME NEW rows, Len(rows) \in Nat
    PROVE  /\ Joined(rows)[0] = <<>>
           /\ \A n \in 1..Len(rows) : Joined(rows)[n] = Attach(Joined(rows)[n - 1], rows[n])
<1> DEFINE g == CHOOSE h : IsPass(h, rows, Len(rows))
<1>1. IsPass(g, rows, Len(rows))
  BY PassesExist
<1>2. Joined(rows) = g
  BY DEF Joined, IsPass
<1> HIDE DEF g
<1>3. \A i \in 0..Len(rows) : g[i] = IF i = 0 THEN <<>> ELSE Attach(g[i - 1], rows[i])
  BY <1>1 DEF IsPass
<1>4. g[0] = <<>>
  <2>1. 0 \in 0..Len(rows)
    OBVIOUS
  <2> QED BY <1>3, <2>1
<1>5. ASSUME NEW i \in 1..Len(rows)
      PROVE  g[i] = Attach(g[i - 1], rows[i])
  <2>1. i \in 0..Len(rows) /\ i # 0
    OBVIOUS
  <2> QED BY <1>3, <2>1
<1> QED BY <1>2, <1>4, <1>5

LEMMA AttachType ==
    ASSUME NEW clusters \in Seq(Cluster), NEW r \in RowOf
    PROVE  Attach(clusters, r) \in Seq(Cluster)
<1>1. CASE Attach(clusters, r) = Append(clusters, Alone(r))
  BY <1>1, ClusterTypes
<1>2. ASSUME NEW k \in Near(clusters, r),
             Attach(clusters, r) = [clusters EXCEPT ![k] = Extended(clusters[k], r)]
      PROVE  Attach(clusters, r) \in Seq(Cluster)
  <2>1. k \in 1..Len(clusters) /\ clusters[k] \in Cluster
    BY DEF Near
  <2>2. Extended(clusters[k], r) \in Cluster
    BY <2>1, ClusterTypes
  <2> QED BY <1>2, <2>1, <2>2
<1> QED BY <1>1, <1>2, AttachCases

LEMMA JoinedType ==
    ASSUME NEW rows \in Seq(RowOf)
    PROVE  \A n \in 0..Len(rows) : Joined(rows)[n] \in Seq(Cluster)
<1> DEFINE S == {n \in Nat : n <= Len(rows) => Joined(rows)[n] \in Seq(Cluster)}
<1>0. Len(rows) \in Nat
  OBVIOUS
<1>1. 0 \in S
  <2>1. Joined(rows)[0] = <<>> /\ <<>> \in Seq(Cluster)
    BY <1>0, JoinedSteps
  <2> QED BY <2>1
<1>2. ASSUME NEW n \in Nat, n \in S
      PROVE  n + 1 \in S
  <2> SUFFICES ASSUME n + 1 <= Len(rows) PROVE Joined(rows)[n + 1] \in Seq(Cluster)
    OBVIOUS
  <2>1. n + 1 \in 1..Len(rows) /\ (n + 1) - 1 = n /\ n <= Len(rows)
    BY <1>0
  <2>2. Joined(rows)[n + 1] = Attach(Joined(rows)[n], rows[n + 1])
    BY <1>0, <2>1, JoinedSteps
  <2>3. Joined(rows)[n] \in Seq(Cluster) /\ rows[n + 1] \in RowOf
    BY <1>2, <2>1
  <2> QED BY <2>2, <2>3, AttachType
<1> HIDE DEF S
<1>3. \A n \in Nat : n \in S
  BY <1>1, <1>2, SetInduction
<1> QED BY <1>0, <1>3 DEF S

\* What a pass has made of its first m rows depends on these alone.
LEMMA SamePrefix ==
    ASSUME NEW s \in Seq(RowOf), NEW t \in Seq(RowOf), NEW m \in Nat,
           m <= Len(s), m <= Len(t), \A k \in 1..m : s[k] = t[k]
    PROVE  Joined(s)[m] = Joined(t)[m]
<1> DEFINE S == {n \in Nat : n <= m => Joined(s)[n] = Joined(t)[n]}
<1>0. Len(s) \in Nat /\ Len(t) \in Nat
  OBVIOUS
<1>1. 0 \in S
  <2>1. Joined(s)[0] = <<>>
    BY <1>0, JoinedSteps
  <2>2. Joined(t)[0] = <<>>
    BY <1>0, JoinedSteps
  <2> QED BY <2>1, <2>2
<1>2. ASSUME NEW n \in Nat, n \in S
      PROVE  n + 1 \in S
  <2> SUFFICES ASSUME n + 1 <= m PROVE Joined(s)[n + 1] = Joined(t)[n + 1]
    OBVIOUS
  <2>1. n + 1 \in 1..Len(s) /\ n + 1 \in 1..Len(t) /\ n + 1 \in 1..m /\ (n + 1) - 1 = n /\ n <= m
    BY <1>0
  <2>2. Joined(s)[n + 1] = Attach(Joined(s)[n], s[n + 1])
        /\ Joined(t)[n + 1] = Attach(Joined(t)[n], t[n + 1])
    BY <1>0, <2>1, JoinedSteps
  <2> QED BY <1>2, <2>1, <2>2
<1> HIDE DEF S
<1>3. \A n \in Nat : n \in S
  BY <1>1, <1>2, SetInduction
<1> QED BY <1>3 DEF S

-----------------------------------------------------------------------------
(* News later than all the rest. *)

\* A later capture is listed last, and moves nothing.
LEMMA LatestIsLast ==
    ASSUME NEW rows \in Seq(RowOf), NEW later \in Seq(RowOf), Len(later) = Len(rows) + 1,
           \A n \in 1..Len(rows) : later[n + 1] = rows[n],
           \A n \in 1..Len(rows) : RecordTs(rows[n]) < RecordTs(later[1])
    PROVE  /\ \A n \in 1..Len(rows) : ByTime(later)[n] = ByTime(rows)[n]
           /\ ByTime(later)[Len(rows) + 1] = later[1]
<1> DEFINE m == Len(rows)
<1>0. /\ m \in Nat /\ DOMAIN rows = 1..m /\ DOMAIN later = 1..(m + 1) /\ 1 \in 1..(m + 1)
      /\ \A n \in 1..m : RecordTs(rows[n]) \in Nat /\ n + 1 \in 1..(m + 1)
      /\ RecordTs(later[1]) \in Nat
  BY RowTypes
<1> HIDE DEF m
<1>1. ASSUME NEW i \in 1..m
      PROVE  Place(later, i + 1) = Place(rows, i)
  <2> DEFINE f == [j \in Earlier(rows, i) |-> j + 1]
  <2>1. ASSUME NEW j \in 1..m
        PROVE  Before(later, j + 1, i + 1) <=> Before(rows, j, i)
    <3>1. later[j + 1] = rows[j] /\ later[i + 1] = rows[i] /\ (j + 1 < i + 1 <=> j < i)
      BY DEF m
    <3> QED BY <3>1 DEF Before
  <2>2. ~ Before(later, 1, i + 1)
    <3>1. later[i + 1] = rows[i] /\ RecordTs(rows[i]) < RecordTs(later[1])
      BY DEF m
    <3> QED BY <1>0, <3>1 DEF Before
  <2>3. Earlier(later, i + 1) = {j + 1 : j \in Earlier(rows, i)}
    <3>1. ASSUME NEW k \in Earlier(later, i + 1)
          PROVE  k \in {j + 1 : j \in Earlier(rows, i)}
      <4>1. k \in 1..(m + 1) /\ Before(later, k, i + 1) /\ k # 1
        BY <1>0, <2>2 DEF Earlier
      <4>2. k - 1 \in 1..m /\ (k - 1) + 1 = k
        BY <1>0, <4>1
      <4>3. Before(rows, k - 1, i)
        BY <2>1, <4>1, <4>2
      <4> QED BY <1>0, <4>2, <4>3 DEF Earlier
    <3>2. ASSUME NEW j \in Earlier(rows, i)
          PROVE  j + 1 \in Earlier(later, i + 1)
      <4>1. j \in 1..m /\ Before(rows, j, i)
        BY <1>0 DEF Earlier
      <4> QED BY <1>0, <2>1, <4>1 DEF Earlier
    <3> QED BY <3>1, <3>2
  <2>4. Earlier(rows, i) \in SUBSET (1..m) /\ IsFiniteSet(1..m)
    BY <1>0, FS_Interval DEF Earlier
  <2>5. IsFiniteSet(Earlier(rows, i))
    BY <2>4, FS_Subset
  <2>6. f \in Bijection(Earlier(rows, i), Earlier(later, i + 1))
    <3>1. f \in Surjection(Earlier(rows, i), Earlier(later, i + 1))
      BY <2>3 DEF Surjection
    <3>2. \A a, b \in Earlier(rows, i) : f[a] = f[b] => a = b
      BY <2>4
    <3> QED BY <3>1, <3>2 DEF Bijection, Injection, Surjection, IsInjective
  <2>7. Cardinality(Earlier(later, i + 1)) = Cardinality(Earlier(rows, i))
    <3>1. ExistsBijection(Earlier(rows, i), Earlier(later, i + 1))
      BY <2>6 DEF ExistsBijection
    <3> QED BY <2>5, <3>1, FS_Bijection
  <2> QED BY <2>7 DEF Place, Earlier
<1>2. ASSUME NEW n \in 1..m
      PROVE  ByTime(later)[n] = ByTime(rows)[n]
  <2>1. PICK i \in 1..m : Place(rows, i) = n
    BY Placed DEF m
  <2>2. ByTime(rows)[n] = rows[i]
    BY <2>1, Sorted DEF m
  <2>3. i + 1 \in 1..Len(later) /\ Place(later, i + 1) = n
    BY <1>0, <1>1, <2>1 DEF m
  <2>4. ByTime(later)[n] = later[i + 1]
    BY <2>3, Sorted
  <2> QED BY <2>2, <2>4 DEF m
<1>3. ByTime(later)[m + 1] = later[1]
  <2>1. m + 1 \in 1..Len(later) /\ Len(later) = m + 1
    BY <1>0 DEF m
  <2>2. PICK i \in 1..Len(later) : Place(later, i) = m + 1
    BY <2>1, Placed
  <2>3. i = 1
    <3> SUFFICES ASSUME i # 1 PROVE FALSE
      OBVIOUS
    <3>1. i - 1 \in 1..m /\ (i - 1) + 1 = i
      BY <1>0, <2>1
    <3>2. Place(later, i) = Place(rows, i - 1) /\ Place(rows, i - 1) \in 1..m
      <4>1. Place(later, i) = Place(rows, i - 1)
        BY <1>1, <3>1
      <4>2. Place(rows, i - 1) \in 1..m
        BY <3>1, Placed DEF m
      <4> QED BY <4>1, <4>2
    <3> QED BY <1>0, <2>2, <3>2
  <2> QED BY <2>2, <2>3, Sorted
<1> QED BY <1>2, <1>3 DEF m

LEMMA LateNewsJoins ==
    ASSUME NEW rows \in Seq(RowOf), NEW later \in Seq(RowOf), Len(later) = Len(rows) + 1,
           \A n \in 1..Len(rows) : later[n + 1] = rows[n],
           \A n \in 1..Len(rows) : RecordTs(rows[n]) < RecordTs(later[1])
    PROVE  Clusters(later) = Attach(Clusters(rows), later[1]) /\ Clusters(rows) \in Seq(Cluster)
<1> DEFINE m == Len(rows)
<1>1. m \in Nat /\ ByTime(rows) \in Seq(RowOf) /\ Len(ByTime(rows)) = m
  BY Sorted
<1>2. ByTime(later) \in Seq(RowOf) /\ Len(ByTime(later)) = m + 1
  BY Sorted
<1>3. (\A n \in 1..m : ByTime(later)[n] = ByTime(rows)[n]) /\ ByTime(later)[m + 1] = later[1]
  BY LatestIsLast
<1> HIDE DEF m
<1>4. Joined(ByTime(later))[m] = Joined(ByTime(rows))[m]
  <2>1. m <= m + 1 /\ m <= m
    BY <1>1
  <2> QED BY <1>1, <1>2, <1>3, <2>1, SamePrefix
<1>5. Joined(ByTime(later))[m + 1] = Attach(Joined(ByTime(later))[m], ByTime(later)[m + 1])
  <2>1. m + 1 \in 1..(m + 1) /\ (m + 1) - 1 = m /\ Len(ByTime(later)) \in Nat
    BY <1>1, <1>2
  <2> QED BY <1>2, <2>1, JoinedSteps
<1>6. Joined(ByTime(rows))[m] \in Seq(Cluster)
  <2>1. m \in 0..Len(ByTime(rows))
    BY <1>1
  <2> QED BY <1>1, <2>1, JoinedType
<1> QED BY <1>3, <1>4, <1>5, <1>6 DEF Clusters, m

\* A record that founds or joins leaves every other cluster as it is.
LEMMA AttachExtends ==
    ASSUME NEW clusters \in Seq(Cluster), NEW r \in RowOf, NEW k \in DOMAIN clusters
    PROVE  \/ Attach(clusters, r)[k] = clusters[k]
           \/ Attach(clusters, r)[k].members = Append(clusters[k].members, r)
<1>1. k \in 1..Len(clusters) /\ Len(clusters) \in Nat
  OBVIOUS
<1>2. CASE Attach(clusters, r) = Append(clusters, Alone(r))
  BY <1>1, <1>2, ClusterTypes
<1>3. ASSUME NEW j \in Near(clusters, r),
             Attach(clusters, r) = [clusters EXCEPT ![j] = Extended(clusters[j], r)]
      PROVE  \/ Attach(clusters, r)[k] = clusters[k]
             \/ Attach(clusters, r)[k].members = Append(clusters[k].members, r)
  BY <1>1, <1>3 DEF Extended
<1> QED BY <1>2, <1>3, AttachCases

\* Among more rows the nearest one is no further away.
LEMMA NoveltyOnlyFalls ==
    ASSUME NEW r \in RowOf, NEW few \in Seq(RowOf), NEW many \in Seq(RowOf),
           \A i \in 1..Len(few) : \E j \in 1..Len(many) : many[j] = few[i]
    PROVE  ResultFrom(r, few).similarity <= ResultFrom(r, many).similarity
<1>1. ResultFrom(r, few).similarity \in Nat /\ ResultFrom(r, many).similarity \in Nat
  BY NearestIsNearest
<1>2. CASE few = <<>>
  <2>1. ResultFrom(r, few).similarity = 0
    BY <1>2, NearestIsNearest
  <2> QED BY <1>1, <2>1
<1>3. CASE few # <<>>
  <2>1. PICK i \in 1..Len(few) : ResultFrom(r, few).similarity = NoveltySimilarity(r, few[i])
    BY <1>3, NearestIsNearest
  <2>2. PICK j \in 1..Len(many) : many[j] = few[i]
    OBVIOUS
  <2>3. NoveltySimilarity(r, many[j]) <= ResultFrom(r, many).similarity
    BY NearestIsNearest
  <2> QED BY <2>1, <2>2, <2>3
<1> QED BY <1>2, <1>3

LEMMA LateNewsNovelty ==
    ASSUME NEW rows \in Seq(RowOf), NEW later \in Seq(RowOf), Len(later) = Len(rows) + 1,
           \A n \in 1..Len(rows) : later[n + 1] = rows[n], NEW n \in 1..Len(rows)
    PROVE  ScoreCorpus(rows)[n].similarity <= ScoreCorpus(later)[n + 1].similarity
<1> DEFINE m == Len(rows)
           few == RemoveAt(rows, n)
           many == RemoveAt(later, n + 1)
<1>1. m \in Nat /\ n \in 1..m /\ n + 1 \in 1..Len(later) /\ later[n + 1] = rows[n] /\ rows[n] \in RowOf
  OBVIOUS
<1>2. few \in Seq(RowOf) /\ Len(few) = m - 1
      /\ \A i \in 1..m - 1 : few[i] = IF i < n THEN rows[i] ELSE rows[i + 1]
  BY RemoveAtDrops
<1>3. many \in Seq(RowOf) /\ Len(many) = m
      /\ \A i \in 1..m : many[i] = IF i < n + 1 THEN later[i] ELSE later[i + 1]
  <2>1. Len(later) - 1 = m
    BY <1>1
  <2>2. many \in Seq(RowOf) /\ Len(many) = Len(later) - 1
        /\ \A i \in 1..Len(later) - 1 : many[i] = IF i < n + 1 THEN later[i] ELSE later[i + 1]
    BY <1>1, RemoveAtDrops
  <2> QED BY <2>1, <2>2
<1>4. ScoreCorpus(rows)[n] = ResultFrom(rows[n], few)
  BY <1>1 DEF ScoreCorpus
<1>5. ScoreCorpus(later)[n + 1] = ResultFrom(rows[n], many)
  BY <1>1 DEF ScoreCorpus
<1> HIDE DEF few, many
<1>6. ASSUME NEW i \in 1..m - 1
      PROVE  many[i + 1] = few[i] /\ i + 1 \in 1..m
  <2>1. i + 1 \in 1..m /\ i \in 1..m
    BY <1>1
  <2>2. CASE i < n
    <3>1. i + 1 < n + 1 /\ later[i + 1] = rows[i]
      BY <1>1, <2>1, <2>2
    <3> QED BY <1>2, <1>3, <2>1, <2>2, <3>1
  <2>3. CASE ~ (i < n)
    <3>1. ~ (i + 1 < n + 1) /\ later[(i + 1) + 1] = rows[i + 1]
      BY <1>1, <2>1, <2>3
    <3> QED BY <1>2, <1>3, <2>1, <2>3, <3>1
  <2> QED BY <2>2, <2>3
<1>7. \A i \in 1..Len(few) : \E j \in 1..Len(many) : many[j] = few[i]
  BY <1>2, <1>3, <1>6
<1> HIDE DEF m
<1> QED BY <1>1, <1>2, <1>3, <1>4, <1>5, <1>7, NoveltyOnlyFalls

\* News later than all the rest joins one cluster at its end, or founds one, and
\* no record is further from its nearest for it: for every table, every window
\* and every threshold.
THEOREM LateNewsCorrect == Spec => LateNewsOnlyExtends
<1>1. TableInv /\ [Next]_vars => [OnlyExtends]_vars
  <2> SUFFICES ASSUME TableInv, Next PROVE OnlyExtends \/ UNCHANGED vars
    BY DEF OnlyExtends
  <2>1. CASE RefreshClusters
    <3>1. table' = table
      BY <2>1 DEF RefreshClusters
    <3> QED BY <3>1 DEF OnlyExtends
  <2>2. ASSUME NEW s \in Shape, Capture(s)
        PROVE  OnlyExtends
    <3> DEFINE rows == table
               later == table'
    <3>1. rows \in Seq(RowOf) /\ later \in Seq(RowOf) /\ Len(later) = Len(rows) + 1
          /\ \A n \in 1..Len(rows) : later[n + 1] = rows[n]
      BY <2>2, CaptureStep DEF TableInv
    <3>2. Head(later) = later[1] /\ later[1] \in RowOf /\ DOMAIN rows = 1..Len(rows)
      BY <3>1
    <3>3. ASSUME \A m \in Range(rows) : RecordTs(m) < RecordTs(later[1]),
                 NEW k \in DOMAIN Clusters(rows)
          PROVE  \/ Clusters(later)[k] = Clusters(rows)[k]
                 \/ Clusters(later)[k].members = Append(Clusters(rows)[k].members, later[1])
      <4>1. \A n \in 1..Len(rows) : RecordTs(rows[n]) < RecordTs(later[1])
        BY <3>2, <3>3 DEF Range
      <4> HIDE DEF rows, later
      <4>2. Clusters(later) = Attach(Clusters(rows), later[1]) /\ Clusters(rows) \in Seq(Cluster)
        BY <3>1, <4>1, LateNewsJoins
      <4> QED BY <3>2, <3>3, <4>2, AttachExtends
    <3>4. ASSUME NEW n \in DOMAIN rows
          PROVE  ScoreCorpus(rows)[n].similarity <= ScoreCorpus(later)[n + 1].similarity
      <4> HIDE DEF rows, later
      <4> QED BY <3>1, <3>2, <3>4, LateNewsNovelty
    <3> QED BY <3>2, <3>3, <3>4 DEF OnlyExtends
  <2> QED BY <2>1, <2>2 DEF Next
<1> QED BY <1>1, TableInit, TableStep, PTL DEF Spec, LateNewsOnlyExtends

-----------------------------------------------------------------------------
(* Every row is in one cluster, and belongs there. *)

\* Nobody joined who was not near the one before, and like one of those before.
Tile(c) ==
    \A n \in DOMAIN c.members \ {1} :
        /\ RecordTs(c.members[n]) \in RecordTs(c.members[n - 1]) .. RecordTs(c.members[n - 1]) + Window
        /\ \E k \in 1 .. n - 1 : PairwiseSimilarity(c.members[k], c.members[n]) >= Threshold

\* The last to join is the newest.
LastIsNewest(c) == c.last = RecordTs(c.members[Len(c.members)])

\* The clusters of the first n rows, when rows come in the order of time.
Tiles(clusters, rows, n) ==
    /\ clusters \in Seq(Cluster)
    /\ \A k \in DOMAIN clusters : Tile(clusters[k]) /\ LastIsNewest(clusters[k])
    /\ \A k \in DOMAIN clusters : \A r \in Range(clusters[k].members) : \E i \in 1..n : r = rows[i]
    /\ \A i \in 1..n : \E k \in DOMAIN clusters : rows[i] \in Range(clusters[k].members)
    /\ \A k, j \in DOMAIN clusters : \A r \in Range(clusters[k].members) :
          r \in Range(clusters[j].members) => k = j

LEMMA AloneTiles ==
    ASSUME NEW r \in RowOf
    PROVE  Tile(Alone(r)) /\ LastIsNewest(Alone(r)) /\ Range(Alone(r).members) = {r}
<1>1. Alone(r).members = <<r>> /\ DOMAIN <<r>> = {1} /\ Len(<<r>>) = 1 /\ <<r>>[1] = r
  BY DEF Alone
<1> QED BY <1>1 DEF Tile, LastIsNewest, Alone, Range

LEMMA ExtendedTiles ==
    ASSUME NEW c \in Cluster, Tile(c), LastIsNewest(c), NEW r \in RowOf, c.last <= RecordTs(r),
           WithinWindow(c, r), Link(c, r) >= Threshold
    PROVE  /\ Tile(Extended(c, r)) /\ LastIsNewest(Extended(c, r))
           /\ Range(Extended(c, r).members) = Range(c.members) \cup {r}
<1> DEFINE m == Len(c.members)
           longer == Append(c.members, r)
<1>1. c.members \in Seq(RowOf) /\ m \in Nat \ {0} /\ c.last \in Nat /\ DOMAIN c.members = 1..m
  BY DEF Cluster
<1>2. longer \in Seq(RowOf) /\ Len(longer) = m + 1 /\ DOMAIN longer = 1..(m + 1)
      /\ longer[m + 1] = r /\ \A n \in 1..m : longer[n] = c.members[n]
  BY <1>1
<1>3. Extended(c, r).members = longer
  BY DEF Extended
<1>4. RecordTs(r) \in Nat /\ c.last = RecordTs(longer[m])
  <2>1. longer[m] = c.members[m]
    BY <1>1, <1>2
  <2> QED BY <2>1, RowTypes DEF LastIsNewest
<1> HIDE DEF longer, m
<1>5. ASSUME NEW n \in DOMAIN longer \ {1}
      PROVE  /\ RecordTs(longer[n]) \in RecordTs(longer[n - 1]) .. RecordTs(longer[n - 1]) + Window
             /\ \E k \in 1 .. n - 1 : PairwiseSimilarity(longer[k], longer[n]) >= Threshold
  <2>1. CASE n = m + 1
    <3>1. n - 1 = m /\ longer[n] = r
      BY <1>1, <1>2, <2>1
    <3>2. RecordTs(r) \in c.last .. c.last + Window
      <4>1. RecordTs(r) - c.last <= Window
        BY DEF WithinWindow
      <4> QED BY <1>1, <1>4, <4>1, ShapeAssumption
    <3>3. PICK k \in 1..m : Link(c, r) = PairwiseSimilarity(c.members[k], r)
      BY LinkIsSimilarity DEF m
    <3>4. PairwiseSimilarity(longer[k], r) >= Threshold
      BY <1>2, <3>3
    <3> QED BY <1>4, <3>1, <3>2, <3>3, <3>4
  <2>2. CASE n # m + 1
    <3>1. n \in 1..m /\ n \in DOMAIN c.members \ {1} /\ n - 1 \in 1..m /\ n \in Nat
      BY <1>1, <1>2, <2>2
    <3>2. longer[n] = c.members[n] /\ longer[n - 1] = c.members[n - 1]
      BY <1>2, <3>1
    <3>3. PICK k \in 1 .. n - 1 : PairwiseSimilarity(c.members[k], c.members[n]) >= Threshold
      BY <3>1 DEF Tile
    <3>4. k \in 1..m /\ longer[k] = c.members[k]
      BY <1>1, <1>2, <3>1, <3>3
    <3>5. RecordTs(c.members[n]) \in RecordTs(c.members[n - 1]) .. RecordTs(c.members[n - 1]) + Window
      BY <3>1 DEF Tile
    <3> QED BY <3>2, <3>3, <3>4, <3>5
  <2> QED BY <2>1, <2>2
<1>6. LastIsNewest(Extended(c, r))
  <2>1. Extended(c, r).last = RecordTs(r)
    BY <1>1, <1>4 DEF Extended
  <2> QED BY <1>2, <1>3, <2>1 DEF LastIsNewest
<1>7. Range(longer) = Range(c.members) \cup {r}
  <2>1. ASSUME NEW n \in 1..(m + 1)
        PROVE  longer[n] \in Range(c.members) \cup {r}
    <3>1. n = m + 1 \/ n \in 1..m
      BY <1>1
    <3> QED BY <1>1, <1>2, <3>1 DEF Range
  <2>2. ASSUME NEW n \in 1..m
        PROVE  c.members[n] \in Range(longer)
    <3>1. n \in 1..(m + 1)
      BY <1>1
    <3> QED BY <1>2, <3>1 DEF Range
  <2>3. r \in Range(longer)
    <3>1. m + 1 \in 1..(m + 1)
      BY <1>1
    <3> QED BY <1>2, <3>1 DEF Range
  <2> QED BY <1>1, <1>2, <2>1, <2>2, <2>3 DEF Range
<1> QED BY <1>3, <1>5, <1>6, <1>7 DEF Tile

\* The next row in the order of time finds its place.
LEMMA AttachTiles ==
    ASSUME NEW rows \in Seq(RowOf), NEW n \in Nat, n + 1 <= Len(rows),
           NEW clusters, Tiles(clusters, rows, n),
           \A i \in 1..n : RecordTs(rows[i]) <= RecordTs(rows[n + 1]) /\ rows[i] # rows[n + 1]
    PROVE  Tiles(Attach(clusters, rows[n + 1]), rows, n + 1)
<1> DEFINE r == rows[n + 1]
           after == Attach(clusters, r)
<1>1. r \in RowOf /\ \A i \in 1..(n + 1) : i = n + 1 \/ i \in 1..n
  OBVIOUS
<1>2. clusters \in Seq(Cluster) /\ Len(clusters) \in Nat /\ DOMAIN clusters = 1..Len(clusters)
      /\ \A k \in DOMAIN clusters : clusters[k] \in Cluster
  BY DEF Tiles
<1>3. after \in Seq(Cluster)
  BY <1>1, <1>2, AttachType
<1>4. \A k \in DOMAIN clusters : /\ r \notin Range(clusters[k].members)
                                  /\ clusters[k].last <= RecordTs(r)
  <2> SUFFICES ASSUME NEW k \in DOMAIN clusters
               PROVE  r \notin Range(clusters[k].members) /\ clusters[k].last <= RecordTs(r)
    OBVIOUS
  <2>1. r \notin Range(clusters[k].members)
    <3>1. \A x \in Range(clusters[k].members) : \E i \in 1..n : x = rows[i]
      BY DEF Tiles
    <3>2. \A i \in 1..n : rows[i] # r
      OBVIOUS
    <3> HIDE DEF r
    <3> QED BY <3>1, <3>2
  <2>2. clusters[k].members[Len(clusters[k].members)] \in Range(clusters[k].members)
    <3>1. clusters[k].members \in Seq(RowOf) /\ clusters[k].members # <<>>
      BY <1>2 DEF Cluster
    <3>2. Len(clusters[k].members) \in DOMAIN clusters[k].members
      BY <3>1
    <3> QED BY <3>2 DEF Range
  <2>3. PICK i \in 1..n : clusters[k].members[Len(clusters[k].members)] = rows[i]
    BY <2>2 DEF Tiles
  <2> QED BY <2>1, <2>3 DEF Tiles, LastIsNewest
<1> HIDE DEF r, after
<1>5. CASE after = Append(clusters, Alone(r))
  <2> DEFINE m == Len(clusters)
  <2>1. DOMAIN after = 1..(m + 1) /\ after[m + 1] = Alone(r)
        /\ \A k \in 1..m : after[k] = clusters[k]
    BY <1>1, <1>2, <1>5, ClusterTypes
  <2>2. \A k \in DOMAIN after : k = m + 1 \/ k \in DOMAIN clusters
    BY <1>2, <2>1
  <2>3. m + 1 \in DOMAIN after /\ DOMAIN clusters \subseteq DOMAIN after /\ m + 1 \notin DOMAIN clusters
    BY <1>2, <2>1
  <2>4. \A k \in DOMAIN clusters : after[k] = clusters[k]
    BY <1>2, <2>1
  <2>5. Tile(Alone(r)) /\ LastIsNewest(Alone(r)) /\ Range(Alone(r).members) = {r}
    BY <1>1, AloneTiles
  <2> HIDE DEF m
  <2>6. \A k \in DOMAIN after : Tile(after[k]) /\ LastIsNewest(after[k])
    BY <2>1, <2>2, <2>4, <2>5 DEF Tiles
  <2>7. ASSUME NEW k \in DOMAIN after, NEW x \in Range(after[k].members)
        PROVE  \E i \in 1..(n + 1) : x = rows[i]
    <3>1. CASE k = m + 1
      BY <2>1, <2>5, <3>1 DEF r
    <3>2. CASE k \in DOMAIN clusters
      <4>0. x \in Range(clusters[k].members)
        BY <2>4, <3>2
      <4>1. PICK i \in 1..n : x = rows[i]
        BY <3>2, <4>0 DEF Tiles
      <4>2. i \in 1..(n + 1)
        OBVIOUS
      <4> QED BY <4>1, <4>2
    <3> QED BY <2>2, <3>1, <3>2
  <2>8. ASSUME NEW i \in 1..(n + 1)
        PROVE  \E k \in DOMAIN after : rows[i] \in Range(after[k].members)
    <3>1. CASE i = n + 1
      BY <2>1, <2>3, <2>5, <3>1 DEF r
    <3>2. CASE i \in 1..n
      <4>1. PICK k \in DOMAIN clusters : rows[i] \in Range(clusters[k].members)
        BY <3>2 DEF Tiles
      <4> QED BY <2>3, <2>4, <4>1
    <3> QED BY <1>1, <3>1, <3>2
  <2>9. ASSUME NEW k \in DOMAIN after, NEW j \in DOMAIN after, NEW x \in Range(after[k].members),
               x \in Range(after[j].members)
        PROVE  k = j
    <3>1. CASE k = m + 1 /\ j \in DOMAIN clusters
      BY <1>4, <2>1, <2>4, <2>5, <2>9, <3>1
    <3>2. CASE j = m + 1 /\ k \in DOMAIN clusters
      BY <1>4, <2>1, <2>4, <2>5, <2>9, <3>2
    <3>3. CASE k \in DOMAIN clusters /\ j \in DOMAIN clusters
      BY <2>4, <2>9, <3>3 DEF Tiles
    <3> QED BY <2>2, <3>1, <3>2, <3>3
  <2> QED BY <1>3, <2>6, <2>7, <2>8, <2>9 DEF Tiles, after, r
<1>6. ASSUME NEW b \in Near(clusters, r),
             after = [clusters EXCEPT ![b] = Extended(clusters[b], r)]
      PROVE  Tiles(after, rows, n + 1)
  <2>1. /\ b \in DOMAIN clusters /\ DOMAIN after = DOMAIN clusters
        /\ after[b] = Extended(clusters[b], r)
        /\ \A k \in DOMAIN clusters : k # b => after[k] = clusters[k]
    BY <1>2, <1>6 DEF Near
  <2>2. /\ Tile(after[b]) /\ LastIsNewest(after[b])
        /\ Range(after[b].members) = Range(clusters[b].members) \cup {r}
    <3>1. WithinWindow(clusters[b], r) /\ Link(clusters[b], r) >= Threshold
      BY DEF Near
    <3>2. Tile(clusters[b]) /\ LastIsNewest(clusters[b]) /\ clusters[b] \in Cluster
      BY <1>2, <2>1 DEF Tiles
    <3> QED BY <1>1, <1>4, <2>1, <3>1, <3>2, ExtendedTiles
  <2>3. \A k \in DOMAIN after : Tile(after[k]) /\ LastIsNewest(after[k])
    BY <2>1, <2>2 DEF Tiles
  <2>4. ASSUME NEW k \in DOMAIN after, NEW x \in Range(after[k].members)
        PROVE  \E i \in 1..(n + 1) : x = rows[i]
    <3>1. CASE x = r
      BY <3>1 DEF r
    <3>2. CASE x # r
      <4>1. x \in Range(clusters[k].members)
        BY <2>1, <2>2, <3>2
      <4>2. PICK i \in 1..n : x = rows[i]
        BY <2>1, <4>1 DEF Tiles
      <4>3. i \in 1..(n + 1)
        OBVIOUS
      <4> QED BY <4>2, <4>3
    <3> QED BY <3>1, <3>2
  <2>5. ASSUME NEW i \in 1..(n + 1)
        PROVE  \E k \in DOMAIN after : rows[i] \in Range(after[k].members)
    <3>1. CASE i = n + 1
      BY <2>1, <2>2, <3>1 DEF r
    <3>2. CASE i \in 1..n
      <4>1. PICK k \in DOMAIN clusters : rows[i] \in Range(clusters[k].members)
        BY <3>2 DEF Tiles
      <4> QED BY <2>1, <2>2, <4>1
    <3> QED BY <1>1, <3>1, <3>2
  <2>6. ASSUME NEW k \in DOMAIN after, NEW j \in DOMAIN after, NEW x \in Range(after[k].members),
               x \in Range(after[j].members)
        PROVE  k = j
    <3>1. CASE x = r
      BY <1>4, <2>1, <2>6, <3>1
    <3>2. CASE x # r
      <4>1. x \in Range(clusters[k].members) /\ x \in Range(clusters[j].members)
        BY <2>1, <2>2, <2>6, <3>2
      <4> QED BY <2>1, <4>1 DEF Tiles
    <3> QED BY <3>1, <3>2
  <2> QED BY <1>3, <2>3, <2>4, <2>5, <2>6 DEF Tiles, after, r
<1> QED BY <1>1, <1>2, <1>5, <1>6, AttachCases DEF after, r

LEMMA ClustersAreTiles ==
    ASSUME NEW rows \in Seq(RowOf), \A i, j \in 1..Len(rows) : rows[i] = rows[j] => i = j
    PROVE  Tiles(Clusters(rows), ByTime(rows), Len(rows))
<1> DEFINE s == ByTime(rows)
           m == Len(rows)
           S == {n \in Nat : n <= m => Tiles(Joined(s)[n], s, n)}
<1>1. s \in Seq(RowOf) /\ Len(s) = m /\ m \in Nat
  BY Sorted
<1>2. ASSUME NEW a \in 1..m, NEW b \in 1..m, a < b
      PROVE  RecordTs(s[a]) <= RecordTs(s[b]) /\ s[a] # s[b]
  <2>1. RecordTs(s[a]) <= RecordTs(s[b])
    <3>1. a <= b
      BY <1>2
    <3> QED BY <3>1, Sorted
  <2>2. PICK i \in 1..m, j \in 1..m : Place(rows, i) = a /\ Place(rows, j) = b
    BY Placed
  <2>3. s[a] = rows[i] /\ s[b] = rows[j] /\ i # j
    BY <1>2, <2>2, Sorted
  <2> QED BY <2>1, <2>3
<1> HIDE DEF s, m
<1>3. 0 \in S
  <2>1. Joined(s)[0] = <<>> /\ <<>> \in Seq(Cluster) /\ DOMAIN <<>> = {} /\ 1..0 = {}
    BY <1>1, JoinedSteps
  <2>2. Tiles(<<>>, s, 0)
    BY <2>1 DEF Tiles
  <2> QED BY <2>1, <2>2
<1>4. ASSUME NEW n \in Nat, n \in S
      PROVE  n + 1 \in S
  <2> SUFFICES ASSUME n + 1 <= m PROVE Tiles(Joined(s)[n + 1], s, n + 1)
    OBVIOUS
  <2>1. n + 1 \in 1..Len(s) /\ (n + 1) - 1 = n /\ n <= m /\ n + 1 <= Len(s)
    BY <1>1
  <2>2. Joined(s)[n + 1] = Attach(Joined(s)[n], s[n + 1])
    BY <1>1, <2>1, JoinedSteps
  <2>3. Tiles(Joined(s)[n], s, n)
    BY <1>4, <2>1
  <2>4. \A i \in 1..n : RecordTs(s[i]) <= RecordTs(s[n + 1]) /\ s[i] # s[n + 1]
    <3>1. \A i \in 1..n : i \in 1..m /\ i < n + 1
      BY <1>1, <2>1
    <3>2. n + 1 \in 1..m
      BY <1>1, <2>1
    <3> QED BY <1>2, <3>1, <3>2
  <2> QED BY <1>1, <2>1, <2>2, <2>3, <2>4, AttachTiles
<1> HIDE DEF S
<1>5. \A n \in Nat : n \in S
  BY <1>3, <1>4, SetInduction
<1>6. Tiles(Joined(s)[m], s, m)
  BY <1>1, <1>5 DEF S
<1> QED BY <1>6 DEF Clusters, s, m

\* Every row of the report is in one cluster only, and belongs there: for every
\* table, however its times and texts fall, every window and every threshold.
THEOREM ClustersCorrect == Spec => []ClustersTile
<1>1. TableInv => ClustersTile
  <2> SUFFICES ASSUME TableInv PROVE ClustersTile
    OBVIOUS
  <2> DEFINE rows == Recent
             clusters == Clusters(rows)
  <2>1. rows \in Seq(RowOf) /\ Len(rows) \in Nat /\ DOMAIN rows = 1..Len(rows)
    BY RecentRows
  <2>2. \A i, j \in 1..Len(rows) : rows[i] = rows[j] => i = j
    BY RecentRows
  <2> HIDE DEF rows
  <2>3. Tiles(clusters, ByTime(rows), Len(rows))
    BY <2>1, <2>2, ClustersAreTiles
  <2> HIDE DEF clusters
  <2>4. ASSUME NEW r \in Range(rows)
        PROVE  Cardinality({k \in DOMAIN clusters : r \in Range(clusters[k].members)}) = 1
    <3>1. PICK i \in 1..Len(rows) : r = rows[i]
      BY <2>1 DEF Range
    <3>2. Place(rows, i) \in 1..Len(rows) /\ ByTime(rows)[Place(rows, i)] = r
      BY <2>1, <3>1, Placed, Sorted
    <3>3. PICK k \in DOMAIN clusters : r \in Range(clusters[k].members)
      BY <2>3, <3>2 DEF Tiles
    <3>4. {j \in DOMAIN clusters : r \in Range(clusters[j].members)} = {k}
      <4>1. \A j \in DOMAIN clusters : r \in Range(clusters[j].members) => j = k
        BY <2>3, <3>3 DEF Tiles
      <4> QED BY <3>3, <4>1
    <3> QED BY <3>4, FS_Singleton
  <2>5. ASSUME NEW c \in Range(clusters)
        PROVE  Tile(c) /\ DOMAIN c.members = 1..Len(c.members) /\ Len(c.members) \in Nat
    <3>1. PICK k \in DOMAIN clusters : c = clusters[k]
      BY DEF Range
    <3>2. clusters \in Seq(Cluster) /\ Tile(c)
      BY <2>3, <3>1 DEF Tiles
    <3>3. c \in Cluster
      BY <3>1, <3>2
    <3> QED BY <3>2, <3>3 DEF Cluster
  <2>6. ASSUME NEW c \in Range(clusters), NEW n \in DOMAIN c.members \ {1}
        PROVE  /\ n - 1 \in DOMAIN c.members
               /\ RecordTs(c.members[n]) \in RecordTs(c.members[n - 1]) .. RecordTs(c.members[n - 1]) + Window
               /\ \E k \in 1 .. n - 1 : PairwiseSimilarity(c.members[k], c.members[n]) >= Threshold
    <3>1. n \in 1..Len(c.members) /\ n # 1 /\ Tile(c) /\ Len(c.members) \in Nat
          /\ DOMAIN c.members = 1..Len(c.members)
      BY <2>5
    <3>2. n - 1 \in 1..Len(c.members)
      BY <3>1
    <3> QED BY <3>1, <3>2 DEF Tile
  <2> QED BY <2>4, <2>6 DEF ClustersTile, clusters, rows
<1> QED BY <1>1, TableInit, TableStep, PTL DEF Spec

-----------------------------------------------------------------------------
(* Lead and lag. *)

\* A set of rows has one that was there before the rest, and of those of its time
\* the one captured first.
LEMMA LeaderExists ==
    ASSUME NEW members \in SUBSET RowOf, IsFiniteSet(members), members # {}
    PROVE  /\ Leader(members) \in members
           /\ \A m \in members : RecordTs(Leader(members)) <= RecordTs(m)
<1> DEFINE R == {p \in members \X members :
                    \/ RecordTs(p[1]) < RecordTs(p[2])
                    \/ RecordTs(p[1]) = RecordTs(p[2]) /\ p[1].id < p[2].id}
<1>1. \A x, y \in members :
          <<x, y>> \in R <=> RecordTs(x) < RecordTs(y) \/ (RecordTs(x) = RecordTs(y) /\ x.id < y.id)
  OBVIOUS
<1>2. \A x \in members : x.id \in Nat /\ RecordTs(x) \in Nat
  BY RowTypes
<1> HIDE DEF R
<1>3. \A x \in members : <<x, x>> \notin R
  BY <1>1, <1>2
<1>4. \A x, y, z \in members : <<x, y>> \in R /\ <<y, z>> \in R => <<x, z>> \in R
  BY <1>1, <1>2
<1>5. PICK x \in members : \A y \in members : <<y, x>> \notin R
  BY <1>3, <1>4, SomethingIsFirst
<1>6. \A m \in members :
          RecordTs(x) < RecordTs(m) \/ (RecordTs(x) = RecordTs(m) /\ x.id <= m.id)
  <2> TAKE m \in members
  <2>1. ~ (RecordTs(m) < RecordTs(x)) /\ ~ (RecordTs(m) = RecordTs(x) /\ m.id < x.id)
    BY <1>1, <1>5
  <2>2. m.id \in Nat /\ RecordTs(m) \in Nat /\ x.id \in Nat /\ RecordTs(x) \in Nat
    BY <1>2
  <2> QED BY <2>1, <2>2
<1>7. /\ Leader(members) \in members
      /\ \A m \in members :
            \/ RecordTs(Leader(members)) < RecordTs(m)
            \/ RecordTs(Leader(members)) = RecordTs(m) /\ Leader(members).id <= m.id
  BY <1>6 DEF Leader
<1> QED BY <1>2, <1>7

\* What the report says of an event whose rows are in sight, some of them.
IsReport(e) ==
    /\ e.resolved \in SUBSET RowOf /\ IsFiniteSet(e.resolved)
    /\ e.resolved # {} =>
          /\ e.leader \in e.resolved
          /\ \A r \in e.resolved : RecordTs(e.leader) <= RecordTs(r)
          /\ DOMAIN e.lag = SeenIn(e) \ {e.leader.domain}
          /\ \A d \in DOMAIN e.lag : e.lag[d] >= 0

LEMMA EventReport ==
    ASSUME TableInv, NEW e
    PROVE  IsReport(PerEvent(e, Recent))
<1> DEFINE rows == Recent
           members == {r \in Range(rows) : r.id \in Range(e.captures)}
           leader == Leader(members)
           followers == {r.domain : r \in members} \ {leader.domain}
           Lags(d) == {RecordTs(m) - RecordTs(leader) : m \in {r \in members : r.domain = d}}
           report == [resolved |-> members, leader |-> leader, lag |-> [d \in followers |-> Min(Lags(d))]]
<1>0. members \in SUBSET RowOf /\ IsFiniteSet(members)
  <2>1. rows \in Seq(RowOf) /\ Len(rows) \in Nat
    BY RecentRows
  <2> HIDE DEF rows
  <2>2. Range(rows) = {rows[n] : n \in 1..Len(rows)}
    BY <2>1 DEF Range
  <2>3. IsFiniteSet(1..Len(rows))
    BY <2>1, FS_Interval
  <2>4. IsFiniteSet(Range(rows))
    <3> DEFINE D == 1..Len(rows)
    <3>1. IsFiniteSet({rows[n] : n \in D})
      <4> HIDE DEF D, rows
      <4> QED BY <2>3, ImageIsFinite DEF D
    <3> QED BY <2>2, <3>1
  <2>5. Range(rows) \subseteq RowOf
    BY <2>1, <2>2
  <2> QED BY <2>4, <2>5, FS_Subset
<1>a. members = {} => IsReport(PerEvent(e, rows))
  <2>1. members = {} => PerEvent(e, rows) = [resolved |-> {}]
    BY DEF PerEvent
  <2>2. IsReport([resolved |-> {}])
    BY FS_EmptySet DEF IsReport
  <2> QED BY <2>1, <2>2
<1> SUFFICES ASSUME members # {} PROVE IsReport(PerEvent(e, Recent))
  BY <1>a DEF rows
<1>1. members # {} /\ PerEvent(e, rows) = report
  BY DEF PerEvent
<1>2. members \in SUBSET RowOf /\ IsFiniteSet(members)
  BY <1>0
<1> HIDE DEF members
<1>3. leader \in members /\ \A m \in members : RecordTs(leader) <= RecordTs(m)
  BY <1>1, <1>2, LeaderExists
<1> HIDE DEF leader
<1>4. ASSUME NEW d \in followers
      PROVE  Min(Lags(d)) >= 0
  <2> DEFINE of == {r \in members : r.domain = d}
  <2>1. of # {} /\ IsFiniteSet(of)
    BY <1>2, FS_Subset
  <2>2. \A m \in members : RecordTs(m) \in Nat
    BY <1>2, RowTypes
  <2>3. \A x \in Lags(d) : x \in Int /\ x >= 0
    BY <1>3, <2>2
  <2>4. Lags(d) # {} /\ IsFiniteSet(Lags(d))
    <3> HIDE DEF of
    <3>1. of # {} /\ IsFiniteSet(of)
      BY <2>1
    <3>2. Lags(d) = {RecordTs(m) - RecordTs(leader) : m \in of}
      BY DEF of
    <3> DEFINE lag == [m \in of |-> RecordTs(m) - RecordTs(leader)]
    <3>3. {RecordTs(m) - RecordTs(leader) : m \in of} = {lag[m] : m \in of}
      OBVIOUS
    <3> HIDE DEF lag, Lags
    <3>4. IsFiniteSet({lag[m] : m \in of})
      BY <3>1, ImageIsFinite
    <3>5. Lags(d) # {}
      <4>1. PICK m \in of : TRUE
        BY <3>1
      <4> QED BY <3>2
    <3> QED BY <3>2, <3>3, <3>4, <3>5
  <2> HIDE DEF Lags
  <2>5. Min(Lags(d)) \in Lags(d)
    BY <2>3, <2>4, Extremes
  <2> QED BY <2>3, <2>5
<1>5. /\ report.resolved = members /\ report.leader = leader /\ DOMAIN report.lag = followers
      /\ \A d \in followers : report.lag[d] = Min(Lags(d))
  OBVIOUS
<1>6. \A d \in followers : d # leader.domain
  OBVIOUS
<1> HIDE DEF report, followers, Lags
<1>7. PerEvent(e, Recent) = report
  BY <1>1 DEF rows
<1>8. SeenIn(report) \ {leader.domain} = followers
  BY <1>5 DEF followers, SeenIn
<1> QED BY <1>2, <1>3, <1>4, <1>5, <1>6, <1>7, <1>8 DEF IsReport

\* In every event somebody leads, and was there first: for clusters of any age.
THEOREM LeadersCorrect == Spec => []LeadersAreFirst
<1>1. TableInv => LeadersAreFirst
  <2> SUFFICES ASSUME TableInv, NEW e \in events, PerEvent(e, Recent).resolved # {}
               PROVE  LET report == PerEvent(e, Recent)
                      IN  /\ \A r \in report.resolved : RecordTs(report.leader) <= RecordTs(r)
                          /\ \A d \in DOMAIN report.lag : d # report.leader.domain /\ report.lag[d] >= 0
    BY DEF LeadersAreFirst, LeadLag
  <2> DEFINE report == PerEvent(e, Recent)
  <2>1. IsReport(report)
    BY EventReport
  <2> HIDE DEF report
  <2>2. report.resolved # {}
    BY DEF report
  <2>3. /\ \A r \in report.resolved : RecordTs(report.leader) <= RecordTs(r)
        /\ \A d \in DOMAIN report.lag : d # report.leader.domain /\ report.lag[d] >= 0
    BY <2>1, <2>2 DEF IsReport
  <2> QED BY <2>3 DEF report
<1> QED BY <1>1, TableInit, TableStep, PTL DEF Spec

-----------------------------------------------------------------------------
(* The ranking of sources. *)

\* A pass makes at most one cluster of every row.
LEMMA JoinedLength ==
    ASSUME NEW rows \in Seq(RowOf)
    PROVE  \A n \in 0..Len(rows) : Len(Joined(rows)[n]) <= n
<1> DEFINE S == {n \in Nat : n <= Len(rows) => Len(Joined(rows)[n]) <= n}
<1>0. Len(rows) \in Nat
  OBVIOUS
<1>1. 0 \in S
  <2>1. Joined(rows)[0] = <<>> /\ Len(<<>>) = 0
    BY <1>0, JoinedSteps
  <2> QED BY <2>1
<1>2. ASSUME NEW n \in Nat, n \in S
      PROVE  n + 1 \in S
  <2> SUFFICES ASSUME n + 1 <= Len(rows) PROVE Len(Joined(rows)[n + 1]) <= n + 1
    OBVIOUS
  <2>1. n + 1 \in 1..Len(rows) /\ (n + 1) - 1 = n /\ n <= Len(rows) /\ n \in 0..Len(rows)
    BY <1>0
  <2> DEFINE clusters == Joined(rows)[n]
             r == rows[n + 1]
  <2>2. Joined(rows)[n + 1] = Attach(clusters, r)
    BY <1>0, <2>1, JoinedSteps
  <2>3. clusters \in Seq(Cluster) /\ r \in RowOf /\ Len(clusters) <= n
    BY <1>2, <2>1, JoinedType
  <2> HIDE DEF clusters, r
  <2>4. CASE Attach(clusters, r) = Append(clusters, Alone(r))
    BY <2>2, <2>3, <2>4
  <2>5. ASSUME NEW k \in Near(clusters, r),
               Attach(clusters, r) = [clusters EXCEPT ![k] = Extended(clusters[k], r)]
        PROVE  Len(Joined(rows)[n + 1]) <= n + 1
    <3>1. Len([clusters EXCEPT ![k] = Extended(clusters[k], r)]) = Len(clusters)
      BY <2>3
    <3> QED BY <2>2, <2>3, <2>5, <3>1
  <2> QED BY <2>3, <2>4, <2>5, AttachCases
<1> HIDE DEF S
<1>3. \A n \in Nat : n \in S
  BY <1>1, <1>2, SetInduction
<1> QED BY <1>0, <1>3 DEF S

\* The engine holds no more clusters than a signal reads rows.
FewEvents == IsFiniteSet(events) /\ Cardinality(events) <= Limit

LEMMA FewClusters ==
    ASSUME TableInv
    PROVE  IsFiniteSet(ClusterRecords(Recent)) /\ Cardinality(ClusterRecords(Recent)) <= Limit
<1> DEFINE rows == Recent
           clusters == Clusters(rows)
           kept == Surviving(rows)
           event == [c \in kept |-> Event(c)]
<1>1. rows \in Seq(RowOf) /\ Len(rows) \in Nat /\ Len(rows) <= Limit
  <2>1. Len(table) \in Nat /\ Limit \in Nat
    BY ShapeAssumption DEF TableInv
  <2>2. Len(SubSeq(table, 1, IF Len(table) < Limit THEN Len(table) ELSE Limit)) <= Limit
    BY <2>1 DEF TableInv
  <2>3. Len(Recent) <= Limit
    BY <2>2 DEF Recent
  <2> QED BY <2>1, <2>3, RecentRows
<1> HIDE DEF rows
<1>2. clusters \in Seq(Cluster) /\ Len(clusters) <= Len(rows)
  <2>1. ByTime(rows) \in Seq(RowOf) /\ Len(ByTime(rows)) = Len(rows)
    BY <1>1, Sorted
  <2>2. Len(rows) \in 0..Len(rows)
    BY <1>1
  <2>3. Joined(ByTime(rows))[Len(rows)] \in Seq(Cluster) /\ Len(Joined(ByTime(rows))[Len(rows)]) <= Len(rows)
    BY <2>1, <2>2, JoinedType, JoinedLength
  <2> QED BY <2>3 DEF Clusters
<1> HIDE DEF clusters
<1>3. Len(clusters) \in Nat /\ DOMAIN clusters = 1..Len(clusters)
  BY <1>2
<1>4. IsFiniteSet(Range(clusters)) /\ Cardinality(Range(clusters)) <= Len(clusters)
  BY <1>3, RangeIsFinite
<1>5. kept \in SUBSET Range(clusters)
  BY DEF Surviving, clusters
<1>6. IsFiniteSet(kept) /\ Cardinality(kept) <= Cardinality(Range(clusters))
  BY <1>4, <1>5, FS_Subset
<1>7. ClusterRecords(rows) = {event[c] : c \in kept}
  BY DEF ClusterRecords
<1> HIDE DEF kept, event
<1>8. IsFiniteSet({event[c] : c \in kept}) /\ Cardinality({event[c] : c \in kept}) <= Cardinality(kept)
  BY <1>6, ImageIsFinite
<1>9. Cardinality({event[c] : c \in kept}) \in Nat /\ Cardinality(kept) \in Nat
      /\ Cardinality(Range(clusters)) \in Nat /\ Limit \in Nat
  BY <1>4, <1>6, <1>8, FS_CardinalityType, ShapeAssumption
<1>10. Cardinality({event[c] : c \in kept}) <= Limit
  BY <1>1, <1>2, <1>3, <1>4, <1>6, <1>8, <1>9
<1> QED BY <1>7, <1>8, <1>10 DEF rows

LEMMA EventsInit == Init => FewEvents
BY FS_EmptySet, ShapeAssumption DEF Init, FewEvents

LEMMA EventsStep == TableInv /\ FewEvents /\ [Next]_vars => FewEvents'
<1> SUFFICES ASSUME TableInv, FewEvents, [Next]_vars PROVE FewEvents'
  OBVIOUS
<1>1. CASE UNCHANGED events
  BY <1>1 DEF FewEvents
<1>2. CASE RefreshClusters
  BY <1>2, FewClusters DEF FewEvents, RefreshClusters
<1> QED BY <1>1, <1>2 DEF Next, Capture, vars

\* Whom a set of reports says to have taken part, and to have led.
TookPart(d, reports) == {e \in reports : d \in SeenIn(e)}
WhereLed(d, reports) == {e \in reports : e.resolved # {} /\ e.leader.domain = d}
Everyone(reports) == UNION {SeenIn(e) : e \in reports}

AreReports(reports) ==
    /\ IsFiniteSet(reports) /\ Cardinality(reports) <= Limit
    /\ \A e \in reports : IsReport(e)

\* Who took part once either led or followed; a score is above nothing exactly when
\* something was led.
LEMMA ScoreFields ==
    ASSUME NEW reports, AreReports(reports), NEW d \in Everyone(reports)
    PROVE  LET s == SourceScore(d, reports)
           IN  /\ s.domain = d
               /\ s.led = Cardinality(WhereLed(d, reports)) /\ s.led \in Nat
               /\ s.participated = Cardinality(TookPart(d, reports)) /\ s.participated \in Nat
               /\ s.participated = s.led + s.following.n
               /\ s.score \in Nat
               /\ s.led > 0 <=> s.score > 0
<1> DEFINE s == SourceScore(d, reports)
           resolved == {e \in reports : e.resolved # {}}
           participated == {e \in resolved : d \in SeenIn(e)}
           led == {e \in resolved : e.leader.domain = d}
           followed == {e \in resolved : d \in DOMAIN e.lag}
           l == Cardinality(led)
           p == Cardinality(participated)
           f == Cardinality(followed)
<1>1. /\ s.domain = d /\ s.led = l /\ s.participated = p /\ s.following.n = f
      /\ s.score = CompositeScore(l, p)
  BY DEF SourceScore
<1>2. /\ participated = TookPart(d, reports) /\ led = WhereLed(d, reports)
      /\ participated = led \cup followed /\ led \cap followed = {}
      /\ participated # {}
  <2>1. \A e \in resolved : /\ DOMAIN e.lag = SeenIn(e) \ {e.leader.domain}
                            /\ e.leader.domain \in SeenIn(e)
    BY DEF AreReports, IsReport, SeenIn
  <2>2. \A e \in reports : d \in SeenIn(e) => e.resolved # {}
    BY DEF SeenIn
  <2>3. PICK e \in reports : d \in SeenIn(e)
    BY DEF Everyone
  <2>4. participated = TookPart(d, reports)
    BY <2>2 DEF TookPart
  <2>5. led = WhereLed(d, reports)
    BY DEF WhereLed
  <2>6. participated = led \cup followed
    BY <2>1
  <2>7. led \cap followed = {}
    BY <2>1
  <2> QED BY <2>2, <2>3, <2>4, <2>5, <2>6, <2>7
<1>3. IsFiniteSet(led) /\ IsFiniteSet(followed) /\ IsFiniteSet(participated)
      /\ l <= Cardinality(reports)
  <2>1. led \in SUBSET reports /\ followed \in SUBSET reports /\ participated \in SUBSET reports
    OBVIOUS
  <2> HIDE DEF led, followed, participated
  <2> QED BY <2>1, FS_Subset DEF AreReports, l
<1> HIDE DEF s, led, followed, participated, resolved
<1>4. l \in Nat /\ f \in Nat /\ p \in Nat /\ Cardinality(reports) \in Nat /\ Limit \in Nat
      /\ Cardinality(reports) <= Limit
  BY <1>3, FS_CardinalityType, ShapeAssumption DEF AreReports
<1>5. p = l + f
  <2>1. Cardinality(led \cup followed) = l + f - Cardinality(led \cap followed)
    BY <1>3, FS_Union
  <2>2. Cardinality(led \cap followed) = 0
    BY <1>2, FS_EmptySet
  <2> QED BY <1>2, <1>4, <2>1, <2>2
<1>6. p # 0
  BY <1>2, <1>3, FS_EmptySet
<1> HIDE DEF l, p, f
<1>7. l \in 0..Limit
  BY <1>3, <1>4
<1>8. Log10[l] \in Nat /\ (l = 0 => Log10[l] = 0) /\ (l > 0 => Log10[l] > 0)
  <2>1. Log10 \in [0..Limit -> Nat] /\ Log10[0] = 0 /\ \A n \in 1..Limit : Log10[n] > 0
    BY LogarithmAssumption
  <2>2. l > 0 => l \in 1..Limit
    BY <1>4, <1>7
  <2> QED BY <1>7, <2>1, <2>2
<1>9. (60000 * l) \div p \in Nat /\ (l = 0 => (60000 * l) \div p = 0)
  <2>1. 60000 * l \in Nat /\ (l = 0 => 60000 * l = 0)
    BY <1>4
  <2> DEFINE a == 60000 * l
  <2> HIDE DEF a
  <2>2. a \in Nat /\ (l = 0 => a = 0) /\ p \in Nat /\ p > 0
    BY <1>4, <1>6, <2>1 DEF a
  <2>3. a \div p \in Nat /\ (a = 0 => a \div p = 0)
    BY <2>2
  <2> QED BY <2>2, <2>3 DEF a
<1>10. CompositeScore(l, p) \in Nat /\ (l > 0 <=> CompositeScore(l, p) > 0)
  <2> DEFINE a == (60000 * l) \div p
             b == IF Log10[l] < 20000 THEN 2 * Log10[l] ELSE 40000
  <2>1. CompositeScore(l, p) = a + b
    BY DEF CompositeScore
  <2>2. b \in Nat /\ (l > 0 <=> b > 0)
    BY <1>4, <1>8
  <2>3. a \in Nat /\ (l = 0 => a = 0)
    BY <1>9
  <2> HIDE DEF a, b
  <2> QED BY <1>4, <2>1, <2>2, <2>3
<1>11. s.led = Cardinality(WhereLed(d, reports)) /\ s.participated = Cardinality(TookPart(d, reports))
  BY <1>1, <1>2 DEF l, p
<1>12. s.led \in Nat /\ s.participated \in Nat /\ s.participated = s.led + s.following.n
  BY <1>1, <1>4, <1>5
<1>13. s.score \in Nat /\ (s.led > 0 <=> s.score > 0)
  BY <1>1, <1>10
<1> QED BY <1>1, <1>11, <1>12, <1>13 DEF s

\* Everyone who took part is named once.
LEMMA Everyones ==
    ASSUME NEW reports, AreReports(reports)
    PROVE  /\ IsFiniteSet(Everyone(reports)) /\ Everyone(reports) \subseteq DOMAIN Alphabet
           /\ \A e \in reports : IsFiniteSet(SeenIn(e)) /\ SeenIn(e) \subseteq Everyone(reports)
<1>1. ASSUME NEW e \in reports
      PROVE  IsFiniteSet(SeenIn(e)) /\ SeenIn(e) \subseteq DOMAIN Alphabet
  <2>1. e.resolved \in SUBSET RowOf /\ IsFiniteSet(e.resolved)
    BY DEF AreReports, IsReport
  <2> DEFINE R == e.resolved
             dom == [r \in R |-> r.domain]
  <2>2. SeenIn(e) = {dom[r] : r \in R}
    BY DEF SeenIn
  <2>3. \A r \in R : r.domain \in DOMAIN Alphabet
    BY <2>1, AlphabetAssumption DEF RowOf, Row
  <2>4. SeenIn(e) \subseteq DOMAIN Alphabet
    BY <2>3 DEF SeenIn
  <2> HIDE DEF dom, R
  <2>5. IsFiniteSet({dom[r] : r \in R})
    BY <2>1, ImageIsFinite DEF R
  <2> QED BY <2>2, <2>4, <2>5
<1>2. IsFiniteSet(Everyone(reports))
  <2> DEFINE G == {T \in SUBSET reports : IsFiniteSet(Everyone(T))}
  <2>1. {} \in G
    <3>1. Everyone({}) = {}
      BY DEF Everyone
    <3> QED BY <3>1, FS_EmptySet
  <2>2. ASSUME NEW T \in SUBSET reports, NEW e \in reports \ T, T \in G
        PROVE  T \cup {e} \in G
    <3>1. Everyone(T \cup {e}) = Everyone(T) \cup SeenIn(e)
      BY DEF Everyone
    <3>2. IsFiniteSet(Everyone(T)) /\ IsFiniteSet(SeenIn(e))
      BY <1>1, <2>2
    <3>3. IsFiniteSet(Everyone(T) \cup SeenIn(e))
      BY <3>2, FS_Union
    <3> QED BY <3>1, <3>3
  <2>3. IsFiniteSet(reports)
    BY DEF AreReports
  <2> HIDE DEF G
  <2>4. reports \in G
    BY <2>1, <2>2, <2>3, AddingElements
  <2> QED BY <2>4 DEF G
<1> QED BY <1>1, <1>2 DEF Everyone

Scores(reports) == {SourceScore(d, reports) : d \in Everyone(reports)}

\* The ranking has every source once, and one that led before all that did not.
LEMMA Ranking ==
    ASSUME NEW reports, AreReports(reports)
    PROVE  LET ranked == Sources(reports)
           IN  /\ Range(ranked) = Scores(reports)
               /\ \A i, j \in DOMAIN ranked : ranked[i].led > 0 /\ ranked[j].led = 0 => i < j
<1> DEFINE K == Everyone(reports)
           S == Scores(reports)
           sc == [d \in K |-> SourceScore(d, reports)]
           R == {p \in S \X S : Above(p[1], p[2])}
           before == [s \in S |-> {t \in S : Above(t, s)}]
           rank == [s \in S |-> Rank(s, S)]
           m == Cardinality(S)
           ranked == Sources(reports)
<1>1. IsFiniteSet(K) /\ K \subseteq DOMAIN Alphabet
  BY Everyones
<1>2. IsFiniteSet(S) /\ m \in Nat
  <2>1. S = {sc[d] : d \in K}
    BY DEF Scores
  <2> HIDE DEF sc, S, K
  <2>2. IsFiniteSet({sc[d] : d \in K})
    BY <1>1, ImageIsFinite
  <2> QED BY <2>1, <2>2, FS_CardinalityType
<1>3. \A s \in S : /\ s.led \in Nat /\ s.score \in Nat /\ s.domain \in K /\ (s.led > 0 <=> s.score > 0)
                   /\ s = SourceScore(s.domain, reports)
  BY ScoreFields DEF Scores
<1>4. \A s, t \in S : <<s, t>> \in R <=> Above(s, t)
  OBVIOUS
<1>5. Ranks(rank, before, R, S)
  BY <1>4 DEF Ranks, Rank
<1> HIDE DEF R, before
<1>6. Orders(R, S)
  <2>1. \A s \in S : Alphabet[s.domain] \in Nat
    BY <1>1, <1>3, AlphabetAssumption
  <2>2. \A s, t \in S : Alphabet[s.domain] = Alphabet[t.domain] => s = t
    <3> SUFFICES ASSUME NEW s \in S, NEW t \in S, Alphabet[s.domain] = Alphabet[t.domain]
                 PROVE  s = t
      OBVIOUS
    <3>1. s.domain \in DOMAIN Alphabet /\ t.domain \in DOMAIN Alphabet
      BY <1>1, <1>3
    <3>2. s.domain = t.domain
      BY <3>1, AlphabetAssumption
    <3>3. s = SourceScore(s.domain, reports) /\ t = SourceScore(t.domain, reports)
      BY <1>3
    <3> QED BY <3>2, <3>3
  <2>3. \A s, t \in S : Above(s, t) <=>
            \/ s.score > t.score
            \/ s.score = t.score /\ s.led > t.led
            \/ s.score = t.score /\ s.led = t.led /\ Alphabet[s.domain] < Alphabet[t.domain]
    BY DEF Above
  <2>4. \A s \in S : s.led \in Nat /\ s.score \in Nat
    BY <1>3
  <2> HIDE DEF S
  <2>5. \A s \in S : <<s, s>> \notin R
    BY <1>4, <2>1, <2>3, <2>4
  <2>6. \A s, t \in S : s # t => <<s, t>> \in R \/ <<t, s>> \in R
    <3> SUFFICES ASSUME NEW s \in S, NEW t \in S, s # t
                 PROVE  Above(s, t) \/ Above(t, s)
      BY <1>4
    <3>1. Alphabet[s.domain] # Alphabet[t.domain]
      BY <2>2
    <3> QED BY <2>1, <2>3, <2>4, <3>1
  <2>7. ASSUME NEW s \in S, NEW t \in S, NEW u \in S, <<s, t>> \in R, <<t, u>> \in R
        PROVE  <<s, u>> \in R
    <3>1. Above(s, t) /\ Above(t, u)
      BY <1>4, <2>7
    <3>2. Above(s, u)
      BY <2>1, <2>3, <2>4, <3>1
    <3> QED BY <1>4, <3>2
  <2> QED BY <2>5, <2>6, <2>7 DEF Orders
<1>7. \A s \in S : rank[s] = Rank(s, S)
  OBVIOUS
<1>8. ranked = [n \in 1..m |-> CHOOSE s \in S : Rank(s, S) = n]
  BY DEF Sources, Scores, Everyone
<1> HIDE DEF S, rank, sc, K, ranked, m
<1>9. /\ \A s \in S : rank[s] \in 1..m
      /\ \A s, t \in S : <<s, t>> \in R => rank[s] < rank[t]
      /\ \A s, t \in S : rank[s] = rank[t] => s = t
      /\ \A n \in 1..m : \E s \in S : rank[s] = n
  <2>1. /\ \A s \in S : rank[s] \in 1..Cardinality(S)
        /\ \A s, t \in S : <<s, t>> \in R => rank[s] < rank[t]
        /\ \A s, t \in S : rank[s] = rank[t] => s = t
        /\ \A n \in 1..Cardinality(S) : \E s \in S : rank[s] = n
    BY <1>2, <1>5, <1>6, Ranked
  <2> QED BY <2>1 DEF m
<1>10. \A n \in 1..m : ranked[n] \in S /\ rank[ranked[n]] = n
  <2> TAKE n \in 1..m
  <2>1. PICK s \in S : Rank(s, S) = n
    BY <1>7, <1>9
  <2>2. ranked[n] = CHOOSE t \in S : Rank(t, S) = n
    BY <1>8
  <2>3. ranked[n] \in S /\ Rank(ranked[n], S) = n
    BY <2>1, <2>2
  <2> QED BY <1>7, <2>3
<1>11. Range(ranked) = S
  <2>1. DOMAIN ranked = 1..m
    BY <1>8
  <2>2. \A s \in S : rank[s] \in 1..m /\ ranked[rank[s]] = s
    BY <1>9, <1>10
  <2> QED BY <1>10, <2>1, <2>2 DEF Range
<1>12. ASSUME NEW i \in DOMAIN ranked, NEW j \in DOMAIN ranked, ranked[i].led > 0, ranked[j].led = 0
       PROVE  i < j
  <2>1. i \in 1..m /\ j \in 1..m
    BY <1>8
  <2>2. ranked[i] \in S /\ ranked[j] \in S /\ rank[ranked[i]] = i /\ rank[ranked[j]] = j
    BY <1>10, <2>1
  <2>3. ranked[i].score > 0 /\ ~ (ranked[j].led > 0)
    BY <1>3, <1>12, <2>2
  <2>4. ~ (ranked[j].score > 0) /\ ranked[j].score \in Nat /\ ranked[i].score \in Nat
    BY <1>3, <2>2, <2>3
  <2>5. ranked[i].score > ranked[j].score
    BY <2>3, <2>4
  <2>6. <<ranked[i], ranked[j]>> \in R
    BY <1>4, <2>2, <2>5 DEF Above
  <2> QED BY <1>9, <2>2, <2>6
<1> QED BY <1>11, <1>12 DEF S, ranked

\* Sums over the sources or the reports, as sums of the values of a function.
LEMMA SumOfTaken ==
    ASSUME NEW S
    PROVE  MapThenSumSet(LAMBDA s : s.participated, S) = SumOver([s \in S |-> s.participated], S)
<1> DEFINE g == [s \in S |-> s.participated]
           F1(iter) == [s \in SUBSET S |->
                           IF s = {} THEN 0
                           ELSE (CHOOSE x \in s : TRUE).participated + iter[s \ {CHOOSE x \in s : TRUE}]]
           F2(iter) == [s \in SUBSET S |->
                           IF s = {} THEN 0
                           ELSE g[CHOOSE x \in s : TRUE] + iter[s \ {CHOOSE x \in s : TRUE}]]
<1>1. \A iter : F1(iter) = F2(iter)
  OBVIOUS
<1>2. MapThenSumSet(LAMBDA s : s.participated, S) = (CHOOSE iter : iter = F1(iter))[S]
  BY DEF MapThenSumSet, MapThenFoldSet
<1>3. SumOver(g, S) = (CHOOSE iter : iter = F2(iter))[S]
  BY DEF SumOver, MapThenSumSet, MapThenFoldSet
<1> HIDE DEF F1, F2, g
<1>4. (CHOOSE iter : iter = F1(iter)) = (CHOOSE iter : iter = F2(iter))
  BY <1>1, Zenon
<1> QED BY <1>2, <1>3, <1>4 DEF g

LEMMA SumOfLed ==
    ASSUME NEW S
    PROVE  MapThenSumSet(LAMBDA s : s.led, S) = SumOver([s \in S |-> s.led], S)
<1> DEFINE g == [s \in S |-> s.led]
           F1(iter) == [s \in SUBSET S |->
                           IF s = {} THEN 0
                           ELSE (CHOOSE x \in s : TRUE).led + iter[s \ {CHOOSE x \in s : TRUE}]]
           F2(iter) == [s \in SUBSET S |->
                           IF s = {} THEN 0
                           ELSE g[CHOOSE x \in s : TRUE] + iter[s \ {CHOOSE x \in s : TRUE}]]
<1>1. \A iter : F1(iter) = F2(iter)
  OBVIOUS
<1>2. MapThenSumSet(LAMBDA s : s.led, S) = (CHOOSE iter : iter = F1(iter))[S]
  BY DEF MapThenSumSet, MapThenFoldSet
<1>3. SumOver(g, S) = (CHOOSE iter : iter = F2(iter))[S]
  BY DEF SumOver, MapThenSumSet, MapThenFoldSet
<1> HIDE DEF F1, F2, g
<1>4. (CHOOSE iter : iter = F1(iter)) = (CHOOSE iter : iter = F2(iter))
  BY <1>1, Zenon
<1> QED BY <1>2, <1>3, <1>4 DEF g

LEMMA SumOfSeen ==
    ASSUME NEW S
    PROVE  MapThenSumSet(LAMBDA e : Cardinality(SeenIn(e)), S) = SumOver([e \in S |-> Cardinality(SeenIn(e))], S)
<1> DEFINE g == [s \in S |-> Cardinality(SeenIn(s))]
           F1(iter) == [s \in SUBSET S |->
                           IF s = {} THEN 0
                           ELSE Cardinality(SeenIn(CHOOSE x \in s : TRUE)) + iter[s \ {CHOOSE x \in s : TRUE}]]
           F2(iter) == [s \in SUBSET S |->
                           IF s = {} THEN 0
                           ELSE g[CHOOSE x \in s : TRUE] + iter[s \ {CHOOSE x \in s : TRUE}]]
<1>1. \A iter : F1(iter) = F2(iter)
  OBVIOUS
<1>2. MapThenSumSet(LAMBDA e : Cardinality(SeenIn(e)), S) = (CHOOSE iter : iter = F1(iter))[S]
  BY DEF MapThenSumSet, MapThenFoldSet
<1>3. SumOver(g, S) = (CHOOSE iter : iter = F2(iter))[S]
  BY DEF SumOver, MapThenSumSet, MapThenFoldSet
<1> HIDE DEF F1, F2, g
<1>4. (CHOOSE iter : iter = F1(iter)) = (CHOOSE iter : iter = F2(iter))
  BY <1>1, Zenon
<1> QED BY <1>2, <1>3, <1>4 DEF g

\* Nobody's part in an event is counted twice, nor left out; and every event in sight
\* is led once.
LEMMA SourceTotals ==
    ASSUME NEW reports, AreReports(reports)
    PROVE  LET S == Scores(reports)
           IN  /\ SumOver([s \in S |-> s.participated], S)
                    = SumOver([e \in reports |-> Cardinality(SeenIn(e))], reports)
               /\ SumOver([s \in S |-> s.led], S) = Cardinality({e \in reports : e.resolved # {}})
<1> DEFINE K == Everyone(reports)
           S == Scores(reports)
           sc == [d \in K |-> SourceScore(d, reports)]
           image == {sc[d] : d \in K}
           taken == [s \in S |-> s.participated]
           led == [s \in S |-> s.led]
           tookPart == [d \in K |-> TookPart(d, reports)]
           whereLed == [d \in K |-> WhereLed(d, reports)]
           times == [d \in K |-> Cardinality(tookPart[d])]
           leads == [d \in K |-> Cardinality(whereLed[d])]
           resolved == {e \in reports : e.resolved # {}}
           seen == [e \in reports |-> SeenIn(e)]
           many == [e \in reports |-> Cardinality(SeenIn(e))]
           one == [e \in reports |-> 1]
           leader == [e \in reports |-> e.leader.domain]
<1>1. IsFiniteSet(K) /\ IsFiniteSet(reports) /\ \A e \in reports : IsFiniteSet(SeenIn(e)) /\ SeenIn(e) \subseteq K
  BY Everyones DEF AreReports
<1>2. S = image
  BY DEF Scores
<1>3. \A d \in K : /\ sc[d] \in S /\ sc[d].domain = d
                   /\ taken[sc[d]] = times[d] /\ taken[sc[d]] \in Int
                   /\ led[sc[d]] = leads[d] /\ led[sc[d]] \in Int
  <2> TAKE d \in K
  <2>1. sc[d] = SourceScore(d, reports) /\ sc[d] \in S
    BY DEF Scores
  <2>2. taken[sc[d]] = SourceScore(d, reports).participated /\ led[sc[d]] = SourceScore(d, reports).led
    BY <2>1
  <2>3. times[d] = Cardinality(TookPart(d, reports)) /\ leads[d] = Cardinality(WhereLed(d, reports))
    OBVIOUS
  <2> HIDE DEF sc, S, taken, led, times, leads
  <2> QED BY <2>1, <2>2, <2>3, ScoreFields
<1>4. \A d, c \in K : sc[d] = sc[c] => d = c
  <2> SUFFICES ASSUME NEW d \in K, NEW c \in K, sc[d] = sc[c] PROVE d = c
    OBVIOUS
  <2>1. sc[d].domain = d /\ sc[c].domain = c
    BY <1>3
  <2> HIDE DEF sc, K
  <2> QED BY <2>1
<1>5. /\ \A d \in K : tookPart[d] \subseteq reports /\ whereLed[d] \subseteq resolved
      /\ \A e \in reports : \A d \in K : e \in tookPart[d] <=> d \in seen[e]
      /\ \A e \in resolved : \A d \in K : e \in whereLed[d] <=> leader[e] = d
  BY DEF TookPart, WhereLed
<1>6. \A e \in resolved : leader[e] \in K
  <2> TAKE e \in resolved
  <2>1. e.leader \in e.resolved /\ e \in reports
    BY DEF AreReports, IsReport
  <2>2. leader[e] \in SeenIn(e)
    BY <2>1 DEF SeenIn
  <2> QED BY <1>1, <2>1, <2>2
<1>7. \A e \in reports : seen[e] \subseteq K /\ many[e] = Cardinality(seen[e]) /\ Cardinality(seen[e]) \in Nat
                         /\ one[e] = 1
  BY <1>1, FS_CardinalityType
<1>8. IsFiniteSet(resolved)
  BY <1>1, FS_Subset
<1>9. \A d \in K : times[d] = Cardinality(tookPart[d]) /\ leads[d] = Cardinality(whereLed[d])
  OBVIOUS
<1> HIDE DEF K, S, sc, taken, led, tookPart, whereLed, times, leads, resolved, seen, many, one, leader
<1>10. SumOver(taken, image) = SumOver(times, K)
  BY <1>1, <1>3, <1>4, SumImage
<1>11. SumOver(led, image) = SumOver(leads, K)
  BY <1>1, <1>3, <1>4, SumImage
<1>12. SumOver(times, K) = SumOver(many, reports)
  <2>1. \A d \in K : times[d] = SumOver(one, tookPart[d])
    <3> TAKE d \in K
    <3> DEFINE T == tookPart[d]
    <3>1. IsFiniteSet(T) /\ T \subseteq reports
      BY <1>1, <1>5, FS_Subset
    <3>2. \A e \in T : one[e] = 1
      BY <1>7, <3>1
    <3> HIDE DEF T
    <3>3. SumOver(one, T) = 1 * Cardinality(T)
      BY <3>1, <3>2, SumConstant
    <3>4. Cardinality(T) \in Nat
      BY <3>1, FS_CardinalityType
    <3>5. times[d] = Cardinality(T)
      BY <1>9 DEF T
    <3> QED BY <3>3, <3>4, <3>5 DEF T
  <2>2. \A e \in reports : one[e] \in Int /\ many[e] = one[e] * Cardinality(seen[e])
    BY <1>7
  <2>3. \A e \in reports : seen[e] \subseteq K
    BY <1>7
  <2>4. \A d \in K : tookPart[d] \subseteq reports
    BY <1>5
  <2>5. \A e \in reports : \A d \in K : e \in tookPart[d] <=> d \in seen[e]
    BY <1>5
  <2>6. \A e \in reports : one[e] \in Int
    BY <2>2
  <2>7. \A e \in reports : many[e] = one[e] * Cardinality(seen[e])
    BY <2>2
  <2>8. IsFiniteSet(reports) /\ IsFiniteSet(K)
    BY <1>1
  <2> QED BY <2>1, <2>3, <2>4, <2>5, <2>6, <2>7, <2>8, SumCover
<1>13. SumOver(leads, K) = Cardinality(resolved)
  <2>1. \A d \in K : whereLed[d] \subseteq resolved
    BY <1>5
  <2> QED BY <1>1, <1>5, <1>6, <1>8, <1>9, <2>1, CountParts
<1>14. SumOver(taken, S) = SumOver(many, reports) /\ SumOver(led, S) = Cardinality(resolved)
  BY <1>2, <1>10, <1>11, <1>12, <1>13
<1> QED BY <1>14 DEF S, taken, led, many, resolved

\* Events of any age, and the rows of now: in every event a domain took part in it led
\* or followed, no event counts twice, and who has led is above all that never did.
THEOREM SourcesCorrect == Spec => []LeadersLead
<1>1. TableInv /\ FewEvents => LeadersLead
  <2> SUFFICES ASSUME TableInv, FewEvents PROVE LeadersLead
    OBVIOUS
  <2> DEFINE reports == LeadLag(events, Recent)
             ranked == Sources(reports)
             S == Scores(reports)
             resolved == {e \in reports : e.resolved # {}}
             seen == [e \in reports |-> Cardinality(SeenIn(e))]
             taken == [s \in S |-> s.participated]
             led == [s \in S |-> s.led]
  <2>1. AreReports(reports)
    <3> DEFINE report == [e \in events |-> PerEvent(e, Recent)]
    <3>1. reports = {report[e] : e \in events}
      BY DEF LeadLag
    <3>2. \A e \in events : IsReport(report[e])
      BY EventReport
    <3> HIDE DEF report
    <3>3. IsFiniteSet({report[e] : e \in events})
          /\ Cardinality({report[e] : e \in events}) <= Cardinality(events)
      BY ImageIsFinite DEF FewEvents
    <3>4. Cardinality({report[e] : e \in events}) \in Nat /\ Cardinality(events) \in Nat /\ Limit \in Nat
      BY <3>3, FS_CardinalityType, ShapeAssumption DEF FewEvents
    <3> QED BY <3>1, <3>2, <3>3, <3>4 DEF AreReports, FewEvents
  <2> HIDE DEF reports
  <2>2. /\ Range(ranked) = S
        /\ \A i, j \in DOMAIN ranked : ranked[i].led > 0 /\ ranked[j].led = 0 => i < j
    BY <2>1, Ranking
  <2>3. SumOver(taken, S) = SumOver(seen, reports) /\ SumOver(led, S) = Cardinality(resolved)
    BY <2>1, SourceTotals
  <2>4. \A s \in S : s.participated = s.led + s.following.n
    BY <2>1, ScoreFields DEF Scores
  <2>5. MapThenSumSet(LAMBDA s : s.participated, Range(ranked)) = SumOver(taken, S)
    BY <2>2, SumOfTaken
  <2>6. MapThenSumSet(LAMBDA s : s.led, Range(ranked)) = SumOver(led, S)
    BY <2>2, SumOfLed
  <2>7. MapThenSumSet(LAMBDA e : Cardinality(SeenIn(e)), reports) = SumOver(seen, reports)
    BY SumOfSeen
  <2> HIDE DEF seen, taken, led, S, resolved, ranked
  <2>8. /\ \A s \in Range(ranked) : s.participated = s.led + s.following.n
        /\ MapThenSumSet(LAMBDA s : s.participated, Range(ranked))
             = MapThenSumSet(LAMBDA e : Cardinality(SeenIn(e)), reports)
        /\ MapThenSumSet(LAMBDA s : s.led, Range(ranked)) = Cardinality(resolved)
        /\ \A i, j \in DOMAIN ranked : ranked[i].led > 0 /\ ranked[j].led = 0 => i < j
    BY <2>2, <2>3, <2>4, <2>5, <2>6, <2>7
  <2> QED BY <2>8 DEF LeadersLead, resolved, ranked, reports
<1> QED BY <1>1, TableInit, TableStep, EventsInit, EventsStep, PTL DEF Spec

\* All that the run asks of events, leaders and novelty holds of every table.
THEOREM EventsCorrect == Spec => []EventsAgree
<1>1. ClustersTile /\ LeadersAreFirst /\ LeadersLead /\ NoveltyAgrees => EventsAgree
  BY DEF EventsAgree
<1> QED BY <1>1, ClustersCorrect, LeadersCorrect, SourcesCorrect, NoveltyCorrect, PTL

=============================================================================
