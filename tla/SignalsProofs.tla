---------------------------- MODULE SignalsProofs ----------------------------
(***************************************************************************)
(* The books of the quant reports balance for every bag of rows, and good  *)
(* and bad news are judged alike.  The rows are any finite bag; what is    *)
(* proved of a report is arithmetic about sums over it (Counting).         *)
(***************************************************************************)
EXTENDS Reports, Counting, SequenceTheorems

-----------------------------------------------------------------------------
(* The bag of rows, and sums over it. *)

CorpusInv == report \in DOMAIN Shape /\ corpus \in [Shape[report] -> Nat]

\* The sum of the model is the one Counting is about.
LEMMA Sums == \A f, S : SumOf(f, S) = SumOver(f, S)
BY DEF SumOf, SumOver

\* And so is a count of rows,
LEMMA TallyIsSum == \A c, S : Tally(c, S) = SumOver(c, S)
BY Sums DEF Tally

\* and the sum of a sequence.
LEMMA SequenceSum == \A s : AddUp(s) = SumOver(s, DOMAIN s)
BY Sums DEF AddUp

\* A product of two natural numbers, where a larger formula holds it.
LEMMA NatTimes == ASSUME NEW x \in Nat, NEW y \in Nat PROVE x * y \in Nat
OBVIOUS

\* A product of three numbers with the last two in the other order.
LEMMA TimesSwap == ASSUME NEW x \in Int, NEW y \in Int, NEW z \in Int PROVE x * (y * z) = (x * z) * y
OBVIOUS

\* An amount is a natural number.
LEMMA AbsType == ASSUME NEW n \in Int PROVE Abs(n) \in Nat
BY DEF Abs

\* The corpus of a report is a finite bag of its shapes.
LEMMA CorpusFinite ==
    ASSUME CorpusInv
    PROVE  /\ IsFiniteSet(DOMAIN corpus) /\ DOMAIN corpus = Shape[report]
           /\ IsFiniteSet(Filled(corpus)) /\ Filled(corpus) \subseteq Shape[report]
           /\ \A s \in Filled(corpus) : corpus[s] \in Nat \ {0}
<1>1. DOMAIN corpus = Shape[report] /\ IsFiniteSet(Shape[report])
  BY CorpusAssumption DEF CorpusInv
<1>2. Filled(corpus) \in SUBSET Shape[report]
  BY <1>1 DEF Filled
<1>3. IsFiniteSet(Filled(corpus))
  BY <1>1, <1>2, FS_Subset
<1>4. \A s \in Filled(corpus) : corpus[s] \in Nat \ {0}
  BY DEF Filled, CorpusInv
<1> QED BY <1>1, <1>2, <1>3, <1>4

\* Rows are only ever added.
LEMMA CorpusCorrect == Spec => []CorpusInv
<1>1. Init => CorpusInv
  BY DEF Init, CorpusInv
<1>2. CorpusInv /\ [Next]_vars => CorpusInv'
  <2> SUFFICES ASSUME CorpusInv, [Next]_vars
               PROVE  CorpusInv'
    OBVIOUS
  <2>1. CASE UNCHANGED vars
    BY <2>1 DEF vars, CorpusInv
  <2>2. ASSUME NEW s \in DOMAIN corpus, Capture(s)
        PROVE  CorpusInv'
    BY <2>2 DEF Capture, CorpusInv
  <2> QED BY <2>1, <2>2 DEF Next
<1> QED BY <1>1, <1>2, PTL DEF Spec

-----------------------------------------------------------------------------
(* Counts of rows. *)

\* What is counted of the rows in sight: more rows, a greater count.
LEMMA TallyFacts ==
    ASSUME CorpusInv, NEW S \in SUBSET Filled(corpus)
    PROVE  /\ IsFiniteSet(S) /\ Tally(corpus, S) \in Nat
           /\ \A T \in SUBSET S : IsFiniteSet(T) /\ Tally(corpus, T) \in Nat
                                  /\ Tally(corpus, T) <= Tally(corpus, S)
           /\ Tally(corpus, S) = 0 <=> S = {}
           /\ Cardinality(S) \in Nat /\ Cardinality(S) <= Tally(corpus, S)
<1>1. IsFiniteSet(S) /\ \A x \in S : corpus[x] \in Nat \ {0}
  BY CorpusFinite, FS_Subset
<1>2. SumOver(corpus, S) \in Nat
  BY <1>1, SumType
<1>3. ASSUME NEW T \in SUBSET S
      PROVE  IsFiniteSet(T) /\ SumOver(corpus, T) \in Nat /\ SumOver(corpus, T) <= SumOver(corpus, S)
  <2>1. IsFiniteSet(T)
    BY <1>1, FS_Subset
  <2>2. \A x \in T : corpus[x] \in Nat
    BY <1>1
  <2>3. SumOver(corpus, T) \in Nat
    BY <2>1, <2>2, SumType
  <2>4. SumOver(corpus, T) <= SumOver(corpus, S)
    BY <1>1, SumOfPart
  <2> QED BY <2>1, <2>3, <2>4
<1>4. SumOver(corpus, S) = 0 <=> S = {}
  <2>1. SumOver(corpus, S) = 0 <=> \A x \in S : corpus[x] = 0
    BY <1>1, SumZero
  <2> QED BY <1>1, <2>1
<1>5. Cardinality(S) \in Nat /\ Cardinality(S) <= SumOver(corpus, S)
  <2> DEFINE one == [x \in S |-> 1]
  <2>1. SumOver(one, S) = 1 * Cardinality(S)
    <3>1. \A x \in S : one[x] = 1
      OBVIOUS
    <3> HIDE DEF one
    <3> QED BY <1>1, <3>1, SumConstant
  <2>2. SumOver(one, S) <= SumOver(corpus, S)
    <3>1. \A x \in S : one[x] \in Int /\ corpus[x] \in Int /\ one[x] <= corpus[x]
      BY <1>1
    <3> HIDE DEF one
    <3> QED BY <1>1, <3>1, SumMonotone
  <2>3. Cardinality(S) \in Nat
    BY <1>1, FS_CardinalityType
  <2> HIDE DEF one
  <2> QED BY <2>1, <2>2, <2>3
<1> QED BY <1>1, <1>2, <1>3, <1>4, <1>5, TallyIsSum

\* A count of two kinds of row that share none.
LEMMA TallyUnion ==
    ASSUME CorpusInv, NEW S \in SUBSET Filled(corpus), NEW T \in SUBSET Filled(corpus),
           S \cap T = {}
    PROVE  Tally(corpus, S \cup T) = Tally(corpus, S) + Tally(corpus, T)
<1>1. IsFiniteSet(S) /\ IsFiniteSet(T) /\ \A x \in S \cup T : corpus[x] \in Int
  BY CorpusFinite, FS_Subset
<1>2. SumOver(corpus, S \cup T) = SumOver(corpus, S) + SumOver(corpus, T)
  BY <1>1, SumUnion
<1> QED BY <1>2, TallyIsSum

\* The sum of what rows say is a number, and not negative where they are not.
LEMMA TotalFacts ==
    ASSUME CorpusInv, NEW S \in SUBSET Filled(corpus), NEW f, \A s \in S : f[s] \in Nat
    PROVE  /\ Total(corpus, S, LAMBDA s : f[s]) = SumOver([s \in S |-> corpus[s] * f[s]], S)
           /\ Total(corpus, S, LAMBDA s : f[s]) \in Nat
<1>1. Total(corpus, S, LAMBDA s : f[s]) = SumOver([s \in S |-> corpus[s] * f[s]], S)
  BY Sums DEF Total
<1> DEFINE g == [s \in S |-> corpus[s] * f[s]]
<1>2. IsFiniteSet(S) /\ \A s \in S : corpus[s] \in Nat
  BY CorpusFinite, FS_Subset
<1>3. \A s \in S : g[s] \in Nat
  BY <1>2
<1> HIDE DEF g
<1>4. SumOver(g, S) \in Nat
  BY <1>2, <1>3, SumType
<1> QED BY <1>1, <1>4 DEF g

-----------------------------------------------------------------------------
(* Reactions (market_reaction.py). *)

\* An excess return stands on two returns, whatever the quotes are.
LEMMA ExcessStands == CorpusInv => ExcessNeedsBothLegs
<1> SUFFICES ASSUME CorpusInv, report = "reaction", NEW s \in Filled(corpus),
                    NEW y \in PrimarySymbol(s),
                    Reaction(s.quotes[y], s.quotes["SPY"]).excess # None
             PROVE  /\ s.quotes[y].error = "none" /\ s.quotes[y].last # None
                    /\ s.quotes["SPY"].last # None
                    /\ Reaction(s.quotes[y], s.quotes["SPY"]).own
                         - Reaction(s.quotes[y], s.quotes["SPY"]).excess
                       = SnapshotReturn(s.quotes["SPY"])
  BY DEF ExcessNeedsBothLegs
<1> DEFINE q == s.quotes[y]
           spy == s.quotes["SPY"]
<1>1. s \in Shape["reaction"] /\ "reaction" \in DOMAIN Shape
  BY CorpusFinite DEF CorpusInv
<1>2. y \in DOMAIN s.quotes /\ "SPY" \in DOMAIN s.quotes
  <2>1. y \in s.symbols \cup {"SPY", "BTC-USD"}
    BY DEF PrimarySymbol, Proxy
  <2> QED BY <1>1, <2>1, MixAssumption
<1>3. \A x \in DOMAIN s.quotes :
          s.quotes[x].last \in Nat \cup {None} /\ s.quotes[x].prev \in Nat \cup {None}
  BY <1>1, MixAssumption
<1>4. /\ q.last \in Nat \cup {None} /\ q.prev \in Nat \cup {None}
      /\ spy.last \in Nat \cup {None} /\ spy.prev \in Nat \cup {None}
  BY <1>2, <1>3
<1>5. SnapshotReturn(q) \in Int /\ SnapshotReturn(spy) \in Int
  BY <1>4 DEF SnapshotReturn, None
<1> HIDE DEF q, spy
<1>6. /\ FallbackReason(q) = "none" /\ SnapshotReturn(q) # None /\ SnapshotReturn(spy) # None
      /\ Reaction(q, spy).own = SnapshotReturn(q)
      /\ Reaction(q, spy).excess = SnapshotReturn(q) - SnapshotReturn(spy)
  <2>1. Reaction(q, spy).excess # None
    BY DEF q, spy
  <2> QED BY <2>1 DEF Reaction
<1>7. q.error = "none" /\ q.last # None /\ spy.last # None
  <2>1. q.error = "none"
    BY <1>6 DEF FallbackReason
  <2>2. q.last # None /\ spy.last # None
    BY <1>6 DEF SnapshotReturn
  <2> QED BY <2>1, <2>2
<1>8. Reaction(q, spy).own - Reaction(q, spy).excess = SnapshotReturn(spy)
  BY <1>5, <1>6
<1> QED BY <1>7, <1>8 DEF q, spy

-----------------------------------------------------------------------------
(* Places of rows on a grid. *)

\* Rows that each have a place have a first place and a last one.
LEMMA PlacesAreBounded ==
    ASSUME CorpusInv, NEW S \in SUBSET Filled(corpus), S # {},
           NEW f, \A s \in S : f[s] \in Int
    PROVE  LET places == {f[s] : s \in S} IN
           /\ places \subseteq Int /\ IsFiniteSet(places)
           /\ Min(places) \in places /\ Max(places) \in places
           /\ \A s \in S : Min(places) <= f[s] /\ f[s] <= Max(places)
<1> DEFINE places == {f[s] : s \in S}
<1>1. IsFiniteSet(S)
  BY CorpusFinite, FS_Subset
<1>2. places \in SUBSET Int /\ IsFiniteSet(places) /\ places # {}
  BY <1>1, ImageIsFinite
<1>3. \A s \in S : f[s] \in places
  OBVIOUS
<1> HIDE DEF places
<1>4. /\ Max(places) \in places /\ \A x \in places : x <= Max(places)
      /\ Min(places) \in places /\ \A x \in places : Min(places) <= x
  BY <1>2, Extremes
<1>5. /\ places \subseteq Int /\ IsFiniteSet(places)
      /\ Min(places) \in places /\ Max(places) \in places
      /\ \A s \in S : Min(places) <= f[s] /\ f[s] <= Max(places)
  BY <1>2, <1>3, <1>4
<1> QED BY <1>5 DEF places

-----------------------------------------------------------------------------
(* Spillover (spillover.py). *)

\* The dense grid has a place for the bucket of every row that names an asset.
LEMMA GridHoldsRows ==
    ASSUME CorpusInv, report = "spillover"
    PROVE  /\ TotalBuckets(corpus) \in Nat
           /\ Timed(corpus) # {} => Anchor(corpus) \in Int
           /\ \A s \in Timed(corpus) :
                 Bucket(s.at) \in Int /\ Bucket(s.at) - Anchor(corpus) + 1 \in 1..TotalBuckets(corpus)
<1> DEFINE b == [s \in Timed(corpus) |-> Bucket(s.at)]
           places == {Bucket(s.at) : s \in Timed(corpus)}
<1>1. Timed(corpus) \in SUBSET Filled(corpus)
  BY DEF Timed
<1>2. \A s \in Timed(corpus) : Bucket(s.at) \in Int
  <2>1. \A s \in Timed(corpus) : s.at \in Int
    BY <1>1, CorpusFinite, SurgeAssumption DEF CorpusInv
  <2> QED BY <2>1, SurgeAssumption DEF Bucket
<1>3. CASE Timed(corpus) = {}
  BY <1>3 DEF TotalBuckets
<1>4. CASE Timed(corpus) # {}
  <2>1. \A s \in Timed(corpus) : b[s] \in Int /\ b[s] = Bucket(s.at)
    BY <1>2
  <2>2. {b[s] : s \in Timed(corpus)} = places
    BY <2>1
  <2> HIDE DEF b
  <2>3. /\ places \subseteq Int
        /\ Min(places) \in places /\ Max(places) \in places
        /\ \A s \in Timed(corpus) : Min(places) <= b[s] /\ b[s] <= Max(places)
    BY <1>1, <1>4, <2>1, <2>2, PlacesAreBounded
  <2>4. Anchor(corpus) = Min(places)
        /\ TotalBuckets(corpus) = Max(places) - Min(places) + 1
    BY <1>4 DEF Anchor, TotalBuckets
  <2>5. Min(places) \in Int /\ Max(places) \in Int
    BY <2>3
  <2> HIDE DEF places
  <2>6. PICK s \in Timed(corpus) : TRUE
    BY <1>4
  <2>7. Min(places) <= Max(places)
    BY <2>1, <2>3, <2>5, <2>6
  <2>8. \A x \in Timed(corpus) : Bucket(x.at) - Anchor(corpus) + 1 \in 1..TotalBuckets(corpus)
    BY <1>2, <2>1, <2>3, <2>4, <2>5
  <2> QED BY <1>2, <2>4, <2>5, <2>7, <2>8
<1> QED BY <1>3, <1>4

\* What is different for every element is as much as there are elements.
LEMMA SameSize ==
    ASSUME NEW S, IsFiniteSet(S), NEW m, \A x, y \in S : m[x] = m[y] => x = y
    PROVE  Cardinality({m[x] : x \in S}) = Cardinality(S)
<1> DEFINE h == [x \in S |-> m[x]]
           T == {m[x] : x \in S}
<1>1. h \in Bijection(S, T)
  <2>1. h \in Surjection(S, T)
    BY DEF Surjection
  <2>2. h \in Injection(S, T)
    <3>1. h \in [S -> T] /\ \A x, y \in S : h[x] = h[y] => x = y
      OBVIOUS
    <3> HIDE DEF h
    <3> QED BY <3>1 DEF Injection, IsInjective
  <2> QED BY <2>1, <2>2 DEF Bijection
<1>2. ExistsBijection(S, T)
  BY <1>1 DEF ExistsBijection
<1> HIDE DEF h, T
<1>3. Cardinality(S) = Cardinality(T)
  BY <1>2, FS_Bijection
<1> QED BY <1>3 DEF T

\* A shift by some buckets keeps the number of a set of buckets.
LEMMA ShiftCount ==
    ASSUME NEW S \in SUBSET Int, IsFiniteSet(S), NEW l \in Int
    PROVE  Cardinality({i + l : i \in S}) = Cardinality(S)
<1> DEFINE m == [i \in S |-> i + l]
<1>1. {i + l : i \in S} = {m[i] : i \in S}
  OBVIOUS
<1>2. \A i, j \in S : m[i] = m[j] => i = j
  OBVIOUS
<1> HIDE DEF m
<1>3. Cardinality({m[i] : i \in S}) = Cardinality(S)
  BY <1>2, SameSize
<1> QED BY <1>1, <1>3

\* What EdgesAddUp says of one edge, and that a score above zero takes a pivot.
EdgeBooks(e) ==
    LET shifted == {i + Lag : i \in Eligible(corpus)} IN
    /\ Cardinality({i \in Eligible(corpus) : Surge(corpus, e.source, i)})
         = Cardinality(e.pivots) + e.sourceOnly
    /\ Cardinality({i \in shifted : Surge(corpus, e.target, i)})
         = Cardinality(e.pivots) + e.targetOnly
    /\ {i + Lag : i \in e.pivots} \subseteq {i \in shifted : Surge(corpus, e.target, i)}
    /\ Score(corpus, e) > 0 => e.pivots # {}

\* A surge is an edge's or it is not: each column of an edge adds up.
LEMMA EdgeBalances ==
    ASSUME CorpusInv, report = "spillover", NEW source, NEW target
    PROVE  EdgeBooks(Edge(corpus, source, target))
<1> DEFINE E == Eligible(corpus)
           from == {i \in E : Surge(corpus, source, i)}
           to == {i \in E : Surge(corpus, target, i + Lag)}
           co == from \cap to
           e == Edge(corpus, source, target)
           later == {j \in {i + Lag : i \in E} : Surge(corpus, target, j)}
<1>1. E \in SUBSET Int /\ IsFiniteSet(E) /\ Lag \in Int
  <2>1. Lag \in Int /\ MinHistory + 1 \in Int /\ TotalBuckets(corpus) - Lag \in Int
    BY GridHoldsRows, SurgeAssumption
  <2>2. IsFiniteSet(MinHistory + 1 .. TotalBuckets(corpus) - Lag)
    BY <2>1, FS_Interval
  <2> QED BY <2>1, <2>2 DEF Eligible
<1>2. /\ IsFiniteSet(from) /\ IsFiniteSet(to) /\ IsFiniteSet(co) /\ to \in SUBSET Int
      /\ Cardinality(from) \in Nat /\ Cardinality(to) \in Nat /\ Cardinality(co) \in Nat
      /\ Cardinality(co) <= Cardinality(from) /\ Cardinality(co) <= Cardinality(to)
  <2>1. from \in SUBSET E /\ to \in SUBSET E /\ co \in SUBSET from /\ co \in SUBSET to
    OBVIOUS
  <2> HIDE DEF E, from, to, co
  <2>2. IsFiniteSet(from) /\ IsFiniteSet(to) /\ to \in SUBSET Int
    BY <1>1, <2>1, FS_Subset
  <2>3. IsFiniteSet(co) /\ Cardinality(co) <= Cardinality(from) /\ Cardinality(co) <= Cardinality(to)
    BY <2>1, <2>2, FS_Subset
  <2> QED BY <2>2, <2>3, FS_CardinalityType
<1>3. e = [source |-> source, target |-> target, pivots |-> co,
           sourceOnly |-> Cardinality(from) - Cardinality(co),
           targetOnly |-> Cardinality(to) - Cardinality(co)]
  BY DEF Edge
<1>4. later = {i + Lag : i \in to}
  OBVIOUS
<1>5. Cardinality(later) = Cardinality(to)
  <2> HIDE DEF to, later
  <2> QED BY <1>1, <1>2, <1>4, ShiftCount
<1>6. {i + Lag : i \in co} \subseteq later
  OBVIOUS
<1>7. Score(corpus, e) > 0 => co # {}
  <2> SUFFICES ASSUME co = {}
               PROVE  ~ (Score(corpus, e) > 0)
    OBVIOUS
  <2> HIDE DEF co, from, to, e
  <2>1. Cardinality(co) = 0
    BY FS_EmptySet
  <2>2. Score(corpus, e) = 0 * Cardinality(E) - Cardinality(to) * Cardinality(from)
    BY <1>2, <1>3, <2>1 DEF Score
  <2>3. Cardinality(E) \in Nat /\ Cardinality(to) * Cardinality(from) \in Nat
    BY <1>1, <1>2, FS_CardinalityType
  <2> QED BY <2>2, <2>3
<1>8. /\ e.source = source /\ e.target = target /\ e.pivots = co
      /\ Cardinality(from) = Cardinality(e.pivots) + e.sourceOnly
      /\ Cardinality(later) = Cardinality(e.pivots) + e.targetOnly
  <2> HIDE DEF co, from, to, e, later
  <2> QED BY <1>2, <1>3, <1>5
<1> QED BY <1>6, <1>7, <1>8 DEF EdgeBooks

\* What an asset's series counts are the rows that name it, none left out.
LEMMA SeriesCounts ==
    ASSUME CorpusInv, report = "spillover", NEW a
    PROVE  AddUp(Series(corpus, a)) = Tally(corpus, {s \in Timed(corpus) : a \in s.assets})
<1> DEFINE T == {s \in Timed(corpus) : a \in s.assets}
           K == 1..TotalBuckets(corpus)
           g == [s \in T |-> Bucket(s.at) - Anchor(corpus) + 1]
           part == [i \in K |-> {s \in In(corpus, Anchor(corpus) + i - 1) : a \in s.assets}]
           h == Series(corpus, a)
<1>1. T \in SUBSET Filled(corpus)
  BY DEF Timed
<1>2. IsFiniteSet(T) /\ \A s \in T : corpus[s] \in Int
  BY <1>1, CorpusFinite, FS_Subset
<1>3. IsFiniteSet(K)
  BY GridHoldsRows, FS_Interval
<1>4. \A s \in T : g[s] \in K /\ Bucket(s.at) \in Int /\ Anchor(corpus) \in Int
  BY GridHoldsRows
<1>5. \A i \in K : part[i] \subseteq T
  BY DEF In, Timed
<1>6. \A s \in T : \A i \in K : s \in part[i] <=> g[s] = i
  <2> SUFFICES ASSUME NEW s \in T, NEW i \in K
               PROVE  s \in part[i] <=> g[s] = i
    OBVIOUS
  <2>1. s \in Filled(corpus) /\ a \in s.assets
    BY <1>1
  <2>2. s \in part[i] <=> Bucket(s.at) = Anchor(corpus) + i - 1
    BY <2>1 DEF In
  <2>3. Bucket(s.at) \in Int /\ Anchor(corpus) \in Int /\ i \in Int
        /\ g[s] = Bucket(s.at) - Anchor(corpus) + 1
    BY <1>4
  <2> HIDE DEF T, part, g
  <2> QED BY <2>2, <2>3
<1>7. DOMAIN h = K /\ \A i \in K : h[i] = SumOver(corpus, part[i])
  BY TallyIsSum DEF Series
<1> HIDE DEF T, K, g, part, h
<1>8. SumOver(h, K) = SumOver(corpus, T)
  BY <1>2, <1>3, <1>4, <1>5, <1>6, <1>7, SumParts
<1> QED BY <1>7, <1>8, SequenceSum, TallyIsSum DEF T, h

\* The books of every edge, and of every series.
LEMMA SpilloverBalances == CorpusInv => EdgesAddUp
<1> SUFFICES ASSUME CorpusInv, report = "spillover"
             PROVE  EdgesAddUp
  BY DEF EdgesAddUp
<1>1. \A e \in AllEdges(corpus) : EdgeBooks(e)
  BY EdgeBalances DEF AllEdges
<1>2. \A e \in SpilloverEdges(corpus) : e.pivots # {}
  BY <1>1 DEF SpilloverEdges, EdgeBooks
<1> QED BY <1>1, <1>2, SeriesCounts DEF EdgesAddUp, EdgeBooks

-----------------------------------------------------------------------------
(* Scopes (sentiment_dispersion.py, intensity.py). *)

\* Finitely many rows name finitely many things.
LEMMA NamesAreFinite ==
    ASSUME CorpusInv, NEW S \in SUBSET Filled(corpus), NEW f, \A s \in S : IsFiniteSet(f[s])
    PROVE  IsFiniteSet(UNION {f[s] : s \in S})
<1>1. IsFiniteSet(S)
  BY CorpusFinite, FS_Subset
<1>2. IsFiniteSet({f[s] : s \in S})
  BY <1>1, ImageIsFinite
<1>3. \A T \in {f[s] : s \in S} : IsFiniteSet(T)
  OBVIOUS
<1> QED BY <1>2, <1>3, FS_UNION

\* The rows of the intensity report and of the dispersion.
LEMMA ScopedRows ==
    ASSUME CorpusInv, report \in {"momentum", "scopes"}
    PROVE  /\ \A s \in Filled(corpus) :
                 /\ s.score \in Int /\ s.relevance \in Nat /\ s.at \in Int
                 /\ RecordIntensity(s) \in Nat
                 /\ IsFiniteSet(s.assets) /\ IsFiniteSet(s.symbols)
                 /\ Cardinality(s.assets) \in Nat
           /\ IsFiniteSet(Scopes(corpus))
           /\ \A s \in Filled(corpus) : s.assets \subseteq Scopes(corpus)
           /\ \A a \in Scopes(corpus) : Scoped(corpus, a) \in SUBSET Filled(corpus)
<1>1. \A s \in Filled(corpus) :
          /\ s.score \in Int /\ s.relevance \in Nat /\ s.at \in Int
          /\ IsFiniteSet(s.assets) /\ IsFiniteSet(s.symbols)
  BY CorpusFinite, SentimentAssumption DEF CorpusInv
<1>2. \A s \in Filled(corpus) : RecordIntensity(s) \in Nat /\ Cardinality(s.assets) \in Nat
  <2>1. \A s \in Filled(corpus) : Abs(s.score) \in Nat
    BY <1>1, AbsType
  <2>3. \A s \in Filled(corpus) : RecordIntensity(s) \in Nat
    BY <1>1, <2>1, NatTimes DEF RecordIntensity
  <2> QED BY <1>1, <2>3, FS_CardinalityType
<1>3. IsFiniteSet(Scopes(corpus))
  <2> DEFINE f == [s \in Filled(corpus) |-> s.assets]
  <2>1. \A s \in Filled(corpus) : IsFiniteSet(f[s])
    BY <1>1
  <2>2. Scopes(corpus) = UNION {f[s] : s \in Filled(corpus)}
    BY DEF Scopes
  <2>3. Filled(corpus) \in SUBSET Filled(corpus)
    OBVIOUS
  <2> HIDE DEF f
  <2> QED BY <2>1, <2>2, <2>3, NamesAreFinite
<1> QED BY <1>1, <1>2, <1>3 DEF Scopes, Scoped

\* A sum over scopes counts a row once for every asset it names.
LEMMA ScopesCover ==
    ASSUME CorpusInv, report = "scopes",
           NEW f, \A s \in Filled(corpus) : f[s] \in Nat,
           NEW h, \A a \in Scopes(corpus) :
                     h[a] = SumOver([s \in Scoped(corpus, a) |-> corpus[s] * f[s]], Scoped(corpus, a)),
           NEW w, \A s \in Filled(corpus) : w[s] = corpus[s] * (Cardinality(s.assets) * f[s])
    PROVE  SumOver(h, Scopes(corpus)) = SumOver(w, Filled(corpus))
<1> DEFINE S == Filled(corpus)
           K == Scopes(corpus)
           part == [a \in K |-> Scoped(corpus, a)]
           of == [s \in S |-> s.assets]
           g == [s \in S |-> corpus[s] * f[s]]
<1>1. IsFiniteSet(S) /\ \A s \in S : corpus[s] \in Nat
  BY CorpusFinite
<1>2. IsFiniteSet(K) /\ (\A s \in S : of[s] \subseteq K) /\ (\A a \in K : part[a] \subseteq S)
  BY ScopedRows
<1>3. \A s \in S : \A a \in K : s \in part[a] <=> a \in of[s]
  BY DEF Scoped
<1>4. \A s \in S : g[s] \in Int
  <2>1. \A s \in S : corpus[s] * f[s] \in Nat
    BY <1>1, NatTimes
  <2> QED BY <2>1
<1>5. \A a \in K : h[a] = SumOver(g, part[a])
  <2> SUFFICES ASSUME NEW a \in K
               PROVE  h[a] = SumOver(g, part[a])
    OBVIOUS
  <2> DEFINE v == [s \in part[a] |-> corpus[s] * f[s]]
  <2>1. part[a] \in SUBSET S /\ part[a] = Scoped(corpus, a)
    BY <1>2
  <2>2. \A s \in part[a] : v[s] \in Int /\ v[s] = g[s]
    BY <1>4, <2>1
  <2>3. h[a] = SumOver(v, part[a])
    BY <2>1
  <2>4. IsFiniteSet(part[a])
    BY <1>1, <2>1, FS_Subset
  <2> HIDE DEF v, g, part, S, K
  <2> QED BY <2>2, <2>3, <2>4, SumSame
<1>6. \A s \in S : w[s] = g[s] * Cardinality(of[s])
  <2> SUFFICES ASSUME NEW s \in S
               PROVE  w[s] = g[s] * Cardinality(of[s])
    OBVIOUS
  <2>1. corpus[s] \in Int /\ f[s] \in Int /\ Cardinality(s.assets) \in Int
    <3>1. Cardinality(s.assets) \in Nat /\ corpus[s] \in Nat /\ f[s] \in Nat
      BY <1>1, ScopedRows
    <3> QED BY <3>1
  <2>2. corpus[s] * (Cardinality(s.assets) * f[s]) = (corpus[s] * f[s]) * Cardinality(s.assets)
    BY <2>1, TimesSwap
  <2>3. g[s] = corpus[s] * f[s] /\ of[s] = s.assets
    OBVIOUS
  <2> HIDE DEF g, of
  <2> QED BY <2>2, <2>3
<1> HIDE DEF S, K, part, of, g
<1>7. SumOver(h, K) = SumOver(w, S)
  BY <1>1, <1>2, <1>3, <1>4, <1>5, <1>6, SumCover
<1> QED BY <1>7 DEF S, K

\* The strongest record of a group, the count of the strong ones, and the drill-down.
LEMMA StrongestRow ==
    ASSUME CorpusInv, report = "scopes", NEW S \in SUBSET Filled(corpus), S # {}
    PROVE  LET I == Intensity(corpus, S) IN
           /\ I.max \in Nat /\ \A s \in S : RecordIntensity(s) <= I.max
           /\ \E s \in S : RecordIntensity(s) = I.max
           /\ I.high > 0 <=> I.max > 50
           /\ \E s \in TopRecords(corpus, S) : RecordIntensity(s) = I.max
<1> DEFINE f == [s \in S |-> RecordIntensity(s)]
           V == {0} \cup {RecordIntensity(s) : s \in S}
           I == Intensity(corpus, S)
           strong == {s \in S : RecordIntensity(s) > 50}
<1>1. \A s \in S : RecordIntensity(s) \in Nat
  BY ScopedRows
<1>v. V \in SUBSET Nat /\ 0 \in V /\ (\A s \in S : RecordIntensity(s) \in V)
      /\ \A x \in V : x # 0 => \E s \in S : x = RecordIntensity(s)
  <2>1. V \in SUBSET Nat
    BY <1>1
  <2>2. 0 \in V /\ (\A s \in S : RecordIntensity(s) \in V)
    OBVIOUS
  <2>3. \A x \in V : x # 0 => \E s \in S : x = RecordIntensity(s)
    OBVIOUS
  <2> QED BY <2>1, <2>2, <2>3
<1>2. V \in SUBSET Int /\ IsFiniteSet(V) /\ V # {}
  <2>1. {f[s] : s \in S} = {RecordIntensity(s) : s \in S}
    OBVIOUS
  <2>2. IsFiniteSet(S)
    BY CorpusFinite, FS_Subset
  <2>3. IsFiniteSet({f[s] : s \in S})
    BY <2>2, ImageIsFinite
  <2>4. IsFiniteSet({RecordIntensity(s) : s \in S} \cup {0})
    BY <2>1, <2>3, FS_AddElement
  <2>5. V = {RecordIntensity(s) : s \in S} \cup {0}
    OBVIOUS
  <2>6. V \in SUBSET Int /\ V # {}
    BY <1>v
  <2> HIDE DEF V
  <2> QED BY <2>4, <2>5, <2>6
<1>3. I.max = Max(V) /\ I.high = Tally(corpus, strong)
  BY DEF Intensity
<1>4. Max(V) \in V /\ \A x \in V : x <= Max(V)
  <2> HIDE DEF V
  <2> QED BY <1>2, Extremes
<1> HIDE DEF V
<1>5. Max(V) \in Nat /\ \A s \in S : RecordIntensity(s) <= Max(V)
  BY <1>v, <1>4
<1>6. PICK top \in S : RecordIntensity(top) = Max(V)
  <2>1. PICK s \in S : TRUE
    OBVIOUS
  <2>2. CASE Max(V) = 0
    <3>1. RecordIntensity(s) \in Nat /\ RecordIntensity(s) <= 0
      BY <1>1, <1>5, <2>1, <2>2
    <3> QED BY <2>2, <3>1
  <2>3. CASE Max(V) # 0
    BY <1>v, <1>4, <2>3
  <2> QED BY <2>2, <2>3
<1>7. I.high > 0 <=> I.max > 50
  <2>1. strong \in SUBSET Filled(corpus)
    OBVIOUS
  <2>2. Tally(corpus, strong) \in Nat /\ (Tally(corpus, strong) = 0 <=> strong = {})
    <3> HIDE DEF strong
    <3> QED BY <2>1, TallyFacts
  <2>3. strong # {} <=> Max(V) > 50
    <3>1. ASSUME NEW s \in strong PROVE Max(V) > 50
      <4>1. s \in S /\ RecordIntensity(s) > 50
        OBVIOUS
      <4>2. RecordIntensity(s) \in Nat /\ RecordIntensity(s) <= Max(V) /\ Max(V) \in Nat
        BY <1>1, <1>5, <4>1
      <4> QED BY <4>1, <4>2
    <3>2. Max(V) > 50 => top \in strong
      BY <1>5, <1>6
    <3> QED BY <3>1, <3>2
  <2> HIDE DEF strong, V, I
  <2> QED BY <1>3, <2>2, <2>3
<1>8. top \in TopRecords(corpus, S)
  <2>1. \A x \in S : ~ (RecordIntensity(x) > RecordIntensity(top))
    BY <1>1, <1>5, <1>6
  <2>2. {x \in S : RecordIntensity(x) > RecordIntensity(top)} = {}
    BY <2>1
  <2>3. Tally(corpus, {}) = 0
    BY TallyIsSum, SumEmpty
  <2> QED BY <2>2, <2>3 DEF TopRecords
<1> HIDE DEF V, f, strong
<1> QED BY <1>3, <1>5, <1>6, <1>7, <1>8

\* The three labels share the rows of a scope out among them, and leave some.
LEMMA LabelsShare ==
    ASSUME CorpusInv, NEW S \in SUBSET Filled(corpus)
    PROVE  /\ \A l \in {"positive", "neutral", "negative"} : WithLabel(corpus, S, l) \in Nat
           /\ WithLabel(corpus, S, "positive") + WithLabel(corpus, S, "neutral")
                + WithLabel(corpus, S, "negative") <= Tally(corpus, S)
<1> DEFINE L(l) == {s \in S : s.label = l}
<1>1. \A l : L(l) \in SUBSET S
  OBVIOUS
<1>2. \A l : WithLabel(corpus, S, l) = Tally(corpus, L(l))
  BY DEF WithLabel
<1>3. L("positive") \cap L("neutral") = {} /\ (L("positive") \cup L("neutral")) \cap L("negative") = {}
  OBVIOUS
<1>4. L("positive") \cup L("neutral") \in SUBSET S
      /\ (L("positive") \cup L("neutral")) \cup L("negative") \in SUBSET S
  OBVIOUS
<1> HIDE DEF L
<1>5. Tally(corpus, L("positive") \cup L("neutral"))
        = Tally(corpus, L("positive")) + Tally(corpus, L("neutral"))
  BY <1>1, <1>3, TallyUnion
<1>6. Tally(corpus, (L("positive") \cup L("neutral")) \cup L("negative"))
        = Tally(corpus, L("positive") \cup L("neutral")) + Tally(corpus, L("negative"))
  BY <1>1, <1>3, <1>4, TallyUnion
<1>7. Tally(corpus, (L("positive") \cup L("neutral")) \cup L("negative")) <= Tally(corpus, S)
  BY <1>4, TallyFacts
<1>8. \A l : Tally(corpus, L(l)) \in Nat
  BY <1>1, TallyFacts
<1>9. Tally(corpus, S) \in Nat
  BY TallyFacts
<1> QED BY <1>2, <1>5, <1>6, <1>7, <1>8, <1>9

\* What ScopesAddUp says of one scope.
LEMMA ScopeBalances ==
    ASSUME CorpusInv, report = "scopes", NEW a \in Scopes(corpus)
    PROVE  LET all == Intensity(corpus, Filled(corpus))
               I == Intensity(corpus, Scoped(corpus, a))
           IN  /\ I.max <= all.max /\ I.high <= all.high
               /\ I.high > 0 <=> I.max > 50
               /\ \E s \in TopRecords(corpus, Scoped(corpus, a)) : RecordIntensity(s) = I.max
               /\ Dispersion(corpus, Scoped(corpus, a)).size <= I.size
<1> DEFINE S == Scoped(corpus, a)
           F == Filled(corpus)
           all == Intensity(corpus, F)
           I == Intensity(corpus, S)
<1>1. S \in SUBSET F /\ S # {} /\ F \in SUBSET F /\ F # {}
  BY DEF Scopes, Scoped
<1> HIDE DEF S, F
<1>2. /\ all.max \in Nat /\ \A s \in F : RecordIntensity(s) <= all.max
      /\ I.max \in Nat
      /\ \E s \in S : RecordIntensity(s) = I.max
      /\ I.high > 0 <=> I.max > 50
      /\ \E s \in TopRecords(corpus, S) : RecordIntensity(s) = I.max
  BY <1>1, StrongestRow DEF F
<1>3. I.max <= all.max
  BY <1>1, <1>2
<1>4. I.high <= all.high
  <2> DEFINE strong(T) == {s \in T : RecordIntensity(s) > 50}
  <2>1. strong(S) \in SUBSET strong(F) /\ strong(F) \in SUBSET F
    BY <1>1
  <2>2. I.high = Tally(corpus, strong(S)) /\ all.high = Tally(corpus, strong(F))
    BY DEF Intensity
  <2> HIDE DEF strong, I, all
  <2> QED BY <2>1, <2>2, TallyFacts DEF F
<1>5. Dispersion(corpus, S).size <= I.size
  <2>1. I.size = Tally(corpus, S)
    BY DEF Intensity
  <2>2. Dispersion(corpus, S).size = WithLabel(corpus, S, "positive") + WithLabel(corpus, S, "neutral")
                                       + WithLabel(corpus, S, "negative")
    BY DEF Dispersion
  <2>3. S \in SUBSET Filled(corpus)
    BY <1>1 DEF F
  <2> HIDE DEF I
  <2> QED BY <2>1, <2>2, <2>3, LabelsShare
<1> QED BY <1>2, <1>3, <1>4, <1>5 DEF S, F

\* The scopes of tone and intensity account for every row.
LEMMA ScopesBalance == CorpusInv => ScopesAddUp
<1> SUFFICES ASSUME CorpusInv, report = "scopes"
             PROVE  ScopesAddUp
  BY DEF ScopesAddUp
<1> DEFINE K == Scopes(corpus)
           F == Filled(corpus)
           by == IntensityByScope(corpus)
           ones == [s \in F |-> 1]
           strength == [s \in F |-> RecordIntensity(s)]
           size == [a \in K |-> by[a].size]
           total == [a \in K |-> by[a].total]
           wsize == [s \in F |-> corpus[s] * (Cardinality(s.assets) * 1)]
           wtotal == [s \in F |-> corpus[s] * (Cardinality(s.assets) * RecordIntensity(s))]
<1>1. \A a \in K : by[a] = Intensity(corpus, Scoped(corpus, a))
                   /\ DispersionByScope(corpus)[a] = Dispersion(corpus, Scoped(corpus, a))
  BY DEF IntensityByScope, DispersionByScope
<1>2. \A s \in F : ones[s] = 1 /\ strength[s] = RecordIntensity(s) /\ ones[s] \in Nat /\ strength[s] \in Nat
                   /\ corpus[s] \in Nat
  BY ScopedRows, CorpusFinite
<1>3. \A a \in K : Scoped(corpus, a) \in SUBSET F
  BY ScopedRows
<1>4. SumOver(size, K) = SumOver(wsize, F)
  <2>1. ASSUME NEW a \in K
        PROVE  size[a] = SumOver([s \in Scoped(corpus, a) |-> corpus[s] * ones[s]], Scoped(corpus, a))
    <3> DEFINE S == Scoped(corpus, a)
               g == [s \in S |-> corpus[s] * ones[s]]
    <3>1. size[a] = Tally(corpus, S)
      <4>1. Intensity(corpus, S).size = Tally(corpus, S)
        BY DEF Intensity
      <4>2. size[a] = by[a].size /\ by[a] = Intensity(corpus, S)
        BY <1>1
      <4> HIDE DEF size, by, S
      <4> QED BY <4>1, <4>2
    <3>2. S \in SUBSET F
      BY <1>3
    <3>3. \A s \in S : corpus[s] \in Int /\ corpus[s] = g[s]
      BY <1>2, <3>2
    <3>4. IsFiniteSet(S)
      BY <3>2, TallyFacts
    <3> HIDE DEF S, g, size
    <3>5. SumOver(corpus, S) = SumOver(g, S)
      BY <3>3, <3>4, SumSame
    <3> QED BY <3>1, <3>5, TallyIsSum DEF S, g
  <2>2. \A s \in F : wsize[s] = corpus[s] * (Cardinality(s.assets) * ones[s])
    BY <1>2
  <2>3. \A s \in F : ones[s] \in Nat
    BY <1>2
  <2> HIDE DEF size, wsize, ones
  <2> QED BY <2>1, <2>2, <2>3, ScopesCover
<1>5. SumOver(total, K) = SumOver(wtotal, F)
  <2>1. ASSUME NEW a \in K
        PROVE  total[a] = SumOver([s \in Scoped(corpus, a) |-> corpus[s] * strength[s]], Scoped(corpus, a))
    <3> DEFINE S == Scoped(corpus, a)
               g == [s \in S |-> corpus[s] * strength[s]]
               v == [s \in S |-> corpus[s] * RecordIntensity(s)]
    <3>1. total[a] = SumOver(v, S)
      <4>1. Intensity(corpus, S).total = Total(corpus, S, RecordIntensity)
        BY DEF Intensity
      <4>2. Total(corpus, S, RecordIntensity) = SumOver(v, S)
        BY Sums DEF Total
      <4>3. total[a] = by[a].total /\ by[a] = Intensity(corpus, S)
        BY <1>1
      <4> HIDE DEF total, by, S, v
      <4> QED BY <4>1, <4>2, <4>3
    <3>2. S \in SUBSET F
      BY <1>3
    <3>3. \A s \in S : v[s] \in Int /\ v[s] = g[s]
      BY <1>2, <3>2
    <3>4. IsFiniteSet(S)
      BY <3>2, TallyFacts
    <3> HIDE DEF S, g, v, total
    <3>5. SumOver(v, S) = SumOver(g, S)
      BY <3>3, <3>4, SumSame
    <3> QED BY <3>1, <3>5 DEF S, g
  <2>2. \A s \in F : wtotal[s] = corpus[s] * (Cardinality(s.assets) * strength[s])
    BY <1>2
  <2>3. \A s \in F : strength[s] \in Nat
    BY <1>2
  <2> HIDE DEF total, wtotal, strength
  <2> QED BY <2>1, <2>2, <2>3, ScopesCover
<1>6. \A a \in K :
        LET all == Intensity(corpus, F) IN
        /\ by[a].max <= all.max /\ by[a].high <= all.high
        /\ by[a].high > 0 <=> by[a].max > 50
        /\ \E s \in TopRecords(corpus, Scoped(corpus, a)) : RecordIntensity(s) = by[a].max
        /\ DispersionByScope(corpus)[a].size <= by[a].size
  <2> HIDE DEF by
  <2> QED BY <1>1, ScopeBalances
<1>7. SumOf(size, K) = Total(corpus, F, LAMBDA s : Cardinality(s.assets) * 1)
  BY <1>4, Sums DEF Total
<1>8. SumOf(total, K) = Total(corpus, F, LAMBDA s : Cardinality(s.assets) * RecordIntensity(s))
  BY <1>5, Sums DEF Total
<1> QED BY <1>6, <1>7, <1>8 DEF ScopesAddUp

-----------------------------------------------------------------------------
(* The clock (market_time.py, arrival_heatmap.py). *)

\* The cell of the heatmap a row is counted in.
CellOf(s) == <<s.weekday, s.minute \div 60>>

\* A row of the clock has an hour of one of the seven days.
LEMMA ClockRows ==
    ASSUME CorpusInv, report = "clock", NEW s \in Filled(corpus)
    PROVE  /\ s.weekday \in 0..6 /\ s.minute \in 0..1439 /\ s.minute \div 60 \in 0..23
           /\ CellOf(s) \in (0..6) \X (0..23)
<1>1. s.weekday \in 0..6 /\ s.minute \in 0..1439
  BY CorpusFinite, MixAssumption DEF CorpusInv
<1>2. s.minute \div 60 \in 0..23
  BY <1>1
<1> QED BY <1>1, <1>2 DEF CellOf

\* Minutes and hours of a day.
LEMMA Hours ==
    ASSUME NEW m \in 0..1439, NEW h, h = m \div 60
    PROVE  /\ h \in 0..23
           /\ m < 1080 <=> h <= 17
           /\ m < 240 <=> h <= 3
           /\ m < 1200 <=> h < 20
<1>1. h \in Int /\ 60 * h <= m /\ m < 60 * h + 60
  OBVIOUS
<1> QED BY <1>1

\* The session of a row is told by its cell, at the borders the reports draw.
LEMMA SessionOfCell ==
    ASSUME CorpusInv, report = "clock", NEW s \in Filled(corpus)
    PROVE  LET session == ClassifySession(s.weekday, s.minute) IN
           /\ session \in {"weekend", "overnight", "pre_open", "open", "lunch", "close", "after_hours"}
           /\ session = "weekend" <=> CellOf(s) \in ({5} \X (0..23)) \cup ({6} \X (0..17))
           /\ session = "overnight" <=>
                 CellOf(s) \in ((0..4) \X ((0..3) \cup (20..23))) \cup ({6} \X (20..23))
<1> DEFINE w == s.weekday
           m == s.minute
           h == m \div 60
           session == ClassifySession(w, m)
<1>1. w \in 0..6 /\ m \in 0..1439 /\ h \in 0..23 /\ CellOf(s) = <<w, h>>
  <2>1. s.weekday \in 0..6 /\ s.minute \in 0..1439 /\ s.minute \div 60 \in 0..23
    BY ClockRows
  <2> QED BY <2>1 DEF CellOf
<1>2. /\ m < 1080 <=> h <= 17
      /\ m < 240 <=> h <= 3
      /\ m < 1200 <=> h < 20
  <2>1. h = m \div 60
    OBVIOUS
  <2> HIDE DEF m, h, w, session
  <2> QED BY <1>1, <2>1, Hours
<1>3. session = IF w = 5 \/ (w = 6 /\ m < 1080) THEN "weekend"
                ELSE IF m < 240 THEN "overnight" ELSE IF m < 570 THEN "pre_open"
                ELSE IF m < 660 THEN "open" ELSE IF m < 840 THEN "lunch"
                ELSE IF m < 990 THEN "close" ELSE IF m < 1200 THEN "after_hours" ELSE "overnight"
  BY DEF ClassifySession
<1> HIDE DEF w, m, h, session
<1>4. session \in {"weekend", "overnight", "pre_open", "open", "lunch", "close", "after_hours"}
  BY <1>3
<1>5. session = "weekend" <=> w = 5 \/ (w = 6 /\ h <= 17)
  BY <1>2, <1>3
<1>6. session = "overnight" <=> (w # 5 /\ ~ (w = 6 /\ h <= 17) /\ (h <= 3 \/ ~ (h < 20)))
  <2>1. ~ (m < 1200) => ~ (m < 240) /\ ~ (m < 570) /\ ~ (m < 660) /\ ~ (m < 840) /\ ~ (m < 990)
    BY <1>1
  <2>2. session = "overnight" <=>
            (w # 5 /\ ~ (w = 6 /\ m < 1080) /\ (m < 240 \/ ~ (m < 1200)))
    BY <1>3, <2>1
  <2> QED BY <1>2, <2>2
<1>7. <<w, h>> \in ({5} \X (0..23)) \cup ({6} \X (0..17)) <=> w = 5 \/ (w = 6 /\ h <= 17)
  BY <1>1
<1>8. <<w, h>> \in ((0..4) \X ((0..3) \cup (20..23))) \cup ({6} \X (20..23))
        <=> (w # 5 /\ ~ (w = 6 /\ h <= 17) /\ (h <= 3 \/ ~ (h < 20)))
  BY <1>1
<1> QED BY <1>1, <1>4, <1>5, <1>6, <1>7, <1>8 DEF w, m, h, session

\* Some cells of the heatmap count the rows that fall in them.
LEMMA CellsCount ==
    ASSUME CorpusInv, report = "clock", NEW C \in SUBSET ((0..6) \X (0..23))
    PROVE  SumOf(Heatmap(corpus), C) = Tally(corpus, {s \in Filled(corpus) : CellOf(s) \in C})
<1> DEFINE S == {s \in Filled(corpus) : CellOf(s) \in C}
           g == [s \in S |-> CellOf(s)]
           part == [c \in C |-> {s \in Filled(corpus) : s.weekday = c[1] /\ s.minute \div 60 = c[2]}]
           grid == Heatmap(corpus)
<1>1. IsFiniteSet(S) /\ \A s \in S : corpus[s] \in Int
  BY CorpusFinite, FS_Subset
<1>2. IsFiniteSet(C)
  <2>1. IsFiniteSet(0..6) /\ IsFiniteSet(0..23)
    <3>1. 0 \in Int /\ 6 \in Int /\ 23 \in Int
      OBVIOUS
    <3> QED BY <3>1, FS_Interval
  <2>2. IsFiniteSet((0..6) \X (0..23))
    BY <2>1, FS_Product
  <2> QED BY <2>2, FS_Subset
<1>3. \A s \in S : g[s] \in C
  OBVIOUS
<1>4. \A s \in Filled(corpus) : \A c \in C :
          (s.weekday = c[1] /\ s.minute \div 60 = c[2]) <=> CellOf(s) = c
  BY DEF CellOf
<1>5. (\A c \in C : part[c] \subseteq S) /\ \A s \in S : \A c \in C : s \in part[c] <=> g[s] = c
  BY <1>4
<1>6. \A c \in C : grid[c] = SumOver(corpus, part[c])
  BY TallyIsSum DEF Heatmap
<1> HIDE DEF S, g, part, grid
<1>7. SumOver(grid, C) = SumOver(corpus, S)
  BY <1>1, <1>2, <1>3, <1>5, <1>6, SumParts
<1> QED BY <1>7, Sums, TallyIsSum DEF S, grid

\* The sessions share all rows out among them.
LEMMA SessionsCount ==
    ASSUME CorpusInv, report = "clock"
    PROVE  LET table == Sessions(corpus) IN
           SumOf([x \in DOMAIN table |-> table[x].volume], DOMAIN table) = Tally(corpus, Filled(corpus))
<1> DEFINE table == Sessions(corpus)
           K == {"weekend", "overnight", "pre_open", "open", "lunch", "close", "after_hours"}
           F == Filled(corpus)
           g == [s \in F |-> ClassifySession(s.weekday, s.minute)]
           part == [x \in K |-> {s \in F : ClassifySession(s.weekday, s.minute) = x}]
           h == [x \in DOMAIN table |-> table[x].volume]
<1>1. IsFiniteSet(F) /\ \A s \in F : corpus[s] \in Int
  BY CorpusFinite
<1>2. IsFiniteSet(K)
  <2> DEFINE names == <<"weekend", "overnight", "pre_open", "open", "lunch", "close", "after_hours">>
  <2>1. IsFiniteSet(1..7)
    <3>1. 1 \in Int /\ 7 \in Int
      OBVIOUS
    <3> QED BY <3>1, FS_Interval
  <2>2. K = {names[i] : i \in 1..7}
    OBVIOUS
  <2> HIDE DEF names, K
  <2>3. IsFiniteSet({names[i] : i \in 1..7})
    BY <2>1, ImageIsFinite
  <2> QED BY <2>2, <2>3
<1>3. \A s \in F : g[s] \in K
  BY SessionOfCell
<1>4. (\A x \in K : part[x] \subseteq F) /\ \A s \in F : \A x \in K : s \in part[x] <=> g[s] = x
  OBVIOUS
<1>5. DOMAIN table = K /\ \A x \in K : table[x].volume = Tally(corpus, part[x])
  BY DEF Sessions
<1>6. \A x \in K : h[x] = SumOver(corpus, part[x])
  BY <1>5, TallyIsSum
<1> HIDE DEF F, K, g, part, h, table
<1>7. SumOver(h, K) = SumOver(corpus, F)
  BY <1>1, <1>2, <1>3, <1>4, <1>6, SumParts
<1> QED BY <1>5, <1>7, Sums, TallyIsSum DEF F, h, table

\* What TablesAddUp says of the clock.
LEMMA ClockAgrees ==
    ASSUME CorpusInv, report = "clock"
    PROVE  LET grid == Heatmap(corpus)
               table == Sessions(corpus)
           IN  /\ SumOf(grid, DOMAIN grid) = SumOf([x \in DOMAIN table |-> table[x].volume], DOMAIN table)
               /\ table["weekend"].volume = SumOf(grid, ({5} \X (0..23)) \cup ({6} \X (0..17)))
               /\ table["overnight"].volume =
                     SumOf(grid, ((0..4) \X ((0..3) \cup (20..23))) \cup ({6} \X (20..23)))
               /\ \A cell \in Peaks(corpus) : grid[cell] >= 1
<1> DEFINE grid == Heatmap(corpus)
           table == Sessions(corpus)
           All == (0..6) \X (0..23)
           End == ({5} \X (0..23)) \cup ({6} \X (0..17))
           Night == ((0..4) \X ((0..3) \cup (20..23))) \cup ({6} \X (20..23))
           Of(x) == {s \in Filled(corpus) : ClassifySession(s.weekday, s.minute) = x}
           InsideOf(C) == {s \in Filled(corpus) : CellOf(s) \in C}
<1>1. DOMAIN grid = All /\ \A c \in All : grid[c] \in Nat
  <2>1. \A c \in All : {s \in Filled(corpus) : s.weekday = c[1] /\ s.minute \div 60 = c[2]}
                         \in SUBSET Filled(corpus)
    OBVIOUS
  <2>2. DOMAIN grid = All
        /\ \A c \in All : grid[c]
             = Tally(corpus, {s \in Filled(corpus) : s.weekday = c[1] /\ s.minute \div 60 = c[2]})
    BY DEF Heatmap
  <2> QED BY <2>1, <2>2, TallyFacts
<1>2. SumOf(grid, All) = SumOf([x \in DOMAIN table |-> table[x].volume], DOMAIN table)
  <2>1. InsideOf(All) = Filled(corpus)
    BY ClockRows
  <2>2. All \in SUBSET All
    OBVIOUS
  <2> HIDE DEF All, InsideOf
  <2>3. SumOf(grid, All) = Tally(corpus, InsideOf(All))
    BY <2>2, CellsCount DEF All, InsideOf
  <2> QED BY <2>1, <2>3, SessionsCount
<1>3. table["weekend"].volume = SumOf(grid, End)
  <2>1. Of("weekend") = InsideOf(End)
    BY SessionOfCell
  <2>2. End \in SUBSET All
    OBVIOUS
  <2>3. table["weekend"].volume = Tally(corpus, Of("weekend"))
    BY DEF Sessions
  <2> HIDE DEF End, All
  <2>4. SumOf(grid, End) = Tally(corpus, InsideOf(End))
    BY <2>2, CellsCount DEF All
  <2> QED BY <2>1, <2>3, <2>4
<1>4. table["overnight"].volume = SumOf(grid, Night)
  <2>1. Of("overnight") = InsideOf(Night)
    BY SessionOfCell
  <2>2. Night \in SUBSET All
    OBVIOUS
  <2>3. table["overnight"].volume = Tally(corpus, Of("overnight"))
    BY DEF Sessions
  <2> HIDE DEF Night, All
  <2>4. SumOf(grid, Night) = Tally(corpus, InsideOf(Night))
    BY <2>2, CellsCount DEF All
  <2> QED BY <2>1, <2>3, <2>4
<1>5. \A cell \in Peaks(corpus) : grid[cell] >= 1
  <2> SUFFICES ASSUME NEW cell \in Peaks(corpus)
               PROVE  grid[cell] >= 1
    OBVIOUS
  <2>1. cell \in DOMAIN grid /\ grid[cell] # 0
    BY DEF Peaks
  <2> HIDE DEF grid
  <2> QED BY <1>1, <2>1
<1> QED BY <1>1, <1>2, <1>3, <1>4, <1>5

-----------------------------------------------------------------------------
(* Co-occurrence (co_occurrence.py). *)

\* What a row in sight says in a co-occurrence report.
LEMMA MixRows ==
    ASSUME CorpusInv, report = "mix", NEW s \in Filled(corpus)
    PROVE  /\ IsFiniteSet(s.assets) /\ IsFiniteSet(s.reasons) /\ IsFiniteSet(s.symbols)
           /\ s.at \in Int /\ corpus[s] \in Nat \ {0}
           /\ Cardinality(s.assets) \in Nat /\ Cardinality(s.reasons) \in Nat
<1>1. /\ IsFiniteSet(s.assets) /\ IsFiniteSet(s.reasons) /\ IsFiniteSet(s.symbols)
      /\ s.at \in Int
  BY CorpusFinite, MixAssumption DEF CorpusInv
<1> QED BY <1>1, CorpusFinite, FS_CardinalityType

\* What a row adds to a line of the table, to a column and to the table.
RowWeight == [s \in Both(corpus) |-> corpus[s] * Cardinality(s.reasons)]
ColWeight == [s \in Both(corpus) |-> corpus[s] * Cardinality(s.assets)]
PairWeight == [s \in Both(corpus) |-> corpus[s] * (Cardinality(s.assets) * Cardinality(s.reasons))]

\* What a row weighs in a table: once for every pair it names.
LEMMA Weights ==
    ASSUME CorpusInv, report = "mix"
    PROVE  /\ IsFiniteSet(Both(corpus)) /\ Both(corpus) \in SUBSET Filled(corpus)
           /\ \A s \in Both(corpus) :
                 /\ RowWeight[s] \in Nat /\ RowWeight[s] = corpus[s] * Cardinality(s.reasons)
                 /\ ColWeight[s] \in Nat /\ ColWeight[s] = corpus[s] * Cardinality(s.assets)
                 /\ PairWeight[s] = RowWeight[s] * Cardinality(s.assets)
                 /\ PairWeight[s] = ColWeight[s] * Cardinality(s.reasons)
                 /\ PairWeight[s] = corpus[s] * (Cardinality(s.assets) * Cardinality(s.reasons))
           /\ PairTotal(corpus) = SumOver(PairWeight, Both(corpus)) /\ PairTotal(corpus) \in Nat
<1>1. Both(corpus) \in SUBSET Filled(corpus) /\ IsFiniteSet(Both(corpus))
  <2>1. Both(corpus) \in SUBSET Filled(corpus)
    BY DEF Both
  <2> QED BY <2>1, TallyFacts
<1>2. ASSUME NEW s \in Both(corpus)
      PROVE  /\ RowWeight[s] \in Nat /\ RowWeight[s] = corpus[s] * Cardinality(s.reasons)
             /\ ColWeight[s] \in Nat /\ ColWeight[s] = corpus[s] * Cardinality(s.assets)
             /\ PairWeight[s] = RowWeight[s] * Cardinality(s.assets)
             /\ PairWeight[s] = ColWeight[s] * Cardinality(s.reasons)
             /\ PairWeight[s] = corpus[s] * (Cardinality(s.assets) * Cardinality(s.reasons))
             /\ PairWeight[s] \in Nat
  <2> DEFINE x == corpus[s]
             y == Cardinality(s.assets)
             z == Cardinality(s.reasons)
  <2>1. x \in Nat /\ y \in Nat /\ z \in Nat
    BY <1>1, MixRows
  <2>2. RowWeight[s] = x * z /\ ColWeight[s] = x * y /\ PairWeight[s] = x * (y * z)
    BY DEF RowWeight, ColWeight, PairWeight
  <2> HIDE DEF x, y, z
  <2>3. x * z \in Nat /\ x * y \in Nat /\ x * (y * z) \in Nat
        /\ x * (y * z) = (x * z) * y /\ x * (y * z) = (x * y) * z
    BY <2>1
  <2> QED BY <2>2, <2>3 DEF x, y, z
<1>3. PairTotal(corpus) = SumOver(PairWeight, Both(corpus))
  BY Sums DEF PairTotal, Total, PairWeight
<1>4. \A s \in Both(corpus) : PairWeight[s] \in Nat
  BY <1>2
<1>5. SumOver(PairWeight, Both(corpus)) \in Nat
  BY <1>1, <1>4, SumType
<1> QED BY <1>1, <1>2, <1>3, <1>5

\* A line's total, and a column's.
LEMMA LineTotals ==
    ASSUME CorpusInv, report = "mix", NEW a
    PROVE  /\ RowTotal(corpus, a) = SumOver(RowWeight, {s \in Both(corpus) : a \in s.assets})
           /\ ColTotal(corpus, a) = SumOver(ColWeight, {s \in Both(corpus) : a \in s.reasons})
           /\ RowTotal(corpus, a) \in Nat /\ ColTotal(corpus, a) \in Nat
<1> DEFINE S == {s \in Both(corpus) : a \in s.assets}
           T == {s \in Both(corpus) : a \in s.reasons}
           f == [s \in S |-> corpus[s] * Cardinality(s.reasons)]
           g == [s \in T |-> corpus[s] * Cardinality(s.assets)]
<1>1. RowTotal(corpus, a) = SumOver(f, S) /\ ColTotal(corpus, a) = SumOver(g, T)
  BY Sums DEF RowTotal, ColTotal, Total
<1>2. IsFiniteSet(S) /\ IsFiniteSet(T)
  BY Weights, FS_Subset
<1>3. /\ \A s \in S : f[s] \in Nat /\ f[s] \in Int /\ f[s] = RowWeight[s]
      /\ \A s \in T : g[s] \in Nat /\ g[s] \in Int /\ g[s] = ColWeight[s]
  BY Weights
<1> HIDE DEF S, T, f, g
<1>4. SumOver(f, S) = SumOver(RowWeight, S) /\ SumOver(g, T) = SumOver(ColWeight, T)
  BY <1>2, <1>3, SumSame
<1>5. SumOver(f, S) \in Nat /\ SumOver(g, T) \in Nat
  BY <1>2, <1>3, SumType
<1> QED BY <1>1, <1>4, <1>5 DEF S, T

\* The lines of the table add up to it, if none of its assets is left out.
LEMMA LinesAddUp ==
    ASSUME CorpusInv, report = "mix", NEW K, IsFiniteSet(K),
           \A s \in Both(corpus) : s.assets \subseteq K
    PROVE  SumOver([a \in K |-> RowTotal(corpus, a)], K) = PairTotal(corpus)
<1> DEFINE S == Both(corpus)
           part == [a \in K |-> {s \in S : a \in s.assets}]
           of == [s \in S |-> s.assets]
           h == [a \in K |-> RowTotal(corpus, a)]
<1>1. IsFiniteSet(S)
  BY Weights
<1>2. \A s \in S : \A a \in K : s \in part[a] <=> a \in of[s]
  OBVIOUS
<1>3. \A a \in K : part[a] \subseteq S
  OBVIOUS
<1>4. \A s \in S : of[s] \subseteq K
  OBVIOUS
<1>5. \A s \in S : RowWeight[s] \in Int
  BY Weights
<1>6. \A a \in K : h[a] = SumOver(RowWeight, part[a])
  BY LineTotals
<1>7. \A s \in S : PairWeight[s] = RowWeight[s] * Cardinality(of[s])
  BY Weights
<1> HIDE DEF S, part, of, h
<1>8. SumOver(h, K) = SumOver(PairWeight, S)
  BY <1>1, <1>2, <1>3, <1>4, <1>5, <1>6, <1>7, SumCover
<1> QED BY <1>8, Weights DEF S, h

\* And so do its columns.
LEMMA ColumnsAddUp ==
    ASSUME CorpusInv, report = "mix", NEW K, IsFiniteSet(K),
           \A s \in Both(corpus) : s.reasons \subseteq K
    PROVE  SumOver([r \in K |-> ColTotal(corpus, r)], K) = PairTotal(corpus)
<1> DEFINE S == Both(corpus)
           part == [r \in K |-> {s \in S : r \in s.reasons}]
           of == [s \in S |-> s.reasons]
           h == [r \in K |-> ColTotal(corpus, r)]
<1>1. IsFiniteSet(S)
  BY Weights
<1>2. \A s \in S : \A r \in K : s \in part[r] <=> r \in of[s]
  OBVIOUS
<1>3. \A r \in K : part[r] \subseteq S
  OBVIOUS
<1>4. \A s \in S : of[s] \subseteq K
  OBVIOUS
<1>5. \A s \in S : ColWeight[s] \in Int
  BY Weights
<1>6. \A r \in K : h[r] = SumOver(ColWeight, part[r])
  BY LineTotals
<1>7. \A s \in S : PairWeight[s] = ColWeight[s] * Cardinality(of[s])
  BY Weights
<1> HIDE DEF S, part, of, h
<1>8. SumOver(h, K) = SumOver(PairWeight, S)
  BY <1>1, <1>2, <1>3, <1>4, <1>5, <1>6, <1>7, SumCover
<1> QED BY <1>8, Weights DEF S, h

\* A and R are finite and have every asset and reason of the table.
Frames(A, R) ==
    /\ IsFiniteSet(A) /\ IsFiniteSet(R)
    /\ \A s \in Both(corpus) : s.assets \subseteq A /\ s.reasons \subseteq R

\* And its cells.
LEMMA CellsAddUp ==
    ASSUME CorpusInv, report = "mix", NEW A, NEW R, Frames(A, R)
    PROVE  SumOver([p \in A \X R |-> PairCount(corpus, p[1], p[2])], A \X R) = PairTotal(corpus)
<1> DEFINE S == Both(corpus)
           K == A \X R
           part == [p \in K |-> {s \in S : p[1] \in s.assets /\ p[2] \in s.reasons}]
           of == [s \in S |-> s.assets \X s.reasons]
           h == [p \in K |-> PairCount(corpus, p[1], p[2])]
<1>0. IsFiniteSet(K)
  BY FS_Product DEF Frames
<1>1. IsFiniteSet(S)
  BY Weights
<1>5. \A s \in S : corpus[s] \in Int
  BY Weights, CorpusFinite
<1>2. \A s \in S : \A p \in K : s \in part[p] <=> p \in of[s]
  OBVIOUS
<1>3. \A p \in K : part[p] \subseteq S
  OBVIOUS
<1>4. \A s \in S : of[s] \subseteq K
  BY DEF Frames
<1>6. \A p \in K : h[p] = SumOver(corpus, part[p])
  BY TallyIsSum DEF PairCount
<1>7. \A s \in S : PairWeight[s] = corpus[s] * Cardinality(of[s])
  <2> SUFFICES ASSUME NEW s \in S
               PROVE  PairWeight[s] = corpus[s] * Cardinality(of[s])
    OBVIOUS
  <2>1. IsFiniteSet(s.assets) /\ IsFiniteSet(s.reasons)
    BY Weights, MixRows
  <2>2. Cardinality(s.assets \X s.reasons) = Cardinality(s.assets) * Cardinality(s.reasons)
    BY <2>1, FS_Product
  <2> QED BY <2>2, Weights
<1> HIDE DEF S, part, of, h, K
<1>8. SumOver(h, K) = SumOver(PairWeight, S)
  BY <1>0, <1>1, <1>2, <1>3, <1>4, <1>5, <1>6, <1>7, SumCover
<1> QED BY <1>8, Weights DEF S, h, K

\* The assets and the reasons of the table.
TableAssets == {p[1] : p \in PairsNamed(corpus)}
TableReasons == {p[2] : p \in PairsNamed(corpus)}

\* The table has finitely many lines, columns and cells.
LEMMA TableIsFinite ==
    ASSUME CorpusInv, report = "mix"
    PROVE  Frames(TableAssets, TableReasons) /\ PairsNamed(corpus) \in SUBSET (TableAssets \X TableReasons)
<1> DEFINE A == UNION {s.assets : s \in Both(corpus)}
           R == UNION {s.reasons : s \in Both(corpus)}
           f == [s \in Both(corpus) |-> s.assets]
           g == [s \in Both(corpus) |-> s.reasons]
<1>1. IsFiniteSet(A) /\ IsFiniteSet(R)
  <2>1. \A s \in Both(corpus) : IsFiniteSet(f[s]) /\ IsFiniteSet(g[s])
    BY Weights, MixRows
  <2>2. A = UNION {f[s] : s \in Both(corpus)} /\ R = UNION {g[s] : s \in Both(corpus)}
    OBVIOUS
  <2>3. Both(corpus) \in SUBSET Filled(corpus)
    BY Weights
  <2> HIDE DEF A, R, f, g
  <2> QED BY <2>1, <2>2, <2>3, NamesAreFinite
<1>2. \A s \in Both(corpus) : \A a \in s.assets : \A r \in s.reasons : <<a, r>> \in PairsNamed(corpus)
  BY DEF PairsNamed
<1>3. \A s \in Both(corpus) : s.assets # {} /\ s.reasons # {}
  BY DEF Both
<1>4. \A s \in Both(corpus) : s.assets \subseteq TableAssets /\ s.reasons \subseteq TableReasons
  <2> SUFFICES ASSUME NEW s \in Both(corpus)
               PROVE  s.assets \subseteq TableAssets /\ s.reasons \subseteq TableReasons
    OBVIOUS
  <2>1. PICK a \in s.assets : TRUE
    BY <1>3
  <2>2. PICK r \in s.reasons : TRUE
    BY <1>3
  <2>3. \A b \in s.assets : <<b, r>> \in PairsNamed(corpus) /\ <<b, r>>[1] = b
    BY <1>2, <2>2
  <2>4. \A q \in s.reasons : <<a, q>> \in PairsNamed(corpus) /\ <<a, q>>[2] = q
    BY <1>2, <2>1
  <2> QED BY <2>3, <2>4 DEF TableAssets, TableReasons
<1>5. ASSUME NEW p \in PairsNamed(corpus)
      PROVE  p[1] \in A /\ p[2] \in R /\ p = <<p[1], p[2]>>
  <2>1. PICK s \in Both(corpus) : p \in s.assets \X s.reasons
    BY DEF PairsNamed
  <2> QED BY <2>1
<1>6. TableAssets \in SUBSET A /\ TableReasons \in SUBSET R
  <2> HIDE DEF A, R
  <2> QED BY <1>5 DEF TableAssets, TableReasons
<1>7. IsFiniteSet(TableAssets) /\ IsFiniteSet(TableReasons)
  <2> HIDE DEF A, R
  <2> QED BY <1>1, <1>6, FS_Subset
<1>8. PairsNamed(corpus) \in SUBSET (TableAssets \X TableReasons)
  BY <1>5 DEF TableAssets, TableReasons
<1> QED BY <1>4, <1>7, <1>8 DEF Frames

\* A count of a pair.
LEMMA PairCountType ==
    ASSUME CorpusInv, NEW a, NEW r
    PROVE  PairCount(corpus, a, r) \in Nat
<1>1. {s \in Both(corpus) : a \in s.assets /\ r \in s.reasons} \in SUBSET Filled(corpus)
  BY DEF Both
<1> QED BY <1>1, TallyFacts DEF PairCount

\* The cells that are shown count no more than the table.
LEMMA CellsShown ==
    ASSUME CorpusInv, report = "mix"
    PROVE  SumOf([x \in Cells(corpus) |-> x.count], Cells(corpus)) <= PairTotal(corpus)
<1> DEFINE K == TableAssets \X TableReasons
           Q == {q \in PairsNamed(corpus) : PairCount(corpus, q[1], q[2]) >= MinPairCount}
           cell(p) == [pair |-> p, count |-> PairCount(corpus, p[1], p[2]),
                       lift |-> <<PairCount(corpus, p[1], p[2]) * PairTotal(corpus),
                                  RowTotal(corpus, p[1]) * ColTotal(corpus, p[2])>>]
           m == [p \in Q |-> cell(p)]
           h == [p \in K |-> PairCount(corpus, p[1], p[2])]
           g == [x \in Cells(corpus) |-> x.count]
<1>1. IsFiniteSet(K) /\ Q \in SUBSET K
  <2>1. IsFiniteSet(TableAssets) /\ IsFiniteSet(TableReasons)
    BY TableIsFinite DEF Frames
  <2>2. IsFiniteSet(K)
    BY <2>1, FS_Product
  <2> QED BY <2>2, TableIsFinite
<1>2. IsFiniteSet(Q)
  <2> HIDE DEF Q, K
  <2> QED BY <1>1, FS_Subset
<1>3. \A p \in K : h[p] \in Nat /\ h[p] \in Int
  BY PairCountType
<1>4. \A x, y \in Q : m[x] = m[y] => x = y
  <2> SUFFICES ASSUME NEW x \in Q, NEW y \in Q, m[x] = m[y]
               PROVE  x = y
    OBVIOUS
  <2>1. m[x] = cell(x) /\ m[y] = cell(y)
    OBVIOUS
  <2>2. cell(x).pair = x /\ cell(y).pair = y
    OBVIOUS
  <2> HIDE DEF cell, Q, m
  <2> QED BY <2>1, <2>2
<1>5. Cells(corpus) = {m[p] : p \in Q}
  <2>1. Cells(corpus) = {cell(p) : p \in Q}
    BY DEF Cells
  <2>2. \A p \in Q : m[p] = cell(p)
    OBVIOUS
  <2> HIDE DEF cell, Q, m
  <2> QED BY <2>1, <2>2
<1>6. \A p \in Q : g[m[p]] = h[p]
  <2> SUFFICES ASSUME NEW p \in Q
               PROVE  g[m[p]] = h[p]
    OBVIOUS
  <2>1. m[p] = cell(p) /\ m[p] \in Cells(corpus)
    BY <1>5
  <2>2. cell(p).count = PairCount(corpus, p[1], p[2])
    OBVIOUS
  <2>3. p \in K
    BY <1>1
  <2>4. g[m[p]] = m[p].count /\ h[p] = PairCount(corpus, p[1], p[2])
    BY <2>1, <2>3
  <2> HIDE DEF cell, Q, m, g, h
  <2> QED BY <2>1, <2>2, <2>4
<1> HIDE DEF K, Q, cell, m, h, g
<1>7. \A p \in Q : g[m[p]] \in Int /\ h[p] = g[m[p]]
  BY <1>1, <1>3, <1>6
<1>8. SumOver(g, Cells(corpus)) = SumOver(h, Q)
  <2>1. SumOver(g, {m[p] : p \in Q}) = SumOver(h, Q)
    BY <1>2, <1>4, <1>7, SumImage
  <2> QED BY <1>5, <2>1
<1>9. SumOver(h, Q) <= SumOver(h, K)
  BY <1>1, <1>3, SumOfPart
<1>10. SumOver(h, K) = PairTotal(corpus)
  BY TableIsFinite, CellsAddUp DEF h, K
<1> QED BY <1>8, <1>9, <1>10, Sums DEF g

\* Both sides of the lift have the same total, so it is not above one only, nor below.
LEMMA LiftBalances ==
    ASSUME CorpusInv, report = "mix"
    PROVE  LET n == PairTotal(corpus)
               Over(p) == PairCount(corpus, p[1], p[2]) * n
               Expected(p) == RowTotal(corpus, p[1]) * ColTotal(corpus, p[2])
               all == TableAssets \X TableReasons
           IN  (\E p \in all : Over(p) > Expected(p)) <=> (\E p \in all : Over(p) < Expected(p))
<1> DEFINE n == PairTotal(corpus)
           K == TableAssets \X TableReasons
           h == [p \in K |-> PairCount(corpus, p[1], p[2])]
           over == [p \in K |-> PairCount(corpus, p[1], p[2]) * n]
           expected == [p \in K |-> RowTotal(corpus, p[1]) * ColTotal(corpus, p[2])]
           f == [a \in TableAssets |-> RowTotal(corpus, a)]
           g == [r \in TableReasons |-> ColTotal(corpus, r)]
<1>1. IsFiniteSet(TableAssets) /\ IsFiniteSet(TableReasons)
      /\ (\A s \in Both(corpus) : s.assets \subseteq TableAssets)
      /\ (\A s \in Both(corpus) : s.reasons \subseteq TableReasons)
  BY TableIsFinite DEF Frames
<1>2. IsFiniteSet(K) /\ n \in Nat
  BY <1>1, FS_Product, Weights
<1>3. SumOver(h, K) = n
  BY TableIsFinite, CellsAddUp
<1>4. SumOver(f, TableAssets) = n
  BY <1>1, LinesAddUp
<1>5. SumOver(g, TableReasons) = n
  BY <1>1, ColumnsAddUp
<1>6. \A p \in K : h[p] \in Int /\ over[p] = n * h[p]
  <2> SUFFICES ASSUME NEW p \in K
               PROVE  h[p] \in Int /\ over[p] = n * h[p]
    OBVIOUS
  <2>1. h[p] = PairCount(corpus, p[1], p[2]) /\ over[p] = PairCount(corpus, p[1], p[2]) * n
    OBVIOUS
  <2>2. h[p] \in Nat
    BY <2>1, PairCountType
  <2> HIDE DEF h, over, n
  <2> QED BY <1>2, <2>1, <2>2
<1>7. Tabulates(expected, f, TableAssets, g, TableReasons)
  <2>1. (\A a \in TableAssets : f[a] \in Int) /\ \A r \in TableReasons : g[r] \in Int
    <3>1. \A a : RowTotal(corpus, a) \in Nat /\ ColTotal(corpus, a) \in Nat
      BY LineTotals
    <3>2. \A a \in TableAssets : f[a] = RowTotal(corpus, a)
      OBVIOUS
    <3>3. \A r \in TableReasons : g[r] = ColTotal(corpus, r)
      OBVIOUS
    <3> HIDE DEF f, g
    <3> QED BY <3>1, <3>2, <3>3
  <2>2. \A a \in TableAssets : \A r \in TableReasons : expected[<<a, r>>] = f[a] * g[r]
    OBVIOUS
  <2> HIDE DEF expected, f, g
  <2> QED BY <2>1, <2>2 DEF Tabulates
<1>8. \A p \in K : expected[p] \in Int
  <2> SUFFICES ASSUME NEW p \in K
               PROVE  expected[p] \in Int
    OBVIOUS
  <2>1. expected[p] = RowTotal(corpus, p[1]) * ColTotal(corpus, p[2])
    OBVIOUS
  <2>2. RowTotal(corpus, p[1]) \in Nat /\ ColTotal(corpus, p[2]) \in Nat
    BY LineTotals
  <2> HIDE DEF expected
  <2> QED BY <2>1, <2>2
<1> HIDE DEF n, h, over, expected, f, g
<1>9. SumOver(over, K) = n * n
  <2>1. n \in Int
    BY <1>2
  <2> HIDE DEF K
  <2>2. SumOver(over, K) = n * SumOver(h, K)
    BY <1>2, <1>6, <2>1, SumTimes
  <2> QED BY <1>3, <2>2
<1>10. SumOver(expected, K) = n * n
  BY <1>1, <1>4, <1>5, <1>7, SumTable
<1>11. \A p \in K : over[p] \in Int /\ expected[p] \in Int
  <2>1. n \in Int
    BY <1>2
  <2> HIDE DEF K
  <2> QED BY <1>6, <1>8, <2>1
<1>12. (\E p \in K : over[p] > expected[p]) <=> (\E p \in K : over[p] < expected[p])
  <2> HIDE DEF K
  <2>1. SumOver(over, K) = SumOver(expected, K)
    BY <1>9, <1>10
  <2> QED BY <1>2, <1>11, <2>1, SumBalance
<1>13. \A p \in K : over[p] = PairCount(corpus, p[1], p[2]) * n
                    /\ expected[p] = RowTotal(corpus, p[1]) * ColTotal(corpus, p[2])
  BY DEF over, expected
<1> HIDE DEF K
<1>14. (\E p \in K : PairCount(corpus, p[1], p[2]) * n > RowTotal(corpus, p[1]) * ColTotal(corpus, p[2]))
        <=> (\E p \in K : PairCount(corpus, p[1], p[2]) * n < RowTotal(corpus, p[1]) * ColTotal(corpus, p[2]))
  BY <1>12, <1>13, Zenon
<1> QED BY <1>14 DEF n, K

\* An asset's reasons share out its line, and its concentration lies in their range.
LEMMA ConcentrationBounded ==
    ASSUME CorpusInv, report = "mix", NEW a
    PROVE  LET k == Concentration(corpus, a) IN
           /\ k.squares <= k.total * k.total
           /\ k.total * k.total <= k.squares * Cardinality(k.reasons)
           /\ k.total = RowTotal(corpus, a)
<1> DEFINE X == {x \in Filled(corpus) : a \in x.assets}
           K == UNION {s.reasons : s \in X}
           S == {s \in Both(corpus) : a \in s.assets}
           part == [r \in K |-> {s \in Both(corpus) : a \in s.assets /\ r \in s.reasons}]
           of == [s \in S |-> s.reasons]
           h == [r \in K |-> PairCount(corpus, a, r)]
           hh == [r \in K |-> PairCount(corpus, a, r) * PairCount(corpus, a, r)]
           k == Concentration(corpus, a)
<1>1. k.reasons = K /\ k.total = SumOver(h, K) /\ k.squares = SumOver(hh, K)
  BY Sums DEF Concentration
<1>2. IsFiniteSet(K)
  <2> DEFINE f == [s \in X |-> s.reasons]
  <2>1. X \in SUBSET Filled(corpus)
    OBVIOUS
  <2>2. \A s \in X : IsFiniteSet(f[s])
    BY MixRows
  <2>3. K = UNION {f[s] : s \in X}
    OBVIOUS
  <2> HIDE DEF X, K, f
  <2> QED BY <2>1, <2>2, <2>3, NamesAreFinite
<1>3. IsFiniteSet(S) /\ S \in SUBSET Both(corpus)
  BY Weights, FS_Subset
<1>4. \A s \in S : corpus[s] \in Int /\ RowWeight[s] = corpus[s] * Cardinality(of[s])
  BY Weights, CorpusFinite
<1>5. \A r \in K : part[r] \subseteq S
  OBVIOUS
<1>6. \A s \in S : \A r \in K : s \in part[r] <=> r \in of[s]
  OBVIOUS
<1>7. \A s \in S : of[s] \subseteq K
  BY DEF Both
<1>8. \A r \in K : h[r] = SumOver(corpus, part[r])
  BY TallyIsSum DEF PairCount
<1>9. \A r \in K : h[r] \in Nat
  BY PairCountType
<1>10. Multiplies(hh, h, h, K)
  <2>1. ASSUME NEW r \in K
        PROVE  h[r] \in Int /\ hh[r] = h[r] * h[r]
    <3>1. hh[r] = PairCount(corpus, a, r) * PairCount(corpus, a, r)
      OBVIOUS
    <3>2. h[r] = PairCount(corpus, a, r)
      OBVIOUS
    <3>3. h[r] \in Nat
      BY <1>9
    <3> HIDE DEF h, hh, K
    <3> QED BY <3>1, <3>2, <3>3
  <2> HIDE DEF h, hh, K
  <2> QED BY <2>1 DEF Multiplies
<1> HIDE DEF X, K, S, part, of, h, hh, k
<1>11. SumOver(h, K) = SumOver(RowWeight, S)
  <2>1. \A s \in S : corpus[s] \in Int
    BY <1>4
  <2>2. \A s \in S : RowWeight[s] = corpus[s] * Cardinality(of[s])
    BY <1>4
  <2>3. IsFiniteSet(S)
    BY <1>3
  <2> QED BY <1>2, <1>5, <1>6, <1>7, <1>8, <2>1, <2>2, <2>3, SumCover
<1>12. SumOver(h, K) = RowTotal(corpus, a)
  BY <1>11, LineTotals DEF S
<1>13. SumOver(hh, K) <= SumOver(h, K) * SumOver(h, K)
       /\ SumOver(h, K) * SumOver(h, K) <= SumOver(hh, K) * Cardinality(K)
  BY <1>2, <1>9, <1>10, SumOfSquaresBounds
<1> QED BY <1>1, <1>12, <1>13 DEF k

\* What TablesAddUp says of the co-occurrence table.
MixAddsUp ==
    LET n == PairTotal(corpus)
        as == UNION {s.assets : s \in Filled(corpus)}
        Over(p) == PairCount(corpus, p[1], p[2]) * n
        Expected(p) == RowTotal(corpus, p[1]) * ColTotal(corpus, p[2])
        all == {p[1] : p \in PairsNamed(corpus)} \X {p[2] : p \in PairsNamed(corpus)}
    IN  /\ SumOf([x \in Cells(corpus) |-> x.count], Cells(corpus)) <= n
        /\ SumOf([a \in as |-> RowTotal(corpus, a)], as) = n
        /\ (\E p \in all : Over(p) > Expected(p)) <=> (\E p \in all : Over(p) < Expected(p))
        /\ \A a \in as :
              LET k == Concentration(corpus, a) IN
              /\ k.squares <= k.total * k.total
              /\ k.total * k.total <= k.squares * Cardinality(k.reasons)
              /\ k.total = RowTotal(corpus, a)
        /\ \A e \in Edges(corpus) : \A y \in e : EdgeWeight(corpus, e) <= SymbolTotal(corpus, y)

\* What TablesAddUp says of the co-occurrence table.
LEMMA MixBalances ==
    ASSUME CorpusInv, report = "mix"
    PROVE  MixAddsUp
<1> DEFINE as == UNION {s.assets : s \in Filled(corpus)}
           f == [s \in Filled(corpus) |-> s.assets]
<1>1. SumOf([a \in as |-> RowTotal(corpus, a)], as) = PairTotal(corpus)
  <2>1. \A s \in Filled(corpus) : IsFiniteSet(f[s])
    BY MixRows
  <2>2. as = UNION {f[s] : s \in Filled(corpus)} /\ Filled(corpus) \in SUBSET Filled(corpus)
    OBVIOUS
  <2>3. IsFiniteSet(as)
    <3> HIDE DEF as, f
    <3> QED BY <2>1, <2>2, NamesAreFinite
  <2>4. \A s \in Both(corpus) : s.assets \subseteq as
    BY DEF Both
  <2> HIDE DEF as
  <2>5. SumOver([a \in as |-> RowTotal(corpus, a)], as) = PairTotal(corpus)
    BY <2>3, <2>4, LinesAddUp
  <2> QED BY <2>5, Sums
<1>2. ASSUME NEW e \in Edges(corpus), NEW y \in e
      PROVE  EdgeWeight(corpus, e) <= SymbolTotal(corpus, y)
  <2> DEFINE S == {s \in Filled(corpus) : e \subseteq s.symbols}
             T == {s \in Filled(corpus) : y \in s.symbols}
  <2>1. S \in SUBSET T /\ T \in SUBSET Filled(corpus)
    OBVIOUS
  <2>2. EdgeWeight(corpus, e) = Tally(corpus, S) /\ SymbolTotal(corpus, y) = Tally(corpus, T)
    BY DEF EdgeWeight, SymbolTotal
  <2> HIDE DEF S, T
  <2> QED BY <2>1, <2>2, TallyFacts
<1> HIDE DEF as
<1>3. \A a \in as :
          LET k == Concentration(corpus, a) IN
          /\ k.squares <= k.total * k.total
          /\ k.total * k.total <= k.squares * Cardinality(k.reasons)
          /\ k.total = RowTotal(corpus, a)
  BY ConcentrationBounded
<1> QED BY <1>1, <1>2, <1>3, CellsShown, LiftBalances DEF MixAddsUp, as, TableAssets, TableReasons

-----------------------------------------------------------------------------
(* Sources (source_reliability.py, persistence.py). *)

\* The first so many numbers.
LEMMA FirstNumbers ==
    ASSUME NEW n \in Nat
    PROVE  IsFiniteSet(1..n) /\ Cardinality(1..n) = n
<1>1. 1 \in Int /\ n \in Int
  OBVIOUS
<1>2. IsFiniteSet(1..n) /\ Cardinality(1..n) = IF 1 > n THEN 0 ELSE n - 1 + 1
  BY <1>1, FS_Interval
<1> QED BY <1>2

\* A logarithm is a number, and above zero from two on.
LEMMA LnType ==
    ASSUME NEW n \in Nat \ {0}
    PROVE  Ln(n) \in Nat /\ (n >= 2 => Ln(n) > 0)
<1> DEFINE prev == [m \in 1..n |-> IF m % 2 = 0 THEN m \div 2 ELSE m - 1]
           step == [m \in 1..n |-> [v \in Nat |->
                       IF m % 2 = 0 THEN 693 + v ELSE v + 2000 \div (2 * m - 1)]]
           value(u, m) == IF m = 1 THEN 0 ELSE IF m % 2 = 0 THEN 693 + u[m \div 2]
                          ELSE u[m - 1] + 2000 \div (2 * m - 1)
           Solves(u) == u = [m \in 1..n |-> value(u, m)]
           ln == CHOOSE u : Solves(u)
<1>1. Backwards(prev, n)
  <2> SUFFICES ASSUME NEW m \in 1..n, m # 1
               PROVE  prev[m] \in 1 .. m - 1
    BY DEF Backwards
  <2>1. CASE m % 2 = 0
    <3>1. m \div 2 \in 1 .. m - 1
      OBVIOUS
    <3> QED BY <2>1, <3>1
  <2>2. CASE m % 2 # 0
    BY <2>2
  <2> QED BY <2>1, <2>2
<1>2. \A m \in 1..n : 2000 \div (2 * m - 1) \in Nat
  OBVIOUS
<1>3. StepsWithin(step, n, Nat)
  <2> SUFFICES ASSUME NEW m \in 1..n, NEW v \in Nat
               PROVE  step[m][v] \in Nat
    BY DEF StepsWithin
  <2>1. step[m][v] = IF m % 2 = 0 THEN 693 + v ELSE v + 2000 \div (2 * m - 1)
    OBVIOUS
  <2>2. 2000 \div (2 * m - 1) \in Nat
    BY <1>2
  <2> HIDE DEF step
  <2> QED BY <2>1, <2>2
<1>4. /\ \E u : Recurs(u, n, 0, step, prev)
      /\ \A u : Recurs(u, n, 0, step, prev) => \A m \in 1..n : u[m] \in Nat
  <2> HIDE DEF step, prev
  <2>1. 0 \in Nat /\ n \in Nat
    OBVIOUS
  <2> QED BY <1>1, <1>3, <2>1, Recursion
<1>5. ASSUME NEW u, \A m \in 1..n : u[m] \in Nat
      PROVE  \A m \in 1..n : value(u, m) = IF m = 1 THEN 0 ELSE step[m][u[prev[m]]]
  <2> SUFFICES ASSUME NEW m \in 1..n
               PROVE  value(u, m) = IF m = 1 THEN 0 ELSE step[m][u[prev[m]]]
    <3> HIDE DEF value, step, prev
    <3> QED OBVIOUS
  <2>0. CASE m = 1
    BY <2>0
  <2> SUFFICES ASSUME m # 1
               PROVE  value(u, m) = step[m][u[prev[m]]]
    <3> HIDE DEF value, step, prev
    <3> QED BY <2>0
  <2>1. prev[m] = (IF m % 2 = 0 THEN m \div 2 ELSE m - 1) /\ prev[m] \in 1 .. m - 1
    BY <1>1 DEF Backwards
  <2>2. u[prev[m]] \in Nat
    BY <1>5, <2>1
  <2>3. step[m][u[prev[m]]] = IF m % 2 = 0 THEN 693 + u[prev[m]] ELSE u[prev[m]] + 2000 \div (2 * m - 1)
    BY <2>2
  <2> HIDE DEF prev, step
  <2> QED BY <2>1, <2>3
<1>6. \E u : Solves(u)
  <2>1. PICK u : Recurs(u, n, 0, step, prev)
    BY <1>4
  <2>2. \A m \in 1..n : u[m] \in Nat
    BY <1>4, <2>1
  <2>3. \A m \in 1..n : value(u, m) = IF m = 1 THEN 0 ELSE step[m][u[prev[m]]]
    BY <1>5, <2>2
  <2> HIDE DEF value, step, prev
  <2>4. u = [m \in 1..n |-> value(u, m)]
    BY <2>1, <2>3 DEF Recurs
  <2> QED BY <2>4
<1>7. Solves(ln)
  <2> HIDE DEF Solves
  <2> QED BY <1>6
<1>8. Ln(n) = ln[n]
  BY DEF Ln
<1>9. \A m \in 1..n : ln[m] = value(ln, m)
  <2> HIDE DEF ln, value
  <2> QED BY <1>7
<1> HIDE DEF ln
<1>10. \A m \in 1..n : ln[m] \in Nat
  <2> DEFINE M == {m \in Nat : \A k \in 1..n : k <= m => ln[k] \in Nat}
  <2>1. 0 \in M
    OBVIOUS
  <2>2. ASSUME NEW m \in Nat, m \in M
        PROVE  m + 1 \in M
    <3> SUFFICES ASSUME NEW k \in 1..n, k <= m + 1
                 PROVE  ln[k] \in Nat
      OBVIOUS
    <3>1. CASE k = 1
      BY <1>9, <3>1
    <3>2. CASE k # 1 /\ k % 2 = 0
      <4>1. k \div 2 \in 1..n /\ k \div 2 <= m
        BY <3>2
      <4>2. ln[k \div 2] \in Nat
        BY <2>2, <4>1
      <4> QED BY <1>9, <3>2, <4>2
    <3>3. CASE k # 1 /\ k % 2 # 0
      <4>1. k - 1 \in 1..n /\ k - 1 <= m
        BY <3>3
      <4>2. ln[k - 1] \in Nat
        BY <2>2, <4>1
      <4> QED BY <1>2, <1>9, <3>3, <4>2
    <3> QED BY <3>1, <3>2, <3>3
  <2> HIDE DEF M
  <2>3. n \in M
    BY <2>1, <2>2, SetInduction
  <2> QED BY <2>3 DEF M
<1>11. ASSUME NEW m \in 1..n, m # 1, m % 2 = 0
       PROVE  ln[m] > 0
  <2>1. m \div 2 \in 1..n
    BY <1>11
  <2>2. ln[m] = 693 + ln[m \div 2] /\ ln[m \div 2] \in Nat
    BY <1>9, <1>10, <1>11, <2>1
  <2> QED BY <2>2
<1>12. ASSUME n >= 2
       PROVE  ln[n] > 0
  <2>1. CASE n % 2 = 0
    BY <1>11, <1>12, <2>1
  <2>2. CASE n % 2 # 0
    <3>1. n - 1 \in 1..n /\ n - 1 # 1 /\ (n - 1) % 2 = 0
      BY <1>12, <2>2
    <3>2. ln[n - 1] > 0 /\ ln[n - 1] \in Nat
      BY <1>10, <1>11, <3>1
    <3>3. ln[n] = ln[n - 1] + 2000 \div (2 * n - 1) /\ 2000 \div (2 * n - 1) \in Nat
      BY <1>2, <1>9, <1>12, <2>2
    <3> QED BY <3>2, <3>3
  <2> QED BY <2>1, <2>2
<1>13. ln[n] \in Nat
  BY <1>10
<1> QED BY <1>8, <1>12, <1>13

\* A part of a whole, in thousandths, and a number brought between its bounds.
LEMMA RateBounds ==
    ASSUME NEW num \in Nat, NEW den \in Nat, num <= den
    PROVE  den # 0 => (1000 * num) \div den \in 0..1000
<1> SUFFICES ASSUME den > 0
             PROVE  (1000 * num) \div den \in 0..1000
  OBVIOUS
<1> DEFINE q == (1000 * num) \div den
<1>1. q \in Int /\ q * den <= 1000 * num /\ 1000 * num < (q + 1) * den
  BY SMTT(30)
<1> HIDE DEF q
<1>2. q >= 0
  <2> SUFFICES ASSUME q <= -1
               PROVE  FALSE
    BY <1>1
  <2>1. (q + 1) * den <= 0
    BY <1>1
  <2> QED BY <1>1, <2>1
<1>3. q <= 1000
  <2> SUFFICES ASSUME q >= 1001
               PROVE  FALSE
    BY <1>1
  <2>1. q * den >= 1001 * den
    BY <1>1
  <2> QED BY <1>1, <2>1
<1> QED BY <1>1, <1>2, <1>3 DEF q

\* A number brought between two bounds is between them.
LEMMA Clamped ==
    ASSUME NEW x \in Int, NEW A, \A y : y \in A <=> y = 1000 \/ y = x,
           NEW m, m = Min(A), NEW B, B = {0, m}
    PROVE  Max(B) \in 0..1000
<1>1. IsFiniteSet(A) /\ A \in SUBSET Int /\ A # {}
  <2>1. IsFiniteSet(({} \cup {1000}) \cup {x})
    <3>1. IsFiniteSet({} \cup {1000})
      BY FS_EmptySet, FS_AddElement
    <3> QED BY <3>1, FS_AddElement
  <2>2. A = ({} \cup {1000}) \cup {x}
    OBVIOUS
  <2> QED BY <2>1, <2>2
<1>2. Min(A) \in A /\ \A y \in A : Min(A) <= y
  BY <1>1, Extremes
<1>3. Min(A) \in Int /\ Min(A) <= 1000
  BY <1>2
<1>4. IsFiniteSet(B) /\ B \in SUBSET Int /\ B # {}
  <2>1. IsFiniteSet(({} \cup {0}) \cup {Min(A)})
    <3>1. IsFiniteSet({} \cup {0})
      BY FS_EmptySet, FS_AddElement
    <3> QED BY <3>1, FS_AddElement
  <2>2. B = ({} \cup {0}) \cup {Min(A)}
    OBVIOUS
  <2> QED BY <1>3, <2>1, <2>2
<1>5. Max(B) \in B /\ \A y \in B : y <= Max(B)
  BY <1>4, Extremes
<1> QED BY <1>3, <1>5

\* The rows of the leaderboard and of the persistence report.
LEMMA SourceRows ==
    ASSUME CorpusInv, report = "sources"
    PROVE  \A s \in Filled(corpus) :
              /\ s.day \in Int /\ s.relevance \in 0 .. 10
              /\ IsFiniteSet(s.assets) /\ IsFiniteSet(s.reasons) /\ IsFiniteSet(s.symbols)
<1>1. \A s \in Shape[report] : s.day \in Int /\ s.relevance \in 0 .. 10
                               /\ IsFiniteSet(s.assets) /\ IsFiniteSet(s.reasons) /\ IsFiniteSet(s.symbols)
  BY MixAssumption DEF CorpusInv
<1> QED BY <1>1, CorpusFinite

\* The evenness of what rows list is between none and complete.
LEMMA EntropyBounds ==
    ASSUME CorpusInv, report = "sources", NEW S \in SUBSET Filled(corpus),
           NEW field \in {"assets", "reasons"}
    PROVE  Entropy(corpus, S, field) \in 0..1000
<1> DEFINE f == [s \in S |-> s[field]]
           size == [s \in S |-> Cardinality(s[field])]
           weight == [s \in S |-> corpus[s] * size[s]]
           n == Total(corpus, S, LAMBDA s : Cardinality(s[field]))
           kinds == UNION {s[field] : s \in S}
           Count(k) == Tally(corpus, {s \in S : k \in s[field]})
           terms == [k \in kinds |-> Count(k) * Ln(Count(k))]
           h == Ln(n) - SumOf(terms, kinds) \div n
           q == (1000 * h) \div Ln(Cardinality(kinds))
<1>1. IsFiniteSet(S) /\ \A s \in S : IsFiniteSet(s[field]) /\ Cardinality(s[field]) \in Nat
  BY SourceRows, TallyFacts, FS_CardinalityType
<1>2. IsFiniteSet(kinds)
  <2>1. \A s \in S : IsFiniteSet(f[s])
    BY <1>1
  <2>2. kinds = UNION {f[s] : s \in S}
    OBVIOUS
  <2> HIDE DEF kinds, f
  <2> QED BY <2>1, <2>2, NamesAreFinite
<1>3. SUFFICES ASSUME Cardinality(kinds) >= 2
               PROVE  Max({0, Min({1000, q})}) \in 0..1000
  <2>1. CASE Cardinality(kinds) < 2
    <3>1. Entropy(corpus, S, field) = 0
      BY <2>1 DEF Entropy
    <3> QED BY <3>1
  <2>2. CASE ~(Cardinality(kinds) < 2)
    <3>1. Entropy(corpus, S, field) = Max({0, Min({1000, q})})
      BY <2>2 DEF Entropy
    <3>2. Cardinality(kinds) >= 2
      <4> HIDE DEF kinds
      <4> QED BY <1>2, <2>2, FS_CardinalityType
    <3> HIDE DEF q, kinds
    <3> QED BY <1>3, <3>1, <3>2
  <2> QED BY <2>1, <2>2
<1>4. \A k \in kinds : Count(k) \in Nat \ {0}
  <2> SUFFICES ASSUME NEW k \in kinds
               PROVE  Count(k) \in Nat \ {0}
    OBVIOUS
  <2>1. {s \in S : k \in s[field]} \in SUBSET Filled(corpus) /\ {s \in S : k \in s[field]} # {}
    OBVIOUS
  <2> QED BY <2>1, TallyFacts
<1>5. \A k \in kinds : terms[k] \in Nat
  <2> SUFFICES ASSUME NEW k \in kinds
               PROVE  terms[k] \in Nat
    OBVIOUS
  <2>1. Count(k) \in Nat \ {0}
    BY <1>4
  <2>2. terms[k] = Count(k) * Ln(Count(k))
    OBVIOUS
  <2> HIDE DEF Count, terms
  <2>3. Ln(Count(k)) \in Nat
    BY <2>1, LnType
  <2> QED BY <2>1, <2>2, <2>3, NatTimes
<1>6. n \in Nat \ {0}
  <2>1. n = SumOver(weight, S)
    BY Sums DEF Total
  <2>2. \A s \in S : corpus[s] \in Nat \ {0} /\ size[s] \in Nat
    BY <1>1, CorpusFinite
  <2>3. \A s \in S : weight[s] \in Nat
    <3> SUFFICES ASSUME NEW s \in S
                 PROVE  weight[s] \in Nat
      OBVIOUS
    <3>1. weight[s] = corpus[s] * size[s] /\ corpus[s] \in Nat /\ size[s] \in Nat
      BY <2>2
    <3> HIDE DEF weight, size
    <3> QED BY <3>1, NatTimes
  <2>4. PICK s \in S : s[field] # {}
    <3>1. kinds # {}
      <4> HIDE DEF kinds
      <4> QED BY <1>3, FS_EmptySet
    <3> QED BY <3>1
  <2>5. size[s] # 0
    BY <1>1, <2>4, FS_EmptySet
  <2>6. weight[s] # 0
    <3>1. weight[s] = corpus[s] * size[s] /\ corpus[s] \in Nat \ {0} /\ size[s] \in Nat \ {0}
      BY <2>2, <2>5
    <3> HIDE DEF weight, size
    <3> QED BY <3>1
  <2> HIDE DEF n, weight
  <2>7. SumOver(weight, S) \in Nat
    BY <1>1, <2>3, SumType
  <2>8. SumOver(weight, S) # 0
    BY <1>1, <2>3, <2>6, SumZero
  <2> QED BY <2>1, <2>7, <2>8
<1>7. SumOf(terms, kinds) \in Nat
  <2> HIDE DEF kinds, terms
  <2>1. SumOver(terms, kinds) \in Nat
    BY <1>2, <1>5, SumType
  <2> QED BY <2>1, Sums
<1>8. h \in Int
  <2>1. Ln(n) \in Nat
    <3> HIDE DEF n
    <3> QED BY <1>6, LnType
  <2> HIDE DEF n, terms, kinds
  <2> QED BY <1>6, <1>7, <2>1
<1>9. Ln(Cardinality(kinds)) \in Nat \ {0}
  <2> HIDE DEF kinds
  <2>1. Cardinality(kinds) \in Nat \ {0}
    BY <1>2, <1>3, FS_CardinalityType
  <2> QED BY <1>3, <2>1, LnType
<1> HIDE DEF h, kinds
<1>10. q \in Int
  BY <1>8, <1>9
<1> DEFINE A == {1000, q}
           B == {0, Min(A)}
<1>11. A = {1000, q} /\ B = {0, Min(A)} /\ Max({0, Min({1000, q})}) = Max(B)
  OBVIOUS
<1>12. Max(B) \in 0..1000
  <2> HIDE DEF q, A, B
  <2>1. PICK m : m = Min(A)
    OBVIOUS
  <2>2. B = {0, m}
    BY <1>11, <2>1
  <2>3. \A y : y \in A <=> y = 1000 \/ y = q
    BY <1>11
  <2> QED BY <1>10, <2>1, <2>2, <2>3, Clamped
<1> QED BY <1>11, <1>12

\* Each of the seven components of a source's score is a part of a whole.
LEMMA ComponentsBounded ==
    ASSUME CorpusInv, report = "sources", NEW d
    PROVE  LET x == Components(corpus, d) IN
           /\ DOMAIN x = 1..7 /\ \A i \in 1..7 : x[i] \in 0..1000
<1> DEFINE rows == From(corpus, d)
           n == Tally(corpus, rows)
           relevant == {s \in rows : s.relevant}
           high == {s \in rows : s.relevance >= 7}
           Label(l) == Tally(corpus, {s \in rows : s.label = l})
           labelled == Label("positive") + Label("negative") + Label("neutral")
           net == Abs(Label("positive") - Label("negative"))
           symbols == SymbolsOf(corpus, d)
           unique == {y \in symbols : \A e \in DomainsIn(corpus) \ {d} : y \notin SymbolsOf(corpus, e)}
           Rate(num, den) == IF den = 0 THEN 0 ELSE (1000 * num) \div den
           mass == Total(corpus, relevant, Relevance)
<1>1. rows \in SUBSET Filled(corpus) /\ relevant \in SUBSET rows /\ high \in SUBSET rows
      /\ relevant \in SUBSET Filled(corpus)
  BY DEF From, Windowed
<1>2. Tally(corpus, relevant) \in Nat /\ Tally(corpus, relevant) <= n /\ n \in Nat
      /\ Tally(corpus, high) \in Nat /\ Tally(corpus, high) <= n
  <2> HIDE DEF rows, relevant, high
  <2> QED BY <1>1, TallyFacts
<1>3. mass \in Nat /\ mass <= 10 * Tally(corpus, relevant)
  <2> DEFINE f == [s \in relevant |-> corpus[s] * s.relevance]
             g == [s \in relevant |-> 10 * corpus[s]]
  <2>1. mass = SumOver(f, relevant)
    BY Sums DEF Total, Relevance
  <2>2. \A s \in relevant : corpus[s] \in Nat /\ s.relevance \in 0..10
    BY <1>1, CorpusFinite, SourceRows
  <2>3. IsFiniteSet(relevant)
    <3> HIDE DEF relevant
    <3> QED BY <1>1, TallyFacts
  <2>4. \A s \in relevant : f[s] \in Nat /\ g[s] \in Nat /\ f[s] <= g[s] /\ g[s] = 10 * corpus[s]
    <3> SUFFICES ASSUME NEW s \in relevant
                 PROVE  f[s] \in Nat /\ g[s] \in Nat /\ f[s] <= g[s] /\ g[s] = 10 * corpus[s]
      OBVIOUS
    <3>1. f[s] = corpus[s] * s.relevance /\ g[s] = 10 * corpus[s]
      OBVIOUS
    <3>2. corpus[s] \in Nat /\ s.relevance \in 0..10
      BY <2>2
    <3> HIDE DEF f, g, relevant
    <3> QED BY <3>1, <3>2, NatTimes
  <2> HIDE DEF f, g, mass, relevant
  <2>5. SumOver(f, relevant) \in Nat
    BY <2>3, <2>4, SumType
  <2>6. SumOver(f, relevant) <= SumOver(g, relevant)
    BY <2>3, <2>4, SumMonotone
  <2>7. SumOver(g, relevant) = 10 * SumOver(corpus, relevant)
    <3>1. \A s \in relevant : corpus[s] \in Int /\ g[s] = 10 * corpus[s]
      BY <2>2, <2>4
    <3> QED BY <2>3, <3>1, SumTimes
  <2> QED BY <2>1, <2>5, <2>6, <2>7, TallyIsSum
<1>4. labelled \in Nat /\ net \in Nat /\ net <= labelled
  <2>1. \A l : Label(l) \in Nat
    <3> TAKE l
    <3>1. {s \in rows : s.label = l} \in SUBSET Filled(corpus)
      BY <1>1
    <3> QED BY <3>1, TallyFacts
  <2> HIDE DEF Label
  <2> QED BY <2>1 DEF Abs
<1>5. Cardinality(unique) \in Nat /\ Cardinality(symbols) \in Nat
      /\ Cardinality(unique) <= Cardinality(symbols)
  <2> DEFINE f == [s \in rows |-> s.symbols]
  <2>1. \A s \in rows : IsFiniteSet(f[s])
    BY <1>1, SourceRows
  <2>2. symbols = UNION {f[s] : s \in rows}
    BY DEF SymbolsOf
  <2>3. IsFiniteSet(symbols)
    <3> HIDE DEF f, rows, symbols
    <3> QED BY <1>1, <2>1, <2>2, NamesAreFinite
  <2>4. unique \in SUBSET symbols
    OBVIOUS
  <2> HIDE DEF unique, symbols
  <2> QED BY <2>3, <2>4, FS_Subset, FS_CardinalityType
<1>6. Entropy(corpus, rows, "assets") \in 0..1000 /\ Entropy(corpus, rows, "reasons") \in 0..1000
  <2> HIDE DEF rows
  <2> QED BY <1>1, EntropyBounds
<1>7. ASSUME NEW num \in Nat, NEW den \in Nat, num <= den
      PROVE  Rate(num, den) \in 0..1000
  BY <1>7, RateBounds
<1>8. Components(corpus, d) =
        <<Rate(Tally(corpus, relevant), n), Rate(mass, 10 * Tally(corpus, relevant)),
          Rate(Tally(corpus, high), n), Rate(net, labelled),
          Entropy(corpus, rows, "assets"), Entropy(corpus, rows, "reasons"),
          Rate(Cardinality(unique), Cardinality(symbols))>>
  BY DEF Components
<1> HIDE DEF Rate, rows, n, relevant, high, Label, labelled, net, symbols, unique, mass
<1>9. /\ Rate(Tally(corpus, relevant), n) \in 0..1000
      /\ Rate(mass, 10 * Tally(corpus, relevant)) \in 0..1000
      /\ Rate(Tally(corpus, high), n) \in 0..1000 /\ Rate(net, labelled) \in 0..1000
      /\ Rate(Cardinality(unique), Cardinality(symbols)) \in 0..1000
  <2>1. 10 * Tally(corpus, relevant) \in Nat
    BY <1>2
  <2>2. Rate(Tally(corpus, relevant), n) \in 0..1000
    BY <1>2, <1>7
  <2>3. Rate(mass, 10 * Tally(corpus, relevant)) \in 0..1000
    BY <1>3, <1>7, <2>1
  <2>4. Rate(Tally(corpus, high), n) \in 0..1000
    BY <1>2, <1>7
  <2>5. Rate(net, labelled) \in 0..1000
    BY <1>4, <1>7
  <2>6. Rate(Cardinality(unique), Cardinality(symbols)) \in 0..1000
    BY <1>5, <1>7
  <2> QED BY <2>2, <2>3, <2>4, <2>5, <2>6
<1> QED BY <1>6, <1>8, <1>9

\* A seventh of seven thousands is within a thousand.
LEMMA SeventhOf ==
    ASSUME NEW t \in Nat, t <= 7000
    PROVE  t \div 7 \in 0..1000
OBVIOUS

\* A mean of seven parts of a whole is one.
LEMMA MeanOfSeven ==
    ASSUME NEW x, DOMAIN x = 1..7, \A i \in 1..7 : x[i] \in 0..1000
    PROVE  AddUp(x) \div 7 \in 0..1000
<1> DEFINE D == 1..7
           top == [i \in D |-> 1000]
<1>1. IsFiniteSet(D) /\ Cardinality(D) = 7
  BY FirstNumbers
<1>2. \A i \in D : x[i] \in Nat /\ top[i] = 1000 /\ x[i] <= top[i]
  <2> SUFFICES ASSUME NEW i \in D
               PROVE  x[i] \in Nat /\ top[i] = 1000 /\ x[i] <= top[i]
    OBVIOUS
  <2>1. x[i] \in 0..1000 /\ top[i] = 1000
    OBVIOUS
  <2> HIDE DEF top
  <2> QED BY <2>1
<1>3. AddUp(x) = SumOver(x, D)
  BY SequenceSum
<1> HIDE DEF D, top
<1>4. SumOver(x, D) \in Nat
  BY <1>1, <1>2, SumType
<1>5. SumOver(top, D) = 1000 * Cardinality(D)
  BY <1>1, <1>2, SumConstant
<1>6. SumOver(x, D) <= SumOver(top, D)
  BY <1>1, <1>2, SumMonotone
<1>7. SumOver(top, D) = 7000
  BY <1>1, <1>5
<1>8. SumOver(x, D) <= 7000
  BY <1>6, <1>7
<1> QED BY <1>3, <1>4, <1>8, SeventhOf

\* The domains of the leaderboard share the rows of the window out among them.
LEMMA DomainsShare ==
    ASSUME CorpusInv, report = "sources"
    PROVE  Tally(corpus, Windowed(corpus))
              = SumOf([d \in DomainsIn(corpus) |-> Tally(corpus, From(corpus, d))], DomainsIn(corpus))
<1> DEFINE S == Windowed(corpus)
           K == DomainsIn(corpus)
           g == [s \in S |-> s.domain]
           part == [d \in K |-> From(corpus, d)]
           h == [d \in K |-> Tally(corpus, From(corpus, d))]
<1>1. S \in SUBSET Filled(corpus)
  BY DEF Windowed
<1>2. IsFiniteSet(S) /\ \A s \in S : corpus[s] \in Int
  <2> HIDE DEF S
  <2> QED BY <1>1, CorpusFinite, TallyFacts
<1>3. K = {g[s] : s \in S} /\ \A s \in S : g[s] \in K
  BY DEF DomainsIn
<1>4. IsFiniteSet(K)
  <2> HIDE DEF S, K, g
  <2> QED BY <1>2, <1>3, ImageIsFinite
<1>5. \A d \in K : part[d] \subseteq S
  BY DEF From
<1>6. \A s \in S : \A d \in K : s \in part[d] <=> g[s] = d
  BY DEF From
<1>7. \A d \in K : h[d] = SumOver(corpus, part[d])
  BY TallyIsSum
<1>8. SumOver(h, K) = SumOver(corpus, S)
  <2> HIDE DEF S, K, g, part, h
  <2>1. \A s \in S : g[s] \in K
    BY <1>3
  <2>2. \A s \in S : corpus[s] \in Int
    BY <1>2
  <2>3. IsFiniteSet(S)
    BY <1>2
  <2> QED BY <1>4, <1>5, <1>6, <1>7, <2>1, <2>2, <2>3, SumParts
<1>9. Tally(corpus, S) = SumOver(corpus, S) /\ SumOf(h, K) = SumOver(h, K)
  BY TallyIsSum, Sums
<1> QED BY <1>8, <1>9

\* What is in sight has a first and a last day.
LEMMA DaysInWindow ==
    ASSUME CorpusInv, report = "sources", Filled(corpus) # {}, NEW S \in SUBSET Persisting(corpus), S # {}
    PROVE  LET days == Cardinality({s.day : s \in S}) IN
           days >= 1 /\ days <= PersistenceDays /\ days <= Tally(corpus, S) /\ days \in Nat
<1> DEFINE day == [s \in S |-> s.day]
           all == [s \in Filled(corpus) |-> s.day]
           D == {day[s] : s \in S}
           last == LatestDay(corpus)
           first == last - (PersistenceDays - 1)
<1>1. S \in SUBSET Filled(corpus) /\ \A s \in S : s.day >= first
  BY DEF Persisting
<1>2. \A s \in Filled(corpus) : s.day \in Int
  BY SourceRows
<1>3. last \in Int /\ \A s \in Filled(corpus) : s.day <= last
  <2> DEFINE A == {all[s] : s \in Filled(corpus)}
  <2>1. LatestDay(corpus) = Max(A)
    <3>1. A = {s.day : s \in Filled(corpus)}
      OBVIOUS
    <3> HIDE DEF A
    <3> QED BY <3>1 DEF LatestDay
  <2>2. IsFiniteSet(A)
    BY CorpusFinite, ImageIsFinite
  <2>3. A \in SUBSET Int /\ A # {} /\ \A s \in Filled(corpus) : s.day \in A
    BY <1>2
  <2> HIDE DEF A
  <2>4. Max(A) \in A /\ \A x \in A : x <= Max(A)
    BY <2>2, <2>3, Extremes
  <2> QED BY <2>1, <2>3, <2>4
<1>4. PersistenceDays \in Nat \ {0}
  BY MixAssumption
<1>5. D \in SUBSET (first .. last) /\ D # {} /\ D = {s.day : s \in S}
  <2>1. \A s \in S : day[s] \in Int /\ day[s] >= first /\ day[s] <= last
    BY <1>1, <1>2, <1>3
  <2>2. first \in Int /\ last \in Int
    BY <1>3, <1>4
  <2>3. \A s \in S : day[s] \in first .. last
    <3> HIDE DEF first, last, day
    <3> QED BY <2>1, <2>2
  <2> QED BY <2>3
<1>6. IsFiniteSet(first .. last) /\ Cardinality(first .. last) = PersistenceDays
  <2>1. first \in Int /\ last \in Int
    BY <1>3, <1>4
  <2>2. IsFiniteSet(first .. last)
        /\ Cardinality(first .. last) = IF first > last THEN 0 ELSE last - first + 1
    BY <2>1, FS_Interval
  <2> QED BY <1>3, <1>4, <2>2
<1>7. IsFiniteSet(S) /\ Cardinality(S) <= Tally(corpus, S) /\ Cardinality(S) \in Nat
      /\ Tally(corpus, S) \in Nat
  BY <1>1, TallyFacts
<1>8. IsFiniteSet(D) /\ Cardinality(D) <= Cardinality(S)
  <2> HIDE DEF day
  <2> QED BY <1>7, ImageIsFinite
<1> HIDE DEF D, first, last
<1>9. Cardinality(D) \in Nat /\ Cardinality(D) # 0 /\ Cardinality(D) <= PersistenceDays
  BY <1>5, <1>6, <1>8, FS_Subset, FS_CardinalityType, FS_EmptySet
<1> QED BY <1>4, <1>5, <1>7, <1>8, <1>9

\* What TablesAddUp says of the leaderboard and the persistence report.
LEMMA SourcesShare ==
    ASSUME CorpusInv, report = "sources"
    PROVE  LET b == Leaderboard(corpus)
               p == Persistence(corpus)
           IN  /\ b.records = SumOf([d \in DomainsIn(corpus) |-> Tally(corpus, From(corpus, d))],
                                    DomainsIn(corpus))
               /\ \A d \in DOMAIN b.sources : b.sources[d] \in 0 .. 1000
               /\ \A x \in DOMAIN p : p[x].days \in 1 .. Min({PersistenceDays, p[x].total})
<1> DEFINE b == Leaderboard(corpus)
           p == Persistence(corpus)
<1>1. b.records = SumOf([d \in DomainsIn(corpus) |-> Tally(corpus, From(corpus, d))], DomainsIn(corpus))
  <2>1. b.records = Tally(corpus, Windowed(corpus))
    BY DEF Leaderboard
  <2> HIDE DEF b
  <2> QED BY <2>1, DomainsShare
<1>2. ASSUME NEW d \in DOMAIN b.sources
      PROVE  b.sources[d] \in 0 .. 1000
  <2>1. b.sources[d] = AddUp(Components(corpus, d)) \div 7
    BY DEF Leaderboard
  <2> DEFINE x == Components(corpus, d)
  <2>2. DOMAIN x = 1..7 /\ \A i \in 1..7 : x[i] \in 0..1000
    BY ComponentsBounded
  <2>3. AddUp(x) \div 7 \in 0..1000
    <3> HIDE DEF x
    <3> QED BY <2>2, MeanOfSeven
  <2> HIDE DEF b
  <2> QED BY <2>1, <2>3
<1>3. ASSUME NEW x \in DOMAIN p
      PROVE  p[x].days \in 1 .. Min({PersistenceDays, p[x].total})
  <2> DEFINE R == {s \in Persisting(corpus) : x \in ScopesOf(s)}
  <2>1. x \in UNION {ScopesOf(s) : s \in Persisting(corpus)}
        /\ p[x].days = Cardinality({s.day : s \in R}) /\ p[x].total = Tally(corpus, R)
    BY DEF Persistence
  <2>2. R # {} /\ R \in SUBSET Persisting(corpus)
    BY <2>1
  <2>3. Filled(corpus) # {} /\ R \in SUBSET Filled(corpus)
    BY <2>2 DEF Persisting
  <2>4. PersistenceDays \in Nat
    BY MixAssumption
  <2> HIDE DEF R, p
  <2>5. /\ p[x].days >= 1 /\ p[x].days <= PersistenceDays /\ p[x].days <= p[x].total
        /\ p[x].days \in Nat
    BY <2>1, <2>2, <2>3, DaysInWindow
  <2>6. p[x].total \in Nat
    BY <2>1, <2>3, TallyFacts
  <2> DEFINE A == {PersistenceDays, p[x].total}
  <2>7. IsFiniteSet(A)
    <3>1. IsFiniteSet({} \cup {PersistenceDays})
      BY FS_EmptySet, FS_AddElement
    <3>2. IsFiniteSet(({} \cup {PersistenceDays}) \cup {p[x].total})
      BY <3>1, FS_AddElement
    <3>3. A = ({} \cup {PersistenceDays}) \cup {p[x].total}
      OBVIOUS
    <3> QED BY <3>2, <3>3
  <2>8. A \in SUBSET Int /\ A # {} /\ \A y \in A : p[x].days <= y
    BY <2>4, <2>5, <2>6
  <2>9. Min(A) \in A
    <3> HIDE DEF A
    <3> QED BY <2>7, <2>8, Extremes
  <2>10. Min(A) \in Int /\ p[x].days <= Min(A)
    <3> HIDE DEF A
    <3> QED BY <2>8, <2>9
  <2> QED BY <2>5, <2>10
<1> QED BY <1>1, <1>2, <1>3

\* The tables of the mix, of the sources and of the clock add up.
LEMMA TablesBalance == CorpusInv => TablesAddUp
<1> SUFFICES ASSUME CorpusInv
             PROVE  TablesAddUp
  OBVIOUS
<1>1. report = "mix" => MixAddsUp
  BY MixBalances
<1>2. report = "sources" =>
          LET b == Leaderboard(corpus)
              p == Persistence(corpus)
          IN  /\ b.records = SumOf([d \in DomainsIn(corpus) |-> Tally(corpus, From(corpus, d))],
                                   DomainsIn(corpus))
              /\ \A d \in DOMAIN b.sources : b.sources[d] \in 0 .. 1000
              /\ \A x \in DOMAIN p : p[x].days \in 1 .. Min({PersistenceDays, p[x].total})
  BY SourcesShare
<1> QED BY <1>1, <1>2, ClockAgrees DEF TablesAddUp, MixAddsUp

-----------------------------------------------------------------------------
(* Correlations (symbol_correlation.py). *)

\* The rows and the buckets of the correlation.
LEMMA FilledGrid ==
    ASSUME CorpusInv, report = "mix", FilledBuckets(corpus) # {}
    PROVE  LET F == FilledBuckets(corpus)
               last == Max(F)
               first == Max({Min(F), last - MaxGrid + 1})
           IN  /\ IsFiniteSet(F) /\ F \in SUBSET Int
               /\ \A s \in Filled(corpus) : PairBucket(s) \in F
               /\ Min(F) \in Int /\ last \in Int /\ \A b \in F : Min(F) <= b /\ b <= last
               /\ Min(F) <= last
               /\ first \in Int /\ first <= last /\ (last - Min(F) < MaxGrid => first = Min(F))
<1> DEFINE F == FilledBuckets(corpus)
           g == [s \in Filled(corpus) |-> PairBucket(s)]
           last == Max(F)
           low == last - MaxGrid + 1
           B == {Min(F), low}
<1>1. \A s \in Filled(corpus) : PairBucket(s) \in Int
  <2>1. \A s \in Shape[report] : s.at \in Int
    BY MixAssumption DEF CorpusInv
  <2>2. PairWidth \in Nat \ {0}
    BY MixAssumption
  <2>3. \A s \in Filled(corpus) : s.at \in Int
    BY <2>1, CorpusFinite
  <2> QED BY <2>2, <2>3 DEF PairBucket
<1>2. F = {g[s] : s \in Filled(corpus)}
  BY DEF FilledBuckets
<1>3. IsFiniteSet(F) /\ F \in SUBSET Int /\ \A s \in Filled(corpus) : PairBucket(s) \in F
  <2>1. IsFiniteSet({g[s] : s \in Filled(corpus)})
    BY CorpusFinite, ImageIsFinite
  <2> QED BY <1>1, <1>2, <2>1
<1>4. Min(F) \in F /\ last \in F /\ \A b \in F : Min(F) <= b /\ b <= last
  <2> HIDE DEF F
  <2>1. F # {}
    BY DEF F
  <2> QED BY <1>3, <2>1, Extremes
<1> HIDE DEF F
<1>5. Min(F) \in Int /\ last \in Int /\ Min(F) <= last /\ low \in Int /\ low <= last
  <2>1. MaxGrid \in Nat \ {0}
    BY MixAssumption
  <2>2. Min(F) \in Int /\ last \in Int /\ Min(F) <= last
    <3> HIDE DEF last
    <3> QED BY <1>3, <1>4
  <2> HIDE DEF last
  <2> QED BY <2>1, <2>2
<1>6. IsFiniteSet(B) /\ B \in SUBSET Int /\ B # {}
  <2>1. IsFiniteSet({} \cup {Min(F)})
    BY FS_EmptySet, FS_AddElement
  <2>2. IsFiniteSet(({} \cup {Min(F)}) \cup {low})
    BY <2>1, FS_AddElement
  <2>3. B = ({} \cup {Min(F)}) \cup {low}
    OBVIOUS
  <2> QED BY <1>5, <2>2, <2>3
<1>7. Max(B) \in B /\ \A b \in B : b <= Max(B)
  <2> HIDE DEF B
  <2> QED BY <1>6, Extremes
<1>8. Max(B) \in {Min(F), low} /\ Min(F) <= Max(B) /\ low <= Max(B)
  BY <1>7
<1>9. Max(B) \in Int /\ Max(B) <= last /\ (last - Min(F) < MaxGrid => Max(B) = Min(F))
  <2>1. MaxGrid \in Nat \ {0}
    BY MixAssumption
  <2> HIDE DEF B
  <2> QED BY <1>5, <1>8, <2>1
<1> QED BY <1>3, <1>4, <1>5, <1>9 DEF F

\* What Pearson computes of two vectors over the same buckets.
LEMMA PearsonBounded ==
    ASSUME NEW n \in Nat \ {0}, NEW x \in [1..n -> Int], NEW y \in [1..n -> Int]
    PROVE  LET r == Pearson(x, y)
               X == SumOver(x, 1..n)
               Y == SumOver(y, 1..n)
           IN  /\ r.vx \in Nat /\ r.cov \in Int /\ r.vy \in Nat /\ r.cov * r.cov <= r.vx * r.vy
               /\ r.cov * r.cov = r.vx * r.vy =>
                    \A i \in 1..n : r.vx * (n * y[i] - Y) = r.cov * (n * x[i] - X)
<1> DEFINE S == 1..n
           xx == [i \in S |-> x[i] * x[i]]
           xy == [i \in S |-> x[i] * y[i]]
           yy == [i \in S |-> y[i] * y[i]]
           r == Pearson(x, y)
<1>1. IsFiniteSet(S) /\ Cardinality(S) = n /\ S # {}
  <2>1. 1 \in S
    OBVIOUS
  <2>2. IsFiniteSet(S) /\ Cardinality(S) = n
    BY FirstNumbers
  <2> QED BY <2>1, <2>2
<1>2. Len(x) = n /\ Len(y) = n /\ DOMAIN x = S /\ DOMAIN y = S
  OBVIOUS
<1>3. Multiplies(xx, x, x, S) /\ Multiplies(xy, x, y, S) /\ Multiplies(yy, y, y, S)
  BY DEF Multiplies
<1>4. /\ Product(x, y) = SumOver(xy, S) /\ Product(x, x) = SumOver(xx, S)
      /\ Product(y, y) = SumOver(yy, S) /\ AddUp(x) = SumOver(x, S) /\ AddUp(y) = SumOver(y, S)
  <2>1. AddUp(x) = SumOver(x, S) /\ AddUp(y) = SumOver(y, S)
    BY <1>2, SequenceSum
  <2>2. AddUp(xx) = SumOver(xx, S) /\ AddUp(xy) = SumOver(xy, S) /\ AddUp(yy) = SumOver(yy, S)
    <3>1. DOMAIN xx = S /\ DOMAIN xy = S /\ DOMAIN yy = S
      OBVIOUS
    <3> HIDE DEF xx, xy, yy, S
    <3> QED BY <3>1, SequenceSum
  <2>3. Product(x, y) = AddUp(xy) /\ Product(x, x) = AddUp(xx) /\ Product(y, y) = AddUp(yy)
    BY <1>2 DEF Product
  <2> QED BY <2>1, <2>2, <2>3
<1>5. /\ r.vx = Len(x) * Product(x, x) - AddUp(x) * AddUp(x)
      /\ r.cov = Len(x) * Product(x, y) - AddUp(x) * AddUp(y)
      /\ r.vy = Len(x) * Product(y, y) - AddUp(y) * AddUp(y)
  BY DEF Pearson
<1> HIDE DEF r, xx, xy, yy, S
<1>6. /\ r.vx = n * SumOver(xx, S) - SumOver(x, S) * SumOver(x, S)
      /\ r.cov = n * SumOver(xy, S) - SumOver(x, S) * SumOver(y, S)
      /\ r.vy = n * SumOver(yy, S) - SumOver(y, S) * SumOver(y, S)
  BY <1>2, <1>4, <1>5
<1>7. /\ r.vx \in Nat /\ r.cov \in Int /\ r.vy \in Nat /\ r.cov * r.cov <= r.vx * r.vy
      /\ r.cov * r.cov = r.vx * r.vy =>
           \A i \in S : r.vx * (n * y[i] - SumOver(y, S)) = r.cov * (n * x[i] - SumOver(x, S))
  <2>1. /\ r.vx = Moment(n, xx, x, x, S) /\ r.cov = Moment(n, xy, x, y, S)
        /\ r.vy = Moment(n, yy, y, y, S)
    BY <1>6 DEF Moment
  <2>3. Correlates(n, r.vx, r.cov, r.vy, xx, xy, yy, x, y, S)
    BY <1>1, <2>1 DEF Correlates
  <2>2. /\ r.vx \in Nat /\ r.cov \in Int /\ r.vy \in Nat /\ r.cov * r.cov <= r.vx * r.vy
        /\ r.cov * r.cov = r.vx * r.vy => Follows(r.vx, r.cov, n, x, y, S)
    BY <1>1, <1>3, <2>3, CorrelationBounded
  <2> QED BY <2>2 DEF Follows
<1> QED BY <1>7 DEF r, S

\* A symbol that is absent somewhere is no opposite of one that is absent there too.
LEMMA NoExactOpposite ==
    ASSUME NEW n \in Nat, NEW X \in Nat \ {0}, NEW Y \in Nat, NEW vx \in Nat, NEW cov \in Int, cov < 0,
           NEW a, a = 0, NEW b, b = 0, vx * (n * b - Y) = cov * (n * a - X)
    PROVE  FALSE
<1>1. vx * (n * 0 - Y) = -(vx * Y) /\ cov * (n * 0 - X) = (-cov) * X
  OBVIOUS
<1>2. vx * Y \in Nat
  BY NatTimes
<1>3. (-cov) * X >= 1
  <2> DEFINE m == -cov
  <2>1. m \in Nat \ {0}
    OBVIOUS
  <2> HIDE DEF m
  <2>2. m * X >= 1
    BY <2>1
  <2> QED BY <2>2 DEF m
<1>4. -(vx * Y) = (-cov) * X
  BY <1>1
<1> DEFINE p == vx * Y
           q == (-cov) * X
<1>5. p \in Nat /\ q >= 1 /\ -p = q /\ q \in Int
  BY <1>2, <1>3, <1>4
<1> HIDE DEF p, q
<1> QED BY <1>5

\* Absences from the same bucket keep two symbols from being exact opposites.
LEMMA OppositesMeet == CorpusInv => ApartIsNotOpposite
<1> SUFFICES ASSUME CorpusInv, report = "mix", NEW p \in Correlated(corpus)
             PROVE  LET r == Pearson(Vector(corpus, p[1]), Vector(corpus, p[2]))
                        span == Min(FilledBuckets(corpus)) .. Max(FilledBuckets(corpus))
                    IN  /\ r.cov * r.cov <= r.vx * r.vy
                        /\ (/\ \E b \in span : \A k \in {1, 2} : MentionsIn(corpus, p[k], b) = 0
                            /\ Max(span) - Min(span) < MaxGrid /\ r.cov < 0)
                           => r.cov * r.cov < r.vx * r.vy
  BY DEF ApartIsNotOpposite
<1> DEFINE F == FilledBuckets(corpus)
           last == Max(F)
           first == Max({Min(F), last - MaxGrid + 1})
           n == last - first + 1
           x == Vector(corpus, p[1])
           y == Vector(corpus, p[2])
           r == Pearson(x, y)
           span == Min(F) .. last
<1>1. F # {} /\ p[1] \in EligibleSymbols(corpus) /\ p[2] \in EligibleSymbols(corpus)
  <2>1. F # {}
    <3> SUFFICES ASSUME F = {} PROVE FALSE
      OBVIOUS
    <3>1. Cardinality(F) = 0
      BY FS_EmptySet
    <3> HIDE DEF F
    <3>2. Correlated(corpus) = {}
      BY <3>1 DEF Correlated, F
    <3> QED BY <3>2
  <2>2. Correlated(corpus) \subseteq EligibleSymbols(corpus) \X EligibleSymbols(corpus)
    BY DEF Correlated
  <2> QED BY <2>1, <2>2
<1>2. /\ IsFiniteSet(F) /\ F \in SUBSET Int
      /\ \A s \in Filled(corpus) : PairBucket(s) \in F
      /\ Min(F) \in Int /\ last \in Int /\ \A b \in F : Min(F) <= b /\ b <= last
      /\ Min(F) <= last
      /\ first \in Int /\ first <= last /\ (last - Min(F) < MaxGrid => first = Min(F))
  BY <1>1, FilledGrid
<1>3. \A sym, b : MentionsIn(corpus, sym, b) \in Nat
  <2> TAKE sym, b
  <2>1. {s \in Filled(corpus) : sym \in s.symbols /\ PairBucket(s) = b} \in SUBSET Filled(corpus)
    OBVIOUS
  <2> QED BY <2>1, TallyFacts DEF MentionsIn
<1>4. \A sym : Vector(corpus, sym) = [i \in 1..n |-> MentionsIn(corpus, sym, first + i - 1)]
  BY DEF Vector
<1> HIDE DEF F, first, last
<1>5. n \in Nat \ {0}
  BY <1>2
<1> HIDE DEF n
<1>6. x \in [1..n -> Nat] /\ y \in [1..n -> Nat]
  BY <1>3, <1>4
<1>7. \A i \in 1..n : x[i] = MentionsIn(corpus, p[1], first + i - 1)
                      /\ y[i] = MentionsIn(corpus, p[2], first + i - 1)
  BY <1>4
<1> HIDE DEF x, y
<1>8. x \in [1..n -> Int] /\ y \in [1..n -> Int]
  BY <1>6
<1>9. /\ r.vx \in Nat /\ r.cov \in Int /\ r.vy \in Nat /\ r.cov * r.cov <= r.vx * r.vy
      /\ r.cov * r.cov = r.vx * r.vy =>
            \A i \in 1..n : r.vx * (n * y[i] - SumOver(y, 1..n)) = r.cov * (n * x[i] - SumOver(x, 1..n))
  BY <1>5, <1>8, PearsonBounded
<1> HIDE DEF r
<1>10. ASSUME NEW b \in span, \A k \in {1, 2} : MentionsIn(corpus, p[k], b) = 0,
              Max(span) - Min(span) < MaxGrid, r.cov < 0
       PROVE  r.cov * r.cov < r.vx * r.vy
  <2> SUFFICES ASSUME r.cov * r.cov = r.vx * r.vy
               PROVE  FALSE
    <3>1. r.cov * r.cov \in Int /\ r.vx * r.vy \in Int
      BY <1>9
    <3> QED BY <1>9, <3>1
  <2>1. Max(span) = last /\ Min(span) = Min(F)
    <3>1. IsFiniteSet(span) /\ span \in SUBSET Int /\ span # {}
      BY <1>2, FS_Interval
    <3>2. Max(span) \in span /\ Min(span) \in span
          /\ \A t \in span : t <= Max(span) /\ Min(span) <= t
      <4> HIDE DEF span
      <4> QED BY <3>1, Extremes
    <3>3. last \in span /\ Min(F) \in span /\ \A t \in span : Min(F) <= t /\ t <= last
      BY <1>2
    <3>4. Max(span) \in Int /\ Min(span) \in Int /\ last <= Max(span) /\ Max(span) <= last
          /\ Min(span) <= Min(F) /\ Min(F) <= Min(span)
      BY <3>1, <3>2, <3>3
    <3> HIDE DEF span
    <3> QED BY <1>2, <3>4
  <2>2. last - Min(F) < MaxGrid
    <3> HIDE DEF span
    <3> QED BY <1>10, <2>1
  <2>3. first = Min(F)
    BY <1>2, <2>2
  <2> DEFINE i == b - first + 1
  <2>4. i \in 1..n /\ first + i - 1 = b
    BY <1>2, <2>3 DEF n
  <2>5. x[i] = 0 /\ y[i] = 0
    BY <1>7, <1>10, <2>4
  <2> DEFINE D == 1..n
  <2>6. IsFiniteSet(D) /\ \A j \in D : x[j] \in Nat /\ y[j] \in Nat
    BY <1>5, <1>6, FirstNumbers
  <2>7. SumOver(x, D) \in Nat /\ SumOver(y, D) \in Nat
    <3>1. \A j \in D : x[j] \in Nat
      BY <2>6
    <3>2. \A j \in D : y[j] \in Nat
      BY <2>6
    <3> HIDE DEF D
    <3> QED BY <2>6, <3>1, <3>2, SumType
  <2>8. SumOver(x, D) # 0
    <3>1. PICK s \in Filled(corpus) : p[1] \in s.symbols
      BY <1>1 DEF EligibleSymbols
    <3> DEFINE c == PairBucket(s)
               T == {z \in Filled(corpus) : p[1] \in z.symbols /\ PairBucket(z) = c}
               j == c - first + 1
    <3>2. c \in F /\ c \in Int /\ first <= c /\ c <= last
      BY <1>2, <2>3
    <3>3. j \in D /\ first + j - 1 = c
      <4> HIDE DEF c
      <4> QED BY <1>2, <3>2 DEF n
    <3>4. T \in SUBSET Filled(corpus) /\ T # {}
      BY <3>1
    <3>5. MentionsIn(corpus, p[1], c) # 0
      <4>1. MentionsIn(corpus, p[1], c) = Tally(corpus, T)
        BY DEF MentionsIn
      <4> HIDE DEF T, c
      <4> QED BY <3>4, <4>1, TallyFacts
    <3>6. x[j] # 0
      <4> HIDE DEF c
      <4> QED BY <1>7, <3>3, <3>5
    <3>7. \A k \in D : x[k] \in Nat
      BY <2>6
    <3> HIDE DEF D, j
    <3> QED BY <2>6, <3>3, <3>6, <3>7, SumZero
  <2>9. r.vx * (n * y[i] - SumOver(y, D)) = r.cov * (n * x[i] - SumOver(x, D))
    BY <1>9, <2>4
  <2> DEFINE X == SumOver(x, D)
             Y == SumOver(y, D)
             vx == r.vx
             cov == r.cov
             a == x[i]
             c == y[i]
  <2>10. X \in Nat \ {0} /\ Y \in Nat /\ n \in Nat /\ vx \in Nat /\ cov \in Int /\ cov < 0
         /\ a = 0 /\ c = 0 /\ vx * (n * c - Y) = cov * (n * a - X)
    <3> HIDE DEF i, D
    <3> QED BY <1>5, <1>9, <1>10, <2>5, <2>7, <2>8, <2>9
  <2> HIDE DEF i, D, X, Y, vx, cov, a, c
  <2> QED BY <2>10, NoExactOpposite
<1> HIDE DEF span
<1>11. (/\ \E b \in span : \A k \in {1, 2} : MentionsIn(corpus, p[k], b) = 0
        /\ Max(span) - Min(span) < MaxGrid /\ r.cov < 0)
       => r.cov * r.cov < r.vx * r.vy
  BY <1>10
<1> QED BY <1>9, <1>11 DEF r, x, y, span, F, last

-----------------------------------------------------------------------------
(* Velocity (news_velocity.py). *)

\* A later time is in no earlier bucket.
LEMMA BucketsFollow ==
    ASSUME NEW a \in Int, NEW b \in Int, a <= b
    PROVE  Bucket(a) \in Int /\ Bucket(b) \in Int /\ Bucket(a) <= Bucket(b)
<1>1. Width \in Nat \ {0}
  BY SurgeAssumption
<1> DEFINE p == a \div Width
           q == b \div Width
<1>2. p \in Int /\ p * Width <= a /\ a < (p + 1) * Width
      /\ q \in Int /\ q * Width <= b /\ b < (q + 1) * Width
  BY <1>1
<1> HIDE DEF p, q
<1>3. p <= q
  <2> SUFFICES ASSUME q + 1 <= p
               PROVE  FALSE
    BY <1>2
  <2>1. (q + 1) * Width <= p * Width
    BY <1>1, <1>2
  <2> QED BY <1>1, <1>2, <2>1
<1> QED BY <1>2, <1>3 DEF p, q, Bucket

\* A number of a sequence that so many are not above is one of its numbers.
LEMMA KthIsThere ==
    ASSUME NEW n \in Nat \ {0}, NEW seq \in [1..n -> Int], NEW k \in 1..n
    PROVE  \E i \in 1..n : Kth(seq, k) = seq[i]
<1> DEFINE R == Range(seq)
           A == {v \in R : Cardinality({i \in 1..n : seq[i] <= v}) >= k}
<1>1. Len(seq) = n /\ DOMAIN seq = 1..n
  OBVIOUS
<1>2. R = {seq[i] : i \in 1..n} /\ R \in SUBSET Int /\ R # {}
  BY <1>1 DEF Range
<1>3. IsFiniteSet(R)
  BY <1>1, RangeIsFinite
<1>4. Max(R) \in R /\ \A v \in R : v <= Max(R)
  <2> HIDE DEF R
  <2> QED BY <1>2, <1>3, Extremes
<1>5. {i \in 1..n : seq[i] <= Max(R)} = 1..n
  <2> HIDE DEF R
  <2> QED BY <1>2, <1>4
<1>6. Cardinality(1..n) = n
  BY FirstNumbers
<1>7. Max(R) \in A
  <2> DEFINE full == {i \in 1..n : seq[i] <= Max(R)}
  <2>a. Cardinality(full) >= k
    <3>1. full = 1..n
      BY <1>5
    <3> HIDE DEF full, R
    <3> QED BY <1>6, <3>1
  <2>1. Cardinality({i \in 1..n : seq[i] <= Max(R)}) >= k
    BY <2>a
  <2>2. Max(R) \in R
    BY <1>4
  <2> HIDE DEF R
  <2> QED BY <2>1, <2>2
<1>8. A \in SUBSET R
  OBVIOUS
<1>9. Kth(seq, k) = Min(A)
  BY <1>1 DEF Kth
<1> HIDE DEF A, R
<1>10. Min(A) \in A
  <2>1. A \in SUBSET Int /\ IsFiniteSet(A) /\ A # {}
    BY <1>2, <1>3, <1>7, <1>8, FS_Subset
  <2> QED BY <2>1, Extremes
<1> QED BY <1>2, <1>8, <1>9, <1>10

\* A median is between two numbers of the sequence, or it is one.
LEMMA MedianIsBetween ==
    ASSUME NEW n \in Nat \ {0}, NEW seq \in [1..n -> Int]
    PROVE  \E i, j \in 1..n : TwiceMedian(seq) = seq[i] + seq[j]
<1> DEFINE mid == Len(seq) \div 2
<1>1. Len(seq) = n
  OBVIOUS
<1>2. CASE n % 2 = 1
  <2>1. mid + 1 \in 1..n
    BY <1>1, <1>2
  <2>2. PICK i \in 1..n : Kth(seq, mid + 1) = seq[i]
    <3> HIDE DEF mid
    <3> QED BY <2>1, KthIsThere
  <2>3. TwiceMedian(seq) = 2 * Kth(seq, mid + 1)
    BY <1>1, <1>2 DEF TwiceMedian
  <2>4. seq[i] \in Int
    OBVIOUS
  <2>5. TwiceMedian(seq) = seq[i] + seq[i]
    BY <2>2, <2>3, <2>4
  <2> QED BY <2>5
<1>3. CASE n % 2 # 1
  <2>1. mid \in 1..n /\ mid + 1 \in 1..n
    BY <1>1, <1>3
  <2>2. PICK i \in 1..n : Kth(seq, mid) = seq[i]
    <3> HIDE DEF mid
    <3> QED BY <2>1, KthIsThere
  <2>3. PICK j \in 1..n : Kth(seq, mid + 1) = seq[j]
    <3> HIDE DEF mid
    <3> QED BY <2>1, KthIsThere
  <2>4. TwiceMedian(seq) = Kth(seq, mid) + Kth(seq, mid + 1)
    BY <1>1, <1>3 DEF TwiceMedian
  <2>5. TwiceMedian(seq) = seq[i] + seq[j]
    BY <2>2, <2>3, <2>4
  <2> QED BY <2>5
<1> QED BY <1>2, <1>3

\* An exponential mean stays between the least and the greatest, but for what
\* rounding down takes off.
LEMMA EmaBounds ==
    ASSUME NEW n \in Nat \ {0}, NEW seq \in [1..n -> Int],
           NEW low \in Int, NEW high \in Int, \A i \in 1..n : low <= 1000 * seq[i] /\ 1000 * seq[i] <= high
    PROVE  Ema(seq, 3, 10) \in low - 10 .. high /\ Ema(seq, 1, 20) \in low - 100 .. high
<1> SUFFICES ASSUME NEW num, NEW den, NEW slack,
                    \/ num = 3 /\ den = 10 /\ slack = 10
                    \/ num = 1 /\ den = 20 /\ slack = 100
             PROVE  Ema(seq, num, den) \in low - slack .. high
  OBVIOUS
<1> DEFINE V == low - slack .. high
           prev == [i \in 1..n |-> i - 1]
           term(i, w) == (num * 1000 * seq[i] + (den - num) * w) \div den
           step == [i \in 1..n |-> [w \in V |-> term(i, w)]]
           first == 1000 * seq[1]
           Solves(u) == u = [i \in 1..n |-> IF i = 1 THEN first ELSE term(i, u[i - 1])]
           mean == CHOOSE u : Solves(u)
<1>1. Len(seq) = n /\ \A i \in 1..n : seq[i] \in Int
  OBVIOUS
<1>2. first \in V
  <2>1. low <= 1000 * seq[1] /\ 1000 * seq[1] <= high /\ seq[1] \in Int
    BY <1>1
  <2> QED BY <2>1
<1>3. ASSUME NEW i \in 1..n, NEW w \in V
      PROVE  term(i, w) \in V
  <2> DEFINE x == 1000 * seq[i]
  <2>1. x \in Int /\ low <= x /\ x <= high /\ num * 1000 * seq[i] = num * x
    BY <1>1
  <2>2. w \in Int /\ low - slack <= w /\ w <= high
    OBVIOUS
  <2> HIDE DEF x
  <2>3. CASE num = 3 /\ den = 10 /\ slack = 10
    <3>1. (3 * x + 7 * w) \div 10 \in low - 10 .. high
      BY <2>1, <2>2, <2>3
    <3>2. num * 1000 * seq[i] + (den - num) * w = 3 * x + 7 * w
      BY <2>1, <2>2, <2>3
    <3> QED BY <2>3, <3>1, <3>2
  <2>4. CASE num = 1 /\ den = 20 /\ slack = 100
    <3>1. (x + 19 * w) \div 20 \in low - 100 .. high
      BY <2>1, <2>2, <2>4
    <3>2. num * 1000 * seq[i] + (den - num) * w = x + 19 * w
      BY <2>1, <2>2, <2>4
    <3> QED BY <2>4, <3>1, <3>2
  <2> QED BY <2>3, <2>4
<1>4. \A i \in 1..n : \A w \in V : step[i][w] = term(i, w)
  OBVIOUS
<1>5. \A i \in 1..n : prev[i] = i - 1
  OBVIOUS
<1> HIDE DEF V, prev, step
<1>6. StepsWithin(step, n, V)
  BY <1>3, <1>4 DEF StepsWithin
<1>7. Backwards(prev, n)
  BY <1>5 DEF Backwards
<1>8. /\ \E u : Recurs(u, n, first, step, prev)
      /\ \A u : Recurs(u, n, first, step, prev) => \A i \in 1..n : u[i] \in V
  <2> HIDE DEF first
  <2>1. n \in Nat
    OBVIOUS
  <2> QED BY <1>2, <1>6, <1>7, <2>1, Recursion
<1>9. \E u : Solves(u)
  <2>1. PICK u : Recurs(u, n, first, step, prev)
    BY <1>8
  <2>2. \A i \in 1..n : u[i] \in V
    BY <1>8, <2>1
  <2> HIDE DEF term, first
  <2>3. \A i \in 1..n : i # 1 => step[i][u[prev[i]]] = term(i, u[i - 1])
    <3> SUFFICES ASSUME NEW i \in 1..n, i # 1
                 PROVE  step[i][u[prev[i]]] = term(i, u[i - 1])
      OBVIOUS
    <3>1. prev[i] = i - 1 /\ i - 1 \in 1..n
      BY <1>5
    <3>2. u[i - 1] \in V
      BY <2>2, <3>1
    <3> QED BY <1>4, <3>1, <3>2
  <2>4. u = [i \in 1..n |-> IF i = 1 THEN first ELSE step[i][u[prev[i]]]]
    BY <2>1 DEF Recurs
  <2>5. u = [i \in 1..n |-> IF i = 1 THEN first ELSE term(i, u[i - 1])]
    BY <2>3, <2>4
  <2> QED BY <2>5
<1>10. Solves(mean)
  <2> HIDE DEF Solves
  <2> QED BY <1>9
<1>11. Ema(seq, num, den) = mean[n]
  BY <1>1 DEF Ema
<1>12. \A i \in 1..n : mean[i] = IF i = 1 THEN first ELSE term(i, mean[i - 1])
  <2> HIDE DEF mean, first, term
  <2> QED BY <1>10
<1> HIDE DEF mean, first, term
<1>13. \A i \in 1..n : mean[i] \in V
  <2> DEFINE M == {m \in Nat : \A i \in 1..n : i <= m => mean[i] \in V}
  <2>1. 0 \in M
    OBVIOUS
  <2>2. ASSUME NEW m \in Nat, m \in M
        PROVE  m + 1 \in M
    <3> SUFFICES ASSUME NEW i \in 1..n, i <= m + 1
                 PROVE  mean[i] \in V
      OBVIOUS
    <3>1. CASE i = 1
      BY <1>2, <1>12, <3>1
    <3>2. CASE i # 1
      <4>1. i - 1 \in 1..n /\ i - 1 <= m
        BY <3>2
      <4>2. mean[i - 1] \in V
        BY <2>2, <4>1
      <4>3. mean[i] = term(i, mean[i - 1])
        BY <1>12, <3>2
      <4> QED BY <1>3, <4>2, <4>3
    <3> QED BY <3>1, <3>2
  <2> HIDE DEF M
  <2>3. n \in M
    BY <2>1, <2>2, SetInduction
  <2> QED BY <2>3 DEF M
<1>14. n \in 1..n
  OBVIOUS
<1> QED BY <1>11, <1>13, <1>14 DEF V

\* The sequence of a velocity report: a place for every bucket of the window,
\* a row in the last, and every row of the window in one.
LEMMA ArrivalsCount ==
    ASSUME CorpusInv, report = "velocity", Filled(corpus) # {}
    PROVE  \E n \in Nat \ {0} :
              /\ Arrivals(corpus) \in [1..n -> Nat] /\ Arrivals(corpus)[n] >= 1
              /\ AddUp(Arrivals(corpus)) = Tally(corpus, InWindow(corpus))
<1> DEFINE at == [s \in Filled(corpus) |-> s.at]
           times == {s.at : s \in Filled(corpus)}
           last == Latest(corpus)
           start == WindowStart(corpus)
           n == Bucket(last) - Bucket(start) + 1
           S == InWindow(corpus)
           K == 1..n
           g == [s \in S |-> Bucket(s.at) - Bucket(start) + 1]
           part == [i \in K |-> In(corpus, Bucket(start) + i - 1) \cap S]
           h == Arrivals(corpus)
<1>1. \A s \in Filled(corpus) : s.at \in Int
  BY CorpusFinite, SurgeAssumption DEF CorpusInv
<1>2. /\ last \in times /\ last \in Int /\ \A s \in Filled(corpus) : s.at <= last
  <2>1. \A s \in Filled(corpus) : at[s] \in Int /\ at[s] = s.at
    BY <1>1
  <2>2. {at[s] : s \in Filled(corpus)} = times
    BY <2>1
  <2>3. Filled(corpus) \in SUBSET Filled(corpus)
    OBVIOUS
  <2>4. last = Max(times)
    BY DEF Latest
  <2> HIDE DEF at, times, last
  <2>5. /\ times \subseteq Int /\ Max(times) \in times
        /\ \A s \in Filled(corpus) : at[s] <= Max(times)
    BY <2>1, <2>2, <2>3, PlacesAreBounded
  <2> QED BY <2>1, <2>4, <2>5
<1>3. start \in Int /\ start <= last
  BY <1>2, SurgeAssumption DEF WindowStart
<1>4. Bucket(start) \in Int /\ Bucket(last) \in Int /\ n \in Nat \ {0}
  <2> HIDE DEF start, last
  <2>1. Bucket(start) \in Int /\ Bucket(last) \in Int /\ Bucket(start) <= Bucket(last)
    BY <1>2, <1>3, BucketsFollow
  <2> QED BY <2>1
<1>5. S \in SUBSET Filled(corpus) /\ \A s \in S : start <= s.at
  BY DEF InWindow
<1>6. \A s \in S : Bucket(s.at) \in Int /\ Bucket(start) <= Bucket(s.at) /\ Bucket(s.at) <= Bucket(last)
  <2> SUFFICES ASSUME NEW s \in S
               PROVE  Bucket(s.at) \in Int /\ Bucket(start) <= Bucket(s.at) /\ Bucket(s.at) <= Bucket(last)
    OBVIOUS
  <2>1. s.at \in Int /\ start <= s.at /\ s.at <= last
    BY <1>1, <1>2, <1>5
  <2> HIDE DEF S, start, last
  <2> QED BY <1>2, <1>3, <2>1, BucketsFollow
<1>7. \A s \in S : g[s] \in K
  <2> SUFFICES ASSUME NEW s \in S
               PROVE  g[s] \in K
    OBVIOUS
  <2>1. g[s] = Bucket(s.at) - Bucket(start) + 1
    OBVIOUS
  <2> HIDE DEF g, S, start, last
  <2> QED BY <1>4, <1>6, <2>1
<1>8. h = [i \in K |-> Tally(corpus, part[i])]
  BY DEF Arrivals
<1>9. \A i \in K : part[i] \in SUBSET S
  OBVIOUS
<1>10. \A s \in S : \A i \in K : s \in part[i] <=> g[s] = i
  <2> SUFFICES ASSUME NEW s \in S, NEW i \in K
               PROVE  s \in part[i] <=> g[s] = i
    OBVIOUS
  <2>1. s \in part[i] <=> Bucket(s.at) = Bucket(start) + i - 1
    BY <1>5 DEF In
  <2>2. g[s] = Bucket(s.at) - Bucket(start) + 1 /\ i \in Int
    OBVIOUS
  <2> HIDE DEF g, S, start, last, part, K
  <2> QED BY <1>4, <1>6, <2>1, <2>2
<1>11. IsFiniteSet(K) /\ IsFiniteSet(S) /\ \A s \in S : corpus[s] \in Int
  <2>1. IsFiniteSet(K)
    <3> HIDE DEF n
    <3> QED BY <1>4, FirstNumbers
  <2> HIDE DEF S, K
  <2> QED BY <1>5, <2>1, CorpusFinite, TallyFacts
<1> HIDE DEF n, S, K, g, part, h
<1>12. \A i \in K : h[i] \in Nat /\ h[i] = SumOver(corpus, part[i])
  <2> SUFFICES ASSUME NEW i \in K
               PROVE  h[i] \in Nat /\ h[i] = SumOver(corpus, part[i])
    OBVIOUS
  <2>1. part[i] \in SUBSET Filled(corpus) /\ h[i] = Tally(corpus, part[i])
    BY <1>5, <1>8, <1>9
  <2> QED BY <2>1, TallyFacts, TallyIsSum
<1>13. AddUp(h) = Tally(corpus, S)
  <2>1. DOMAIN h = K
    BY <1>8
  <2>2. \A i \in K : part[i] \subseteq S
    BY <1>9
  <2>3. \A i \in K : h[i] = SumOver(corpus, part[i])
    BY <1>12
  <2>4. \A s \in S : corpus[s] \in Int
    BY <1>11
  <2>5. IsFiniteSet(K)
    BY <1>11
  <2>6. IsFiniteSet(S)
    BY <1>11
  <2>7. SumOver(h, K) = SumOver(corpus, S)
    BY <1>7, <1>10, <2>2, <2>3, <2>4, <2>5, <2>6, SumParts
  <2> QED BY <2>1, <2>7, SequenceSum, TallyIsSum
<1>14. h[n] >= 1
  <2>1. PICK s \in Filled(corpus) : s.at = last
    BY <1>2
  <2>2. s \in S
    <3>1. s.at >= start
      BY <1>3, <2>1
    <3> QED BY <3>1 DEF S, InWindow
  <2>3. n \in K
    BY <1>4 DEF K
  <2>4. g[s] = n
    BY <2>1, <2>2 DEF g, n
  <2>5. s \in part[n]
    BY <1>10, <2>2, <2>3, <2>4
  <2>6. part[n] \in SUBSET Filled(corpus) /\ h[n] = Tally(corpus, part[n])
    BY <1>5, <1>8, <1>9, <2>3
  <2>7. Tally(corpus, part[n]) \in Nat /\ Tally(corpus, part[n]) # 0
    BY <2>5, <2>6, TallyFacts
  <2> QED BY <2>6, <2>7
<1>15. h \in [1..n -> Nat]
  <2>1. DOMAIN h = K /\ h = [i \in K |-> h[i]]
    BY <1>8
  <2> QED BY <1>12, <2>1 DEF K
<1> QED BY <1>4, <1>13, <1>14, <1>15 DEF h, S

\* A velocity report counts its window, and its means and its regime follow.
LEMMA VelocityBalances == CorpusInv => VelocityCounts
<1> SUFFICES ASSUME CorpusInv, report = "velocity", Filled(corpus) # {}
             PROVE  LET seq == Arrivals(corpus)
                        v == Velocity(corpus)
                        low == 1000 * Min(Range(seq))
                        high == 1000 * Max(Range(seq))
                    IN  /\ AddUp(seq) = v.samples /\ v.current >= 1
                        /\ v.fast \in low - 10 .. high /\ v.slow \in low - 100 .. high
                        /\ v.regime \in {"burst", "active"} => 2 * v.current > TwiceMedian(seq)
                        /\ v.regime = "quiet" => v.current < Max(Range(seq))
  BY DEF VelocityCounts
<1> DEFINE seq == Arrivals(corpus)
           v == Velocity(corpus)
           R == Range(seq)
           low == 1000 * Min(R)
           high == 1000 * Max(R)
<1>1. PICK n \in Nat \ {0} : /\ seq \in [1..n -> Nat] /\ seq[n] >= 1
                             /\ AddUp(seq) = Tally(corpus, InWindow(corpus))
  BY ArrivalsCount
<1>2. /\ v.samples = Tally(corpus, InWindow(corpus)) /\ v.current = Last(seq)
      /\ v.fast = Ema(seq, 3, 10) /\ v.slow = Ema(seq, 1, 20) /\ v.regime = Regime(seq)
  BY DEF Velocity
<1> HIDE DEF seq, v
<1>3. Len(seq) = n /\ DOMAIN seq = 1..n /\ \A i \in 1..n : seq[i] \in Nat
  BY <1>1
<1>4. v.current = seq[n]
  BY <1>2, <1>3 DEF Last
<1>5. R = {seq[i] : i \in 1..n} /\ R \in SUBSET Int /\ R # {} /\ \A i \in 1..n : seq[i] \in R
  BY <1>3 DEF Range
<1>6. IsFiniteSet(R)
  BY <1>3, RangeIsFinite
<1>7. /\ Max(R) \in Int /\ Min(R) \in Int
      /\ \A i \in 1..n : Min(R) <= seq[i] /\ seq[i] <= Max(R)
  <2> HIDE DEF R
  <2>1. /\ Max(R) \in R /\ \A x \in R : x <= Max(R)
        /\ Min(R) \in R /\ \A x \in R : Min(R) <= x
    BY <1>5, <1>6, Extremes
  <2> QED BY <1>5, <2>1
<1> HIDE DEF R
<1>8. low \in Int /\ high \in Int
  BY <1>7
<1>9. \A i \in 1..n : low <= 1000 * seq[i] /\ 1000 * seq[i] <= high
  <2> SUFFICES ASSUME NEW i \in 1..n
               PROVE  low <= 1000 * seq[i] /\ 1000 * seq[i] <= high
    OBVIOUS
  <2>1. seq[i] \in Int /\ Min(R) <= seq[i] /\ seq[i] <= Max(R)
    BY <1>3, <1>7
  <2> QED BY <1>7, <2>1
<1>10. seq \in [1..n -> Int]
  BY <1>1
<1> HIDE DEF low, high
<1>11. Ema(seq, 3, 10) \in low - 10 .. high /\ Ema(seq, 1, 20) \in low - 100 .. high
  BY <1>8, <1>9, <1>10, EmaBounds
<1>13. ASSUME v.regime \in {"burst", "active"}
       PROVE  2 * v.current > TwiceMedian(seq)
  <2>1. 2 * Last(seq) - TwiceMedian(seq) > 0
    BY <1>2, <1>13 DEF Regime, Accelerates
  <2>2. PICK i \in 1..n, j \in 1..n : TwiceMedian(seq) = seq[i] + seq[j]
    BY <1>10, MedianIsBetween
  <2>3. TwiceMedian(seq) \in Int
    BY <1>3, <2>2
  <2>4. seq[n] \in Int /\ Last(seq) = seq[n]
    BY <1>3 DEF Last
  <2> QED BY <1>4, <2>1, <2>3, <2>4
<1>14. ASSUME v.regime = "quiet"
       PROVE  v.current < Max(R)
  <2> DEFINE neg == [i \in DOMAIN seq |-> -seq[i]]
  <2>1. 2 * Last(neg) - TwiceMedian(neg) > 0
    BY <1>2, <1>14 DEF Regime, Accelerates
  <2>2. neg \in [1..n -> Int] /\ Len(neg) = n /\ \A i \in 1..n : neg[i] = -seq[i]
    BY <1>3
  <2> HIDE DEF neg
  <2>3. PICK i \in 1..n, j \in 1..n : TwiceMedian(neg) = neg[i] + neg[j]
    BY <2>2, MedianIsBetween
  <2>4. Last(neg) = -seq[n] /\ seq[n] \in Int
    BY <1>3, <2>2 DEF Last
  <2>5. /\ neg[i] = -seq[i] /\ neg[j] = -seq[j] /\ seq[i] \in Int /\ seq[j] \in Int
        /\ seq[i] <= Max(R) /\ seq[j] <= Max(R)
    BY <1>3, <1>7, <2>2
  <2>6. 2 * (-seq[n]) > (-seq[i]) + (-seq[j])
    BY <2>1, <2>3, <2>4, <2>5
  <2> QED BY <1>4, <1>7, <2>4, <2>5, <2>6
<1>15. AddUp(seq) = v.samples /\ v.current >= 1
  BY <1>1, <1>2, <1>4
<1> QED BY <1>2, <1>11, <1>13, <1>14, <1>15 DEF seq, v, low, high, R

-----------------------------------------------------------------------------
(* Mirrored news (sentiment_dispersion.py, sentiment_momentum.py). *)

\* Turning a label round twice changes nothing, and nothing else is changed.
LEMMA MirrorRow ==
    ASSUME CorpusInv, report \in {"momentum", "scopes"}, NEW s \in DOMAIN corpus
    PROVE  /\ Mirror(s).label = MirrorLabel(s.label) /\ Mirror(Mirror(s)) = s
           /\ Mirror(s).at = s.at /\ Mirror(s).assets = s.assets /\ Mirror(s).symbols = s.symbols
<1>1. s \in Shape[report] /\ report \in DOMAIN Shape
  BY CorpusFinite DEF CorpusInv
<1>2. /\ s = [x \in DOMAIN s |-> s[x]] /\ "label" \in DOMAIN s
      /\ "at" \in DOMAIN s /\ "assets" \in DOMAIN s /\ "symbols" \in DOMAIN s
  BY <1>1, SentimentAssumption
<1> DEFINE m == Mirror(s)
<1>3. DOMAIN m = DOMAIN s /\ m = [x \in DOMAIN s |-> IF x = "label" THEN MirrorLabel(s.label) ELSE s[x]]
  BY <1>2 DEF Mirror
<1>4. MirrorLabel(MirrorLabel(s.label)) = s.label
  BY DEF MirrorLabel
<1>5. Mirror(m) = [x \in DOMAIN m |-> IF x = "label" THEN MirrorLabel(m.label) ELSE m[x]]
  <2> HIDE DEF m
  <2>1. m = [x \in DOMAIN m |-> m[x]] /\ "label" \in DOMAIN m
    BY <1>2, <1>3
  <2> QED BY <2>1 DEF Mirror
<1> HIDE DEF m
<1>6. m.label = MirrorLabel(s.label) /\ m.at = s.at /\ m.assets = s.assets /\ m.symbols = s.symbols
  BY <1>2, <1>3
<1>7. \A x \in DOMAIN s : (IF x = "label" THEN MirrorLabel(m.label) ELSE m[x]) = s[x]
  BY <1>3, <1>4, <1>6
<1>8. Mirror(m) = [x \in DOMAIN s |-> s[x]]
  BY <1>3, <1>5, <1>7
<1> QED BY <1>2, <1>6, <1>8 DEF m

\* The rows of a group, each with its label turned round.
Turned(S) == {Mirror(s) : s \in S}

\* The mirrored bag has the mirror of every row as often as the bag has the row.
LEMMA MirroredBag ==
    ASSUME CorpusInv, report \in {"momentum", "scopes"}
    PROVE  /\ \A s \in DOMAIN corpus : Mirrored(corpus)[Mirror(s)] = corpus[s]
           /\ \A s, t \in DOMAIN corpus : Mirror(s) = Mirror(t) => s = t
           /\ Filled(Mirrored(corpus)) = Turned(Filled(corpus))
<1>1. \A s \in DOMAIN corpus : Mirror(Mirror(s)) = s
  BY MirrorRow
<1>2. DOMAIN Mirrored(corpus) = Turned(DOMAIN corpus)
  BY DEF Mirrored, Turned
<1>3. \A s \in DOMAIN corpus : Mirrored(corpus)[Mirror(s)] = corpus[s]
  BY <1>1 DEF Mirrored
<1>4. \A s, t \in DOMAIN corpus : Mirror(s) = Mirror(t) => s = t
  BY <1>1
<1>5. Filled(Mirrored(corpus)) = Turned(Filled(corpus))
  BY <1>2, <1>3 DEF Filled, Turned
<1> QED BY <1>3, <1>4, <1>5

\* So a count of the mirrored rows is the count of the rows.
LEMMA MirroredTally ==
    ASSUME CorpusInv, report \in {"momentum", "scopes"}, NEW S \in SUBSET Filled(corpus)
    PROVE  Tally(Mirrored(corpus), Turned(S)) = Tally(corpus, S)
<1> DEFINE f == Mirrored(corpus)
           m == [s \in S |-> Mirror(s)]
<1>1. S \in SUBSET DOMAIN corpus /\ IsFiniteSet(S) /\ \A s \in S : corpus[s] \in Int
  BY CorpusFinite, TallyFacts
<1>2. \A s, t \in S : m[s] = m[t] => s = t
  BY <1>1, MirroredBag
<1>3. \A s \in S : f[m[s]] \in Int /\ corpus[s] = f[m[s]]
  BY <1>1, MirroredBag
<1>4. Turned(S) = {m[s] : s \in S}
  BY DEF Turned
<1> HIDE DEF f, m
<1>5. IsFiniteSet(S)
  BY <1>1
<1>6. SumOver(f, {m[s] : s \in S}) = SumOver(corpus, S)
  BY <1>2, <1>3, <1>5, SumImage
<1> QED BY <1>4, <1>6, TallyIsSum DEF f

\* A group's positive rows are the negative ones of its mirror, and the other way round.
LEMMA MirroredLabels ==
    ASSUME CorpusInv, report \in {"momentum", "scopes"}, NEW S \in SUBSET Filled(corpus)
    PROVE  LET c == Mirrored(corpus) IN
           /\ WithLabel(c, Turned(S), "positive") = WithLabel(corpus, S, "negative")
           /\ WithLabel(c, Turned(S), "neutral") = WithLabel(corpus, S, "neutral")
           /\ WithLabel(c, Turned(S), "negative") = WithLabel(corpus, S, "positive")
<1> DEFINE L(l) == {s \in S : s.label = l}
<1>1. \A s \in S : Mirror(s).label = MirrorLabel(s.label)
  BY CorpusFinite, MirrorRow
<1>2. ASSUME NEW l \in {"positive", "neutral", "negative"}
      PROVE  WithLabel(Mirrored(corpus), Turned(S), l) = WithLabel(corpus, S, MirrorLabel(l))
  <2>1. {s \in Turned(S) : s.label = l} = Turned(L(MirrorLabel(l)))
    <3>1. \A s \in S : Mirror(s).label = l <=> s.label = MirrorLabel(l)
      BY <1>1 DEF MirrorLabel
    <3> QED BY <3>1 DEF Turned
  <2>2. L(MirrorLabel(l)) \in SUBSET Filled(corpus)
    OBVIOUS
  <2>3. WithLabel(corpus, S, MirrorLabel(l)) = Tally(corpus, L(MirrorLabel(l)))
    BY DEF WithLabel
  <2> HIDE DEF L
  <2> QED BY <2>1, <2>2, <2>3, MirroredTally DEF WithLabel
<1>3. /\ MirrorLabel("positive") = "negative" /\ MirrorLabel("negative") = "positive"
      /\ MirrorLabel("neutral") = "neutral"
  BY DEF MirrorLabel
<1> QED BY <1>2, <1>3

\* At most one of three counts is above zero, in whatever order they stand.
LEMMA AtMostOne ==
    ASSUME NEW A, IsFiniteSet(A)
    PROVE  Cardinality(A) <= 1 <=> \A x, y \in A : x = y
<1>1. Cardinality(A) \in Nat
  BY FS_CardinalityType
<1>2. ASSUME NEW x \in A, NEW y \in A, x # y
      PROVE  Cardinality(A) >= 2
  <2>1. {x, y} \in SUBSET A
    OBVIOUS
  <2>2. Cardinality({x}) = 1 /\ IsFiniteSet({x})
    BY FS_Singleton
  <2>3. Cardinality({x} \cup {y}) = 2
    <3>1. Cardinality({x} \cup {y}) = Cardinality({x}) + 1
      BY <1>2, <2>2, FS_AddElement
    <3> QED BY <2>2, <3>1
  <2>4. {x} \cup {y} \in SUBSET A
    BY <2>1
  <2>5. Cardinality({x} \cup {y}) <= Cardinality(A)
    BY <2>4, FS_Subset
  <2> QED BY <1>1, <2>3, <2>5
<1>3. ASSUME \A x, y \in A : x = y
      PROVE  Cardinality(A) <= 1
  <2>1. CASE A = {}
    BY <2>1, FS_EmptySet
  <2>2. CASE A # {}
    <3>1. PICK x : A = {x}
      BY <1>3, <2>2
    <3> QED BY <3>1, FS_Singleton
  <2> QED BY <2>1, <2>2
<1> QED BY <1>1, <1>2, <1>3

\* One label has all the rows of a scope iff one has all of the mirrored ones.
LEMMA PureEitherWay ==
    ASSUME NEW p \in Nat, NEW z \in Nat, NEW n \in Nat
    PROVE  Cardinality({x \in {1, 2, 3} : <<p, z, n>>[x] > 0}) <= 1
              <=> Cardinality({x \in {1, 2, 3} : <<n, z, p>>[x] > 0}) <= 1
<1> DEFINE A == {x \in {1, 2, 3} : <<p, z, n>>[x] > 0}
           B == {x \in {1, 2, 3} : <<n, z, p>>[x] > 0}
<1>1. IsFiniteSet(A) /\ IsFiniteSet(B)
  <2>1. IsFiniteSet(1..3) /\ 1..3 = {1, 2, 3}
    <3>1. 3 \in Nat
      OBVIOUS
    <3>2. IsFiniteSet(1..3)
      BY <3>1, FirstNumbers
    <3> QED BY <3>2
  <2>2. A \in SUBSET (1..3) /\ B \in SUBSET (1..3)
    BY <2>1
  <2> HIDE DEF A, B
  <2> QED BY <2>1, <2>2, FS_Subset
<1>2. (1 \in A <=> p > 0) /\ (2 \in A <=> z > 0) /\ (3 \in A <=> n > 0) /\ A \subseteq {1, 2, 3}
      /\ (1 \in B <=> n > 0) /\ (2 \in B <=> z > 0) /\ (3 \in B <=> p > 0) /\ B \subseteq {1, 2, 3}
  OBVIOUS
<1> HIDE DEF A, B
<1>3. (\A x, y \in A : x = y) <=> (\A x, y \in B : x = y)
  BY <1>2
<1>4. Cardinality(A) <= 1 <=> Cardinality(B) <= 1
  BY <1>1, <1>3, AtMostOne
<1> QED BY <1>4 DEF A, B

\* What is dominant in mirrored counts, and that it is above the other two.
LEMMA DominantEitherWay ==
    ASSUME NEW p \in Nat, NEW z \in Nat, NEW n \in Nat
    PROVE  /\ Dominant(n, z, p) = MirrorLabel(Dominant(p, z, n))
           /\ Dominant(p, z, n) \in {"positive", "neutral", "negative", "tied"}
           /\ Dominant(p, z, n) = "positive" => z < p /\ n < p
           /\ Dominant(p, z, n) = "neutral" => p < z /\ n < z
           /\ Dominant(p, z, n) = "negative" => p < n /\ z < n
<1> DEFINE d == Dominant(p, z, n)
           e == Dominant(n, z, p)
<1>1. /\ MirrorLabel("positive") = "negative" /\ MirrorLabel("negative") = "positive"
      /\ MirrorLabel("neutral") = "neutral" /\ MirrorLabel("tied") = "tied"
  BY DEF MirrorLabel
<1>2. \/ d = "positive" /\ e = "negative" /\ z < p /\ n < p
      \/ d = "negative" /\ e = "positive" /\ p < n /\ z < n
      \/ d = "neutral" /\ e = "neutral" /\ p < z /\ n < z
      \/ d = "tied" /\ e = "tied"
  BY DEF Dominant
<1> HIDE DEF d, e
<1>3. e = MirrorLabel(d)
  BY <1>1, <1>2
<1>4. /\ d \in {"positive", "neutral", "negative", "tied"}
      /\ d = "positive" => z < p /\ n < p
      /\ d = "neutral" => p < z /\ n < z
      /\ d = "negative" => p < n /\ z < n
  BY <1>2
<1> QED BY <1>3, <1>4 DEF d, e

\* The mirrored rows have the same scopes, and a scope has the mirrored rows.
LEMMA MirroredScopes ==
    ASSUME CorpusInv, report = "scopes"
    PROVE  /\ Scopes(Mirrored(corpus)) = Scopes(corpus)
           /\ \A a \in Scopes(corpus) : Scoped(Mirrored(corpus), a) = Turned(Scoped(corpus, a))
<1>1. Filled(Mirrored(corpus)) = Turned(Filled(corpus))
  BY MirroredBag
<1>2. \A s \in Filled(corpus) : Mirror(s).assets = s.assets
  <2>1. \A s \in DOMAIN corpus : Mirror(s).assets = s.assets
    BY MirrorRow
  <2> QED BY <2>1 DEF Filled
<1> HIDE DEF Mirrored
<1>3. Scopes(Mirrored(corpus)) = Scopes(corpus)
  BY <1>1, <1>2 DEF Scopes, Turned
<1>4. ASSUME NEW a \in Scopes(corpus)
      PROVE  Scoped(Mirrored(corpus), a) = Turned(Scoped(corpus, a))
  BY <1>1, <1>2 DEF Scoped, Turned
<1> QED BY <1>3, <1>4

\* The scopes of mirrored rows are judged the other way round.
LEMMA ScopesMirror ==
    ASSUME CorpusInv, report = "scopes", NEW a \in Scopes(corpus)
    PROVE  LET d == DispersionByScope(corpus)[a]
               e == DispersionByScope(Mirrored(corpus))[a]
           IN  /\ e.dominant = MirrorLabel(d.dominant) /\ e.size = d.size /\ e.pure = d.pure
               /\ d.dominant # "tied" =>
                     \A l \in DOMAIN d.counts \ {d.dominant} : d.counts[l] < d.counts[d.dominant]
<1> DEFINE d == DispersionByScope(corpus)[a]
           e == DispersionByScope(Mirrored(corpus))[a]
           S == Scoped(corpus, a)
           p == WithLabel(corpus, S, "positive")
           z == WithLabel(corpus, S, "neutral")
           n == WithLabel(corpus, S, "negative")
<1>1. S \in SUBSET Filled(corpus)
  BY DEF Scoped
<1>2. d = Dispersion(corpus, S) /\ e = Dispersion(Mirrored(corpus), Turned(S))
  BY MirroredScopes DEF DispersionByScope
<1>3. /\ WithLabel(Mirrored(corpus), Turned(S), "positive") = n
      /\ WithLabel(Mirrored(corpus), Turned(S), "neutral") = z
      /\ WithLabel(Mirrored(corpus), Turned(S), "negative") = p
  BY <1>1, MirroredLabels
<1>4. /\ d.size = p + z + n /\ d.dominant = Dominant(p, z, n)
      /\ d.counts = [positive |-> p, neutral |-> z, negative |-> n]
      /\ d.pure = (Cardinality({x \in {1, 2, 3} : <<p, z, n>>[x] > 0}) <= 1)
      /\ e.size = n + z + p /\ e.dominant = Dominant(n, z, p)
      /\ e.pure = (Cardinality({x \in {1, 2, 3} : <<n, z, p>>[x] > 0}) <= 1)
  BY <1>2, <1>3 DEF Dispersion
<1>5. p \in Nat /\ z \in Nat /\ n \in Nat
  BY <1>1, LabelsShare
<1> HIDE DEF d, e, p, z, n, S
<1>6. e.dominant = MirrorLabel(d.dominant) /\ e.size = d.size
  BY <1>4, <1>5, DominantEitherWay
<1>7. e.pure = d.pure
  BY <1>4, <1>5, PureEitherWay
<1>8. ASSUME d.dominant # "tied", NEW l \in DOMAIN d.counts \ {d.dominant}
      PROVE  d.counts[l] < d.counts[d.dominant]
  <2>1. d.dominant \in {"positive", "neutral", "negative"}
    BY <1>4, <1>5, <1>8, DominantEitherWay
  <2>2. l \in {"positive", "neutral", "negative"} \ {d.dominant}
    BY <1>4, <1>8
  <2>3. d.counts["positive"] = p /\ d.counts["neutral"] = z /\ d.counts["negative"] = n
    BY <1>4
  <2> QED BY <1>4, <1>5, <2>1, <2>2, <2>3, DominantEitherWay
<1> QED BY <1>6, <1>7, <1>8 DEF d, e

\* A quotient keeps its sign apart, and is no greater than what it is of.
LEMMA QuotientFacts ==
    ASSUME NEW a \in Int, NEW b \in Nat \ {0}
    PROVE  /\ Quotient(a, b) \in Int /\ Quotient(-a, b) = -Quotient(a, b)
           /\ \A k \in Nat : a <= k * b /\ -a <= k * b => Quotient(a, b) \in -k .. k
<1>1. ASSUME NEW m \in Nat
      PROVE  m \div b \in Nat /\ (m = 0 => m \div b = 0) /\ \A k \in Nat : m <= k * b => m \div b <= k
  <2> DEFINE q == m \div b
  <2>1. q \in Int /\ q * b <= m /\ m < (q + 1) * b
    OBVIOUS
  <2>2. m = 0 => q = 0
    OBVIOUS
  <2> HIDE DEF q
  <2>3. q >= 0
    <3>1. ASSUME q <= -1
          PROVE  FALSE
      <4>1. (q + 1) * b <= 0
        BY <2>1, <3>1
      <4> QED BY <2>1, <4>1
    <3> QED BY <2>1, <3>1
  <2>4. ASSUME NEW k \in Nat, m <= k * b, q > k
        PROVE  FALSE
    <3>1. q = k + 1 + (q - k - 1) /\ q - k - 1 \in Nat
      BY <2>1, <2>4
    <3>2. q * b = (k + 1) * b + (q - k - 1) * b
      BY <2>1
    <3>3. (q - k - 1) * b \in Nat
      BY <3>1, NatTimes
    <3>4. (k + 1) * b = k * b + b /\ k * b \in Int
      OBVIOUS
    <3> QED BY <2>1, <2>4, <3>2, <3>3, <3>4
  <2> QED BY <2>1, <2>2, <2>3, <2>4 DEF q
<1>2. CASE a > 0
  <2>1. Quotient(a, b) = a \div b /\ Quotient(-a, b) = -(a \div b)
    <3>1. -a < 0 /\ -(-a) = a
      BY <1>2
    <3> QED BY <1>2, <3>1 DEF Quotient
  <2>2. a \div b \in Nat /\ \A k \in Nat : a <= k * b => a \div b <= k
    BY <1>1, <1>2
  <2> HIDE DEF Quotient
  <2> QED BY <2>1, <2>2
<1>3. CASE a = 0
  <2>1. Quotient(a, b) = 0 /\ Quotient(-a, b) = 0
    BY <1>1, <1>3 DEF Quotient
  <2> QED BY <2>1
<1>4. CASE a < 0
  <2> DEFINE m == -a
  <2>1. Quotient(a, b) = -(m \div b) /\ Quotient(-a, b) = m \div b
    BY <1>4 DEF Quotient
  <2>2. m \div b \in Nat /\ \A k \in Nat : m <= k * b => m \div b <= k
    BY <1>1, <1>4
  <2>3. -m = a
    OBVIOUS
  <2> HIDE DEF m
  <2> QED BY <2>1, <2>2, <2>3 DEF m
<1> QED BY <1>2, <1>3, <1>4

\* The net sentiment of a group is within one either way, and that of the
\* mirrored group is its opposite.
LEMMA NetMirrors ==
    ASSUME CorpusInv, report \in {"momentum", "scopes"}, NEW S \in SUBSET Filled(corpus)
    PROVE  /\ NetOf(corpus, S) \in -Unit .. Unit
           /\ NetOf(Mirrored(corpus), Turned(S)) = -NetOf(corpus, S)
<1> DEFINE p == WithLabel(corpus, S, "positive")
           z == WithLabel(corpus, S, "neutral")
           n == WithLabel(corpus, S, "negative")
           all == p + n + z
           NetIs(x, y, l) == IF l = 0 THEN 0 ELSE Quotient((x - y) * Unit, l)
<1>1. p \in Nat /\ z \in Nat /\ n \in Nat
  BY LabelsShare
<1>2. NetOf(corpus, S) = NetIs(p, n, all)
  BY DEF NetOf
<1>3. NetOf(Mirrored(corpus), Turned(S)) = NetIs(n, p, n + p + z)
  <2> HIDE DEF p, z, n, NetIs
  <2>1. /\ WithLabel(Mirrored(corpus), Turned(S), "positive") = n
        /\ WithLabel(Mirrored(corpus), Turned(S), "neutral") = z
        /\ WithLabel(Mirrored(corpus), Turned(S), "negative") = p
    BY MirroredLabels DEF p, z, n
  <2> QED BY <2>1 DEF NetOf, NetIs
<1> HIDE DEF p, z, n
<1>4. n + p + z = all /\ all \in Nat
  BY <1>1
<1>5. CASE all = 0
  <2>1. NetIs(p, n, all) = 0 /\ NetIs(n, p, n + p + z) = 0
    BY <1>4, <1>5
  <2> QED BY <1>2, <1>3, <2>1 DEF Unit
<1>6. CASE all # 0
  <2> DEFINE a == (p - n) * Unit
  <2>1. NetIs(p, n, all) = Quotient(a, all) /\ NetIs(n, p, n + p + z) = Quotient((n - p) * Unit, all)
    BY <1>4, <1>6
  <2>2. a \in Int /\ (n - p) * Unit = -a
    BY <1>1 DEF Unit
  <2>3. a <= Unit * all /\ -a <= Unit * all /\ Unit \in Nat
    BY <1>1 DEF Unit
  <2>4. all \in Nat \ {0}
    BY <1>4, <1>6
  <2> HIDE DEF a, all, NetIs
  <2>5. Quotient(a, all) \in -Unit .. Unit /\ Quotient(-a, all) = -Quotient(a, all)
    BY <2>2, <2>3, <2>4, QuotientFacts
  <2> QED BY <1>2, <1>3, <2>1, <2>2, <2>5
<1> QED BY <1>5, <1>6

\* Two sequences of numbers up to k either way, one the opposite of the other.
Opposes(t, s, k) ==
    /\ Len(s) \in Nat \ {0} /\ Len(t) = Len(s)
    /\ DOMAIN s = 1..Len(s) /\ DOMAIN t = DOMAIN s
    /\ \A i \in DOMAIN s : s[i] \in -k .. k /\ t[i] = -s[i]

\* A mean is within what its terms are within, and opposes that of the opposites.
LEMMA MeanOpposes ==
    ASSUME NEW k \in Nat, NEW s, NEW t, Opposes(t, s, k)
    PROVE  Mean(s) \in -k .. k /\ Mean(t) = -Mean(s)
<1> DEFINE n == Len(s)
           D == 1..n
<1>1. n \in Nat \ {0} /\ Len(t) = n /\ DOMAIN s = D /\ DOMAIN t = D
  BY DEF Opposes
<1>2. IsFiniteSet(D) /\ Cardinality(D) = n
  BY <1>1, FirstNumbers
<1>3. \A i \in D : /\ s[i] \in Int /\ t[i] = (-1) * s[i] /\ -k <= s[i] /\ s[i] <= k
  BY <1>1 DEF Opposes
<1> DEFINE low == [i \in D |-> -k]
           high == [i \in D |-> k]
<1>4. \A i \in D : /\ low[i] \in Int /\ high[i] \in Int /\ low[i] = -k /\ high[i] = k
                   /\ low[i] <= s[i] /\ s[i] <= high[i]
  BY <1>3
<1> HIDE DEF low, high, n
<1>5. SumOver(low, D) = (-k) * n /\ SumOver(high, D) = k * n
  <2>1. -k \in Int /\ k \in Int
    OBVIOUS
  <2> HIDE DEF D
  <2> QED BY <1>2, <1>4, <2>1, SumConstant
<1> HIDE DEF D
<1>6. SumOver(low, D) <= SumOver(s, D) /\ SumOver(s, D) <= SumOver(high, D)
  BY <1>2, <1>3, <1>4, SumMonotone
<1>7. SumOver(t, D) = (-1) * SumOver(s, D)
  <2>1. -1 \in Int
    OBVIOUS
  <2> QED BY <1>2, <1>3, <2>1, SumTimes
<1>8. SumOver(s, D) \in Int
  BY <1>2, <1>3, SumType
<1>9. AddUp(s) = SumOver(s, D) /\ AddUp(t) = SumOver(t, D)
  BY <1>1, SequenceSum
<1>10. AddUp(s) \in Int /\ AddUp(t) = -AddUp(s) /\ AddUp(s) <= k * n /\ -AddUp(s) <= k * n
  <2>1. (-k) * n = -(k * n) /\ k * n \in Int
    BY <1>1
  <2> QED BY <1>5, <1>6, <1>7, <1>8, <1>9, <2>1
<1>11. Mean(s) = Quotient(AddUp(s), n) /\ Mean(t) = Quotient(AddUp(t), n)
  BY <1>1 DEF Mean, n
<1> QED BY <1>1, <1>10, <1>11, QuotientFacts

\* What a symbol's buckets are the same of: the halves, the flip.
LEMMA PartsOppose ==
    ASSUME NEW k \in Nat, NEW s, NEW t, Opposes(t, s, k), NEW a \in 1..Len(s), NEW b \in a..Len(s)
    PROVE  Opposes(SubSeq(t, a, b), SubSeq(s, a, b), k)
<1> DEFINE x == SubSeq(s, a, b)
           y == SubSeq(t, a, b)
           n == Len(s)
<1>1. n \in Nat \ {0} /\ Len(t) = n /\ DOMAIN s = 1..n /\ DOMAIN t = 1..n
      /\ \A i \in 1..n : s[i] \in -k .. k /\ t[i] = -s[i] /\ s[i] \in Int /\ t[i] \in Int
  BY DEF Opposes
<1> HIDE DEF n
<1>2. a \in Int /\ b \in Int /\ a <= b /\ a >= 1 /\ b <= n
  BY <1>1 DEF n
<1>3. \A i \in a..b : s[i] \in Int /\ t[i] \in Int
  BY <1>1, <1>2
<1>4. /\ x \in Seq(Int) /\ Len(x) = b - a + 1 /\ \A i \in 1 .. b - a + 1 : x[i] = s[a + i - 1]
      /\ y \in Seq(Int) /\ Len(y) = b - a + 1 /\ \A i \in 1 .. b - a + 1 : y[i] = t[a + i - 1]
  BY <1>2, <1>3, SubSeqProperties
<1> HIDE DEF x, y
<1>5. b - a + 1 \in Nat \ {0} /\ DOMAIN x = 1 .. b - a + 1 /\ DOMAIN y = 1 .. b - a + 1
  BY <1>2, <1>4
<1>6. ASSUME NEW i \in 1 .. b - a + 1
      PROVE  x[i] \in -k .. k /\ y[i] = -x[i]
  <2>1. a + i - 1 \in 1..n
    BY <1>1, <1>2
  <2> QED BY <1>1, <1>4, <2>1
<1> QED BY <1>4, <1>5, <1>6 DEF Opposes, x, y

\* The halves of opposite buckets are opposite, and a flip of one is a flip of the other.
LEMMA HalvesOppose ==
    ASSUME NEW k \in Nat, NEW s, NEW t, Opposes(t, s, k)
    PROVE  /\ \A j \in {1, 2} : HalfMeans(s)[j] \in -k .. k /\ HalfMeans(t)[j] = -HalfMeans(s)[j]
           /\ DetectFlip(t) = DetectFlip(s)
<1> DEFINE n == Len(s)
           split == n \div 2
           rest == n - (n + 3) \div 4
<1>1. n \in Nat \ {0} /\ Len(t) = n
  BY DEF Opposes
<1>2. n >= 2 => split \in 1..n - 1 /\ rest \in 1..n - 1
  BY <1>1
<1>3. ASSUME NEW a \in 1..n, NEW b \in a..n
      PROVE  /\ Mean(SubSeq(s, a, b)) \in -k .. k
             /\ Mean(SubSeq(t, a, b)) = -Mean(SubSeq(s, a, b))
  <2>1. Opposes(SubSeq(t, a, b), SubSeq(s, a, b), k)
    BY PartsOppose
  <2> QED BY <2>1, MeanOpposes
<1>4. ASSUME n = 1, NEW j \in {1, 2}
      PROVE  HalfMeans(s)[j] \in -k .. k /\ HalfMeans(t)[j] = -HalfMeans(s)[j]
  <2>1. s[1] \in -k .. k /\ t[1] = -s[1]
    BY <1>4 DEF Opposes
  <2> QED BY <1>1, <1>4, <2>1 DEF HalfMeans
<1>5. ASSUME n # 1, NEW j \in {1, 2}
      PROVE  HalfMeans(s)[j] \in -k .. k /\ HalfMeans(t)[j] = -HalfMeans(s)[j]
  <2>1. n >= 2 /\ split \in 1..n /\ split + 1 \in 1..n /\ 1 \in 1..n
        /\ split \in 1..n /\ n \in split + 1..n
    BY <1>1, <1>2, <1>5
  <2>2. /\ HalfMeans(s) = <<Mean(SubSeq(s, 1, split)), Mean(SubSeq(s, split + 1, n))>>
        /\ HalfMeans(t) = <<Mean(SubSeq(t, 1, split)), Mean(SubSeq(t, split + 1, n))>>
    BY <1>1, <1>5 DEF HalfMeans
  <2> HIDE DEF n, split
  <2>3. /\ Mean(SubSeq(s, 1, split)) \in -k .. k
        /\ Mean(SubSeq(t, 1, split)) = -Mean(SubSeq(s, 1, split))
        /\ Mean(SubSeq(s, split + 1, n)) \in -k .. k
        /\ Mean(SubSeq(t, split + 1, n)) = -Mean(SubSeq(s, split + 1, n))
    BY <1>3, <2>1
  <2> QED BY <2>2, <2>3
<1>6. DetectFlip(t) = DetectFlip(s)
  <2> DEFINE head(w) == Mean(SubSeq(w, 1, rest))
             last(w) == Mean(SubSeq(w, rest + 1, n))
             Flips(w) == n >= 2 /\ head(w) # 0 /\ last(w) # 0 /\ (head(w) > 0) # (last(w) > 0)
  <2>1. DetectFlip(s) = Flips(s) /\ DetectFlip(t) = Flips(t)
    BY <1>1 DEF DetectFlip
  <2>2. CASE n < 2
    BY <2>1, <2>2, <1>1
  <2>3. CASE n >= 2
    <3>1. rest \in 1..n /\ rest + 1 \in 1..n /\ 1 \in 1..n /\ n \in rest + 1..n
      BY <1>1, <1>2, <2>3
    <3> HIDE DEF rest, n
    <3>2. head(s) \in Int /\ head(t) = -head(s) /\ last(s) \in Int /\ last(t) = -last(s)
      BY <1>3, <3>1
    <3> HIDE DEF head, last
    <3>3. Flips(s) <=> Flips(t)
      BY <3>2
    <3> QED BY <2>1, <3>3
  <2> QED BY <1>1, <2>2, <2>3
<1> HIDE DEF n
<1> QED BY <1>4, <1>5, <1>6

\* Means that have changed sides are classified the other way round.
LEMMA DirectionMirrors ==
    ASSUME NEW a \in Int, NEW b \in Int
    PROVE  /\ ClassifyDirection(-a, -b) = MirrorDirection(ClassifyDirection(a, b))
           /\ MirrorDirection("stable") = "stable"
<1> DEFINE d == ClassifyDirection(a, b)
           e == ClassifyDirection(-a, -b)
<1>1. /\ MirrorDirection("flipping_negative") = "flipping_positive"
      /\ MirrorDirection("flipping_positive") = "flipping_negative"
      /\ MirrorDirection("strengthening_negative") = "strengthening_positive"
      /\ MirrorDirection("strengthening_positive") = "strengthening_negative"
      /\ MirrorDirection("stable") = "stable"
  BY DEF MirrorDirection
<1>2. \/ d = "flipping_negative" /\ e = "flipping_positive"
      \/ d = "flipping_positive" /\ e = "flipping_negative"
      \/ d = "strengthening_negative" /\ e = "strengthening_positive"
      \/ d = "strengthening_positive" /\ e = "strengthening_negative"
      \/ d = "stable" /\ e = "stable"
  BY DEF ClassifyDirection, Unit
<1> HIDE DEF d, e
<1>3. e = MirrorDirection(d)
  BY <1>1, <1>2
<1> QED BY <1>1, <1>3 DEF d, e

\* The rows that name a symbol, and the buckets they are in.
Naming(c, sym) == {s \in Paired(c) : sym \in s.symbols}
SlotsOf(c, sym) == {Slot(c, s) : s \in Naming(c, sym)}

\* Mirrored rows name what the rows name, when they do.
LEMMA MirroredPairs ==
    ASSUME CorpusInv, report = "momentum"
    PROVE  LET c == Mirrored(corpus) IN
           /\ Paired(c) = Turned(Paired(corpus)) /\ Origin(c) = Origin(corpus)
           /\ \A s \in Paired(corpus) :
                 /\ Mirror(s).symbols = s.symbols /\ Slot(c, Mirror(s)) = Slot(corpus, s)
<1> DEFINE c == Mirrored(corpus)
<1>1. Filled(c) = Turned(Filled(corpus))
  BY MirroredBag
<1>2. \A s \in Filled(corpus) : Mirror(s).symbols = s.symbols /\ Mirror(s).at = s.at
  <2>1. \A s \in DOMAIN corpus : Mirror(s).symbols = s.symbols /\ Mirror(s).at = s.at
    BY MirrorRow
  <2> QED BY <2>1 DEF Filled
<1> HIDE DEF c
<1>3. Paired(c) = Turned(Paired(corpus))
  BY <1>1, <1>2 DEF Paired, Turned
<1>4. Paired(corpus) \in SUBSET Filled(corpus)
  BY DEF Paired
<1>5. {s.at : s \in Paired(c)} = {s.at : s \in Paired(corpus)}
  BY <1>2, <1>3, <1>4 DEF Turned
<1>6. Origin(c) = Origin(corpus)
  BY <1>5 DEF Origin
<1>7. ASSUME NEW s \in Paired(corpus)
      PROVE  Mirror(s).symbols = s.symbols /\ Slot(c, Mirror(s)) = Slot(corpus, s)
  BY <1>2, <1>4, <1>6 DEF Slot
<1> QED BY <1>3, <1>6, <1>7 DEF c

\* So a symbol has the same buckets and its cells are the mirrored ones.
LEMMA MirroredCells ==
    ASSUME CorpusInv, report = "momentum"
    PROVE  LET c == Mirrored(corpus) IN
           /\ \A sym : Naming(c, sym) = Turned(Naming(corpus, sym))
           /\ \A sym : SlotsOf(c, sym) = SlotsOf(corpus, sym)
           /\ \A sym, i : Cell(c, sym, i) = Turned(Cell(corpus, sym, i))
           /\ Mentioned(c) = Mentioned(corpus)
<1> DEFINE c == Mirrored(corpus)
<1>1. /\ Paired(c) = Turned(Paired(corpus))
      /\ \A s \in Paired(corpus) :
            Mirror(s).symbols = s.symbols /\ Slot(c, Mirror(s)) = Slot(corpus, s)
  BY MirroredPairs
<1>2. \A sym : Naming(corpus, sym) \in SUBSET Filled(corpus)
  BY DEF Naming, Paired
<1>3. \A S \in SUBSET Filled(corpus) : Tally(c, Turned(S)) = Tally(corpus, S)
  BY MirroredTally
<1> HIDE DEF c
<1>4. \A sym : Naming(c, sym) = Turned(Naming(corpus, sym))
  BY <1>1 DEF Naming, Turned
<1>5. \A sym : SlotsOf(c, sym) = SlotsOf(corpus, sym)
  <2> SUFFICES ASSUME NEW sym
               PROVE  {Slot(c, s) : s \in Naming(c, sym)} = {Slot(corpus, s) : s \in Naming(corpus, sym)}
    BY DEF SlotsOf
  <2>1. Naming(c, sym) = {Mirror(s) : s \in Naming(corpus, sym)}
    BY <1>4 DEF Turned
  <2>2. \A s \in Naming(corpus, sym) : Slot(c, Mirror(s)) = Slot(corpus, s)
    BY <1>1 DEF Naming
  <2> HIDE DEF Slot
  <2> QED BY <2>1, <2>2
<1>6. \A sym, i : Cell(c, sym, i) = Turned(Cell(corpus, sym, i))
  BY <1>1 DEF Cell, Turned
<1>7. Mentioned(c) = Mentioned(corpus)
  <2>1. UNION {s.symbols : s \in Paired(c)} = UNION {s.symbols : s \in Paired(corpus)}
    BY <1>1 DEF Turned
  <2>2. \A sym : Tally(c, Naming(c, sym)) = Tally(corpus, Naming(corpus, sym))
    BY <1>2, <1>3, <1>4
  <2> QED BY <2>1, <2>2 DEF Mentioned, Naming
<1> QED BY <1>4, <1>5, <1>6, <1>7 DEF c

\* A symbol that is mentioned has buckets, and mirrored rows have the opposite ones.
LEMMA NetsOppose ==
    ASSUME CorpusInv, report = "momentum", NEW sym \in Mentioned(corpus)
    PROVE  Opposes(Nets(Mirrored(corpus), sym), Nets(corpus, sym), Unit)
<1> DEFINE c == Mirrored(corpus)
           S == SlotsOf(corpus, sym)
           slots == Ascending(S)
           n == Cardinality(S)
           s == Nets(corpus, sym)
           t == Nets(c, sym)
<1>1. SlotsOf(c, sym) = S /\ \A i : Cell(c, sym, i) = Turned(Cell(corpus, sym, i))
  BY MirroredCells
<1>2. Naming(corpus, sym) \in SUBSET Filled(corpus) /\ Naming(corpus, sym) # {}
  BY DEF Naming, Paired, Mentioned
<1>3. IsFiniteSet(S) /\ S # {}
  <2> DEFINE f == [r \in Naming(corpus, sym) |-> Slot(corpus, r)]
  <2>1. IsFiniteSet(Naming(corpus, sym))
    BY <1>2, TallyFacts
  <2>2. S = {f[r] : r \in Naming(corpus, sym)}
    BY DEF SlotsOf
  <2> HIDE DEF f, S
  <2> QED BY <1>2, <2>1, <2>2, ImageIsFinite
<1>4. n \in Nat \ {0}
  <2> HIDE DEF S
  <2> QED BY <1>3, FS_CardinalityType, FS_EmptySet
<1>5. DOMAIN slots = 1..n
  BY DEF Ascending, InOrder
<1>6. \A i : Cell(corpus, sym, i) \in SUBSET Filled(corpus)
  BY DEF Cell, Paired
<1>7. s = [i \in DOMAIN slots |-> NetOf(corpus, Cell(corpus, sym, slots[i]))]
  BY DEF Nets, SlotsOf, Naming
<1>8. t = [i \in DOMAIN slots |-> NetOf(c, Cell(c, sym, slots[i]))]
  <2>1. Ascending(SlotsOf(c, sym)) = slots
    BY <1>1
  <2>2. t = [i \in DOMAIN Ascending(SlotsOf(c, sym)) |->
                NetOf(c, Cell(c, sym, Ascending(SlotsOf(c, sym))[i]))]
    BY DEF Nets, SlotsOf, Naming
  <2> HIDE DEF t, slots, c
  <2> QED BY <2>1, <2>2
<1> HIDE DEF slots, n, s, t
<1>9. DOMAIN s = 1..n /\ DOMAIN t = 1..n /\ Len(s) = n /\ Len(t) = n
  <2>1. DOMAIN s = 1..n /\ DOMAIN t = 1..n
    BY <1>5, <1>7, <1>8
  <2> QED BY <1>4, <2>1
<1>10. ASSUME NEW i \in 1..n
       PROVE  s[i] \in -Unit .. Unit /\ t[i] = -s[i]
  <2> DEFINE C == Cell(corpus, sym, slots[i])
  <2>1. s[i] = NetOf(corpus, C) /\ t[i] = NetOf(c, Turned(C))
    BY <1>1, <1>5, <1>7, <1>8
  <2>2. C \in SUBSET Filled(corpus)
    BY <1>6
  <2> HIDE DEF C
  <2> QED BY <2>1, <2>2, NetMirrors
<1> QED BY <1>4, <1>9, <1>10 DEF Opposes, s, t

\* A ticker of mirrored rows has the opposite momentum and direction, and the same flips.
LEMMA TickersMirror ==
    ASSUME CorpusInv, report = "momentum", NEW sym \in Mentioned(corpus)
    PROVE  LET t == Ticker(corpus, sym)
               u == Ticker(Mirrored(corpus), sym)
           IN  /\ t.symbol = sym /\ u.symbol = sym /\ u.flip = t.flip
               /\ t.momentum \in -(2 * Unit) .. 2 * Unit /\ u.momentum = -t.momentum
               /\ u.direction = MirrorDirection(t.direction)
<1> DEFINE c == Mirrored(corpus)
           x == Nets(corpus, sym)
           y == Nets(c, sym)
           f == HalfMeans(x)
           g == HalfMeans(y)
           t == Ticker(corpus, sym)
           u == Ticker(c, sym)
<1>1. Opposes(y, x, Unit)
  BY NetsOppose
<1>2. /\ t.symbol = sym /\ t.momentum = f[2] - f[1] /\ t.flip = DetectFlip(x)
      /\ t.direction = IF Len(x) = 1 THEN "stable" ELSE ClassifyDirection(f[1], f[2])
      /\ u.symbol = sym /\ u.momentum = g[2] - g[1] /\ u.flip = DetectFlip(y)
      /\ u.direction = IF Len(y) = 1 THEN "stable" ELSE ClassifyDirection(g[1], g[2])
  BY DEF Ticker
<1> HIDE DEF t, u, x, y
<1>3. Unit \in Nat /\ Len(y) = Len(x)
  BY <1>1 DEF Unit, Opposes
<1>4. /\ f[1] \in -Unit .. Unit /\ f[2] \in -Unit .. Unit /\ g[1] = -f[1] /\ g[2] = -f[2]
      /\ DetectFlip(y) = DetectFlip(x)
  BY <1>1, <1>3, HalvesOppose
<1> HIDE DEF f, g
<1>5. f[1] \in Int /\ f[2] \in Int
  BY <1>3, <1>4
<1>6. t.momentum \in -(2 * Unit) .. 2 * Unit /\ u.momentum = -t.momentum
  BY <1>2, <1>3, <1>4, <1>5
<1>7. u.direction = MirrorDirection(t.direction)
  BY <1>2, <1>3, <1>4, <1>5, DirectionMirrors
<1> QED BY <1>2, <1>4, <1>6, <1>7 DEF t, u, c

\* m gives every symbol of Y its ticker, whose momentum is as great as g says.
Tickers(m, g, Y) ==
    \A y, z \in Y : (m[y] = m[z] => y = z) /\ Abs(m[y].momentum) = g[y]

\* What the cap keeps of tickers, and of symbols.
Kept(T, limit) ==
    {t \in T : Cardinality({u \in T : Abs(u.momentum) > Abs(t.momentum)}) < limit}
KeptOf(Y, g, limit) == {y \in Y : Cardinality({z \in Y : g[z] > g[y]}) < limit}

\* The cap keeps as many tickers as it keeps symbols, and whose it keeps is
\* settled by how great the momenta are.
LEMMA CapKeeps ==
    ASSUME NEW Y, IsFiniteSet(Y), NEW m, NEW g, Tickers(m, g, Y), NEW limit
    PROVE  Kept({m[y] : y \in Y}, limit) = {m[y] : y \in KeptOf(Y, g, limit)}
<1> DEFINE all == {m[y] : y \in Y}
           above(y) == {z \in Y : g[z] > g[y]}
<1>1. ASSUME NEW y \in Y
      PROVE  Cardinality({u \in all : Abs(u.momentum) > Abs(m[y].momentum)}) = Cardinality(above(y))
  <2> DEFINE A == above(y)
  <2>1. {u \in all : Abs(u.momentum) > Abs(m[y].momentum)} = {m[z] : z \in A}
    BY DEF Tickers
  <2>2. A \in SUBSET Y
    OBVIOUS
  <2> HIDE DEF A
  <2>3. IsFiniteSet(A) /\ \A z, w \in A : m[z] = m[w] => z = w
    BY <2>2, FS_Subset DEF Tickers
  <2>4. Cardinality({m[z] : z \in A}) = Cardinality(A)
    BY <2>3, SameSize
  <2> QED BY <2>1, <2>4 DEF A
<1> HIDE DEF above
<1>2. {t \in all : Cardinality({u \in all : Abs(u.momentum) > Abs(t.momentum)}) < limit}
        = {m[y] : y \in {y \in Y : Cardinality(above(y)) < limit}}
  BY <1>1
<1> QED BY <1>2 DEF above, Kept, KeptOf

\* The momentum of mirrored rows is the opposite one, and it is of the same symbols.
LEMMA MomentumMirrors ==
    ASSUME CorpusInv, report = "momentum"
    PROVE  LET m == Momentum(Mirrored(corpus)) IN
           /\ Cardinality(m) = Cardinality(Momentum(corpus))
           /\ \A t \in Momentum(corpus) : \E u \in m :
                 /\ u.symbol = t.symbol /\ u.momentum = -t.momentum /\ u.flip = t.flip
                 /\ u.direction = MirrorDirection(t.direction)
                 /\ Abs(t.momentum) <= 2 * Unit
<1> DEFINE c == Mirrored(corpus)
           Y == Mentioned(corpus)
           a == [y \in Y |-> Ticker(corpus, y)]
           b == [y \in Y |-> Ticker(c, y)]
           g == [y \in Y |-> Abs(a[y].momentum)]
           kept == KeptOf(Y, g, MaxTickers)
<1>1. \A y \in Y : /\ a[y].symbol = y /\ b[y].symbol = y /\ b[y].flip = a[y].flip
                   /\ a[y].momentum \in -(2 * Unit) .. 2 * Unit /\ b[y].momentum = -a[y].momentum
                   /\ b[y].direction = MirrorDirection(a[y].direction)
  BY TickersMirror
<1>2. Momentum(corpus) = Kept({a[y] : y \in Y}, MaxTickers)
  BY DEF Momentum, Kept
<1>3. Momentum(c) = Kept({b[y] : y \in Y}, MaxTickers)
  <2>1. Mentioned(c) = Y
    BY MirroredCells
  <2>2. {Ticker(c, y) : y \in Y} = {b[y] : y \in Y}
    OBVIOUS
  <2> HIDE DEF c, Y, b
  <2> QED BY <2>1, <2>2 DEF Momentum, Kept
<1>4. IsFiniteSet(Y)
  <2> DEFINE P == Paired(corpus)
             f == [s \in P |-> s.symbols]
             N == UNION {f[s] : s \in P}
  <2>1. P \in SUBSET Filled(corpus)
    BY DEF Paired
  <2>2. \A s \in P : IsFiniteSet(f[s])
    BY <2>1, CorpusFinite, SentimentAssumption DEF CorpusInv
  <2>3. Y \in SUBSET N
    BY DEF Mentioned
  <2> HIDE DEF P, f, Y
  <2>4. IsFiniteSet(N)
    BY <2>1, <2>2, NamesAreFinite
  <2> QED BY <2>3, <2>4, FS_Subset
<1>5. \A y \in Y : g[y] = Abs(a[y].momentum)
  OBVIOUS
<1> HIDE DEF Y, a, b, g, c
<1>6. \A y \in Y : a[y].momentum \in Int /\ g[y] <= 2 * Unit /\ Abs(b[y].momentum) = g[y]
  <2> SUFFICES ASSUME NEW y \in Y
               PROVE  a[y].momentum \in Int /\ g[y] <= 2 * Unit /\ Abs(b[y].momentum) = g[y]
    OBVIOUS
  <2> DEFINE x == a[y].momentum
  <2>1. x \in -(2 * Unit) .. 2 * Unit /\ b[y].momentum = -x /\ g[y] = Abs(x)
    BY <1>1, <1>5
  <2> HIDE DEF x
  <2>2. x \in Int /\ Abs(x) <= 2 * Unit /\ Abs(-x) = Abs(x)
    BY <2>1 DEF Abs, Unit
  <2> QED BY <2>1, <2>2 DEF x
<1>7. Tickers(a, g, Y) /\ Tickers(b, g, Y)
  BY <1>1, <1>5, <1>6 DEF Tickers
<1>8. Momentum(corpus) = {a[y] : y \in kept} /\ Momentum(c) = {b[y] : y \in kept}
  BY <1>2, <1>3, <1>4, <1>7, CapKeeps
<1>9. kept \in SUBSET Y
  BY DEF KeptOf
<1> HIDE DEF kept
<1>10. IsFiniteSet(kept)
  BY <1>4, <1>9, FS_Subset
<1>11. Cardinality(Momentum(c)) = Cardinality(Momentum(corpus))
  <2>1. \A y, z \in kept : (a[y] = a[z] => y = z) /\ (b[y] = b[z] => y = z)
    BY <1>7, <1>9 DEF Tickers
  <2>2. Cardinality({a[y] : y \in kept}) = Cardinality(kept)
    BY <1>10, <2>1, SameSize
  <2>3. Cardinality({b[y] : y \in kept}) = Cardinality(kept)
    BY <1>10, <2>1, SameSize
  <2> QED BY <1>8, <2>2, <2>3
<1>12. ASSUME NEW t \in Momentum(corpus)
       PROVE  \E u \in Momentum(c) :
                 /\ u.symbol = t.symbol /\ u.momentum = -t.momentum /\ u.flip = t.flip
                 /\ u.direction = MirrorDirection(t.direction)
                 /\ Abs(t.momentum) <= 2 * Unit
  <2>1. PICK y \in kept : t = a[y]
    BY <1>8
  <2>2. y \in Y /\ b[y] \in Momentum(c)
    BY <1>8, <1>9, <2>1
  <2>3. /\ b[y].symbol = t.symbol /\ b[y].momentum = -t.momentum /\ b[y].flip = t.flip
        /\ b[y].direction = MirrorDirection(t.direction)
        /\ Abs(t.momentum) <= 2 * Unit
    BY <1>1, <1>5, <1>6, <2>1, <2>2
  <2> QED BY <2>2, <2>3
<1> QED BY <1>11, <1>12 DEF c

\* Good and bad news are judged alike, whatever the rows: with every label
\* turned round the reports of momentum and of scopes are turned round.
THEOREM MirrorCorrect == Spec => []MirrorNews
<1>1. CorpusInv => MirrorNews
  <2> SUFFICES ASSUME CorpusInv
               PROVE  MirrorNews
    OBVIOUS
  <2>1. CASE report = "momentum"
    BY <2>1, MomentumMirrors DEF MirrorNews
  <2>2. CASE report = "scopes"
    BY <2>2, ScopesMirror DEF MirrorNews
  <2> QED BY <2>1, <2>2 DEF MirrorNews
<1> QED BY <1>1, CorpusCorrect, PTL

-----------------------------------------------------------------------------
(* The golden set (golden.py). *)

\* Rows told apart by a question with two answers are counted by either answer.
LEMMA TwoAnswers ==
    ASSUME CorpusInv, NEW S \in SUBSET Filled(corpus), NEW T \in SUBSET S
    PROVE  Tally(corpus, T) + Tally(corpus, S \ T) = Tally(corpus, S)
<1>1. T \in SUBSET Filled(corpus) /\ S \ T \in SUBSET Filled(corpus) /\ T \cap (S \ T) = {}
  OBVIOUS
<1>2. T \cup (S \ T) = S
  OBVIOUS
<1> QED BY <1>1, <1>2, TallyUnion

\* The greater and the smaller of two numbers.
LEMMA OfTwo ==
    ASSUME NEW p \in Int, NEW q \in Int
    PROVE  /\ Max({p, q}) \in {p, q} /\ p <= Max({p, q}) /\ q <= Max({p, q})
           /\ Min({p, q}) \in {p, q} /\ Min({p, q}) <= p /\ Min({p, q}) <= q
<1>1. IsFiniteSet({p, q})
  <2>1. IsFiniteSet({p}) /\ IsFiniteSet({q}) /\ {p, q} = {p} \cup {q}
    BY FS_Singleton
  <2> QED BY <2>1, FS_Union
<1>2. {p, q} \in SUBSET Int /\ {p, q} # {}
  OBVIOUS
<1> QED BY <1>1, <1>2, Extremes

\* What is to be said of one line of the benchmark.
Fair(x, tp, fn) ==
    /\ x.tp = tp /\ x.fn = fn
    /\ x.precision \in Nat /\ x.recall \in Nat /\ x.f1 \in Nat
    /\ x.f1 >= Min({x.precision, x.recall}) /\ x.f1 <= Max({x.precision, x.recall})

\* Precision and recall are shares, and their mean is between them.
LEMMA StatsFacts ==
    ASSUME NEW tp \in Nat, NEW fp \in Nat, NEW fn \in Nat
    PROVE  Fair(Stats(tp, fp, fn), tp, fn)
<1> DEFINE p == IF tp + fp = 0 THEN 0 ELSE (1000 * tp) \div (tp + fp)
           r == IF tp + fn = 0 THEN 0 ELSE (1000 * tp) \div (tp + fn)
           f == IF p + r = 0 THEN 0 ELSE (2 * p * r) \div (p + r)
           x == Stats(tp, fp, fn)
<1>1. x.tp = tp /\ x.fp = fp /\ x.fn = fn /\ x.precision = p /\ x.recall = r /\ x.f1 = f
  BY DEF Stats
<1>2. p \in Nat /\ r \in Nat
  OBVIOUS
<1> HIDE DEF p, r, x
<1>3. ASSUME NEW a \in Nat, NEW b \in Nat, a <= b
      PROVE  LET m == IF a + b = 0 THEN 0 ELSE (2 * a * b) \div (a + b)
             IN  m \in Nat /\ a <= m /\ m <= b
  <2>1. CASE a + b = 0
    BY <1>3, <2>1
  <2>2. CASE a + b # 0
    <3> DEFINE n == 2 * a * b
               d == a + b
    <3>1. d \in Nat \ {0} /\ n \in Nat
      BY <2>2, NatTimes
    <3>2. a * d <= n
      <4>1. a * a <= a * b
        BY <1>3, <2>2
      <4>2. a * d = a * a + a * b /\ n = a * b + a * b
        OBVIOUS
      <4> QED BY <4>1, <4>2
    <3>3. n <= b * d
      <4>1. a * b <= b * b
        BY <1>3, <2>2
      <4>2. b * d = a * b + b * b /\ n = a * b + a * b
        OBVIOUS
      <4> QED BY <4>1, <4>2
    <3> HIDE DEF n, d
    <3>4. n \div d \in Nat /\ d * (n \div d) <= n /\ n < d * (n \div d) + d
      BY <3>1
    <3> DEFINE q == n \div d
    <3>5. a <= q
      <4> SUFFICES ASSUME q < a PROVE FALSE
        BY <3>4
      <4>1. q + 1 <= a /\ q \in Nat
        BY <3>4
      <4> HIDE DEF q
      <4>2. d * (q + 1) <= d * a
        BY <3>1, <4>1
      <4>3. d * (q + 1) = d * q + d /\ d * a = a * d
        BY <3>1, <4>1
      <4> QED BY <3>1, <3>2, <3>4, <4>1, <4>2, <4>3 DEF q
    <3>6. q <= b
      <4> SUFFICES ASSUME b < q PROVE FALSE
        BY <3>4
      <4>1. b + 1 <= q /\ q \in Nat
        BY <3>4
      <4> HIDE DEF q
      <4>2. d * (b + 1) <= d * q
        BY <3>1, <4>1
      <4>3. d * (b + 1) = d * b + d /\ d * b = b * d /\ d * b \in Int
        BY <3>1, <4>1
      <4> QED BY <3>1, <3>3, <3>4, <4>1, <4>2, <4>3 DEF q
    <3> QED BY <2>2, <3>4, <3>5, <3>6 DEF n, d
  <2> QED BY <2>1, <2>2
<1>4. f \in Nat /\ (p <= r => p <= f /\ f <= r) /\ (r <= p => r <= f /\ f <= p)
  <2>1. p <= r => f \in Nat /\ p <= f /\ f <= r
    BY <1>2, <1>3
  <2>2. 2 * r * p = 2 * p * r /\ r + p = p + r
    BY <1>2
  <2>3. r <= p => f \in Nat /\ r <= f /\ f <= p
    BY <1>2, <1>3, <2>2
  <2> QED BY <1>2, <2>1, <2>3
<1> HIDE DEF f
<1>5. p \in Int /\ r \in Int
  BY <1>2
<1>6. Max({p, r}) \in {p, r} /\ p <= Max({p, r}) /\ r <= Max({p, r})
      /\ Min({p, r}) \in {p, r} /\ Min({p, r}) <= p /\ Min({p, r}) <= r
  BY <1>5, OfTwo
<1>7. f >= Min({p, r}) /\ f <= Max({p, r})
  BY <1>2, <1>4, <1>6
<1> QED BY <1>1, <1>2, <1>4, <1>7 DEF Fair, x

\* Every item is in the cell of what was expected and what was said.
LEMMA GoldenBalances == CorpusInv => GoldenAddsUp
<1> SUFFICES ASSUME CorpusInv, report = "golden"
             PROVE  LET b == Benchmark(corpus)
                        Some(x) == Tally(corpus, {s \in Filled(corpus) : x \in s.want})
                    IN  /\ b.relevance.tp + b.relevance.fn = Tally(corpus, {s \in Filled(corpus) : s.wanted})
                        /\ \A l \in DOMAIN b.labels :
                              LET x == b.labels[l]
                              IN  /\ x.tp + x.fn = Some(l)
                                  /\ x.f1 >= Min({x.precision, x.recall}) - 1
                                  /\ x.f1 <= Max({x.precision, x.recall})
                        /\ b.symbolHits <= b.symbolTotal /\ b.toneCorrect <= b.toneTotal
  BY DEF GoldenAddsUp
<1> DEFINE b == Benchmark(corpus)
           F == Filled(corpus)
<1>1. \A s \in F : /\ s.wanted \in BOOLEAN /\ s.relevant \in BOOLEAN
                   /\ IsFiniteSet(s.want) /\ IsFiniteSet(s.got) /\ IsFiniteSet(s.symbols)
  BY CorpusFinite, AuditsAssumption DEF CorpusInv
<1>2. b.relevance.tp + b.relevance.fn = Tally(corpus, {s \in F : s.wanted})
  <2> DEFINE I(w, g) == Tally(corpus, {s \in F : s.wanted = w /\ s.relevant = g})
  <2>1. b.relevance = Stats(I(TRUE, TRUE), I(FALSE, TRUE), I(TRUE, FALSE))
    BY DEF Benchmark
  <2>2. I(TRUE, TRUE) \in Nat /\ I(FALSE, TRUE) \in Nat /\ I(TRUE, FALSE) \in Nat
    BY TallyFacts
  <2>3. b.relevance.tp = I(TRUE, TRUE) /\ b.relevance.fn = I(TRUE, FALSE)
    <3> DEFINE i == I(TRUE, TRUE)
               j == I(FALSE, TRUE)
               k == I(TRUE, FALSE)
    <3>1. i \in Nat /\ j \in Nat /\ k \in Nat /\ b.relevance = Stats(i, j, k)
      BY <2>1, <2>2
    <3> HIDE DEF i, j, k, b
    <3>2. Fair(b.relevance, i, k)
      BY <3>1, StatsFacts
    <3> QED BY <3>2 DEF i, k, Fair
  <2> DEFINE W == {s \in F : s.wanted}
             T == {s \in F : s.wanted = TRUE /\ s.relevant = TRUE}
  <2>4. W \in SUBSET F /\ T \in SUBSET W /\ W \ T = {s \in F : s.wanted = TRUE /\ s.relevant = FALSE}
    BY <1>1
  <2>5. Tally(corpus, T) + Tally(corpus, W \ T) = Tally(corpus, W)
    BY <2>4, TwoAnswers
  <2> QED BY <2>3, <2>4, <2>5
<1>3. ASSUME NEW l \in DOMAIN b.labels
      PROVE  /\ b.labels[l].tp + b.labels[l].fn = Tally(corpus, {s \in F : l \in s.want})
             /\ b.labels[l].f1 >= Min({b.labels[l].precision, b.labels[l].recall}) - 1
             /\ b.labels[l].f1 <= Max({b.labels[l].precision, b.labels[l].recall})
  <2> DEFINE I(w, g) == Tally(corpus, {s \in F : (l \in s.want) = w /\ (l \in s.got) = g})
             x == b.labels[l]
  <2>1. x = Stats(I(TRUE, TRUE), I(FALSE, TRUE), I(TRUE, FALSE))
    BY DEF Benchmark, StatsFor
  <2>2. I(TRUE, TRUE) \in Nat /\ I(FALSE, TRUE) \in Nat /\ I(TRUE, FALSE) \in Nat
    BY TallyFacts
  <2>3. /\ x.tp = I(TRUE, TRUE) /\ x.fn = I(TRUE, FALSE)
        /\ x.precision \in Nat /\ x.recall \in Nat /\ x.f1 \in Nat
        /\ x.f1 >= Min({x.precision, x.recall}) /\ x.f1 <= Max({x.precision, x.recall})
    <3> DEFINE i == I(TRUE, TRUE)
               j == I(FALSE, TRUE)
               k == I(TRUE, FALSE)
    <3>1. i \in Nat /\ j \in Nat /\ k \in Nat /\ x = Stats(i, j, k)
      BY <2>1, <2>2
    <3> HIDE DEF i, j, k, x
    <3>2. Fair(x, i, k)
      BY <3>1, StatsFacts
    <3> QED BY <3>2 DEF i, k, Fair
  <2> DEFINE W == {s \in F : l \in s.want}
             T == {s \in F : (l \in s.want) = TRUE /\ (l \in s.got) = TRUE}
  <2>4. W \in SUBSET F /\ T \in SUBSET W /\ W \ T = {s \in F : (l \in s.want) = TRUE /\ (l \in s.got) = FALSE}
    OBVIOUS
  <2>5. Tally(corpus, T) + Tally(corpus, W \ T) = Tally(corpus, W)
    BY <2>4, TwoAnswers
  <2>6. x.tp + x.fn = Tally(corpus, W)
    BY <2>3, <2>4, <2>5
  <2>7. Min({x.precision, x.recall}) \in Int
    <3> HIDE DEF x
    <3> HIDE DEF x
    <3> DEFINE p == x.precision
               r == x.recall
    <3>1. p \in Int /\ r \in Int
      BY <2>3
    <3> HIDE DEF p, r
    <3>2. Min({p, r}) \in {p, r}
      BY <3>1, OfTwo
    <3>3. Min({p, r}) \in Int
      BY <3>1, <3>2
    <3> QED BY <3>3 DEF p, r
  <2> HIDE DEF x
  <2> QED BY <2>3, <2>6, <2>7 DEF x
<1>4. b.symbolHits <= b.symbolTotal
  <2> DEFINE h == [s \in F |-> Cardinality(s.symbols \cap s.found)]
             t == [s \in F |-> Cardinality(s.symbols)]
             wh == [s \in F |-> corpus[s] * h[s]]
             wt == [s \in F |-> corpus[s] * t[s]]
  <2>1. \A s \in F : h[s] \in Nat /\ t[s] \in Nat /\ h[s] <= t[s]
    <3> SUFFICES ASSUME NEW s \in F
                 PROVE  h[s] \in Nat /\ t[s] \in Nat /\ h[s] <= t[s]
      OBVIOUS
    <3>1. IsFiniteSet(s.symbols) /\ s.symbols \cap s.found \in SUBSET s.symbols
      BY <1>1
    <3> QED BY <3>1, FS_Subset, FS_CardinalityType
  <2>2. IsFiniteSet(F) /\ \A s \in F : corpus[s] \in Nat
    BY CorpusFinite
  <2>3. \A s \in F : wh[s] \in Int /\ wt[s] \in Int /\ wh[s] <= wt[s]
    <3> SUFFICES ASSUME NEW s \in F
                 PROVE  corpus[s] * h[s] \in Int /\ corpus[s] * t[s] \in Int /\ corpus[s] * h[s] <= corpus[s] * t[s]
      OBVIOUS
    <3> DEFINE k == corpus[s]
    <3>1. k \in Nat /\ h[s] \in Nat /\ t[s] \in Nat /\ h[s] <= t[s]
      BY <2>1, <2>2
    <3> HIDE DEF k, h, t, F
    <3>2. \A i, j \in Nat : i <= j => k * i \in Int /\ k * j \in Int /\ k * i <= k * j
      BY <3>1
    <3> QED BY <3>1, <3>2 DEF k
  <2>4. b.symbolHits = SumOver(wh, F)
    BY Sums DEF Benchmark, Total
  <2>5. b.symbolTotal = SumOver(wt, F)
    BY Sums DEF Benchmark, Total
  <2> HIDE DEF wh, wt, F, b
  <2>6. SumOver(wh, F) <= SumOver(wt, F)
    BY <2>2, <2>3, SumMonotone
  <2> QED BY <2>4, <2>5, <2>6
<1>5. b.toneCorrect <= b.toneTotal
  <2> DEFINE T == {s \in F : s.tone # "none"}
             C == {s \in T : s.label = s.tone}
  <2>1. b.toneCorrect = Tally(corpus, C) /\ b.toneTotal = Tally(corpus, T)
    BY DEF Benchmark
  <2>2. T \in SUBSET F /\ C \in SUBSET T
    OBVIOUS
  <2> QED BY <2>1, <2>2, TallyFacts
<1> HIDE DEF b
<1> QED BY <1>2, <1>3, <1>4, <1>5 DEF b

-----------------------------------------------------------------------------
(* Calibration (backtest.py). *)

\* The amount of so many times a number.
LEMMA AbsTimes == ASSUME NEW n \in Nat, NEW d \in Int PROVE n * Abs(d) = Abs(n * d)
<1>1. CASE d < 0
  <2>1. n * d <= 0 /\ n * (-d) = -(n * d)
    BY <1>1
  <2>2. n * d < 0 \/ n * d = 0
    BY <2>1
  <2> QED BY <1>1, <2>1, <2>2 DEF Abs
<1>2. CASE d >= 0
  <2>1. n * d >= 0
    BY <1>2
  <2> QED BY <1>2, <2>1 DEF Abs
<1> QED BY <1>1, <1>2

\* The amount of a sum is at most the sum of the amounts.
LEMMA SumOfAmounts ==
    ASSUME NEW S, IsFiniteSet(S), NEW f, NEW g, \A x \in S : f[x] \in Int /\ g[x] = Abs(f[x])
    PROVE  SumOver(f, S) \in Int /\ SumOver(g, S) \in Nat /\ Abs(SumOver(f, S)) <= SumOver(g, S)
<1>1. \A x \in S : g[x] \in Nat /\ f[x] <= g[x] /\ -f[x] <= g[x]
  BY DEF Abs
<1>2. SumOver(f, S) \in Int /\ SumOver(g, S) \in Nat
  BY <1>1, SumType
<1>3. SumOver(f, S) <= SumOver(g, S)
  <2>1. \A x \in S : f[x] \in Int /\ g[x] \in Int /\ f[x] <= g[x]
    BY <1>1
  <2> QED BY <2>1, SumMonotone
<1>4. -SumOver(f, S) <= SumOver(g, S)
  <2> DEFINE m == [x \in S |-> (-1) * f[x]]
  <2>1. \A x \in S : f[x] \in Int /\ m[x] = (-1) * f[x] /\ m[x] \in Int /\ g[x] \in Int /\ m[x] <= g[x]
    BY <1>1
  <2> HIDE DEF m
  <2>2. SumOver(m, S) = (-1) * SumOver(f, S)
    BY <2>1, SumTimes
  <2>3. SumOver(m, S) <= SumOver(g, S)
    BY <2>1, SumMonotone
  <2> QED BY <1>2, <2>2, <2>3
<1> QED BY <1>2, <1>3, <1>4 DEF Abs

\* A prediction that is a score has its bin, of the five.
LEMMA BinsOfScores ==
    ASSUME NEW v \in Int
    PROVE  /\ Bin(v) \in (0 .. 4) \cup {None}
           /\ Bin(v) = None <=> v \notin 0 .. 100
           /\ \A b \in 0 .. 4 : Bin(v) = b => v \in 20 * b .. 20 * b + 20
<1>1. CASE v \notin 0 .. 100
  BY <1>1 DEF Bin, None
<1>2. CASE v \in 0 .. 100
  <2> DEFINE q == v \div 20
  <2>1. q \in 0 .. 5 /\ 20 * q <= v /\ v < 20 * q + 20
    BY <1>2
  <2>2. Bin(v) = Min({4, q}) /\ q \in Int
    BY <1>2, <2>1 DEF Bin
  <2> HIDE DEF q
  <2>3. Min({4, q}) \in {4, q} /\ Min({4, q}) <= 4 /\ Min({4, q}) <= q
    BY <2>2, OfTwo
  <2>4. q <= 4 => Bin(v) = q
    BY <2>1, <2>2, <2>3
  <2>5. q = 5 => Bin(v) = 4 /\ v = 100
    BY <1>2, <2>1, <2>2, <2>3
  <2>6. Bin(v) \in 0 .. 4
    BY <2>1, <2>4, <2>5
  <2>7. ASSUME NEW b \in 0 .. 4, Bin(v) = b
        PROVE  v \in 20 * b .. 20 * b + 20
    BY <1>2, <2>1, <2>4, <2>5, <2>7
  <2> QED BY <1>2, <2>6, <2>7 DEF None
<1> QED BY <1>1, <1>2

InBin(b) == {s \in Predictions(corpus) : Bin(s.stub) = b}

\* What the bins say of the pairs is what the summary says of them.
LEMMA CalibrationBalances == CorpusInv => CalibrationAddsUp
<1> SUFFICES ASSUME CorpusInv, report = "backtest"
             PROVE  LET r == Backtest(corpus)
                        Rated == {s \in Predictions(corpus) : s.stub \in 0 .. 100}
                    IN  /\ AddUp([b \in DOMAIN r.bins |-> r.bins[b].count]) = Tally(corpus, Rated)
                        /\ \A b \in DOMAIN r.bins :
                              r.bins[b].predicted \in r.bins[b].count * 20 * b .. r.bins[b].count * (20 * b + 20)
                        /\ Rated = Predictions(corpus) =>
                              r.signed = AddUp([b \in DOMAIN r.bins |-> r.bins[b].truth - r.bins[b].predicted])
                        /\ Abs(r.signed) <= r.absolute /\ r.absolute <= r.n * r.worst
  BY DEF CalibrationAddsUp
<1> DEFINE r == Backtest(corpus)
           P == Predictions(corpus)
           Rated == {s \in P : s.stub \in 0 .. 100}
           K == {k \in 0 .. 4 : InBin(k) # {}}
           stub == [s \in P |-> corpus[s] * s.stub]
           expert == [s \in P |-> corpus[s] * s.expert]
<1>1. P \in SUBSET Filled(corpus) /\ IsFiniteSet(P) /\ \A s \in P : s.stub \in Int /\ s.expert \in Int
  <2>1. P \in SUBSET Filled(corpus)
    BY DEF Predictions
  <2> QED BY <2>1, CorpusFinite, AuditsAssumption, FS_Subset DEF CorpusInv
<1>2. \A s \in P : corpus[s] \in Nat \ {0}
  BY <1>1, CorpusFinite
<1>3. DOMAIN r.bins = K /\ K \subseteq 0 .. 4 /\ IsFiniteSet(K)
  <2>1. DOMAIN r.bins = K
    BY DEF Backtest, InBin
  <2>2. K \in SUBSET (0 .. 4)
    OBVIOUS
  <2>3. IsFiniteSet(0 .. 4)
    BY FS_Interval, 0 \in Int, 4 \in Int
  <2> HIDE DEF K
  <2> QED BY <2>1, <2>2, <2>3, FS_Subset
<1>4. ASSUME NEW b \in K
      PROVE  /\ InBin(b) \in SUBSET P /\ IsFiniteSet(InBin(b))
             /\ r.bins[b].count = SumOver(corpus, InBin(b))
             /\ r.bins[b].predicted = SumOver(stub, InBin(b))
             /\ r.bins[b].truth = SumOver(expert, InBin(b))
  <2>1. InBin(b) \in SUBSET P
    BY DEF InBin
  <2>2. IsFiniteSet(InBin(b))
    BY <1>1, <2>1, FS_Subset
  <2>3. r.bins[b] = [count |-> Tally(corpus, InBin(b)),
                     predicted |-> Total(corpus, InBin(b), LAMBDA s : s.stub),
                     truth |-> Total(corpus, InBin(b), LAMBDA s : s.expert)]
    BY DEF Backtest, InBin
  <2>4. /\ Total(corpus, InBin(b), LAMBDA s : s.stub) = SumOver([s \in InBin(b) |-> corpus[s] * s.stub], InBin(b))
        /\ Total(corpus, InBin(b), LAMBDA s : s.expert) = SumOver([s \in InBin(b) |-> corpus[s] * s.expert], InBin(b))
    BY Sums DEF Total
  <2> DEFINE f == [s \in InBin(b) |-> corpus[s] * s.stub]
             g == [s \in InBin(b) |-> corpus[s] * s.expert]
  <2>5. /\ \A s \in InBin(b) : f[s] \in Int /\ f[s] = stub[s]
        /\ \A s \in InBin(b) : g[s] \in Int /\ g[s] = expert[s]
    BY <1>1, <1>2, <2>1
  <2>6. r.bins[b].predicted = SumOver(f, InBin(b)) /\ r.bins[b].truth = SumOver(g, InBin(b))
    BY <2>3, <2>4
  <2>7. r.bins[b].count = SumOver(corpus, InBin(b))
    BY <2>3, TallyIsSum
  <2> HIDE DEF f, g, stub, expert, r, P, K
  <2>8. SumOver(f, InBin(b)) = SumOver(stub, InBin(b)) /\ SumOver(g, InBin(b)) = SumOver(expert, InBin(b))
    BY <2>2, <2>5, SumSame
  <2> QED BY <2>1, <2>2, <2>6, <2>7, <2>8
<1>5. \A s \in P : \A b \in K : s \in InBin(b) <=> Bin(s.stub) = b
  BY DEF InBin
<1>6. \A s \in Rated : Bin(s.stub) \in K
  <2> SUFFICES ASSUME NEW s \in Rated PROVE Bin(s.stub) \in K
    OBVIOUS
  <2>1. s.stub \in Int /\ s.stub \in 0 .. 100 /\ s \in P
    BY <1>1
  <2>2. Bin(s.stub) \in 0 .. 4
    BY <2>1, BinsOfScores
  <2>3. s \in InBin(Bin(s.stub))
    BY <2>1 DEF InBin
  <2> QED BY <2>2, <2>3
<1>7. \A b \in K : InBin(b) \subseteq Rated
  <2> SUFFICES ASSUME NEW b \in K, NEW s \in InBin(b) PROVE s \in Rated
    OBVIOUS
  <2>1. s \in P /\ Bin(s.stub) = b /\ s.stub \in Int /\ b \in 0 .. 4
    BY <1>1 DEF InBin
  <2>2. Bin(s.stub) # None
    BY <2>1 DEF None
  <2> QED BY <2>1, <2>2, BinsOfScores
<1>8. Rated \in SUBSET P /\ IsFiniteSet(Rated)
  <2>1. Rated \in SUBSET P
    OBVIOUS
  <2> HIDE DEF Rated, P
  <2> QED BY <1>1, <2>1, FS_Subset
<1>9. AddUp([b \in DOMAIN r.bins |-> r.bins[b].count]) = Tally(corpus, Rated)
  <2> DEFINE h == [b \in K |-> r.bins[b].count]
             g == [s \in Rated |-> Bin(s.stub)]
             part == [b \in K |-> InBin(b)]
  <2>1. AddUp([b \in DOMAIN r.bins |-> r.bins[b].count]) = SumOver(h, K)
    BY <1>3, Sums DEF AddUp
  <2>2. \A b \in K : part[b] \subseteq Rated /\ h[b] = SumOver(corpus, part[b])
    BY <1>4, <1>7
  <2>3. \A s \in Rated : g[s] \in K /\ corpus[s] \in Int /\ \A b \in K : s \in part[b] <=> g[s] = b
    BY <1>2, <1>5, <1>6
  <2>3f. IsFiniteSet(Rated) /\ IsFiniteSet(K)
    BY <1>3, <1>8
  <2>3a. \A s \in Rated : g[s] \in K
    BY <2>3
  <2>3c. \A s \in Rated : corpus[s] \in Int
    BY <2>3
  <2>3d. \A b \in K : part[b] \subseteq Rated
    BY <2>2
  <2>3e. \A b \in K : h[b] = SumOver(corpus, part[b])
    BY <2>2
  <2>3b. \A s \in Rated : \A b \in K : s \in part[b] <=> g[s] = b
    BY <2>3
  <2> HIDE DEF h, g, part, K, Rated, P, r, stub, expert
  <2>4. SumOver(h, K) = SumOver(corpus, Rated)
    BY <2>3f, <2>3a, <2>3b, <2>3c, <2>3d, <2>3e, SumParts
  <2> QED BY <2>1, <2>4, TallyIsSum
<1>10. ASSUME NEW b \in DOMAIN r.bins
       PROVE  r.bins[b].predicted \in r.bins[b].count * 20 * b .. r.bins[b].count * (20 * b + 20)
  <2>1. b \in K /\ b \in 0 .. 4
    BY <1>3
  <2> DEFINE T == InBin(b)
             lo == [s \in T |-> (20 * b) * corpus[s]]
             hi == [s \in T |-> (20 * b + 20) * corpus[s]]
  <2>2. \A s \in T : s.stub \in 20 * b .. 20 * b + 20 /\ s \in P
    <3> SUFFICES ASSUME NEW s \in T PROVE s.stub \in 20 * b .. 20 * b + 20 /\ s \in P
      OBVIOUS
    <3>1. s \in P /\ Bin(s.stub) = b /\ s.stub \in Int
      BY <1>1 DEF InBin
    <3> QED BY <2>1, <3>1, BinsOfScores
  <2>3. IsFiniteSet(T) /\ T \subseteq P
    BY <1>4, <2>1
  <2>4. \A s \in T : /\ corpus[s] \in Int /\ lo[s] = (20 * b) * corpus[s] /\ hi[s] = (20 * b + 20) * corpus[s]
                     /\ lo[s] \in Int /\ stub[s] \in Int /\ hi[s] \in Int
                     /\ lo[s] <= stub[s] /\ stub[s] <= hi[s]
    <3> SUFFICES ASSUME NEW s \in T
                 PROVE  /\ corpus[s] \in Int
                        /\ (20 * b) * corpus[s] \in Int /\ corpus[s] * s.stub \in Int
                        /\ (20 * b + 20) * corpus[s] \in Int
                        /\ (20 * b) * corpus[s] <= corpus[s] * s.stub
                        /\ corpus[s] * s.stub <= (20 * b + 20) * corpus[s]
      BY <2>2
    <3> DEFINE n == corpus[s]
               v == s.stub
               x == 20 * b
    <3>1. n \in Nat /\ x \in Int /\ v \in x .. x + 20
      BY <1>2, <2>1, <2>2
    <3> HIDE DEF n, v, x
    <3>2. /\ n \in Int /\ x * n \in Int /\ n * v \in Int /\ (x + 20) * n \in Int
          /\ x * n <= n * v /\ n * v <= (x + 20) * n
      BY <3>1
    <3> QED BY <3>2 DEF n, v, x
  <2>5. 20 * b \in Int /\ 20 * b + 20 \in Int
    BY <2>1
  <2>6. r.bins[b].count = SumOver(corpus, T) /\ r.bins[b].predicted = SumOver(stub, T)
    BY <1>4, <2>1
  <2> DEFINE x == 20 * b
  <2> HIDE DEF T, lo, hi, stub, r
  <2>7. SumOver(lo, T) = (20 * b) * SumOver(corpus, T) /\ SumOver(hi, T) = (20 * b + 20) * SumOver(corpus, T)
    <3>1. SumOver(lo, T) = (20 * b) * SumOver(corpus, T)
      BY <2>3, <2>4, <2>5, SumTimes
    <3>2. SumOver(hi, T) = (20 * b + 20) * SumOver(corpus, T)
      BY <2>3, <2>4, <2>5, SumTimes
    <3> QED BY <3>1, <3>2
  <2>8. SumOver(lo, T) <= SumOver(stub, T)
    BY <2>3, <2>4, SumMonotone
  <2>9. SumOver(stub, T) <= SumOver(hi, T)
    BY <2>3, <2>4, SumMonotone
  <2>10. SumOver(corpus, T) \in Int /\ SumOver(stub, T) \in Int
    BY <2>3, <2>4, SumType
  <2> DEFINE k == SumOver(corpus, T)
             v == SumOver(stub, T)
  <2>11. k \in Int /\ v \in Int /\ (20 * b) * k <= v /\ v <= (20 * b + 20) * k
    BY <2>7, <2>8, <2>9, <2>10
  <2> HIDE DEF k, v
  <2>12. k * 20 * b = (20 * b) * k /\ k * (20 * b + 20) = (20 * b + 20) * k
    BY <2>1, <2>11
  <2>13. v \in k * 20 * b .. k * (20 * b + 20)
    BY <2>1, <2>11, <2>12
  <2> QED BY <2>6, <2>13 DEF k, v
<1> DEFINE delta == [s \in P |-> corpus[s] * (s.expert - s.stub)]
           amount == [s \in P |-> corpus[s] * Abs(s.expert - s.stub)]
<1>11. /\ r.signed = SumOver(delta, P) /\ r.absolute = SumOver(amount, P) /\ r.n = SumOver(corpus, P)
       /\ \A s \in P : delta[s] \in Int /\ stub[s] \in Int /\ expert[s] \in Int
                       /\ expert[s] = stub[s] + delta[s] /\ amount[s] = Abs(delta[s])
  <2>1. r.signed = SumOver(delta, P) /\ r.absolute = SumOver(amount, P) /\ r.n = SumOver(corpus, P)
    BY Sums, TallyIsSum DEF Backtest, Total
  <2>2. ASSUME NEW s \in P
        PROVE  delta[s] \in Int /\ stub[s] \in Int /\ expert[s] \in Int
               /\ expert[s] = stub[s] + delta[s] /\ amount[s] = Abs(delta[s])
    <3> DEFINE n == corpus[s]
               u == s.stub
               v == s.expert
    <3>1. n \in Nat /\ u \in Int /\ v \in Int
      BY <1>1, <1>2
    <3>2. delta[s] = n * (v - u) /\ stub[s] = n * u /\ expert[s] = n * v /\ amount[s] = n * Abs(v - u)
      OBVIOUS
    <3> HIDE DEF n, u, v, delta, stub, expert, amount
    <3>3. n * (v - u) \in Int /\ n * u \in Int /\ n * v \in Int /\ n * v = n * u + n * (v - u)
      BY <3>1
    <3>4. n * Abs(v - u) = Abs(n * (v - u))
      BY <3>1, AbsTimes
    <3> QED BY <3>2, <3>3, <3>4
  <2> QED BY <2>1, <2>2
<1>12. ASSUME Rated = P
       PROVE  r.signed = AddUp([b \in DOMAIN r.bins |-> r.bins[b].truth - r.bins[b].predicted])
  <2> DEFINE h == [b \in K |-> r.bins[b].truth - r.bins[b].predicted]
             g == [s \in P |-> Bin(s.stub)]
             part == [b \in K |-> InBin(b)]
  <2>1. AddUp([b \in DOMAIN r.bins |-> r.bins[b].truth - r.bins[b].predicted]) = SumOver(h, K)
    BY <1>3, Sums DEF AddUp
  <2>2. \A b \in K : part[b] \subseteq P /\ h[b] = SumOver(delta, part[b])
    <3> SUFFICES ASSUME NEW b \in K
                 PROVE  InBin(b) \subseteq P
                        /\ r.bins[b].truth - r.bins[b].predicted = SumOver(delta, InBin(b))
      OBVIOUS
    <3> DEFINE T == InBin(b)
    <3>1. T \subseteq P /\ IsFiniteSet(T) /\ r.bins[b].truth = SumOver(expert, T) /\ r.bins[b].predicted = SumOver(stub, T)
      BY <1>4
    <3>2. \A s \in T : stub[s] \in Int /\ delta[s] \in Int /\ expert[s] = stub[s] + delta[s]
      BY <1>11, <3>1
    <3> HIDE DEF T, stub, delta, expert, r, P, K
    <3>3. SumOver(expert, T) = SumOver(stub, T) + SumOver(delta, T)
      BY <3>1, <3>2, SumPlus
    <3>4. SumOver(stub, T) \in Int /\ SumOver(delta, T) \in Int
      BY <3>1, <3>2, SumType
    <3>5. SumOver(expert, T) - SumOver(stub, T) = SumOver(delta, T)
      BY <3>3, <3>4
    <3> QED BY <3>1, <3>5 DEF T
  <2>3. \A s \in P : g[s] \in K /\ delta[s] \in Int /\ \A b \in K : s \in part[b] <=> g[s] = b
    <3>1. \A s \in P : Bin(s.stub) \in K
      BY <1>6, <1>12
    <3>2. \A s \in P : delta[s] \in Int
      BY <1>11
    <3> HIDE DEF K, P, delta
    <3> QED BY <1>5, <3>1, <3>2
  <2>3f. IsFiniteSet(P) /\ IsFiniteSet(K)
    BY <1>1, <1>3
  <2>3a. \A s \in P : g[s] \in K
    BY <2>3
  <2>3c. \A s \in P : delta[s] \in Int
    BY <2>3
  <2>3d. \A b \in K : part[b] \subseteq P
    BY <2>2
  <2>3e. \A b \in K : h[b] = SumOver(delta, part[b])
    BY <2>2
  <2>3b. \A s \in P : \A b \in K : s \in part[b] <=> g[s] = b
    BY <2>3
  <2> HIDE DEF h, g, part, K, Rated, P, r, delta, amount, stub, expert
  <2>4. SumOver(h, K) = SumOver(delta, P)
    BY <2>3f, <2>3a, <2>3b, <2>3c, <2>3d, <2>3e, SumParts
  <2> QED BY <1>11, <2>1, <2>4
<1>13. Abs(r.signed) <= r.absolute
  <2> HIDE DEF delta, amount, P, r
  <2> QED BY <1>1, <1>11, SumOfAmounts
<1>14. r.absolute <= r.n * r.worst
  <2> DEFINE M == {Abs(s.expert - s.stub) : s \in P}
  <2>1. r.worst = IF r.n = 0 THEN 0 ELSE Max(M)
    BY DEF Backtest
  <2>2. CASE P = {}
    <3>1. r.n = 0 /\ r.absolute = 0
      BY <1>11, <2>2, SumEmpty
    <3> QED BY <2>1, <3>1
  <2>3. CASE P # {}
    <3> DEFINE size == [s \in P |-> Abs(s.expert - s.stub)]
    <3>1. M = {size[s] : s \in P}
      OBVIOUS
    <3>2. \A s \in P : size[s] \in Nat
      BY <1>1, AbsType
    <3>3. IsFiniteSet(M) /\ M # {} /\ M \in SUBSET Int
      <4>1. IsFiniteSet({size[s] : s \in P})
        <5> HIDE DEF size, P
        <5> QED BY <1>1, ImageIsFinite
      <4>2. \A s \in P : Abs(s.expert - s.stub) \in Int
        BY <3>2
      <4> QED BY <2>3, <3>1, <4>1, <4>2
    <3>4. Max(M) \in Int /\ \A s \in P : size[s] <= Max(M)
      <4>1. \A s \in P : size[s] \in M
        OBVIOUS
      <4> HIDE DEF M, size
      <4> QED BY <3>3, <4>1, Extremes
    <3>5. r.n # 0
      <4>1. SumOver(corpus, P) = 0 <=> \A s \in P : corpus[s] = 0
        <5> HIDE DEF P
        <5> QED BY <1>1, <1>2, SumZero
      <4> QED BY <1>2, <1>11, <2>3, <4>1
    <3> DEFINE w == Max(M)
               top == [s \in P |-> w * corpus[s]]
    <3>6. \A s \in P : corpus[s] \in Int /\ top[s] = w * corpus[s] /\ top[s] \in Int /\ amount[s] \in Int /\ amount[s] <= top[s]
      <4> SUFFICES ASSUME NEW s \in P
                   PROVE  /\ corpus[s] \in Int /\ w * corpus[s] \in Int
                          /\ corpus[s] * size[s] \in Int /\ corpus[s] * size[s] <= w * corpus[s]
        OBVIOUS
      <4> DEFINE n == corpus[s]
                 v == size[s]
      <4>1. n \in Nat /\ v \in Nat /\ w \in Int /\ v <= w
        BY <1>2, <3>2, <3>4
      <4> HIDE DEF n, v, w
      <4>2. n \in Int /\ w * n \in Int /\ n * v \in Int /\ n * v <= w * n
        BY <4>1
      <4> QED BY <4>2 DEF n, v
    <3>7. w \in Int
      BY <3>4
    <3> HIDE DEF w, top, amount, P, M, size, r
    <3>8. SumOver(amount, P) <= SumOver(top, P)
      BY <1>1, <3>6, SumMonotone
    <3>9. SumOver(top, P) = w * SumOver(corpus, P)
      BY <1>1, <3>6, <3>7, SumTimes
    <3>10. SumOver(corpus, P) \in Int
      BY <1>1, <3>6, SumType
    <3>11. w * SumOver(corpus, P) = SumOver(corpus, P) * w
      BY <3>7, <3>10
    <3>12. r.worst = w
      BY <2>1, <3>5 DEF w
    <3> QED BY <1>11, <3>8, <3>9, <3>11, <3>12
  <2> QED BY <2>2, <2>3
<1> HIDE DEF r
<1> QED BY <1>9, <1>10, <1>12, <1>13, <1>14 DEF r

-----------------------------------------------------------------------------
(* Coverage (awareness_gaps.py, portfolio.py). *)

\* s lists the elements of S, each once, in the order R.
Lists(s, S, R) ==
    /\ DOMAIN s = 1 .. Cardinality(S) /\ Len(s) = Cardinality(S) /\ Range(s) = S
    /\ \A i, j \in DOMAIN s : s[i] = s[j] => i = j
    /\ \A i, j \in DOMAIN s : i < j => <<s[i], s[j]>> \in R

\* Whoever has rank n stands at place n.
LEMMA Listed ==
    ASSUME NEW S, IsFiniteSet(S), NEW R, Orders(R, S),
           NEW before, NEW rank, Ranks(rank, before, R, S),
           NEW s, s = [n \in 1 .. Cardinality(S) |-> CHOOSE x \in S : rank[x] = n]
    PROVE  Lists(s, S, R)
<1> DEFINE k == Cardinality(S)
<1>1. k \in Nat
  BY FS_CardinalityType
<1>2. /\ \A x \in S : rank[x] \in 1..k
      /\ \A x, y \in S : <<x, y>> \in R => rank[x] < rank[y]
      /\ \A x, y \in S : rank[x] = rank[y] => x = y
      /\ \A n \in 1..k : \E x \in S : rank[x] = n
  BY Ranked
<1>3. \A n \in 1..k : s[n] \in S /\ rank[s[n]] = n
  BY <1>2
<1>4. DOMAIN s = 1..k /\ Len(s) = k
  <2>1. s \in [1..k -> S]
    BY <1>3
  <2> QED BY <1>1, <2>1
<1> HIDE DEF k
<1>5. Range(s) = S
  <2>1. Range(s) \subseteq S
    BY <1>3, <1>4 DEF Range
  <2>2. \A x \in S : s[rank[x]] = x
    <3> SUFFICES ASSUME NEW x \in S PROVE s[rank[x]] = x
      OBVIOUS
    <3>1. rank[x] \in 1..k
      BY <1>2
    <3>2. s[rank[x]] \in S /\ rank[s[rank[x]]] = rank[x]
      BY <1>3, <3>1
    <3> QED BY <1>2, <3>2
  <2>3. ASSUME NEW x \in S
        PROVE  x \in Range(s)
    <3>1. rank[x] \in DOMAIN s /\ s[rank[x]] = x
      BY <1>2, <1>4, <2>2
    <3> QED BY <3>1 DEF Range
  <2> QED BY <2>1, <2>3
<1>6. \A i, j \in 1..k : s[i] = s[j] => i = j
  BY <1>3
<1>7. ASSUME NEW i \in 1..k, NEW j \in 1..k, i < j
      PROVE  <<s[i], s[j]>> \in R
  <2>1. s[i] \in S /\ s[j] \in S /\ rank[s[i]] = i /\ rank[s[j]] = j
    BY <1>3
  <2>2. s[i] # s[j]
    BY <1>7, <2>1
  <2>3. <<s[j], s[i]>> \notin R
    BY <1>1, <1>2, <1>7, <2>1
  <2> QED BY <2>1, <2>2, <2>3 DEF Orders
<1> QED BY <1>4, <1>5, <1>6, <1>7 DEF Lists, k

\* Numbers in order.
LEMMA AscendingLists ==
    ASSUME NEW I \in SUBSET Int, IsFiniteSet(I)
    PROVE  Lists(Ascending(I), I, {p \in I \X I : p[1] < p[2]})
<1> DEFINE R == {p \in I \X I : p[1] < p[2]}
           before == [x \in I |-> {y \in I : y < x}]
           rank == [x \in I |-> Cardinality({y \in I : y < x}) + 1]
<1>1. Orders(R, I)
  BY DEF Orders
<1>2. Ranks(rank, before, R, I)
  BY DEF Ranks
<1>3. Ascending(I) = [n \in 1 .. Cardinality(I) |-> CHOOSE x \in I : rank[x] = n]
  <2>1. Ascending(I) = [n \in 1 .. Cardinality(I) |-> CHOOSE x \in I : Cardinality({y \in I : y < x}) + 1 = n]
    BY DEF Ascending, InOrder
  <2>2. \A n : (CHOOSE x \in I : Cardinality({y \in I : y < x}) + 1 = n) = (CHOOSE x \in I : rank[x] = n)
    OBVIOUS
  <2> QED BY <2>1, <2>2
<1> HIDE DEF R, before, rank
<1>4. Lists(Ascending(I), I, R)
  BY <1>1, <1>2, <1>3, Listed
<1> QED BY <1>4 DEF R

\* What stands at some places of a sequence whose elements differ.
LEMMA Taken ==
    ASSUME NEW s, NEW n \in Nat, DOMAIN s = 1..n, NEW I \in SUBSET (1..n)
    PROVE  /\ DOMAIN At(s, I) = 1 .. Cardinality(I) /\ Len(At(s, I)) = Cardinality(I)
           /\ Cardinality(I) \in Nat
           /\ \A i \in DOMAIN At(s, I) : \E k \in I : At(s, I)[i] = s[k]
           /\ \A k \in I : \E i \in DOMAIN At(s, I) : At(s, I)[i] = s[k]
           /\ (\A i, j \in I : s[i] = s[j] => i = j)
                => \A i, j \in DOMAIN At(s, I) : At(s, I)[i] = At(s, I)[j] => i = j
<1> DEFINE a == Ascending(I)
           t == At(s, I)
           m == Cardinality(I)
<1>1. IsFiniteSet(I) /\ I \in SUBSET Int /\ m \in Nat
  <2>1. IsFiniteSet(1..n)
    BY FS_Interval
  <2>2. IsFiniteSet(I)
    BY <2>1, FS_Subset
  <2> QED BY <2>2, FS_CardinalityType
<1>2. DOMAIN a = 1..m /\ Range(a) = I /\ \A i, j \in DOMAIN a : a[i] = a[j] => i = j
  <2>1. Lists(a, I, {p \in I \X I : p[1] < p[2]})
    BY <1>1, AscendingLists
  <2> QED BY <2>1 DEF Lists
<1>3. t = [i \in 1..m |-> s[a[i]]]
  BY DEF At
<1> HIDE DEF a, t, m
<1>4. \A i \in 1..m : a[i] \in I
  BY <1>2 DEF Range
<1>5. \A k \in I : \E i \in 1..m : a[i] = k
  BY <1>2 DEF Range
<1>6. DOMAIN t = 1..m /\ Len(t) = m
  BY <1>1, <1>3
<1>7. \A i \in 1..m : \E k \in I : t[i] = s[k]
  BY <1>3, <1>4
<1>8. \A k \in I : \E i \in 1..m : t[i] = s[k]
  BY <1>3, <1>5
<1>9. (\A i, j \in I : s[i] = s[j] => i = j) => \A i, j \in 1..m : t[i] = t[j] => i = j
  BY <1>2, <1>3, <1>4
<1> QED BY <1>1, <1>6, <1>7, <1>8, <1>9 DEF t, m

\* The terms are those that were typed, each once however it was typed.
LEMMA TermsFacts ==
    /\ DOMAIN Terms = 1 .. Len(Terms) /\ Len(Terms) \in Nat
    /\ \A n \in DOMAIN Terms : Terms[n] \in DOMAIN Spelling
    /\ \A i, j \in DOMAIN Terms : Lower[Terms[i]] = Lower[Terms[j]] => i = j
    /\ \A y \in Range(Watch) : \E n \in DOMAIN Terms : Lower[Terms[n]] = Lower[y]
<1> DEFINE I == {n \in DOMAIN Watch : \A k \in 1 .. n - 1 : Lower[Watch[k]] # Lower[Watch[n]]}
           low == [n \in 1..Len(Watch) |-> Lower[Watch[n]]]
<1>1. /\ Len(Watch) \in Nat /\ DOMAIN Watch = 1..Len(Watch)
      /\ \A n \in 1..Len(Watch) : Watch[n] \in DOMAIN Spelling
  BY AuditsAssumption
<1>2. I \in SUBSET (1..Len(Watch)) /\ Terms = At(Watch, I)
  BY <1>1 DEF Terms
<1>3. \A n \in I : \A k \in 1..Len(Watch) : k < n => low[k] # low[n]
  BY <1>1
<1>4. ASSUME NEW n \in 1..Len(Watch)
      PROVE  \E k \in I : low[k] = low[n]
  <2> DEFINE S == {k \in 1..Len(Watch) : low[k] = low[n]}
  <2>1. IsFiniteSet(S) /\ S \in SUBSET Int /\ S # {}
    <3>1. S \in SUBSET (1..Len(Watch)) /\ n \in S
      OBVIOUS
    <3>2. IsFiniteSet(1..Len(Watch))
      BY <1>1, FS_Interval
    <3>3. S \in SUBSET Int
      BY <1>1
    <3> HIDE DEF S
    <3>4. IsFiniteSet(S)
      BY <3>1, <3>2, FS_Subset
    <3> QED BY <3>1, <3>3, <3>4
  <2> DEFINE m == Min(S)
  <2>2. m \in S /\ \A x \in S : m <= x
    <3> HIDE DEF S
    <3> QED BY <2>1, Extremes
  <2> HIDE DEF m
  <2>3. \A k \in 1 .. m - 1 : k \in 1..Len(Watch) /\ k \notin S
    BY <1>1, <2>2
  <2>4. \A k \in 1 .. m - 1 : Lower[Watch[k]] # Lower[Watch[m]]
    BY <1>1, <2>2, <2>3
  <2>5. m \in I
    BY <1>1, <2>2, <2>4
  <2> QED BY <2>2, <2>5
<1>5. /\ DOMAIN Terms = 1 .. Cardinality(I) /\ Len(Terms) = Cardinality(I) /\ Cardinality(I) \in Nat
      /\ \A i \in DOMAIN Terms : \E k \in I : Terms[i] = Watch[k]
      /\ \A k \in I : \E i \in DOMAIN Terms : Terms[i] = Watch[k]
      /\ (\A i, j \in I : Watch[i] = Watch[j] => i = j)
            => \A i, j \in DOMAIN Terms : Terms[i] = Terms[j] => i = j
  <2> DEFINE N == Len(Watch)
  <2>1. N \in Nat /\ DOMAIN Watch = 1..N /\ I \in SUBSET (1..N)
    BY <1>1, <1>2
  <2> HIDE DEF I, N
  <2>2. /\ DOMAIN At(Watch, I) = 1 .. Cardinality(I) /\ Len(At(Watch, I)) = Cardinality(I)
        /\ Cardinality(I) \in Nat
        /\ \A i \in DOMAIN At(Watch, I) : \E k \in I : At(Watch, I)[i] = Watch[k]
        /\ \A k \in I : \E i \in DOMAIN At(Watch, I) : At(Watch, I)[i] = Watch[k]
        /\ (\A i, j \in I : Watch[i] = Watch[j] => i = j)
                => \A i, j \in DOMAIN At(Watch, I) : At(Watch, I)[i] = At(Watch, I)[j] => i = j
    BY <2>1, Taken
  <2> QED BY <1>2, <2>2
<1>6. \A i, j \in I : low[i] = low[j] => i = j
  <2> SUFFICES ASSUME NEW i \in I, NEW j \in I, low[i] = low[j], i < j
               PROVE  FALSE
    BY <1>2
  <2> QED BY <1>2, <1>3
<1>7. \A i \in I : low[i] = Lower[Watch[i]]
  BY <1>2
<1>8. \A i, j \in DOMAIN Terms : Terms[i] = Terms[j] => i = j
  <2> HIDE DEF I, low
  <2> QED BY <1>5, <1>6, <1>7
<1>9. ASSUME NEW i \in DOMAIN Terms, NEW j \in DOMAIN Terms, Lower[Terms[i]] = Lower[Terms[j]]
      PROVE  i = j
  <2>1. PICK k \in I : Terms[i] = Watch[k]
    BY <1>5
  <2>2. PICK l \in I : Terms[j] = Watch[l]
    BY <1>5
  <2>3. k = l
    <3> HIDE DEF I, low
    <3> QED BY <1>6, <1>7, <1>9, <2>1, <2>2
  <2> QED BY <1>8, <2>1, <2>2, <2>3
<1>10. ASSUME NEW y \in Range(Watch)
       PROVE  \E n \in DOMAIN Terms : Lower[Terms[n]] = Lower[y]
  <2>1. PICK n \in 1..Len(Watch) : y = Watch[n]
    BY <1>1 DEF Range
  <2>2. PICK k \in I : low[k] = low[n]
    BY <1>4
  <2>3. Lower[Watch[k]] = Lower[y]
    BY <1>2, <2>1, <2>2
  <2> QED BY <1>5, <2>3
<1>11. \A n \in DOMAIN Terms : Terms[n] \in DOMAIN Spelling
  BY <1>1, <1>2, <1>5
<1> QED BY <1>5, <1>9, <1>10, <1>11

Seen == {u \in Range(Terms) : Mentioning(corpus, u) # {}}
Coverage == {Covered(corpus, t) : t \in Seen}
Fresher(a, b) == a.age < b.age \/ (a.age = b.age /\ Spelling[a.term] < Spelling[b.term])

\* What is said of a covered term.
LEMMA CoveredTerms ==
    ASSUME CorpusInv, report = "gaps"
    PROVE  /\ IsFiniteSet(Seen) /\ IsFiniteSet(Coverage) /\ Cardinality(Coverage) = Cardinality(Seen)
           /\ \A x \in Coverage : /\ x.term \in Seen /\ x = Covered(corpus, x.term)
                                  /\ x.age \in Int /\ Spelling[x.term] \in Int
           /\ \A x, y \in Coverage : x.term = y.term => x = y
<1>1. IsFiniteSet(Range(Terms))
  BY TermsFacts, RangeIsFinite
<1>2. IsFiniteSet(Seen)
  <2>1. Seen \in SUBSET Range(Terms)
    BY DEF Seen
  <2> QED BY <1>1, <2>1, FS_Subset
<1> DEFINE m == [t \in Seen |-> Covered(corpus, t)]
<1>3. Coverage = {m[t] : t \in Seen} /\ \A t \in Seen : m[t].term = t
  BY DEF Coverage, Covered
<1>4. IsFiniteSet(Coverage) /\ Cardinality(Coverage) = Cardinality(Seen)
  <2> HIDE DEF m
  <2>1. \A x, y \in Seen : m[x] = m[y] => x = y
    BY <1>3
  <2>2. IsFiniteSet({m[t] : t \in Seen})
    BY <1>2, ImageIsFinite
  <2>3. Cardinality({m[t] : t \in Seen}) = Cardinality(Seen)
    BY <1>2, <2>1, SameSize
  <2> QED BY <1>3, <2>2, <2>3
<1>5. \A x \in Coverage : x.term \in Seen /\ x = Covered(corpus, x.term)
  BY <1>3 DEF Coverage
<1>6. ASSUME NEW t \in Seen
      PROVE  Covered(corpus, t).age \in Int /\ Spelling[t] \in Int
  <2> DEFINE M == Mentioning(corpus, t)
             age == [s \in M |-> CoverageNow - s.at]
             A == {age[s] : s \in M}
  <2>1. M \in SUBSET Filled(corpus) /\ M # {}
    BY DEF Mentioning, Seen
  <2>2. IsFiniteSet(M) /\ \A s \in M : s.at \in Int
    <3>1. \A s \in Shape[report] : {s.at, s.score, s.nth} \subseteq Int
      BY AuditsAssumption DEF CorpusInv
    <3> HIDE DEF M
    <3> QED BY <2>1, <3>1, CorpusFinite, FS_Subset
  <2>3. \A s \in M : age[s] \in Int
    BY <2>2, AuditsAssumption
  <2>4. Covered(corpus, t).age = Min(A)
    <3>1. A = {CoverageNow - s.at : s \in Mentioning(corpus, t)}
      OBVIOUS
    <3> HIDE DEF A
    <3> QED BY <3>1 DEF Covered
  <2>5. IsFiniteSet(A) /\ A # {} /\ A \in SUBSET Int
    <3>1. A # {} /\ A \in SUBSET Int
      BY <2>1, <2>3
    <3> HIDE DEF M, age
    <3> QED BY <2>2, <3>1, ImageIsFinite
  <2>6. Min(A) \in Int
    <3> HIDE DEF A
    <3> QED BY <2>5, Extremes
  <2>7. t \in DOMAIN Spelling
    BY TermsFacts DEF Seen, Range
  <2> QED BY <2>4, <2>6, <2>7, AuditsAssumption
<1>7. \A x \in Coverage : x.age \in Int /\ Spelling[x.term] \in Int
  <2> SUFFICES ASSUME NEW x \in Coverage
               PROVE  x.age \in Int /\ Spelling[x.term] \in Int
    OBVIOUS
  <2>1. x.term \in Seen /\ x = Covered(corpus, x.term)
    BY <1>5
  <2>2. Covered(corpus, x.term).age \in Int /\ Spelling[x.term] \in Int
    BY <1>6, <2>1
  <2> QED BY <2>1, <2>2
<1>8. \A x, y \in Coverage : x.term = y.term => x = y
  BY <1>5
<1> QED BY <1>2, <1>4, <1>5, <1>7, <1>8

\* The covered terms are listed, the freshest first.
LEMMA CoverageListed ==
    ASSUME CorpusInv, report = "gaps"
    PROVE  Lists(CoverageGaps(corpus).covered, Coverage, {p \in Coverage \X Coverage : Fresher(p[1], p[2])})
<1> DEFINE S == Coverage
           R == {p \in S \X S : Fresher(p[1], p[2])}
           before == [x \in S |-> {y \in S : Fresher(y, x)}]
           rank == [x \in S |-> Cardinality({y \in S : Fresher(y, x)}) + 1]
           s == CoverageGaps(corpus).covered
<1>1. s = [n \in 1 .. Cardinality(S) |-> CHOOSE x \in S : Cardinality({y \in S : Fresher(y, x)}) + 1 = n]
  BY DEF CoverageGaps, InOrder, Coverage, Seen, Fresher
<1>2. s = [n \in 1 .. Cardinality(S) |-> CHOOSE x \in S : rank[x] = n]
  <2>1. \A n : (CHOOSE x \in S : Cardinality({y \in S : Fresher(y, x)}) + 1 = n) = (CHOOSE x \in S : rank[x] = n)
    OBVIOUS
  <2> QED BY <1>1, <2>1
<1>3. \A x \in S : x.age \in Int /\ Spelling[x.term] \in Int
  BY CoveredTerms
<1>4. ASSUME NEW x \in S, NEW y \in S, x # y
      PROVE  Fresher(x, y) \/ Fresher(y, x)
  <2>1. x.term # y.term /\ x.term \in Seen /\ y.term \in Seen
    BY <1>4, CoveredTerms
  <2>2. x.term \in DOMAIN Spelling /\ y.term \in DOMAIN Spelling
    BY <2>1, TermsFacts DEF Seen, Range
  <2>3. Spelling[x.term] # Spelling[y.term]
    BY <2>1, <2>2, AuditsAssumption
  <2> QED BY <1>3, <2>3 DEF Fresher
<1>5. Orders(R, S)
  <2>1. \A x \in S : ~Fresher(x, x)
    BY <1>3 DEF Fresher
  <2>2. \A x, y, z \in S : Fresher(x, y) /\ Fresher(y, z) => Fresher(x, z)
    BY <1>3 DEF Fresher
  <2> QED BY <1>4, <2>1, <2>2 DEF Orders
<1>6. Ranks(rank, before, R, S)
  BY DEF Ranks
<1>7. IsFiniteSet(S)
  BY CoveredTerms
<1> HIDE DEF S, R, before, rank, s
<1>8. Lists(s, S, R)
  BY <1>2, <1>5, <1>6, <1>7, Listed
<1> QED BY <1>8 DEF s, S, R

\* A term is covered or a gap.
LEMMA TermsShared ==
    ASSUME CorpusInv, report = "gaps"
    PROVE  Len(CoverageGaps(corpus).covered) + Len(CoverageGaps(corpus).gaps) = Len(Terms)
<1> DEFINE D == DOMAIN Terms
           J == {n \in D : Mentioning(corpus, Terms[n]) = {}}
           K == D \ J
           m == [n \in K |-> Terms[n]]
<1>1. D = 1 .. Len(Terms) /\ Len(Terms) \in Nat /\ IsFiniteSet(D) /\ Cardinality(D) = Len(Terms)
  <2>1. D = 1 .. Len(Terms) /\ Len(Terms) \in Nat
    BY TermsFacts
  <2> HIDE DEF D
  <2> QED BY <2>1, FS_Interval
<1>2. J \in SUBSET D /\ K \in SUBSET D /\ J \cap K = {} /\ J \cup K = D
  OBVIOUS
<1>3. Len(CoverageGaps(corpus).gaps) = Cardinality(J)
  <2>1. CoverageGaps(corpus).gaps = At(Terms, J)
    BY DEF CoverageGaps
  <2>2. J \in SUBSET (1 .. Len(Terms)) /\ DOMAIN Terms = 1 .. Len(Terms)
    BY <1>1, <1>2
  <2> HIDE DEF J
  <2>3. Len(At(Terms, J)) = Cardinality(J)
    BY <1>1, <2>2, Taken
  <2> QED BY <2>1, <2>3
<1>4. Seen = {m[n] : n \in K}
  BY DEF Seen, Range
<1>5. \A i, j \in K : m[i] = m[j] => i = j
  BY TermsFacts
<1>6. Len(CoverageGaps(corpus).covered) = Cardinality(Seen)
  BY CoverageListed, CoveredTerms DEF Lists
<1> HIDE DEF J, K, D, m
<1>7. IsFiniteSet(J) /\ IsFiniteSet(K)
  BY <1>1, <1>2, FS_Subset
<1>8. Cardinality(Seen) = Cardinality(K)
  BY <1>4, <1>5, <1>7, SameSize
<1>9. Cardinality(J) \in Nat /\ Cardinality(K) \in Nat /\ Cardinality(D) = Cardinality(J) + Cardinality(K)
  <2>1. Cardinality(J \cup K) = Cardinality(J) + Cardinality(K) - Cardinality(J \cap K)
    BY <1>7, FS_Union
  <2>2. Cardinality(J \cap K) = 0
    BY <1>2, FS_EmptySet
  <2>3. Cardinality(J) \in Nat /\ Cardinality(K) \in Nat
    BY <1>7, FS_CardinalityType
  <2> QED BY <1>2, <2>1, <2>2, <2>3
<1> QED BY <1>1, <1>3, <1>6, <1>8, <1>9

\* The news of a holding are listed, the best first.
LEMMA BestListed ==
    ASSUME CorpusInv, report = "gaps", NEW y
    PROVE  /\ Lists(Best(corpus, y), News(corpus, y),
                    {p \in News(corpus, y) \X News(corpus, y) :
                        p[1].score > p[2].score \/ (p[1].score = p[2].score /\ p[1].nth > p[2].nth)})
           /\ Cardinality(News(corpus, y)) \in Nat
           /\ \A s \in News(corpus, y) : s.score \in Int
<1> DEFINE S == News(corpus, y)
           R == {p \in S \X S : p[1].score > p[2].score \/ (p[1].score = p[2].score /\ p[1].nth > p[2].nth)}
           before == [x \in S |-> {z \in S : z.score > x.score \/ (z.score = x.score /\ z.nth > x.nth)}]
           rank == [x \in S |-> Cardinality({z \in S : z.score > x.score \/ (z.score = x.score /\ z.nth > x.nth)}) + 1]
           s == Best(corpus, y)
<1>1. s = [n \in 1 .. Cardinality(S) |-> CHOOSE x \in S : rank[x] = n]
  <2>1. s = [n \in 1 .. Cardinality(S) |-> CHOOSE x \in S :
                Cardinality({z \in S : z.score > x.score \/ (z.score = x.score /\ z.nth > x.nth)}) + 1 = n]
    BY DEF Best, InOrder
  <2>2. \A n : (CHOOSE x \in S : Cardinality({z \in S : z.score > x.score \/ (z.score = x.score /\ z.nth > x.nth)}) + 1 = n)
               = (CHOOSE x \in S : rank[x] = n)
    OBVIOUS
  <2> QED BY <2>1, <2>2
<1>2. /\ S \in SUBSET Filled(corpus)
      /\ \A x \in S : x.score \in Int /\ x.nth \in Int
      /\ \A x, z \in S : x.nth = z.nth => x = z
  <2>1. S \in SUBSET Filled(corpus)
    BY DEF News
  <2>2. \A x \in Shape[report] : /\ {x.at, x.score, x.nth} \subseteq Int
                                 /\ \A t \in Shape[report] : x.nth = t.nth => x = t
    BY AuditsAssumption DEF CorpusInv
  <2> HIDE DEF S
  <2> QED BY <2>1, <2>2, CorpusFinite
<1>3. IsFiniteSet(S) /\ Cardinality(S) \in Nat
  <2> HIDE DEF S
  <2>1. IsFiniteSet(S)
    BY <1>2, CorpusFinite, FS_Subset
  <2> QED BY <2>1, FS_CardinalityType
<1> HIDE DEF S, s
<1>4. Orders(R, S)
  BY <1>2 DEF Orders
<1>5. Ranks(rank, before, R, S)
  BY DEF Ranks
<1> HIDE DEF R, rank, before
<1>6. Lists(s, S, R)
  BY <1>1, <1>3, <1>4, <1>5, Listed
<1> QED BY <1>2, <1>3, <1>6 DEF s, S, R

\* What CoverageAgrees says of one holding.
Held(y) ==
    LET e == Enrich(corpus, y)
    IN  /\ (e.count > 0) = (e.coverage # {})
        /\ \A x \in e.coverage : x.count = e.count
        /\ \A s \in Range(e.top) : s.score <= Head(e.top).score

\* The two loops find the same news.
LEMMA HoldingsAgree ==
    ASSUME CorpusInv, report = "gaps", NEW y \in Range(Watch)
    PROVE  Held(y)
<1> DEFINE e == Enrich(corpus, y)
           N == News(corpus, y)
           best == Best(corpus, y)
<1>1. /\ e.count = Tally(corpus, N)
      /\ e.coverage = {x \in Range(CoverageGaps(corpus).covered) : Lower[x.term] = Lower[y]}
      /\ e.top = SubSeq(best, 1, Min({3, Len(best)}))
  BY DEF Enrich
<1>2. PICK n \in DOMAIN Terms : Lower[Terms[n]] = Lower[y]
  BY TermsFacts
<1> DEFINE u == Terms[n]
<1>3. Mentioning(corpus, u) = N /\ u \in Range(Terms) /\ Lower[u] = Lower[y]
  BY <1>2 DEF Mentioning, News, Says, Range
<1>4. \A t \in Range(Terms) : Lower[t] = Lower[y] => t = u
  BY <1>2, TermsFacts DEF Range
<1> HIDE DEF u
<1>5. Range(CoverageGaps(corpus).covered) = Coverage
  BY CoverageListed DEF Lists
<1>6. \A x \in e.coverage : x.term = u /\ x = Covered(corpus, u) /\ u \in Seen
  <2> HIDE DEF e
  <2>1. \A x \in e.coverage : x \in Coverage /\ Lower[x.term] = Lower[y]
    BY <1>1, <1>5
  <2>2. \A x \in Coverage : x.term \in Seen /\ x = Covered(corpus, x.term)
    BY CoveredTerms
  <2>3. \A t \in Seen : t \in Range(Terms)
    BY DEF Seen
  <2> QED BY <1>4, <2>1, <2>2, <2>3
<1>7. u \in Seen => Covered(corpus, u) \in e.coverage
  <2>1. u \in Seen => Covered(corpus, u) \in Coverage
    BY DEF Coverage
  <2>2. Covered(corpus, u).term = u
    BY DEF Covered
  <2> HIDE DEF e
  <2> QED BY <1>1, <1>3, <1>5, <2>1, <2>2
<1>8. u \in Seen <=> N # {}
  BY <1>3 DEF Seen
<1>9. Covered(corpus, u).count = Tally(corpus, N)
  BY <1>3 DEF Covered
<1>10. N \in SUBSET Filled(corpus)
  BY DEF News
<1>11. Tally(corpus, N) \in Nat /\ (Tally(corpus, N) = 0 <=> N = {})
  <2> HIDE DEF N
  <2> QED BY <1>10, TallyFacts
<1> HIDE DEF e, N
<1>12. (e.count > 0) = (e.coverage # {})
  <2>1. e.count > 0 <=> N # {}
    BY <1>1, <1>11
  <2>2. e.coverage # {} <=> N # {}
    BY <1>6, <1>7, <1>8
  <2> QED BY <2>1, <2>2
<1>13. \A x \in e.coverage : x.count = e.count
  BY <1>1, <1>6, <1>9
<1>14. \A s \in Range(e.top) : s.score <= Head(e.top).score
  <2> DEFINE k == Len(best)
             m == Min({3, k})
             R == {p \in N \X N : p[1].score > p[2].score \/ (p[1].score = p[2].score /\ p[1].nth > p[2].nth)}
  <2>1. /\ Lists(best, N, R) /\ Cardinality(N) \in Nat /\ \A s \in N : s.score \in Int
    BY BestListed DEF N
  <2>2. /\ k \in Nat /\ DOMAIN best = 1..k /\ \A i \in 1..k : best[i] \in N
        /\ \A i, j \in 1..k : i < j => best[i].score >= best[j].score
    <3> HIDE DEF best, k
    <3>1. k = Len(best)
      BY DEF k
    <3>2. k \in Nat /\ DOMAIN best = 1..k /\ \A i \in 1..k : best[i] \in N
      BY <2>1, <3>1 DEF Lists, Range
    <3>3. \A i, j \in 1..k : i < j => <<best[i], best[j]>> \in R
      BY <2>1, <3>2 DEF Lists
    <3>4. \A i, j \in 1..k : i < j => best[i].score >= best[j].score
      <4> SUFFICES ASSUME NEW i \in 1..k, NEW j \in 1..k, i < j
                   PROVE  best[i].score >= best[j].score
        OBVIOUS
      <4>1. <<best[i], best[j]>> \in R
        BY <3>3
      <4>2. \/ best[i].score > best[j].score
            \/ best[i].score = best[j].score
        BY <4>1
      <4>3. best[i].score \in Int /\ best[j].score \in Int
        BY <2>1, <3>2
      <4> HIDE DEF R
      <4> QED BY <4>2, <4>3
    <3> QED BY <3>2, <3>4
  <2> HIDE DEF best, k
  <2>3. m \in Int /\ m <= k /\ m \in {3, k}
    <3>1. 3 \in Int /\ k \in Int
      BY <2>2
    <3>2. m \in {3, k} /\ m <= k
      <4> HIDE DEF k
      <4> QED BY <3>1, OfTwo
    <3> QED BY <3>1, <3>2
  <2> HIDE DEF m
  <2>4. e.top = SubSeq(best, 1, m)
    BY <1>1 DEF m, k
  <2>5. CASE k = 0
    <3>1. m < 1
      BY <2>3, <2>5
    <3>2. SubSeq(best, 1, m) = << >>
      BY <2>3, <3>1, SubSeqEmpty
    <3>3. DOMAIN << >> = {}
      OBVIOUS
    <3>4. Range(e.top) = {}
      BY <2>4, <3>2, <3>3 DEF Range
    <3> QED BY <3>4
  <2>6. CASE k # 0
    <3>1. m \in 1..k
      BY <2>2, <2>3, <2>6
    <3>2. \A i \in 1..m : best[i] \in N
      BY <2>2, <3>1
    <3>3. /\ SubSeq(best, 1, m) \in Seq(N) /\ Len(SubSeq(best, 1, m)) = m
          /\ \A i \in 1..m : SubSeq(best, 1, m)[i] = best[i]
      <4>1. /\ SubSeq(best, 1, m) \in Seq(N) /\ Len(SubSeq(best, 1, m)) = IF 1 <= m THEN m - 1 + 1 ELSE 0
            /\ \A i \in 1 .. m - 1 + 1 : SubSeq(best, 1, m)[i] = best[1 + i - 1]
        BY <2>3, <3>2, SubSeqProperties
      <4> QED BY <3>1, <4>1
    <3> DEFINE t == SubSeq(best, 1, m)
    <3>4. DOMAIN t = 1..m /\ Head(t) = best[1]
      BY <3>1, <3>3
    <3>5. \A i \in 1..m : t[i].score <= best[1].score
      <4>1. \A i \in 1..k : best[i].score <= best[1].score
        <5> SUFFICES ASSUME NEW i \in 1..k PROVE best[i].score <= best[1].score
          OBVIOUS
        <5>1. best[i].score \in Int
          BY <2>1, <2>2
        <5>2. i = 1 \/ 1 < i
          BY <2>2
        <5>3. 1 \in 1..k
          BY <2>2, <2>6
        <5>4. CASE i = 1
          BY <5>1, <5>4
        <5>5. CASE 1 < i
          BY <2>2, <5>3, <5>5
        <5> QED BY <5>2, <5>4, <5>5
      <4> SUFFICES ASSUME NEW i \in 1..m PROVE t[i].score <= best[1].score
        OBVIOUS
      <4>2. i \in 1..k
        BY <2>2, <3>1
      <4>3. t[i] = best[i]
        BY <3>3
      <4> HIDE DEF t
      <4> QED BY <4>1, <4>2, <4>3
    <3> HIDE DEF t
    <3>6. \A s \in Range(t) : s.score <= Head(t).score
      BY <3>4, <3>5 DEF Range
    <3> QED BY <2>4, <3>6 DEF t
  <2> QED BY <2>5, <2>6
<1> QED BY <1>12, <1>13, <1>14 DEF Held, e

\* A term is covered or a gap, and a holding agrees with its term.
LEMMA CoverageBalances == CorpusInv => CoverageAgrees
<1> SUFFICES ASSUME CorpusInv, report = "gaps"
             PROVE  CoverageAgrees
  BY DEF CoverageAgrees
<1> DEFINE g == CoverageGaps(corpus)
<1>1. \A n \in DOMAIN g.covered : \A k \in 1 .. n - 1 : g.covered[k].age <= g.covered[n].age
  <2> DEFINE s == g.covered
  <2> SUFFICES ASSUME NEW n \in DOMAIN s, NEW k \in 1 .. n - 1
               PROVE  s[k].age <= s[n].age
    OBVIOUS
  <2>1. Lists(s, Coverage, {p \in Coverage \X Coverage : Fresher(p[1], p[2])})
    BY CoverageListed
  <2>2. IsFiniteSet(Coverage) /\ Cardinality(Coverage) \in Nat /\ \A x \in Coverage : x.age \in Int
    BY CoveredTerms, FS_CardinalityType
  <2> HIDE DEF g, s
  <2>3. DOMAIN s = 1 .. Cardinality(Coverage)
    BY <2>1 DEF Lists
  <2>4. k \in DOMAIN s /\ k < n
    BY <2>2, <2>3
  <2>5. <<s[k], s[n]>> \in {p \in Coverage \X Coverage : Fresher(p[1], p[2])}
    BY <2>1, <2>4 DEF Lists
  <2>6. s[k] \in Coverage /\ s[n] \in Coverage /\ Fresher(s[k], s[n])
    BY <2>5
  <2> QED BY <2>2, <2>6 DEF Fresher
<1>2. \A y \in Range(Watch) : Held(y)
  BY HoldingsAgree
<1> QED BY <1>1, <1>2, TermsShared DEF CoverageAgrees, Held

-----------------------------------------------------------------------------
(* All of them. *)

\* The books of the reports balance for every bag of rows: nothing that two
\* counts of the same rows say of each other goes wrong, whatever the rows are
\* (spillover.py, news_velocity.py, intensity.py, sentiment_dispersion.py,
\* co_occurrence.py, symbol_correlation.py, source_reliability.py,
\* persistence.py, arrival_heatmap.py, market_reaction.py).
THEOREM BooksCorrect == Spec => []BooksBalance
<1>1. CorpusInv => BooksBalance
  BY SpilloverBalances, VelocityBalances, ScopesBalance, TablesBalance, ExcessStands, OppositesMeet
     DEF BooksBalance
<1> QED BY <1>1, CorpusCorrect, PTL

\* What an audit says of its rows is so, whatever they are: every watched term
\* is covered or a gap and a holding's coverage is its news (awareness_gaps.py,
\* portfolio.py), every item of a golden set is in one cell (golden.py), and
\* the bins of a calibration tile what was scored (backtest.py).
THEOREM AuditsCorrect == Spec => []AuditsAgree
<1>1. CorpusInv => AuditsAgree
  BY CoverageBalances, GoldenBalances, CalibrationBalances DEF AuditsAgree
<1> QED BY <1>1, CorpusCorrect, PTL

=============================================================================
