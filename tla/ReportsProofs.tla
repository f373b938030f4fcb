---------------------------- MODULE ReportsProofs ----------------------------
(***************************************************************************)
(* What two parts of the code say of one thing is the same, for every bag  *)
(* of rows: the stages of the pipeline (service.py), the panels of the     *)
(* HTTP API and the pages of its tables (api.py, storage.py), readiness    *)
(* and feed packs (feed_pack.py).  And a row that arrives late changes     *)
(* nothing that is said of the buckets before it (anomaly.py,              *)
(* topic_regime.py, spillover.py).                                         *)
(***************************************************************************)
EXTENDS SignalsProofs

-----------------------------------------------------------------------------
(* One row more. *)

\* d is the bag c with more of one row.
Grows(c, d, s) ==
    /\ c \in [Shape[report] -> Nat] /\ d \in [Shape[report] -> Nat]
    /\ s \in Shape[report] /\ IsFiniteSet(Shape[report])
    /\ c[s] < d[s] /\ \A t \in Shape[report] \ {s} : d[t] = c[t]

\* A step that adds a row adds no other.
LEMMA RowIsStored ==
    ASSUME CorpusInv, [Next]_vars, NEW s \in DOMAIN corpus, corpus'[s] > corpus[s]
    PROVE  Grows(corpus, corpus', s) /\ report' = report
<1>1. corpus \in [Shape[report] -> Nat] /\ DOMAIN corpus = Shape[report] /\ IsFiniteSet(Shape[report])
  BY CorpusAssumption DEF CorpusInv
<1>2. PICK r \in DOMAIN corpus : Capture(r)
  <2>1. corpus[s] \in Nat
    BY <1>1
  <2>2. ~ UNCHANGED vars
    BY <2>1 DEF vars
  <2> QED BY <2>2 DEF Next
<1>3. corpus' = [corpus EXCEPT ![r] = @ + 1] /\ report' = report
  BY <1>2 DEF Capture
<1>4. r = s
  BY <1>1, <1>3
<1> QED BY <1>1, <1>3, <1>4 DEF Grows

\* What is counted of other rows is as before.
LEMMA OthersCount ==
    ASSUME NEW c, NEW d, NEW s, Grows(c, d, s), NEW S \in SUBSET (Shape[report] \ {s})
    PROVE  Tally(d, S) = Tally(c, S)
<1>1. IsFiniteSet(S)
  BY FS_Subset DEF Grows
<1>2. \A t \in S : d[t] \in Int /\ d[t] = c[t]
  BY DEF Grows
<1>3. SumOver(d, S) = SumOver(c, S)
  BY <1>1, <1>2, SumSame
<1> QED BY <1>3, TallyIsSum

-----------------------------------------------------------------------------
(* Points without a date (global_tone.py). *)

\* Rows that are as many as before are unfolded as before.
LEMMA UnfoldedAlike ==
    ASSUME NEW c, NEW d, NEW s, Grows(c, d, s), NEW S \in SUBSET (Shape[report] \ {s})
    PROVE  Unfold(d, S, ByDate) = Unfold(c, S, ByDate) /\ Unfold(d, S, ByPlace) = Unfold(c, S, ByPlace)
<1>1. \A T \in SUBSET S : Tally(d, T) = Tally(c, T)
  BY OthersCount
<1>2. \A p \in S : d[p] = c[p]
  BY DEF Grows
<1>3. Tally(d, S) = Tally(c, S)
  BY <1>1
<1>4. Unfold(d, S, ByDate) = Unfold(c, S, ByDate)
  <2>1. \A p \in S : Tally(d, {q \in S : ByDate(q, p)}) = Tally(c, {q \in S : ByDate(q, p)})
    BY <1>1
  <2> DEFINE A(n) == CHOOSE p \in S : n - Tally(c, {q \in S : ByDate(q, p)}) \in 1 .. c[p]
             B(n) == CHOOSE p \in S : n - Tally(d, {q \in S : ByDate(q, p)}) \in 1 .. d[p]
  <2>2. \A n : A(n) = B(n)
    BY <1>2, <2>1
  <2>3. Unfold(d, S, ByDate) = [n \in 1 .. Tally(d, S) |-> B(n).value]
    BY DEF Unfold
  <2>4. Unfold(c, S, ByDate) = [n \in 1 .. Tally(c, S) |-> A(n).value]
    BY DEF Unfold
  <2> HIDE DEF A, B
  <2> QED BY <1>3, <2>2, <2>3, <2>4
<1>5. Unfold(d, S, ByPlace) = Unfold(c, S, ByPlace)
  <2>1. \A p \in S : Tally(d, {q \in S : ByPlace(q, p)}) = Tally(c, {q \in S : ByPlace(q, p)})
    BY <1>1
  <2> DEFINE A(n) == CHOOSE p \in S : n - Tally(c, {q \in S : ByPlace(q, p)}) \in 1 .. c[p]
             B(n) == CHOOSE p \in S : n - Tally(d, {q \in S : ByPlace(q, p)}) \in 1 .. d[p]
  <2>2. \A n : A(n) = B(n)
    BY <1>2, <2>1
  <2>3. Unfold(d, S, ByPlace) = [n \in 1 .. Tally(d, S) |-> B(n).value]
    BY DEF Unfold
  <2>4. Unfold(c, S, ByPlace) = [n \in 1 .. Tally(c, S) |-> A(n).value]
    BY DEF Unfold
  <2> HIDE DEF A, B
  <2> QED BY <1>3, <2>2, <2>3, <2>4
<1> QED BY <1>4, <1>5

\* The order of every theme is as it was: that of its dated points.
LEMMA OrderStays ==
    ASSUME NEW c, NEW d, NEW p, Grows(c, d, p), Undated(p), Dated(c, p.theme) # {}, NEW th
    PROVE  Ordered(d, th) = Ordered(c, th)
<1>1. \A q \in Shape[report] \ {p} : q \in Filled(d) <=> q \in Filled(c)
  BY DEF Grows, Filled
<1>2. Filled(c) \subseteq Shape[report] /\ Filled(d) \subseteq Shape[report]
  BY DEF Grows, Filled
<1>3. Dated(d, th) = Dated(c, th) /\ Dated(c, th) \in SUBSET (Shape[report] \ {p})
  BY <1>1, <1>2 DEF Dated, ThemePoints
<1>4. CASE Dated(c, th) # {}
  <2>1. Unfold(d, Dated(c, th), ByDate) = Unfold(c, Dated(c, th), ByDate)
    BY <1>3, UnfoldedAlike
  <2>2. Ordered(d, th) = Unfold(d, Dated(c, th), ByDate) /\ Ordered(c, th) = Unfold(c, Dated(c, th), ByDate)
    BY <1>3, <1>4 DEF Ordered, InTime
  <2> QED BY <2>1, <2>2
<1>5. CASE Dated(c, th) = {}
  <2>1. th # p.theme
    BY <1>5
  <2>2. ThemePoints(d, th) = ThemePoints(c, th) /\ ThemePoints(c, th) \in SUBSET (Shape[report] \ {p})
    BY <1>1, <1>2, <2>1 DEF ThemePoints
  <2>3. Unfold(d, ThemePoints(c, th), ByPlace) = Unfold(c, ThemePoints(c, th), ByPlace)
    BY <2>2, UnfoldedAlike
  <2>4. Ordered(d, th) = Unfold(d, ThemePoints(c, th), ByPlace) /\ Ordered(c, th) = Unfold(c, ThemePoints(c, th), ByPlace)
    BY <1>3, <1>5, <2>2 DEF Ordered
  <2> QED BY <2>3, <2>4
<1> QED BY <1>4, <1>5

\* What a theme is, and all of them together, after one point without a date.
LEMMA UndatedChangesNothing ==
    ASSUME NEW c, NEW d, NEW p, Grows(c, d, p), report = "tone", report \in DOMAIN Shape,
           Undated(p), Dated(c, p.theme) # {}
    PROVE  LET before == Summary(c, p.theme)
               after == Summary(d, p.theme)
           IN  /\ after.latest = before.latest /\ after.trend = before.trend
               /\ after.state = before.state /\ after.slope = before.slope
               /\ after.min <= before.min /\ after.max >= before.max
               /\ OverallState(d) = OverallState(c)
<1> DEFINE th == p.theme
           V(b) == {q.value : q \in ThemePoints(b, th)}
<1>1. \A t : Ordered(d, t) = Ordered(c, t)
  BY OrderStays
<1>2. /\ Summary(d, th).latest = Summary(c, th).latest /\ Summary(d, th).trend = Summary(c, th).trend
      /\ Summary(d, th).state = Summary(c, th).state /\ Summary(d, th).slope = Summary(c, th).slope
  BY <1>1 DEF Summary
<1>3. /\ Filled(c) \subseteq Filled(d) /\ Filled(d) = Filled(c) \cup {p}
      /\ IsFiniteSet(Filled(d)) /\ Filled(d) \subseteq Shape[report]
  <2>1. Filled(c) \subseteq Filled(d) /\ Filled(d) = Filled(c) \cup {p} /\ Filled(d) \in SUBSET Shape[report]
    BY DEF Grows, Filled
  <2>2. IsFiniteSet(Filled(d))
    BY <2>1, FS_Subset DEF Grows
  <2> QED BY <2>1, <2>2
<1>4. ThemePoints(c, th) # {} /\ ThemePoints(c, th) \subseteq ThemePoints(d, th)
  BY <1>3 DEF Dated, ThemePoints
<1>5. \A q \in Shape[report] : q.value \in Int
  BY SentimentAssumption
<1>6. V(c) # {} /\ V(c) \subseteq V(d) /\ V(c) \in SUBSET Int /\ V(d) \in SUBSET Int
  BY <1>3, <1>4, <1>5 DEF ThemePoints
<1>7. IsFiniteSet(V(d)) /\ IsFiniteSet(V(c))
  <2> DEFINE v == [q \in Filled(d) |-> q.value]
  <2>1. IsFiniteSet({v[q] : q \in Filled(d)})
    BY <1>3, ImageIsFinite
  <2>2. V(d) \subseteq {v[q] : q \in Filled(d)} /\ V(c) \subseteq {v[q] : q \in Filled(d)}
    BY <1>3 DEF ThemePoints
  <2> QED BY <2>1, <2>2, FS_Subset
<1>8. Min(V(d)) <= Min(V(c)) /\ Max(V(d)) >= Max(V(c))
  <2> HIDE DEF V
  <2>1. Min(V(c)) \in V(c) /\ Max(V(c)) \in V(c)
    BY <1>6, <1>7, Extremes
  <2>2. V(d) # {}
    BY <1>6
  <2>3. Max(V(d)) \in Int /\ Min(V(d)) \in Int /\ \A x \in V(d) : x <= Max(V(d)) /\ Min(V(d)) <= x
    BY <1>6, <1>7, <2>2, Extremes
  <2> QED BY <1>6, <2>1, <2>3
<1>9. /\ Summary(c, th).min = Min(V(c)) /\ Summary(d, th).min = Min(V(d))
      /\ Summary(c, th).max = Max(V(c)) /\ Summary(d, th).max = Max(V(d))
  BY DEF Summary
<1>10. OverallState(d) = OverallState(c)
  <2>1. Themes(d) = Themes(c)
    BY <1>3, <1>4 DEF Themes, ThemePoints
  <2>2. \A t : Summary(d, t).ordered = Summary(c, t).ordered /\ Summary(d, t).trend = Summary(c, t).trend
    BY <1>1 DEF Summary
  <2> QED BY <2>1, <2>2 DEF OverallState
<1> HIDE DEF V
<1> QED BY <1>2, <1>8, <1>9, <1>10

\* A new point without a date leaves what a topic with dated points is said to be, but for its extremes.
LEMMA UndatedKeep == CorpusInv /\ [Next]_vars =>
   \A p \in DOMAIN corpus :
        (report = "tone" /\ corpus'[p] > corpus[p] /\ Undated(p) /\ Dated(corpus, p.theme) # {}) =>
            LET before == Summary(corpus, p.theme)
                after == Summary(corpus', p.theme)
            IN  /\ after.latest = before.latest /\ after.trend = before.trend
                /\ after.state = before.state /\ after.slope = before.slope
                /\ after.min <= before.min /\ after.max >= before.max
                /\ OverallState(corpus') = OverallState(corpus)
<1> SUFFICES ASSUME CorpusInv, [Next]_vars, NEW p \in DOMAIN corpus,
                    report = "tone" /\ corpus'[p] > corpus[p] /\ Undated(p) /\ Dated(corpus, p.theme) # {}
             PROVE  LET before == Summary(corpus, p.theme)
                        after == Summary(corpus', p.theme)
                    IN  /\ after.latest = before.latest /\ after.trend = before.trend
                        /\ after.state = before.state /\ after.slope = before.slope
                        /\ after.min <= before.min /\ after.max >= before.max
                        /\ OverallState(corpus') = OverallState(corpus)
  OBVIOUS
<1>1. Grows(corpus, corpus', p)
  BY RowIsStored
<1>2. report \in DOMAIN Shape
  BY DEF CorpusInv
<1> QED BY <1>1, <1>2, UndatedChangesNothing

\* A point without a date has no place in the order of its theme.
LEMMA UndatedKeeps == Spec => UndatedHasNoPlace
<1> QED BY UndatedKeep, CorpusCorrect, PTL DEF Spec, UndatedHasNoPlace

-----------------------------------------------------------------------------
(* The stages of the pipeline (service.py and what it calls). *)

\* A bag of the sentences of one capture.
Sentences(c) == report \in DOMAIN Shape /\ report \in Pipelines /\ c \in [Shape[report] -> Nat]

\* The sentences of a capture, and what is in them, are finite; words are known.
LEMMA SentenceFacts ==
    ASSUME NEW c, Sentences(c)
    PROVE  /\ Filled(c) \in SUBSET Shape[report] /\ IsFiniteSet(Filled(c))
           /\ \A s \in Filled(c) : c[s] \in Nat \ {0} /\ s.title \in BOOLEAN
           /\ \A s \in Filled(c) : s.words \in SUBSET DOMAIN Lexicon /\ IsFiniteSet(s.words)
           /\ \A s \in Filled(c) : ~s.title => s.at \in Int
           /\ \A s, t \in Filled(c) : ~s.title /\ ~t.title /\ s.at = t.at => s = t
<1>1. Filled(c) \in SUBSET Shape[report] /\ \A s \in Filled(c) : c[s] \in Nat \ {0}
  BY DEF Sentences, Filled
<1>2. IsFiniteSet(Filled(c))
  <2>1. IsFiniteSet(Shape[report])
    BY CorpusAssumption DEF Sentences
  <2> QED BY <1>1, <2>1, FS_Subset
<1>3. report \in DOMAIN Shape \cap Pipelines
  BY DEF Sentences
<1>4. \A s \in Shape[report] :
        /\ s.title \in BOOLEAN /\ s.words \in SUBSET DOMAIN Lexicon /\ IsFiniteSet(s.words)
        /\ ~s.title => s.at \in Int
        /\ \A t \in Shape[report] : ~s.title /\ ~t.title /\ s.at = t.at => s = t
  BY <1>3, PipelineAssumption
<1> QED BY <1>1, <1>2, <1>4

\* The words of finitely many sentences are finitely many.
LEMMA WordsAreFinite ==
    ASSUME NEW S, IsFiniteSet(S), \A s \in S : s.words \in SUBSET DOMAIN Lexicon /\ IsFiniteSet(s.words)
    PROVE  IsFiniteSet(Words(S)) /\ Words(S) \in SUBSET DOMAIN Lexicon
<1> DEFINE f == [s \in S |-> s.words]
<1>1. IsFiniteSet({f[s] : s \in S})
  BY ImageIsFinite
<1>2. \A x \in {f[s] : s \in S} : IsFiniteSet(x)
  OBVIOUS
<1>3. IsFiniteSet(UNION {f[s] : s \in S})
  <2> HIDE DEF f
  <2> QED BY <1>1, <1>2, FS_UNION
<1> QED BY <1>3 DEF Words

\* The sentences of the cleaned body are those without a footer.
LEMMA CleanedFacts ==
    ASSUME NEW c, Sentences(c)
    PROVE  /\ Cleaned(c) \in Seq({s \in Body(c) : Those(s.words, "footer") = {}})
           /\ Range(Cleaned(c)) = {s \in Body(c) : Those(s.words, "footer") = {}}
<1> DEFINE S == {s \in Body(c) : Those(s.words, "footer") = {}}
           R == {p \in S \X S : p[1].at < p[2].at}
           before == [x \in S |-> {y \in S : y.at < x.at}]
           rank == [x \in S |-> Cardinality({y \in S : y.at < x.at}) + 1]
<1>1. S \in SUBSET Filled(c) /\ \A s \in S : ~s.title
  BY DEF Body
<1>2. \A s \in S : s.at \in Int /\ \A t \in S : s.at = t.at => s = t
  BY <1>1, SentenceFacts
<1>3. IsFiniteSet(S)
  BY <1>1, SentenceFacts, FS_Subset
<1>4. Orders(R, S)
  <2> HIDE DEF S
  <2> QED BY <1>2 DEF Orders
<1>5. Ranks(rank, before, R, S)
  <2> HIDE DEF S
  <2> QED BY DEF Ranks
<1>6. Cleaned(c) = [n \in 1 .. Cardinality(S) |-> CHOOSE x \in S : rank[x] = n]
  <2>1. Cleaned(c) = [n \in 1 .. Cardinality(S) |-> CHOOSE x \in S : Cardinality({y \in S : y.at < x.at}) + 1 = n]
    BY DEF Cleaned, InOrder
  <2> HIDE DEF S
  <2>2. \A n : (CHOOSE x \in S : Cardinality({y \in S : y.at < x.at}) + 1 = n) = (CHOOSE x \in S : rank[x] = n)
    OBVIOUS
  <2> HIDE DEF rank
  <2> QED BY <2>1, <2>2
<1> HIDE DEF S, R, before, rank
<1>7. Lists(Cleaned(c), S, R)
  BY <1>3, <1>4, <1>5, <1>6, Listed
<1>8. Cleaned(c) \in Seq(S)
  <2>1. Cardinality(S) \in Nat
    BY <1>3, FS_CardinalityType
  <2>2. Cleaned(c) \in [1 .. Cardinality(S) -> S]
    BY <1>6, <1>7 DEF Lists, Range
  <2> QED BY <2>1, <2>2
<1> QED BY <1>7, <1>8 DEF Lists, S

\* The clean words are words of the lexicon.
LEMMA CleanWordsFacts ==
    ASSUME NEW c, Sentences(c)
    PROVE  CleanWords(c) \in SUBSET DOMAIN Lexicon /\ CleanWords(c) \in SUBSET Words(Filled(c))
<1>1. Range(Cleaned(c)) \in SUBSET Filled(c) /\ Title(c) \in SUBSET Filled(c)
  BY CleanedFacts DEF Body, Title
<1> QED BY <1>1, SentenceFacts DEF CleanWords, Words

\* Some of a sequence is a sequence of the same things.
LEMMA KeptOfSequence ==
    ASSUME NEW S, NEW s \in Seq(S)
    PROVE  /\ Range(s) \in SUBSET S
           /\ \A n \in Nat : Within(s, n) \in Seq(S)
           /\ \A I \in SUBSET DOMAIN s : At(s, I) \in Seq(S)
<1>1. Len(s) \in Nat /\ DOMAIN s = 1 .. Len(s) /\ \A i \in 1 .. Len(s) : s[i] \in S
  OBVIOUS
<1>2. Range(s) \in SUBSET S
  BY <1>1 DEF Range
<1>3. ASSUME NEW n \in Nat
      PROVE  Within(s, n) \in Seq(S)
  <2> DEFINE m == IF Len(s) < n THEN Len(s) ELSE n
  <2>1. m \in Nat /\ m <= Len(s)
    BY <1>1
  <2>2. Within(s, n) = SubSeq(s, 1, m)
    BY DEF Within
  <2> HIDE DEF m
  <2>3. \A i \in 1 .. m : s[i] \in S
    BY <1>1, <2>1
  <2>4. SubSeq(s, 1, m) \in Seq(S)
    BY <2>1, <2>3, SubSeqProperties
  <2> QED BY <2>2, <2>4
<1>4. ASSUME NEW I \in SUBSET DOMAIN s
      PROVE  At(s, I) \in Seq(S)
  <2> DEFINE k == Len(s)
             m == Cardinality(I)
  <2>1. k \in Nat /\ DOMAIN s = 1 .. k /\ I \in SUBSET (1 .. k)
    BY <1>1
  <2> HIDE DEF k
  <2>2. /\ DOMAIN At(s, I) = 1 .. m /\ m \in Nat
        /\ \A i \in DOMAIN At(s, I) : \E j \in I : At(s, I)[i] = s[j]
    BY <2>1, Taken
  <2>3. \A i \in 1 .. m : At(s, I)[i] \in S
    BY <1>1, <2>2
  <2>4. At(s, I) = [i \in 1 .. m |-> At(s, I)[i]]
    BY DEF At
  <2> HIDE DEF m
  <2>5. At(s, I) \in [1 .. m -> S]
    BY <2>3, <2>4
  <2> QED BY <2>2, <2>5
<1> QED BY <1>2, <1>3, <1>4

\* A finite set can be written down.
LEMMA WrittenDown ==
    ASSUME NEW S, IsFiniteSet(S)
    PROVE  SetToSeq(S) \in Seq(S)
<1>1. Cardinality(S) \in Nat /\ \E f : f \in [1 .. Cardinality(S) -> S] /\ IsInjective(f)
  <2>1. Cardinality(S) \in Nat /\ ExistsBijection(1 .. Cardinality(S), S)
    BY FS_NatBijection, FS_CountingElements
  <2>2. PICK f \in Bijection(1 .. Cardinality(S), S) : TRUE
    BY <2>1 DEF ExistsBijection
  <2>3. f \in [1 .. Cardinality(S) -> S] /\ \A x, y \in 1 .. Cardinality(S) : f[x] = f[y] => x = y
    BY <2>2 DEF Bijection, Injection, IsInjective
  <2>4. IsInjective(f)
    BY <2>3 DEF IsInjective
  <2> QED BY <2>1, <2>3, <2>4
<1>2. SetToSeq(S) \in [1 .. Cardinality(S) -> S]
  BY <1>1 DEF SetToSeq
<1> QED BY <1>1, <1>2

\* Every symbol the mapper finds is written somewhere and not on the denylist.
LEMMA MappedSymbols ==
    ASSUME NEW c, Sentences(c)
    PROVE  \E S : MapText(c) \in Seq(S) /\ \A y \in S : \E w \in DOMAIN Lexicon : Lexicon[w].symbol = y /\ ~Lexicon[w].denied
<1> DEFINE W == Words(Title(c)) \cup Words(Range(Within(Cleaned(c), SymbolSpan)))
           V == {w \in W : ~Lexicon[w].denied}
           f == [w \in V |-> Lexicon[w].symbol]
           S == {f[w] : w \in V}
           F(ways) == {Lexicon[w].symbol : w \in {v \in W : Lexicon[v].found \in ways /\ ~Lexicon[v].denied}}
<1>1. IsFiniteSet(W) /\ W \in SUBSET DOMAIN Lexicon
  <2>1. SymbolSpan \in Nat
    BY PipelineAssumption
  <2>2. Cleaned(c) \in Seq(Filled(c))
    <3>1. {s \in Body(c) : Those(s.words, "footer") = {}} \in SUBSET Filled(c)
      BY DEF Body
    <3>2. Cleaned(c) \in Seq({s \in Body(c) : Those(s.words, "footer") = {}})
      BY CleanedFacts
    <3> DEFINE B == {s \in Body(c) : Those(s.words, "footer") = {}}
    <3> HIDE DEF B
    <3>3. B \in SUBSET Filled(c) /\ Cleaned(c) \in Seq(B)
      BY <3>1, <3>2 DEF B
    <3> QED BY <3>3
  <2>3. Range(Within(Cleaned(c), SymbolSpan)) \in SUBSET Filled(c)
    <3>1. Within(Cleaned(c), SymbolSpan) \in Seq(Filled(c))
      BY <2>1, <2>2, KeptOfSequence
    <3> QED BY <3>1, KeptOfSequence
  <2>4. Title(c) \in SUBSET Filled(c)
    BY DEF Title
  <2>5. IsFiniteSet(Range(Within(Cleaned(c), SymbolSpan))) /\ IsFiniteSet(Title(c))
    BY <2>3, <2>4, SentenceFacts, FS_Subset
  <2>6. \A s \in Filled(c) : s.words \in SUBSET DOMAIN Lexicon /\ IsFiniteSet(s.words)
    BY SentenceFacts
  <2>7. IsFiniteSet(Words(Title(c))) /\ Words(Title(c)) \in SUBSET DOMAIN Lexicon
    BY <2>4, <2>5, <2>6, WordsAreFinite
  <2> DEFINE T == Range(Within(Cleaned(c), SymbolSpan))
  <2>8. IsFiniteSet(T) /\ \A s \in T : s.words \in SUBSET DOMAIN Lexicon /\ IsFiniteSet(s.words)
    BY <2>3, <2>5, <2>6
  <2> HIDE DEF T
  <2>9. IsFiniteSet(Words(T)) /\ Words(T) \in SUBSET DOMAIN Lexicon
    BY <2>8, WordsAreFinite
  <2> QED BY <2>7, <2>9, FS_Union DEF T
<1> HIDE DEF W
<1>2. IsFiniteSet(S)
  <2>1. IsFiniteSet(V)
    BY <1>1, FS_Subset
  <2> HIDE DEF V, f
  <2> QED BY <2>1, ImageIsFinite
<1>3. \A y \in S : \E w \in DOMAIN Lexicon : Lexicon[w].symbol = y /\ ~Lexicon[w].denied
  BY <1>1
<1>4. \A ways : F(ways) \in SUBSET S
  OBVIOUS
<1> HIDE DEF S, V, f
<1>5. \A T \in SUBSET S : SetToSeq(T) \in Seq(S)
  <2> SUFFICES ASSUME NEW T \in SUBSET S PROVE SetToSeq(T) \in Seq(S)
    OBVIOUS
  <2>1. IsFiniteSet(T)
    BY <1>2, FS_Subset
  <2>2. SetToSeq(T) \in Seq(T)
    BY <2>1, WrittenDown
  <2> QED BY <2>2
<1> DEFINE tagged == F({"cashtag"})
           bracketed == F({"paren", "exchange"}) \ tagged
           named == F({"alias"}) \ (tagged \cup bracketed)
           exact == SetToSeq(tagged) \o SetToSeq(bracketed) \o SetToSeq(named)
           more == exact \o SetToSeq(F({"drift"}) \ Range(exact))
<1>6. MapText(c) = IF Len(exact) < 3 THEN more ELSE exact
  BY DEF MapText, W
<1>7. tagged \in SUBSET S /\ bracketed \in SUBSET S /\ named \in SUBSET S /\ (F({"drift"}) \ Range(exact)) \in SUBSET S
  BY <1>4
<1> HIDE DEF F, tagged, bracketed, named
<1>8. exact \in Seq(S)
  BY <1>5, <1>7
<1>9. more \in Seq(S)
  <2> HIDE DEF exact
  <2> QED BY <1>5, <1>7, <1>8
<1> HIDE DEF exact, more
<1>10. MapText(c) \in Seq(S)
  BY <1>6, <1>8, <1>9
<1> QED BY <1>3, <1>10

\* The symbols the record keeps,
RecordedSymbols(c) == Within(IF Len(MapText(c)) > 1 THEN Rank(Title(c), MapText(c)) ELSE MapText(c), MaxSymbols)

\* of which none is on the denylist either, in whatever order they come.
LEMMA KeptSymbols ==
    ASSUME NEW c, Sentences(c)
    PROVE  \A y \in Range(RecordedSymbols(c)) :
              \E w \in DOMAIN Lexicon : Lexicon[w].symbol = y /\ ~Lexicon[w].denied
<1> DEFINE m == MapText(c)
           title == Title(c)
           s == RecordedSymbols(c)
<1>1. PICK S : m \in Seq(S) /\ \A y \in S : \E w \in DOMAIN Lexicon : Lexicon[w].symbol = y /\ ~Lexicon[w].denied
  BY MappedSymbols
<1> HIDE DEF m
<1>2. Rank(title, m) \in Seq(S)
  <2> DEFINE named == {n \in DOMAIN m : \E w \in Words(title) :
                    Lexicon[w].symbol = m[n] /\ Lexicon[w].found \in {"cashtag", "paren", "exchange"}}
  <2>1. Rank(title, m) = At(m, named) \o At(m, DOMAIN m \ named)
    BY DEF Rank
  <2>2. named \in SUBSET DOMAIN m /\ (DOMAIN m \ named) \in SUBSET DOMAIN m
    OBVIOUS
  <2> HIDE DEF named
  <2>3. At(m, named) \in Seq(S) /\ At(m, DOMAIN m \ named) \in Seq(S)
    BY <1>1, <2>2, KeptOfSequence
  <2> QED BY <2>1, <2>3
<1> DEFINE t == IF Len(m) > 1 THEN Rank(title, m) ELSE m
<1>3. t \in Seq(S)
  BY <1>1, <1>2
<1>4. s = Within(t, MaxSymbols)
  BY DEF m, RecordedSymbols
<1> HIDE DEF t, s
<1>5. Within(t, MaxSymbols) \in Seq(S)
  BY <1>3, KeptOfSequence, PipelineAssumption
<1>6. Range(s) \in SUBSET S
  BY <1>4, <1>5, KeptOfSequence
<1> QED BY <1>1, <1>6 DEF s

\* A word that is there weighs something.
LEMMA WeightCounts ==
    ASSUME NEW c, Sentences(c), NEW w \in Words(Filled(c))
    PROVE  Weight(c, w) \in Nat \ {0}
<1> DEFINE f(S) == [s \in S |-> c[s] * (IF w \in s.words THEN 1 ELSE 0)]
<1>1. ASSUME NEW S \in SUBSET Filled(c)
      PROVE  Occurrences(c, S, w) \in Nat /\ (w \in Words(S) => Occurrences(c, S, w) > 0)
  <2> DEFINE g == f(S)
  <2>1. Occurrences(c, S, w) = SumOver(g, S)
    BY Sums DEF Occurrences, Total
  <2>2. IsFiniteSet(S) /\ \A s \in S : c[s] \in Nat \ {0}
    BY SentenceFacts, FS_Subset
  <2>3. \A s \in S : g[s] \in Nat /\ (w \in s.words => g[s] # 0)
    BY <2>2
  <2> HIDE DEF g
  <2>4. SumOver(g, S) \in Nat
    BY <2>2, <2>3, SumType
  <2>5. SumOver(g, S) = 0 <=> \A s \in S : g[s] = 0
    BY <2>2, <2>3, SumZero
  <2>6. w \in Words(S) => \E s \in S : w \in s.words
    BY DEF Words
  <2> QED BY <2>1, <2>3, <2>4, <2>5, <2>6
<1>2. Title(c) \in SUBSET Filled(c) /\ Body(c) \in SUBSET Filled(c) /\ Filled(c) = Title(c) \cup Body(c)
  BY SentenceFacts DEF Title, Body
<1>3. w \in Words(Title(c)) \/ w \in Words(Body(c))
  BY <1>2 DEF Words
<1> DEFINE a == Occurrences(c, Title(c), w)
           b == Occurrences(c, Body(c), w)
<1>4. a \in Nat /\ b \in Nat /\ (a > 0 \/ b > 0)
  BY <1>1, <1>2, <1>3
<1>5. Weight(c, w) = IF a > 0 THEN 3 * a ELSE b
  BY DEF Weight
<1> HIDE DEF a, b
<1> QED BY <1>4, <1>5

\* The squashed score of any number of hits passes every threshold for labels.
LEMMA SigmoidBounds ==
    ASSUME NEW n \in Nat \ {0}
    PROVE  Sigmoid(n) \in 378 .. 999
<1> DEFINE k == Min({15, n})
           T == <<378, 500, 622, 731, 818, 881, 924, 953, 971, 982, 989, 993, 996, 998, 999>>
<1>1. k \in {15, n} /\ k <= 15
  <2>1. 15 \in Int /\ n \in Int
    OBVIOUS
  <2> QED BY <2>1, OfTwo
<1>2. Sigmoid(n) = T[k]
  BY DEF Sigmoid
<1> HIDE DEF k
<1>3. k \in 1 .. 15
  BY <1>1
<1>4. \A i \in 1 .. 15 : T[i] \in 378 .. 999
  OBVIOUS
<1> QED BY <1>2, <1>3, <1>4

\* The labels of a text are finitely many, and each has a score that passes.
LEMMA LabelsPass ==
    ASSUME NEW c, Sentences(c)
    PROVE  /\ DOMAIN LabelScores(c) = UNION {Lexicon[w].labels : w \in Words(Filled(c))}
           /\ IsFiniteSet(DOMAIN LabelScores(c))
           /\ \A l \in DOMAIN LabelScores(c) : LabelScores(c)[l] \in 378 .. 999
<1> DEFINE W == Words(Filled(c))
           About(l) == {w \in W : l \in Lexicon[w].labels}
           L == UNION {Lexicon[w].labels : w \in W}
           h(l) == [w \in About(l) |-> Lexicon[w].halves * Weight(c, w)]
<1>1. IsFiniteSet(W) /\ W \in SUBSET DOMAIN Lexicon
  BY SentenceFacts, WordsAreFinite
<1>2. \A w \in W : /\ Lexicon[w].halves \in Nat \ {0} /\ IsFiniteSet(Lexicon[w].labels)
                   /\ Weight(c, w) \in Nat \ {0}
  BY <1>1, WeightCounts, PipelineAssumption
<1>3. LabelScores(c) = [l \in L |-> Sigmoid(AddUp(h(l)))]
  BY DEF LabelScores
<1> HIDE DEF W
<1>4. IsFiniteSet(L)
  <2> DEFINE f == [w \in W |-> Lexicon[w].labels]
  <2>1. IsFiniteSet({f[w] : w \in W})
    <3> HIDE DEF f
    <3> QED BY <1>1, ImageIsFinite
  <2>2. \A x \in {f[w] : w \in W} : IsFiniteSet(x)
    BY <1>2
  <2>3. IsFiniteSet(UNION {f[w] : w \in W})
    <3> HIDE DEF f
    <3> QED BY <2>1, <2>2, FS_UNION
  <2> QED BY <2>3
<1>5. ASSUME NEW l \in L
      PROVE  Sigmoid(AddUp(h(l))) \in 378 .. 999
  <2> DEFINE A == About(l)
             g == h(l)
  <2>1. IsFiniteSet(A) /\ A # {} /\ A \in SUBSET W
    BY <1>1, FS_Subset
  <2>2. \A w \in A : g[w] \in Nat \ {0}
    <3> SUFFICES ASSUME NEW w \in A PROVE g[w] \in Nat \ {0}
      OBVIOUS
    <3>1. Lexicon[w].halves \in Nat \ {0} /\ Weight(c, w) \in Nat \ {0}
      BY <1>2
    <3>2. \A x, y \in Nat \ {0} : x * y \in Nat \ {0}
      OBVIOUS
    <3>3. g[w] = Lexicon[w].halves * Weight(c, w)
      OBVIOUS
    <3> QED BY <3>1, <3>2, <3>3
  <2>3. DOMAIN g = A
    OBVIOUS
  <2> HIDE DEF A, g
  <2>4. AddUp(g) = SumOver(g, A)
    BY <2>3, SequenceSum
  <2>5. SumOver(g, A) \in Nat
    BY <2>1, <2>2, SumType
  <2>6. SumOver(g, A) # 0
    BY <2>1, <2>2, SumZero
  <2>7. Sigmoid(AddUp(g)) \in 378 .. 999
    BY <2>4, <2>5, <2>6, SigmoidBounds
  <2> QED BY <2>7 DEF g
<1> HIDE DEF L, h
<1> QED BY <1>3, <1>4, <1>5 DEF L, W

\* A hit that is a share.
IsShare(h) == h.kind = "cashtag" \/ (h.kind = "ticker" /\ h.text \in ShareTicker)

\* The bridge adds one class, and takes none; all of them still pass.
LEMMA BridgeFacts ==
    ASSUME NEW scores, \A l \in DOMAIN scores : scores[l] \in 378 .. 999, NEW hits
    PROVE  /\ DOMAIN Bridge(scores, hits) =
                 DOMAIN scores \cup (IF \E h \in hits : IsShare(h) THEN {"equities"} ELSE {})
           /\ \A l \in DOMAIN Bridge(scores, hits) : Bridge(scores, hits)[l] \in 378 .. 999
<1>1. CASE ~ \E h \in hits : IsShare(h)
  <2>1. Bridge(scores, hits) = scores
    BY <1>1 DEF Bridge, IsShare
  <2> QED BY <1>1, <2>1
<1>2. CASE \E h \in hits : IsShare(h)
  <2> DEFINE best == Max({600} \cup {scores[k] : k \in DOMAIN scores \cap {"equities"}})
             b == [l \in DOMAIN scores \cup {"equities"} |-> IF l = "equities" THEN best ELSE scores[l]]
  <2>1. Bridge(scores, hits) = b
    <3>1. Bridge(scores, hits) =
            [l \in DOMAIN scores \cup {"equities"} |->
                IF l = "equities" THEN Max({600} \cup {scores[k] : k \in DOMAIN scores \cap {l}}) ELSE scores[l]]
      BY <1>2 DEF Bridge, IsShare
    <3> QED BY <3>1
  <2>2. best \in 378 .. 999
    <3>1. CASE "equities" \in DOMAIN scores
      <4>1. {600} \cup {scores[k] : k \in DOMAIN scores \cap {"equities"}} = {600, scores["equities"]}
        BY <3>1
      <4>2. scores["equities"] \in 378 .. 999
        BY <3>1
      <4>3. best = Max({600, scores["equities"]})
        BY <4>1
      <4>4. Max({600, scores["equities"]}) \in {600, scores["equities"]}
        <5>1. 600 \in Int /\ scores["equities"] \in Int
          BY <4>2
        <5>2. \A p, q \in Int : Max({p, q}) \in {p, q}
          BY OfTwo
        <5> DEFINE Larger(p, q) == Max({p, q}) \in {p, q}
        <5>3. \A p, q \in Int : Larger(p, q)
          BY <5>2
        <5> HIDE DEF best, b, Larger
        <5>4. Larger(600, scores["equities"])
          BY <5>1, <5>3
        <5> QED BY <5>4 DEF Larger
      <4> HIDE DEF best
      <4> QED BY <4>2, <4>3, <4>4
    <3>2. CASE "equities" \notin DOMAIN scores
      <4>1. {600} \cup {scores[k] : k \in DOMAIN scores \cap {"equities"}} = {600, 600}
        BY <3>2
      <4>2. best = Max({600, 600})
        BY <4>1
      <4>3. Max({600, 600}) \in {600, 600}
        BY OfTwo
      <4> HIDE DEF best
      <4> QED BY <4>2, <4>3
    <3> QED BY <3>1, <3>2
  <2> HIDE DEF best
  <2>3. DOMAIN b = DOMAIN scores \cup {"equities"} /\ \A l \in DOMAIN b : b[l] \in 378 .. 999
    BY <2>2
  <2> HIDE DEF b
  <2> QED BY <1>2, <2>1, <2>3
<1> QED BY <1>1, <1>2

-----------------------------------------------------------------------------
(* The record. *)

\* The labels a record takes from one group of the taxonomy.
Taken2(c, group) == DOMAIN LabelScores(c) \cap group
AssetsOf(c) == Taken2(c, AssetClass) \cup (IF \E h \in Extract(c) : IsShare(h) THEN {"equities"} ELSE {})
TextsOf(c) == {h.text : h \in Extract(c)}

\* What every part of the record is made from.
LEMMA RecordFacts ==
    ASSUME NEW c, Sentences(c)
    PROVE  LET r == Process(c)
           IN  /\ r.assets = AssetsOf(c) /\ r.reasons = Taken2(c, ReasonCode)
               /\ r.entities = TextsOf(c) /\ r.sentiment = Sentiment(c).label
               /\ r.symbols = RecordedSymbols(c)
               /\ r.channels = Channels(r.assets, r.reasons) /\ r.horizons = Horizons(r.reasons)
               /\ r.evidence = Evidence(Title(c), Cleaned(c), r.assets \cup r.reasons \cup r.entities)
               /\ r.relevant => r.assets # {} \/ \E l \in r.reasons : LabelScores(c)[l] >= 750
<1> DEFINE labels == LabelScores(c)
           hits == Extract(c)
           Of(group) == [l \in DOMAIN labels \cap group |-> labels[l]]
           ac == Bridge(Of(AssetClass), hits)
           rc == Of(ReasonCode)
           tone == IF Sentiment(c).label = "neutral" THEN 0 ELSE Sentiment(c).score
           finance == {h \in hits : h.kind \in FinanceKinds}
           density == Density(Cardinality(finance), WordLen * Length(c, Body(c)))
           v == Verdict(Prefilter(c), ac, rc, Of(NegativeClass), tone, density)
           Top(scores) == Max({0} \cup Range(scores))
           Passed(scores) == {l \in DOMAIN scores : scores[l] >= 250}
<1>1. Process(c) = Record(c, Prefilter(c).keep, v, Sentiment(c), {h.text : h \in hits}, MapText(c))
  BY DEF Process, Scored
<1>2. /\ v.assets = Passed(ac) /\ v.reasons = Passed(rc)
      /\ v.relevant => ~ (Top(ac) = 0 /\ Top(rc) < 750)
  BY DEF Verdict
<1>3. IsFiniteSet(DOMAIN labels) /\ \A l \in DOMAIN labels : labels[l] \in 378 .. 999
  BY LabelsPass
<1> HIDE DEF labels
<1>4. /\ \A group : \A l \in DOMAIN Of(group) : Of(group)[l] \in 378 .. 999
      /\ \A group : DOMAIN Of(group) = DOMAIN labels \cap group
  BY <1>3
<1>5. /\ DOMAIN ac = AssetsOf(c) /\ \A l \in DOMAIN ac : ac[l] \in 378 .. 999
  <2> DEFINE p == Of(AssetClass)
  <2>1. DOMAIN p = DOMAIN labels \cap AssetClass /\ \A l \in DOMAIN p : p[l] \in 378 .. 999
    BY <1>4
  <2> HIDE DEF p, hits, ac
  <2>2. /\ DOMAIN Bridge(p, hits) = DOMAIN p \cup (IF \E h \in hits : IsShare(h) THEN {"equities"} ELSE {})
        /\ \A l \in DOMAIN Bridge(p, hits) : Bridge(p, hits)[l] \in 378 .. 999
    BY <2>1, BridgeFacts
  <2>3. ac = Bridge(p, hits)
    BY DEF ac, p
  <2> QED BY <2>1, <2>2, <2>3 DEF AssetsOf, Taken2, labels, hits
<1>6. DOMAIN rc = Taken2(c, ReasonCode) /\ (\A l \in DOMAIN rc : rc[l] \in 378 .. 999)
      /\ \A l \in DOMAIN rc : rc[l] = LabelScores(c)[l]
  <2>1. DOMAIN rc = Taken2(c, ReasonCode) /\ \A l \in DOMAIN rc : rc[l] = LabelScores(c)[l]
    BY DEF Taken2, labels
  <2> QED BY <1>4, <2>1
<1> HIDE DEF ac, rc, Of, tone, density, hits, finance
<1>7. Passed(ac) = AssetsOf(c) /\ Passed(rc) = Taken2(c, ReasonCode)
  BY <1>5, <1>6
<1>8. v.relevant => AssetsOf(c) # {} \/ \E l \in Taken2(c, ReasonCode) : LabelScores(c)[l] >= 750
  <2> SUFFICES ASSUME v.relevant, AssetsOf(c) = {}
               PROVE  \E l \in Taken2(c, ReasonCode) : LabelScores(c)[l] >= 750
    OBVIOUS
  <2>1. Top(ac) = 0
    <3>1. Range(ac) = {}
      BY <1>5 DEF Range
    <3>2. {0} \cup Range(ac) = {0, 0}
      BY <3>1
    <3>3. Max({0, 0}) \in {0, 0}
      BY OfTwo
    <3> QED BY <3>2, <3>3
  <2>2. ~ (Top(rc) < 750)
    BY <1>2, <2>1
  <2> DEFINE S == {0} \cup Range(rc)
  <2>3. S \in SUBSET Int /\ IsFiniteSet(S) /\ S # {}
    <3>1. Range(rc) = {rc[l] : l \in DOMAIN rc}
      BY DEF Range
    <3>2. IsFiniteSet(DOMAIN rc)
      <4>1. DOMAIN rc \in SUBSET DOMAIN labels
        BY <1>6 DEF Taken2, labels
      <4> QED BY <1>3, <4>1, FS_Subset
    <3>3. IsFiniteSet({rc[l] : l \in DOMAIN rc})
      BY <3>2, ImageIsFinite
    <3>4. IsFiniteSet(S)
      BY <3>1, <3>3, FS_Singleton, FS_Union
    <3> QED BY <1>6, <3>1, <3>4
  <2>4. Top(rc) = Max(S)
    OBVIOUS
  <2> HIDE DEF S, Top
  <2>5. Max(S) \in S
    BY <2>3, Extremes
  <2>6. Max(S) \in Int /\ Max(S) >= 750
    <3>1. Max(S) \in Int
      BY <2>3, <2>5
    <3>2. ~ (Max(S) < 750)
      BY <2>2, <2>4
    <3> QED BY <3>1, <3>2
  <2>7. Max(S) \in Range(rc)
    BY <2>5, <2>6 DEF S
  <2>8. PICK l \in DOMAIN rc : rc[l] = Max(S)
    BY <2>7 DEF Range
  <2> QED BY <1>6, <2>6, <2>8
<1> HIDE DEF v, Top, Passed
<1> DEFINE r == Process(c)
<1>9. /\ r.assets = v.assets /\ r.reasons = v.reasons
      /\ r.entities = TextsOf(c) /\ r.sentiment = Sentiment(c).label
      /\ r.symbols = RecordedSymbols(c)
      /\ r.channels = Channels(v.assets, v.reasons) /\ r.horizons = Horizons(v.reasons)
      /\ r.evidence = Evidence(Title(c), Cleaned(c), v.assets \cup v.reasons \cup TextsOf(c))
  BY <1>1 DEF Record, TextsOf, RecordedSymbols, hits
<1>10. r.relevant => v.relevant
  <2>1. r.relevant = (v.relevant /\ Prefilter(c).keep)
    BY <1>1 DEF Record
  <2> QED BY <2>1
<1>11. r.assets = AssetsOf(c) /\ r.reasons = Taken2(c, ReasonCode)
  BY <1>2, <1>7, <1>9
<1> HIDE DEF r
<1>12. r.relevant => r.assets # {} \/ \E l \in r.reasons : LabelScores(c)[l] >= 750
  BY <1>8, <1>10, <1>11
<1> QED BY <1>9, <1>11, <1>12 DEF r

-----------------------------------------------------------------------------
(* The stages agree (service.py). *)

\* A word that names a share and is not on the denylist is a hit that is one.
LEMMA NamedShare ==
    ASSUME NEW c, NEW w \in CleanWords(c), ~Lexicon[w].denied,
           Lexicon[w].found \in {"cashtag", "paren", "alias"}, Lexicon[w].symbol \in ShareTicker
    PROVE  \E h \in Extract(c) : IsShare(h)
<1> DEFINE x == Lexicon[w]
           H == CASE x.found = "cashtag" -> {Hit(x.symbol, "cashtag")}
                  [] x.found = "paren" /\ ~x.denied -> {Hit(x.symbol, "ticker")}
                  [] x.found = "alias" -> {Hit(w, "company"), Hit(x.symbol, "ticker")}
                  [] OTHER -> {}
<1>1. H \in SUBSET Extract(c)
  <2> DEFINE F(v) ==
          LET z == Lexicon[v]
          IN  {Hit(v, k) : k \in z.kinds}
              \cup (CASE z.found = "cashtag" -> {Hit(z.symbol, "cashtag")}
                    [] z.found = "paren" /\ ~z.denied -> {Hit(z.symbol, "ticker")}
                    [] z.found = "alias" -> {Hit(v, "company"), Hit(z.symbol, "ticker")}
                    [] OTHER -> {})
  <2>1. Extract(c) = UNION {F(v) : v \in CleanWords(c)}
    BY DEF Extract
  <2>2. F(w) = {Hit(w, k) : k \in x.kinds} \cup H
    OBVIOUS
  <2> HIDE DEF F, H
  <2> QED BY <2>1, <2>2
<1>2. \E k \in {"cashtag", "ticker"} : Hit(x.symbol, k) \in H
  <2>1. CASE x.found = "cashtag"
    <3>1. H = {Hit(x.symbol, "cashtag")}
      BY <2>1
    <3> QED BY <3>1
  <2>2. CASE x.found = "paren"
    <3>1. H = {Hit(x.symbol, "ticker")}
      BY <2>2
    <3> QED BY <3>1
  <2>3. CASE x.found = "alias"
    <3>1. H = {Hit(w, "company"), Hit(x.symbol, "ticker")}
      BY <2>3
    <3> QED BY <3>1
  <2> QED BY <2>1, <2>2, <2>3
<1> HIDE DEF H
<1>3. PICK k \in {"cashtag", "ticker"} : Hit(x.symbol, k) \in Extract(c)
  BY <1>1, <1>2
<1>4. IsShare(Hit(x.symbol, k))
  BY <1>3 DEF Hit, IsShare
<1> QED BY <1>3, <1>4

\* Every class has its channel.
LEMMA EveryClassHasAChannel ==
    ASSUME NEW assets \in SUBSET Channelled, NEW reasons
    PROVE  /\ Channels(assets, reasons) = {} <=> assets = {}
           /\ \A a \in assets : \E x \in Channels(assets, reasons) : x[1] = a
<1>1. Channelled \X {"*"} \in SUBSET ChannelRules
  BY DEF ChannelRules
<1>2. ASSUME NEW a \in assets
      PROVE  <<a, "*">> \in Channels(assets, reasons)
  BY <1>1 DEF Channels
<1>3. Channels(assets, reasons) \in SUBSET (assets \X (reasons \cup {"*"}))
  BY DEF Channels
<1>4. \A a \in assets : \E x \in Channels(assets, reasons) : x[1] = a
  <2> SUFFICES ASSUME NEW a \in assets PROVE \E x \in Channels(assets, reasons) : x[1] = a
    OBVIOUS
  <2>1. <<a, "*">> \in Channels(assets, reasons) /\ <<a, "*">>[1] = a
    BY <1>2
  <2> QED BY <2>1
<1> QED BY <1>3, <1>4

\* Every reason has its horizon.
LEMMA EveryReasonHasAHorizon ==
    ASSUME NEW reasons \in SUBSET (ShortTerm \cup OneWeek \cup Structural)
    PROVE  Horizons(reasons) = {} <=> reasons = {}
<1> DEFINE a == IF reasons \cap ShortTerm # {} THEN {"intraday", "one_day"} ELSE {}
           b == IF reasons \cap OneWeek # {} THEN {"one_week"} ELSE {}
           d == IF reasons \cap Structural # {} THEN {"structural"} ELSE {}
<1>1. Horizons(reasons) = a \cup b \cup d
  BY DEF Horizons
<1>2. (a = {} <=> reasons \cap ShortTerm = {}) /\ (b = {} <=> reasons \cap OneWeek = {})
      /\ (d = {} <=> reasons \cap Structural = {})
  OBVIOUS
<1> HIDE DEF a, b, d
<1> QED BY <1>1, <1>2

\* What the stages say of one text agrees.
LEMMA LayersHold ==
    ASSUME CorpusInv, report \in Pipelines
    PROVE  AgreesWith(Process(corpus))
<1>1. Sentences(corpus)
  BY DEF Sentences, CorpusInv
<1> DEFINE r == Process(corpus)
           Ways(y) == {Lexicon[w].found : w \in {v \in CleanWords(corpus) : Lexicon[v].symbol = y}}
<1>2. /\ r.assets = AssetsOf(corpus) /\ r.reasons = Taken2(corpus, ReasonCode)
      /\ r.symbols = RecordedSymbols(corpus)
      /\ r.channels = Channels(r.assets, r.reasons) /\ r.horizons = Horizons(r.reasons)
      /\ r.relevant => r.assets # {} \/ \E l \in r.reasons : LabelScores(corpus)[l] >= 750
  BY <1>1, RecordFacts
<1> HIDE DEF r
<1>3. r.assets \in SUBSET Channelled
  BY <1>2, PipelineAssumption DEF AssetsOf, Taken2, Channelled
<1>4. r.reasons \in SUBSET (ShortTerm \cup OneWeek \cup Structural)
  BY <1>2, PipelineAssumption DEF Taken2
<1>5. /\ r.channels = {} <=> r.assets = {}
      /\ \A a \in r.assets : \E x \in r.channels : x[1] = a
      /\ r.horizons = {} <=> r.reasons = {}
  BY <1>2, <1>3, <1>4, EveryClassHasAChannel, EveryReasonHasAHorizon
<1>6. ASSUME NEW y \in Range(r.symbols), y \in ShareTicker, Ways(y) \cap {"cashtag", "paren", "alias"} # {}
      PROVE  "equities" \in r.assets
  <2>1. PICK w \in DOMAIN Lexicon : Lexicon[w].symbol = y /\ ~Lexicon[w].denied
    BY <1>1, <1>2, KeptSymbols
  <2>2. PICK v \in CleanWords(corpus) : Lexicon[v].symbol = y /\ Lexicon[v].found \in {"cashtag", "paren", "alias"}
    BY <1>6
  <2>3. v \in DOMAIN Lexicon
    BY <1>1, <2>2, CleanWordsFacts
  <2>4. Lexicon[v].denied = Lexicon[w].denied
    BY <2>1, <2>2, <2>3, PipelineAssumption
  <2>5. ~Lexicon[v].denied
    BY <2>1, <2>4
  <2>6. \E h \in Extract(corpus) : IsShare(h)
    BY <1>6, <2>2, <2>5, NamedShare
  <2> QED BY <1>2, <2>6 DEF AssetsOf
<1>7. \A y \in Range(r.symbols) :
         y \in ShareTicker /\ Ways(y) \cap {"cashtag", "paren", "alias"} # {} =>
             "equities" \in r.assets /\ \E x \in r.channels : x[1] = "equities"
  <2> HIDE DEF Ways
  <2> QED BY <1>5, <1>6
<1>8. r.relevant => r.channels # {} \/ \E l \in r.reasons : LabelScores(corpus)[l] >= 750
  BY <1>2, <1>5
<1>9. (r.channels = {}) = (r.assets = {}) /\ (r.horizons = {}) = (r.reasons = {})
  BY <1>5
<1>10. AgreesWith(r)
  BY <1>7, <1>8, <1>9 DEF AgreesWith
<1> QED BY <1>10 DEF r

\* Whatever is captured, the stages agree on it.
THEOREM LayersCorrect == Spec => []LayersAgree
<1>1. CorpusInv => LayersAgree
  BY LayersHold DEF LayersAgree
<1> QED BY <1>1, CorpusCorrect, PTL

-----------------------------------------------------------------------------
(* A sentence told again (service.py). *)

\* A record that keeps what a sentence told again, or a footer, may not change.
LEMMA RetoldKeep ==
    ASSUME CorpusInv, [Next]_vars, report \in Pipelines
    PROVE  NoMoreThan(Process(corpus), Process(corpus'))
<1> DEFINE c == corpus
           d == corpus'
<1> SUFFICES ASSUME NEW s \in DOMAIN c, d[s] > c[s]
             PROVE  LET retold == c[s] > 0
                        footer == ~s.title /\ Those(s.words, "footer") # {}
                        old == Process(c)
                        new == Process(d)
                    IN  /\ retold \/ footer => new.entities = old.entities /\ new.symbols = old.symbols
                        /\ retold => /\ new.assets = old.assets /\ new.reasons = old.reasons
                                     /\ new.sentiment = old.sentiment /\ new.evidence = old.evidence
  BY DEF NoMoreThan
<1>1. Grows(c, d, s)
  BY RowIsStored
<1>2. Sentences(c) /\ Sentences(d)
  BY <1>1 DEF Sentences, CorpusInv, Grows
<1> HIDE DEF c, d
<1> DEFINE old == Process(c)
           new == Process(d)
<1>3. /\ old.assets = AssetsOf(c) /\ old.reasons = Taken2(c, ReasonCode)
      /\ old.entities = TextsOf(c) /\ old.sentiment = Sentiment(c).label
      /\ old.symbols = RecordedSymbols(c)
      /\ old.evidence = Evidence(Title(c), Cleaned(c), old.assets \cup old.reasons \cup old.entities)
  BY <1>2, RecordFacts
<1>4. /\ new.assets = AssetsOf(d) /\ new.reasons = Taken2(d, ReasonCode)
      /\ new.entities = TextsOf(d) /\ new.sentiment = Sentiment(d).label
      /\ new.symbols = RecordedSymbols(d)
      /\ new.evidence = Evidence(Title(d), Cleaned(d), new.assets \cup new.reasons \cup new.entities)
  BY <1>2, RecordFacts
<1> HIDE DEF old, new
<1> DEFINE footer == ~s.title /\ Those(s.words, "footer") # {}
           Unflagged(e) == {x \in Body(e) : Those(x.words, "footer") = {}}
<1>5. c[s] > 0 => Filled(d) = Filled(c)
  BY <1>1 DEF Grows, Filled
<1>6. c[s] > 0 \/ footer => Title(d) = Title(c) /\ Unflagged(d) = Unflagged(c)
  <2>1. CASE c[s] > 0
    BY <1>5, <2>1 DEF Title, Body
  <2>2. CASE footer
    <3>1. \A x : x \in Filled(d) <=> x \in Filled(c) \/ x = s
      BY <1>1 DEF Grows, Filled
    <3> QED BY <2>2, <3>1 DEF Title, Body
  <2> QED BY <2>1, <2>2
<1>7. c[s] > 0 \/ footer => /\ Cleaned(d) = Cleaned(c) /\ CleanWords(d) = CleanWords(c)
                            /\ Extract(d) = Extract(c) /\ MapText(d) = MapText(c)
  <2> SUFFICES ASSUME c[s] > 0 \/ footer
               PROVE  /\ Cleaned(d) = Cleaned(c) /\ CleanWords(d) = CleanWords(c)
                      /\ Extract(d) = Extract(c) /\ MapText(d) = MapText(c)
    OBVIOUS
  <2>1. Title(d) = Title(c) /\ Unflagged(d) = Unflagged(c)
    BY <1>6
  <2>2. Cleaned(d) = Cleaned(c)
    BY <2>1 DEF Cleaned
  <2>3. CleanWords(d) = CleanWords(c)
    BY <2>1, <2>2 DEF CleanWords
  <2>4. Extract(d) = Extract(c)
    BY <2>3 DEF Extract
  <2>5. MapText(d) = MapText(c)
    BY <2>1, <2>2 DEF MapText
  <2> QED BY <2>2, <2>3, <2>4, <2>5
<1>8. c[s] > 0 \/ footer => new.entities = old.entities /\ new.symbols = old.symbols
  BY <1>3, <1>4, <1>6, <1>7 DEF TextsOf, RecordedSymbols
<1>9. ASSUME c[s] > 0
      PROVE  /\ new.assets = old.assets /\ new.reasons = old.reasons
             /\ new.sentiment = old.sentiment /\ new.evidence = old.evidence
  <2>1. DOMAIN LabelScores(d) = DOMAIN LabelScores(c)
    BY <1>2, <1>5, <1>9, LabelsPass
  <2>2. Sentiment(d) = Sentiment(c)
    BY <1>5, <1>9 DEF Sentiment
  <2>3. AssetsOf(d) = AssetsOf(c) /\ Taken2(d, ReasonCode) = Taken2(c, ReasonCode)
    BY <1>7, <1>9, <2>1 DEF AssetsOf, Taken2
  <2> QED BY <1>3, <1>4, <1>6, <1>7, <1>8, <1>9, <2>2, <2>3
<1> QED BY <1>8, <1>9 DEF old, new

\* A sentence told again, or a footer, does not make a story another one.
THEOREM RetoldCorrect == Spec => RetoldIsNotMore
BY RetoldKeep, CorpusCorrect, PTL DEF Spec, RetoldIsNotMore

-----------------------------------------------------------------------------
(* What is said of the buckets before a row (anomaly.py, topic_regime.py,    *)
(* spillover.py).                                                            *)

\* Rows with a time.
Timely(c) ==
    /\ c \in [Shape[report] -> Nat] /\ IsFiniteSet(Shape[report])
    /\ \A t \in Shape[report] : t.at \in Int

\* Two bags that differ in one bucket, if at all.
BarBucket(c, d, x) ==
    /\ Timely(c) /\ Timely(d) /\ x \in Int
    /\ \A t \in Shape[report] : Bucket(t.at) # x => c[t] = d[t]

\* Rows have buckets, a bucket has rows.
LEMMA BucketFacts ==
    ASSUME NEW c, Timely(c)
    PROVE  /\ Filled(c) \in SUBSET Shape[report] /\ IsFiniteSet(Filled(c))
           /\ \A t \in Filled(c) : c[t] \in Nat \ {0} /\ Bucket(t.at) \in Int
           /\ Buckets(c) \in SUBSET Int /\ IsFiniteSet(Buckets(c))
           /\ \A b : In(c, b) \in SUBSET Filled(c) /\ IsFiniteSet(In(c, b))
           /\ \A b : b \in Buckets(c) <=> In(c, b) # {}
<1>1. Filled(c) \in SUBSET Shape[report] /\ \A t \in Filled(c) : c[t] \in Nat \ {0}
  BY DEF Filled, Timely
<1>2. IsFiniteSet(Filled(c))
  BY <1>1, FS_Subset DEF Timely
<1>3. \A t \in Filled(c) : Bucket(t.at) \in Int
  BY <1>1, SurgeAssumption DEF Timely, Bucket
<1> DEFINE f == [t \in Filled(c) |-> Bucket(t.at)]
<1>4. IsFiniteSet({f[t] : t \in Filled(c)})
  <2> HIDE DEF f
  <2> QED BY <1>2, ImageIsFinite
<1>5. Buckets(c) = {f[t] : t \in Filled(c)}
  BY DEF Buckets
<1>6. Buckets(c) \in SUBSET Int
  BY <1>3 DEF Buckets
<1>7. \A b : In(c, b) \in SUBSET Filled(c)
  BY DEF In
<1>8. \A b : IsFiniteSet(In(c, b))
  BY <1>2, <1>7, FS_Subset
<1>9. \A b : b \in Buckets(c) <=> In(c, b) # {}
  BY DEF Buckets, In
<1> QED BY <1>1, <1>2, <1>3, <1>4, <1>5, <1>6, <1>7, <1>8, <1>9

\* Another bucket has the same rows, as many of each.
LEMMA OtherBucket ==
    ASSUME NEW c, NEW d, NEW x, BarBucket(c, d, x), NEW b \in Int, b # x
    PROVE  /\ In(d, b) = In(c, b) /\ \A t \in In(c, b) : d[t] = c[t]
           /\ \A S \in SUBSET In(c, b) : Tally(d, S) = Tally(c, S)
           /\ b \in Buckets(d) <=> b \in Buckets(c)
<1>1. Timely(c) /\ Timely(d)
  BY DEF BarBucket
<1>2. In(d, b) = In(c, b) /\ \A t \in In(c, b) : d[t] = c[t]
  BY DEF BarBucket, Timely, In, Filled
<1>3. ASSUME NEW S \in SUBSET In(c, b)
      PROVE  Tally(d, S) = Tally(c, S)
  <2>1. IsFiniteSet(S) /\ S \in SUBSET Filled(c)
    BY <1>1, BucketFacts, FS_Subset
  <2>2. \A t \in S : d[t] \in Int /\ d[t] = c[t]
    BY <1>1, <1>2, <2>1, BucketFacts
  <2>3. SumOver(d, S) = SumOver(c, S)
    BY <2>1, <2>2, SumSame
  <2> QED BY <2>3, TallyIsSum
<1>4. b \in Buckets(d) <=> b \in Buckets(c)
  BY <1>1, <1>2, BucketFacts
<1> QED BY <1>2, <1>3, <1>4

\* The last of what came before came before.
LEMMA PastBuckets ==
    ASSUME NEW B \in SUBSET Int, IsFiniteSet(B), NEW b
    PROVE  \A n \in DOMAIN LastOf(Before(B, b), Baseline) :
              LastOf(Before(B, b), Baseline)[n] \in {y \in B : y < b}
<1> DEFINE P == {y \in B : y < b}
           s == Before(B, b)
<1>1. IsFiniteSet(P) /\ P \in SUBSET Int
  BY FS_Subset
<1> HIDE DEF P
<1>2. s = Ascending(P)
  BY DEF Before, P
<1>3. Lists(s, P, {p \in P \X P : p[1] < p[2]})
  BY <1>1, <1>2, AscendingLists
<1>4. Cardinality(P) \in Nat
  BY <1>1, FS_CardinalityType
<1>5. DOMAIN s = 1 .. Cardinality(P) /\ Range(s) = P
  BY <1>3 DEF Lists
<1>6. s = [n \in DOMAIN s |-> s[n]]
  BY <1>2 DEF Ascending, InOrder
<1>7. s \in Seq(P)
  BY <1>4, <1>5, <1>6 DEF Range
<1> HIDE DEF s
<1> DEFINE m == IF Len(s) > Baseline THEN Len(s) - Baseline + 1 ELSE 1
<1>8. m \in 1 .. Len(s) + 1
  BY <1>7, SurgeAssumption
<1>9. LastOf(s, Baseline) = SubSeq(s, m, Len(s))
  BY DEF LastOf
<1> HIDE DEF m
<1>10. SubSeq(s, m, Len(s)) \in Seq(P)
  BY <1>7, <1>8
<1> DEFINE q == LastOf(s, Baseline)
<1>11. q \in Seq(P)
  BY <1>9, <1>10
<1> HIDE DEF q
<1>12. \A n \in DOMAIN q : q[n] \in P
  BY <1>11
<1> QED BY <1>12 DEF P, q, s

\* The number before which there are n - 1 others is the n-th.
LEMMA AscendingRank ==
    ASSUME NEW I \in SUBSET Int, IsFiniteSet(I)
    PROVE  /\ \A n \in DOMAIN Ascending(I) :
                 Ascending(I)[n] \in I /\ Cardinality({y \in I : y < Ascending(I)[n]}) + 1 = n
           /\ \A v \in I : /\ Cardinality({y \in I : y < v}) + 1 \in DOMAIN Ascending(I)
                          /\ Ascending(I)[Cardinality({y \in I : y < v}) + 1] = v
<1> DEFINE R == {p \in I \X I : p[1] < p[2]}
           before == [x \in I |-> {y \in I : y < x}]
           rank == [x \in I |-> Cardinality({y \in I : y < x}) + 1]
           k == Cardinality(I)
           s == Ascending(I)
<1>1. Orders(R, I)
  BY DEF Orders
<1>2. Ranks(rank, before, R, I)
  BY DEF Ranks
<1>3. /\ \A x \in I : rank[x] \in 1..k
      /\ \A x, y \in I : rank[x] = rank[y] => x = y
      /\ \A n \in 1..k : \E x \in I : rank[x] = n
  <2> HIDE DEF R, before, rank, s
  <2> DEFINE J == I
  <2>1. IsFiniteSet(J) /\ Orders(R, J) /\ Ranks(rank, before, R, J)
    BY <1>1, <1>2
  <2> HIDE DEF J
  <2>2. /\ \A x \in J : rank[x] \in 1..Cardinality(J)
        /\ \A x, y \in J : rank[x] = rank[y] => x = y
        /\ \A n \in 1..Cardinality(J) : \E x \in J : rank[x] = n
    BY <2>1, Ranked
  <2> QED BY <2>2 DEF J
<1>4. s = [n \in 1 .. k |-> CHOOSE x \in I : rank[x] = n]
  <2>1. s = [n \in 1 .. k |-> CHOOSE x \in I : Cardinality({y \in I : y < x}) + 1 = n]
    BY DEF Ascending, InOrder
  <2>2. \A n : (CHOOSE x \in I : Cardinality({y \in I : y < x}) + 1 = n) = (CHOOSE x \in I : rank[x] = n)
    OBVIOUS
  <2> QED BY <2>1, <2>2
<1>5. \A v \in I : rank[v] = Cardinality({y \in I : y < v}) + 1
  OBVIOUS
<1> HIDE DEF rank, k, s
<1>6. DOMAIN s = 1 .. k /\ \A n \in 1 .. k : s[n] \in I /\ rank[s[n]] = n
  BY <1>3, <1>4
<1>7. \A v \in I : rank[v] \in DOMAIN s /\ s[rank[v]] = v
  BY <1>3, <1>6
<1>8. /\ \A n \in DOMAIN s : s[n] \in I /\ Cardinality({y \in I : y < s[n]}) + 1 = n
      /\ \A v \in I : /\ Cardinality({y \in I : y < v}) + 1 \in DOMAIN s
                     /\ s[Cardinality({y \in I : y < v}) + 1] = v
  BY <1>5, <1>6, <1>7
<1> QED BY <1>8 DEF s

\* Bursts of volume before a bucket are as they were.
LEMMA VolumesStay ==
    ASSUME NEW c, NEW d, NEW x, BarBucket(c, d, x), NEW b \in Int, b < x
    PROVE  /\ Before(Buckets(d), b) = Before(Buckets(c), b)
           /\ Volume(d, b) = Volume(c, b) /\ VolumeHistory(d, b) = VolumeHistory(c, b)
<1>1. Timely(c) /\ x \in Int
  BY DEF BarBucket
<1>2. Buckets(c) \in SUBSET Int /\ IsFiniteSet(Buckets(c)) /\ Buckets(d) \in SUBSET Int
  BY BucketFacts DEF BarBucket
<1>3. \A y \in Int : y < x => (y \in Buckets(d) <=> y \in Buckets(c)) /\ Volume(d, y) = Volume(c, y)
  <2> SUFFICES ASSUME NEW y \in Int, y < x
               PROVE  (y \in Buckets(d) <=> y \in Buckets(c)) /\ Volume(d, y) = Volume(c, y)
    OBVIOUS
  <2>1. y # x
    BY <1>1
  <2> QED BY <2>1, OtherBucket DEF Volume
<1>4. {y \in Buckets(d) : y < b} = {y \in Buckets(c) : y < b}
  BY <1>1, <1>2, <1>3
<1>5. Before(Buckets(d), b) = Before(Buckets(c), b)
  BY <1>4 DEF Before
<1> DEFINE past == LastOf(Before(Buckets(c), b), Baseline)
<1>6. \A n \in DOMAIN past : past[n] \in {y \in Buckets(c) : y < b}
  BY <1>2, PastBuckets
<1>7. VolumeHistory(c, b) = [n \in DOMAIN past |-> Volume(c, past[n])]
  BY DEF VolumeHistory
<1>8. VolumeHistory(d, b) = [n \in DOMAIN past |-> Volume(d, past[n])]
  BY <1>5 DEF VolumeHistory
<1> HIDE DEF past
<1>9. \A n \in DOMAIN past : Volume(d, past[n]) = Volume(c, past[n])
  BY <1>1, <1>2, <1>3, <1>6
<1> QED BY <1>1, <1>3, <1>5, <1>7, <1>8, <1>9

\* And so is the tone of what was labelled.
LEMMA NetsStay ==
    ASSUME NEW c, NEW d, NEW x, BarBucket(c, d, x), NEW b \in Int, b < x
    PROVE  /\ Labelled(d, b) = Labelled(c, b) /\ Net(d, b) = Net(c, b)
           /\ NetHistory(d, b) = NetHistory(c, b)
<1>1. x \in Int /\ Timely(c)
  BY DEF BarBucket
<1>2. Buckets(c) \in SUBSET Int /\ IsFiniteSet(Buckets(c)) /\ Buckets(d) \in SUBSET Int
  BY BucketFacts DEF BarBucket
<1>3. ASSUME NEW y \in Int, y < x
      PROVE  /\ y \in Buckets(d) <=> y \in Buckets(c)
             /\ Labelled(d, y) = Labelled(c, y) /\ Net(d, y) = Net(c, y)
  <2>1. y # x
    BY <1>1, <1>3
  <2>2. /\ In(d, y) = In(c, y) /\ \A S \in SUBSET In(c, y) : Tally(d, S) = Tally(c, S)
        /\ y \in Buckets(d) <=> y \in Buckets(c)
    BY <2>1, OtherBucket
  <2>3. Labelled(d, y) = Labelled(c, y) /\ Labelled(c, y) \in SUBSET In(c, y)
    BY <2>2 DEF Labelled
  <2>4. \A l : Tally(d, {s \in In(d, y) : s.label = l}) = Tally(c, {s \in In(c, y) : s.label = l})
    BY <2>2
  <2>5. Tally(d, Labelled(d, y)) = Tally(c, Labelled(c, y))
    BY <2>2, <2>3
  <2>6. Net(d, y) = Net(c, y)
    BY <2>4, <2>5 DEF Net
  <2> QED BY <2>2, <2>3, <2>6
<1> DEFINE B(e) == {y \in Buckets(e) : Labelled(e, y) # {}}
           past == LastOf(Before(B(c), b), Baseline)
<1>4. {y \in B(d) : y < b} = {y \in B(c) : y < b}
  BY <1>1, <1>2, <1>3
<1>5. Before(B(d), b) = Before(B(c), b)
  BY <1>4 DEF Before
<1>6. \A n \in DOMAIN past : past[n] \in Int /\ past[n] < x
  <2> DEFINE P == B(c)
  <2>1. P \in SUBSET Int /\ IsFiniteSet(P)
    BY <1>2, FS_Subset
  <2> HIDE DEF P
  <2>2. \A n \in DOMAIN LastOf(Before(P, b), Baseline) :
           LastOf(Before(P, b), Baseline)[n] \in {y \in P : y < b}
    BY <2>1, PastBuckets
  <2>3. \A z \in {y \in P : y < b} : z \in Int /\ z < x
    BY <1>1, <2>1
  <2>4. \A n \in DOMAIN LastOf(Before(P, b), Baseline) :
           LastOf(Before(P, b), Baseline)[n] \in Int /\ LastOf(Before(P, b), Baseline)[n] < x
    BY <2>2, <2>3, Zenon
  <2> QED BY <2>4 DEF P
<1>7. NetHistory(c, b) = [n \in DOMAIN past |-> Net(c, past[n])]
  BY DEF NetHistory
<1>8. NetHistory(d, b) = [n \in DOMAIN past |-> Net(d, past[n])]
  BY <1>5 DEF NetHistory
<1> HIDE DEF past, B
<1>9. \A n \in DOMAIN past : Net(d, past[n]) = Net(c, past[n])
  BY <1>3, <1>6
<1> QED BY <1>1, <1>3, <1>7, <1>8, <1>9

\* And so are the mentions of a symbol.
LEMMA MentionsStay ==
    ASSUME NEW c, NEW d, NEW x, BarBucket(c, d, x), NEW b \in Int, b < x, NEW y
    PROVE  /\ Bursts(d, y, b) <=> Bursts(c, y, b)
           /\ Bursts(c, y, b) => \E s \in In(c, b) : y \in s.symbols
<1>1. x \in Int /\ Timely(c)
  BY DEF BarBucket
<1>2. Buckets(c) \in SUBSET Int /\ IsFiniteSet(Buckets(c))
  BY <1>1, BucketFacts
<1>3. ASSUME NEW z \in Int, z < x
      PROVE  Mentions(d, y, z) = Mentions(c, y, z)
  <2>1. z # x
    BY <1>1, <1>3
  <2>2. In(d, z) = In(c, z) /\ \A S \in SUBSET In(c, z) : Tally(d, S) = Tally(c, S)
    BY <2>1, OtherBucket
  <2> QED BY <2>2 DEF Mentions
<1> DEFINE past == LastOf(Before(Buckets(c), b), Baseline)
<1>4. \A n \in DOMAIN past : past[n] \in {z \in Buckets(c) : z < b}
  BY <1>2, PastBuckets
<1>5. Before(Buckets(d), b) = Before(Buckets(c), b)
  BY VolumesStay
<1>6. [n \in DOMAIN past |-> Mentions(d, y, past[n])] = [n \in DOMAIN past |-> Mentions(c, y, past[n])]
  <2> HIDE DEF past
  <2>1. \A n \in DOMAIN past : Mentions(d, y, past[n]) = Mentions(c, y, past[n])
    BY <1>1, <1>2, <1>3, <1>4
  <2> QED BY <2>1
<1>7. Bursts(d, y, b) <=> Bursts(c, y, b)
  <2>1. Mentions(d, y, b) = Mentions(c, y, b)
    BY <1>1, <1>3
  <2> QED BY <1>5, <1>6, <2>1 DEF Bursts
<1>8. ASSUME Bursts(c, y, b)
      PROVE  \E s \in In(c, b) : y \in s.symbols
  <2>1. Mentions(c, y, b) >= 2
    BY <1>8 DEF Bursts
  <2> SUFFICES ASSUME {s \in In(c, b) : y \in s.symbols} = {} PROVE FALSE
    OBVIOUS
  <2>2. Mentions(c, y, b) = SumOver(c, {})
    BY TallyIsSum DEF Mentions
  <2> QED BY <2>1, <2>2, SumEmpty
<1> QED BY <1>7, <1>8

\* What the anomalies report said before a bucket, it says still.
LEMMA AnomaliesStay ==
    ASSUME NEW c, NEW d, NEW x, BarBucket(c, d, x)
    PROVE  /\ {a \in VolumeAnomalies(c) : a.bucket < x} \subseteq {a \in VolumeAnomalies(d) : a.bucket < x}
           /\ {a \in SentimentShocks(c) : a.bucket < x} \subseteq {a \in SentimentShocks(d) : a.bucket < x}
           /\ {p \in SymbolBursts(c) : p[2] < x} \subseteq {p \in SymbolBursts(d) : p[2] < x}
<1>1. Buckets(c) \in SUBSET Int /\ Timely(c) /\ x \in Int
  BY BucketFacts DEF BarBucket
<1>2. \A b \in Buckets(c) : b < x => b \in Buckets(d)
  <2> SUFFICES ASSUME NEW b \in Buckets(c), b < x PROVE b \in Buckets(d)
    OBVIOUS
  <2>1. b \in Int /\ b # x
    BY <1>1
  <2> QED BY <2>1, OtherBucket
<1>3. ASSUME NEW a \in VolumeAnomalies(c), a.bucket < x
      PROVE  a \in VolumeAnomalies(d)
  <2>1. PICK b \in Buckets(c) : /\ ZBeyond(Volume(c, b), VolumeHistory(c, b), Threshold)
                                /\ a = [bucket |-> b, severity |-> Severity(Volume(c, b), VolumeHistory(c, b))]
    BY DEF VolumeAnomalies
  <2>2. b \in Int /\ b < x
    BY <1>1, <1>3, <2>1
  <2>3. Volume(d, b) = Volume(c, b) /\ VolumeHistory(d, b) = VolumeHistory(c, b) /\ b \in Buckets(d)
    BY <1>2, <2>2, VolumesStay
  <2> QED BY <2>1, <2>3 DEF VolumeAnomalies
<1>4. ASSUME NEW a \in SentimentShocks(c), a.bucket < x
      PROVE  a \in SentimentShocks(d)
  <2>1. PICK b \in Buckets(c) : /\ Labelled(c, b) # {} /\ ZBeyond(Net(c, b), NetHistory(c, b), Threshold)
                                /\ a = [bucket |-> b, direction |-> Direction(c, b)]
    BY DEF SentimentShocks
  <2>2. b \in Int /\ b < x
    BY <1>1, <1>4, <2>1
  <2>3. Labelled(d, b) = Labelled(c, b) /\ Net(d, b) = Net(c, b) /\ NetHistory(d, b) = NetHistory(c, b)
        /\ b \in Buckets(d)
    BY <1>2, <2>2, NetsStay
  <2>4. Direction(d, b) = Direction(c, b)
    BY <2>3 DEF Direction
  <2> QED BY <2>1, <2>3, <2>4 DEF SentimentShocks
<1>5. ASSUME NEW p \in SymbolBursts(c), p[2] < x
      PROVE  p \in SymbolBursts(d)
  <2>1. p \in (UNION {s.symbols : s \in Filled(c)}) \X Buckets(c) /\ Bursts(c, p[1], p[2])
    BY DEF SymbolBursts
  <2>2. PICK y \in UNION {s.symbols : s \in Filled(c)}, b \in Buckets(c) : p = <<y, b>>
    BY <2>1
  <2>3. Bursts(c, y, b) /\ b \in Int /\ b < x
    BY <1>1, <1>5, <2>1, <2>2
  <2>4. Bursts(d, y, b) /\ \E s \in In(c, b) : y \in s.symbols
    BY <2>3, MentionsStay
  <2>5. In(d, b) = In(c, b) /\ In(d, b) \in SUBSET Filled(d)
    <3>1. b # x
      BY <1>1, <2>3
    <3> QED BY <2>3, <3>1, OtherBucket DEF In
  <2>6. y \in UNION {s.symbols : s \in Filled(d)} /\ b \in Buckets(d)
    BY <1>2, <2>3, <2>4, <2>5
  <2> QED BY <2>2, <2>4, <2>6 DEF SymbolBursts
<1> QED BY <1>3, <1>4, <1>5

\* The n-th bucket is the n-th still, if it is before x.
LEMMA PlaceStays ==
    ASSUME NEW c, NEW d, NEW x, BarBucket(c, d, x),
           NEW n \in DOMAIN Ascending(Buckets(c)), Ascending(Buckets(c))[n] < x
    PROVE  n \in DOMAIN Ascending(Buckets(d)) /\ Ascending(Buckets(d))[n] = Ascending(Buckets(c))[n]
<1> DEFINE v == Ascending(Buckets(c))[n]
<1>1. /\ Buckets(c) \in SUBSET Int /\ IsFiniteSet(Buckets(c)) /\ x \in Int
      /\ Buckets(d) \in SUBSET Int /\ IsFiniteSet(Buckets(d))
  BY BucketFacts DEF BarBucket
<1>2. v \in Buckets(c) /\ Cardinality({y \in Buckets(c) : y < v}) + 1 = n
  BY <1>1, AscendingRank
<1> HIDE DEF v
<1>3. v \in Int /\ v < x
  BY <1>1, <1>2 DEF v
<1>4. \A y \in Int : y < x => (y \in Buckets(d) <=> y \in Buckets(c))
  <2> SUFFICES ASSUME NEW y \in Int, y < x PROVE y \in Buckets(d) <=> y \in Buckets(c)
    OBVIOUS
  <2>1. y # x
    BY <1>1
  <2> QED BY <2>1, OtherBucket
<1>5. {y \in Buckets(d) : y < v} = {y \in Buckets(c) : y < v} /\ v \in Buckets(d)
  BY <1>1, <1>2, <1>3, <1>4
<1>6. /\ Cardinality({y \in Buckets(d) : y < v}) + 1 \in DOMAIN Ascending(Buckets(d))
      /\ Ascending(Buckets(d))[Cardinality({y \in Buckets(d) : y < v}) + 1] = v
  BY <1>1, <1>5, AscendingRank
<1> QED BY <1>2, <1>5, <1>6 DEF v

\* The mix of another bucket is as it was.
LEMMA MixStays ==
    ASSUME NEW c, NEW d, NEW x, BarBucket(c, d, x), NEW b \in Int, b # x
    PROVE  Mix(d, b) = Mix(c, b)
<1>1. /\ In(d, b) = In(c, b) /\ \A t \in In(c, b) : d[t] = c[t]
      /\ \A S \in SUBSET In(c, b) : Tally(d, S) = Tally(c, S)
  BY OtherBucket
<1>2. ASSUME NEW field
      PROVE  Share(d, b, field) = Share(c, b, field)
  <2> DEFINE rows == {s \in In(c, b) : s[field] # {}}
             K == UNION {s[field] : s \in rows}
             S(k) == {s \in rows : k \in s[field]}
             F(e, k) == [s \in S(k) |-> e[s] * (12 \div Cardinality(s[field]))]
             total(e) == 12 * Tally(e, rows)
  <2>1. Share(c, b, field) = [k \in K |-> (1000 * SumOf(F(c, k), S(k))) \div total(c)]
    BY DEF Share, Total
  <2>2. Share(d, b, field) = [k \in K |-> (1000 * SumOf(F(d, k), S(k))) \div total(d)]
    BY <1>1 DEF Share, Total
  <2>3. total(d) = total(c)
    BY <1>1
  <2>4. \A k : F(d, k) = F(c, k)
    BY <1>1
  <2> HIDE DEF F, total, K, S
  <2> QED BY <2>1, <2>2, <2>3, <2>4
<1>3. Share(d, b, "assets") = Share(c, b, "assets") /\ Share(d, b, "reasons") = Share(c, b, "reasons")
  BY <1>2
<1> QED BY <1>3 DEF Mix

\* What the regimes report said before a bucket, it says still.
LEMMA RegimesStay ==
    ASSUME NEW c, NEW d, NEW x, BarBucket(c, d, x)
    PROVE  {r \in Range(Regimes(c)) : r.bucket < x} \subseteq {r \in Range(Regimes(d)) : r.bucket < x}
<1> DEFINE S == Ascending(Buckets(c))
           T == Ascending(Buckets(d))
<1> SUFFICES ASSUME NEW r \in Range(Regimes(c)), r.bucket < x
             PROVE  r \in Range(Regimes(d))
  OBVIOUS
<1>1. /\ Buckets(c) \in SUBSET Int /\ IsFiniteSet(Buckets(c)) /\ x \in Int
  BY BucketFacts DEF BarBucket
<1>2. DOMAIN Regimes(c) = DOMAIN S /\ DOMAIN Regimes(d) = DOMAIN T
  BY DEF Regimes
<1>3. PICK n \in DOMAIN S : r = Regimes(c)[n]
  BY <1>2 DEF Range
<1>4. \A m \in DOMAIN S : S[m] \in Int /\ m \in Nat \ {0} /\ \A k \in 1 .. m : k \in DOMAIN S /\ (k < m => S[k] < S[m])
  <2>1. Lists(S, Buckets(c), {p \in Buckets(c) \X Buckets(c) : p[1] < p[2]})
    BY <1>1, AscendingLists
  <2>2. Cardinality(Buckets(c)) \in Nat
    BY <1>1, FS_CardinalityType
  <2> HIDE DEF S
  <2>3. DOMAIN S = 1 .. Cardinality(Buckets(c))
        /\ \A i, j \in DOMAIN S : i < j => S[i] < S[j] /\ S[i] \in Buckets(c) /\ S[j] \in Buckets(c)
    BY <2>1 DEF Lists
  <2>4. \A i \in DOMAIN S : S[i] \in Buckets(c)
    BY <2>1 DEF Lists, Range
  <2> QED BY <1>1, <2>2, <2>3, <2>4
<1>5. \A m \in DOMAIN S : S[m] < x => m \in DOMAIN T /\ T[m] = S[m]
  BY PlaceStays
<1>6. CASE n = 1
  <2>1. Regimes(c)[1] = [bucket |-> S[1], count |-> Volume(c, S[1]), divergence |-> None, shift |-> FALSE]
    BY <1>6 DEF Regimes
  <2>2. S[1] < x
    BY <1>3, <1>6, <2>1
  <2>3. 1 \in DOMAIN T /\ T[1] = S[1] /\ S[1] \in Int
    BY <1>4, <1>5, <1>6, <2>2
  <2>4. Regimes(d)[1] = [bucket |-> T[1], count |-> Volume(d, T[1]), divergence |-> None, shift |-> FALSE]
    BY <2>3 DEF Regimes
  <2>5. Volume(d, S[1]) = Volume(c, S[1])
    BY <2>2, <2>3, VolumesStay
  <2> HIDE DEF S, T
  <2>6. Regimes(d)[1] = r
    BY <1>3, <1>6, <2>1, <2>3, <2>4, <2>5
  <2> QED BY <1>2, <2>3, <2>6 DEF Range
<1>7. CASE n # 1
  <2> DEFINE E(e, b, p) ==
               [bucket |-> b, count |-> Volume(e, b), divergence |-> Divergence(Mix(e, b), Mix(e, p)),
                shift |-> /\ Divergence(Mix(e, b), Mix(e, p)) > ShiftThreshold
                          /\ Volume(e, b) >= MinBucket /\ Volume(e, p) >= MinBucket]
  <2>1. Regimes(c)[n] = E(c, S[n], S[n - 1])
    BY <1>7 DEF Regimes
  <2>2. S[n] < x
    BY <1>3, <2>1
  <2>3. n - 1 \in DOMAIN S /\ S[n - 1] < x /\ S[n - 1] \in Int /\ S[n] \in Int
    <3> HIDE DEF S, E
    <3>1. n - 1 \in 1 .. n /\ n - 1 < n
      BY <1>4, <1>7
    <3>2. n - 1 \in DOMAIN S /\ S[n - 1] < S[n] /\ S[n] \in Int
      BY <1>4, <3>1
    <3>3. S[n - 1] \in Int
      BY <1>4, <3>2
    <3> QED BY <1>1, <2>2, <3>2, <3>3
  <2>4. n \in DOMAIN T /\ T[n] = S[n] /\ T[n - 1] = S[n - 1]
    BY <1>5, <2>2, <2>3
  <2>5. Regimes(d)[n] = E(d, T[n], T[n - 1])
    BY <1>7, <2>4 DEF Regimes
  <2>6. Volume(d, S[n]) = Volume(c, S[n]) /\ Volume(d, S[n - 1]) = Volume(c, S[n - 1])
    BY <2>2, <2>3, VolumesStay
  <2>7. Mix(d, S[n]) = Mix(c, S[n]) /\ Mix(d, S[n - 1]) = Mix(c, S[n - 1])
    <3> HIDE DEF S, E
    <3>1. S[n] # x /\ S[n - 1] # x
      BY <1>1, <2>2, <2>3
    <3> QED BY <2>3, <3>1, MixStays
  <2> HIDE DEF S, T
  <2>8. E(d, S[n], S[n - 1]) = E(c, S[n], S[n - 1])
    BY <2>6, <2>7
  <2>9. Regimes(d)[n] = r
    BY <1>3, <2>1, <2>4, <2>5, <2>8
  <2> QED BY <1>2, <2>4, <2>9 DEF Range
<1> QED BY <1>6, <1>7

\* The grid begins with the bucket of a row, and has a place for that of every other.
LEMMA GridOf ==
    ASSUME NEW c, Timely(c)
    PROVE  /\ Timed(c) \in SUBSET Filled(c) /\ TotalBuckets(c) \in Nat
           /\ \A t \in Timed(c) : /\ Bucket(t.at) \in Int /\ Anchor(c) \in Int /\ Anchor(c) <= Bucket(t.at)
                                  /\ Bucket(t.at) - Anchor(c) + 1 \in 1 .. TotalBuckets(c)
           /\ Timed(c) # {} => \E u \in Timed(c) : Bucket(u.at) = Anchor(c)
<1> DEFINE f == [t \in Timed(c) |-> Bucket(t.at)]
           P == {Bucket(t.at) : t \in Timed(c)}
<1>1. Timed(c) \in SUBSET Filled(c) /\ IsFiniteSet(Timed(c))
  BY BucketFacts, FS_Subset DEF Timed
<1>2. \A t \in Timed(c) : Bucket(t.at) \in Int
  BY <1>1, BucketFacts
<1>3. CASE Timed(c) = {}
  BY <1>3 DEF TotalBuckets
<1>4. CASE Timed(c) # {}
  <2>1. P \in SUBSET Int /\ IsFiniteSet(P) /\ P # {}
    <3>1. IsFiniteSet({f[t] : t \in Timed(c)})
      <4> HIDE DEF f
      <4> QED BY <1>1, ImageIsFinite
    <3>2. P = {f[t] : t \in Timed(c)}
      OBVIOUS
    <3> QED BY <1>2, <1>4, <3>1, <3>2
  <2>2. Anchor(c) = Min(P) /\ TotalBuckets(c) = Max(P) - Min(P) + 1
    BY <1>4 DEF Anchor, TotalBuckets
  <2>3. \A t \in Timed(c) : Bucket(t.at) \in P
    OBVIOUS
  <2>4. \A b \in P : \E u \in Timed(c) : Bucket(u.at) = b
    OBVIOUS
  <2> HIDE DEF P
  <2>5. Min(P) \in P /\ Max(P) \in P /\ \A b \in P : Min(P) <= b /\ b <= Max(P)
    BY <2>1, Extremes
  <2> DEFINE low == Min(P)
             high == Max(P)
  <2>6. low \in P /\ high \in P /\ low \in Int /\ high \in Int /\ \A b \in P : low <= b /\ b <= high
    BY <2>1, <2>5
  <2>7. Anchor(c) = low /\ TotalBuckets(c) = high - low + 1
    BY <2>2
  <2> HIDE DEF low, high
  <2>8. TotalBuckets(c) \in Nat
    BY <2>6, <2>7
  <2>9. ASSUME NEW t \in Timed(c)
        PROVE  /\ Bucket(t.at) \in Int /\ Anchor(c) \in Int /\ Anchor(c) <= Bucket(t.at)
               /\ Bucket(t.at) - Anchor(c) + 1 \in 1 .. TotalBuckets(c)
    <3> DEFINE b == Bucket(t.at)
    <3>1. b \in P /\ b \in Int
      BY <1>2, <2>3
    <3> HIDE DEF b
    <3>2. low <= b /\ b <= high
      BY <2>6, <3>1
    <3>3. b - low + 1 \in 1 .. high - low + 1
      BY <2>6, <3>1, <3>2
    <3> QED BY <2>6, <2>7, <3>1, <3>2, <3>3 DEF b
  <2> QED BY <1>1, <2>4, <2>6, <2>7, <2>8, <2>9
<1> QED BY <1>1, <1>3, <1>4

\* Numbers that are not negative have no z-score above a threshold if the last is 0.
LEMMA NothingIsNoSurge ==
    ASSUME NEW h \in Seq(Nat), NEW t
    PROVE  ~ ZAtLeast(0, h, t)
<1>1. Len(h) \in Nat /\ DOMAIN h = 1 .. Len(h) /\ \A i \in DOMAIN h : h[i] \in Nat
  OBVIOUS
<1>2. IsFiniteSet(DOMAIN h)
  <2> DEFINE n == Len(h)
  <2>1. n \in Nat /\ DOMAIN h = 1 .. n
    BY <1>1
  <2> HIDE DEF n
  <2> QED BY <2>1, FS_Interval
<1>3. AddUp(h) \in Nat
  <2>1. SumOver(h, DOMAIN h) \in Nat
    BY <1>1, <1>2, SumType
  <2> QED BY <2>1, SequenceSum
<1>4. ~ (Len(h) * 0 - AddUp(h) > 0)
  BY <1>1, <1>3
<1> QED BY <1>4 DEF ZAtLeast

\* The rows of an asset at a place of the grid.
RowsAt(c, a, i) == {t \in In(c, Anchor(c) + i - 1) : a \in t.assets}

\* The series says how many there are; and an asset surges only where there are some.
LEMMA SeriesFacts ==
    ASSUME NEW c, Timely(c), NEW a
    PROVE  /\ Series(c, a) \in [1 .. TotalBuckets(c) -> Nat]
           /\ \A i \in 1 .. TotalBuckets(c) : Series(c, a)[i] = Tally(c, RowsAt(c, a, i))
           /\ \A i \in 1 .. TotalBuckets(c) : Surge(c, a, i) => RowsAt(c, a, i) # {}
<1>1. Series(c, a) = [i \in 1 .. TotalBuckets(c) |-> Tally(c, RowsAt(c, a, i))]
  BY DEF Series, RowsAt
<1>2. ASSUME NEW i
      PROVE  Tally(c, RowsAt(c, a, i)) \in Nat
  <2> DEFINE S == RowsAt(c, a, i)
  <2>1. S \in SUBSET Filled(c) /\ IsFiniteSet(S)
    BY BucketFacts, FS_Subset DEF RowsAt, In
  <2> HIDE DEF S
  <2>2. \A t \in S : c[t] \in Nat
    BY <2>1, BucketFacts
  <2>3. SumOver(c, S) \in Nat
    BY <2>1, <2>2, SumType
  <2> QED BY <2>3, TallyIsSum DEF S
<1>3. Series(c, a) \in [1 .. TotalBuckets(c) -> Nat]
  BY <1>1, <1>2
<1>4. \A i \in 1 .. TotalBuckets(c) : Series(c, a)[i] = Tally(c, RowsAt(c, a, i))
  BY <1>1
<1>5. ASSUME NEW i \in 1 .. TotalBuckets(c), Surge(c, a, i)
      PROVE  RowsAt(c, a, i) # {}
  <2> SUFFICES ASSUME RowsAt(c, a, i) = {} PROVE FALSE
    OBVIOUS
  <2>1. Series(c, a)[i] = 0
    BY <1>4, TallyIsSum, SumEmpty
  <2> DEFINE s == Series(c, a)
             m == Max({1, i - Baseline})
             h == SubSeq(s, m, i - 1)
  <2>2. TotalBuckets(c) \in Nat /\ Baseline \in Nat
    BY GridOf, SurgeAssumption
  <2>3. m \in {1, i - Baseline} /\ m >= 1
    <3> DEFINE q == i - Baseline
               p == 1
    <3>1. q \in Int /\ p \in Int /\ p >= 1
      BY <2>2
    <3> HIDE DEF q, p
    <3>2. Max({p, q}) \in {p, q} /\ p <= Max({p, q})
      BY <3>1, OfTwo
    <3>3. Max({p, q}) \in Int
      BY <3>1, <3>2
    <3>4. Max({p, q}) >= 1
      BY <3>1, <3>2, <3>3
    <3> QED BY <3>2, <3>4 DEF q, p
  <2>4. Surge(c, a, i) => ZAtLeast(s[i], h, SurgeThreshold)
    BY DEF Surge
  <2>5. s \in Seq(Nat) /\ Len(s) = TotalBuckets(c)
    BY <1>3, <2>2
  <2> HIDE DEF s, m
  <2>6. h \in Seq(Nat)
    BY <2>2, <2>3, <2>5
  <2> HIDE DEF h
  <2>7. ~ ZAtLeast(0, h, SurgeThreshold)
    BY <2>6, NothingIsNoSurge
  <2> QED BY <1>5, <2>1, <2>4, <2>7 DEF s
<1> QED BY <1>3, <1>4, <1>5

\* A stretch of a sequence of numbers.
LEMMA StretchOf ==
    ASSUME NEW q \in Seq(Nat), NEW m \in Int, NEW n \in Int, m >= 1, m <= n + 1, n <= Len(q)
    PROVE  LET h == SubSeq(q, m, n) IN
           /\ h \in Seq(Nat) /\ Len(h) = n - m + 1
           /\ \A k \in 1 .. n - m + 1 : h[k] = q[m + k - 1]
<1>1. \A k \in m .. n : q[k] \in Nat
  OBVIOUS
<1>2. /\ SubSeq(q, m, n) \in Seq(Nat)
      /\ Len(SubSeq(q, m, n)) = IF m <= n THEN n - m + 1 ELSE 0
      /\ \A k \in 1 .. n - m + 1 : SubSeq(q, m, n)[k] = q[m + k - 1]
  BY <1>1, SubSeqProperties
<1> QED BY <1>2

\* A surge before a bucket is one still.
LEMMA SurgeStays ==
    ASSUME NEW c, NEW d, NEW x, BarBucket(c, d, x), Anchor(d) = Anchor(c), Anchor(c) \in Int, NEW a,
           NEW i \in 1 .. TotalBuckets(c), i \in 1 .. TotalBuckets(d), Anchor(c) + i - 1 < x, Surge(c, a, i)
    PROVE  Surge(d, a, i)
<1>1. Timely(c) /\ Timely(d) /\ x \in Int
  BY DEF BarBucket
<1>2. TotalBuckets(c) \in Nat /\ TotalBuckets(d) \in Nat /\ Baseline \in Nat
  BY <1>1, GridOf, SurgeAssumption
<1> DEFINE s == Series(c, a)
           u == Series(d, a)
           m == Max({1, i - Baseline})
<1>3. s \in Seq(Nat) /\ Len(s) = TotalBuckets(c) /\ u \in Seq(Nat) /\ Len(u) = TotalBuckets(d)
  <2>1. s \in [1 .. TotalBuckets(c) -> Nat] /\ u \in [1 .. TotalBuckets(d) -> Nat]
    BY <1>1, SeriesFacts
  <2> HIDE DEF s, u
  <2> QED BY <1>2, <2>1
<1>4. \A k \in 1 .. i : u[k] = s[k]
  <2> SUFFICES ASSUME NEW k \in 1 .. i PROVE u[k] = s[k]
    OBVIOUS
  <2>1. k \in 1 .. TotalBuckets(c) /\ k \in 1 .. TotalBuckets(d)
    BY <1>2
  <2>2. s[k] = Tally(c, RowsAt(c, a, k)) /\ u[k] = Tally(d, RowsAt(d, a, k))
    BY <1>1, <2>1, SeriesFacts
  <2> DEFINE b == Anchor(c) + k - 1
  <2>3. b \in Int /\ b # x
    BY <1>1, <1>2
  <2> HIDE DEF b
  <2>4. In(d, b) = In(c, b) /\ \A S \in SUBSET In(c, b) : Tally(d, S) = Tally(c, S)
    BY <2>3, OtherBucket
  <2>5. RowsAt(c, a, k) = {t \in In(c, b) : a \in t.assets} /\ RowsAt(d, a, k) = {t \in In(d, b) : a \in t.assets}
    BY DEF RowsAt, b
  <2>6. RowsAt(d, a, k) = RowsAt(c, a, k) /\ RowsAt(c, a, k) \in SUBSET In(c, b)
    BY <2>4, <2>5
  <2> QED BY <2>2, <2>4, <2>6
<1>5. m \in 1 .. i
  <2> DEFINE q == i - Baseline
             p == 1
  <2>1. q \in Int /\ p \in Int /\ p <= i /\ q <= i /\ p >= 1
    BY <1>2
  <2> HIDE DEF q, p
  <2>2. Max({p, q}) \in {p, q} /\ p <= Max({p, q})
    BY <2>1, OfTwo
  <2>3. Max({p, q}) \in Int
    BY <2>1, <2>2
  <2>4. Max({p, q}) >= 1 /\ Max({p, q}) <= i
    BY <2>1, <2>2, <2>3
  <2>5. Max({p, q}) \in 1 .. i
    BY <2>3, <2>4
  <2> QED BY <2>5 DEF q, p
<1>6. Surge(c, a, i) => i > MinHistory /\ ZAtLeast(s[i], SubSeq(s, m, i - 1), SurgeThreshold)
  BY DEF Surge
<1>7. i > MinHistory /\ ZAtLeast(u[i], SubSeq(u, m, i - 1), SurgeThreshold) => Surge(d, a, i)
  BY DEF Surge
<1> HIDE DEF s, u, m
<1>8. SubSeq(u, m, i - 1) = SubSeq(s, m, i - 1)
  <2> DEFINE n == i - 1
             h == SubSeq(s, m, n)
             g == SubSeq(u, m, n)
  <2>1. n \in Int /\ m \in 1 .. Len(s) + 1 /\ n \in m - 1 .. Len(s) /\ m \in 1 .. Len(u) + 1 /\ n \in m - 1 .. Len(u)
        /\ n <= i /\ m \in Int /\ m >= 1
    BY <1>2, <1>3, <1>5
  <2> HIDE DEF n
  <2>a. s \in Seq(Nat) /\ u \in Seq(Nat) /\ m <= n + 1 /\ n <= Len(s) /\ n <= Len(u)
    BY <1>3, <2>1
  <2>2. h \in Seq(Nat) /\ Len(h) = n - m + 1 /\ \A k \in 1 .. n - m + 1 : h[k] = s[m + k - 1]
    BY <2>1, <2>a, StretchOf
  <2>3. g \in Seq(Nat) /\ Len(g) = n - m + 1 /\ \A k \in 1 .. n - m + 1 : g[k] = u[m + k - 1]
    BY <2>1, <2>a, StretchOf
  <2>4. \A k \in 1 .. n - m + 1 : g[k] = h[k]
    <3> SUFFICES ASSUME NEW k \in 1 .. n - m + 1 PROVE g[k] = h[k]
      OBVIOUS
    <3>1. m + k - 1 \in 1 .. i
      BY <1>2, <2>1
    <3>2. u[m + k - 1] = s[m + k - 1]
      BY <1>4, <3>1
    <3> QED BY <2>2, <2>3, <3>2
  <2> HIDE DEF h, g
  <2>5. g = h
    BY <2>2, <2>3, <2>4, SeqEqual
  <2> QED BY <2>5 DEF g, h, n
<1>9. u[i] = s[i]
  BY <1>2, <1>4
<1> QED BY <1>6, <1>7, <1>8, <1>9

\* What is said of surges before a bucket: an asset, and the place after that of the surge.
LEMMA SurgesSaid ==
    ASSUME NEW c, Timely(c), NEW x \in Int, report = "spillover", NEW e
    PROVE  e \in SaidBefore(c, x) <=>
               /\ Timed(c) # {}
               /\ \E a \in Assets(c), i \in 1 .. TotalBuckets(c) :
                     e = <<a, i + Anchor(c)>> /\ i <= x - Anchor(c) /\ Surge(c, a, i)
<1>1. CASE Timed(c) = {}
  <2>1. SaidBefore(c, x) = {}
    BY <1>1 DEF SaidBefore
  <2> QED BY <1>1, <2>1
<1>2. CASE Timed(c) # {}
  <2> DEFINE A == {<<a, i + Anchor(c)>> : a \in Assets(c), i \in 1 .. x - Anchor(c)}
             Q == {q \in Assets(c) \X (1 .. TotalBuckets(c)) : Surge(c, q[1], q[2])}
             B == {<<p[1], p[2] + Anchor(c)>> : p \in Q}
  <2>1. SaidBefore(c, x) = A \cap B
    BY <1>2 DEF SaidBefore
  <2>2. Anchor(c) \in Int /\ TotalBuckets(c) \in Nat
    BY <1>2, GridOf
  <2>3. ASSUME NEW a \in Assets(c), NEW i \in 1 .. TotalBuckets(c),
               e = <<a, i + Anchor(c)>>, i <= x - Anchor(c), Surge(c, a, i)
        PROVE  e \in A \cap B
    <3>1. <<a, i>> \in Q /\ i \in 1 .. x - Anchor(c)
      BY <2>2, <2>3
    <3>2. <<a, i + Anchor(c)>> \in B
      BY <3>1
    <3>3. <<a, i + Anchor(c)>> \in A
      BY <3>1
    <3> QED BY <2>3, <3>2, <3>3
  <2>4. ASSUME e \in A, e \in B
        PROVE  \E a \in Assets(c), i \in 1 .. TotalBuckets(c) :
                  e = <<a, i + Anchor(c)>> /\ i <= x - Anchor(c) /\ Surge(c, a, i)
    <3>1. PICK a \in Assets(c), i \in 1 .. x - Anchor(c) : e = <<a, i + Anchor(c)>>
      BY <2>4
    <3>2. PICK p \in Q : e = <<p[1], p[2] + Anchor(c)>>
      BY <2>4
    <3>3. PICK b \in Assets(c), k \in 1 .. TotalBuckets(c) : p = <<b, k>>
      BY <3>2
    <3>4. Surge(c, b, k) /\ e = <<b, k + Anchor(c)>>
      BY <3>2, <3>3
    <3>5. b = a /\ k + Anchor(c) = i + Anchor(c)
      BY <3>1, <3>4
    <3>6. k = i
      BY <2>2, <3>1, <3>3, <3>5
    <3>7. i <= x - Anchor(c)
      BY <2>2, <3>1
    <3> QED BY <3>3, <3>4, <3>5, <3>6, <3>7
  <2> HIDE DEF A, B
  <2> QED BY <1>2, <2>1, <2>3, <2>4
<1> QED BY <1>1, <1>2

\* What the spillover report said of surges before a bucket, it says still.
LEMMA SurgesStay ==
    ASSUME NEW c, NEW d, NEW x, BarBucket(c, d, x), report = "spillover", NEW e \in SaidBefore(c, x)
    PROVE  e \in SaidBefore(d, x)
<1>1. Timely(c) /\ Timely(d) /\ x \in Int
  BY DEF BarBucket
<1>2. PICK a \in Assets(c), i \in 1 .. TotalBuckets(c) :
         e = <<a, i + Anchor(c)>> /\ i <= x - Anchor(c) /\ Surge(c, a, i)
  BY <1>1, SurgesSaid
<1>3. Timed(c) # {}
  BY <1>1, SurgesSaid
<1>4. Anchor(c) \in Int
  BY <1>1, <1>3, GridOf
<1>5. PICK t \in In(c, Anchor(c) + i - 1) : a \in t.assets
  BY <1>1, <1>2, SeriesFacts DEF RowsAt
<1> DEFINE b == Anchor(c) + i - 1
<1>6. b \in Int /\ b < x /\ b >= Anchor(c)
  BY <1>1, <1>2, <1>4
<1>7. \A y \in Int : y < x => In(d, y) = In(c, y)
  <2> SUFFICES ASSUME NEW y \in Int, y < x PROVE In(d, y) = In(c, y)
    OBVIOUS
  <2>1. y # x
    BY <1>1
  <2> QED BY <2>1, OtherBucket
<1>8. t \in Timed(d) /\ Bucket(t.at) = b
  <2>1. t \in In(d, b)
    BY <1>5, <1>6, <1>7
  <2> QED BY <1>5, <2>1 DEF In, Timed
<1>9. Anchor(d) \in Int /\ Anchor(d) <= b /\ b - Anchor(d) + 1 \in 1 .. TotalBuckets(d)
  BY <1>1, <1>8, GridOf
<1>10. Anchor(d) = Anchor(c)
  <2>1. PICK u \in Timed(c) : Bucket(u.at) = Anchor(c)
    BY <1>1, <1>3, GridOf
  <2>2. PICK v \in Timed(d) : Bucket(v.at) = Anchor(d)
    BY <1>1, <1>8, GridOf
  <2>3. u \in Timed(d)
    <3>1. u \in In(c, Anchor(c)) /\ Anchor(c) < x
      BY <1>1, <1>4, <1>6, <2>1 DEF In, Timed
    <3>2. u \in In(d, Anchor(c))
      BY <1>4, <1>7, <3>1
    <3> QED BY <2>1, <3>2 DEF In, Timed
  <2>4. v \in Timed(c)
    <3>1. v \in In(d, Anchor(d)) /\ Anchor(d) < x
      BY <1>1, <1>6, <1>9, <2>2 DEF In, Timed
    <3>2. v \in In(c, Anchor(d))
      BY <1>7, <1>9, <3>1
    <3> QED BY <2>2, <3>2 DEF In, Timed
  <2>5. Anchor(d) <= Anchor(c) /\ Anchor(c) <= Anchor(d)
    <3>1. Anchor(d) <= Bucket(u.at) /\ Anchor(c) <= Bucket(v.at)
      BY <1>1, <2>3, <2>4, GridOf
    <3> QED BY <2>1, <2>2, <3>1
  <2> QED BY <1>4, <1>9, <2>5
<1>11. i \in 1 .. TotalBuckets(d)
  <2>1. b - Anchor(d) + 1 = i
    BY <1>4, <1>10
  <2> HIDE DEF b
  <2> QED BY <1>9, <2>1
<1>12. Surge(d, a, i)
  BY <1>2, <1>4, <1>6, <1>10, <1>11, SurgeStays
<1>13. a \in Assets(d)
  BY <1>5, <1>8 DEF Assets
<1>14. Timed(d) # {} /\ e = <<a, i + Anchor(d)>> /\ i <= x - Anchor(d)
  BY <1>2, <1>8, <1>10
<1> QED BY <1>1, <1>11, <1>12, <1>13, <1>14, SurgesSaid

\* Whatever the report, what it said of the buckets before x it says still.
LEMMA SaidStays ==
    ASSUME NEW c, NEW d, NEW x, BarBucket(c, d, x)
    PROVE  SaidBefore(d, x) = SaidBefore(c, x)
<1>1. BarBucket(d, c, x)
  BY DEF BarBucket
<1>2. CASE report = "anomalies"
  <2> DEFINE A(e) == {a \in VolumeAnomalies(e) : a.bucket < x}
             B(e) == {a \in SentimentShocks(e) : a.bucket < x}
             P(e) == {p \in SymbolBursts(e) : p[2] < x}
  <2>1. A(c) \subseteq A(d) /\ A(d) \subseteq A(c) /\ B(c) \subseteq B(d) /\ B(d) \subseteq B(c)
        /\ P(c) \subseteq P(d) /\ P(d) \subseteq P(c)
    BY <1>1, AnomaliesStay
  <2>2. SaidBefore(c, x) = <<A(c), B(c), P(c)>> /\ SaidBefore(d, x) = <<A(d), B(d), P(d)>>
    BY <1>2 DEF SaidBefore
  <2> HIDE DEF A, B, P
  <2>3. A(c) = A(d) /\ B(c) = B(d) /\ P(c) = P(d)
    BY <2>1
  <2> QED BY <2>2, <2>3
<1>3. CASE report = "regime"
  <2> DEFINE A(e) == {r \in Range(Regimes(e)) : r.bucket < x}
  <2>1. A(c) \subseteq A(d) /\ A(d) \subseteq A(c)
    BY <1>1, RegimesStay
  <2>2. SaidBefore(c, x) = A(c) /\ SaidBefore(d, x) = A(d)
    BY <1>3 DEF SaidBefore
  <2> HIDE DEF A
  <2> QED BY <2>1, <2>2
<1>4. CASE report = "spillover"
  BY <1>1, <1>4, SurgesStay
<1>5. CASE report \notin {"anomalies", "regime", "spillover"}
  <2>1. SaidBefore(c, x) = {} /\ SaidBefore(d, x) = {}
    BY <1>5 DEF SaidBefore
  <2> QED BY <2>1
<1> QED BY <1>2, <1>3, <1>4, <1>5

\* A step leaves what was said of the buckets before its row.
LEMMA NothingAhead ==
    ASSUME CorpusInv, [Next]_vars
    PROVE  \A s \in DOMAIN corpus :
              corpus'[s] > corpus[s] => SaidBefore(corpus', Bucket(s.at)) = SaidBefore(corpus, Bucket(s.at))
<1> SUFFICES ASSUME NEW s \in DOMAIN corpus, corpus'[s] > corpus[s]
             PROVE  SaidBefore(corpus', Bucket(s.at)) = SaidBefore(corpus, Bucket(s.at))
  OBVIOUS
<1>1. Grows(corpus, corpus', s)
  BY RowIsStored
<1>2. CASE report \in {"anomalies", "regime", "spillover"}
  <2>1. \A t \in Shape[report] : t.at \in Int
    BY <1>2, SurgeAssumption DEF CorpusInv
  <2>2. Bucket(s.at) \in Int
    BY <1>1, <2>1, SurgeAssumption DEF Bucket, Grows
  <2>3. BarBucket(corpus, corpus', Bucket(s.at))
    BY <1>1, <2>1, <2>2 DEF BarBucket, Timely, Grows
  <2> QED BY <2>3, SaidStays
<1>3. CASE report \notin {"anomalies", "regime", "spillover"}
  BY <1>3 DEF SaidBefore
<1> QED BY <1>2, <1>3

\* No signal looks ahead.
LEMMA PeekKeeps == Spec => NoPeekAhead
BY NothingAhead, CorpusCorrect, PTL DEF Spec, NoPeekAhead

\* Whatever is captured changes nothing outside its place.
THEOREM PlaceCorrect == Spec => NewRowKeepsItsPlace
BY PeekKeeps, UndatedKeeps, RetoldCorrect DEF NewRowKeepsItsPlace

-----------------------------------------------------------------------------
(* Readiness and the feed packs (api.py, feed_pack.py).                      *)

\* Every check that is red is an issue, and no other is.
LEMMA HealthHolds == HealthIsItsChecks
<1> DEFINE h == DeepHealth(corpus)
           C(x) == corpus[x] > 0
           supervised == ~C("no_supervisor")
           polled == C("poller") /\ C("polled_before")
<1>1. h.issues = {} <=>
         /\ ~C("clock_is_off") /\ ~C("no_supervisor") /\ ~C("disk_fails") /\ ~C("disk_is_low")
         /\ ~(supervised /\ C("database_fails")) /\ ~(supervised /\ C("schema_is_old"))
         /\ ~(polled /\ C("last_poll_is_old"))
  <2> DEFINE A == {x \in {"clock_is_off", "no_supervisor", "disk_fails", "disk_is_low"} : C(x)}
             B == {x \in {"database_fails", "schema_is_old"} : supervised /\ C(x)}
             D == {x \in {"last_poll_is_old"} : polled /\ C(x)}
  <2>1. h.issues = A \cup B \cup D
    BY DEF DeepHealth
  <2>2. A = {} <=> ~C("clock_is_off") /\ ~C("no_supervisor") /\ ~C("disk_fails") /\ ~C("disk_is_low")
    BY Zenon
  <2>3. B = {} <=> ~(supervised /\ C("database_fails")) /\ ~(supervised /\ C("schema_is_old"))
    BY Zenon
  <2>4. D = {} <=> ~(polled /\ C("last_poll_is_old"))
    BY Zenon
  <2> HIDE DEF A, B, D, C
  <2>5. h.issues = {} <=> A = {} /\ B = {} /\ D = {}
    BY <2>1
  <2> QED BY <2>2, <2>3, <2>4, <2>5
<1>2. (\A x \in DOMAIN h.ok : h.ok[x]) <=>
         /\ ~C("clock_is_off") /\ supervised /\ (supervised /\ ~C("database_fails"))
         /\ ~(polled /\ C("last_poll_is_old"))
         /\ (supervised /\ ~C("database_fails") /\ ~C("schema_is_old"))
         /\ (~C("disk_fails") /\ ~C("disk_is_low"))
  <2>1. h.ok = [uptime |-> ~C("clock_is_off"), supervisor |-> supervised,
                sqlite |-> supervised /\ ~C("database_fails"),
                poller |-> ~(polled /\ C("last_poll_is_old")),
                schema |-> supervised /\ ~C("database_fails") /\ ~C("schema_is_old"),
                disk |-> ~C("disk_fails") /\ ~C("disk_is_low")]
    BY DEF DeepHealth
  <2> DEFINE a == ~C("clock_is_off")
             b == supervised
             d == supervised /\ ~C("database_fails")
             e == ~(polled /\ C("last_poll_is_old"))
             f == supervised /\ ~C("database_fails") /\ ~C("schema_is_old")
             g == ~C("disk_fails") /\ ~C("disk_is_low")
  <2>2. h.ok = [uptime |-> a, supervisor |-> b, sqlite |-> d, poller |-> e, schema |-> f, disk |-> g]
    BY <2>1
  <2> DEFINE ok == h.ok
  <2>3. ok = [uptime |-> a, supervisor |-> b, sqlite |-> d, poller |-> e, schema |-> f, disk |-> g]
    BY <2>2
  <2> HIDE DEF ok, a, b, d, e, f, g
  <2>4. DOMAIN ok = {"uptime", "supervisor", "sqlite", "poller", "schema", "disk"}
    BY <2>3
  <2>5. (\A x \in DOMAIN ok : ok[x]) <=>
           ok["uptime"] /\ ok["supervisor"] /\ ok["sqlite"] /\ ok["poller"] /\ ok["schema"] /\ ok["disk"]
    BY <2>4, Zenon
  <2>6. /\ ok["uptime"] = a /\ ok["supervisor"] = b /\ ok["sqlite"] = d
        /\ ok["poller"] = e /\ ok["schema"] = f /\ ok["disk"] = g
    BY <2>3
  <2>7. (\A x \in DOMAIN ok : ok[x]) <=> a /\ b /\ d /\ e /\ f /\ g
    BY <2>5, <2>6, Zenon
  <2> QED BY <2>7 DEF ok, a, b, d, e, f, g
<1>3. StatusCode(h) = 200 <=> h.issues = {}
  BY DEF StatusCode
<1> DEFINE green == \A x \in DOMAIN h.ok : h.ok[x]
<1>4. (StatusCode(h) = 200) = green
  <2>1. (StatusCode(h) = 200) <=> green
    <3> HIDE DEF C, h
    <3> QED BY <1>1, <1>2, <1>3
  <2> QED BY <2>1
<1> QED BY <1>4 DEF HealthIsItsChecks

\* Feeds that differ in name and in url.
Distinct(A) == \A s, t \in A : s.name = t.name \/ s.url = t.url => s = t

\* What is admitted are specs, no two of one name or one url.
LEMMA FeedsDiffer ==
    ASSUME CorpusInv, report = "feeds"
    PROVE  AssembleFeeds(corpus) \in SUBSET Filled(corpus) /\ Distinct(AssembleFeeds(corpus))
<1> DEFINE F == Filled(corpus)
           R == {p \in F \X F : p[1].nth < p[2].nth}
           prior == [x \in F |-> {y \in F : y.nth < x.nth}]
           rank == [x \in F |-> Cardinality({y \in F : y.nth < x.nth}) + 1]
           specs == InOrder(F, LAMBDA s, t : s.nth < t.nth)
<1>1. IsFiniteSet(F) /\ F \in SUBSET Shape[report] /\ report \in DOMAIN Shape
  BY CorpusFinite DEF CorpusInv
<1>2. \A s \in F : s.nth \in Int /\ \A t \in F : s.nth = t.nth => s = t
  <2> HIDE DEF F
  <2>1. \A s \in Shape[report] : s.nth \in Int /\ \A t \in Shape[report] : s.nth = t.nth => s = t
    <3>1. \A r \in DOMAIN Shape : \A s \in Shape[r] :
             r = "feeds" => s.nth \in Int /\ \A t \in Shape[r] : s.nth = t.nth => s = t
      BY ViewsAssumption, ZenonT(60)
    <3> QED BY <1>1, <3>1
  <2> QED BY <1>1, <2>1
<1> HIDE DEF F
<1>3. Lists(specs, F, R)
  <2>1. Orders(R, F)
    BY <1>2 DEF Orders
  <2>2. Ranks(rank, prior, R, F)
    BY DEF Ranks
  <2>3. specs = [n \in 1 .. Cardinality(F) |-> CHOOSE x \in F : rank[x] = n]
    <3>1. specs = [n \in 1 .. Cardinality(F) |-> CHOOSE x \in F : Cardinality({y \in F : y.nth < x.nth}) + 1 = n]
      BY DEF InOrder
    <3>2. \A n : (CHOOSE x \in F : Cardinality({y \in F : y.nth < x.nth}) + 1 = n) = (CHOOSE x \in F : rank[x] = n)
      OBVIOUS
    <3> HIDE DEF rank
    <3> QED BY <3>1, <3>2
  <2> HIDE DEF R, prior, rank, specs
  <2> QED BY <1>1, <2>1, <2>2, <2>3, Listed
<1> DEFINE k == Cardinality(F)
           N == k + 1
<1>4. k \in Nat /\ N \in Nat /\ N >= 1
  BY <1>1, FS_CardinalityType
<1>5. Len(specs) = k /\ \A n \in 1 .. k : specs[n] \in F
  <2> HIDE DEF specs, R
  <2> QED BY <1>3 DEF Lists, Range
<1> DEFINE V == {A \in SUBSET F : Distinct(A)}
           more(A, s) == A \cup {x \in {s} : \A t \in A : t.name # x.name /\ t.url # x.url}
           step == [n \in 1..N |-> [A \in V |-> more(A, specs[n - 1])]]
           prev == [n \in 1..N |-> n - 1]
           Solves(u) == u = [n \in 1..N |-> IF n = 1 THEN {} ELSE more(u[n - 1], specs[n - 1])]
           mean == CHOOSE u : Solves(u)
<1>6. {} \in V
  BY DEF Distinct
<1>7. ASSUME NEW A \in V, NEW s \in F
      PROVE  more(A, s) \in V
  <2>1. Distinct(more(A, s))
    BY DEF Distinct
  <2> QED BY <2>1
<1>8. \A n \in 1..N : n # 1 => n - 1 \in 1..N /\ n - 1 \in 1 .. n - 1 /\ specs[n - 1] \in F
  <2> SUFFICES ASSUME NEW n \in 1..N, n # 1
               PROVE  n - 1 \in 1..N /\ n - 1 \in 1 .. n - 1 /\ specs[n - 1] \in F
    OBVIOUS
  <2>1. n - 1 \in 1 .. k /\ n - 1 \in 1..N /\ n - 1 \in 1 .. n - 1
    BY <1>4
  <2> HIDE DEF specs
  <2> QED BY <1>5, <2>1
<1>9. (\A n \in 1..N : \A A \in V : step[n][A] = more(A, specs[n - 1])) /\ \A n \in 1..N : prev[n] = n - 1
  OBVIOUS
<1>10. AssembleFeeds(corpus) = mean[N]
  <2>1. AssembleFeeds(corpus) =
           (CHOOSE u : u = [n \in 1 .. Len(specs) + 1 |->
               IF n = 1 THEN {} ELSE u[n - 1] \cup {s \in {specs[n - 1]} : \A t \in u[n - 1] :
                                                       t.name # s.name /\ t.url # s.url}])[Len(specs) + 1]
    BY DEF AssembleFeeds, F
  <2> HIDE DEF specs
  <2> QED BY <1>5, <2>1
<1> HIDE DEF V, step, prev, N, specs
<1>11. /\ \E u : Recurs(u, N, {}, step, prev)
       /\ \A u : Recurs(u, N, {}, step, prev) => \A i \in 1..N : u[i] \in V
  <2> HIDE DEF more
  <2>1. StepsWithin(step, N, V)
    BY <1>7, <1>8, <1>9 DEF StepsWithin
  <2>2. Backwards(prev, N)
    BY <1>8, <1>9 DEF Backwards
  <2> QED BY <1>4, <1>6, <2>1, <2>2, Recursion
<1>12. \E u : Solves(u)
  <2>1. PICK u : Recurs(u, N, {}, step, prev)
    BY <1>11
  <2>2. \A i \in 1..N : u[i] \in V
    BY <1>11, <2>1
  <2> HIDE DEF more
  <2>3. \A i \in 1..N : i # 1 => step[i][u[prev[i]]] = more(u[i - 1], specs[i - 1])
    BY <1>8, <1>9, <2>2
  <2>4. u = [i \in 1..N |-> IF i = 1 THEN {} ELSE step[i][u[prev[i]]]]
    BY <2>1 DEF Recurs
  <2>5. u = [i \in 1..N |-> IF i = 1 THEN {} ELSE more(u[i - 1], specs[i - 1])]
    BY <2>3, <2>4
  <2> QED BY <2>5
<1>13. Solves(mean)
  <2> HIDE DEF Solves
  <2> QED BY <1>12
<1>14. \A i \in 1..N : mean[i] = IF i = 1 THEN {} ELSE more(mean[i - 1], specs[i - 1])
  <2> HIDE DEF mean, more
  <2> QED BY <1>13
<1> HIDE DEF mean, more
<1>15. \A i \in 1..N : mean[i] \in V
  <2> DEFINE M == {m \in Nat : \A i \in 1..N : i <= m => mean[i] \in V}
  <2>1. 0 \in M
    OBVIOUS
  <2>2. ASSUME NEW m \in Nat, m \in M
        PROVE  m + 1 \in M
    <3> SUFFICES ASSUME NEW i \in 1..N, i <= m + 1 PROVE mean[i] \in V
      OBVIOUS
    <3>1. CASE i = 1
      BY <1>6, <1>14, <3>1
    <3>2. CASE i # 1
      <4>1. i - 1 \in 1..N /\ i - 1 <= m /\ specs[i - 1] \in F
        BY <1>8, <2>2, <3>2
      <4>2. mean[i - 1] \in V
        BY <2>2, <4>1
      <4> QED BY <1>7, <1>14, <3>2, <4>1, <4>2
    <3> QED BY <3>1, <3>2
  <2> HIDE DEF M
  <2>3. \A m \in Nat : m \in M
    BY <2>1, <2>2, SetInduction
  <2>4. N \in M
    BY <1>4, <2>3
  <2> QED BY <1>4, <2>4 DEF M
<1>16. AssembleFeeds(corpus) \in V
  BY <1>4, <1>10, <1>15
<1> QED BY <1>16 DEF V, F

\* A finite set broken down by what g says of its elements.
LEMMA BrokenDown ==
    ASSUME NEW S, IsFiniteSet(S), NEW g, NEW h,
           h = [k \in {g[x] : x \in S} |-> Cardinality({x \in S : g[x] = k})]
    PROVE  AddUp(h) = Cardinality(S)
<1> DEFINE K == {g[x] : x \in S}
           part == [k \in K |-> {x \in S : g[x] = k}]
<1>1. IsFiniteSet(K)
  BY ImageIsFinite
<1>2. \A x \in S : g[x] \in K
  OBVIOUS
<1>3. (\A k \in K : part[k] \subseteq S) /\ (\A k \in K : h[k] = Cardinality(part[k])) /\ DOMAIN h = K
  OBVIOUS
<1>4. \A x \in S : \A k \in K : x \in part[k] <=> g[x] = k
  OBVIOUS
<1> HIDE DEF K, part
<1>5. SumOver(h, K) = Cardinality(S)
  BY <1>1, <1>2, <1>3, <1>4, CountParts
<1> QED BY <1>3, <1>5, SequenceSum

\* The breakdowns of the feeds add up to them, and the badges to the rows.
LEMMA FeedsBalance == CorpusInv => FeedsAddUp
<1> SUFFICES ASSUME CorpusInv, report = "feeds"
             PROVE  LET a == Awareness(corpus)
                        n == NewsSources(corpus)
                    IN  /\ \A s, t \in AssembleFeeds(corpus) : s.name = t.name \/ s.url = t.url => s = t
                        /\ AddUp(a.parsers) = a.total /\ AddUp(a.categories) = a.total
                        /\ n.healthy + n.degraded + n.backedOff = n.total /\ n.total <= a.total
  BY DEF FeedsAddUp
<1> DEFINE F == AssembleFeeds(corpus)
           a == Awareness(corpus)
           n == NewsSources(corpus)
<1>1. IsFiniteSet(F) /\ Distinct(F)
  <2>1. F \in SUBSET Filled(corpus) /\ Distinct(F)
    BY FeedsDiffer
  <2> QED BY <2>1, CorpusFinite, FS_Subset
<1>2. /\ a.total = Cardinality(F)
      /\ a.parsers = [p \in {s.parser : s \in F} |-> Cardinality({s \in F : s.parser = p})]
      /\ a.categories = [k \in {Category(s) : s \in F} |-> Cardinality({s \in F : Category(s) = k})]
  BY DEF Awareness
<1> HIDE DEF F, a
<1>3. AddUp(a.parsers) = a.total
  <2> DEFINE g == [s \in F |-> s.parser]
             h == a.parsers
  <2>1. h = [k \in {g[x] : x \in F} |-> Cardinality({x \in F : g[x] = k})]
    <3>1. {g[x] : x \in F} = {s.parser : s \in F}
      OBVIOUS
    <3>2. \A k : {x \in F : g[x] = k} = {s \in F : s.parser = k}
      OBVIOUS
    <3>3. h = [k \in {s.parser : s \in F} |-> Cardinality({s \in F : s.parser = k})]
      BY <1>2
    <3> HIDE DEF g, h
    <3> QED BY <3>1, <3>2, <3>3
  <2> HIDE DEF g, h
  <2>2. AddUp(h) = Cardinality(F)
    BY <1>1, <2>1, BrokenDown
  <2> QED BY <1>2, <2>2 DEF h
<1>4. AddUp(a.categories) = a.total
  <2> DEFINE g == [s \in F |-> Category(s)]
             h == a.categories
  <2>1. h = [k \in {g[x] : x \in F} |-> Cardinality({x \in F : g[x] = k})]
    <3>1. {g[x] : x \in F} = {Category(s) : s \in F}
      OBVIOUS
    <3>2. \A k : {x \in F : g[x] = k} = {s \in F : Category(s) = k}
      OBVIOUS
    <3>3. h = [k \in {Category(s) : s \in F} |-> Cardinality({s \in F : Category(s) = k})]
      BY <1>2
    <3> HIDE DEF g, h
    <3> QED BY <3>1, <3>2, <3>3
  <2> HIDE DEF g, h
  <2>2. AddUp(h) = Cardinality(F)
    BY <1>1, <2>1, BrokenDown
  <2> QED BY <1>2, <2>2 DEF h
<1>5. n.healthy + n.degraded + n.backedOff = n.total /\ n.total <= a.total
  <2> DEFINE seen == {s \in F : s.polls > 0 \/ s.backedOff}
             In3(x) == {s \in seen : LastStatus(s) = x}
             P == In3("ok")
             Q == In3("error")
             R == In3("backed_off")
  <2>1. /\ n.total = Cardinality(seen) /\ n.healthy = Cardinality(P)
        /\ n.degraded = Cardinality(Q) /\ n.backedOff = Cardinality(R)
    BY DEF NewsSources, F
  <2>2. \A s \in seen : LastStatus(s) \in {"ok", "error", "backed_off"}
    BY DEF LastStatus
  <2>3. seen = (P \cup Q) \cup R /\ P \cap Q = {} /\ (P \cup Q) \cap R = {} /\ seen \in SUBSET F
    BY <2>2
  <2> HIDE DEF P, Q, R, seen
  <2>4. IsFiniteSet(seen) /\ Cardinality(seen) <= Cardinality(F) /\ IsFiniteSet(P) /\ IsFiniteSet(Q) /\ IsFiniteSet(R)
    <3>1. IsFiniteSet(seen) /\ Cardinality(seen) <= Cardinality(F)
      BY <1>1, <2>3, FS_Subset
    <3>2. P \in SUBSET seen /\ Q \in SUBSET seen /\ R \in SUBSET seen
      BY <2>3
    <3> QED BY <3>1, <3>2, FS_Subset
  <2>5. IsFiniteSet(P \cup Q) /\ Cardinality(P \cup Q) = Cardinality(P) + Cardinality(Q) - Cardinality(P \cap Q)
    BY <2>4, FS_Union
  <2>6. Cardinality((P \cup Q) \cup R) = Cardinality(P \cup Q) + Cardinality(R) - Cardinality((P \cup Q) \cap R)
    BY <2>4, <2>5, FS_Union
  <2>7. Cardinality({}) = 0 /\ Cardinality(P) \in Nat /\ Cardinality(Q) \in Nat /\ Cardinality(R) \in Nat
    BY <2>4, FS_EmptySet, FS_CardinalityType
  <2> HIDE DEF n
  <2>8. Cardinality(seen) = Cardinality(P) + Cardinality(Q) + Cardinality(R)
    <3>1. Cardinality(P \cap Q) = 0 /\ Cardinality((P \cup Q) \cap R) = 0 /\ Cardinality(seen) = Cardinality((P \cup Q) \cup R)
      BY <2>3, <2>7
    <3> DEFINE p == Cardinality(P)
               q == Cardinality(Q)
               r == Cardinality(R)
               m == Cardinality(P \cup Q)
    <3>2. m = p + q - 0 /\ Cardinality(seen) = m + r - 0 /\ p \in Nat /\ q \in Nat /\ r \in Nat
      BY <2>5, <2>6, <2>7, <3>1, Zenon
    <3> HIDE DEF m
    <3>3. Cardinality(seen) = p + q + r
      <4> HIDE DEF p, q, r
      <4> QED BY <3>2
    <3> QED BY <3>3
  <2> QED BY <1>2, <2>1, <2>4, <2>8
<1> QED BY <1>1, <1>3, <1>4, <1>5 DEF F, a, Distinct

-----------------------------------------------------------------------------
(* Windows of a table (storage.py): the newest n rows.                       *)

\* The number of rows of f before x, in the order R.
Precedes(before, f, R, S) == \A x \in S : before[x] = SumOver(f, {t \in S : <<t, x>> \in R})

\* g takes n rows off f, in that order.
Takes(g, n, f, before, S) ==
    \A x \in S : g[x] = IF before[x] >= n THEN 0 ELSE IF f[x] < n - before[x] THEN f[x] ELSE n - before[x]

\* It takes n, or all there are.
LEMMA TakesAll ==
    ASSUME NEW S, IsFiniteSet(S), NEW R, Orders(R, S), NEW f, \A x \in S : f[x] \in Nat, NEW n \in Nat,
           NEW before, Precedes(before, f, R, S), NEW g, Takes(g, n, f, before, S)
    PROVE  SumOver(g, S) = IF SumOver(f, S) < n THEN SumOver(f, S) ELSE n
<1> DEFINE prior == [x \in S |-> {t \in S : <<t, x>> \in R}]
           rank == [x \in S |-> Cardinality(prior[x]) + 1]
           m == Cardinality(S)
           T(k) == {x \in S : rank[x] <= k}
           Cap(v) == IF v < n THEN v ELSE n
           G == {k \in Nat : SumOver(g, T(k)) = Cap(SumOver(f, T(k)))}
<1>1. Ranks(rank, prior, R, S)
  BY DEF Ranks
<1>2. \A x \in S : prior[x] = {t \in S : <<t, x>> \in R}
  OBVIOUS
<1> HIDE DEF rank, prior
<1>3. m \in Nat
  BY FS_CardinalityType
<1>4. /\ \A x \in S : rank[x] \in 1..m
      /\ \A x, y \in S : <<x, y>> \in R => rank[x] < rank[y]
      /\ \A x, y \in S : rank[x] = rank[y] => x = y
  BY <1>1, Ranked
<1> HIDE DEF m
<1>5. \A x \in S : rank[x] \in Nat \ {0} /\ rank[x] <= m
  BY <1>3, <1>4
<1>6. \A k \in Nat : T(k) \in SUBSET S /\ IsFiniteSet(T(k))
  <2> SUFFICES ASSUME NEW k \in Nat PROVE T(k) \in SUBSET S /\ IsFiniteSet(T(k))
    OBVIOUS
  <2>1. T(k) \in SUBSET S
    OBVIOUS
  <2> HIDE DEF T
  <2> QED BY <2>1, FS_Subset
<1>7. 0 \in G
  <2>1. T(0) = {}
    BY <1>5
  <2> HIDE DEF T
  <2> QED BY <2>1, SumEmpty
<1>8. ASSUME NEW k \in Nat, k \in G
      PROVE  k + 1 \in G
  <2>1. CASE \A x \in S : rank[x] # k + 1
    <3>1. T(k + 1) = T(k)
      BY <1>5, <2>1
    <3> HIDE DEF T
    <3> QED BY <1>8, <3>1
  <2>2. CASE \E x \in S : rank[x] = k + 1
    <3>1. PICK x \in S : rank[x] = k + 1
      BY <2>2
    <3>2. T(k + 1) = T(k) \cup {x} /\ x \notin T(k)
      BY <1>4, <1>5, <3>1
    <3>3. {t \in S : <<t, x>> \in R} = T(k)
      <4>1. ASSUME NEW t \in S
            PROVE  <<t, x>> \in R <=> rank[t] <= k
        <5>1. CASE <<t, x>> \in R
          BY <1>4, <1>5, <3>1, <5>1
        <5>2. CASE rank[t] <= k
          <6>1. t # x /\ ~ (rank[x] < rank[t])
            BY <1>5, <3>1, <5>2
          <6>2. <<x, t>> \notin R
            BY <1>4, <6>1
          <6> QED BY <5>2, <6>1, <6>2, <5>1 DEF Orders
        <5> QED BY <5>1, <5>2
      <4> QED BY <4>1
    <3>4. before[x] = SumOver(f, T(k))
      BY <3>3 DEF Precedes
    <3> DEFINE b == SumOver(f, T(k))
               d == SumOver(g, T(k))
    <3>5. g[x] = IF b >= n THEN 0 ELSE IF f[x] < n - b THEN f[x] ELSE n - b
      BY <3>4 DEF Takes
    <3>6. \A y \in S : g[y] \in Int /\ f[y] \in Nat /\ f[y] \in Int
      <4> SUFFICES ASSUME NEW y \in S PROVE g[y] \in Int
        OBVIOUS
      <4>1. before[y] \in Nat
        <5> DEFINE P == {t \in S : <<t, y>> \in R}
        <5>1. IsFiniteSet(P) /\ \A t \in P : f[t] \in Nat
          BY FS_Subset
        <5> HIDE DEF P
        <5>2. SumOver(f, P) \in Nat
          BY <5>1, SumType
        <5> QED BY <5>2 DEF Precedes, P
      <4> QED BY <4>1 DEF Takes
    <3> HIDE DEF T
    <3>7. IsFiniteSet(T(k)) /\ T(k) \in SUBSET S
      BY <1>6
    <3>8. SumOver(f, T(k) \cup {x}) = f[x] + b
      BY <3>2, <3>6, <3>7, SumAdd
    <3>9. SumOver(g, T(k) \cup {x}) = g[x] + d
      BY <3>2, <3>6, <3>7, SumAdd
    <3>10. b \in Nat
      BY <3>6, <3>7, SumType
    <3>11. d = Cap(b)
      BY <1>8
    <3> DEFINE v == f[x]
               w == g[x]
    <3>12. w = (IF b >= n THEN 0 ELSE IF v < n - b THEN v ELSE n - b) /\ v \in Nat
      BY <3>5, <3>6
    <3> HIDE DEF b, d, v, w
    <3>13. w + d = Cap(v + b)
      BY <3>10, <3>11, <3>12
    <3>14. SumOver(g, T(k + 1)) = Cap(SumOver(f, T(k + 1)))
      BY <3>2, <3>8, <3>9, <3>13 DEF v, w
    <3> QED BY <3>14
  <2> QED BY <2>1, <2>2
<1> HIDE DEF G
<1>9. \A k \in Nat : k \in G
  BY <1>7, <1>8, SetInduction
<1>10. m \in G
  BY <1>3, <1>9
<1>11. T(m) = S
  BY <1>5
<1> HIDE DEF T
<1> QED BY <1>10, <1>11 DEF G

\* The least of two numbers, and that of two that is not negative.
LEMMA LeastOfTwo ==
    ASSUME NEW a \in Int, NEW b \in Int
    PROVE  Min({a, b}) = IF a < b THEN a ELSE b
<1>1. Min({a, b}) \in {a, b} /\ Min({a, b}) <= a /\ Min({a, b}) <= b
  BY OfTwo
<1> DEFINE m == Min({a, b})
<1>2. m \in {a, b} /\ m <= a /\ m <= b
  BY <1>1
<1> HIDE DEF m
<1>3. m = IF a < b THEN a ELSE b
  BY <1>2
<1> QED BY <1>3 DEF m

\* A number that is cut at nought and at another.
LEMMA CappedAt ==
    ASSUME NEW a \in Nat, NEW b \in Int
    PROVE  Max({0, Min({a, b})}) = IF b <= 0 THEN 0 ELSE IF a < b THEN a ELSE b
<1> DEFINE m == Min({a, b})
           z == 0
<1>1. m = (IF a < b THEN a ELSE b) /\ z \in Int /\ z = 0
  BY LeastOfTwo
<1> HIDE DEF m, z
<1>2. m \in Int
  BY <1>1
<1>3. Max({z, m}) \in {z, m} /\ z <= Max({z, m}) /\ m <= Max({z, m})
  BY <1>1, <1>2, OfTwo
<1> DEFINE x == Max({z, m})
<1>4. x \in {z, m} /\ z <= x /\ m <= x
  BY <1>3
<1> HIDE DEF x
<1>5. x = IF b <= 0 THEN 0 ELSE IF a < b THEN a ELSE b
  BY <1>1, <1>2, <1>4
<1> QED BY <1>5 DEF x, z, m

\* Rows S of a table c, each with its place.
Shelf(c, S) ==
    /\ IsFiniteSet(S) /\ \A s \in S : c[s] \in Nat /\ s.nth \in Int
    /\ \A s, t \in S : s.nth = t.nth => s = t

AtMost(v, n) == IF v < n THEN v ELSE n

\* The rows of part of a table are so many.
LEMMA ShelfCounts ==
    ASSUME NEW c, NEW S, Shelf(c, S)
    PROVE  \A T \in SUBSET S : /\ IsFiniteSet(T) /\ Shelf(c, T) /\ Tally(c, T) \in Nat
                               /\ \A U \in SUBSET T : Tally(c, U) \in Nat /\ Tally(c, U) <= Tally(c, T)
<1>1. ASSUME NEW T \in SUBSET S
      PROVE  IsFiniteSet(T) /\ Shelf(c, T) /\ Tally(c, T) \in Nat
  <2>1. IsFiniteSet(T) /\ \A s \in T : c[s] \in Nat
    BY FS_Subset DEF Shelf
  <2>2. SumOver(c, T) \in Nat
    BY <2>1, SumType
  <2> QED BY <2>1, <2>2, TallyIsSum DEF Shelf
<1>2. ASSUME NEW T \in SUBSET S, NEW U \in SUBSET T
      PROVE  Tally(c, U) \in Nat /\ Tally(c, U) <= Tally(c, T)
  <2>1. IsFiniteSet(T) /\ \A s \in T : c[s] \in Nat
    BY FS_Subset DEF Shelf
  <2>2. SumOver(c, U) <= SumOver(c, T)
    BY <2>1, SumOfPart
  <2>3. U \in SUBSET S
    OBVIOUS
  <2> QED BY <1>1, <2>2, <2>3, TallyIsSum
<1> QED BY <1>1, <1>2

\* The newest n are n of them, or all; and all of them if they are no more.
LEMMA NewestFacts ==
    ASSUME NEW c, NEW S, Shelf(c, S), NEW n \in Nat
    PROVE  /\ DOMAIN Newest(c, S, n) = S
           /\ \A s \in S : Newest(c, S, n)[s] \in Nat /\ Newest(c, S, n)[s] <= c[s]
           /\ Tally(Newest(c, S, n), S) = AtMost(Tally(c, S), n)
           /\ Tally(c, S) <= n => \A s \in S : Newest(c, S, n)[s] = c[s]
           /\ \A T \in SUBSET S : \A s \in T : Newest(c, S, n)[s] <= Newest(c, T, n)[s]
<1> DEFINE w == Newest(c, S, n)
           R == {p \in S \X S : p[1].nth > p[2].nth}
           Above(T, s) == Tally(c, {t \in T : t.nth > s.nth})
           before == [s \in S |-> Above(S, s)]
           Take(v, b) == IF b >= n THEN 0 ELSE IF v < n - b THEN v ELSE n - b
<1>1. IsFiniteSet(S) /\ \A s \in S : c[s] \in Nat
  BY DEF Shelf
<1>2. ASSUME NEW T \in SUBSET S
      PROVE  /\ \A s \in T : Newest(c, T, n)[s] = Max({0, Min({c[s], n - Above(T, s)})})
             /\ \A s \in T : Above(T, s) \in Nat
  <2>1. \A s \in T : Newest(c, T, n)[s] = Max({0, Min({c[s], n - Above(T, s)})})
    BY DEF Newest
  <2>2. ASSUME NEW s \in T
        PROVE  Above(T, s) \in Nat
    <3>1. {t \in T : t.nth > s.nth} \in SUBSET T
      OBVIOUS
    <3> QED BY <3>1, ShelfCounts
  <2> QED BY <2>1, <2>2
<1> HIDE DEF Above
<1>3. ASSUME NEW T \in SUBSET S, NEW s \in T
      PROVE  Newest(c, T, n)[s] = Take(c[s], Above(T, s)) /\ Above(T, s) \in Nat
  <2> DEFINE a == c[s]
             b == n - Above(T, s)
             d == Above(T, s)
  <2>1. d \in Nat /\ a \in Nat /\ b \in Int /\ b = n - d
    BY <1>1, <1>2
  <2>2. Newest(c, T, n)[s] = Max({0, Min({a, b})})
    BY <1>2
  <2> HIDE DEF a, b, d
  <2>3. Max({0, Min({a, b})}) = IF b <= 0 THEN 0 ELSE IF a < b THEN a ELSE b
    BY <2>1, CappedAt
  <2>4. Max({0, Min({a, b})}) = Take(a, d)
    BY <2>1, <2>3
  <2> QED BY <2>1, <2>2, <2>4 DEF a, d
<1>4. DOMAIN w = S
  BY DEF Newest
<1>5. \A s \in S : w[s] = Take(c[s], Above(S, s)) /\ Above(S, s) \in Nat
  BY <1>3
<1>6. \A s \in S : before[s] = Above(S, s)
  OBVIOUS
<1> HIDE DEF w
<1>7. \A s \in S : w[s] \in Nat /\ w[s] <= c[s]
  <2> SUFFICES ASSUME NEW s \in S PROVE w[s] \in Nat /\ w[s] <= c[s]
    OBVIOUS
  <2> DEFINE a == c[s]
             b == Above(S, s)
  <2>1. a \in Nat /\ b \in Nat /\ w[s] = Take(a, b)
    BY <1>1, <1>5
  <2> HIDE DEF a, b
  <2>2. Take(a, b) \in Nat /\ Take(a, b) <= a
    BY <2>1
  <2> QED BY <2>1, <2>2 DEF a
<1>8. SumOver(w, S) = AtMost(SumOver(c, S), n)
  <2>1. Orders(R, S)
    BY DEF Orders, Shelf
  <2>2. Precedes(before, c, R, S)
    <3> SUFFICES ASSUME NEW s \in S PROVE before[s] = SumOver(c, {t \in S : <<t, s>> \in R})
      BY DEF Precedes
    <3>1. {t \in S : <<t, s>> \in R} = {t \in S : t.nth > s.nth}
      OBVIOUS
    <3> HIDE DEF R
    <3> QED BY <1>6, <3>1, TallyIsSum DEF Above
  <2>3. Takes(w, n, c, before, S)
    BY <1>5, <1>6 DEF Takes
  <2> HIDE DEF R, before
  <2>4. SumOver(w, S) = IF SumOver(c, S) < n THEN SumOver(c, S) ELSE n
    BY <1>1, <2>1, <2>2, <2>3, TakesAll
  <2> QED BY <2>4 DEF AtMost
<1>9. SumOver(c, S) \in Nat
  BY <1>1, SumType
<1>10. ASSUME SumOver(c, S) <= n
       PROVE  \A s \in S : w[s] = c[s]
  <2>1. SumOver(w, S) = SumOver(c, S)
    BY <1>8, <1>9, <1>10 DEF AtMost
  <2>2. \A s \in S : w[s] \in Int /\ c[s] \in Int /\ w[s] <= c[s]
    BY <1>1, <1>7
  <2> QED BY <1>1, <2>1, <2>2, SumStrict
<1>11. ASSUME NEW T \in SUBSET S, NEW s \in T
       PROVE  w[s] <= Newest(c, T, n)[s]
  <2>1. Above(T, s) <= Above(S, s)
    <3>1. {t \in T : t.nth > s.nth} \in SUBSET {t \in S : t.nth > s.nth} /\ {t \in S : t.nth > s.nth} \in SUBSET S
      OBVIOUS
    <3> QED BY <3>1, ShelfCounts DEF Above
  <2> DEFINE a == c[s]
             b == Above(S, s)
             d == Above(T, s)
  <2>2. w[s] = Take(a, b) /\ Newest(c, T, n)[s] = Take(a, d) /\ a \in Nat /\ b \in Nat /\ d \in Nat /\ d <= b
    BY <1>1, <1>3, <1>5, <2>1
  <2> HIDE DEF a, b, d
  <2>3. Take(a, b) <= Take(a, d)
    BY <2>2
  <2> QED BY <2>2, <2>3
<1> QED BY <1>4, <1>7, <1>8, <1>10, <1>11, TallyIsSum DEF w

-----------------------------------------------------------------------------
(* Panels that break a table down (api.py).                                  *)

\* A table: how many rows there are of each shape.
IsTable(w) ==
    /\ IsFiniteSet(DOMAIN w)
    /\ \A s \in DOMAIN w : w[s] \in Nat /\ IsFiniteSet(s.assets) /\ IsFiniteSet(s.reasons)

\* Shapes without rows do not count.
LEMMA FilledCount ==
    ASSUME NEW w, IsTable(w), NEW T \in SUBSET DOMAIN w
    PROVE  /\ IsFiniteSet(T) /\ Tally(w, T) \in Nat /\ Tally(w, T \cap Filled(w)) = Tally(w, T)
           /\ \A f : (\A s \in T : f[s] \in Nat) /\ (\A s \in T \ Filled(w) : f[s] = 0)
                        => SumOver(f, T \cap Filled(w)) = SumOver(f, T)
<1>1. IsFiniteSet(T) /\ \A s \in T : w[s] \in Nat
  BY FS_Subset DEF IsTable
<1>2. ASSUME NEW f, \A s \in T : f[s] \in Nat, \A s \in T \ Filled(w) : f[s] = 0
      PROVE  SumOver(f, T \cap Filled(w)) = SumOver(f, T)
  <2> DEFINE U == T \cap Filled(w)
  <2>1. U \in SUBSET T /\ \A s \in T : f[s] \in Int /\ f[s] = IF s \in U THEN f[s] ELSE 0
    BY <1>2
  <2> HIDE DEF U
  <2>2. SumOver(f, T) = SumOver(f, U)
    BY <1>1, <2>1, SumFilter
  <2> QED BY <2>2 DEF U
<1>3. \A s \in T \ Filled(w) : w[s] = 0
  BY <1>1 DEF Filled
<1>4. SumOver(w, T) \in Nat
  BY <1>1, SumType
<1> QED BY <1>1, <1>2, <1>3, <1>4, TallyIsSum

\* u is nothing on the rows that are not there.
Weighs(u, w, W) == (\A s \in W : u[s] \in Nat) /\ \A s \in W \ Filled(w) : u[s] = 0

\* h breaks W down by what g says of a row, and by the labels of a row.
Keys(h, K, g, u, w, W) ==
    /\ IsFiniteSet(K) /\ DOMAIN h = K /\ \A s \in W \cap Filled(w) : g[s] \in K
    /\ \A k \in K : h[k] = SumOver(u, {s \in W : g[s] = k})
KeysRows(h, K, g, w, W) ==
    /\ IsFiniteSet(K) /\ DOMAIN h = K /\ \A s \in W \cap Filled(w) : g[s] \in K
    /\ \A k \in K : h[k] = Tally(w, {s \in W : g[s] = k})
LabelsRows(h, K, of, w, W) ==
    /\ IsFiniteSet(K) /\ DOMAIN h = K /\ \A s \in W \cap Filled(w) : of[s] \subseteq K
    /\ \A k \in K : h[k] = Tally(w, {s \in W : k \in of[s]})
WeighsLabels(u, of, w, W) == \A s \in W : IsFiniteSet(of[s]) /\ u[s] = w[s] * Cardinality(of[s])

\* A breakdown by what g says of a row loses nothing,
LEMMA KeyedSum ==
    ASSUME NEW w, IsTable(w), NEW W \in SUBSET DOMAIN w, NEW K, NEW g,
           NEW u, Weighs(u, w, W), NEW h, Keys(h, K, g, u, w, W)
    PROVE  AddUp(h) = SumOver(u, W)
<1> USE DEF Weighs, Keys
<1> DEFINE S == W \cap Filled(w)
           part == [k \in K |-> {s \in S : g[s] = k}]
<1>1. IsFiniteSet(S) /\ S \in SUBSET W
  <2>1. S \in SUBSET DOMAIN w
    OBVIOUS
  <2>2. IsFiniteSet(S)
    <3> HIDE DEF S
    <3> QED BY <2>1, FilledCount
  <2> QED BY <2>2
<1>2. \A k \in K : part[k] \subseteq S /\ part[k] = {s \in W : g[s] = k} \cap Filled(w)
  OBVIOUS
<1>3. \A s \in S : \A k \in K : s \in part[k] <=> g[s] = k
  OBVIOUS
<1> HIDE DEF part
<1>4. \A k \in K : h[k] = SumOver(u, part[k])
  <2> SUFFICES ASSUME NEW k \in K PROVE h[k] = SumOver(u, part[k])
    OBVIOUS
  <2> DEFINE T == {s \in W : g[s] = k}
  <2>1. T \in SUBSET DOMAIN w /\ T \in SUBSET W /\ part[k] = T \cap Filled(w) /\ h[k] = SumOver(u, T)
    BY <1>2
  <2> HIDE DEF T
  <2>2. SumOver(u, T \cap Filled(w)) = SumOver(u, T)
    <3>1. (\A s \in T : u[s] \in Nat) /\ (\A s \in T \ Filled(w) : u[s] = 0)
      BY <2>1
    <3> QED BY <2>1, <3>1, FilledCount
  <2> QED BY <2>1, <2>2
<1>5. SumOver(u, S) = SumOver(u, W)
  BY FilledCount
<1>6. \A s \in S : g[s] \in K
  OBVIOUS
<1>7. \A s \in S : u[s] \in Int
  OBVIOUS
<1> HIDE DEF S
<1>8. \A k \in K : part[k] \subseteq S
  BY <1>2
<1>9. IsFiniteSet(S)
  BY <1>1
<1>10. SumOver(h, K) = SumOver(u, S)
  BY <1>3, <1>4, <1>6, <1>7, <1>8, <1>9, SumParts
<1> QED BY <1>5, <1>10, SequenceSum

\* and no row.
LEMMA KeyedCount ==
    ASSUME NEW w, IsTable(w), NEW W \in SUBSET DOMAIN w, NEW K, NEW g, NEW h, KeysRows(h, K, g, w, W)
    PROVE  AddUp(h) = Tally(w, W)
<1>1. \A s \in W : w[s] \in Nat
  BY DEF IsTable
<1>2. \A s \in W \ Filled(w) : w[s] = 0
  BY <1>1 DEF Filled
<1>3. Weighs(w, w, W)
  BY <1>1, <1>2 DEF Weighs
<1>4. Keys(h, K, g, w, w, W)
  BY TallyIsSum DEF Keys, KeysRows
<1>5. AddUp(h) = SumOver(w, W)
  BY <1>3, <1>4, KeyedSum
<1> QED BY <1>5, TallyIsSum

\* A breakdown by the labels of a row counts it once for each.
LEMMA LabelledCount ==
    ASSUME NEW w, IsTable(w), NEW W \in SUBSET DOMAIN w, NEW K, NEW of, NEW h, LabelsRows(h, K, of, w, W),
           NEW u, WeighsLabels(u, of, w, W)
    PROVE  AddUp(h) = SumOver(u, W)
<1> USE DEF LabelsRows, WeighsLabels
<1> DEFINE S == W \cap Filled(w)
           part == [k \in K |-> {s \in S : k \in of[s]}]
<1>1. IsFiniteSet(S) /\ S \in SUBSET W /\ \A s \in S : of[s] \subseteq K /\ w[s] \in Int
  <2>1. S \in SUBSET DOMAIN w
    OBVIOUS
  <2>2. IsFiniteSet(S)
    <3> HIDE DEF S
    <3> QED BY <2>1, FilledCount
  <2>3. \A s \in S : w[s] \in Int
    BY DEF IsTable
  <2> QED BY <2>2, <2>3
<1>2. \A k \in K : part[k] \subseteq S /\ part[k] = {s \in W : k \in of[s]} \cap Filled(w)
  OBVIOUS
<1>3. \A s \in S : \A k \in K : s \in part[k] <=> k \in of[s]
  OBVIOUS
<1> HIDE DEF part
<1>4. \A k \in K : h[k] = SumOver(w, part[k])
  <2> SUFFICES ASSUME NEW k \in K PROVE h[k] = SumOver(w, part[k])
    OBVIOUS
  <2> DEFINE T == {s \in W : k \in of[s]}
  <2>1. T \in SUBSET DOMAIN w /\ part[k] = T \cap Filled(w) /\ h[k] = Tally(w, T)
    BY <1>2
  <2> HIDE DEF T
  <2>2. Tally(w, T \cap Filled(w)) = Tally(w, T)
    BY <2>1, FilledCount
  <2> QED BY <2>1, <2>2, TallyIsSum
<1>5. SumOver(u, S) = SumOver(u, W)
  <2>1. \A s \in W : Cardinality(of[s]) \in Nat /\ w[s] \in Nat
    BY FS_CardinalityType DEF IsTable
  <2>2. \A x, y \in Nat : x * y \in Nat /\ 0 * y = 0
    BY NatTimes
  <2>3. \A s \in W : u[s] \in Nat
    BY <2>1, <2>2
  <2>4. \A s \in W \ Filled(w) : u[s] = 0
    <3> SUFFICES ASSUME NEW s \in W \ Filled(w) PROVE u[s] = 0
      OBVIOUS
    <3>1. w[s] = 0
      BY <2>1 DEF Filled
    <3> QED BY <2>1, <2>2, <3>1
  <2> QED BY <2>3, <2>4, FilledCount
<1> HIDE DEF S
<1>6. \A k \in K : part[k] \subseteq S
  BY <1>2
<1>7. \A s \in S : of[s] \subseteq K
  BY <1>1
<1>8. \A s \in S : w[s] \in Int
  BY <1>1
<1>9. IsFiniteSet(S)
  BY <1>1
<1>10. \A s \in S : u[s] = w[s] * Cardinality(of[s])
  BY <1>1
<1>11. SumOver(h, K) = SumOver(u, S)
  BY <1>3, <1>4, <1>6, <1>7, <1>8, <1>9, <1>10, SumCover
<1> QED BY <1>5, <1>11, SequenceSum

\* What the rows of a table name is finite.
LEMMA NamedIsFinite ==
    ASSUME NEW w, IsTable(w), NEW f
    PROVE  /\ IsFiniteSet({f[s] : s \in Filled(w)})
           /\ (\A s \in Filled(w) : IsFiniteSet(f[s])) => IsFiniteSet(UNION {f[s] : s \in Filled(w)})
<1>1. IsFiniteSet(Filled(w))
  <2>1. Filled(w) \in SUBSET DOMAIN w
    BY DEF Filled
  <2> QED BY <2>1, FS_Subset DEF IsTable
<1>2. IsFiniteSet({f[s] : s \in Filled(w)})
  BY <1>1, ImageIsFinite
<1>3. ASSUME \A s \in Filled(w) : IsFiniteSet(f[s])
      PROVE  IsFiniteSet(UNION {f[s] : s \in Filled(w)})
  <2>1. \A T \in {f[s] : s \in Filled(w)} : IsFiniteSet(T)
    BY <1>3
  <2> QED BY <1>2, <2>1, FS_UNION
<1> QED BY <1>2, <1>3

\* The timeline loses no row, and no relevant one.
LEMMA TimelineKeeps ==
    ASSUME NEW w, IsTable(w)
    PROVE  /\ AddUp([b \in DOMAIN Timeline(w) |-> Timeline(w)[b].total]) = Rows(w)
           /\ AddUp([b \in DOMAIN Timeline(w) |-> Timeline(w)[b].relevant]) = RelevantIn(w)
<1> DEFINE Place(s) == TimelineBucket * (TimeOf(s) \div TimelineBucket)
           g == [s \in DOMAIN w |-> Place(s)]
           K == {Place(s) : s \in Filled(w)}
           h == [b \in DOMAIN Timeline(w) |-> Timeline(w)[b].total]
           h2 == [b \in DOMAIN Timeline(w) |-> Timeline(w)[b].relevant]
           W == {s \in DOMAIN w : s.relevant}
           In1(b) == {s \in DOMAIN w : Place(s) = b}
<1>1. Timeline(w) = [b \in K |-> [total |-> Tally(w, In1(b)), relevant |-> Tally(w, {s \in In1(b) : s.relevant})]]
  BY DEF Timeline
<1>2. Filled(w) \in SUBSET DOMAIN w
  BY DEF Filled
<1>3. \A s \in DOMAIN w : g[s] = Place(s)
  OBVIOUS
<1> HIDE DEF g
<1>4. IsFiniteSet(K)
  <2>1. K = {g[s] : s \in Filled(w)}
    BY <1>2, <1>3
  <2> HIDE DEF K
  <2> QED BY <2>1, NamedIsFinite
<1>5. \A s \in Filled(w) : g[s] \in K
  BY <1>2, <1>3
<1>6. /\ DOMAIN h = K /\ DOMAIN h2 = K
      /\ \A k \in K : h[k] = Tally(w, {s \in DOMAIN w : g[s] = k})
      /\ \A k \in K : h2[k] = Tally(w, {s \in W : g[s] = k})
  <2>1. /\ DOMAIN Timeline(w) = K
        /\ \A k \in K : Timeline(w)[k].total = Tally(w, In1(k))
        /\ \A k \in K : Timeline(w)[k].relevant = Tally(w, {s \in In1(k) : s.relevant})
    BY <1>1
  <2>2. \A k : In1(k) = {s \in DOMAIN w : g[s] = k} /\ {s \in In1(k) : s.relevant} = {s \in W : g[s] = k}
    BY <1>3
  <2> HIDE DEF In1, K, W
  <2> QED BY <2>1, <2>2
<1>7. W \in SUBSET DOMAIN w /\ DOMAIN w \in SUBSET DOMAIN w
  OBVIOUS
<1> HIDE DEF K, h, h2, W
<1>8. AddUp(h) = Tally(w, DOMAIN w)
  <2>1. KeysRows(h, K, g, w, DOMAIN w)
    BY <1>4, <1>5, <1>6 DEF KeysRows
  <2> QED BY <1>7, <2>1, KeyedCount
<1>9. AddUp(h2) = Tally(w, W)
  <2>1. KeysRows(h2, K, g, w, W)
    BY <1>4, <1>5, <1>6 DEF KeysRows
  <2> QED BY <1>7, <2>1, KeyedCount
<1> QED BY <1>8, <1>9 DEF h, h2, W, Rows, RelevantIn

\* The trends count a row in its hour, once for each of its classes.
LEMMA TrendsKeep ==
    ASSUME NEW w, IsTable(w)
    PROVE  AddUp([h \in DOMAIN Trends(w) |-> AddUp(Trends(w)[h])])
              = Total(w, DOMAIN w, LAMBDA s : Cardinality(s.assets))
<1> DEFINE Hour(s) == IF s.published = None THEN s.nth ELSE s.published + s.offset
           g == [s \in DOMAIN w |-> Hour(s)]
           of == [s \in DOMAIN w |-> s.assets]
           K == {Hour(s) : s \in Filled(w)}
           X == UNION {s.assets : s \in Filled(w)}
           At1(k) == {s \in DOMAIN w : Hour(s) = k}
           T == Trends(w)
           h == [k \in DOMAIN T |-> AddUp(T[k])]
           u == [s \in DOMAIN w |-> w[s] * Cardinality(s.assets)]
<1>1. T = [k \in K |-> [x \in X |-> Tally(w, {s \in DOMAIN w : Hour(s) = k /\ x \in s.assets})]]
  BY DEF Trends
<1>2. Filled(w) \in SUBSET DOMAIN w
  BY DEF Filled
<1>3. \A s \in DOMAIN w : g[s] = Hour(s) /\ of[s] = s.assets /\ u[s] = w[s] * Cardinality(of[s])
  OBVIOUS
<1>4. \A s \in DOMAIN w : IsFiniteSet(of[s])
  BY DEF IsTable
<1> HIDE DEF g, of
<1>5. IsFiniteSet(K) /\ IsFiniteSet(X)
  <2>1. K = {g[s] : s \in Filled(w)} /\ X = UNION {of[s] : s \in Filled(w)}
    BY <1>2, <1>3
  <2>2. \A s \in Filled(w) : IsFiniteSet(of[s])
    BY <1>2, <1>4
  <2> HIDE DEF K, X
  <2> QED BY <2>1, <2>2, NamedIsFinite
<1>6. \A s \in Filled(w) : g[s] \in K /\ of[s] \subseteq X
  BY <1>2, <1>3
<1>7. \A k : At1(k) = {s \in DOMAIN w : g[s] = k} /\ At1(k) \in SUBSET DOMAIN w
  BY <1>3
<1>8. /\ DOMAIN T = K
      /\ \A k \in K : DOMAIN T[k] = X
      /\ \A k \in K : \A x \in X : T[k][x] = Tally(w, {s \in At1(k) : x \in of[s]})
  <2>1. \A k : \A x : {s \in DOMAIN w : Hour(s) = k /\ x \in s.assets} = {s \in At1(k) : x \in of[s]}
    BY <1>3
  <2> HIDE DEF K, X, At1, T
  <2> QED BY <1>1, <2>1
<1> HIDE DEF K, X, At1, T, u
<1>9. ASSUME NEW k \in K
      PROVE  AddUp(T[k]) = SumOver(u, At1(k))
  <2> DEFINE W == At1(k)
             t == T[k]
  <2>1. W \in SUBSET DOMAIN w
    BY <1>7
  <2>3. DOMAIN t = X
    BY <1>8
  <2>4. \A x \in X : t[x] = Tally(w, {s \in W : x \in of[s]})
    BY <1>8
  <2>5. \A s \in W : IsFiniteSet(of[s])
    BY <1>4, <2>1
  <2>6. \A s \in W : u[s] = w[s] * Cardinality(of[s])
    BY <1>3, <2>1
  <2>7. \A s \in W \cap Filled(w) : of[s] \subseteq X
    BY <1>6
  <2>8. IsFiniteSet(X)
    BY <1>5
  <2> HIDE DEF W, t
  <2>9. LabelsRows(t, X, of, w, W) /\ WeighsLabels(u, of, w, W)
    BY <2>3, <2>4, <2>5, <2>6, <2>7, <2>8 DEF LabelsRows, WeighsLabels
  <2>2. AddUp(t) = SumOver(u, W)
    BY <2>1, <2>9, LabelledCount
  <2> QED BY <2>2 DEF W, t
<1>10. DOMAIN h = K /\ \A k \in K : h[k] = SumOver(u, At1(k))
  BY <1>8, <1>9
<1> HIDE DEF h
<1>11. (\A s \in DOMAIN w : u[s] \in Nat) /\ \A s \in DOMAIN w \ Filled(w) : u[s] = 0
  <2>1. \A s \in DOMAIN w : Cardinality(of[s]) \in Nat /\ w[s] \in Nat
    BY <1>4, FS_CardinalityType DEF IsTable
  <2>2. \A x, y \in Nat : x * y \in Nat /\ 0 * y = 0
    BY NatTimes
  <2>3. \A s \in DOMAIN w \ Filled(w) : w[s] = 0
    BY <2>1 DEF Filled
  <2>4. \A s \in DOMAIN w \ Filled(w) : u[s] = 0
    BY <1>3, <2>1, <2>2, <2>3
  <2> QED BY <1>3, <2>1, <2>2, <2>4
<1>12. AddUp(h) = SumOver(u, DOMAIN w)
  <2> DEFINE A == DOMAIN w
  <2>1. A \in SUBSET DOMAIN w /\ \A k \in K : h[k] = SumOver(u, {s \in A : g[s] = k})
    BY <1>7, <1>10
  <2>2. \A s \in A \cap Filled(w) : g[s] \in K
    BY <1>6
  <2>3. (\A s \in A : u[s] \in Nat) /\ \A s \in A \ Filled(w) : u[s] = 0
    BY <1>11
  <2> HIDE DEF A
  <2>5. Weighs(u, w, A) /\ Keys(h, K, g, u, w, A)
    BY <1>5, <1>10, <2>1, <2>2, <2>3 DEF Weighs, Keys
  <2>4. AddUp(h) = SumOver(u, A)
    BY <2>1, <2>5, KeyedSum
  <2> QED BY <2>4 DEF A
<1>13. Total(w, DOMAIN w, LAMBDA s : Cardinality(s.assets)) = SumOver(u, DOMAIN w)
  BY Sums DEF Total, u
<1> QED BY <1>12, <1>13 DEF h, T

\* The matrix counts a row once for each of its cells.
LEMMA MatrixKeeps ==
    ASSUME NEW w, IsTable(w)
    PROVE  AddUp(Matrix(w)) = Total(w, DOMAIN w, LAMBDA s : Cardinality(s.assets) * Cardinality(s.reasons))
<1> DEFINE A == UNION {s.assets : s \in Filled(w)}
           R == UNION {s.reasons : s \in Filled(w)}
           as == [s \in DOMAIN w |-> s.assets]
           rs == [s \in DOMAIN w |-> s.reasons]
           of == [s \in DOMAIN w |-> s.assets \X s.reasons]
           K == A \X R
           h == Matrix(w)
           u == [s \in DOMAIN w |-> w[s] * (Cardinality(s.assets) * Cardinality(s.reasons))]
<1>1. h = [x \in K |-> Tally(w, {s \in DOMAIN w : x[1] \in s.assets /\ x[2] \in s.reasons})]
  BY DEF Matrix
<1>2. Filled(w) \in SUBSET DOMAIN w
  BY DEF Filled
<1>3. \A s \in DOMAIN w : as[s] = s.assets /\ rs[s] = s.reasons /\ of[s] = s.assets \X s.reasons
                          /\ u[s] = w[s] * (Cardinality(s.assets) * Cardinality(s.reasons))
  OBVIOUS
<1>4. \A s \in DOMAIN w : IsFiniteSet(s.assets) /\ IsFiniteSet(s.reasons)
  BY DEF IsTable
<1> HIDE DEF as, rs, of, u
<1>5. IsFiniteSet(A) /\ IsFiniteSet(R)
  <2>1. \A s \in Filled(w) : as[s] = s.assets /\ rs[s] = s.reasons /\ IsFiniteSet(as[s]) /\ IsFiniteSet(rs[s])
    BY <1>2, <1>3, <1>4
  <2>2. A = UNION {as[s] : s \in Filled(w)}
    BY <2>1
  <2>3. R = UNION {rs[s] : s \in Filled(w)}
    BY <2>1
  <2> HIDE DEF A, R
  <2>4. IsFiniteSet(UNION {as[s] : s \in Filled(w)})
    <3>1. \A s \in Filled(w) : IsFiniteSet(as[s])
      BY <2>1
    <3> QED BY <3>1, NamedIsFinite
  <2>5. IsFiniteSet(UNION {rs[s] : s \in Filled(w)})
    <3>1. \A s \in Filled(w) : IsFiniteSet(rs[s])
      BY <2>1
    <3> QED BY <3>1, NamedIsFinite
  <2> QED BY <2>2, <2>3, <2>4, <2>5
<1>6. \A s \in Filled(w) : s.assets \subseteq A /\ s.reasons \subseteq R
  BY <1>2
<1> HIDE DEF h, A, R
<1>7. IsFiniteSet(K)
  BY <1>5, FS_Product
<1>8. \A s \in DOMAIN w \cap Filled(w) : of[s] \subseteq K
  <2> SUFFICES ASSUME NEW s \in DOMAIN w \cap Filled(w) PROVE of[s] \subseteq K
    OBVIOUS
  <2>1. of[s] = s.assets \X s.reasons /\ s.assets \subseteq A /\ s.reasons \subseteq R
    BY <1>3, <1>6
  <2> QED BY <2>1
<1>9. \A k \in K : h[k] = Tally(w, {s \in DOMAIN w : k \in of[s]})
  <2> SUFFICES ASSUME NEW k \in K PROVE h[k] = Tally(w, {s \in DOMAIN w : k \in of[s]})
    OBVIOUS
  <2>1. h[k] = Tally(w, {s \in DOMAIN w : k[1] \in s.assets /\ k[2] \in s.reasons})
    BY <1>1
  <2>2. k = <<k[1], k[2]>>
    OBVIOUS
  <2>3. {s \in DOMAIN w : k[1] \in s.assets /\ k[2] \in s.reasons} = {s \in DOMAIN w : k \in of[s]}
    <3> SUFFICES ASSUME NEW s \in DOMAIN w PROVE k[1] \in s.assets /\ k[2] \in s.reasons <=> k \in of[s]
      OBVIOUS
    <3>1. of[s] = s.assets \X s.reasons
      BY <1>3
    <3> DEFINE a == s.assets
               r == s.reasons
    <3>2. of[s] = a \X r
      BY <3>1
    <3> HIDE DEF a, r
    <3>3. k[1] \in a /\ k[2] \in r <=> k \in a \X r
      BY <2>2
    <3> QED BY <3>2, <3>3 DEF a, r
  <2> QED BY <2>1, <2>3
<1>10. DOMAIN h = K
  BY <1>1
<1>11. LabelsRows(h, K, of, w, DOMAIN w)
  <2> HIDE DEF K
  <2> QED BY <1>7, <1>8, <1>9, <1>10 DEF LabelsRows
<1>12. WeighsLabels(u, of, w, DOMAIN w)
  <2> SUFFICES ASSUME NEW s \in DOMAIN w PROVE IsFiniteSet(of[s]) /\ u[s] = w[s] * Cardinality(of[s])
    BY DEF WeighsLabels
  <2> DEFINE a == s.assets
             r == s.reasons
  <2>1. IsFiniteSet(a) /\ IsFiniteSet(r) /\ of[s] = a \X r /\ u[s] = w[s] * (Cardinality(a) * Cardinality(r))
    BY <1>3, <1>4
  <2> HIDE DEF a, r
  <2>2. IsFiniteSet(a \X r) /\ Cardinality(a \X r) = Cardinality(a) * Cardinality(r)
    BY <2>1, FS_Product
  <2> QED BY <2>1, <2>2
<1>13. DOMAIN w \in SUBSET DOMAIN w
  OBVIOUS
<1>14. AddUp(h) = SumOver(u, DOMAIN w)
  BY <1>11, <1>12, <1>13, LabelledCount
<1>15. Total(w, DOMAIN w, LAMBDA s : Cardinality(s.assets) * Cardinality(s.reasons)) = SumOver(u, DOMAIN w)
  BY Sums DEF Total, u
<1> QED BY <1>14, <1>15 DEF h

\* An hour is on one of the days d from a to b where it is in the hours of these.
LEMMA HoursOfDays ==
    ASSUME NEW h \in Int, NEW q \in Nat \ {0}, NEW a \in Int, NEW b \in Int
    PROVE  h \div q \in a .. b <=> h \in a * q .. (b + 1) * q - 1
<1> DEFINE d == h \div q
<1>1. d \in Int /\ d * q <= h /\ h < d * q + q
  OBVIOUS
<1> HIDE DEF d
<1>2. CASE a <= d /\ d <= b
  <2>1. a * q <= d * q /\ d * q <= b * q
    <3>1. d - a \in Nat /\ b - d \in Nat
      BY <1>1, <1>2
    <3>2. (d - a) * q \in Nat /\ (b - d) * q \in Nat
      BY <3>1, NatTimes
    <3>3. (d - a) * q = d * q - a * q /\ (b - d) * q = b * q - d * q
      BY <1>1
    <3> QED BY <1>1, <3>2, <3>3
  <2>2. (b + 1) * q = b * q + q
    OBVIOUS
  <2> QED BY <1>1, <1>2, <2>1, <2>2
<1>3. CASE d < a
  <2>1. a - d - 1 \in Nat
    BY <1>1, <1>3
  <2>2. (a - d - 1) * q \in Nat
    BY <2>1, NatTimes
  <2>3. (a - d - 1) * q = a * q - d * q - q
    BY <1>1
  <2>4. h < a * q
    BY <1>1, <2>2, <2>3
  <2> QED BY <1>1, <1>3, <2>4
<1>4. CASE b < d
  <2>1. d - b - 1 \in Nat
    BY <1>1, <1>4
  <2>2. (d - b - 1) * q \in Nat
    BY <2>1, NatTimes
  <2>3. (d - b - 1) * q = d * q - (b + 1) * q
    BY <1>1
  <2>4. h >= (b + 1) * q
    BY <1>1, <2>2, <2>3
  <2> QED BY <1>1, <1>4, <2>4
<1> QED BY <1>1, <1>2, <1>3, <1>4 DEF d

\* The trend of a symbol counts its toned and dated rows once.
LEMMA ToneTrendKeeps ==
    ASSUME NEW c, IsTable(c), NEW y, Today \in Int, TrendDays \in Nat, DayHours \in Nat \ {0},
           \A s \in DOMAIN c : s.published \in Int /\ s.label \in {"positive", "neutral", "negative", "none"}
    PROVE  AddUp([d \in DOMAIN SentimentTrend(c, y) |-> AddUp(SentimentTrend(c, y)[d])])
              = Tally(c, {s \in Filled(c) :
                    /\ y \in s.symbols /\ s.label # "none" /\ s.published # None
                    /\ s.published \in (Today - TrendDays + 1) * DayHours .. (Today + 1) * DayHours - 1})
<1> DEFINE D == Today - TrendDays + 1 .. Today
           Tones == {"positive", "neutral", "negative"}
           trend == SentimentTrend(c, y)
           g == [s \in DOMAIN c |-> s.published \div DayHours]
           l == [s \in DOMAIN c |-> s.label]
           W == {s \in DOMAIN c : y \in s.symbols /\ s.label # "none" /\ s.published # None /\ g[s] \in D}
           Of(d) == {s \in W : g[s] = d}
           h == [d \in DOMAIN trend |-> AddUp(trend[d])]
           Fine == {s \in Filled(c) :
                    /\ y \in s.symbols /\ s.label # "none" /\ s.published # None
                    /\ s.published \in (Today - TrendDays + 1) * DayHours .. (Today + 1) * DayHours - 1}
<1>1. \A s \in DOMAIN c : g[s] = s.published \div DayHours /\ l[s] = s.label
  OBVIOUS
<1>2. /\ DOMAIN trend = D /\ \A d \in D : DOMAIN trend[d] = Tones
      /\ \A d \in D : \A t \in Tones :
            trend[d][t] = Tally(c, {s \in DOMAIN c : /\ s.published # None /\ s.published \div DayHours = d
                                                      /\ y \in s.symbols /\ s.label = t})
  BY DEF SentimentTrend
<1> HIDE DEF trend, g, l
<1>3. IsFiniteSet(D) /\ IsFiniteSet(Tones)
  <2>1. Today - TrendDays + 1 \in Int /\ Today \in Int
    OBVIOUS
  <2>2. IsFiniteSet(D)
    BY <2>1, FS_Interval
  <2>3. IsFiniteSet(Tones)
    <3>1. IsFiniteSet({}) /\ Tones = (({} \cup {"positive"}) \cup {"neutral"}) \cup {"negative"}
      BY FS_EmptySet
    <3> HIDE DEF Tones
    <3> QED BY <3>1, FS_AddElement
  <2> QED BY <2>2, <2>3
<1>4. ASSUME NEW d \in D, NEW t \in Tones
      PROVE  trend[d][t] = Tally(c, {s \in Of(d) : l[s] = t})
  <2>1. t # "none"
    OBVIOUS
  <2>2. {s \in DOMAIN c : s.published # None /\ s.published \div DayHours = d /\ y \in s.symbols /\ s.label = t}
            = {s \in Of(d) : l[s] = t}
    <3> HIDE DEF D, Tones
    <3> QED BY <1>1, <2>1
  <2>3. trend[d][t] = Tally(c, {s \in DOMAIN c : s.published # None /\ s.published \div DayHours = d
                                                /\ y \in s.symbols /\ s.label = t})
    BY <1>2
  <2> HIDE DEF Of
  <2> QED BY <2>2, <2>3
<1>5. W \in SUBSET DOMAIN c /\ \A d : Of(d) \in SUBSET DOMAIN c /\ \A s \in Of(d) : l[s] \in Tones
  BY <1>1
<1>6. \A s \in W : g[s] \in D
  OBVIOUS
<1>7. \A d \in D : Of(d) = {s \in W : g[s] = d}
  OBVIOUS
<1>8. Fine = W \cap Filled(c)
  <2>1. Filled(c) \in SUBSET DOMAIN c
    BY DEF Filled
  <2>2. ASSUME NEW s \in DOMAIN c
        PROVE  g[s] \in D <=> s.published \in (Today - TrendDays + 1) * DayHours .. (Today + 1) * DayHours - 1
    <3> DEFINE a == Today - TrendDays + 1
               x == s.published
    <3>1. a \in Int /\ x \in Int /\ g[s] = x \div DayHours
      BY <1>1
    <3> HIDE DEF a, x
    <3>2. x \div DayHours \in a .. Today <=> x \in a * DayHours .. (Today + 1) * DayHours - 1
      BY <3>1, HoursOfDays
    <3> QED BY <3>1, <3>2 DEF a, x
  <2> QED BY <2>1, <2>2
<1> HIDE DEF D, Tones, W, Of, Fine, h
<1>9. \A d \in D : AddUp(trend[d]) = Tally(c, Of(d))
  <2> SUFFICES ASSUME NEW d \in D PROVE AddUp(trend[d]) = Tally(c, Of(d))
    OBVIOUS
  <2> DEFINE T == trend[d]
             V == Of(d)
  <2>1. \A t \in Tones : T[t] = Tally(c, {s \in V : l[s] = t})
    BY <1>4
  <2>2. DOMAIN T = Tones
    BY <1>2
  <2>3. V \in SUBSET DOMAIN c /\ \A s \in V \cap Filled(c) : l[s] \in Tones
    BY <1>5
  <2> HIDE DEF T, V
  <2>4. KeysRows(T, Tones, l, c, V)
    BY <1>3, <2>1, <2>2, <2>3 DEF KeysRows
  <2>5. AddUp(T) = Tally(c, V)
    BY <2>3, <2>4, KeyedCount
  <2> QED BY <2>5 DEF T, V
<1>10. KeysRows(h, D, g, c, W)
  <2>1. DOMAIN h = D /\ \A d \in D : h[d] = AddUp(trend[d])
    BY <1>2 DEF h
  <2> QED BY <1>3, <1>6, <1>7, <1>9, <2>1 DEF KeysRows
<1>11. AddUp(h) = Tally(c, W)
  BY <1>5, <1>10, KeyedCount
<1>12. Tally(c, W \cap Filled(c)) = Tally(c, W)
  BY <1>5, FilledCount
<1> QED BY <1>8, <1>11, <1>12 DEF h, trend, Fine

\* The triage list is full where it leaves out a row that scores enough, and then that row scores least.
LEMMA TopListKeeps ==
    ASSUME NEW c, Shelf(c, DOMAIN c), \A s \in DOMAIN c : s.score \in Nat,
           TopRows \in Nat, TopLimit \in Nat, TopScore \in Int
    PROVE  \A s \in Filled(RecentRecords(c, TopRows, FALSE)) :
              s \notin DOMAIN TopRecent(c) /\ s.score >= TopScore =>
                  Rows(TopRecent(c)) = TopLimit /\ \A t \in DOMAIN TopRecent(c) : t.score >= s.score
<1> DEFINE w == RecentRecords(c, TopRows, FALSE)
           good == {s \in Filled(w) : s.score >= TopScore}
           Ahead(s) == {t \in good : t.score > s.score \/ (t.score = s.score /\ t.nth > s.nth)}
           before == [s \in good |-> Tally(w, Ahead(s))]
           Top == {s \in good : before[s] < TopLimit}
           top == TopRecent(c)
           Take(v, b) == IF b >= TopLimit THEN 0 ELSE IF v < TopLimit - b THEN v ELSE TopLimit - b
           g == [s \in good |-> Take(w[s], before[s])]
           R == {p \in good \X good : p[1] \in Ahead(p[2])}
<1>1. DOMAIN w = DOMAIN c /\ \A s \in DOMAIN c : w[s] \in Nat
  <2> DEFINE A == DOMAIN c
  <2>1. {s \in DOMAIN c : s.relevant \/ ~FALSE} = A
    OBVIOUS
  <2>2. w = Newest(c, A, TopRows) /\ Shelf(c, A)
    BY <2>1 DEF RecentRecords
  <2> HIDE DEF w, A
  <2>3. DOMAIN Newest(c, A, TopRows) = A /\ \A s \in A : Newest(c, A, TopRows)[s] \in Nat
    BY <2>2, NewestFacts
  <2> QED BY <2>2, <2>3 DEF A
<1>2. top = [s \in Top |-> Min({w[s], TopLimit - before[s]})]
  <2>1. TopRecent(c) = [s \in {s \in good : Tally(w, Ahead(s)) < TopLimit} |-> Min({w[s], TopLimit - Tally(w, Ahead(s))})]
    BY DEF TopRecent
  <2>2. \A s \in good : before[s] = Tally(w, Ahead(s))
    OBVIOUS
  <2> HIDE DEF before, Ahead, good
  <2>3. Top = {s \in good : Tally(w, Ahead(s)) < TopLimit}
    BY <2>2
  <2>4. \A s \in Top : Min({w[s], TopLimit - before[s]}) = Min({w[s], TopLimit - Tally(w, Ahead(s))})
    BY <2>2
  <2> HIDE DEF Top
  <2> QED BY <2>1, <2>3, <2>4
<1> HIDE DEF top, w
<1>3. /\ IsFiniteSet(good) /\ good \in SUBSET DOMAIN c /\ good \in SUBSET Filled(w)
      /\ \A s \in good : w[s] \in Nat /\ s.score \in Nat /\ s.nth \in Int
      /\ \A s, t \in good : s.nth = t.nth => s = t
  <2>1. Filled(w) \in SUBSET DOMAIN c
    BY <1>1 DEF Filled
  <2>2. good \in SUBSET DOMAIN c /\ good \in SUBSET Filled(w)
    BY <2>1
  <2> HIDE DEF good
  <2> QED BY <1>1, <2>2, FS_Subset DEF Shelf
<1>4. \A s : Ahead(s) \in SUBSET good
  OBVIOUS
<1>5. \A s \in good : before[s] = SumOver(w, Ahead(s)) /\ before[s] \in Nat /\ before[s] <= SumOver(w, good)
  <2> SUFFICES ASSUME NEW s \in good
               PROVE  before[s] = SumOver(w, Ahead(s)) /\ before[s] \in Nat /\ before[s] <= SumOver(w, good)
    OBVIOUS
  <2> DEFINE T == Ahead(s)
  <2>1. before[s] = SumOver(w, T) /\ T \in SUBSET good
    BY TallyIsSum
  <2> HIDE DEF T, before, good
  <2>2. IsFiniteSet(T) /\ \A t \in T : w[t] \in Nat
    BY <1>3, <2>1, FS_Subset
  <2>3. SumOver(w, T) \in Nat
    BY <2>2, SumType
  <2>4. SumOver(w, T) <= SumOver(w, good)
    BY <1>3, <2>1, SumOfPart
  <2> QED BY <2>1, <2>3, <2>4 DEF T
<1>6. Orders(R, good)
  <2> SUFFICES ASSUME NEW s \in good, NEW t \in good, NEW u \in good
               PROVE  /\ s \notin Ahead(s) /\ (s # t => s \in Ahead(t) \/ t \in Ahead(s))
                      /\ (s \in Ahead(t) /\ t \in Ahead(u) => s \in Ahead(u))
    BY DEF Orders
  <2> QED BY <1>3
<1>7. \A s \in good : {t \in good : <<t, s>> \in R} = Ahead(s)
  OBVIOUS
<1>8. \A s \in good : g[s] = Take(w[s], before[s])
  OBVIOUS
<1>9. ASSUME NEW s \in good, NEW t \in good, t.score < s.score
      PROVE  before[s] <= before[t]
  <2> DEFINE A == Ahead(s)
             B == Ahead(t)
  <2>1. A \in SUBSET B
    BY <1>3, <1>9
  <2>2. before[s] = SumOver(w, A) /\ before[t] = SumOver(w, B) /\ B \in SUBSET good
    BY <1>5
  <2> HIDE DEF A, B, good, before
  <2>3. IsFiniteSet(B) /\ \A x \in B : w[x] \in Nat
    BY <1>3, <2>2, FS_Subset
  <2>4. SumOver(w, A) <= SumOver(w, B)
    BY <2>1, <2>3, SumOfPart
  <2> QED BY <2>2, <2>4
<1> HIDE DEF good, Ahead, before, g, R
<1>10. SumOver(g, good) = IF SumOver(w, good) < TopLimit THEN SumOver(w, good) ELSE TopLimit
  <2>1. Precedes(before, w, R, good)
    BY <1>5, <1>7 DEF Precedes
  <2>2. Takes(g, TopLimit, w, before, good)
    BY <1>8 DEF Takes
  <2>3. \A s \in good : w[s] \in Nat
    BY <1>3
  <2>4. IsFiniteSet(good)
    BY <1>3
  <2> QED BY <1>6, <2>1, <2>2, <2>3, <2>4, TakesAll
<1>11. SumOver(top, Top) = SumOver(g, good)
  <2>1. ASSUME NEW s \in Top
        PROVE  top[s] = g[s]
    <3> DEFINE v == w[s]
               b == TopLimit - before[s]
               d == before[s]
    <3>1. v \in Nat /\ d \in Nat /\ b \in Int /\ b = TopLimit - d /\ d < TopLimit /\ top[s] = Min({v, b}) /\ g[s] = Take(v, d)
      BY <1>2, <1>3, <1>5, <1>8
    <3> HIDE DEF v, b, d
    <3>2. Min({v, b}) = IF v < b THEN v ELSE b
      BY <3>1, LeastOfTwo
    <3> QED BY <3>1, <3>2
  <2>2. \A s \in good : g[s] \in Int /\ g[s] = IF s \in Top THEN g[s] ELSE 0
    BY <1>3, <1>5, <1>8
  <2>3. Top \in SUBSET good
    OBVIOUS
  <2> HIDE DEF Top
  <2>4. SumOver(g, good) = SumOver(g, Top)
    BY <1>3, <2>2, <2>3, SumFilter
  <2>5. IsFiniteSet(Top) /\ \A s \in Top : g[s] \in Int
    BY <1>3, <2>2, <2>3, FS_Subset
  <2>6. SumOver(top, Top) = SumOver(g, Top)
    BY <2>1, <2>5, SumSame
  <2> QED BY <2>4, <2>6
<1>12. DOMAIN top = Top
  BY <1>2
<1> SUFFICES ASSUME NEW s \in Filled(w), s \notin DOMAIN top, s.score >= TopScore
             PROVE  Rows(top) = TopLimit /\ \A t \in DOMAIN top : t.score >= s.score
  BY DEF w, top
<1>13. s \in good /\ before[s] >= TopLimit
  <2>1. s \in good
    BY DEF good
  <2> QED BY <1>5, <1>12, <2>1
<1>14. Rows(top) = TopLimit
  <2>1. SumOver(w, good) \in Nat
    BY <1>3, SumType
  <2>2. SumOver(g, good) = TopLimit
    BY <1>5, <1>10, <1>13, <2>1
  <2> QED BY <1>11, <1>12, <2>2, TallyIsSum DEF Rows
<1>15. ASSUME NEW t \in DOMAIN top
       PROVE  t.score >= s.score
  <2>1. t \in good /\ before[t] < TopLimit
    BY <1>12
  <2> QED BY <1>3, <1>5, <1>9, <1>13, <2>1
<1> QED BY <1>14, <1>15

-----------------------------------------------------------------------------
(* The panels on one table.                                                  *)

\* What a table of the panels is.
PanelTable(c) ==
    /\ IsTable(c) /\ Shelf(c, DOMAIN c)
    /\ \A s \in DOMAIN c : /\ s.score \in Nat /\ s.published \in Int
                           /\ s.label \in {"positive", "neutral", "negative", "none"}

\* w is a window on the rows S of c.
IsWindow(w, c, S) ==
    /\ IsFiniteSet(S) /\ Shelf(c, S) /\ Shelf(w, S) /\ IsTable(w) /\ DOMAIN w = S
    /\ \A s \in S : w[s] \in Nat /\ w[s] <= c[s] /\ c[s] \in Nat

\* The windows on such a table.
LEMMA WindowFacts ==
    ASSUME NEW c, PanelTable(c), NEW n \in Nat
    PROVE  /\ RecentRecords(c, n, FALSE) = Newest(c, DOMAIN c, n)
           /\ RecentRecords(c, n, TRUE) = Newest(c, {s \in DOMAIN c : s.relevant}, n)
           /\ \A S : S \subseteq DOMAIN c => IsWindow(Newest(c, S, n), c, S)
<1>1. RecentRecords(c, n, FALSE) = Newest(c, DOMAIN c, n)
  <2>1. {s \in DOMAIN c : s.relevant \/ ~FALSE} = DOMAIN c
    OBVIOUS
  <2> QED BY <2>1 DEF RecentRecords
<1>2. RecentRecords(c, n, TRUE) = Newest(c, {s \in DOMAIN c : s.relevant}, n)
  <2>1. {s \in DOMAIN c : s.relevant \/ ~TRUE} = {s \in DOMAIN c : s.relevant}
    OBVIOUS
  <2> QED BY <2>1 DEF RecentRecords
<1>3. ASSUME NEW S, S \in SUBSET DOMAIN c
      PROVE  IsWindow(Newest(c, S, n), c, S)
  <2> DEFINE w == Newest(c, S, n)
  <2>1. Shelf(c, S)
    BY <1>3, ShelfCounts DEF PanelTable
  <2>2. DOMAIN w = S /\ \A s \in S : w[s] \in Nat /\ w[s] <= c[s]
    BY <2>1, NewestFacts
  <2> HIDE DEF w
  <2>3. Shelf(w, S)
    BY <2>1, <2>2 DEF Shelf
  <2>4. IsTable(w)
    BY <1>3, <2>1, <2>2 DEF IsTable, Shelf, PanelTable
  <2>5. IsFiniteSet(S) /\ \A s \in S : c[s] \in Nat
    BY <2>1 DEF Shelf
  <2> QED BY <2>1, <2>2, <2>3, <2>4, <2>5 DEF w, IsWindow
<1> QED BY <1>1, <1>2, <1>3

\* Facets, export and search count a label alike, and its page has all its rows.
LEMMA LabelPages ==
    ASSUME NEW c, PanelTable(c), PanelLimit \in Nat
    PROVE  LET w == RecentRecords(c, PanelLimit, FALSE)
               f == Facets(w)
           IN  \A x \in DOMAIN f.labels :
                  /\ f.labels[x] = Rows(ExportRecords(c, x, 0, PanelLimit))
                  /\ f.labels[x] <= UiSymbol(c, x, PanelLimit).count
                  /\ UiSymbol(c, x, PanelLimit).count = Min({PanelLimit, Carrying(c, x)})
                  /\ \A y \in DOMAIN Search(w, x, 1).symbols : Search(w, x, 1).symbols[y] = f.labels[y]
<1> DEFINE A == DOMAIN c
           n == PanelLimit
           w == RecentRecords(c, n, FALSE)
           named == UNION {Labels(s) : s \in Filled(w)}
           S(x) == {s \in A : x \in Labels(s)}
           f == Facets(w)
<1>1. w = Newest(c, A, n) /\ DOMAIN w = A /\ \A s \in A : w[s] \in Nat /\ c[s] \in Nat /\ s.score \in Nat
  <2>1. A \in SUBSET DOMAIN c
    OBVIOUS
  <2> HIDE DEF w
  <2>2. w = Newest(c, A, n)
    BY WindowFacts DEF w
  <2> HIDE DEF A
  <2>4. IsWindow(Newest(c, A, n), c, A)
    BY <2>1, WindowFacts
  <2>3. DOMAIN w = A /\ \A s \in A : w[s] \in Nat /\ c[s] \in Nat
    BY <2>2, <2>4 DEF IsWindow
  <2> QED BY <2>2, <2>3 DEF PanelTable, A
<1> HIDE DEF w
<1>2. DOMAIN f.labels = named /\ \A x \in named : f.labels[x] = Tally(w, S(x))
  <2>1. DOMAIN f.labels = named /\ \A x \in named : f.labels[x] = Carrying(w, x)
    BY DEF Facets
  <2>2. \A x : Carrying(w, x) = Tally(w, {s \in DOMAIN w : x \in Labels(s)})
    BY DEF Carrying
  <2> HIDE DEF f, named
  <2>3. \A x : {s \in DOMAIN w : x \in Labels(s)} = S(x)
    BY <1>1
  <2> HIDE DEF S
  <2> QED BY <2>1, <2>2, <2>3
<1> HIDE DEF f
<1>3. ASSUME NEW x
      PROVE  Tally(w, S(x)) = Rows(ExportRecords(c, x, 0, n))
  <2> DEFINE e == ExportRecords(c, x, 0, n)
             T == S(x)
  <2>1. e = [s \in {s \in DOMAIN w : x \in Labels(s) /\ s.score >= 0} |-> w[s]]
    BY DEF ExportRecords, FilterForExport, w
  <2>2. {s \in DOMAIN w : x \in Labels(s) /\ s.score >= 0} = T
    BY <1>1
  <2>3. T \in SUBSET DOMAIN c
    OBVIOUS
  <2> HIDE DEF T, e
  <2>4. e = [s \in T |-> w[s]]
    BY <2>1, <2>2
  <2>5. IsFiniteSet(T)
    BY <2>3, FS_Subset DEF PanelTable, Shelf
  <2>6. \A s \in T : w[s] \in Int /\ w[s] = e[s]
    BY <1>1, <2>3, <2>4
  <2>7. SumOver(w, T) = SumOver(e, T)
    BY <2>5, <2>6, SumSame
  <2>8. DOMAIN e = T
    BY <2>4
  <2> QED BY <2>7, <2>8, TallyIsSum DEF Rows, e, T
<1>4. ASSUME NEW x
      PROVE  UiSymbol(c, x, n).count = Min({n, Carrying(c, x)}) /\ Tally(w, S(x)) <= UiSymbol(c, x, n).count
  <2> DEFINE T == S(x)
             v == Newest(c, T, n)
             k == Carrying(c, x)
             z == UiSymbol(c, x, n).count
  <2>1. z = Tally(v, DOMAIN v) /\ k = Tally(c, T)
    BY DEF UiSymbol, ByLabel, Rows, Carrying
  <2>2. T \in SUBSET DOMAIN c
    OBVIOUS
  <2> HIDE DEF T, z, k, v
  <2>3. Shelf(c, T) /\ DOMAIN v = T /\ \A s \in T : v[s] \in Nat
    <3>1. IsWindow(Newest(c, T, n), c, T)
      BY <2>2, WindowFacts
    <3> QED BY <3>1 DEF v, IsWindow
  <2>4. Tally(v, T) = AtMost(k, n)
    BY <2>1, <2>3, NewestFacts DEF v
  <2>5. k \in Nat
    <3>1. T \in SUBSET T
      OBVIOUS
    <3> QED BY <2>1, <2>3, <3>1, ShelfCounts
  <2>6. Min({n, k}) = IF n < k THEN n ELSE k
    BY <2>5, LeastOfTwo
  <2>7. \A s \in T : w[s] <= v[s]
    <3>1. Shelf(c, A)
      BY DEF PanelTable
    <3>2. \A s \in T : Newest(c, A, n)[s] <= Newest(c, T, n)[s]
      <4> HIDE DEF A
      <4>1. T \in SUBSET A
        BY <2>2 DEF A
      <4> QED BY <3>1, <4>1, NewestFacts
    <3> QED BY <1>1, <3>2 DEF v
  <2>8. \A s \in T : w[s] \in Int /\ v[s] \in Int /\ w[s] <= v[s]
    BY <1>1, <2>2, <2>3, <2>7
  <2>9. IsFiniteSet(T)
    BY <2>3 DEF Shelf
  <2>10. SumOver(w, T) <= SumOver(v, T)
    BY <2>8, <2>9, SumMonotone
  <2>11. z = Min({n, k})
    BY <2>1, <2>3, <2>4, <2>5, <2>6 DEF AtMost
  <2>12. Tally(w, T) <= z
    BY <2>1, <2>3, <2>10, TallyIsSum
  <2> QED BY <2>11, <2>12 DEF z, k, T
<1>5. ASSUME NEW x, NEW y \in DOMAIN Search(w, x, 1).symbols
      PROVE  Search(w, x, 1).symbols[y] = f.labels[y]
  <2>1. /\ y \in UNION {s.symbols : s \in Filled(w)} 
        /\ Search(w, x, 1).symbols[y] = Carrying(w, y)
    BY DEF Search
  <2>2. y \in named
    BY <2>1 DEF Labels
  <2>3. Carrying(w, y) = Tally(w, S(y))
    BY <1>1 DEF Carrying
  <2> HIDE DEF named, S
  <2> QED BY <1>2, <2>1, <2>2, <2>3
<1> HIDE DEF S, named
<1>6. \A x \in DOMAIN f.labels :
                  /\ f.labels[x] = Rows(ExportRecords(c, x, 0, n))
                  /\ f.labels[x] <= UiSymbol(c, x, n).count
                  /\ UiSymbol(c, x, n).count = Min({n, Carrying(c, x)})
                  /\ \A y \in DOMAIN Search(w, x, 1).symbols : Search(w, x, 1).symbols[y] = f.labels[y]
  BY <1>2, <1>3, <1>4, <1>5
<1> QED BY <1>6 DEF f, w

\* The list of labels is the overview's, and the overview counts the relevant rows of a window that holds all.
LEMMA OverviewKeeps ==
    ASSUME NEW c, PanelTable(c), PanelLimit \in Nat
    PROVE  LET f == Facets(RecentRecords(c, PanelLimit, FALSE))
           IN  /\ \A x \in DOMAIN TopLabels(c, PanelLimit) :
                     TopLabels(c, PanelLimit)[x] = Overview(c, PanelLimit).facets.labels[x]
               /\ Overview(c, PanelLimit).relevant = f.relevant \/ f.total = PanelLimit
<1> DEFINE n == PanelLimit
           A == DOMAIN c
           w == RecentRecords(c, n, FALSE)
           r == RecentRecords(c, n, TRUE)
           f == Facets(w)
           T == {s \in A : s.relevant}
<1>1. ASSUME NEW x \in DOMAIN TopLabels(c, n)
      PROVE  TopLabels(c, n)[x] = Overview(c, n).facets.labels[x]
  <2>1. x \in UNION {s.symbols \cup s.reasons : s \in Filled(r)} /\ TopLabels(c, n)[x] = Carrying(r, x)
    BY DEF TopLabels
  <2>2. x \in UNION {Labels(s) : s \in Filled(r)}
    <3>1. PICK s \in Filled(r) : x \in s.symbols \cup s.reasons
      BY <2>1
    <3> HIDE DEF r
    <3> QED BY <3>1 DEF Labels
  <2>3. Overview(c, n).facets.labels[x] = Carrying(r, x)
    BY <2>2 DEF Overview, Facets
  <2> QED BY <2>1, <2>3
<1>2. w = Newest(c, A, n) /\ Shelf(c, A)
  BY WindowFacts DEF PanelTable
<1>3. f.total = Tally(w, DOMAIN w) /\ f.relevant = Tally(w, {s \in DOMAIN w : s.relevant})
      /\ Overview(c, n).relevant = Tally(c, T)
  BY DEF Facets, Rows, RelevantIn, Overview
<1> HIDE DEF f, w
<1>4. DOMAIN w = A
  <2>1. A \in SUBSET DOMAIN c
    OBVIOUS
  <2> HIDE DEF A
  <2>2. IsWindow(Newest(c, A, n), c, A)
    BY <2>1, WindowFacts
  <2> QED BY <1>2, <2>2 DEF IsWindow
<1>5. T \in SUBSET A
  OBVIOUS
<1>6. {s \in DOMAIN w : s.relevant} = T
  BY <1>4
<1> HIDE DEF A, T, n
<1> DEFINE a == Tally(c, A)
           b == Tally(w, A)
<1>7. a \in Nat /\ n \in Nat
  <2>1. A \in SUBSET A
    OBVIOUS
  <2> QED BY <1>2, <2>1, ShelfCounts DEF n
<1>8. b = AtMost(a, n)
  BY <1>2, <1>7, NewestFacts
<1>9. ASSUME a <= n
      PROVE  Tally(w, T) = Tally(c, T)
  <2>1. \A s \in A : w[s] = c[s]
    BY <1>2, <1>7, <1>9, NewestFacts
  <2>2. IsFiniteSet(T) /\ \A s \in T : w[s] \in Int /\ w[s] = c[s]
    BY <1>2, <1>5, <2>1, FS_Subset DEF Shelf
  <2>3. SumOver(w, T) = SumOver(c, T)
    BY <2>2, SumSame
  <2> QED BY <2>3, TallyIsSum
<1> HIDE DEF a, b
<1>10. a <= n \/ b = n
  BY <1>7, <1>8 DEF AtMost
<1>11. f.total = b
  BY <1>3, <1>4 DEF b
<1>12. Overview(c, n).relevant = f.relevant \/ f.total = n
  BY <1>3, <1>6, <1>9, <1>10, <1>11
<1> QED BY <1>1, <1>12 DEF n, f, w

\* A cell of the heatmap that counts so many stories opens on so many, or as many as a page has.
LEMMA HeatCellOpens ==
    ASSUME NEW c, PanelTable(c), PanelLimit \in Nat, HeatLimit \in Nat
    PROVE  LET m == Matrix(RecentRecords(c, PanelLimit, TRUE))
           IN  \A x \in {x \in DOMAIN m : m[x] > 0} :
                  Carrying(c, x[1]) <= 4 * HeatLimit =>
                      Rows(HeatmapRecords(c, x[1], x[2], HeatLimit)) >= Min({m[x], HeatLimit})
<1> DEFINE n == HeatLimit
           A == DOMAIN c
           T == {s \in A : s.relevant}
           r == RecentRecords(c, PanelLimit, TRUE)
           m == Matrix(r)
<1> SUFFICES ASSUME NEW x \in {x \in DOMAIN m : m[x] > 0}, Carrying(c, x[1]) <= 4 * n
             PROVE  Rows(HeatmapRecords(c, x[1], x[2], n)) >= Min({m[x], n})
  OBVIOUS
<1> DEFINE S == {s \in A : x[1] \in Labels(s)}
           U == {s \in S : x[2] \in s.reasons}
           V == {s \in DOMAIN r : x[1] \in s.assets /\ x[2] \in s.reasons}
           four == 4 * n
           w == Newest(c, S, four)
           z == Rows(HeatmapRecords(c, x[1], x[2], n))
           q == Newest(w, U, n)
           k == m[x]
<1>1. k = Tally(r, V)
  BY DEF Matrix
<1>2. r = Newest(c, T, PanelLimit) /\ T \in SUBSET DOMAIN c
  BY WindowFacts
<1>3. four \in Nat /\ S \in SUBSET DOMAIN c /\ U \in SUBSET S /\ U \in SUBSET DOMAIN c
  OBVIOUS
<1>4. Tally(c, S) <= four
  BY DEF Carrying
<1>5. z = Tally(q, DOMAIN q)
  <2>1. ByLabel(c, x[1], 4 * n) = w
    BY DEF ByLabel
  <2>2. DOMAIN w = S
    BY DEF Newest
  <2>3. HeatmapRecords(c, x[1], x[2], n) = q
    BY <2>1, <2>2 DEF HeatmapRecords
  <2> QED BY <2>3 DEF Rows
<1>6. V \in SUBSET DOMAIN r
  OBVIOUS
<1>7. V \in SUBSET T => V \in SUBSET U
  BY DEF Labels
<1> HIDE DEF A, T, r, m, S, U, V, four, w, z, q, k
<1>8. V \in SUBSET T /\ V \in SUBSET U /\ \A s \in T : r[s] \in Nat /\ r[s] <= c[s] /\ c[s] \in Nat
  <2>1. IsWindow(Newest(c, T, PanelLimit), c, T)
    BY <1>2, WindowFacts
  <2> QED BY <1>2, <1>6, <1>7, <2>1 DEF IsWindow
<1>9. Shelf(c, S) /\ Shelf(c, U) /\ DOMAIN w = S
  <2>1. IsWindow(Newest(c, S, four), c, S)
    BY <1>3, WindowFacts
  <2>2. IsWindow(Newest(c, U, four), c, U)
    BY <1>3, WindowFacts
  <2> QED BY <2>1, <2>2 DEF IsWindow, w
<1>10. \A s \in S : w[s] = c[s]
  BY <1>3, <1>4, <1>9, NewestFacts DEF w
<1>11. Shelf(w, U)
  BY <1>3, <1>9, <1>10 DEF Shelf
<1>12. DOMAIN q = U /\ Tally(q, U) = AtMost(Tally(w, U), n)
  BY <1>11, NewestFacts DEF q
<1> DEFINE d == Tally(c, U)
           e == Tally(c, V)
<1>13. Tally(w, U) = d
  <2>1. IsFiniteSet(U) /\ \A s \in U : w[s] \in Int /\ w[s] = c[s]
    BY <1>3, <1>9, <1>10 DEF Shelf
  <2>2. SumOver(w, U) = SumOver(c, U)
    BY <2>1, SumSame
  <2> QED BY <2>2, TallyIsSum
<1>14. e \in Nat /\ d \in Nat /\ e <= d
  <2>1. U \in SUBSET U
    OBVIOUS
  <2> QED BY <1>8, <1>9, <2>1, ShelfCounts
<1>15. k \in Nat /\ k <= e
  <2>1. IsFiniteSet(V)
    BY <1>8, <1>9, FS_Subset DEF Shelf
  <2>2. \A s \in V : r[s] \in Int /\ c[s] \in Int /\ r[s] <= c[s] /\ r[s] \in Nat
    BY <1>8
  <2>3. SumOver(r, V) <= SumOver(c, V)
    BY <2>1, <2>2, SumMonotone
  <2>4. SumOver(r, V) \in Nat
    BY <2>1, <2>2, SumType
  <2> QED BY <1>1, <2>3, <2>4, TallyIsSum
<1> HIDE DEF d, e
<1>16. Min({k, n}) = IF k < n THEN k ELSE n
  BY <1>15, LeastOfTwo
<1>17. z = AtMost(d, n)
  BY <1>5, <1>12, <1>13
<1>18. z >= Min({k, n})
  BY <1>14, <1>15, <1>16, <1>17 DEF AtMost
<1> QED BY <1>18 DEF z, k

\* The corpus of the panels is such a table.
LEMMA PanelCorpus ==
    ASSUME CorpusInv, report = "panels"
    PROVE  PanelTable(corpus)
<1>1. DOMAIN corpus = Shape[report] /\ report \in DOMAIN Shape /\ IsFiniteSet(DOMAIN corpus)
      /\ \A s \in DOMAIN corpus : corpus[s] \in Nat
  <2>1. IsFiniteSet(DOMAIN corpus)
    BY CorpusFinite
  <2> QED BY <2>1 DEF CorpusInv
<1>2. ASSUME NEW s \in DOMAIN corpus
      PROVE  /\ s.nth \in Int /\ s.published \in Int /\ s.score \in Nat
             /\ s.label \in {"positive", "neutral", "negative", "none"}
             /\ IsFiniteSet(s.assets) /\ IsFiniteSet(s.reasons)
             /\ \A t \in DOMAIN corpus : s.nth = t.nth => s = t
  <2>1. s \in Shape[report]
    BY <1>1
  <2>2. /\ {s.nth, s.offset, s.published} \subseteq Int /\ s.score \in Nat /\ s.relevant \in BOOLEAN
        /\ s.label \in {"positive", "neutral", "negative", "none"}
        /\ IsFiniteSet(s.assets) /\ IsFiniteSet(s.reasons) /\ IsFiniteSet(s.symbols)
        /\ \A t \in Shape[report] : s.nth = t.nth => s = t
    <3>1. \A x \in DOMAIN Shape : \A v \in Shape[x] :
             x = "panels" =>
                /\ {v.nth, v.offset, v.published} \subseteq Int /\ v.score \in Nat /\ v.relevant \in BOOLEAN
                /\ v.label \in {"positive", "neutral", "negative", "none"}
                /\ IsFiniteSet(v.assets) /\ IsFiniteSet(v.reasons) /\ IsFiniteSet(v.symbols)
                /\ \A t \in Shape[x] : v.nth = t.nth => v = t
      BY ViewsAssumption, ZenonT(60)
    <3> QED BY <1>1, <2>1, <3>1, Zenon
  <2>3. \A t \in DOMAIN corpus : s.nth = t.nth => s = t
    BY <1>1, <2>2, Zenon
  <2> QED BY <2>2, <2>3
<1> QED BY <1>1, <1>2 DEF PanelTable, IsTable, Shelf

\* The panels agree.
LEMMA PanelsHold == CorpusInv => PanelsAgree
<1> SUFFICES ASSUME CorpusInv, report = "panels"
             PROVE  PanelsAgree
  BY DEF PanelsAgree
<1> DEFINE c == corpus
           w == RecentRecords(c, PanelLimit, FALSE)
           r == RecentRecords(c, PanelLimit, TRUE)
<1>1. PanelTable(c) /\ PanelLimit \in Nat /\ HeatLimit \in Nat /\ TopRows \in Nat /\ TopLimit \in Nat
      /\ TopScore \in Int /\ Today \in Int /\ TrendDays \in Nat /\ DayHours \in Nat \ {0}
  BY PanelCorpus, ViewsAssumption
<1>2. IsTable(w) /\ IsTable(r)
  <2> DEFINE A == DOMAIN c
             T == {s \in DOMAIN c : s.relevant}
  <2>1. A \subseteq DOMAIN c /\ T \subseteq DOMAIN c
    OBVIOUS
  <2>2. w = Newest(c, A, PanelLimit) /\ r = Newest(c, T, PanelLimit)
    BY <1>1, WindowFacts
  <2> HIDE DEF A, T, w, r, c
  <2>3. IsWindow(Newest(c, A, PanelLimit), c, A)
    BY <1>1, <2>1, WindowFacts
  <2>4. IsWindow(Newest(c, T, PanelLimit), c, T)
    BY <1>1, <2>1, WindowFacts
  <2> QED BY <2>2, <2>3, <2>4 DEF IsWindow
<1> DEFINE f == Facets(w)
           m == Matrix(r)
           top == TopRecent(c)
<1>3. \A x \in DOMAIN f.labels :
                  /\ f.labels[x] = Rows(ExportRecords(c, x, 0, PanelLimit))
                  /\ f.labels[x] <= UiSymbol(c, x, PanelLimit).count
                  /\ UiSymbol(c, x, PanelLimit).count = Min({PanelLimit, Carrying(c, x)})
                  /\ \A y \in DOMAIN Search(w, x, 1).symbols : Search(w, x, 1).symbols[y] = f.labels[y]
  BY <1>1, LabelPages
<1>4. /\ \A x \in DOMAIN TopLabels(c, PanelLimit) :
            TopLabels(c, PanelLimit)[x] = Overview(c, PanelLimit).facets.labels[x]
      /\ Overview(c, PanelLimit).relevant = f.relevant \/ f.total = PanelLimit
  BY <1>1, OverviewKeeps
<1>5. /\ AddUp([b \in DOMAIN Timeline(w) |-> Timeline(w)[b].total]) = f.total
      /\ AddUp([b \in DOMAIN Timeline(w) |-> Timeline(w)[b].relevant]) = f.relevant
  <2>1. f.total = Rows(w) /\ f.relevant = RelevantIn(w)
    BY DEF Facets
  <2> QED BY <1>2, <2>1, TimelineKeeps
<1>6. AddUp([h \in DOMAIN Trends(r) |-> AddUp(Trends(r)[h])]) = Total(r, DOMAIN r, LAMBDA s : Cardinality(s.assets))
  BY <1>2, TrendsKeep
<1>7. AddUp(m) = Total(r, DOMAIN r, LAMBDA s : Cardinality(s.assets) * Cardinality(s.reasons))
  BY <1>2, MatrixKeeps
<1>8. \A x \in {x \in DOMAIN m : m[x] > 0} :
         Carrying(c, x[1]) <= 4 * HeatLimit =>
            Rows(HeatmapRecords(c, x[1], x[2], HeatLimit)) >= Min({m[x], HeatLimit})
  BY <1>1, HeatCellOpens
<1>9. \A y \in UNION {s.symbols : s \in Filled(c)} :
          AddUp([d \in DOMAIN SentimentTrend(c, y) |-> AddUp(SentimentTrend(c, y)[d])]) =
                        Tally(c, {s \in Filled(c) :
                            /\ y \in s.symbols /\ s.label # "none" /\ s.published # None
                            /\ s.published \in (Today - TrendDays + 1) * DayHours .. (Today + 1) * DayHours - 1})
  <2>1. IsTable(c) /\ \A s \in DOMAIN c : s.published \in Int /\ s.label \in {"positive", "neutral", "negative", "none"}
    BY <1>1 DEF PanelTable
  <2> QED BY <1>1, <2>1, ToneTrendKeeps
<1>10. \A s \in Filled(RecentRecords(c, TopRows, FALSE)) :
          s \notin DOMAIN top /\ s.score >= TopScore =>
              Rows(top) = TopLimit /\ \A t \in DOMAIN top : t.score >= s.score
  <2>1. Shelf(c, DOMAIN c) /\ \A s \in DOMAIN c : s.score \in Nat
    BY <1>1 DEF PanelTable
  <2> QED BY <1>1, <2>1, TopListKeeps
<1> QED BY <1>3, <1>4, <1>5, <1>6, <1>7, <1>8, <1>9, <1>10, Zenon DEF PanelsAgree

-----------------------------------------------------------------------------
(* Two reviewers on one capture (api.py).                                    *)

\* The overlap of two finite sets is whole where they are equal, and the same either way.
LEMMA JaccardFacts ==
    ASSUME NEW a, NEW b, IsFiniteSet(a), IsFiniteSet(b)
    PROVE  Jaccard(a, b) \in 0 .. 1000 /\ (Jaccard(a, b) = 1000 <=> a = b) /\ Jaccard(a, b) = Jaccard(b, a)
<1> DEFINE u == Cardinality(a \cup b)
           i == Cardinality(a \cap b)
<1>1. Jaccard(a, b) = Jaccard(b, a)
  <2> DEFINE x == a \cup b
             y == a \cap b
             x2 == b \cup a
             y2 == b \cap a
  <2>1. x = x2 /\ y = y2
    OBVIOUS
  <2>2. Jaccard(a, b) = IF x = {} THEN 1000 ELSE (1000 * Cardinality(y)) \div Cardinality(x)
    BY DEF Jaccard
  <2>3. Jaccard(b, a) = IF x2 = {} THEN 1000 ELSE (1000 * Cardinality(y2)) \div Cardinality(x2)
    BY DEF Jaccard
  <2> HIDE DEF x, y, x2, y2
  <2> QED BY <2>1, <2>2, <2>3
<1>2. CASE a \cup b = {}
  <2>1. a = b
    BY <1>2
  <2>2. Jaccard(a, b) = 1000
    BY <1>2 DEF Jaccard
  <2> QED BY <1>1, <2>1, <2>2
<1>3. CASE a \cup b # {}
  <2>1. IsFiniteSet(a \cup b) /\ u \in Nat /\ u # 0
    <3>1. IsFiniteSet(a \cup b)
      BY FS_Union
    <3> QED BY <1>3, <3>1, FS_CardinalityType, FS_EmptySet
  <2>2. i \in Nat /\ i <= u /\ (i = u <=> a = b)
    <3>1. a \cap b \in SUBSET (a \cup b)
      OBVIOUS
    <3>2. IsFiniteSet(a \cap b) /\ i <= u /\ (i = u => a \cap b = a \cup b)
      BY <2>1, <3>1, FS_Subset
    <3>3. a = b => a \cap b = a \cup b
      OBVIOUS
    <3>4. a \cap b = a \cup b => a = b
      OBVIOUS
    <3> QED BY <3>2, <3>3, <3>4, FS_CardinalityType
  <2>3. Jaccard(a, b) = (1000 * i) \div u
    BY <1>3 DEF Jaccard
  <2> HIDE DEF u, i
  <2> DEFINE q == (1000 * i) \div u
  <2>4. q \in Int /\ q * u <= 1000 * i /\ 1000 * i < q * u + u
    BY <2>1, <2>2
  <2> HIDE DEF q
  <2>5. q >= 0
    <3> SUFFICES ASSUME q <= -1 PROVE FALSE
      BY <2>4
    <3>1. -1 - q \in Nat
      BY <2>4
    <3>2. (-1 - q) * u \in Nat
      BY <2>1, <3>1, NatTimes
    <3>3. (-1 - q) * u = -u - q * u
      BY <2>1, <2>4
    <3> QED BY <2>1, <2>2, <2>4, <3>2, <3>3
  <2>6. q <= 1000
    <3> SUFFICES ASSUME q >= 1001 PROVE FALSE
      BY <2>4
    <3>1. q - 1001 \in Nat
      BY <2>4
    <3>2. (q - 1001) * u \in Nat
      BY <2>1, <3>1, NatTimes
    <3>3. (q - 1001) * u = q * u - 1001 * u
      BY <2>1, <2>4
    <3> QED BY <2>1, <2>2, <2>4, <3>2, <3>3
  <2>7. q = 1000 <=> i = u
    <3>1. ASSUME q = 1000 PROVE i = u
      BY <2>1, <2>2, <2>4, <3>1
    <3>2. ASSUME i = u, q <= 999 PROVE FALSE
      <4>1. 999 - q \in Nat
        BY <2>4, <3>2
      <4>2. (999 - q) * u \in Nat
        BY <2>1, <4>1, NatTimes
      <4>3. (999 - q) * u = 999 * u - q * u
        BY <2>1, <2>4
      <4> QED BY <2>1, <2>2, <2>4, <3>2, <4>2, <4>3
    <3> QED BY <2>4, <2>6, <3>1, <3>2
  <2> QED BY <1>1, <2>2, <2>3, <2>4, <2>5, <2>6, <2>7 DEF q
<1> QED BY <1>2, <1>3

\* What a review says.
IsVerdict(v) ==
    /\ v = [x \in {"relevant", "score", "assets", "reasons", "symbols", "label"} |-> v[x]]
    /\ v.relevant \in BOOLEAN /\ v.score \in 0 .. 1000
    /\ IsFiniteSet(v.assets) /\ IsFiniteSet(v.reasons) /\ IsFiniteSet(v.symbols)

\* Each column is from 0 to 1000; it is all or nothing where the reviews agree.
IsAgreement(g, a, b) ==
    /\ {g.relevance, g.delta, g.assets, g.reasons, g.symbols, g.tone} \subseteq 0 .. 1000
    /\ g.relevance = 1000 <=> a.relevant = b.relevant
    /\ g.delta = 0 <=> a.score = b.score
    /\ g.assets = 1000 <=> a.assets = b.assets
    /\ g.reasons = 1000 <=> a.reasons = b.reasons
    /\ g.symbols = 1000 <=> a.symbols = b.symbols
    /\ g.tone = 1000 <=> a.label = b.label /\ a.label # "none"

\* The columns of two reviews.
LEMMA AgreementFacts ==
    ASSUME NEW a, NEW b, IsVerdict(a), IsVerdict(b)
    PROVE  IsAgreement(Agreement(a, b), a, b) /\ Agreement(a, b) = Agreement(b, a)
<1> DEFINE g == Agreement(a, b)
           o == Agreement(b, a)
<1>1. /\ g.relevance = (IF a.relevant = b.relevant THEN 1000 ELSE 0) /\ g.delta = Abs(a.score - b.score)
      /\ g.assets = Jaccard(a.assets, b.assets) /\ g.reasons = Jaccard(a.reasons, b.reasons)
      /\ g.symbols = Jaccard(a.symbols, b.symbols)
      /\ g.tone = (IF a.label # "none" /\ a.label = b.label THEN 1000 ELSE 0)
  BY DEF Agreement
<1>2. Abs(a.score - b.score) = Abs(b.score - a.score) /\ Abs(a.score - b.score) \in 0 .. 1000
      /\ (Abs(a.score - b.score) = 0 <=> a.score = b.score)
  <2> DEFINE m == a.score
             n == b.score
  <2>1. m \in 0 .. 1000 /\ n \in 0 .. 1000
    BY DEF IsVerdict
  <2> HIDE DEF m, n
  <2>2. Abs(m - n) = Abs(n - m) /\ Abs(m - n) \in 0 .. 1000 /\ (Abs(m - n) = 0 <=> m = n)
    BY <2>1 DEF Abs
  <2> QED BY <2>2 DEF m, n
<1>3. /\ Jaccard(a.assets, b.assets) = Jaccard(b.assets, a.assets)
      /\ Jaccard(a.reasons, b.reasons) = Jaccard(b.reasons, a.reasons)
      /\ Jaccard(a.symbols, b.symbols) = Jaccard(b.symbols, a.symbols)
  BY JaccardFacts DEF IsVerdict
<1>4. /\ g.assets \in 0 .. 1000 /\ (g.assets = 1000 <=> a.assets = b.assets)
      /\ g.reasons \in 0 .. 1000 /\ (g.reasons = 1000 <=> a.reasons = b.reasons)
      /\ g.symbols \in 0 .. 1000 /\ (g.symbols = 1000 <=> a.symbols = b.symbols)
  <2>1. Jaccard(a.assets, b.assets) \in 0 .. 1000 /\ (Jaccard(a.assets, b.assets) = 1000 <=> a.assets = b.assets)
    BY JaccardFacts DEF IsVerdict
  <2>2. Jaccard(a.reasons, b.reasons) \in 0 .. 1000
        /\ (Jaccard(a.reasons, b.reasons) = 1000 <=> a.reasons = b.reasons)
    BY JaccardFacts DEF IsVerdict
  <2>3. Jaccard(a.symbols, b.symbols) \in 0 .. 1000
        /\ (Jaccard(a.symbols, b.symbols) = 1000 <=> a.symbols = b.symbols)
    BY JaccardFacts DEF IsVerdict
  <2> HIDE DEF g
  <2> QED BY <1>1, <2>1, <2>2, <2>3
<1>5. g = o
  <2>1. (IF a.relevant = b.relevant THEN 1000 ELSE 0) = IF b.relevant = a.relevant THEN 1000 ELSE 0
    OBVIOUS
  <2>2. (IF a.label # "none" /\ a.label = b.label THEN 1000 ELSE 0)
            = IF b.label # "none" /\ b.label = a.label THEN 1000 ELSE 0
    OBVIOUS
  <2> QED BY <1>2, <1>3, <2>1, <2>2 DEF Agreement
<1>6. g.relevance \in {0, 1000} /\ (g.relevance = 1000 <=> a.relevant = b.relevant)
  BY <1>1
<1>7. g.tone \in {0, 1000} /\ (g.tone = 1000 <=> a.label = b.label /\ a.label # "none")
  BY <1>1
<1>8. g.delta \in 0 .. 1000 /\ (g.delta = 0 <=> a.score = b.score)
  BY <1>1, <1>2
<1> HIDE DEF g, o
<1>9. IsAgreement(g, a, b)
  BY <1>4, <1>6, <1>7, <1>8 DEF IsAgreement
<1> QED BY <1>5, <1>9 DEF g, o

\* What leads the page of a pair is a sixth of its columns, and whole where the reviews say the same of a tone.
LEMMA OverallFacts ==
    ASSUME NEW a, NEW b, IsVerdict(a), IsVerdict(b), NEW g, IsAgreement(g, a, b)
    PROVE  /\ Overall(g) \in Int
           /\ 6 * Overall(g) <= g.relevance + 1000 - g.delta + g.assets + g.reasons + g.symbols + g.tone
           /\ g.relevance + 1000 - g.delta + g.assets + g.reasons + g.symbols + g.tone <= 6 * Overall(g) + 5
           /\ Overall(g) = 1000 <=> a = b /\ a.label # "none"
<1> DEFINE r == g.relevance
           d == g.delta
           x == g.assets
           y == g.reasons
           z == g.symbols
           t == g.tone
           c == 1000
           o == Overall(g)
<1>1. r \in 0 .. 1000 /\ d \in 0 .. 1000 /\ x \in 0 .. 1000 /\ y \in 0 .. 1000 /\ z \in 0 .. 1000 /\ t \in 0 .. 1000
  BY DEF IsAgreement
<1>2. o = (r + 1000 - Min({c, d}) + x + y + z + t) \div 6
  BY DEF Overall
<1>3. c = 1000 /\ c \in Int /\ d \in Int
  <2>1. c = 1000
    OBVIOUS
  <2> HIDE DEF c, d
  <2> QED BY <1>1, <2>1
<1>4. /\ r = 1000 <=> a.relevant = b.relevant
      /\ d = 0 <=> a.score = b.score
      /\ x = 1000 <=> a.assets = b.assets
      /\ y = 1000 <=> a.reasons = b.reasons
      /\ z = 1000 <=> a.symbols = b.symbols
      /\ t = 1000 <=> a.label = b.label /\ a.label # "none"
  BY DEF IsAgreement
<1> HIDE DEF r, d, x, y, z, t, c, o
<1>5. Min({c, d}) = IF c < d THEN c ELSE d
  BY <1>3, LeastOfTwo
<1>6. Min({c, d}) = d
  BY <1>1, <1>3, <1>5
<1> DEFINE k == r + 1000 - d + x + y + z + t
<1>7. o = k \div 6 /\ k \in Int /\ k <= 6000
  BY <1>1, <1>2, <1>6
<1>8. k = 6000 <=> r = 1000 /\ d = 0 /\ x = 1000 /\ y = 1000 /\ z = 1000 /\ t = 1000
  BY <1>1
<1> HIDE DEF k
<1>9. o \in Int /\ 6 * o <= k /\ k <= 6 * o + 5
  BY <1>7
<1>10. o = 1000 <=> k = 6000
  BY <1>7, <1>9
<1>11. a = b <=> /\ a.relevant = b.relevant /\ a.score = b.score /\ a.assets = b.assets
                 /\ a.reasons = b.reasons /\ a.symbols = b.symbols /\ a.label = b.label
  <2> DEFINE D == {"relevant", "score", "assets", "reasons", "symbols", "label"}
             A == [v \in D |-> a[v]]
             B == [v \in D |-> b[v]]
  <2>1. a = A /\ b = B
    BY DEF IsVerdict
  <2>2. ASSUME /\ a.relevant = b.relevant /\ a.score = b.score /\ a.assets = b.assets
               /\ a.reasons = b.reasons /\ a.symbols = b.symbols /\ a.label = b.label
        PROVE  a = b
    <3>1. \A v \in D : a[v] = b[v]
      BY <2>2
    <3> HIDE DEF D
    <3>2. A = B
      BY <3>1
    <3> QED BY <2>1, <3>2
  <2> QED BY <2>2
<1>12. o = 1000 <=> a = b /\ a.label # "none"
  BY <1>4, <1>8, <1>10, <1>11
<1> QED BY <1>9, <1>12 DEF k, o, r, d, x, y, z, t

\* The columns of the pairs P, each a number, and what leads the page.
Columns(o, r, d, x, y, z, t, P) ==
    \A p \in P :
        /\ {o[p], r[p], d[p], x[p], y[p], z[p], t[p]} \subseteq Int
        /\ 6 * o[p] <= r[p] + 1000 - d[p] + x[p] + y[p] + z[p] + t[p]
        /\ r[p] + 1000 - d[p] + x[p] + y[p] + z[p] + t[p] <= 6 * o[p] + 5

\* Six times the sum of what leads each pair is the sum of the columns, but for five a pair.
LEMMA ColumnSums ==
    ASSUME NEW P, IsFiniteSet(P), NEW o, NEW r, NEW d, NEW x, NEW y, NEW z, NEW t, Columns(o, r, d, x, y, z, t, P)
    PROVE  LET k == SumOver(r, P) + 1000 * Cardinality(P) - SumOver(d, P) + SumOver(x, P) + SumOver(y, P)
                    + SumOver(z, P) + SumOver(t, P)
           IN  6 * SumOver(o, P) <= k /\ k <= 6 * SumOver(o, P) + 5 * Cardinality(P)
<1> DEFINE k(T) == SumOver(r, T) + 1000 * Cardinality(T) - SumOver(d, T) + SumOver(x, T) + SumOver(y, T)
                   + SumOver(z, T) + SumOver(t, T)
           G == {T \in SUBSET P : 6 * SumOver(o, T) <= k(T) /\ k(T) <= 6 * SumOver(o, T) + 5 * Cardinality(T)}
<1>1. {} \in G
  <2>1. Cardinality({}) = 0
    BY FS_EmptySet
  <2>2. k({}) = 0
    BY <2>1, SumEmpty
  <2> HIDE DEF k
  <2> QED BY <2>1, <2>2, SumEmpty
<1>2. ASSUME NEW T \in SUBSET P, NEW p \in P \ T, T \in G
      PROVE  T \cup {p} \in G
  <2>1. IsFiniteSet(T) /\ p \notin T /\ T \cup {p} \in SUBSET P
    BY FS_Subset
  <2>2. Cardinality(T \cup {p}) = Cardinality(T) + 1 /\ Cardinality(T) \in Nat
    BY <2>1, FS_AddElement, FS_CardinalityType
  <2>3. ASSUME NEW f, \A q \in P : f[q] \in Int
        PROVE  SumOver(f, T \cup {p}) = f[p] + SumOver(f, T) /\ f[p] \in Int /\ SumOver(f, T) \in Int
    <3>1. \A q \in T : f[q] \in Int
      BY <2>3
    <3>2. f[p] \in Int
      BY <2>3
    <3> QED BY <2>1, <3>1, <3>2, SumAdd, SumType
  <2> DEFINE n == Cardinality(T)
             U == T \cup {p}
  <2>4. /\ \A q \in P : o[q] \in Int
        /\ \A q \in P : r[q] \in Int
        /\ \A q \in P : d[q] \in Int
        /\ \A q \in P : x[q] \in Int
        /\ \A q \in P : y[q] \in Int
        /\ \A q \in P : z[q] \in Int
        /\ \A q \in P : t[q] \in Int
    BY DEF Columns
  <2> HIDE DEF U
  <2> DEFINE oT == SumOver(o, T)
             rT == SumOver(r, T)
             dT == SumOver(d, T)
             xT == SumOver(x, T)
             yT == SumOver(y, T)
             zT == SumOver(z, T)
             tT == SumOver(t, T)
             ov == o[p]
             rv == r[p]
             dv == d[p]
             xv == x[p]
             yv == y[p]
             zv == z[p]
             tv == t[p]
  <2>5. SumOver(o, U) = ov + oT /\ ov \in Int /\ oT \in Int
    BY <2>3, <2>4 DEF U
  <2>6. SumOver(r, U) = rv + rT /\ rv \in Int /\ rT \in Int
    BY <2>3, <2>4 DEF U
  <2>7. SumOver(d, U) = dv + dT /\ dv \in Int /\ dT \in Int
    BY <2>3, <2>4 DEF U
  <2>8. SumOver(x, U) = xv + xT /\ xv \in Int /\ xT \in Int
    BY <2>3, <2>4 DEF U
  <2>9. SumOver(y, U) = yv + yT /\ yv \in Int /\ yT \in Int
    BY <2>3, <2>4 DEF U
  <2>10. SumOver(z, U) = zv + zT /\ zv \in Int /\ zT \in Int
    BY <2>3, <2>4 DEF U
  <2>11. SumOver(t, U) = tv + tT /\ tv \in Int /\ tT \in Int
    BY <2>3, <2>4 DEF U
  <2>12. 6 * ov <= rv + 1000 - dv + xv + yv + zv + tv /\ rv + 1000 - dv + xv + yv + zv + tv <= 6 * ov + 5
    BY DEF Columns
  <2>13. LET l == rT + 1000 * n - dT + xT + yT + zT + tT IN 6 * oT <= l /\ l <= 6 * oT + 5 * n
    BY <1>2
  <2>14. Cardinality(U) = n + 1 /\ n \in Nat
    BY <2>2 DEF U
  <2> HIDE DEF n, oT, rT, dT, xT, yT, zT, tT, ov, rv, dv, xv, yv, zv, tv
  <2>15. 6 * SumOver(o, U) <= k(U) /\ k(U) <= 6 * SumOver(o, U) + 5 * Cardinality(U)
    BY <2>5, <2>6, <2>7, <2>8, <2>9, <2>10, <2>11, <2>12, <2>13, <2>14
  <2> HIDE DEF k
  <2> QED BY <2>1, <2>15 DEF U
<1> HIDE DEF k
<1>3. P \in G
  <2> HIDE DEF G
  <2> QED BY <1>1, <1>2, AddingElements
<1> QED BY <1>3 DEF k

\* A mean of integers, rounded down.
LEMMA MeanIsBelow ==
    ASSUME NEW s \in Int, NEW n \in Nat \ {0}
    PROVE  s \div n \in Int /\ n * (s \div n) <= s /\ s < n * (s \div n) + n
OBVIOUS

\* Sums o and so on of n columns: o is a sixth of the others, but for five each.
Sixfold(n, o, r, d, x, y, z, t) ==
    /\ n \in Nat \ {0} /\ o \in Int /\ r \in Int /\ d \in Int /\ x \in Int /\ y \in Int /\ z \in Int /\ t \in Int
    /\ 6 * o <= r + 1000 * n - d + x + y + z + t /\ r + 1000 * n - d + x + y + z + t <= 6 * o + 5 * n

\* Means of the columns, rounded down, add up to six times the mean of what leads the pairs, but for twelve.
LEMMA MeansAddUp ==
    ASSUME NEW n, NEW o, NEW r, NEW d, NEW x, NEW y, NEW z, NEW t, Sixfold(n, o, r, d, x, y, z, t)
    PROVE  Abs(6 * (o \div n)
               - (r \div n + 1000 - d \div n + x \div n + y \div n + z \div n + t \div n)) <= 12
<1> USE DEF Sixfold
<1> DEFINE O == o \div n
           R == r \div n
           D == d \div n
           X == x \div n
           Y == y \div n
           Z == z \div n
           T == t \div n
           m == 6 * O - (R + 1000 - D + X + Y + Z + T)
<1>1. O \in Int /\ R \in Int /\ D \in Int /\ X \in Int /\ Y \in Int /\ Z \in Int /\ T \in Int
  OBVIOUS
<1>2. /\ n * O <= o /\ o < n * O + n
      /\ n * R <= r /\ r < n * R + n
      /\ n * D <= d /\ d < n * D + n
      /\ n * X <= x /\ x < n * X + n
      /\ n * Y <= y /\ y < n * Y + n
      /\ n * Z <= z /\ z < n * Z + n
      /\ n * T <= t /\ t < n * T + n
  BY MeanIsBelow
<1> HIDE DEF O, R, D, X, Y, Z, T
<1>3. n * m = 6 * (n * O) - (n * R + 1000 * n - n * D + n * X + n * Y + n * Z + n * T)
  BY <1>1
<1>4. m \in Int
  BY <1>1
<1> HIDE DEF m
<1> DEFINE nO == n * O
           nR == n * R
           nD == n * D
           nX == n * X
           nY == n * Y
           nZ == n * Z
           nT == n * T
           nm == n * m
<1>5. nO \in Int /\ nR \in Int /\ nD \in Int /\ nX \in Int /\ nY \in Int /\ nZ \in Int /\ nT \in Int /\ nm \in Int
  BY <1>1, <1>4
<1>6. /\ nO <= o /\ o < nO + n
      /\ nR <= r /\ r < nR + n
      /\ nD <= d /\ d < nD + n
      /\ nX <= x /\ x < nX + n
      /\ nY <= y /\ y < nY + n
      /\ nZ <= z /\ z < nZ + n
      /\ nT <= t /\ t < nT + n
  BY <1>2
<1>7. nm = 6 * nO - (nR + 1000 * n - nD + nX + nY + nZ + nT)
  BY <1>3
<1> HIDE DEF nO, nR, nD, nX, nY, nZ, nT, nm
<1>8. -12 * n < nm /\ nm < 6 * n
  BY <1>5, <1>6, <1>7
<1>9. -12 <= m
  <2> SUFFICES ASSUME m <= -13 PROVE FALSE
    BY <1>4
  <2>1. -13 - m \in Nat
    BY <1>4
  <2>2. (-13 - m) * n \in Nat
    BY <2>1, NatTimes
  <2>3. (-13 - m) * n = -13 * n - nm
    BY <1>4 DEF nm
  <2> QED BY <1>5, <1>8, <2>2, <2>3
<1>10. m <= 12
  <2> SUFFICES ASSUME m >= 13 PROVE FALSE
    BY <1>4
  <2>1. m - 13 \in Nat
    BY <1>4
  <2>2. (m - 13) * n \in Nat
    BY <2>1, NatTimes
  <2>3. (m - 13) * n = nm - 13 * n
    BY <1>4 DEF nm
  <2> QED BY <1>5, <1>8, <2>2, <2>3
<1>11. Abs(m) <= 12
  BY <1>4, <1>9, <1>10 DEF Abs
<1> QED BY <1>11 DEF m, O, R, D, X, Y, Z, T

\* What is on the page of the reviews: one of each reviewer for a capture.
IsReview(s) ==
    /\ s.at \in Int /\ s.at <= Today * DayHours + 1 /\ s.cost \in Int /\ s.error \in BOOLEAN /\ IsVerdict(s.says)
OneEach(R) == \A s, t \in R : s.capture = t.capture /\ s.reviewer = t.reviewer => s = t

\* What is assumed of the reviews.
LEMMA ReviewShapes ==
    \A r \in DOMAIN Shape : \A s \in Shape[r] :
        r = "compare" =>
            IsReview(s) /\ \A t \in Shape[r] : s.capture = t.capture /\ s.reviewer = t.reviewer /\ s.at = t.at => s = t
<1> SUFFICES ASSUME NEW r \in DOMAIN Shape, NEW s \in Shape[r], r = "compare"
             PROVE  IsReview(s) /\ \A t \in Shape[r] :
                        s.capture = t.capture /\ s.reviewer = t.reviewer /\ s.at = t.at => s = t
  OBVIOUS
<1>1. /\ s.at \in Int /\ s.at <= Today * DayHours + 1 /\ s.cost \in Int /\ s.error \in BOOLEAN
      /\ s.says = [x \in {"relevant", "score", "assets", "reasons", "symbols", "label"} |-> s.says[x]]
      /\ s.says.relevant \in BOOLEAN /\ s.says.score \in 0 .. 1000
      /\ IsFiniteSet(s.says.assets) /\ IsFiniteSet(s.says.reasons) /\ IsFiniteSet(s.says.symbols)
      /\ \A t \in Shape[r] : s.capture = t.capture /\ s.reviewer = t.reviewer /\ s.at = t.at => s = t
  BY ViewsAssumption
<1> QED BY <1>1, Zenon DEF IsReview, IsVerdict

\* The reviews that are kept.
LEMMA ReviewFacts ==
    ASSUME CorpusInv, report = "compare"
    PROVE  /\ IsFiniteSet(Reviews(corpus)) /\ OneEach(Reviews(corpus))
           /\ \A s \in Reviews(corpus) : IsReview(s)
<1> DEFINE R == Reviews(corpus)
           F == Filled(corpus)
<1>1. IsFiniteSet(F) /\ F \subseteq Shape[report] /\ report \in DOMAIN Shape
  BY CorpusFinite DEF CorpusInv
<1>2. /\ R \in SUBSET F
      /\ \A s, t \in R : t.capture = s.capture /\ t.reviewer = s.reviewer => t.at <= s.at
  BY DEF Reviews
<1>3. ASSUME NEW s \in F
      PROVE  IsReview(s) /\ \A t \in F : s.capture = t.capture /\ s.reviewer = t.reviewer /\ s.at = t.at => s = t
  <2>1. s \in Shape[report]
    BY <1>1
  <2> HIDE DEF F
  <2>3. IsReview(s) /\ \A t \in Shape[report] :
            s.capture = t.capture /\ s.reviewer = t.reviewer /\ s.at = t.at => s = t
    BY <1>1, <2>1, ReviewShapes
  <2>5. \A t \in F : s.capture = t.capture /\ s.reviewer = t.reviewer /\ s.at = t.at => s = t
    BY <1>1, <2>3
  <2> QED BY <2>3, <2>5
<1> HIDE DEF R, F
<1>4. IsFiniteSet(R)
  BY <1>1, <1>2, FS_Subset
<1>5. OneEach(R)
  <2> SUFFICES ASSUME NEW s \in R, NEW t \in R, s.capture = t.capture, s.reviewer = t.reviewer
               PROVE  s = t
    BY DEF OneEach
  <2>1. s \in F /\ t \in F /\ s.at <= t.at /\ t.at <= s.at
    BY <1>2
  <2>2. s.at \in Int /\ t.at \in Int
    BY <1>3, <2>1 DEF IsReview
  <2>3. s.at = t.at
    BY <2>1, <2>2
  <2> QED BY <1>3, <2>1, <2>3
<1> QED BY <1>2, <1>3, <1>4, <1>5 DEF R

\* The pairs on the page.
ArePairs(P, R) ==
    /\ IsFiniteSet(P)
    /\ \A p \in P : /\ p = <<p[1], p[2]>> /\ p[1] \in R /\ p[2] \in R /\ p[1].capture = p[2].capture
                    /\ p[1].reviewer = "stub" /\ p[2].reviewer = "deepseek"
    /\ \A p, q \in P : p[1].capture = q[1].capture => p = q

\* A capture is once on the page.
LEMMA PairFacts ==
    ASSUME CorpusInv, report = "compare"
    PROVE  ArePairs(Pairs(corpus), Reviews(corpus))
<1> DEFINE R == Reviews(corpus)
           P == Pairs(corpus)
<1>1. IsFiniteSet(R) /\ OneEach(R)
  BY ReviewFacts
<1>2. P = {p \in R \X R : p[1].capture = p[2].capture /\ p[1].reviewer = "stub" /\ p[2].reviewer = "deepseek"}
  BY DEF Pairs
<1> HIDE DEF R, P
<1>3. IsFiniteSet(P)
  <2>1. IsFiniteSet(R \X R)
    BY <1>1, FS_Product
  <2>2. P \in SUBSET (R \X R)
    BY <1>2
  <2> QED BY <2>1, <2>2, FS_Subset
<1>4. \A p \in P : /\ p = <<p[1], p[2]>> /\ p[1] \in R /\ p[2] \in R /\ p[1].capture = p[2].capture
                   /\ p[1].reviewer = "stub" /\ p[2].reviewer = "deepseek"
  BY <1>2
<1>5. ASSUME NEW p \in P, NEW q \in P, p[1].capture = q[1].capture
      PROVE  p = q
  <2>1. p[1].reviewer = q[1].reviewer /\ p[2].reviewer = q[2].reviewer /\ p[2].capture = q[2].capture
    BY <1>4, <1>5
  <2>2. p[1] = q[1]
    BY <1>1, <1>4, <1>5, <2>1 DEF OneEach
  <2>3. p[2] = q[2]
    BY <1>1, <1>4, <2>1 DEF OneEach
  <2> QED BY <1>4, <2>2, <2>3
<1> QED BY <1>3, <1>4, <1>5 DEF ArePairs, R, P

\* What leads the page is made of the six columns under it, but for twelve.
LEMMA PageAddsUp ==
    ASSUME CorpusInv, report = "compare", CompareSummary(corpus).n > 0
    PROVE  LET x == CompareSummary(corpus)
           IN  Abs(6 * x.overall
                    - (x.relevance + 1000 - x.delta + x.assets + x.reasons + x.symbols + x.tone)) <= 12
<1> DEFINE P == Pairs(corpus)
           g == [p \in P |-> Agreement(p[1].says, p[2].says)]
           n == Cardinality(P)
           o == [p \in P |-> Overall(Agreement(p[1].says, p[2].says))]
           r == [p \in P |-> Agreement(p[1].says, p[2].says).relevance]
           d == [p \in P |-> Agreement(p[1].says, p[2].says).delta]
           x == [p \in P |-> Agreement(p[1].says, p[2].says).assets]
           y == [p \in P |-> Agreement(p[1].says, p[2].says).reasons]
           z == [p \in P |-> Agreement(p[1].says, p[2].says).symbols]
           t == [p \in P |-> Agreement(p[1].says, p[2].says).tone]
           s == CompareSummary(corpus)
<1>1. s.n = n
  BY DEF CompareSummary
<1>2. n # 0
  BY <1>1
<1>3. s.overall = AddUp(o) \div n
  BY <1>2 DEF CompareSummary
<1>4. s.relevance = AddUp(r) \div n
  BY <1>2 DEF CompareSummary
<1>5. s.delta = AddUp(d) \div n
  BY <1>2 DEF CompareSummary
<1>6. s.assets = AddUp(x) \div n
  BY <1>2 DEF CompareSummary
<1>7. s.reasons = AddUp(y) \div n
  BY <1>2 DEF CompareSummary
<1>8. s.symbols = AddUp(z) \div n
  BY <1>2 DEF CompareSummary
<1>9. s.tone = AddUp(t) \div n
  BY <1>2 DEF CompareSummary
<1>10. \A p \in P : /\ o[p] = Overall(g[p]) /\ r[p] = g[p].relevance /\ d[p] = g[p].delta /\ x[p] = g[p].assets
                    /\ y[p] = g[p].reasons /\ z[p] = g[p].symbols /\ t[p] = g[p].tone
                    /\ g[p] = Agreement(p[1].says, p[2].says)
  OBVIOUS
<1>11. /\ DOMAIN o = P /\ DOMAIN r = P /\ DOMAIN d = P /\ DOMAIN x = P /\ DOMAIN y = P /\ DOMAIN z = P
       /\ DOMAIN t = P
  OBVIOUS
<1>12. ArePairs(P, Reviews(corpus)) /\ \A v \in Reviews(corpus) : IsReview(v)
  BY PairFacts, ReviewFacts
<1> HIDE DEF P, g, o, r, d, x, y, z, t, s
<1>13. Columns(o, r, d, x, y, z, t, P)
  <2> SUFFICES ASSUME NEW p \in P
               PROVE  /\ {o[p], r[p], d[p], x[p], y[p], z[p], t[p]} \subseteq Int
                      /\ 6 * o[p] <= r[p] + 1000 - d[p] + x[p] + y[p] + z[p] + t[p]
                      /\ r[p] + 1000 - d[p] + x[p] + y[p] + z[p] + t[p] <= 6 * o[p] + 5
    BY DEF Columns
  <2> DEFINE a == p[1].says
             b == p[2].says
             h == g[p]
  <2>1. IsVerdict(a) /\ IsVerdict(b)
    BY <1>12 DEF ArePairs, IsReview
  <2>2. h = Agreement(a, b)
    BY <1>10
  <2>3. IsAgreement(h, a, b)
    <3> HIDE DEF a, b, h
    <3> QED BY <2>1, <2>2, AgreementFacts
  <2> HIDE DEF a, b, h
  <2>4. /\ Overall(h) \in Int
        /\ 6 * Overall(h) <= h.relevance + 1000 - h.delta + h.assets + h.reasons + h.symbols + h.tone
        /\ h.relevance + 1000 - h.delta + h.assets + h.reasons + h.symbols + h.tone <= 6 * Overall(h) + 5
    BY <2>1, <2>3, OverallFacts
  <2>5. {h.relevance, h.delta, h.assets, h.reasons, h.symbols, h.tone} \subseteq Int
    <3>1. {h.relevance, h.delta, h.assets, h.reasons, h.symbols, h.tone} \subseteq 0 .. 1000
      BY <2>3 DEF IsAgreement
    <3>2. 0 .. 1000 \subseteq Int
      OBVIOUS
    <3> QED BY <3>1, <3>2, Zenon
  <2>6. o[p] = Overall(h) /\ r[p] = h.relevance /\ d[p] = h.delta /\ x[p] = h.assets
        /\ y[p] = h.reasons /\ z[p] = h.symbols /\ t[p] = h.tone
    BY <1>10 DEF h
  <2> QED BY <2>4, <2>5, <2>6
<1>14. IsFiniteSet(P) /\ n \in Nat \ {0}
  BY <1>2, <1>12, FS_CardinalityType DEF ArePairs
<1>15. \A p \in P : /\ o[p] \in Int /\ r[p] \in Int /\ d[p] \in Int /\ x[p] \in Int
                    /\ y[p] \in Int /\ z[p] \in Int /\ t[p] \in Int
  BY <1>13 DEF Columns
<1>16. \A f : (\A p \in P : f[p] \in Int) => SumOver(f, P) \in Int
  BY <1>14, SumType
<1> DEFINE so == SumOver(o, P)
           sr == SumOver(r, P)
           sd == SumOver(d, P)
           sx == SumOver(x, P)
           sy == SumOver(y, P)
           sz == SumOver(z, P)
           st == SumOver(t, P)
<1>17. so \in Int /\ sr \in Int /\ sd \in Int /\ sx \in Int /\ sy \in Int /\ sz \in Int /\ st \in Int
  BY <1>15, <1>16
<1>18. 6 * so <= sr + 1000 * n - sd + sx + sy + sz + st /\ sr + 1000 * n - sd + sx + sy + sz + st <= 6 * so + 5 * n
  BY <1>13, <1>14, ColumnSums
<1>19. /\ s.overall = so \div n /\ s.relevance = sr \div n /\ s.delta = sd \div n /\ s.assets = sx \div n
       /\ s.reasons = sy \div n /\ s.symbols = sz \div n /\ s.tone = st \div n
  BY <1>3, <1>4, <1>5, <1>6, <1>7, <1>8, <1>9, <1>11, SequenceSum
<1> HIDE DEF n, so, sr, sd, sx, sy, sz, st
<1>20. Abs(6 * (so \div n)
               - (sr \div n + 1000 - sd \div n + sx \div n + sy \div n + sz \div n + st \div n)) <= 12
  <2>1. Sixfold(n, so, sr, sd, sx, sy, sz, st)
    BY <1>14, <1>17, <1>18 DEF Sixfold
  <2> QED BY <2>1, MeansAddUp
<1> QED BY <1>19, <1>20 DEF s

\* Two reviews agree to the full exactly where they say the same, whichever is which; a capture is once on the page.
LEMMA PairsAgree ==
    ASSUME CorpusInv, report = "compare", NEW p \in Pairs(corpus), NEW q \in Pairs(corpus)
    PROVE  LET g == Agreement(p[1].says, p[2].says)
           IN  /\ Overall(g) = 1000 <=> p[1].says = p[2].says /\ p[1].says.label # "none"
               /\ g = Agreement(p[2].says, p[1].says)
               /\ p[1].capture = q[1].capture => p = q
<1> DEFINE a == p[1].says
           b == p[2].says
           g == Agreement(a, b)
<1>1. ArePairs(Pairs(corpus), Reviews(corpus)) /\ \A s \in Reviews(corpus) : IsReview(s)
  BY PairFacts, ReviewFacts
<1>2. IsVerdict(a) /\ IsVerdict(b)
  BY <1>1 DEF ArePairs, IsReview
<1>3. p[1].capture = q[1].capture => p = q
  BY <1>1 DEF ArePairs
<1> HIDE DEF a, b
<1>4. IsAgreement(g, a, b) /\ g = Agreement(b, a)
  BY <1>2, AgreementFacts
<1> HIDE DEF g
<1>5. Overall(g) = 1000 <=> a = b /\ a.label # "none"
  BY <1>2, <1>4, OverallFacts
<1> QED BY <1>3, <1>4, <1>5 DEF g, a, b

\* What the labels export, and what has none, are the page.
LEMMA ExportsCover ==
    ASSUME CorpusInv, report = "compare"
    PROVE  CompareSummary(corpus).n
              = Cardinality(UNION {ExportReviews(corpus, l, 0) : l \in UNION {Labels(p[1].says) : p \in Pairs(corpus)}})
                + Cardinality({p \in Pairs(corpus) : Labels(p[1].says) = {}})
<1> DEFINE P == Pairs(corpus)
           L == UNION {Labels(p[1].says) : p \in P}
           A == UNION {ExportReviews(corpus, l, 0) : l \in L}
           B == {p \in P : Labels(p[1].says) = {}}
<1>1. ArePairs(P, Reviews(corpus)) /\ \A s \in Reviews(corpus) : IsReview(s)
  BY PairFacts, ReviewFacts
<1>2. \A p \in P : p[1].says.score >= 0
  <2> SUFFICES ASSUME NEW p \in P PROVE p[1].says.score >= 0
    OBVIOUS
  <2> DEFINE n == p[1].says.score
  <2>1. n \in 0 .. 1000
    BY <1>1 DEF ArePairs, IsReview, IsVerdict
  <2> HIDE DEF n
  <2>2. n >= 0
    BY <2>1
  <2> QED BY <2>2 DEF n
<1>3. \A l : ExportReviews(corpus, l, 0) = {p \in P : l \in Labels(p[1].says)}
  BY <1>2 DEF ExportReviews
<1>4. CompareSummary(corpus).n = Cardinality(P)
  BY DEF CompareSummary
<1>5. A = {p \in P : Labels(p[1].says) # {}}
  <2>1. ASSUME NEW p \in A
        PROVE  p \in P /\ Labels(p[1].says) # {}
    <3>1. PICK l \in L : p \in ExportReviews(corpus, l, 0)
      OBVIOUS
    <3> QED BY <1>3, <3>1
  <2>2. ASSUME NEW p \in P, Labels(p[1].says) # {}
        PROVE  p \in A
    <3>1. PICK l : l \in Labels(p[1].says)
      BY <2>2
    <3>2. l \in L
      BY <3>1
    <3>3. p \in ExportReviews(corpus, l, 0)
      BY <1>3, <3>1
    <3> HIDE DEF L
    <3> QED BY <3>2, <3>3
  <2> HIDE DEF A
  <2> QED BY <2>1, <2>2
<1> HIDE DEF P, L, A
<1>6. A = P \ B /\ P \cap B = B
  BY <1>5
<1> HIDE DEF B
<1>7. IsFiniteSet(P) /\ Cardinality(P) \in Nat
  BY <1>1, FS_CardinalityType DEF ArePairs
<1>8. Cardinality(A) = Cardinality(P) - Cardinality(B)
  <2>1. Cardinality(P \ B) = Cardinality(P) - Cardinality(P \cap B)
    BY <1>7, FS_Difference
  <2> QED BY <1>6, <2>1
<1>9. Cardinality(B) \in Nat
  <2>1. B \in SUBSET P
    BY <1>6
  <2> QED BY <1>7, <2>1, FS_Subset, FS_CardinalityType
<1>10. Cardinality(P) = Cardinality(A) + Cardinality(B)
  BY <1>7, <1>8, <1>9
<1> QED BY <1>4, <1>10 DEF P, L, A, B

\* A pair that failed is a call that failed.
LEMMA ErrorsAreCalls ==
    ASSUME CorpusInv, report = "compare"
    PROVE  CompareSummary(corpus).errors <= TokenTotals(corpus).errors
<1> DEFINE R == Reviews(corpus)
           P == Pairs(corpus)
           E == {p \in P : p[2].error}
           rows == {s \in R : s.reviewer = "deepseek"}
           F == {s \in rows : s.error}
           second == [p \in E |-> p[2]]
<1>1. ArePairs(P, R) /\ OneEach(R) /\ IsFiniteSet(R)
  BY PairFacts, ReviewFacts
<1>2. CompareSummary(corpus).errors = Cardinality(E) /\ TokenTotals(corpus).errors = Cardinality(F)
  BY DEF CompareSummary, TokenTotals
<1> HIDE DEF P, R
<1>3. \A p \in E : second[p] \in F
  BY <1>1 DEF ArePairs
<1>4. ASSUME NEW p \in E, NEW q \in E, second[p] = second[q]
      PROVE  p = q
  <2>1. p \in P /\ q \in P /\ p[2] = q[2]
    BY <1>4
  <2>2. p[1].capture = q[1].capture
    BY <1>1, <2>1 DEF ArePairs
  <2> QED BY <1>1, <2>1, <2>2 DEF ArePairs
<1>5. F \in SUBSET R /\ second \in [E -> F]
  BY <1>3
<1> HIDE DEF E, F, second
<1>6. IsFiniteSet(F)
  BY <1>1, <1>5, FS_Subset
<1>7. second \in Injection(E, F)
  BY <1>4, <1>5 DEF Injection, IsInjective
<1>8. Cardinality(E) <= Cardinality(F)
  BY <1>6, <1>7, FS_Injection
<1> QED BY <1>2, <1>8

\* The days of the spend are no more than asked for and one, their calls no more than all, and their cost what was
\* paid since.
LEMMA SpendAddsUp ==
    ASSUME CorpusInv, report = "compare"
    PROVE  LET h == SpendHistory(corpus, Today * DayHours + 1, TrendDays)
               t == TokenTotals(corpus)
           IN  /\ Cardinality(DOMAIN h) <= TrendDays + 1
               /\ AddUp([d \in DOMAIN h |-> h[d].calls]) <= t.calls
               /\ (\A s \in Reviews(corpus) : s.at >= (Today - TrendDays) * DayHours + 1) =>
                     AddUp([d \in DOMAIN h |-> h[d].cost]) = t.cost
<1> DEFINE R == Reviews(corpus)
           q == DayHours
           now == Today * q + 1
           rows == {s \in R : s.reviewer = "deepseek"}
           since == {s \in R : s.reviewer = "deepseek" /\ s.at >= now - TrendDays * q}
           On(d) == {s \in since : s.at \div q = d}
           h == SpendHistory(corpus, now, TrendDays)
           t == TokenTotals(corpus)
           D == {s.at \div q : s \in since}
           g == [s \in since |-> s.at \div q]
           calls == [d \in DOMAIN h |-> h[d].calls]
           cost == [d \in DOMAIN h |-> h[d].cost]
           part == [d \in D |-> On(d)]
           paid == [s \in R |-> s.cost]
<1>1. q \in Nat \ {0} /\ Today \in Int /\ TrendDays \in Nat
  BY ViewsAssumption
<1>2. IsFiniteSet(R) /\ \A s \in R : s.at \in Int /\ s.cost \in Int /\ s.at <= now
  BY ReviewFacts DEF IsReview
<1>3. /\ DOMAIN h = D
      /\ \A d \in D : h[d].calls = Cardinality(On(d)) /\ h[d].cost = AddUp([s \in On(d) |-> s.cost])
  BY DEF SpendHistory
<1>4. t.calls = Cardinality(rows) /\ t.cost = AddUp([s \in rows |-> s.cost])
  BY DEF TokenTotals
<1> HIDE DEF R, h, t, q
<1>5. since \in SUBSET R /\ since \in SUBSET rows /\ rows \in SUBSET R
  OBVIOUS
<1>6. \A s \in since : g[s] \in D /\ g[s] = s.at \div q /\ s.at >= now - TrendDays * q
  OBVIOUS
<1>7. \A d \in D : part[d] \subseteq since /\ part[d] = On(d)
  OBVIOUS
<1>8. \A s \in since : \A d \in D : s \in part[d] <=> g[s] = d
  OBVIOUS
<1>9. D = {g[s] : s \in since}
  BY <1>6
<1>10. (\A s \in R : s.at >= now - TrendDays * q) => since = rows
  OBVIOUS
<1>11. now \in Int /\ now - TrendDays * q \in Int /\ now = Today * q + 1
  BY <1>1
<1>12. DOMAIN calls = D /\ DOMAIN cost = D /\ \A d \in D : calls[d] = h[d].calls /\ cost[d] = h[d].cost
  BY <1>3
<1>13. \A s \in R : paid[s] = s.cost
  OBVIOUS
<1>14. IsFiniteSet(since) /\ IsFiniteSet(rows)
  <2> HIDE DEF since, rows
  <2> QED BY <1>2, <1>5, FS_Subset
<1> HIDE DEF since, rows, D, g, part, calls, cost, now, paid, On
<1>15. IsFiniteSet(D)
  BY <1>9, <1>14, ImageIsFinite
<1>16. Cardinality(D) <= TrendDays + 1
  <2> DEFINE b == now \div q
             a == b - TrendDays
             Days == a .. b
  <2>1. b \in Int /\ b * q <= now /\ now < b * q + q
    BY <1>1, <1>11
  <2> HIDE DEF b
  <2>2. a \in Int /\ a = b - TrendDays
    BY <1>1, <2>1
  <2> HIDE DEF a
  <2>3. ASSUME NEW s \in since
        PROVE  g[s] \in a .. b
    <3> DEFINE d == s.at \div q
               v == s.at
    <3>1. v \in Int /\ v <= now /\ v >= now - TrendDays * q
      BY <1>2, <1>5, <1>6
    <3>2. d \in Int /\ d * q <= v /\ v < d * q + q
      BY <1>1, <3>1
    <3>3. g[s] = d
      BY <1>6
    <3> HIDE DEF d, v
    <3>4. d <= b
      <4> SUFFICES ASSUME d >= b + 1 PROVE FALSE
        BY <2>1, <3>2
      <4>1. d - b - 1 \in Nat
        BY <2>1, <3>2
      <4>2. (d - b - 1) * q \in Nat
        BY <1>1, <4>1, NatTimes
      <4>3. (d - b - 1) * q = d * q - b * q - q
        BY <1>1, <2>1, <3>2
      <4> QED BY <1>1, <1>11, <2>1, <3>1, <3>2, <4>2, <4>3
    <3>5. a <= d
      <4> SUFFICES ASSUME d <= a - 1 PROVE FALSE
        BY <2>2, <3>2
      <4>1. b - TrendDays - d - 1 \in Nat
        BY <1>1, <2>1, <2>2, <3>2
      <4>2. (b - TrendDays - d - 1) * q \in Nat
        BY <1>1, <4>1, NatTimes
      <4>3. (b - TrendDays - d - 1) * q = b * q - TrendDays * q - d * q - q
        BY <1>1, <2>1, <3>2
      <4> QED BY <1>1, <1>11, <2>1, <3>1, <3>2, <4>2, <4>3
    <3> QED BY <2>1, <2>2, <3>2, <3>3, <3>4, <3>5
  <2>4. D \in SUBSET (a .. b)
    BY <1>9, <2>3
  <2>5. IsFiniteSet(a .. b) /\ Cardinality(a .. b) = IF a > b THEN 0 ELSE b - a + 1
    BY <2>1, <2>2, FS_Interval
  <2>6. Cardinality(a .. b) = TrendDays + 1
    BY <1>1, <2>1, <2>2, <2>5
  <2> QED BY <2>4, <2>5, <2>6, FS_Subset
<1>17. AddUp(calls) <= t.calls
  <2>1. \A d \in D : calls[d] = Cardinality(part[d])
    BY <1>3, <1>7, <1>12
  <2>2. \A s \in since : g[s] \in D
    BY <1>6
  <2>3. \A d \in D : part[d] \subseteq since
    BY <1>7
  <2>4. SumOver(calls, D) = Cardinality(since)
    BY <1>8, <1>14, <1>15, <2>1, <2>2, <2>3, CountParts
  <2>5. Cardinality(since) <= Cardinality(rows)
    BY <1>5, <1>14, FS_Subset
  <2> QED BY <1>4, <1>12, <2>4, <2>5, SequenceSum
<1>18. ASSUME \A s \in R : s.at >= (Today - TrendDays) * q + 1
       PROVE  AddUp(cost) = t.cost
  <2>1. now - TrendDays * q = (Today - TrendDays) * q + 1
    BY <1>1, <1>11
  <2>2. since = rows
    BY <1>10, <1>18, <2>1
  <2>3. ASSUME NEW S \in SUBSET R
        PROVE  AddUp([s \in S |-> s.cost]) = SumOver(paid, S)
    <3> DEFINE f == [s \in S |-> s.cost]
    <3>1. DOMAIN f = S /\ \A s \in S : f[s] \in Int /\ f[s] = paid[s]
      BY <1>2, <1>13
    <3> HIDE DEF f
    <3>2. IsFiniteSet(S)
      BY <1>2, FS_Subset
    <3>3. SumOver(f, S) = SumOver(paid, S)
      BY <3>1, <3>2, SumSame
    <3> QED BY <3>1, <3>3, SequenceSum DEF f
  <2>4. \A d \in D : cost[d] = SumOver(paid, part[d])
    <3> SUFFICES ASSUME NEW d \in D PROVE cost[d] = SumOver(paid, part[d])
      OBVIOUS
    <3> DEFINE S == On(d)
    <3>1. S \in SUBSET R /\ part[d] = S
      BY <1>5, <1>7
    <3>2. cost[d] = AddUp([s \in S |-> s.cost])
      BY <1>3, <1>12
    <3> HIDE DEF S
    <3>3. AddUp([s \in S |-> s.cost]) = SumOver(paid, S)
      BY <2>3, <3>1
    <3> QED BY <3>1, <3>2, <3>3
  <2>5. \A s \in since : g[s] \in D
    BY <1>6
  <2>6. \A d \in D : part[d] \subseteq since
    BY <1>7
  <2>7. \A s \in since : paid[s] \in Int
    BY <1>2, <1>5, <1>13
  <2>8. SumOver(cost, D) = SumOver(paid, since)
    BY <1>8, <1>14, <1>15, <2>4, <2>5, <2>6, <2>7, SumParts
  <2>9. t.cost = SumOver(paid, rows)
    BY <1>4, <1>5, <2>3
  <2> QED BY <1>12, <2>2, <2>8, <2>9, SequenceSum
<1>19. Cardinality(DOMAIN h) <= TrendDays + 1
  BY <1>3, <1>16
<1>20. (\A s \in R : s.at >= (Today - TrendDays) * q + 1) => AddUp(cost) = t.cost
  BY <1>18
<1> QED BY <1>17, <1>19, <1>20, Zenon DEF calls, cost, h, t, R, q, now

\* The page of the reviews, its exports and its footer add up.
LEMMA CompareHolds == CorpusInv => CompareAddsUp
<1> SUFFICES ASSUME CorpusInv, report = "compare"
             PROVE  CompareAddsUp
  BY DEF CompareAddsUp
<1> DEFINE x == CompareSummary(corpus)
           h == SpendHistory(corpus, Today * DayHours + 1, TrendDays)
           t == TokenTotals(corpus)
<1>1. x.n > 0 => Abs(6 * x.overall
                     - (x.relevance + 1000 - x.delta + x.assets + x.reasons + x.symbols + x.tone)) <= 12
  BY PageAddsUp
<1>2. \A p, q \in Pairs(corpus) :
         LET g == Agreement(p[1].says, p[2].says)
         IN  /\ Overall(g) = 1000 <=> p[1].says = p[2].says /\ p[1].says.label # "none"
             /\ g = Agreement(p[2].says, p[1].says)
             /\ p[1].capture = q[1].capture => p = q
  BY PairsAgree
<1>3. x.n = Cardinality(UNION {ExportReviews(corpus, l, 0) :
                                 l \in UNION {Labels(p[1].says) : p \in Pairs(corpus)}})
            + Cardinality({p \in Pairs(corpus) : Labels(p[1].says) = {}})
  BY ExportsCover
<1>4. /\ Cardinality(DOMAIN h) <= TrendDays + 1
      /\ AddUp([d \in DOMAIN h |-> h[d].calls]) <= t.calls
      /\ (\A s \in Reviews(corpus) : s.at >= (Today - TrendDays) * DayHours + 1) =>
            AddUp([d \in DOMAIN h |-> h[d].cost]) = t.cost
  BY SpendAddsUp
<1>5. x.errors <= t.errors
  BY ErrorsAreCalls
<1> QED BY <1>1, <1>2, <1>3, <1>4, <1>5, Zenon DEF CompareAddsUp

\* The panels, the page of the reviews, the readiness and the feeds agree.
LEMMA ViewsHold == CorpusInv => ViewsAgree
BY PanelsHold, CompareHolds, HealthHolds, FeedsBalance DEF ViewsAgree

\* What two parts of the code say of one thing is the same.
THEOREM ReportsCorrect == Spec => []ReportsAgree
<1>1. CorpusInv => ViewsAgree
  BY ViewsHold
<1>2. Spec => []ViewsAgree
  BY <1>1, CorpusCorrect, PTL
<1> QED BY <1>2, LayersCorrect, AuditsCorrect, PTL DEF ReportsAgree

=============================================================================
