------------------------------- MODULE Audits -------------------------------
(***************************************************************************)
(* Four reports that hold one thing against another: which watched terms   *)
(* have no news (src/catchem/awareness_gaps.py), the news of the holdings  *)
(* (portfolio.py), the pipeline against a golden set (golden.py), and the  *)
(* stub reviewer against the expert (backtest.py).  The gaps and the       *)
(* portfolio count the same news in two loops of their own.                *)
(***************************************************************************)
EXTENDS Corpus

CONSTANTS
    Watch,          \* the terms as they were typed, in order
    Lower,          \* term -> its lower case
    Spelling,       \* term -> its place among strings
    CoverageWindow,
    CoverageNow,
    QuoteFor        \* term -> the provider's answer

(* A row of the gaps has its place in the table; scores of a backtest are    *)
(* hundredths, None where a review has none.                                 *)
ASSUME AuditsAssumption ==
    /\ Watch \in Seq(DOMAIN Spelling) /\ {CoverageWindow, CoverageNow} \subseteq Int
    /\ \A t, u \in DOMAIN Spelling : Spelling[t] \in Int /\ (Spelling[t] = Spelling[u] => t = u)
    /\ \A r \in DOMAIN Shape : \A s \in Shape[r] :
        /\ r = "gaps" => /\ {s.at, s.score, s.nth} \subseteq Int
                         /\ \A t \in Shape[r] : s.nth = t.nth => s = t
        /\ r = "golden" =>
              /\ {s.wanted, s.relevant} \subseteq BOOLEAN
              /\ IsFiniteSet(s.want) /\ IsFiniteSet(s.got) /\ IsFiniteSet(s.symbols)
        /\ r = "backtest" => {s.stub, s.expert} \subseteq Int

-----------------------------------------------------------------------------
(* find_coverage_gaps: rows "gaps", with a time, symbols and words. *)

Terms == At(Watch, {n \in DOMAIN Watch : \A k \in 1 .. n - 1 : Lower[Watch[k]] # Lower[Watch[n]]})

Says(s, term) == Lower[term] \in s.symbols \cup s.words

(* Rows inside the window that say the term; the future is inside. *)
Mentioning(c, term) ==
    {s \in Filled(c) : s.at # None /\ CoverageNow - s.at <= CoverageWindow /\ Says(s, term)}

Covered(c, term) ==
    [term |-> term, count |-> Tally(c, Mentioning(c, term)),
     age |-> Min({CoverageNow - s.at : s \in Mentioning(c, term)})]

CoverageGaps(c) ==
    [covered |-> InOrder({Covered(c, t) : t \in {u \in Range(Terms) : Mentioning(c, u) # {}}},
                         LAMBDA a, b : \/ a.age < b.age
                                       \/ a.age = b.age /\ Spelling[a.term] < Spelling[b.term]),
     gaps |-> At(Terms, {n \in DOMAIN Terms : Mentioning(c, Terms[n]) = {}})]

-----------------------------------------------------------------------------
(* enrich_holdings, on the same rows; every term is held. *)

(* Mutant: a row from the future is no news. *)
NewsUpToNow(c, y) ==
    {s \in Filled(c) : s.at # None /\ CoverageNow - s.at \in 0 .. CoverageWindow /\ Says(s, y)}

News(c, y) ==
    {s \in Filled(c) : s.at # None /\ CoverageNow - s.at <= CoverageWindow /\ Says(s, y)}

(* The rows, best first; the sort is stable. *)
Best(c, y) ==
    InOrder(News(c, y), LAMBDA s, t : s.score > t.score \/ (s.score = t.score /\ s.nth > t.nth))

(* _quote_payload: a change that is not given is computed, from a price      *)
(* before that is not zero.                                                  *)
QuotePayload(q) ==
    [q EXCEPT !.change = IF @ = None /\ q.last # None /\ q.prev \notin {None, 0}
                         THEN (1000 * (q.last - q.prev)) \div q.prev ELSE @]

Enrich(c, y) ==
    LET covered == {e \in Range(CoverageGaps(c).covered) : Lower[e.term] = Lower[y]}
        best == Best(c, y)
    IN  [count |-> Tally(c, News(c, y)),
         top |-> SubSeq(best, 1, Min({3, Len(best)})),
         label |-> IF best = <<>> THEN "none" ELSE Head(best).label,
         coverage |-> covered,
         quote |-> IF QuoteFor[y].fails THEN {} ELSE {QuotePayload(QuoteFor[y])}]

-----------------------------------------------------------------------------
(* run_benchmark: rows "golden", what is expected of an item and what the    *)
(* pipeline says.                                                            *)

Stats(tp, fp, fn) ==
    LET Part(n, of) == IF of = 0 THEN 0 ELSE (1000 * n) \div of
        p == Part(tp, tp + fp)
        r == Part(tp, tp + fn)
    IN  [tp |-> tp, fp |-> fp, fn |-> fn, precision |-> p, recall |-> r,
         f1 |-> IF p + r = 0 THEN 0 ELSE (2 * p * r) \div (p + r)]

(* _stats_for_set, for one label. *)
StatsFor(c, l) ==
    LET Items(want, got) == Tally(c, {s \in Filled(c) : (l \in s.want) = want /\ (l \in s.got) = got})
    IN  Stats(Items(TRUE, TRUE), Items(FALSE, TRUE), Items(TRUE, FALSE))

Benchmark(c) ==
    LET Items(want, got) == Tally(c, {s \in Filled(c) : s.wanted = want /\ s.relevant = got})
        toned == {s \in Filled(c) : s.tone # "none"}
    IN  [relevance |-> Stats(Items(TRUE, TRUE), Items(FALSE, TRUE), Items(TRUE, FALSE)),
         labels |-> [l \in UNION {s.want \cup s.got : s \in Filled(c)} |-> StatsFor(c, l)],
         symbolHits |-> Total(c, Filled(c), LAMBDA s : Cardinality(s.symbols \cap s.found)),
         symbolTotal |-> Total(c, Filled(c), LAMBDA s : Cardinality(s.symbols)),
         toneCorrect |-> Tally(c, {s \in toned : s.label = s.tone}),
         toneTotal |-> Tally(c, toned),
         n |-> Tally(c, Filled(c))]

-----------------------------------------------------------------------------
(* run_backtest: rows "backtest", the score of the stub and of the expert    *)
(* for one capture, in hundredths.                                           *)

Predictions(c) ==
    {s \in Filled(c) : ~s.stubError /\ ~s.expertError /\ s.stub # None /\ s.expert # None}

(* _bin_for: a fifth each; a perfect score is in the last. *)
Bin(score) == IF score \in 0 .. 100 THEN Min({4, score \div 20}) ELSE None

Backtest(c) ==
    LET pairs == Predictions(c)
        n == Tally(c, pairs)
        Delta(s) == s.expert - s.stub
        InBin(b) == {s \in pairs : Bin(s.stub) = b}
        Sums(b) == [count |-> Tally(c, InBin(b)),
                    predicted |-> Total(c, InBin(b), LAMBDA s : s.stub),
                    truth |-> Total(c, InBin(b), LAMBDA s : s.expert)]
    IN  [n |-> n,
         bins |-> [b \in {k \in 0 .. 4 : InBin(k) # {}} |-> Sums(b)],
         absolute |-> Total(c, pairs, LAMBDA s : Abs(Delta(s))),
         signed |-> Total(c, pairs, Delta),
         worst |-> IF n = 0 THEN 0 ELSE Max({Abs(Delta(s)) : s \in pairs})]

-----------------------------------------------------------------------------

(* A term is covered or a gap, once; and "a holding's news count and its     *)
(* coverage flag never disagree".                                            *)
CoverageAgrees ==
    report = "gaps" =>
        LET g == CoverageGaps(corpus)
        IN  /\ Len(g.covered) + Len(g.gaps) = Len(Terms)
            /\ \A n \in DOMAIN g.covered : \A k \in 1 .. n - 1 : g.covered[k].age <= g.covered[n].age
            /\ \A y \in Range(Watch) :
                  LET e == Enrich(corpus, y)
                  IN  /\ (e.count > 0) = (e.coverage # {})
                      /\ \A x \in e.coverage : x.count = e.count
                      /\ \A s \in Range(e.top) : s.score <= Head(e.top).score

(* The verdicts on a golden set add up: every item that was expected, and    *)
(* every item that was predicted, is in one cell, and the F1 of a label lies *)
(* between its precision and its recall.                                     *)
GoldenAddsUp ==
    report = "golden" =>
        LET b == Benchmark(corpus)
            Some(x) == Tally(corpus, {s \in Filled(corpus) : x \in s.want})
        IN  /\ b.relevance.tp + b.relevance.fn = Tally(corpus, {s \in Filled(corpus) : s.wanted})
            /\ \A l \in DOMAIN b.labels :
                  LET x == b.labels[l]
                  IN  /\ x.tp + x.fn = Some(l)
                      /\ x.f1 >= Min({x.precision, x.recall}) - 1
                      /\ x.f1 <= Max({x.precision, x.recall})
            /\ b.symbolHits <= b.symbolTotal /\ b.toneCorrect <= b.toneTotal

(* The bins of a calibration tile the pairs whose prediction is a score; in  *)
(* each the mean lies in its fifth; and what the bins say of the error is    *)
(* what the summary says.                                                    *)
CalibrationAddsUp ==
    report = "backtest" =>
        LET r == Backtest(corpus)
            Scored == {s \in Predictions(corpus) : s.stub \in 0 .. 100}
        IN  /\ AddUp([b \in DOMAIN r.bins |-> r.bins[b].count]) = Tally(corpus, Scored)
            /\ \A b \in DOMAIN r.bins :
                  r.bins[b].predicted \in r.bins[b].count * 20 * b .. r.bins[b].count * (20 * b + 20)
            /\ Scored = Predictions(corpus) =>
                  r.signed = AddUp([b \in DOMAIN r.bins |-> r.bins[b].truth - r.bins[b].predicted])
            /\ Abs(r.signed) <= r.absolute /\ r.absolute <= r.n * r.worst

AuditsAgree == CoverageAgrees /\ GoldenAddsUp /\ CalibrationAddsUp

=============================================================================
