----------------------------- MODULE MixSignals -----------------------------
(***************************************************************************)
(* The signals that tabulate what rows name together, where they come from *)
(* and when they arrive (src/catchem/quant/co_occurrence.py,               *)
(* symbol_correlation.py, source_reliability.py, persistence.py,           *)
(* arrival_heatmap.py, market_time.py, market_reaction.py).                *)
(***************************************************************************)
EXTENDS Corpus

CONSTANTS
    MinPairCount, MinEdgeWeight,    \* of the co-occurrence report
    PairWidth, PairMentions,        \* bucket_minutes and min_mentions of the correlation
    MaxGrid,                        \* _MAX_GRID_BUCKETS
    Now, SourceDays, SourceRecords, \* window_days and min_records of the leaderboard
    PersistenceDays, PersistenceRecords

(* Relevance is in tenths, a price is not negative, and None where there is no number. *)
ASSUME MixAssumption ==
    /\ PairWidth \in Nat \ {0} /\ MaxGrid \in Nat \ {0} /\ PersistenceDays \in Nat \ {0}
    /\ {Now, SourceDays, SourceRecords, PersistenceRecords} \subseteq Int
    /\ \A r \in DOMAIN Shape : \A s \in Shape[r] :
          /\ r = "mix" =>
                /\ IsFiniteSet(s.assets) /\ IsFiniteSet(s.reasons) /\ IsFiniteSet(s.symbols)
                /\ s.at \in Int
          /\ r = "sources" =>
                /\ IsFiniteSet(s.assets) /\ IsFiniteSet(s.reasons) /\ IsFiniteSet(s.symbols)
                /\ s.day \in Int /\ s.relevance \in 0 .. 10
          /\ r = "clock" => s.weekday \in 0 .. 6 /\ s.minute \in 0 .. 1439
          /\ r = "reaction" =>
                /\ s.symbols \cup {"SPY", "BTC-USD"} \subseteq DOMAIN s.quotes
                /\ \A y \in DOMAIN s.quotes :
                      s.quotes[y].last \in Nat \cup {None} /\ s.quotes[y].prev \in Nat \cup {None}

Relevance(s) == s.relevance

-----------------------------------------------------------------------------
(* _build_asset_reason_cells: a row counts once for every pair it names. *)

Both(c) == {s \in Filled(c) : s.assets # {} /\ s.reasons # {}}
PairCount(c, a, r) == Tally(c, {s \in Both(c) : a \in s.assets /\ r \in s.reasons})
PairsNamed(c) == UNION {s.assets \X s.reasons : s \in Both(c)}

RowTotal(c, a) ==
    Total(c, {s \in Both(c) : a \in s.assets}, LAMBDA s : Cardinality(s.reasons))
ColTotal(c, r) ==
    Total(c, {s \in Both(c) : r \in s.reasons}, LAMBDA s : Cardinality(s.assets))
PairTotal(c) == Total(c, Both(c), LAMBDA s : Cardinality(s.assets) * Cardinality(s.reasons))

(* lift = count * total / (row * column), left as a pair of numbers. *)
Cells(c) ==
    {[pair |-> p, count |-> PairCount(c, p[1], p[2]),
      lift |-> <<PairCount(c, p[1], p[2]) * PairTotal(c), RowTotal(c, p[1]) * ColTotal(c, p[2])>>] :
        p \in {q \in PairsNamed(c) : PairCount(c, q[1], q[2]) >= MinPairCount}}

(* _build_symbol_edges *)
EdgeWeight(c, e) == Tally(c, {s \in Filled(c) : e \subseteq s.symbols})
Edges(c) ==
    LET named == UNION {s.symbols : s \in Filled(c)} IN
    {e \in {{a, b} : a \in named, b \in named} :
        Cardinality(e) = 2 /\ EdgeWeight(c, e) >= MinEdgeWeight}

(* _build_asset_concentration: the Herfindahl index of an asset's reasons as *)
(* a sum of squares over a squared sum.                                      *)
Concentration(c, a) ==
    LET reasons == UNION {s.reasons : s \in {x \in Filled(c) : a \in x.assets}} IN
    [rows |-> Tally(c, {s \in Filled(c) : a \in s.assets}), reasons |-> reasons,
     total |-> SumOf([r \in reasons |-> PairCount(c, a, r)], reasons),
     squares |-> SumOf([r \in reasons |-> PairCount(c, a, r) * PairCount(c, a, r)], reasons)]

-----------------------------------------------------------------------------
(* compute_pairs: mentions per bucket on a grid without gaps, which ends at  *)
(* the last bucket and reaches back MaxGrid buckets at most.                 *)

PairBucket(s) == s.at \div PairWidth
FilledBuckets(c) == {PairBucket(s) : s \in Filled(c)}
SymbolTotal(c, sym) == Tally(c, {s \in Filled(c) : sym \in s.symbols})
EligibleSymbols(c) ==
    {sym \in UNION {s.symbols : s \in Filled(c)} : SymbolTotal(c, sym) >= PairMentions}
MentionsIn(c, sym, b) ==
    Tally(c, {s \in Filled(c) : sym \in s.symbols /\ PairBucket(s) = b})

(* Mutant: the buckets without a row are left out. *)
VectorOfFilled(c, sym) ==
    LET filled == Ascending(FilledBuckets(c)) IN
    [i \in DOMAIN filled |-> MentionsIn(c, sym, filled[i])]

Vector(c, sym) ==
    LET last == Max(FilledBuckets(c))
        first == Max({Min(FilledBuckets(c)), last - MaxGrid + 1})
    IN  [i \in 1 .. last - first + 1 |-> MentionsIn(c, sym, first + i - 1)]

(* _pearson, without its root: n cov, n var x, n var y. *)
Product(x, y) == AddUp([i \in DOMAIN x |-> x[i] * y[i]])
Pearson(x, y) ==
    LET Moment(u, v) == Len(x) * Product(u, v) - AddUp(u) * AddUp(v) IN
    [cov |-> Moment(x, y), vx |-> Moment(x, x), vy |-> Moment(y, y)]

(* A pair on record, of at least two buckets with rows. *)
Correlated(c) ==
    IF Cardinality(FilledBuckets(c)) < 2 THEN {}
    ELSE {p \in EligibleSymbols(c) \X EligibleSymbols(c) : p[1] # p[2]}

-----------------------------------------------------------------------------
(* compute_source_scores.  A time up to a day ahead is in the window. *)

Windowed(c) == {s \in Filled(c) : s.day >= Now - SourceDays /\ s.day <= Now + 1}
From(c, d) == {s \in Windowed(c) : s.domain = d}
SymbolsOf(c, d) == UNION {s.symbols : s \in From(c, d)}
DomainsIn(c) == {s.domain : s \in Windowed(c)}

(* _normalized_entropy of what the rows S list, in thousandths. *)
Entropy(c, S, field) ==
    LET n == Total(c, S, LAMBDA s : Cardinality(s[field]))
        kinds == UNION {s[field] : s \in S}
        Count(k) == Tally(c, {s \in S : k \in s[field]})
        h == Ln(n) - SumOf([k \in kinds |-> Count(k) * Ln(Count(k))], kinds) \div n
    IN  IF Cardinality(kinds) < 2 THEN 0
        ELSE Max({0, Min({1000, (1000 * h) \div Ln(Cardinality(kinds))})})

(* The seven components, in thousandths, of which the score is the mean. *)
Components(c, d) ==
    LET rows == From(c, d)
        n == Tally(c, rows)
        relevant == {s \in rows : s.relevant}
        Label(l) == Tally(c, {s \in rows : s.label = l})
        labelled == Label("positive") + Label("negative") + Label("neutral")
        unique == {y \in SymbolsOf(c, d) : \A e \in DomainsIn(c) \ {d} : y \notin SymbolsOf(c, e)}
        Rate(num, den) == IF den = 0 THEN 0 ELSE (1000 * num) \div den
    IN  <<Rate(Tally(c, relevant), n),
          Rate(Total(c, relevant, Relevance), 10 * Tally(c, relevant)),
          Rate(Tally(c, {s \in rows : s.relevance >= 7}), n),
          Rate(Abs(Label("positive") - Label("negative")), labelled),
          Entropy(c, rows, "assets"), Entropy(c, rows, "reasons"),
          Rate(Cardinality(unique), Cardinality(SymbolsOf(c, d)))>>

Leaderboard(c) ==
    [records |-> Tally(c, Windowed(c)), domains |-> Cardinality(DomainsIn(c)),
     sources |-> [d \in {e \in DomainsIn(c) : Tally(c, From(c, e)) >= SourceRecords} |->
                    AddUp(Components(c, d)) \div 7]]

-----------------------------------------------------------------------------
(* compute_persistence: the window ends at the latest day of the rows. *)

LatestDay(c) == Max({s.day : s \in Filled(c)})
Persisting(c) == {s \in Filled(c) : s.day >= LatestDay(c) - (PersistenceDays - 1)}

(* A row without an asset or a symbol counts under a dash. *)
ScopesOf(s) == (IF s.assets = {} THEN {"-"} ELSE s.assets) \X {s.top}

Persistence(c) ==
    LET scopes == UNION {ScopesOf(s) : s \in Persisting(c)}
        Rows(x) == {s \in Persisting(c) : x \in ScopesOf(s)}
    IN  [x \in {y \in scopes : Tally(c, Rows(y)) >= PersistenceRecords} |->
            [days |-> Cardinality({s.day : s \in Rows(x)}), total |-> Tally(c, Rows(x))]]

-----------------------------------------------------------------------------
(* classify_session and compute_heatmap read the same local time of the      *)
(* week; weekday 0 is Monday.                                                *)

ClassifySession(w, m) ==
    IF w = 5 \/ (w = 6 /\ m < 18 * 60) THEN "weekend"
    ELSE IF m < 240 THEN "overnight" ELSE IF m < 570 THEN "pre_open"
    ELSE IF m < 660 THEN "open" ELSE IF m < 840 THEN "lunch"
    ELSE IF m < 990 THEN "close" ELSE IF m < 1200 THEN "after_hours" ELSE "overnight"

Sessions(c) ==
    [x \in {"weekend", "overnight", "pre_open", "open", "lunch", "close", "after_hours"} |->
        LET rows == {s \in Filled(c) : ClassifySession(s.weekday, s.minute) = x} IN
        [volume |-> Tally(c, rows), relevant |-> Tally(c, {s \in rows : s.relevance >= 5})]]

Heatmap(c) ==
    [cell \in (0 .. 6) \X (0 .. 23) |->
        Tally(c, {s \in Filled(c) : s.weekday = cell[1] /\ s.minute \div 60 = cell[2]})]

Peaks(c) ==
    LET most == Max(Range(Heatmap(c))) IN
    IF most = 0 THEN {} ELSE {cell \in DOMAIN Heatmap(c) : Heatmap(c)[cell] = most}

-----------------------------------------------------------------------------
(* compute_reaction of a row: a quote is [last, prev, error], in whole       *)
(* units, and None where the provider has no number.                         *)

Proxy(assets) ==
    LET known == {a \in assets : a \in {"crypto", "equities"}} IN
    IF known = {} THEN {"SPY"} ELSE {IF a = "crypto" THEN "BTC-USD" ELSE "SPY" : a \in known}

(* _pick_primary_symbol: the first one listed, or an asset's proxy. *)
PrimarySymbol(s) == IF s.symbols # {} THEN s.symbols ELSE Proxy(s.assets)

SnapshotReturn(q) ==
    IF q.last = None \/ q.prev \in {None, 0} THEN None
    ELSE ((q.last - q.prev) * 100) \div q.prev

FallbackReason(q) ==
    IF q.error # "none" THEN q.error ELSE IF q.last = None THEN "quote_unavailable" ELSE "none"

(* A quote with an error is as good as none, whatever else it says; the      *)
(* benchmark's own error is not asked about.                                 *)
Reaction(q, bench) ==
    LET bad == FallbackReason(q) # "none"
        own == IF bad THEN None ELSE SnapshotReturn(q)
        other == SnapshotReturn(bench)
    IN  [last |-> IF bad THEN None ELSE q.last, own |-> own, bench |-> other,
         reason |-> FallbackReason(q),
         excess |-> IF own = None \/ other = None THEN None ELSE own - other]

-----------------------------------------------------------------------------
(* The co-occurrence table is one distribution: the counts of its cells, of  *)
(* its rows and of its columns have the same total, so that a pair met more  *)
(* often than its parts suggest comes with one that is met less; and an      *)
(* asset is no more concentrated than one and no less than its reasons       *)
(* allow.  Every row of a leaderboard, a persistence report, a session table *)
(* and a heatmap is counted where it belongs, and where two of them read the *)
(* same clock, they agree.                                                   *)
TablesAddUp ==
    /\ report = "mix" =>
          LET n == PairTotal(corpus)
              as == UNION {s.assets : s \in Filled(corpus)}
              Over(p) == PairCount(corpus, p[1], p[2]) * n
              Expected(p) == RowTotal(corpus, p[1]) * ColTotal(corpus, p[2])
              all == {p[1] : p \in PairsNamed(corpus)} \X {p[2] : p \in PairsNamed(corpus)}
          IN  /\ SumOf([x \in Cells(corpus) |-> x.count], Cells(corpus)) <= n
              /\ SumOf([a \in as |-> RowTotal(corpus, a)], as) = n
              /\ (\E p \in all : Over(p) > Expected(p)) <=> (\E p \in all : Over(p) < Expected(p))
              /\ \A a \in as :
                    LET k == Concentration(corpus, a) IN
                    /\ k.squares <= k.total * k.total
                    /\ k.total * k.total <= k.squares * Cardinality(k.reasons)
                    /\ k.total = RowTotal(corpus, a)
              /\ \A e \in Edges(corpus) : \A y \in e : EdgeWeight(corpus, e) <= SymbolTotal(corpus, y)
    /\ report = "sources" =>
          LET b == Leaderboard(corpus)
              p == Persistence(corpus)
          IN  /\ b.records = SumOf([d \in DomainsIn(corpus) |-> Tally(corpus, From(corpus, d))], DomainsIn(corpus))
              /\ \A d \in DOMAIN b.sources : b.sources[d] \in 0 .. 1000
              /\ \A x \in DOMAIN p : p[x].days \in 1 .. Min({PersistenceDays, p[x].total})
    /\ report = "clock" =>
          LET grid == Heatmap(corpus)
              table == Sessions(corpus)
          IN  /\ SumOf(grid, DOMAIN grid) = SumOf([x \in DOMAIN table |-> table[x].volume], DOMAIN table)
              /\ table["weekend"].volume = SumOf(grid, ({5} \X (0 .. 23)) \cup ({6} \X (0 .. 17)))
              /\ table["overnight"].volume =
                    SumOf(grid, ((0 .. 4) \X ((0 .. 3) \cup (20 .. 23))) \cup ({6} \X (20 .. 23)))
              /\ \A cell \in Peaks(corpus) : grid[cell] >= 1

(* Two symbols that are both absent from a bucket between the first and the  *)
(* last are never reported as exact opposites: news about one and, long      *)
(* after, news about the other is no correlation of -1.                      *)
ApartIsNotOpposite ==
    report = "mix" =>
        \A p \in Correlated(corpus) :
            LET r == Pearson(Vector(corpus, p[1]), Vector(corpus, p[2]))
                span == Min(FilledBuckets(corpus)) .. Max(FilledBuckets(corpus))
            IN  /\ r.cov * r.cov <= r.vx * r.vy
                /\ (/\ \E b \in span : \A k \in {1, 2} : MentionsIn(corpus, p[k], b) = 0
                    /\ Max(span) - Min(span) < MaxGrid /\ r.cov < 0)
                   => r.cov * r.cov < r.vx * r.vy

(* An excess return is claimed only where both returns stand on numbers and  *)
(* the symbol's quote came without an error.                                 *)
ExcessNeedsBothLegs ==
    report = "reaction" =>
        \A s \in Filled(corpus) : \A y \in PrimarySymbol(s) :
            LET q == s.quotes[y]
                r == Reaction(q, s.quotes["SPY"])
            IN  r.excess # None =>
                    /\ q.error = "none" /\ q.last # None /\ s.quotes["SPY"].last # None
                    /\ r.own - r.excess = SnapshotReturn(s.quotes["SPY"])

=============================================================================
