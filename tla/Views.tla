------------------------------- MODULE Views --------------------------------
(***************************************************************************)
(* The panels of the UI and the exports (src/catchem/api.py,               *)
(* src/catchem/dashboard_data.py).  Each handler reads its own window of   *)
(* the table and counts it in a loop of its own: reports "panels" and      *)
(* "compare".  The pages on the service itself: reports "health", whose    *)
(* rows are the conditions that hold, and "feeds", whose rows are the      *)
(* specs of the feed packs.                                                *)
(***************************************************************************)
EXTENDS Corpus

CONSTANTS
    DayHours, TimelineBucket,   \* in hours
    Today, TrendDays,           \* the day that is on, and the days of a trend
    PanelLimit,                 \* the rows a panel asks for
    HeatLimit,                  \* the rows a cell of the heatmap asks for
    TopScore,                   \* min_score of the triage list
    TopRows, TopLimit           \* the rows it reads, and shows

(* Rows have their place in the table; reviews are written one at a time,    *)
(* before they are looked at.                                                *)
ASSUME ViewsAssumption ==
    /\ {DayHours, TimelineBucket} \subseteq Nat \ {0} /\ {Today, TopScore} \subseteq Int
    /\ {TrendDays, PanelLimit, HeatLimit, TopRows, TopLimit} \subseteq Nat
    /\ \A r \in DOMAIN Shape : \A s \in Shape[r] :
        /\ r = "panels" =>
              /\ {s.nth, s.offset, s.published} \subseteq Int /\ s.score \in Nat /\ s.relevant \in BOOLEAN
              /\ s.label \in {"positive", "neutral", "negative", "none"}
              /\ IsFiniteSet(s.assets) /\ IsFiniteSet(s.reasons) /\ IsFiniteSet(s.symbols)
              /\ \A t \in Shape[r] : s.nth = t.nth => s = t
        /\ r = "compare" =>
              /\ s.at \in Int /\ s.at <= Today * DayHours + 1 /\ s.cost \in Int /\ s.error \in BOOLEAN
              /\ s.says = [x \in {"relevant", "score", "assets", "reasons", "symbols", "label"} |-> s.says[x]]
              /\ s.says.relevant \in BOOLEAN /\ s.says.score \in 0 .. 1000
              /\ IsFiniteSet(s.says.assets) /\ IsFiniteSet(s.says.reasons) /\ IsFiniteSet(s.says.symbols)
              /\ \A t \in Shape[r] : s.capture = t.capture /\ s.reviewer = t.reviewer /\ s.at = t.at => s = t
        /\ r = "feeds" => s.nth \in Int /\ \A t \in Shape[r] : s.nth = t.nth => s = t

-----------------------------------------------------------------------------
(* Rows "panels", in the order nth of their capture; published is in hours,  *)
(* written down with an offset.                                              *)

(* ... ORDER BY created_at DESC LIMIT n, on the rows S. *)
Newest(c, S, n) ==
    LET Before(s) == Tally(c, {t \in S : t.nth > s.nth})
    IN  [s \in S |-> Max({0, Min({c[s], n - Before(s)})})]

(* recent_records, and by_label for the index on a label. *)
RecentRecords(c, n, relevantOnly) == Newest(c, {s \in DOMAIN c : s.relevant \/ ~relevantOnly}, n)
Labels(s) == s.assets \cup s.reasons \cup s.symbols
ByLabel(c, x, n) == Newest(c, {s \in DOMAIN c : x \in Labels(s)}, n)

Rows(w) == Tally(w, DOMAIN w)
Carrying(w, x) == Tally(w, {s \in DOMAIN w : x \in Labels(s)})
RelevantIn(w) == Tally(w, {s \in DOMAIN w : s.relevant})
TimeOf(s) == IF s.published = None THEN s.nth ELSE s.published

(* ui_facets: a counter for each kind of label. *)
Facets(w) ==
    [total |-> Rows(w), relevant |-> RelevantIn(w),
     labels |-> [x \in UNION {Labels(s) : s \in Filled(w)} |-> Carrying(w, x)],
     domains |-> [m \in {s.domain : s \in Filled(w)} |-> Tally(w, {s \in DOMAIN w : s.domain = m})],
     tones |-> [t \in {s.label : s \in Filled(w)} \ {"none"} |-> Tally(w, {s \in DOMAIN w : s.label = t})]]

(* overview, and ui_summary. *)
Overview(c, n) ==
    [total |-> Rows(c), relevant |-> RelevantIn(c), facets |-> Facets(RecentRecords(c, n, TRUE))]

(* ui_top_symbols, ui_top_reasons *)
TopLabels(c, n) ==
    LET w == RecentRecords(c, n, TRUE)
    IN  [x \in UNION {s.symbols \cup s.reasons : s \in Filled(w)} |-> Carrying(w, x)]

UiSymbol(c, y, n) ==
    LET w == ByLabel(c, y, n)
    IN  [count |-> Rows(w), facets |-> Facets(w)]

(* ui_timeline: UTC buckets. *)
Timeline(w) ==
    LET Bucket(s) == TimelineBucket * (TimeOf(s) \div TimelineBucket)
        In(b) == {s \in DOMAIN w : Bucket(s) = b}
    IN  [b \in {Bucket(s) : s \in Filled(w)} |->
            [total |-> Tally(w, In(b)), relevant |-> Tally(w, {s \in In(b) : s.relevant})]]

(* ui_trends: the hour is the one that is written down. *)
Trends(w) ==
    LET Hour(s) == IF s.published = None THEN s.nth ELSE s.published + s.offset
    IN  [h \in {Hour(s) : s \in Filled(w)} |->
            [x \in UNION {s.assets : s \in Filled(w)} |->
                Tally(w, {s \in DOMAIN w : Hour(s) = h /\ x \in s.assets})]]

(* ui_matrix *)
Matrix(w) ==
    [x \in (UNION {s.assets : s \in Filled(w)}) \X (UNION {s.reasons : s \in Filled(w)}) |->
        Tally(w, {s \in DOMAIN w : x[1] \in s.assets /\ x[2] \in s.reasons})]

(* quant_heatmap_records: four times the limit by asset, then by reason. *)
HeatmapRecords(c, a, r, n) ==
    LET w == ByLabel(c, a, 4 * n) IN Newest(w, {s \in DOMAIN w : r \in s.reasons}, n)

(* api_symbol_sentiment_trend: UTC days, only rows that carry a time of their own. *)
SentimentTrend(c, y) ==
    [d \in Today - TrendDays + 1 .. Today |->
        [t \in {"positive", "neutral", "negative"} |->
            Tally(c, {s \in DOMAIN c : /\ s.published # None /\ s.published \div DayHours = d
                                       /\ y \in s.symbols /\ s.label = t})]]

(* api_search, on what the query q is part of. *)
Search(w, q, n) ==
    [records |-> Newest(w, {s \in DOMAIN w : q \in s.words \/ q = s.domain}, n),
     symbols |-> [y \in {y \in UNION {s.symbols : s \in Filled(w)} : y = q} |-> Carrying(w, y)]]

(* _filter_records_for_export *)
FilterForExport(w, x, score) == [s \in {s \in DOMAIN w : x \in Labels(s) /\ s.score >= score} |-> w[s]]

(* api_export_records *)
ExportRecords(c, x, score, n) == FilterForExport(RecentRecords(c, n, FALSE), x, score)

(* api_news_top_recent: the shapes by score; the sort is stable. *)
TopRecent(c) ==
    LET w == RecentRecords(c, TopRows, FALSE)
        good == {s \in Filled(w) : s.score >= TopScore}
        Before(s) == Tally(w, {t \in good : t.score > s.score \/ (t.score = s.score /\ t.nth > s.nth)})
    IN  [s \in {s \in good : Before(s) < TopLimit} |-> Min({w[s], TopLimit - Before(s)})]

-----------------------------------------------------------------------------
(* Rows "compare": the reviews as they were written, one at a time.          *)

(* upsert_review keeps the last of a capture by a reviewer. *)
Reviews(c) ==
    {s \in Filled(c) : \A t \in Filled(c) :
        t.capture = s.capture /\ t.reviewer = s.reviewer => t.at <= s.at}

(* reviews_with_pair *)
Pairs(c) ==
    {p \in Reviews(c) \X Reviews(c) :
        p[1].capture = p[2].capture /\ p[1].reviewer = "stub" /\ p[2].reviewer = "deepseek"}

Jaccard(a, b) == IF a \cup b = {} THEN 1000
                 ELSE (1000 * Cardinality(a \cap b)) \div Cardinality(a \cup b)

Agreement(a, b) ==
    [relevance |-> IF a.relevant = b.relevant THEN 1000 ELSE 0,
     delta |-> Abs(a.score - b.score),
     assets |-> Jaccard(a.assets, b.assets),
     reasons |-> Jaccard(a.reasons, b.reasons),
     symbols |-> Jaccard(a.symbols, b.symbols),
     tone |-> IF a.label # "none" /\ a.label = b.label THEN 1000 ELSE 0]

(* Mutant: the symbols are left out, as they once were. *)
OverallSansSymbols(g) ==
    (g.relevance + 1000 - Min({1000, g.delta}) + g.assets + g.reasons + g.tone) \div 5

Overall(g) ==
    (g.relevance + 1000 - Min({1000, g.delta}) + g.assets + g.reasons + g.symbols + g.tone) \div 6

(* _compute_compare_summary: the means over the pairs. *)
CompareSummary(c) ==
    LET n == Cardinality(Pairs(c))
        Mean(f(_)) == IF n = 0 THEN 0
                      ELSE AddUp([p \in Pairs(c) |-> f(Agreement(p[1].says, p[2].says))]) \div n
    IN  [n |-> n, relevance |-> Mean(LAMBDA g : g.relevance), tone |-> Mean(LAMBDA g : g.tone),
         assets |-> Mean(LAMBDA g : g.assets), reasons |-> Mean(LAMBDA g : g.reasons),
         symbols |-> Mean(LAMBDA g : g.symbols), delta |-> Mean(LAMBDA g : g.delta),
         overall |-> Mean(Overall), errors |-> Cardinality({p \in Pairs(c) : p[2].error})]

(* api_export_reviews: the pairs whose stub carries x and scores enough. *)
ExportReviews(c, x, score) ==
    {p \in Pairs(c) : x \in Labels(p[1].says) /\ p[1].says.score >= score}

(* api_spend_history: the expert's rows since an hour within a day, by days. *)
SpendHistory(c, now, days) ==
    LET since == {s \in Reviews(c) : s.reviewer = "deepseek" /\ s.at >= now - days * DayHours}
        On(d) == {s \in since : s.at \div DayHours = d}
    IN  [d \in {s.at \div DayHours : s \in since} |->
            [calls |-> Cardinality(On(d)), cost |-> AddUp([s \in On(d) |-> s.cost])]]

(* review_token_totals *)
TokenTotals(c) ==
    LET rows == {s \in Reviews(c) : s.reviewer = "deepseek"}
    IN  [calls |-> Cardinality(rows), errors |-> Cardinality({s \in rows : s.error}),
         cost |-> AddUp([s \in rows |-> s.cost])]

-----------------------------------------------------------------------------
(* api_health_deep: the rows of "health" are what is the case.               *)

DeepHealth(c) ==
    LET Case(x) == c[x] > 0
        supervised == ~Case("no_supervisor")
        polled == Case("poller") /\ Case("polled_before")
    IN  [issues |-> {x \in {"clock_is_off", "no_supervisor", "disk_fails", "disk_is_low"} : Case(x)}
                    \cup {x \in {"database_fails", "schema_is_old"} : supervised /\ Case(x)}
                    \cup {x \in {"last_poll_is_old"} : polled /\ Case(x)},
         ok |-> [uptime |-> ~Case("clock_is_off"),
                 supervisor |-> supervised,
                 sqlite |-> supervised /\ ~Case("database_fails"),
                 poller |-> ~(polled /\ Case("last_poll_is_old")),
                 schema |-> supervised /\ ~Case("database_fails") /\ ~Case("schema_is_old"),
                 disk |-> ~Case("disk_fails") /\ ~Case("disk_is_low")]]

StatusCode(h) == IF h.issues = {} THEN 200 ELSE 503

-----------------------------------------------------------------------------
(* Rows "feeds": nth is the place of a spec among those of all packs.        *)

(* assemble_feeds: the first of a name, and of a url, is admitted. *)
AssembleFeeds(c) ==
    LET specs == InOrder(Filled(c), LAMBDA s, t : s.nth < t.nth)
        before[n \in 1 .. Len(specs) + 1] ==  \* those admitted before the n-th
            IF n = 1 THEN {}
            ELSE before[n - 1] \cup {s \in {specs[n - 1]} : \A t \in before[n - 1] :
                                                             t.name # s.name /\ t.url # s.url}
    IN  before[Len(specs) + 1]

(* _classify_feed_category: the name's prefix, the parser, then the domain. *)
Category(s) ==
    CASE s.prefix = "gnews-watch-" -> "watchlist"
      [] s.prefix = "gnews-tkr-" -> "tickers"
      [] s.prefix = "gnews-" -> "google_news"
      [] s.parser \in {"twitter", "reddit"} \/ s.prefix \in {"x-", "reddit-"} -> "social"
      [] s.parser = "gdelt" -> "global_firehose"
      [] s.prefix = "rem-" -> "regional"
      [] s.prefix \in {"macro-", "spec-", "yt-", "pod-"} ->
            (CHOOSE x \in {<<"macro-", "macro">>, <<"spec-", "specialist">>, <<"yt-", "video">>,
                           <<"pod-", "podcast">>} : x[1] = s.prefix)[2]
      [] s.domain \in {"regulator", "crypto"} -> s.domain
      [] OTHER -> "wire"

(* api_news_awareness *)
Awareness(c) ==
    LET feeds == AssembleFeeds(c)
    IN  [total |-> Cardinality(feeds),
         parsers |-> [p \in {s.parser : s \in feeds} |-> Cardinality({s \in feeds : s.parser = p})],
         categories |-> [k \in {Category(s) : s \in feeds} |-> Cardinality({s \in feeds : Category(s) = k})]]

(* api_news_sources: a row for each feed that a poll has looked at.          *)
LastStatus(s) ==
    IF s.backedOff THEN "backed_off" ELSE IF s.polls = 0 THEN "unknown" ELSE IF s.ok THEN "ok" ELSE "error"

NewsSources(c) ==
    LET seen == {s \in AssembleFeeds(c) : s.polls > 0 \/ s.backedOff}
        In(x) == Cardinality({s \in seen : LastStatus(s) = x})
    IN  [total |-> Cardinality(seen), healthy |-> In("ok"), degraded |-> In("error"),
         backedOff |-> In("backed_off")]

-----------------------------------------------------------------------------

(* Two panels never disagree on one table: the facets, the export of a label *)
(* and the search count the same rows; the page of a label has them all; the *)
(* timeline and the trends lose no row; the matrix spreads the relevant rows *)
(* over their labels; a cell of the heatmap opens on its stories; a          *)
(* sentiment trend counts every toned and dated row once; and the triage     *)
(* list leaves nothing out for what scores less.                             *)
PanelsAgree ==
    report = "panels" =>
        LET w == RecentRecords(corpus, PanelLimit, FALSE)
            r == RecentRecords(corpus, PanelLimit, TRUE)
            f == Facets(w)
            m == Matrix(r)
            top == TopRecent(corpus)
        IN  /\ \A x \in DOMAIN f.labels :
                  /\ f.labels[x] = Rows(ExportRecords(corpus, x, 0, PanelLimit))
                  /\ f.labels[x] <= UiSymbol(corpus, x, PanelLimit).count
                  /\ UiSymbol(corpus, x, PanelLimit).count = Min({PanelLimit, Carrying(corpus, x)})
                  /\ \A y \in DOMAIN Search(w, x, 1).symbols : Search(w, x, 1).symbols[y] = f.labels[y]
            /\ \A x \in DOMAIN TopLabels(corpus, PanelLimit) :
                  TopLabels(corpus, PanelLimit)[x] = Overview(corpus, PanelLimit).facets.labels[x]
            /\ Overview(corpus, PanelLimit).relevant = f.relevant \/ f.total = PanelLimit
            /\ AddUp([b \in DOMAIN Timeline(w) |-> Timeline(w)[b].total]) = f.total
            /\ AddUp([b \in DOMAIN Timeline(w) |-> Timeline(w)[b].relevant]) = f.relevant
            /\ AddUp([h \in DOMAIN Trends(r) |-> AddUp(Trends(r)[h])])
                  = Total(r, DOMAIN r, LAMBDA s : Cardinality(s.assets))
            /\ AddUp(m) = Total(r, DOMAIN r, LAMBDA s : Cardinality(s.assets) * Cardinality(s.reasons))
            /\ \A x \in {x \in DOMAIN m : m[x] > 0} :
                  Carrying(corpus, x[1]) <= 4 * HeatLimit =>
                      Rows(HeatmapRecords(corpus, x[1], x[2], HeatLimit)) >= Min({m[x], HeatLimit})
            /\ \A y \in UNION {s.symbols : s \in Filled(corpus)} :
                  LET trend == SentimentTrend(corpus, y)
                  IN  AddUp([d \in DOMAIN trend |-> AddUp(trend[d])]) =
                        Tally(corpus, {s \in Filled(corpus) :
                            /\ y \in s.symbols /\ s.label # "none" /\ s.published # None
                            /\ s.published \in (Today - TrendDays + 1) * DayHours .. (Today + 1) * DayHours - 1})
            /\ \A s \in Filled(RecentRecords(corpus, TopRows, FALSE)) :
                  s \notin DOMAIN top /\ s.score >= TopScore =>
                      Rows(top) = TopLimit /\ \A t \in DOMAIN top : t.score >= s.score

(* "equal-weight mean of the bounded fields": what leads the page is made    *)
(* of the six columns under it.  Two reviews agree to the full exactly where *)
(* they say the same, whichever is which; no capture is on the page twice;   *)
(* what a label exports is on the page; and the days of the spend are what   *)
(* the footer says in all.                                                   *)
CompareAddsUp ==
    report = "compare" =>
        LET x == CompareSummary(corpus)
            h == SpendHistory(corpus, Today * DayHours + 1, TrendDays)
            t == TokenTotals(corpus)
        IN  /\ x.n > 0 => Abs(6 * x.overall
                              - (x.relevance + 1000 - x.delta + x.assets + x.reasons + x.symbols + x.tone)) <= 12
            /\ \A p, q \in Pairs(corpus) :
                  LET g == Agreement(p[1].says, p[2].says)
                  IN  /\ Overall(g) = 1000 <=> p[1].says = p[2].says /\ p[1].says.label # "none"
                      /\ g = Agreement(p[2].says, p[1].says)
                      /\ p[1].capture = q[1].capture => p = q
            /\ x.n = Cardinality(UNION {ExportReviews(corpus, l, 0) :
                                            l \in UNION {Labels(p[1].says) : p \in Pairs(corpus)}})
                     + Cardinality({p \in Pairs(corpus) : Labels(p[1].says) = {}})
            /\ Cardinality(DOMAIN h) <= TrendDays + 1
            /\ AddUp([d \in DOMAIN h |-> h[d].calls]) <= t.calls
            /\ (\A s \in Reviews(corpus) : s.at >= (Today - TrendDays) * DayHours + 1) =>
                  AddUp([d \in DOMAIN h |-> h[d].cost]) = t.cost
            /\ x.errors <= t.errors

(* Readiness is what its checks say: 200 with every light green, 503 with    *)
(* one that is not.                                                          *)
HealthIsItsChecks ==
    report = "health" =>
        LET h == DeepHealth(corpus)
        IN  (StatusCode(h) = 200) = (\A x \in DOMAIN h.ok : h.ok[x])

(* No feed is admitted twice, by name or by url; the two breakdowns of the   *)
(* feeds add up to them, and the three badges to the rows of the page.       *)
FeedsAddUp ==
    report = "feeds" =>
        LET a == Awareness(corpus)
            n == NewsSources(corpus)
        IN  /\ \A s, t \in AssembleFeeds(corpus) : s.name = t.name \/ s.url = t.url => s = t
            /\ AddUp(a.parsers) = a.total /\ AddUp(a.categories) = a.total
            /\ n.healthy + n.degraded + n.backedOff = n.total /\ n.total <= a.total

ViewsAgree == PanelsAgree /\ CompareAddsUp /\ HealthIsItsChecks /\ FeedsAddUp

=============================================================================
