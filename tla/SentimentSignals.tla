-------------------------- MODULE SentimentSignals --------------------------
(***************************************************************************)
(* The signals that read the tone of rows: momentum per symbol, dispersion *)
(* and intensity per scope, and the tone of GDELT's series                 *)
(* (src/catchem/quant/sentiment_momentum.py, sentiment_dispersion.py,      *)
(* intensity.py, global_tone.py).  Means are kept as whole numbers of      *)
(* 1/Unit, which is exact for the few rows of an instance.                 *)
(***************************************************************************)
EXTENDS Corpus

CONSTANTS
    MomentumWidth,  \* bucket_minutes of the momentum
    MinMentions,    \* min_mentions
    MaxTickers      \* max_tickers

ASSUME SentimentAssumption ==
    /\ MomentumWidth \in Nat \ {0} /\ MinMentions \in Int /\ MaxTickers \in Int
    /\ \A r \in DOMAIN Shape \cap {"momentum", "scopes"} : \A s \in Shape[r] :
          /\ s = [x \in DOMAIN s |-> s[x]] /\ {"label", "at", "assets", "symbols"} \subseteq DOMAIN s
          /\ s.at \in Int /\ s.score \in Int /\ s.relevance \in Nat
          /\ IsFiniteSet(s.assets) /\ IsFiniteSet(s.symbols)
    /\ \A r \in DOMAIN Shape \cap {"tone"} : \A p \in Shape[r] :
          /\ {p.at, p.nth, p.value} \subseteq Int
          /\ \A q \in Shape[r] :
                p.theme = q.theme /\ p.at = q.at /\ (IF p.at = None THEN p.nth = q.nth ELSE p.value = q.value)
                    => p = q

Unit == 720

WithLabel(c, S, l) == Tally(c, {s \in S : s.label = l})

(* A quotient is rounded towards zero, so that a mean of the opposites is    *)
(* the opposite of the mean, as it is of floats.                             *)
Quotient(a, b) == IF a >= 0 THEN a \div b ELSE -((-a) \div b)

(* A mean of n numbers of 1/Unit; net sentiment of a group of rows. *)
Mean(s) == Quotient(AddUp(s), Len(s))
NetOf(c, S) ==
    LET p == WithLabel(c, S, "positive")
        n == WithLabel(c, S, "negative")
        labelled == p + n + WithLabel(c, S, "neutral")
    IN  IF labelled = 0 THEN 0 ELSE Quotient((p - n) * Unit, labelled)

-----------------------------------------------------------------------------
(* compute_sentiment_momentum.  The grid starts at the earliest row that     *)
(* names a symbol, whatever the symbol.                                      *)

Paired(c) == {s \in Filled(c) : s.symbols # {}}
Origin(c) == Min({s.at : s \in Paired(c)})
Slot(c, s) == (s.at - Origin(c)) \div MomentumWidth
Cell(c, sym, i) == {s \in Paired(c) : sym \in s.symbols /\ Slot(c, s) = i}

(* The net of each of the symbol's buckets; the buckets without it are none. *)
Nets(c, sym) ==
    LET slots == Ascending({Slot(c, s) : s \in {x \in Paired(c) : sym \in x.symbols}}) IN
    [i \in DOMAIN slots |-> NetOf(c, Cell(c, sym, slots[i]))]

(* _half_means: the late half has the bucket in the middle. *)
HalfMeans(nets) ==
    IF Len(nets) = 1 THEN <<nets[1], nets[1]>>
    ELSE LET split == Len(nets) \div 2 IN
         <<Mean(SubSeq(nets, 1, split)), Mean(SubSeq(nets, split + 1, Len(nets)))>>

(* _classify_direction: a change of sign is asked about first. *)
ClassifyDirection(first, last) ==
    LET Above(x) == 10 * x > 2 * Unit
        Below(x) == 10 * x < -2 * Unit
        Grows(x) == 10 * x > 3 * Unit
    IN  IF Above(first) /\ Below(last) THEN "flipping_negative"
        ELSE IF Below(first) /\ Above(last) THEN "flipping_positive"
        ELSE IF Grows(last - first) /\ Above(last) THEN "strengthening_positive"
        ELSE IF Grows(first - last) /\ Below(last) THEN "strengthening_negative"
        ELSE "stable"

(* _detect_flip: the last quarter, rounded up, against the rest. *)
DetectFlip(nets) ==
    LET n == Len(nets)
        tail == (n + 3) \div 4
        head == Mean(SubSeq(nets, 1, n - tail))
        last == Mean(SubSeq(nets, n - tail + 1, n))
    IN  n >= 2 /\ head # 0 /\ last # 0 /\ (head > 0) # (last > 0)

Ticker(c, sym) ==
    LET nets == Nets(c, sym)
        half == HalfMeans(nets)
    IN  [symbol |-> sym, mentions |-> Tally(c, {s \in Paired(c) : sym \in s.symbols}),
         overall |-> NetOf(c, {s \in Paired(c) : sym \in s.symbols}),
         momentum |-> half[2] - half[1],
         velocity |-> IF Len(nets) = 1 THEN 0 ELSE (Last(nets) - nets[1]) \div (Len(nets) - 1),
         direction |-> IF Len(nets) = 1 THEN "stable" ELSE ClassifyDirection(half[1], half[2]),
         flip |-> DetectFlip(nets)]

Mentioned(c) ==
    {sym \in UNION {s.symbols : s \in Paired(c)} :
        Tally(c, {s \in Paired(c) : sym \in s.symbols}) >= MinMentions}

(* The cap keeps those with the greatest momentum either way. *)
Momentum(c) ==
    LET all == {Ticker(c, sym) : sym \in Mentioned(c)} IN
    {t \in all : Cardinality({u \in all : Abs(u.momentum) > Abs(t.momentum)}) < MaxTickers}

-----------------------------------------------------------------------------
(* compute_dispersion and its compute_by_scope. *)

(* Mutant: the middle of three is taken for the dominant one. *)
DominantByOrder(p, z, n) ==
    IF p > z THEN IF p >= n THEN "positive" ELSE "negative"
    ELSE IF z > n THEN "neutral" ELSE IF z < n THEN "negative" ELSE "tied"

Dominant(p, z, n) ==
    IF p > z THEN IF p > n THEN "positive" ELSE IF p < n THEN "negative" ELSE "tied"
    ELSE IF p < z THEN IF z > n THEN "neutral" ELSE IF z < n THEN "negative" ELSE "tied"
    ELSE IF p < n THEN "negative" ELSE "tied"

(* Labels that are none of the three are in no count, and a scope whose rows *)
(* all lack one is reported as empty.  Entropy is 0 iff one label has all.   *)
Dispersion(c, S) ==
    LET p == WithLabel(c, S, "positive")
        z == WithLabel(c, S, "neutral")
        n == WithLabel(c, S, "negative")
    IN  [size |-> p + z + n, dominant |-> Dominant(p, z, n),
         counts |-> [positive |-> p, neutral |-> z, negative |-> n],
         pure |-> Cardinality({x \in {1, 2, 3} : <<p, z, n>>[x] > 0}) <= 1]

Scopes(c) == UNION {s.assets : s \in Filled(c)}
Scoped(c, a) == {s \in Filled(c) : a \in s.assets}

DispersionByScope(c) == [a \in Scopes(c) |-> Dispersion(c, Scoped(c, a))]

-----------------------------------------------------------------------------
(* compute_overall and compute_by_scope of the intensity: relevance times    *)
(* |score|, in hundredths.                                                   *)

RecordIntensity(s) == s.relevance * Abs(s.score)

Intensity(c, S) ==
    [size |-> Tally(c, S), total |-> Total(c, S, RecordIntensity),
     max |-> Max({0} \cup {RecordIntensity(s) : s \in S}),
     high |-> Tally(c, {s \in S : RecordIntensity(s) > 50})]

IntensityByScope(c) == [a \in Scopes(c) |-> Intensity(c, Scoped(c, a))]

(* A row's share of the drill-down: the five strongest. *)
TopRecords(c, S) ==
    {s \in S : Tally(c, {x \in S : RecordIntensity(x) > RecordIntensity(s)}) < 5}

-----------------------------------------------------------------------------
(* summarize_tone of one theme's points; a point's time may be unreadable    *)
(* (None), and then nth is its place in the series.                          *)

Undated(p) == p.at = None
ThemePoints(c, th) == {p \in Filled(c) : p.theme = th}
Dated(c, th) == {p \in ThemePoints(c, th) : ~Undated(p)}

ByDate(p, q) == p.at < q.at \/ (p.at = q.at /\ p.value < q.value)
ByPlace(p, q) == p.nth < q.nth

(* The values of the points in order, each as often as its point occurs. *)
Unfold(c, points, Earlier(_, _)) ==
    [n \in 1 .. Tally(c, points) |->
        (CHOOSE p \in points : n - Tally(c, {q \in points : Earlier(q, p)}) \in 1 .. c[p]).value]
InTime(c, th) == Unfold(c, Dated(c, th), ByDate)

(* Mutant: points without a date stand at the end, as the latest. *)
OrderedWithUndated(c, th) ==
    InTime(c, th)
        \o Unfold(c, {p \in ThemePoints(c, th) : Undated(p)}, ByPlace)

(* Only the dated points have an order, unless no point is dated. *)
Ordered(c, th) ==
    IF Dated(c, th) # {} THEN InTime(c, th)
    ELSE Unfold(c, ThemePoints(c, th), ByPlace)

(* Python rounds a half to the even neighbour: round(0.4 m). *)
RoundHalfEven(num, den) ==
    LET q == num \div den
        r == 2 * (num % den)
    IN  IF r > den \/ (r = den /\ q % 2 = 1) THEN q + 1 ELSE q

Recent(m) == Min({Max({1, RoundHalfEven(4 * m, 10)}), m - 1})

(* The recent mean less the earlier one, in 1/Unit. *)
Trend(seq) ==
    LET m == Len(seq)
        recent == [i \in 1 .. Recent(m) |-> Unit * seq[m - Recent(m) + i]]
        earlier == [i \in 1 .. m - Recent(m) |-> Unit * seq[i]]
    IN  IF m < 2 THEN 0 ELSE Mean(recent) - Mean(earlier)

(* The threshold is 0.5. *)
ToneState(trend) ==
    IF 2 * trend > Unit THEN "improving" ELSE IF 2 * trend < -Unit THEN "deteriorating" ELSE "stable"

(* _least_squares_slope, as the numerator over n (n^2 - 1) / 6. *)
Slope(seq) ==
    AddUp([i \in DOMAIN seq |-> (2 * i - 1 - Len(seq)) * seq[i]])

Summary(c, th) ==
    LET seq == Ordered(c, th)
        values == {p.value : p \in ThemePoints(c, th)}
    IN  [latest |-> Last(seq), min |-> Min(values), max |-> Max(values),
         total |-> Total(c, ThemePoints(c, th), LAMBDA p : p.value),
         trend |-> Trend(seq), slope |-> Slope(seq), state |-> ToneState(Trend(seq)),
         points |-> Tally(c, ThemePoints(c, th)), ordered |-> Len(seq)]

(* compute_global_tone: a theme without points has a neutral summary, which  *)
(* is in neither mean; nor is the trend of a theme with one ordered point.   *)
Themes(c) == {p.theme : p \in Filled(c)}

OverallTone(c) ==
    LET ths == Themes(c) IN
    IF ths = {} THEN None
    ELSE (Unit * SumOf([th \in ths |-> Summary(c, th).latest], ths)) \div Cardinality(ths)

OverallState(c) ==
    LET ths == {th \in Themes(c) : Summary(c, th).ordered >= 2} IN
    IF ths = {} THEN "stable"
    ELSE ToneState(SumOf([th \in ths |-> Summary(c, th).trend], ths) \div Cardinality(ths))

-----------------------------------------------------------------------------
MirrorLabel(l) == CASE l = "positive" -> "negative" [] l = "negative" -> "positive" [] OTHER -> l
Mirror(s) == [s EXCEPT !.label = MirrorLabel(@)]
Mirrored(c) == [s \in {Mirror(x) : x \in DOMAIN c} |-> c[Mirror(s)]]
MirrorDirection(d) ==
    CASE d = "flipping_negative" -> "flipping_positive"
      [] d = "flipping_positive" -> "flipping_negative"
      [] d = "strengthening_negative" -> "strengthening_positive"
      [] d = "strengthening_positive" -> "strengthening_negative"
      [] OTHER -> d

(* Good and bad news are judged alike: with every label turned round, the    *)
(* same tickers are reported, with the opposite momentum and direction and   *)
(* the same flips, and every scope's dominant label is turned round too.     *)
MirrorNews ==
    /\ report = "momentum" =>
          LET m == Momentum(Mirrored(corpus)) IN
          /\ Cardinality(m) = Cardinality(Momentum(corpus))
          /\ \A t \in Momentum(corpus) : \E u \in m :
                /\ u.symbol = t.symbol /\ u.momentum = -t.momentum /\ u.flip = t.flip
                /\ u.direction = MirrorDirection(t.direction)
                /\ Abs(t.momentum) <= 2 * Unit
    /\ report = "scopes" =>
          \A a \in Scopes(corpus) :
              LET d == DispersionByScope(corpus)[a]
                  e == DispersionByScope(Mirrored(corpus))[a]
              IN  /\ e.dominant = MirrorLabel(d.dominant) /\ e.size = d.size /\ e.pure = d.pure
                  /\ d.dominant # "tied" =>
                        \A l \in DOMAIN d.counts \ {d.dominant} : d.counts[l] < d.counts[d.dominant]

(* The scopes account for every row: a row counts once for every asset it    *)
(* names, the strongest row of all is the strongest of a scope, and only the *)
(* rows above the cutoff, which one in the middle is not, count as high.     *)
ScopesAddUp ==
    report = "scopes" =>
        LET all == Intensity(corpus, Filled(corpus))
            by == IntensityByScope(corpus)
            Sum(f(_)) == Total(corpus, Filled(corpus), LAMBDA s : Cardinality(s.assets) * f(s))
        IN  /\ SumOf([a \in Scopes(corpus) |-> by[a].size], Scopes(corpus)) = Sum(LAMBDA s : 1)
            /\ SumOf([a \in Scopes(corpus) |-> by[a].total], Scopes(corpus)) = Sum(RecordIntensity)
            /\ \A a \in Scopes(corpus) :
                  /\ by[a].max <= all.max /\ by[a].high <= all.high
                  /\ by[a].high > 0 <=> by[a].max > 50
                  /\ \E s \in TopRecords(corpus, Scoped(corpus, a)) : RecordIntensity(s) = by[a].max
                  /\ DispersionByScope(corpus)[a].size <= by[a].size

(* A point without a date widens the range of its theme and nothing else:    *)
(* where a theme has dated points, what is latest, the trend and the state   *)
(* stay as they were, and so does the state over all themes.                 *)
UndatedHasNoPlace ==
    [][\A p \in DOMAIN corpus :
        (report = "tone" /\ corpus'[p] > corpus[p] /\ Undated(p) /\ Dated(corpus, p.theme) # {}) =>
            LET before == Summary(corpus, p.theme)
                after == Summary(corpus', p.theme)
            IN  /\ after.latest = before.latest /\ after.trend = before.trend
                /\ after.state = before.state /\ after.slope = before.slope
                /\ after.min <= before.min /\ after.max >= before.max
                /\ OverallState(corpus') = OverallState(corpus)]_vars

=============================================================================
