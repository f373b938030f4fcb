---------------------------- MODULE SurgeSignals ----------------------------
(***************************************************************************)
(* The signals that compare a window of time with those before it:         *)
(* anomalies, spillover between assets, velocity, topic regimes            *)
(* (src/catchem/quant/anomaly.py, spillover.py, news_velocity.py,          *)
(* topic_regime.py).  A z-score is never computed: what is asked of it is  *)
(* whether it reaches a threshold, and squaring both sides decides that in *)
(* whole numbers.                                                          *)
(***************************************************************************)
EXTENDS Corpus

CONSTANTS
    Width,          \* length of a bucket
    MinHistory,     \* buckets a baseline needs (3 in the code)
    Baseline,       \* buckets a baseline looks back (12; 8 for spillover)
    Lag,            \* lag_buckets
    MinSupport,     \* co-movements an edge needs (2 in the code)
    VelocityWindow, \* window_minutes
    MinBucket,      \* min_records_per_bucket
    ShiftThreshold  \* shift_threshold, in thousandths

ASSUME SurgeAssumption ==
    /\ Width \in Nat \ {0} /\ Lag \in Nat \ {0} /\ Baseline \in Nat \ {0}
    /\ MinHistory \in Nat \ {0, 1} /\ VelocityWindow \in Nat
    /\ \A r \in DOMAIN Shape \cap {"anomalies", "spillover", "velocity", "regime"} :
          \A s \in Shape[r] : s.at \in Int

(* All four grids are aligned alike for a width that divides the hour: the   *)
(* anomalies' is anchored in the hour of the first row, the others' at the   *)
(* epoch.                                                                    *)
Bucket(t) == t \div Width
In(c, b) == {s \in Filled(c) : Bucket(s.at) = b}

(* The non-empty buckets, in order. *)
Buckets(c) == {Bucket(s.at) : s \in Filled(c)}
Before(B, b) == Ascending({x \in B : x < b})

-----------------------------------------------------------------------------
(* A z-score against past observations, as sums: mean = S / n and            *)
(* variance = V / (n (n - 1)).  A baseline without variance gives 0.         *)

SumOfSquares(h) == AddUp([n \in DOMAIN h |-> h[n] * h[n]])
Spread(h) == Len(h) * SumOfSquares(h) - AddUp(h) * AddUp(h)

(* z >= t[1] / t[2], for a positive threshold. *)
ZAtLeast(observed, h, t) ==
    LET n == Len(h)
        d == n * observed - AddUp(h)
    IN  /\ n >= MinHistory /\ Spread(h) > 0 /\ d > 0
        /\ d * d * (n - 1) * t[2] * t[2] >= t[1] * t[1] * n * Spread(h)

ZAtMost(observed, h, t) == ZAtLeast(-observed, [n \in DOMAIN h |-> -h[n]], t)

ZBeyond(observed, h, t) == ZAtLeast(observed, h, t) \/ ZAtMost(observed, h, t)

(* _severity: thresholds 4 and 3. *)
Severity(observed, h) ==
    IF ZBeyond(observed, h, <<4, 1>>) THEN "high"
    ELSE IF ZBeyond(observed, h, <<3, 1>>) THEN "medium" ELSE "low"

-----------------------------------------------------------------------------
(* detect_anomalies: empty buckets are no part of any baseline. *)

Threshold == <<2, 1>>

Volume(c, b) == Tally(c, In(c, b))

VolumeHistory(c, b) ==
    LET past == LastOf(Before(Buckets(c), b), Baseline) IN
    [n \in DOMAIN past |-> Volume(c, past[n])]

VolumeAnomalies(c) ==
    {[bucket |-> b, severity |-> Severity(Volume(c, b), VolumeHistory(c, b))] :
        b \in {x \in Buckets(c) : ZBeyond(Volume(c, x), VolumeHistory(c, x), Threshold)}}

(* The net sentiment of the labelled rows, in sixtieths. *)
Labelled(c, b) == {s \in In(c, b) : s.label # "none"}
Net(c, b) ==
    LET With(l) == Tally(c, {s \in In(c, b) : s.label = l}) IN
    (60 * (With("positive") - With("negative"))) \div Tally(c, Labelled(c, b))

NetHistory(c, b) ==
    LET past == LastOf(Before({x \in Buckets(c) : Labelled(c, x) # {}}, b), Baseline) IN
    [n \in DOMAIN past |-> Net(c, past[n])]

(* A shock is bullish or bearish only beyond the level of 0.2, twelve sixtieths. *)
Direction(c, b) ==
    IF ZAtLeast(Net(c, b), NetHistory(c, b), Threshold) /\ Net(c, b) > 12
    THEN "bullish_shock"
    ELSE IF ZAtMost(Net(c, b), NetHistory(c, b), Threshold) /\ Net(c, b) < -12
    THEN "bearish_shock" ELSE "neutral"

SentimentShocks(c) ==
    {[bucket |-> b, direction |-> Direction(c, b)] :
        b \in {x \in Buckets(c) : /\ Labelled(c, x) # {}
                                  /\ ZBeyond(Net(c, x), NetHistory(c, x), Threshold)}}

(* A symbol's mentions against its mean, whose root is the deviation. *)
Mentions(c, sym, b) == Tally(c, {s \in In(c, b) : sym \in s.symbols})

Bursts(c, sym, b) ==
    LET past == LastOf(Before(Buckets(c), b), Baseline)
        h == [n \in DOMAIN past |-> Mentions(c, sym, past[n])]
        n == Len(h)
        d == n * Mentions(c, sym, b) - AddUp(h)
    IN  /\ Mentions(c, sym, b) >= 2 /\ n >= MinHistory /\ d > 0
        /\ d * d * Threshold[2] * Threshold[2]
             >= Threshold[1] * Threshold[1] * n * Max({n, AddUp(h)})

SymbolBursts(c) ==
    {p \in (UNION {s.symbols : s \in Filled(c)}) \X Buckets(c) : Bursts(c, p[1], p[2])}

-----------------------------------------------------------------------------
(* compute_spillover: a dense grid from the first row to the last, of the    *)
(* rows that name an asset.                                                  *)

Timed(c) == {s \in Filled(c) : s.assets # {}}
Assets(c) == UNION {s.assets : s \in Timed(c)}
Anchor(c) == Min({Bucket(s.at) : s \in Timed(c)})
TotalBuckets(c) ==
    IF Timed(c) = {} THEN 0 ELSE Max({Bucket(s.at) : s \in Timed(c)}) - Anchor(c) + 1

Series(c, a) ==
    [i \in 1 .. TotalBuckets(c) |-> Tally(c, {s \in In(c, Anchor(c) + i - 1) : a \in s.assets})]

SurgeThreshold == <<3, 2>>

(* Index 1 is the first bucket; the first MinHistory are never judged. *)
Surge(c, a, i) ==
    /\ i > MinHistory
    /\ ZAtLeast(Series(c, a)[i],
                SubSeq(Series(c, a), Max({1, i - Baseline}), i - 1), SurgeThreshold)

Eligible(c) == MinHistory + 1 .. TotalBuckets(c) - Lag

(* Mutant: the target is looked at in the source's bucket. *)
EdgeUnlagged(c, source, target) ==
    LET from == {i \in Eligible(c) : Surge(c, source, i)}
        to == {i \in Eligible(c) : Surge(c, target, i + Lag)}
        co == {i \in from : Surge(c, target, i)}
    IN  [source |-> source, target |-> target, pivots |-> co,
         sourceOnly |-> Cardinality(from) - Cardinality(co),
         targetOnly |-> Cardinality(to) - Cardinality(co)]

(* One direction: the pivots are the buckets where the source surged and the *)
(* target did, Lag later.                                                    *)
Edge(c, source, target) ==
    LET from == {i \in Eligible(c) : Surge(c, source, i)}
        to == {i \in Eligible(c) : Surge(c, target, i + Lag)}
        co == from \cap to
    IN  [source |-> source, target |-> target, pivots |-> co,
         sourceOnly |-> Cardinality(from) - Cardinality(co),
         targetOnly |-> Cardinality(to) - Cardinality(co)]

(* P(target | source) above the target's base rate, cross-multiplied. *)
Score(c, e) ==
    LET co == Cardinality(e.pivots)
        from == co + e.sourceOnly
        to == co + e.targetOnly
    IN  co * Cardinality(Eligible(c)) - to * from

AllEdges(c) == {Edge(c, p[1], p[2]) : p \in Assets(c) \X Assets(c)}
SelfLoops(c) == {e \in AllEdges(c) : e.source = e.target}
SpilloverEdges(c) ==
    {e \in AllEdges(c) \ SelfLoops(c) :
        Score(c, e) > 0 /\ Cardinality(e.pivots) >= MinSupport}

-----------------------------------------------------------------------------
(* compute_velocity: arrivals per bucket up to the latest row. *)

Latest(c) == Max({s.at : s \in Filled(c)})
WindowStart(c) == Latest(c) - VelocityWindow
InWindow(c) == {s \in Filled(c) : s.at >= WindowStart(c)}

Arrivals(c) ==
    [i \in 1 .. Bucket(Latest(c)) - Bucket(WindowStart(c)) + 1 |->
        Tally(c, In(c, Bucket(WindowStart(c)) + i - 1) \cap InWindow(c))]

(* An exponential mean, in thousandths; alpha = 3/10 and 1/20. *)
Ema(seq, num, den) ==
    LET mean[n \in 1 .. Len(seq)] ==
            IF n = 1 THEN 1000 * seq[1]
            ELSE (num * 1000 * seq[n] + (den - num) * mean[n - 1]) \div den
    IN  mean[Len(seq)]

(* The k-th of its numbers by size. *)
Kth(seq, k) ==
    Min({v \in Range(seq) : Cardinality({i \in DOMAIN seq : seq[i] <= v}) >= k})

TwiceMedian(seq) ==
    LET mid == Len(seq) \div 2 IN
    IF Len(seq) % 2 = 1 THEN 2 * Kth(seq, mid + 1) ELSE Kth(seq, mid) + Kth(seq, mid + 1)

(* acceleration_z reaches t, the deviation being that of the whole sequence. *)
Accelerates(seq, t) ==
    LET n == Len(seq)
        d == 2 * Last(seq) - TwiceMedian(seq)
    IN  /\ n >= 2 /\ Spread(seq) > 0 /\ d > 0
        /\ d * d * n * (n - 1) * t[2] * t[2] >= 4 * t[1] * t[1] * Spread(seq)

Regime(seq) ==
    IF Accelerates(seq, <<2, 1>>) THEN "burst"
    ELSE IF Accelerates(seq, <<1, 1>>) THEN "active"
    ELSE IF Accelerates([n \in DOMAIN seq |-> -seq[n]], <<1, 1>>) THEN "quiet"
    ELSE "calm"

Velocity(c) ==
    IF Filled(c) = {} THEN [samples |-> 0, regime |-> "calm"]
    ELSE [samples |-> Tally(c, InWindow(c)), current |-> Last(Arrivals(c)),
          fast |-> Ema(Arrivals(c), 3, 10), slow |-> Ema(Arrivals(c), 1, 20),
          regime |-> Regime(Arrivals(c))]

-----------------------------------------------------------------------------
(* detect_regime_shifts: the mix of a bucket against that of the non-empty   *)
(* bucket before it.  Masses are in thousandths.                             *)

(* A row spreads one unit over the keys it names; _normalize. *)
Share(c, b, field) ==
    LET rows == {s \in In(c, b) : s[field] # {}}
        total == 12 * Tally(c, rows)
    IN  [k \in UNION {s[field] : s \in rows} |->
            (1000 * Total(c, {s \in rows : k \in s[field]}, LAMBDA s : 12 \div Cardinality(s[field])))
                \div total]

(* _combine_for_kl: both distributions side by side. *)
Mix(c, b) ==
    LET assets == Share(c, b, "assets")
        reasons == Share(c, b, "reasons")
    IN  [k \in ({"asset"} \X DOMAIN assets) \cup ({"reason"} \X DOMAIN reasons) |->
            IF k[1] = "asset" THEN assets[k[2]] ELSE reasons[k[2]]]

(* _smooth_pair: what a side lacks gets _EPSILON of mass. *)
Smoothed(p, keys) == [k \in keys |-> IF k \in DOMAIN p THEN Max({1, p[k]}) ELSE 1]

(* KL(p || q), in thousandths. *)
Divergence(mix, past) ==
    LET keys == DOMAIN mix \cup DOMAIN past
        p == Smoothed(mix, keys)
        q == Smoothed(past, keys)
        P == SumOf(p, keys)
        Q == SumOf(q, keys)
    IN  IF keys = {} THEN 0
        ELSE SumOf([k \in keys |-> (p[k] * (Ln(p[k]) - Ln(q[k]))) \div P], keys) + Ln(Q) - Ln(P)

(* Mutant: a bucket is compared with the next one. *)
RegimesAhead(c) ==
    LET starts == Ascending(Buckets(c)) IN
    [n \in DOMAIN starts |->
        IF n = Len(starts) THEN [bucket |-> starts[n], count |-> Volume(c, starts[n]),
                         divergence |-> None, shift |-> FALSE]
        ELSE LET kl == Divergence(Mix(c, starts[n]), Mix(c, starts[n + 1])) IN
             [bucket |-> starts[n], count |-> Volume(c, starts[n]), divergence |-> kl,
              shift |-> /\ kl > ShiftThreshold
                        /\ Volume(c, starts[n]) >= MinBucket /\ Volume(c, starts[n + 1]) >= MinBucket]]

(* The divergence is always reported, and a shift only between two buckets   *)
(* with enough rows.                                                         *)
Regimes(c) ==
    LET starts == Ascending(Buckets(c)) IN
    [n \in DOMAIN starts |->
        IF n = 1 THEN [bucket |-> starts[1], count |-> Volume(c, starts[1]),
                       divergence |-> None, shift |-> FALSE]
        ELSE LET kl == Divergence(Mix(c, starts[n]), Mix(c, starts[n - 1])) IN
             [bucket |-> starts[n], count |-> Volume(c, starts[n]), divergence |-> kl,
              shift |-> /\ kl > ShiftThreshold
                        /\ Volume(c, starts[n]) >= MinBucket /\ Volume(c, starts[n - 1]) >= MinBucket]]

-----------------------------------------------------------------------------
(* What is said about the buckets before x. *)
SaidBefore(c, x) ==
    CASE report = "anomalies" ->
            <<{a \in VolumeAnomalies(c) : a.bucket < x}, {a \in SentimentShocks(c) : a.bucket < x},
              {p \in SymbolBursts(c) : p[2] < x}>>
      [] report = "regime" -> {r \in Range(Regimes(c)) : r.bucket < x}
      [] report = "spillover" ->
            IF Timed(c) = {} THEN {}
            ELSE {<<a, i + Anchor(c)>> : a \in Assets(c), i \in 1 .. x - Anchor(c)} \cap
                 {<<p[1], p[2] + Anchor(c)>> :
                    p \in {q \in Assets(c) \X (1 .. TotalBuckets(c)) : Surge(c, q[1], q[2])}}
      [] OTHER -> {}

(* No signal looks ahead: a capture leaves what was said of the buckets      *)
(* before its own as it was, for anomalies, shocks, symbol bursts, surges    *)
(* and topic regimes.  A back-dated one may change everything after it.      *)
NoPeekAhead ==
    [][\A s \in DOMAIN corpus :
        corpus'[s] > corpus[s] => SaidBefore(corpus', Bucket(s.at)) = SaidBefore(corpus, Bucket(s.at))]_vars

(* The books of a spillover edge balance: the source's surges, counted in    *)
(* the source's own series, are the pivots and the surges nothing followed;  *)
(* the target's are the pivots and those nothing announced; and a pivot's    *)
(* target surged Lag buckets later.  A reported edge beats the base rate.    *)
EdgesAddUp ==
    report = "spillover" =>
        LET Surges(a, range) == {i \in range : Surge(corpus, a, i)} IN
        /\ \A e \in AllEdges(corpus) :
              LET shifted == {i + Lag : i \in Eligible(corpus)} IN
              /\ Cardinality(Surges(e.source, Eligible(corpus))) = Cardinality(e.pivots) + e.sourceOnly
              /\ Cardinality(Surges(e.target, shifted)) = Cardinality(e.pivots) + e.targetOnly
              /\ {i + Lag : i \in e.pivots} \subseteq Surges(e.target, shifted)
        /\ \A e \in SpilloverEdges(corpus) : e.pivots # {}
        /\ \A a \in Assets(corpus) :
              AddUp(Series(corpus, a)) = Tally(corpus, {s \in Timed(corpus) : a \in s.assets})

(* The arrivals of a velocity report are the rows of its window, none lost   *)
(* at either edge, so that its last bucket is never empty; the means stay    *)
(* between the least and the greatest bucket, and a burst ends in the        *)
(* busiest bucket while a quiet spell never does.                            *)
VelocityCounts ==
    report = "velocity" /\ Filled(corpus) # {} =>
        LET seq == Arrivals(corpus)
            v == Velocity(corpus)
            low == 1000 * Min(Range(seq))
            high == 1000 * Max(Range(seq))
        IN  /\ AddUp(seq) = v.samples /\ v.current >= 1
            /\ v.fast \in low - 10 .. high /\ v.slow \in low - 100 .. high
            /\ v.regime \in {"burst", "active"} => 2 * v.current > TwiceMedian(seq)
            /\ v.regime = "quiet" => v.current < Max(Range(seq))

=============================================================================
