---------------------------- MODULE EventSignals ----------------------------
(***************************************************************************)
(* The signals that compare records with one another                       *)
(* (src/catchem/quant/event_clustering.py, lead_lag.py, novelty.py), over  *)
(* the newest rows of the table as the engine reads them.  Clusters are    *)
(* cached: the lead/lag report may be computed from clusters of an earlier *)
(* table.  Similarities are integers, scaled so that the Jaccard quotients *)
(* of the instance are exact.                                              *)
(***************************************************************************)
EXTENDS Integers, FiniteSets, SequencesExt

CONSTANTS
    Shape,          \* what a capture may say: see ShapeAssumption
    Upper,          \* a symbol as a row spells it -> its normal form
    NoTime,         \* published_ts absent or not a timestamp
    NoDomain,       \* a blank domain
    Alphabet,       \* a domain -> its place in the order of names
    Log10,          \* n -> log10(n + 1), in ten-thousandths
    Limit,          \* rows a signal reads
    Window,         \* window_seconds
    Threshold,      \* similarity_threshold, scaled
    MinSize, MinDomains,
    MaxRows         \* bound: captures

(* A scale that every union of at most six tokens divides. *)
Unit == 60

ASSUME ShapeAssumption ==
    /\ Limit \in Nat \ {0} /\ Window \in Nat
    /\ \A s \in Shape :
        /\ s.pub \in Nat \cup {NoTime}
        /\ s.symbols \subseteq DOMAIN Upper
        /\ \A f \in {s.symbols, s.reasons, s.assets, s.title} :
              IsFiniteSet(f) /\ Cardinality(f) <= 3

ASSUME AlphabetAssumption ==
    /\ \A s \in Shape : s.domain \in DOMAIN Alphabet
    /\ \A d, e \in DOMAIN Alphabet :
          Alphabet[d] \in Nat /\ (Alphabet[d] = Alphabet[e] => d = e)

ASSUME LogarithmAssumption ==
    Log10 \in [0 .. Limit -> Nat] /\ Log10[0] = 0 /\ \A n \in 1 .. Limit : Log10[n] > 0

VARIABLES
    table,          \* the rows, newest first
    events          \* the clusters the engine holds

vars == <<table, events>>

Recent == SubSeq(table, 1, IF Len(table) < Limit THEN Len(table) ELSE Limit)

RecordTs(r) == IF r.pub = NoTime THEN r.created ELSE r.pub

-----------------------------------------------------------------------------
(* Similarity of two records. *)

Jaccard(a, b) ==
    IF a \cap b = {} THEN 0 ELSE (Unit * Cardinality(a \cap b)) \div Cardinality(a \cup b)

Symbols(r) == {Upper[s] : s \in r.symbols}

(* pairwise_similarity: weights in hundredths; entities are left out of the  *)
(* rows, so that their tenth is never earned.                                *)
PairwiseSimilarity(a, b) ==
    IF a = b THEN 100 * Unit
    ELSE 35 * Jaccard(Symbols(a), Symbols(b)) + 20 * Jaccard(a.reasons, b.reasons)
         + 15 * Jaccard(a.assets, b.assets) + 20 * Jaccard(a.title, b.title)

(* Novelty's own blend, in which titles weigh more. *)
NoveltySimilarity(a, b) ==
    55 * Jaccard(a.title, b.title) + 20 * Jaccard(Symbols(a), Symbols(b))
    + 15 * Jaccard(a.reasons, b.reasons) + 10 * Jaccard(a.assets, b.assets)

-----------------------------------------------------------------------------
(* cluster_records: one pass in order of time, every record joining the      *)
(* cluster it resembles most among those whose newest member is near enough. *)

(* Mutant: the records are taken as they are listed. *)
AsListed(rows) == rows

(* A stable sort: equal times keep the order they came in.  A row's place is *)
(* the number of rows before it.                                             *)
Before(rows, i, j) ==
    \/ RecordTs(rows[i]) < RecordTs(rows[j])
    \/ RecordTs(rows[i]) = RecordTs(rows[j]) /\ i < j
Place(rows, i) == Cardinality({j \in DOMAIN rows : Before(rows, j, i)}) + 1
ByTime(rows) == [n \in DOMAIN rows |-> rows[CHOOSE i \in DOMAIN rows : Place(rows, i) = n]]

Link(c, r) == Max({PairwiseSimilarity(m, r) : m \in Range(c.members)})

WithinWindow(c, r) ==
    LET gap == RecordTs(r) - c.last IN gap <= Window /\ -gap <= Window

(* Mutant: a similar record joins whatever its time. *)
AttachAnytime(clusters, r) ==
    LET near == {k \in DOMAIN clusters : Link(clusters[k], r) >= Threshold}
    IN  IF near = {} THEN Append(clusters, [members |-> <<r>>, last |-> RecordTs(r)])
        ELSE [clusters EXCEPT ![Max(near)] =
                  [members |-> Append(@.members, r), last |-> RecordTs(r)]]

(* Of equally close clusters the youngest wins. *)
Attach(clusters, r) ==
    LET near == {k \in DOMAIN clusters :
                    WithinWindow(clusters[k], r) /\ Link(clusters[k], r) >= Threshold}
        best == CHOOSE k \in near : \A j \in near :
                    \/ Link(clusters[j], r) < Link(clusters[k], r)
                    \/ Link(clusters[j], r) = Link(clusters[k], r) /\ j <= k
    IN  IF near = {} THEN Append(clusters, [members |-> <<r>>, last |-> RecordTs(r)])
        ELSE [clusters EXCEPT ![best] =
                  [members |-> Append(@.members, r),
                   last |-> IF RecordTs(r) > @.last THEN RecordTs(r) ELSE @.last]]

(* The clusters once the first n rows of a sequence have joined. *)
Joined(sorted) ==
    LET grouped[n \in 0 .. Len(sorted)] ==
            IF n = 0 THEN <<>> ELSE Attach(grouped[n - 1], sorted[n])
    IN  grouped

Clusters(rows) == Joined(ByTime(rows))[Len(rows)]

Domains(members) == {r.domain : r \in Range(members)} \ {NoDomain}

Surviving(rows) ==
    {c \in Range(Clusters(rows)) :
        /\ Len(c.members) >= MinSize
        /\ MinDomains > 1 => Cardinality(Domains(c.members)) >= MinDomains}

(* Symbols that at least two members name. *)
DominantSymbols(members) ==
    {s \in UNION {Symbols(r) : r \in Range(members)} :
        Cardinality({n \in DOMAIN members : s \in Symbols(members[n])}) >= 2}

(* The mean over all pairs, as a total and a count. *)
Coherence(members) ==
    LET pairs == {p \in (1 .. Len(members)) \X (1 .. Len(members)) : p[1] < p[2]}
        Score(p) == PairwiseSimilarity(members[p[1]], members[p[2]])
    IN  [total |-> MapThenSumSet(Score, pairs), pairs |-> Cardinality(pairs)]

Event(c) ==
    LET times == {RecordTs(r) : r \in Range(c.members)} IN
    [captures |-> [n \in DOMAIN c.members |-> c.members[n].id],
     first |-> Min(times), last |-> Max(times),
     symbols |-> DominantSymbols(c.members), domains |-> Domains(c.members),
     coherence |-> Coherence(c.members)]

ClusterRecords(rows) == {Event(c) : c \in Surviving(rows)}
-----------------------------------------------------------------------------
(* attribute_lead_lag: who was first, over clusters that may be older than   *)
(* the rows.  Captures whose row is out of sight are passed over.            *)

(* Mutant: the leader is the capture that came in first. *)
FirstCaptured(members) == CHOOSE r \in members : \A m \in members : r.id <= m.id

Leader(members) ==
    CHOOSE r \in members : \A m \in members :
        RecordTs(r) < RecordTs(m) \/ (RecordTs(r) = RecordTs(m) /\ r.id <= m.id)

(* A domain's lag is that of its quickest capture; the leader's domain has   *)
(* none, however often it published.                                         *)
PerEvent(e, rows) ==
    LET members == {r \in Range(rows) : r.id \in Range(e.captures)}
        leader == Leader(members)
        followers == {r.domain : r \in members} \ {leader.domain}
        Lag(d) == Min({RecordTs(m) - RecordTs(leader) : m \in {r \in members : r.domain = d}})
    IN  IF members = {} THEN [resolved |-> {}]
        ELSE [resolved |-> members, leader |-> leader,
              lag |-> [d \in followers |-> Lag(d)]]

(* In hundred-thousandths: the share of the events it led, and how many.     *)
CompositeScore(led, participated) ==
    (60000 * led) \div participated + (IF Log10[led] < 20000 THEN 2 * Log10[led] ELSE 40000)

SeenIn(e) == {r.domain : r \in e.resolved}

(* Totals of a domain over the events; the means as totals and counts. *)
SourceScore(d, reports) ==
    LET resolved == {e \in reports : e.resolved # {}}
        participated == {e \in resolved : d \in SeenIn(e)}
        led == {e \in resolved : e.leader.domain = d}
        followed == {e \in resolved : d \in DOMAIN e.lag}
        contested == {e \in led : DOMAIN e.lag # {}}
        Lag(e) == e.lag[d]
        Gap(e) == Min(Range(e.lag))
    IN  [domain |-> d, led |-> Cardinality(led), participated |-> Cardinality(participated),
         following |-> [total |-> MapThenSumSet(Lag, followed), n |-> Cardinality(followed)],
         leading |-> [total |-> MapThenSumSet(Gap, contested), n |-> Cardinality(contested)],
         score |-> CompositeScore(Cardinality(led), Cardinality(participated))]

LeadLag(evts, rows) == {PerEvent(e, rows) : e \in evts}

(* Mutant: the lowest score comes first. *)
AboveAscending(s, t) ==
    \/ s.score < t.score
    \/ s.score = t.score /\ Alphabet[s.domain] < Alphabet[t.domain]

(* By score, then by events led, then by name. *)
Above(s, t) ==
    \/ s.score > t.score
    \/ s.score = t.score /\ s.led > t.led
    \/ s.score = t.score /\ s.led = t.led /\ Alphabet[s.domain] < Alphabet[t.domain]
Rank(s, scores) == Cardinality({t \in scores : Above(t, s)}) + 1

Sources(reports) ==
    LET scores == {SourceScore(d, reports) : d \in UNION {SeenIn(e) : e \in reports}}
    IN  [n \in 1 .. Cardinality(scores) |-> CHOOSE s \in scores : Rank(s, scores) = n]

-----------------------------------------------------------------------------
(* Novelty: how far a record is from the row nearest to it. *)

Explain(sim) ==
    IF sim < 10 * Unit THEN "first of kind"
    ELSE IF sim >= 85 * Unit THEN "near-duplicate"
    ELSE IF sim >= 50 * Unit THEN "shares theme"
    ELSE "low overlap"

(* The first of the nearest rows is named. *)
ResultFrom(r, others) ==
    IF others = <<>> THEN [id |-> r.id, similarity |-> 0, matched |-> {}, verdict |-> Explain(0)]
    ELSE LET Sim(n) == NoveltySimilarity(r, others[n])
             best == CHOOSE n \in DOMAIN others : \A k \in DOMAIN others :
                         Sim(k) < Sim(n) \/ (Sim(k) = Sim(n) /\ n <= k)
         IN  [id |-> r.id, similarity |-> Sim(best), nearest |-> others[best].id,
              matched |-> Symbols(r) \cap Symbols(others[best]), verdict |-> Explain(Sim(best))]

(* Mutant: every row is compared, the record's own too. *)
ComputeNoveltyWithSelf(r, corpus) == ResultFrom(r, corpus)

(* One record against the corpus: one row of its own id is left out. *)
ComputeNovelty(r, corpus) ==
    LET own == {n \in DOMAIN corpus : corpus[n].id = r.id} IN
    ResultFrom(r, IF own = {} THEN corpus ELSE RemoveAt(corpus, Min(own)))

(* All of them, each against the others. *)
ScoreCorpus(corpus) ==
    [n \in DOMAIN corpus |-> ResultFrom(corpus[n], RemoveAt(corpus, n))]

-----------------------------------------------------------------------------
Init == table = <<>> /\ events = {}

Row(n, s) ==
    [id |-> n, created |-> n, pub |-> s.pub, domain |-> s.domain, symbols |-> s.symbols,
     reasons |-> s.reasons, assets |-> s.assets, title |-> s.title]

(* A capture lands: its number is its created_at, its published_ts may say   *)
(* any time, before or after.                                                *)
Capture(s) ==
    LET n == Len(table) + 1 IN
    /\ n <= MaxRows
    /\ table' = <<Row(n, s)>> \o table
    /\ UNCHANGED events

(* The cached clusters have expired and are asked for again. *)
RefreshClusters == events' = ClusterRecords(Recent) /\ UNCHANGED table

Next == (\E s \in Shape : Capture(s)) \/ RefreshClusters

Spec == Init /\ [][Next]_vars

-----------------------------------------------------------------------------
(* Every record is in one cluster only, and belongs there: it was near and   *)
(* like enough to one that joined before it, and no two members that follow  *)
(* one another lie further apart than the window.                            *)
ClustersTile ==
    LET clusters == Clusters(Recent)
        Times(c) == [n \in DOMAIN c.members |-> RecordTs(c.members[n])]
    IN  /\ \A r \in Range(Recent) :
              Cardinality({k \in DOMAIN clusters : r \in Range(clusters[k].members)}) = 1
        /\ \A c \in Range(clusters) : \A n \in DOMAIN c.members \ {1} :
              /\ Times(c)[n] \in Times(c)[n - 1] .. Times(c)[n - 1] + Window
              /\ \E k \in 1 .. n - 1 :
                    PairwiseSimilarity(c.members[k], c.members[n]) >= Threshold

(* News later than all the rest never regroups what is there: every cluster  *)
(* stays as it is, or has the newcomer at its end; and a record's novelty    *)
(* only falls as others arrive.  (As long as no row drops out of sight.)     *)
OnlyExtends ==
    LET r == Head(table')
        before == Clusters(table)
        after == Clusters(table')
    IN  table' # table /\ Len(table') <= Limit =>
        /\ (\A m \in Range(table) : RecordTs(m) < RecordTs(r)) =>
              \A k \in DOMAIN before :
                  \/ after[k] = before[k]
                  \/ after[k].members = Append(before[k].members, r)
        /\ \A n \in DOMAIN table :
              ScoreCorpus(table)[n].similarity <= ScoreCorpus(table')[n + 1].similarity

LateNewsOnlyExtends == [][OnlyExtends]_vars

(* In every event of the report nobody was before its leader, whose domain   *)
(* follows nobody, even when the clusters are older than the rows.           *)
LeadersAreFirst ==
    \A e \in LeadLag(events, Recent) : e.resolved # {} =>
        /\ \A r \in e.resolved : RecordTs(e.leader) <= RecordTs(r)
        /\ \A d \in DOMAIN e.lag : d # e.leader.domain /\ e.lag[d] >= 0

(* In every event a domain took part in it led or followed, and not both; no *)
(* event is counted twice, nor left out; and a source that has led is ranked *)
(* above all that never did.                                                 *)
LeadersLead ==
    LET reports == LeadLag(events, Recent)
        ranked == Sources(reports)
        Seen(e) == Cardinality(SeenIn(e))
        Taken(s) == s.participated
        Led(s) == s.led
    IN  /\ \A s \in Range(ranked) : s.participated = s.led + s.following.n
        /\ MapThenSumSet(Taken, Range(ranked)) = MapThenSumSet(Seen, reports)
        /\ MapThenSumSet(Led, Range(ranked)) = Cardinality({e \in reports : e.resolved # {}})
        /\ \A i, j \in DOMAIN ranked : ranked[i].led > 0 /\ ranked[j].led = 0 => i < j

(* The score of one record and the score of all of them are the same, and no *)
(* row is nearer to a record than the one it is said to be nearest to.       *)
NoveltyAgrees ==
    \A n \in DOMAIN Recent :
        /\ ComputeNovelty(Recent[n], Recent) = ScoreCorpus(Recent)[n]
        /\ \A k \in DOMAIN Recent \ {n} :
              NoveltySimilarity(Recent[n], Recent[k]) <= ScoreCorpus(Recent)[n].similarity

(* Every row is in one cluster, linked to it, within the window of the row   *)
(* before it; who leads an event was there first; and both ways to a novelty *)
(* score agree.                                                              *)
EventsAgree == ClustersTile /\ LeadersAreFirst /\ LeadersLead /\ NoveltyAgrees

=============================================================================
