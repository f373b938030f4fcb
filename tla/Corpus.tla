------------------------------- MODULE Corpus -------------------------------
(***************************************************************************)
(* The rows a quant report is computed from, and the report that is asked  *)
(* for.  The reports of SurgeSignals, SentimentSignals and MixSignals add  *)
(* up what rows say, so that the rows are a bag: how many there are of     *)
(* each shape.  A shape resolves the row's time already (published_ts, or  *)
(* created_at where that is no timestamp; see EventSignals).  Other        *)
(* modules read other things off such a bag: Pipeline the sentences of a   *)
(* capture, Audits the rows its four reports compare.                      *)
(***************************************************************************)
EXTENDS Integers, FiniteSets, SequencesExt

CONSTANTS
    Shape,          \* report -> the shapes of row it is computed from
    MaxEach,        \* bound: rows of one shape
    MaxRows         \* bound: report -> rows

ASSUME CorpusAssumption == \A r \in DOMAIN Shape : IsFiniteSet(Shape[r])

VARIABLES
    report,         \* the report that is asked for
    corpus          \* shape -> number of rows in sight

vars == <<report, corpus>>

(* How many rows of c have one of the shapes S, and a sum over them. *)
SumOf(f, S) == MapThenSumSet(LAMBDA x : f[x], S)
AddUp(f) == SumOf(f, DOMAIN f)
Tally(c, S) == SumOf(c, S)
Total(c, S, f(_)) == SumOf([s \in S |-> c[s] * f(s)], S)
Filled(c) == {s \in DOMAIN c : c[s] > 0}

(* The elements of S in order, and numbers in order. *)
InOrder(S, Before(_, _)) ==
    [n \in 1 .. Cardinality(S) |->
        CHOOSE x \in S : Cardinality({y \in S : Before(y, x)}) + 1 = n]
Ascending(S) == InOrder(S, LAMBDA x, y : x < y)

(* The elements of s at the places I. *)
At(s, I) == [n \in 1 .. Cardinality(I) |-> s[Ascending(I)[n]]]

LastOf(s, n) == SubSeq(s, IF Len(s) > n THEN Len(s) - n + 1 ELSE 1, Len(s))
Abs(n) == IF n < 0 THEN -n ELSE n

None == -10000      \* Python's None where a number may be

(* Thousandths of ln n, to about a hundredth of itself: that of its half and *)
(* of two, or a little above that of the even number before it.              *)
Ln(n) ==
    LET ln[m \in 1 .. n] ==
            IF m = 1 THEN 0 ELSE IF m % 2 = 0 THEN 693 + ln[m \div 2]
            ELSE ln[m - 1] + 2000 \div (2 * m - 1)
    IN  ln[n]

Init ==
    /\ report \in DOMAIN Shape
    /\ corpus = [s \in Shape[report] |-> 0]

(* A row is stored.  Its time may be before that of others. *)
Capture(s) ==
    /\ corpus[s] < MaxEach
    /\ Tally(corpus, DOMAIN corpus) < MaxRows[report]
    /\ corpus' = [corpus EXCEPT ![s] = @ + 1]
    /\ UNCHANGED report

Next == \E s \in DOMAIN corpus : Capture(s)

Spec == Init /\ [][Next]_vars

=============================================================================
