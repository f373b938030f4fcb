--------------------------- MODULE NewsIntakeProofs ---------------------------
(***************************************************************************)
(* Dedup and rollback of the poller, alone and beside the push channel,    *)
(* for any articles, any feeds, any sizes of the memories and of a pass.   *)
(*                                                                         *)
(* The first part is about the memories, which are sequences without       *)
(* repetition; then follows what the filter loop of a pass does to them,   *)
(* and what a rollback does.                                               *)
(***************************************************************************)
EXTENDS NewsIntake, SequenceTheorems, FiniteSetTheorems, WellFoundedInduction, TLAPS

-----------------------------------------------------------------------------
(* Sequences. *)

\* No url, and no title, is remembered twice.
Distinct(s) == \A a, b \in DOMAIN s : s[a] = s[b] => a = b
DistinctKeys(t) == \A a, b \in DOMAIN t : t[a].key = t[b].key => a = b

\* r is s without its k-th element.
IsWithout(r, s, k) ==
    /\ k \in 1..Len(s)
    /\ Len(r) = Len(s) - 1
    /\ \A j \in 1..Len(r) : r[j] = IF j < k THEN s[j] ELSE s[j + 1]

\* A nonempty set of naturals has a least element.
LEMMA LeastElement ==
    ASSUME NEW S, S \subseteq Nat, S # {}
    PROVE  Min(S) \in S
<1>1. PICK k \in S : \A j \in S : ~ (<<j, k>> \in OpToRel(<, Nat))
  BY NatLessThanWellFounded, WFMin
<1>2. k \in S /\ \A j \in S : ~ (j < k)
  BY <1>1 DEF OpToRel
<1>3. \A j \in S : k <= j
  BY <1>2
<1> QED BY <1>2, <1>3 DEF Min

LEMMA RemoveAtDrops ==
    ASSUME NEW S, NEW s \in Seq(S), NEW k \in 1..Len(s)
    PROVE  RemoveAt(s, k) \in Seq(S) /\ IsWithout(RemoveAt(s, k), s, k)
<1> DEFINE u == SubSeq(s, 1, k - 1)
           v == SubSeq(s, k + 1, Len(s))
<1>1. Len(s) \in Nat /\ k \in Nat /\ \A i \in 1..Len(s) : s[i] \in S
  OBVIOUS
<1>2. u \in Seq(S) /\ Len(u) = k - 1 /\ \A i \in 1..k - 1 : u[i] = s[i]
  <2>1. \A i \in 1..k - 1 : s[i] \in S
    BY <1>1
  <2> QED BY <1>1, <2>1, SubSeqProperties
<1>3. v \in Seq(S) /\ Len(v) = Len(s) - k /\ \A i \in 1..Len(s) - k : v[i] = s[i + k]
  <2>1. \A i \in k + 1..Len(s) : s[i] \in S
    BY <1>1
  <2>2. Len(v) = IF k + 1 <= Len(s) THEN Len(s) - (k + 1) + 1 ELSE 0
    BY <1>1, <2>1, SubSeqProperties
  <2>3. v \in Seq(S) /\ \A i \in 1..Len(s) - (k + 1) + 1 : v[i] = s[(k + 1) + i - 1]
    BY <1>1, <2>1, SubSeqProperties
  <2> HIDE DEF v
  <2> QED BY <1>1, <2>2, <2>3
<1>4. RemoveAt(s, k) = u \o v
  BY DEF RemoveAt
<1> HIDE DEF u, v
<1>5. /\ u \o v \in Seq(S) /\ Len(u \o v) = Len(s) - 1
      /\ \A j \in 1..Len(s) - 1 : (u \o v)[j] = IF j < k THEN u[j] ELSE v[j - (k - 1)]
  BY <1>1, <1>2, <1>3, ConcatProperties
<1>6. ASSUME NEW j \in 1..Len(s) - 1
      PROVE  (u \o v)[j] = IF j < k THEN s[j] ELSE s[j + 1]
  <2>1. CASE j < k
    BY <1>1, <1>2, <1>5, <2>1
  <2>2. CASE ~(j < k)
    <3>1. j - (k - 1) \in 1..Len(s) - k /\ (j - (k - 1)) + k = j + 1
      BY <1>1, <2>2
    <3> QED BY <1>3, <1>5, <2>2, <3>1
  <2> QED BY <2>1, <2>2
<1> QED BY <1>4, <1>5, <1>6 DEF IsWithout

\* Discarding a key drops one element that is it, if there is one.
LEMMA DiscardDrops ==
    ASSUME NEW S, NEW s \in Seq(S), NEW e
    PROVE  /\ Discard(s, e) \in Seq(S)
           /\ \/ Discard(s, e) = s /\ \A i \in 1..Len(s) : s[i] # e
              \/ \E k \in 1..Len(s) : s[k] = e /\ IsWithout(Discard(s, e), s, k)
<1> DEFINE I == {i \in 1..Len(s) : s[i] = e}
<1>1. CASE I = {}
  BY <1>1 DEF Discard, RemoveFirst
<1>2. CASE I # {}
  <2>1. Min(I) \in I
    <3>1. I \subseteq Nat
      OBVIOUS
    <3> QED BY <1>2, <3>1, LeastElement
  <2>2. Discard(s, e) = RemoveAt(s, Min(I))
    BY <1>2 DEF Discard, RemoveFirst, SelectInSeq
  <2> QED BY <2>1, <2>2, RemoveAtDrops
<1> QED BY <1>1, <1>2

LEMMA ForgetTitleDrops ==
    ASSUME NEW S, NEW s \in Seq(S), NEW e
    PROVE  /\ ForgetTitle(s, e) \in Seq(S)
           /\ \/ ForgetTitle(s, e) = s /\ \A i \in 1..Len(s) : s[i].key # e
              \/ \E k \in 1..Len(s) : s[k].key = e /\ IsWithout(ForgetTitle(s, e), s, k)
<1> DEFINE I == {i \in 1..Len(s) : s[i].key = e}
<1>1. CASE I = {}
  BY <1>1 DEF ForgetTitle, RemoveFirstMatch
<1>2. CASE I # {}
  <2>1. Min(I) \in I
    <3>1. I \subseteq Nat
      OBVIOUS
    <3> QED BY <1>2, <3>1, LeastElement
  <2>2. ForgetTitle(s, e) = RemoveAt(s, Min(I))
    BY <1>2 DEF ForgetTitle, RemoveFirstMatch, SelectInSeq
  <2> QED BY <2>1, <2>2, RemoveAtDrops
<1> QED BY <1>1, <1>2

-----------------------------------------------------------------------------
(* The memory of urls. *)

\* u is among the n that were used last.
Recent(s, u, n) == \E p \in 1..Len(s) : s[p] = u /\ Len(s) - p < n

\* What is used last, when one more key has been used.
OneMoreUsed(s, r) == \A u : \A n \in Nat \ {0} : Recent(s, u, n) => Recent(r, u, n + 1)

LEMMA SetOfSeq ==
    ASSUME NEW S, NEW s \in Seq(S)
    PROVE  /\ DOMAIN s = 1..Len(s) /\ Len(s) \in Nat
           /\ ToSet(s) \subseteq S
           /\ \A x : x \in ToSet(s) <=> \E i \in 1..Len(s) : s[i] = x
BY DEF ToSet

\* Discarding: nothing but the key goes, and the others keep their order.
LEMMA DiscardProperties ==
    ASSUME NEW S, NEW s \in Seq(S), NEW e, Distinct(s)
    PROVE  /\ Discard(s, e) \in Seq(S) /\ Distinct(Discard(s, e))
           /\ ToSet(Discard(s, e)) = ToSet(s) \ {e}
           /\ Len(Discard(s, e)) = IF e \in ToSet(s) THEN Len(s) - 1 ELSE Len(s)
           /\ \A u : \A n \in Nat : u # e /\ Recent(s, u, n) => Recent(Discard(s, e), u, n)
<1> DEFINE r == Discard(s, e)
<1>1. r \in Seq(S)
  BY DiscardDrops
<1>2. CASE r = s /\ \A i \in 1..Len(s) : s[i] # e
  BY <1>1, <1>2, SetOfSeq
<1>3. ASSUME NEW k \in 1..Len(s), s[k] = e, IsWithout(r, s, k)
      PROVE  /\ Distinct(r) /\ ToSet(r) = ToSet(s) \ {e} /\ e \in ToSet(s) /\ Len(r) = Len(s) - 1
             /\ \A u : \A n \in Nat : u # e /\ Recent(s, u, n) => Recent(r, u, n)
  <2> HIDE DEF r
  <2>1. /\ DOMAIN s = 1..Len(s) /\ Len(s) \in Nat /\ DOMAIN r = 1..Len(r) /\ Len(r) \in Nat
        /\ Len(r) = Len(s) - 1
        /\ \A j \in 1..Len(r) : r[j] = IF j < k THEN s[j] ELSE s[j + 1]
    BY <1>1, <1>3, SetOfSeq DEF IsWithout
  <2>2. Distinct(r)
    <3> SUFFICES ASSUME NEW a \in 1..Len(r), NEW b \in 1..Len(r), r[a] = r[b] PROVE a = b
      BY <2>1 DEF Distinct
    <3> DEFINE f(j) == IF j < k THEN j ELSE j + 1
    <3>1. f(a) \in 1..Len(s) /\ f(b) \in 1..Len(s) /\ s[f(a)] = s[f(b)]
      BY <2>1
    <3>2. f(a) = f(b)
      BY <2>1, <3>1 DEF Distinct
    <3> QED BY <3>2
  <2>3. ASSUME NEW p \in 1..Len(s), s[p] # e
        PROVE  \E q \in 1..Len(r) : r[q] = s[p] /\ Len(r) - q <= Len(s) - p
    <3>1. CASE p < k
      <4>1. p \in 1..Len(r) /\ r[p] = s[p]
        BY <2>1, <3>1
      <4> QED BY <2>1, <4>1
    <3>2. CASE p > k
      <4>1. p - 1 \in 1..Len(r) /\ ~(p - 1 < k) /\ (p - 1) + 1 = p
        BY <2>1, <3>2
      <4>2. r[p - 1] = s[p]
        BY <2>1, <4>1
      <4> QED BY <2>1, <4>1, <4>2
    <3> QED BY <1>3, <2>3, <3>1, <3>2
  <2>4. ASSUME NEW q \in 1..Len(r)
        PROVE  r[q] # e /\ \E p \in 1..Len(s) : s[p] = r[q]
    <3> DEFINE p == IF q < k THEN q ELSE q + 1
    <3>1. p \in 1..Len(s) /\ p # k /\ r[q] = s[p]
      BY <2>1
    <3>2. s[p] # s[k]
      BY <2>1, <3>1 DEF Distinct
    <3> QED BY <1>3, <3>1, <3>2
  <2>5. ToSet(r) = ToSet(s) \ {e}
    <3>1. ASSUME NEW x \in ToSet(r) PROVE x \in ToSet(s) \ {e}
      BY <1>1, <2>4, SetOfSeq
    <3>2. ASSUME NEW x \in ToSet(s), x # e PROVE x \in ToSet(r)
      <4>1. PICK p \in 1..Len(s) : s[p] = x
        BY SetOfSeq
      <4> QED BY <1>1, <2>3, <3>2, <4>1, SetOfSeq
    <3> QED BY <3>1, <3>2
  <2>6. e \in ToSet(s)
    BY <1>3, SetOfSeq
  <2>7. ASSUME NEW u, NEW n \in Nat, u # e, Recent(s, u, n)
        PROVE  Recent(r, u, n)
    <3>1. PICK p \in 1..Len(s) : s[p] = u /\ Len(s) - p < n
      BY <2>7 DEF Recent
    <3>2. PICK q \in 1..Len(r) : r[q] = u /\ Len(r) - q <= Len(s) - p
      BY <2>3, <2>7, <3>1
    <3> QED BY <3>1, <3>2 DEF Recent
  <2> QED BY <2>1, <2>2, <2>5, <2>6, <2>7
<1> QED BY <1>1, <1>2, <1>3, DiscardDrops

\* Moving a key to the end.
LEMMA TouchProperties ==
    ASSUME NEW S, NEW s \in Seq(S), NEW e \in S, Distinct(s)
    PROVE  /\ Touch(s, e) \in Seq(S) /\ Distinct(Touch(s, e))
           /\ ToSet(Touch(s, e)) = ToSet(s) \cup {e}
           /\ Len(Touch(s, e)) = IF e \in ToSet(s) THEN Len(s) ELSE Len(s) + 1
           /\ Touch(s, e)[Len(Touch(s, e))] = e
           /\ OneMoreUsed(s, Touch(s, e))
<1> DEFINE d == Discard(s, e)
           r == Touch(s, e)
<1>1. /\ d \in Seq(S) /\ Distinct(d) /\ ToSet(d) = ToSet(s) \ {e}
      /\ Len(d) = IF e \in ToSet(s) THEN Len(s) - 1 ELSE Len(s)
      /\ \A u : \A n \in Nat : u # e /\ Recent(s, u, n) => Recent(d, u, n)
  BY DiscardProperties
<1>2. r = Append(d, e)
  BY DEF Touch
<1> HIDE DEF d, r
<1>3. /\ r \in Seq(S) /\ Len(r) = Len(d) + 1 /\ r[Len(r)] = e
      /\ \A i \in 1..Len(d) : r[i] = d[i]
  BY <1>1, <1>2, AppendProperties
<1>4. Len(s) \in Nat /\ Len(d) \in Nat /\ DOMAIN d = 1..Len(d) /\ DOMAIN r = 1..Len(r)
  BY <1>1, <1>3, SetOfSeq
<1>5. \A i \in 1..Len(d) : d[i] # e
  BY <1>1, SetOfSeq
<1>6. Distinct(r)
  <2> SUFFICES ASSUME NEW a \in 1..Len(r), NEW b \in 1..Len(r), r[a] = r[b] PROVE a = b
    BY <1>4 DEF Distinct
  <2>1. CASE a = Len(r) \/ b = Len(r)
    BY <1>3, <1>4, <1>5, <2>1
  <2>2. CASE a # Len(r) /\ b # Len(r)
    <3>1. a \in 1..Len(d) /\ b \in 1..Len(d)
      BY <1>3, <1>4, <2>2
    <3>2. d[a] = d[b]
      BY <1>3, <3>1
    <3> QED BY <1>1, <1>4, <3>1, <3>2 DEF Distinct
  <2> QED BY <2>1, <2>2
<1>7. ToSet(r) = ToSet(s) \cup {e}
  <2>1. ASSUME NEW x \in ToSet(r) PROVE x \in ToSet(s) \cup {e}
    <3>1. PICK i \in 1..Len(r) : r[i] = x
      BY <1>3, SetOfSeq
    <3>2. CASE i = Len(r)
      BY <1>3, <3>1, <3>2
    <3>3. CASE i \in 1..Len(d)
      BY <1>1, <1>3, <3>1, <3>3, SetOfSeq
    <3> QED BY <1>3, <1>4, <3>1, <3>2, <3>3
  <2>2. ASSUME NEW x \in ToSet(d) PROVE x \in ToSet(r)
    <3>1. PICK i \in 1..Len(d) : d[i] = x
      BY <1>1, SetOfSeq
    <3>2. i \in 1..Len(r)
      BY <1>3, <1>4
    <3> QED BY <1>3, <3>1, <3>2, SetOfSeq
  <2>3. e \in ToSet(r)
    <3>1. Len(r) \in 1..Len(r)
      BY <1>3, <1>4
    <3> QED BY <1>3, <3>1, SetOfSeq
  <2> QED BY <1>1, <2>1, <2>2, <2>3
<1>8. ASSUME NEW u, NEW n \in Nat \ {0}, Recent(s, u, n)
      PROVE  Recent(r, u, n + 1)
  <2>1. CASE u = e
    <3>1. Len(r) \in 1..Len(r) /\ Len(r) - Len(r) < n + 1
      BY <1>3, <1>4
    <3> QED BY <1>3, <2>1, <3>1 DEF Recent
  <2>2. CASE u # e
    <3>1. PICK p \in 1..Len(d) : d[p] = u /\ Len(d) - p < n
      BY <1>1, <1>8, <2>2 DEF Recent
    <3>2. p \in 1..Len(r) /\ r[p] = u /\ Len(r) - p < n + 1
      BY <1>3, <1>4, <3>1
    <3> QED BY <3>2 DEF Recent
  <2> QED BY <2>1, <2>2
<1>9. Len(r) = IF e \in ToSet(s) THEN Len(s) ELSE Len(s) + 1
  BY <1>1, <1>3, <1>4
<1> QED BY <1>3, <1>6, <1>7, <1>8, <1>9 DEF r, OneMoreUsed

\* Forgetting the oldest.
LEMMA TailProperties ==
    ASSUME NEW S, NEW s \in Seq(S), s # <<>>
    PROVE  /\ Tail(s) \in Seq(S) /\ Len(Tail(s)) = Len(s) - 1
           /\ \A i \in 1..Len(s) - 1 : Tail(s)[i] = s[i + 1]
           /\ ToSet(Tail(s)) \subseteq ToSet(s)
           /\ Distinct(s) => Distinct(Tail(s))
<1>1. /\ Tail(s) \in Seq(S) /\ Len(Tail(s)) = Len(s) - 1 /\ Len(s) \in Nat
      /\ \A i \in 1..Len(s) - 1 : Tail(s)[i] = s[i + 1]
  BY HeadTailProperties, SetOfSeq
<1>2. ToSet(Tail(s)) \subseteq ToSet(s)
  <2> SUFFICES ASSUME NEW x \in ToSet(Tail(s)) PROVE x \in ToSet(s)
    OBVIOUS
  <2>1. PICK i \in 1..Len(s) - 1 : Tail(s)[i] = x
    BY <1>1, SetOfSeq
  <2>2. i + 1 \in 1..Len(s) /\ s[i + 1] = x
    BY <1>1, <2>1
  <2> QED BY <2>2, SetOfSeq
<1>3. ASSUME Distinct(s) PROVE Distinct(Tail(s))
  <2> SUFFICES ASSUME NEW a \in 1..Len(s) - 1, NEW b \in 1..Len(s) - 1, Tail(s)[a] = Tail(s)[b]
               PROVE  a = b
    BY <1>1, SetOfSeq DEF Distinct
  <2>1. a + 1 \in 1..Len(s) /\ b + 1 \in 1..Len(s) /\ s[a + 1] = s[b + 1]
    BY <1>1
  <2>2. a + 1 = b + 1
    BY <1>3, <2>1, SetOfSeq DEF Distinct
  <2> QED BY <2>2
<1> QED BY <1>1, <1>2, <1>3

\* Adding a key: it is remembered, and the oldest goes if the memory is full;
\* what was among the n last used is among the n + 1.
LEMMA AddProperties ==
    ASSUME NEW S, NEW s \in Seq(S), NEW e \in S, Distinct(s), Len(s) <= SeenCap
    PROVE  /\ Add(s, e) \in Seq(S) /\ Distinct(Add(s, e)) /\ Len(Add(s, e)) <= SeenCap
           /\ ToSet(Add(s, e)) \subseteq ToSet(s) \cup {e}
           /\ Recent(Add(s, e), e, 1)
           /\ \A u : \A n \in Nat \ {0} :
                n < SeenCap /\ Recent(s, u, n) => Recent(Add(s, e), u, n + 1)
           /\ Add(s, e) = Touch(s, e) \/ Len(Touch(s, e)) > SeenCap
<1> DEFINE t == Touch(s, e)
           r == Add(s, e)
<1>1. /\ t \in Seq(S) /\ Distinct(t) /\ ToSet(t) = ToSet(s) \cup {e}
      /\ Len(t) = IF e \in ToSet(s) THEN Len(s) ELSE Len(s) + 1
      /\ t[Len(t)] = e
      /\ OneMoreUsed(s, t)
  BY TouchProperties
<1>2. r = IF Len(t) > SeenCap THEN Tail(t) ELSE t
  BY DEF Add
<1>3. SeenCap \in Nat \ {0} /\ Len(s) \in Nat /\ Len(t) \in Nat
  BY <1>1, PollerAssumption, SetOfSeq
<1>4. CASE Len(t) <= SeenCap
  <2>1. r = t
    BY <1>2, <1>3, <1>4
  <2>2. Len(t) \in 1..Len(t) /\ Len(t) - Len(t) < 1
    <3>1. Len(t) # 0
      <4>1. e \in ToSet(t)
        BY <1>1
      <4> QED BY <1>1, <4>1, SetOfSeq
    <3> QED BY <1>3, <3>1
  <2>3. Recent(t, e, 1)
    BY <1>1, <2>2 DEF Recent
  <2> QED BY <1>1, <1>4, <2>1, <2>3 DEF OneMoreUsed
<1>5. CASE Len(t) > SeenCap
  <2> HIDE DEF t, r
  <2>1. r = Tail(t) /\ t # <<>> /\ Len(t) = SeenCap + 1
    BY <1>1, <1>2, <1>3, <1>5
  <2>2. /\ r \in Seq(S) /\ Len(r) = SeenCap /\ Distinct(r) /\ ToSet(r) \subseteq ToSet(t)
        /\ \A i \in 1..SeenCap : r[i] = t[i + 1]
    BY <1>1, <1>3, <2>1, TailProperties
  <2>3. Recent(r, e, 1)
    <3>1. SeenCap \in 1..Len(r) /\ r[SeenCap] = e /\ Len(r) - SeenCap < 1
      BY <1>1, <1>3, <2>1, <2>2
    <3> QED BY <3>1 DEF Recent
  <2>4. ASSUME NEW u, NEW n \in Nat \ {0}, n < SeenCap, Recent(s, u, n)
        PROVE  Recent(r, u, n + 1)
    <3>1. PICK p \in 1..Len(t) : t[p] = u /\ Len(t) - p < n + 1
      BY <1>1, <2>4 DEF OneMoreUsed, Recent
    <3>2. p - 1 \in 1..Len(r) /\ (p - 1) + 1 = p /\ Len(r) - (p - 1) < n + 1
      BY <1>3, <2>1, <2>2, <2>4, <3>1
    <3>3. r[p - 1] = u
      BY <2>2, <3>1, <3>2
    <3> QED BY <3>2, <3>3 DEF Recent
  <2> QED BY <1>1, <1>3, <1>5, <2>2, <2>3, <2>4 DEF t, r
<1> QED BY <1>3, <1>4, <1>5

\* A memory that could hold all keys never forgets one to make room.
LEMMA NoRepetitionNoOverflow ==
    ASSUME NEW S, IsFiniteSet(S), NEW s \in Seq(S), Distinct(s)
    PROVE  Len(s) <= Cardinality(S)
<1>1. Len(s) \in Nat /\ s \in [1..Len(s) -> S] /\ DOMAIN s = 1..Len(s)
  BY LenProperties
<1>2. s \in Injection(1..Len(s), S)
  BY <1>1 DEF Distinct, Injection, IsInjective
<1>3. Cardinality(1..Len(s)) <= Cardinality(S)
  BY <1>2, FS_Injection
<1>4. Cardinality(1..Len(s)) = Len(s)
  BY <1>1, FS_Interval
<1> QED BY <1>3, <1>4

LEMMA AddKeepsAll ==
    ASSUME NEW S, IsFiniteSet(S), Cardinality(S) <= SeenCap,
           NEW s \in Seq(S), NEW e \in S, Distinct(s)
    PROVE  ToSet(Add(s, e)) = ToSet(s) \cup {e}
<1>1. /\ Touch(s, e) \in Seq(S) /\ Distinct(Touch(s, e)) /\ ToSet(Touch(s, e)) = ToSet(s) \cup {e}
      /\ Len(Touch(s, e)) \in Nat
  BY TouchProperties, SetOfSeq
<1>2. Len(Touch(s, e)) <= Cardinality(S) /\ Cardinality(S) \in Nat
  BY <1>1, NoRepetitionNoOverflow, FS_CardinalityType
<1>3. ~(Len(Touch(s, e)) > SeenCap)
  BY <1>1, <1>2, PollerAssumption
<1> QED BY <1>1, <1>3 DEF Add

-----------------------------------------------------------------------------
(* The memory of titles. *)

LEMMA ForgetTitleProperties ==
    ASSUME NEW S, NEW s \in Seq(S), NEW e, DistinctKeys(s)
    PROVE  /\ ForgetTitle(s, e) \in Seq(S) /\ DistinctKeys(ForgetTitle(s, e))
           /\ ToSet(ForgetTitle(s, e)) = {x \in ToSet(s) : x.key # e}
           /\ Len(ForgetTitle(s, e)) <= Len(s)
<1> DEFINE r == ForgetTitle(s, e)
<1>1. r \in Seq(S)
  BY ForgetTitleDrops
<1>2. CASE r = s /\ \A i \in 1..Len(s) : s[i].key # e
  <2>1. \A x \in ToSet(s) : x.key # e
    BY <1>2, SetOfSeq
  <2> QED BY <1>1, <1>2, <2>1, SetOfSeq
<1>3. ASSUME NEW k \in 1..Len(s), s[k].key = e, IsWithout(r, s, k)
      PROVE  /\ DistinctKeys(r) /\ ToSet(r) = {x \in ToSet(s) : x.key # e}
             /\ Len(r) <= Len(s)
  <2> HIDE DEF r
  <2>1. /\ DOMAIN s = 1..Len(s) /\ Len(s) \in Nat /\ DOMAIN r = 1..Len(r) /\ Len(r) \in Nat
        /\ Len(r) = Len(s) - 1
        /\ \A j \in 1..Len(r) : r[j] = IF j < k THEN s[j] ELSE s[j + 1]
    BY <1>1, <1>3, SetOfSeq DEF IsWithout
  <2>2. ASSUME NEW q \in 1..Len(r)
        PROVE  LET p == IF q < k THEN q ELSE q + 1 IN p \in 1..Len(s) /\ p # k /\ r[q] = s[p]
    BY <2>1
  <2>3. DistinctKeys(r)
    <3> SUFFICES ASSUME NEW a \in 1..Len(r), NEW b \in 1..Len(r), r[a].key = r[b].key PROVE a = b
      BY <2>1 DEF DistinctKeys
    <3> DEFINE f(j) == IF j < k THEN j ELSE j + 1
    <3>1. f(a) \in 1..Len(s) /\ f(b) \in 1..Len(s) /\ s[f(a)].key = s[f(b)].key
      BY <2>2
    <3>2. f(a) = f(b)
      BY <2>1, <3>1 DEF DistinctKeys
    <3> QED BY <3>2
  <2>4. ASSUME NEW x \in ToSet(s), x.key # e
        PROVE  x \in ToSet(r)
    <3>1. PICK p \in 1..Len(s) : s[p] = x
      BY SetOfSeq
    <3>2. p # k
      BY <1>3, <2>4, <3>1
    <3>3. CASE p < k
      <4>1. p \in 1..Len(r) /\ r[p] = x
        BY <2>1, <3>1, <3>3
      <4> QED BY <1>1, <4>1, SetOfSeq
    <3>4. CASE p > k
      <4>1. p - 1 \in 1..Len(r) /\ ~(p - 1 < k) /\ (p - 1) + 1 = p
        BY <2>1, <3>4
      <4>2. r[p - 1] = x
        BY <2>1, <3>1, <4>1
      <4> QED BY <1>1, <4>1, <4>2, SetOfSeq
    <3> QED BY <2>1, <3>2, <3>3, <3>4
  <2>5. ASSUME NEW x \in ToSet(r)
        PROVE  x \in ToSet(s) /\ x.key # e
    <3>1. PICK q \in 1..Len(r) : r[q] = x
      BY <1>1, SetOfSeq
    <3> DEFINE p == IF q < k THEN q ELSE q + 1
    <3>2. p \in 1..Len(s) /\ p # k /\ s[p] = x
      BY <2>2, <3>1
    <3>3. s[p].key # s[k].key
      BY <2>1, <3>2 DEF DistinctKeys
    <3> QED BY <1>3, <3>2, <3>3, SetOfSeq
  <2> QED BY <2>1, <2>3, <2>4, <2>5
<1> QED BY <1>1, <1>2, <1>3, ForgetTitleDrops

\* Recording a title replaces its sighting, and the oldest goes if the memory
\* is full: only if titles enough to fill it exist.
LEMMA RecordTitleProperties ==
    ASSUME NEW S, NEW s \in Seq(S), NEW x \in S, DistinctKeys(s), Len(s) <= TitleCap
    PROVE  /\ RecordTitle(s, x) \in Seq(S) /\ DistinctKeys(RecordTitle(s, x))
           /\ Len(RecordTitle(s, x)) <= TitleCap
           /\ x \in ToSet(RecordTitle(s, x))
           /\ ToSet(RecordTitle(s, x)) \subseteq {y \in ToSet(s) : y.key # x.key} \cup {x}
           /\ \/ ToSet(RecordTitle(s, x)) = {y \in ToSet(s) : y.key # x.key} \cup {x}
              \/ \E t \in Seq(S) : DistinctKeys(t) /\ Len(t) > TitleCap
<1> DEFINE d == ForgetTitle(s, x.key)
           t == Append(d, x)
           r == RecordTitle(s, x)
<1>1. /\ d \in Seq(S) /\ DistinctKeys(d) /\ ToSet(d) = {y \in ToSet(s) : y.key # x.key}
      /\ Len(d) <= Len(s)
  BY ForgetTitleProperties
<1>2. r = IF Len(t) > TitleCap THEN Tail(t) ELSE t
  BY DEF RecordTitle
<1> HIDE DEF d, r
<1>3. /\ t \in Seq(S) /\ Len(t) = Len(d) + 1 /\ t[Len(t)] = x
      /\ \A i \in 1..Len(d) : t[i] = d[i]
  BY <1>1, AppendProperties
<1> HIDE DEF t
<1>4. /\ Len(s) \in Nat /\ Len(d) \in Nat /\ DOMAIN d = 1..Len(d) /\ DOMAIN t = 1..Len(t)
      /\ TitleCap \in Nat \ {0}
  BY <1>1, <1>3, SetOfSeq, PollerAssumption
<1>5. \A i \in 1..Len(d) : d[i].key # x.key
  BY <1>1, SetOfSeq
<1>6. DistinctKeys(t)
  <2> SUFFICES ASSUME NEW a \in 1..Len(t), NEW b \in 1..Len(t), t[a].key = t[b].key PROVE a = b
    BY <1>4 DEF DistinctKeys
  <2>1. CASE a = Len(t) /\ b # Len(t)
    <3>1. b \in 1..Len(d)
      BY <1>3, <1>4, <2>1
    <3>2. t[b].key # x.key
      BY <1>3, <1>5, <3>1
    <3> QED BY <1>3, <2>1, <3>2
  <2>2. CASE b = Len(t) /\ a # Len(t)
    <3>1. a \in 1..Len(d)
      BY <1>3, <1>4, <2>2
    <3>2. t[a].key # x.key
      BY <1>3, <1>5, <3>1
    <3> QED BY <1>3, <2>2, <3>2
  <2>3. CASE a # Len(t) /\ b # Len(t)
    <3>1. a \in 1..Len(d) /\ b \in 1..Len(d)
      BY <1>3, <1>4, <2>3
    <3>2. d[a].key = d[b].key
      BY <1>3, <3>1
    <3> QED BY <1>1, <1>4, <3>1, <3>2 DEF DistinctKeys
  <2> QED BY <2>1, <2>2, <2>3
<1>7. ToSet(t) = ToSet(d) \cup {x}
  <2>1. ASSUME NEW y \in ToSet(t) PROVE y \in ToSet(d) \cup {x}
    <3>1. PICK i \in 1..Len(t) : t[i] = y
      BY <1>3, SetOfSeq
    <3>2. CASE i = Len(t)
      BY <1>3, <3>1, <3>2
    <3>3. CASE i \in 1..Len(d)
      BY <1>1, <1>3, <3>1, <3>3, SetOfSeq
    <3> QED BY <1>3, <1>4, <3>1, <3>2, <3>3
  <2>2. ASSUME NEW y \in ToSet(d) PROVE y \in ToSet(t)
    <3>1. PICK i \in 1..Len(d) : d[i] = y
      BY <1>1, SetOfSeq
    <3>2. i \in 1..Len(t)
      BY <1>3, <1>4
    <3> QED BY <1>3, <3>1, <3>2, SetOfSeq
  <2>3. x \in ToSet(t)
    <3>1. Len(t) \in 1..Len(t)
      BY <1>3, <1>4
    <3> QED BY <1>3, <3>1, SetOfSeq
  <2> QED BY <2>1, <2>2, <2>3
<1>8. CASE Len(t) <= TitleCap
  <2>1. r = t
    BY <1>2, <1>3, <1>4, <1>8
  <2> QED BY <1>1, <1>3, <1>6, <1>7, <1>8, <2>1 DEF r
<1>9. CASE Len(t) > TitleCap
  <2>1. r = Tail(t) /\ t # <<>> /\ Len(t) = TitleCap + 1
    BY <1>1, <1>2, <1>3, <1>4, <1>9
  <2>2. /\ r \in Seq(S) /\ Len(r) = TitleCap /\ ToSet(r) \subseteq ToSet(t)
        /\ \A i \in 1..TitleCap : r[i] = t[i + 1]
    BY <1>3, <1>4, <2>1, TailProperties
  <2>3. DistinctKeys(r)
    <3> SUFFICES ASSUME NEW a \in 1..TitleCap, NEW b \in 1..TitleCap, r[a].key = r[b].key
                 PROVE  a = b
      BY <2>2, SetOfSeq DEF DistinctKeys
    <3>1. a + 1 \in 1..Len(t) /\ b + 1 \in 1..Len(t) /\ t[a + 1].key = t[b + 1].key
      BY <1>4, <2>1, <2>2
    <3>2. a + 1 = b + 1
      BY <1>4, <1>6, <3>1 DEF DistinctKeys
    <3> QED BY <1>4, <3>2
  <2>4. x \in ToSet(r)
    <3>1. TitleCap \in 1..Len(r) /\ r[TitleCap] = x
      BY <1>3, <1>4, <2>1, <2>2
    <3> QED BY <2>2, <3>1, SetOfSeq
  <2> QED BY <1>1, <1>3, <1>4, <1>6, <1>7, <1>9, <2>2, <2>3, <2>4 DEF r
<1> QED BY <1>3, <1>4, <1>8, <1>9

\* A memory of titles that could hold all of them.
Titles == {TitleOf[i] : i \in Item} \ {NoTitle}
Sightings == [key : Titles, at : 0..MaxTime]
TitlesFit == IsFiniteSet(Titles) /\ Cardinality(Titles) <= TitleCap

LEMMA RecordKeepsAll ==
    ASSUME TitlesFit, NEW s \in Seq(Sightings), NEW x \in Sightings, DistinctKeys(s),
           Len(s) <= TitleCap
    PROVE  ToSet(RecordTitle(s, x)) = {y \in ToSet(s) : y.key # x.key} \cup {x}
<1>1. ASSUME NEW t \in Seq(Sightings), DistinctKeys(t)
      PROVE  ~(Len(t) > TitleCap)
  <2> DEFINE k == [i \in 1..Len(t) |-> t[i].key]
  <2>0. Len(t) \in Nat /\ DOMAIN t = 1..Len(t)
    BY SetOfSeq
  <2>1. \A i \in 1..Len(t) : t[i].key \in Titles
    <3>1. \A i \in 1..Len(t) : t[i] \in Sightings
      OBVIOUS
    <3> QED BY <3>1 DEF Sightings
  <2>2. k \in [1..Len(t) -> Titles] /\ \A i, j \in 1..Len(t) : k[i] = k[j] => i = j
    BY <1>1, <2>0, <2>1 DEF DistinctKeys
  <2> HIDE DEF k
  <2>3. k \in Injection(1..Len(t), Titles)
    BY <2>2 DEF Injection, IsInjective
  <2>4. Cardinality(1..Len(t)) <= Cardinality(Titles) /\ Cardinality(Titles) \in Nat
    BY <2>3, FS_Injection, FS_CardinalityType DEF TitlesFit
  <2>5. Cardinality(1..Len(t)) = Len(t)
    <3>1. Len(t) \in Nat /\ 1 \in Int /\ Len(t) \in Int
      BY <2>0
    <3>2. Cardinality(1..Len(t)) = IF 1 > Len(t) THEN 0 ELSE Len(t) - 1 + 1
      BY <3>1, FS_Interval
    <3> QED BY <3>1, <3>2
  <2> QED BY <2>0, <2>4, <2>5, PollerAssumption DEF TitlesFit
<1> QED BY <1>1, RecordTitleProperties

-----------------------------------------------------------------------------
(* The filter loop. *)

Urls == {UrlOf[i] : i \in Item}

\* The two memories of the poller, or of a pass that is filtering.
MemoryOK(st) ==
    /\ st.seen \in Seq(Urls) /\ Distinct(st.seen) /\ Len(st.seen) <= SeenCap
    /\ st.titles \in Seq(Sightings) /\ DistinctKeys(st.titles) /\ Len(st.titles) <= TitleCap

Memory == [seen |-> seen, titles |-> titles]

\* A state of the loop.
States == [seen : Seq(Urls), titles : Seq(Sightings), new : Seq(Item)]

\* g is the function of the loop's states up to the n-th item.
IsRun(g, served, n) ==
    g = [i \in 0..n |-> IF i = 0 THEN [seen |-> seen, titles |-> titles, new |-> <<>>]
                        ELSE Consider(g[i - 1], served[i])]

\* Induction for a set of naturals.
LEMMA SetInduction ==
    ASSUME NEW S, 0 \in S, \A n \in Nat : n \in S => n + 1 \in S
    PROVE  \A n \in Nat : n \in S
<1> DEFINE bad == {n \in Nat : n \notin S}
<1>1. ASSUME bad # {}
      PROVE  FALSE
  <2>1. bad \subseteq Nat
    OBVIOUS
  <2>3. PICK j \in bad : \A i \in bad : ~ (<<i, j>> \in OpToRel(<, Nat))
    BY <1>1, <2>1, NatLessThanWellFounded, WFMin
  <2>4. j \in bad /\ \A i \in bad : ~ (i < j)
    BY <2>1, <2>3 DEF OpToRel
  <2>5. j \in Nat /\ j # 0 /\ j \notin S
    BY <2>4
  <2>6. j - 1 \in Nat /\ j - 1 < j /\ (j - 1) + 1 = j
    BY <2>5
  <2>7. j - 1 \in S
    BY <2>4, <2>6
  <2> QED BY <2>5, <2>6, <2>7
<1> QED BY <1>1

\* The loop has states: the recursive definition in Filter defines a function.
LEMMA RunsExist ==
    ASSUME NEW served
    PROVE  \A n \in Nat : \E g : IsRun(g, served, n)
<1> DEFINE start == [seen |-> seen, titles |-> titles, new |-> <<>>]
           S == {n \in Nat : \E g : IsRun(g, served, n)}
<1>1. 0 \in S
  <2>1. IsRun([i \in 0..0 |-> start], served, 0)
    BY DEF IsRun
  <2> QED BY <2>1
<1>2. ASSUME NEW n \in Nat, n \in S
      PROVE  n + 1 \in S
  <2>1. PICK g : IsRun(g, served, n)
    BY <1>2
  <2> DEFINE h == [i \in 0..(n + 1) |-> IF i = n + 1 THEN Consider(g[n], served[n + 1]) ELSE g[i]]
  <2>2. \A i \in 0..n : g[i] = IF i = 0 THEN start ELSE Consider(g[i - 1], served[i])
    BY <2>1 DEF IsRun
  <2>3. ASSUME NEW i \in 0..(n + 1)
        PROVE  h[i] = IF i = 0 THEN start ELSE Consider(h[i - 1], served[i])
    <3>1. CASE i = n + 1
      <4>1. i - 1 = n /\ n \in 0..(n + 1) /\ n # n + 1 /\ i # 0
        BY <3>1
      <4>2. h[i - 1] = g[n] /\ h[i] = Consider(g[n], served[i])
        BY <3>1, <4>1
      <4> QED BY <4>1, <4>2
    <3>2. CASE i \in 0..n
      <4>1. i # n + 1 /\ (i # 0 => i - 1 \in 0..(n + 1) /\ i - 1 # n + 1)
        BY <3>2
      <4>2. h[i] = g[i] /\ (i # 0 => h[i - 1] = g[i - 1])
        BY <4>1
      <4> QED BY <2>2, <3>2, <4>2
    <3> QED BY <3>1, <3>2
  <2>4. h = [i \in 0..(n + 1) |-> IF i = 0 THEN start ELSE Consider(h[i - 1], served[i])]
    <3> DEFINE f == [i \in 0..(n + 1) |-> IF i = 0 THEN start ELSE Consider(h[i - 1], served[i])]
    <3>1. \A i \in 0..(n + 1) : h[i] = f[i]
      BY <2>3
    <3> QED BY <3>1
  <2>5. IsRun(h, served, n + 1)
    BY <2>4 DEF IsRun
  <2> QED BY <2>5
<1> HIDE DEF S
<1>3. \A n \in Nat : n \in S
  BY <1>1, <1>2, SetInduction
<1> QED BY <1>3 DEF S

\* What the loop leaves is its last state.
LEMMA FilterIsLast ==
    ASSUME NEW served, Len(served) \in Nat
    PROVE  \E g : /\ Filter(served) = g[Len(served)]
                  /\ g[0] = [seen |-> seen, titles |-> titles, new |-> <<>>]
                  /\ \A i \in 1..Len(served) : g[i] = Consider(g[i - 1], served[i])
<1> DEFINE g == CHOOSE h : IsRun(h, served, Len(served))
<1>1. IsRun(g, served, Len(served))
  BY RunsExist
<1>2. Filter(served) = g[Len(served)]
  BY DEF Filter, IsRun
<1> HIDE DEF g
<1>3. \A i \in 0..Len(served) : g[i] = IF i = 0 THEN [seen |-> seen, titles |-> titles, new |-> <<>>]
                                       ELSE Consider(g[i - 1], served[i])
  BY <1>1 DEF IsRun
<1>4. g[0] = [seen |-> seen, titles |-> titles, new |-> <<>>]
  <2>1. 0 \in 0..Len(served)
    OBVIOUS
  <2> QED BY <1>3, <2>1
<1>5. ASSUME NEW i \in 1..Len(served)
      PROVE  g[i] = Consider(g[i - 1], served[i])
  <2>1. i \in 0..Len(served) /\ i # 0
    OBVIOUS
  <2> QED BY <1>3, <2>1
<1> QED BY <1>2, <1>4, <1>5

\* The four ways an item may go.
SeenItem(st, r, i) ==
    UrlOf[i] \in ToSet(st.seen) /\ r = [st EXCEPT !.seen = Touch(@, UrlOf[i])]
StoredItem(st, r, i) ==
    i \in stored /\ r = [st EXCEPT !.seen = Add(@, UrlOf[i])]
RepeatedTitle(st, r, i) ==
    /\ TitleWindow > 0 /\ TitleOf[i] # NoTitle
    /\ \E old \in ToSet(st.titles) :
        /\ old.key = TitleOf[i]
        /\ r = [st EXCEPT !.seen = Add(@, UrlOf[i]), !.titles = RecordTitle(@, old)]
NewItem(st, r, i) ==
    /\ UrlOf[i] \notin ToSet(st.seen) /\ i \notin stored
    /\ r.seen = Add(st.seen, UrlOf[i]) /\ r.new = Append(st.new, i)
    /\ \/ ~(TitleWindow > 0 /\ TitleOf[i] # NoTitle) /\ r.titles = st.titles
       \/ /\ TitleWindow > 0 /\ TitleOf[i] # NoTitle
          /\ \A s \in ToSet(st.titles) : s.key = TitleOf[i] => ~WithinWindow(s.at)
          /\ r.titles = RecordTitle(st.titles, [key |-> TitleOf[i], at |-> now])

LEMMA ConsiderCases ==
    ASSUME NEW st, NEW i \in Item
    PROVE  LET r == Consider(st, i) IN
           \/ SeenItem(st, r, i) \/ StoredItem(st, r, i)
           \/ RepeatedTitle(st, r, i) \/ NewItem(st, r, i)
<1> DEFINE r == Consider(st, i)
<1>1. CASE Has(st.seen, UrlOf[i])
  BY <1>1 DEF Consider, SkipSeen, SeenItem, Has
<1>2. CASE ~Has(st.seen, UrlOf[i]) /\ i \in stored
  BY <1>2 DEF Consider, SkipStored, StoredItem
<1>3. CASE ~Has(st.seen, UrlOf[i]) /\ i \notin stored /\ IsDuplicateTitle(st.titles, TitleOf[i])
  <2> DEFINE old == CHOOSE s \in Sighting(st.titles, TitleOf[i]) : TRUE
  <2>1. r = [st EXCEPT !.seen = Add(@, UrlOf[i]), !.titles = RecordTitle(@, old)]
    BY <1>3 DEF Consider, SkipTitle
  <2>2. TitleWindow > 0 /\ TitleOf[i] # NoTitle /\ Sighting(st.titles, TitleOf[i]) # {}
    BY <1>3 DEF IsDuplicateTitle
  <2>3. old \in ToSet(st.titles) /\ old.key = TitleOf[i]
    BY <2>2 DEF Sighting
  <2> QED BY <2>1, <2>2, <2>3 DEF RepeatedTitle
<1>4. CASE ~Has(st.seen, UrlOf[i]) /\ i \notin stored /\ ~IsDuplicateTitle(st.titles, TitleOf[i])
  <2>1. r = Accept(st, i)
    BY <1>4 DEF Consider
  <2> QED BY <1>4, <2>1 DEF Accept, NewItem, Has, IsDuplicateTitle, Sighting
<1> QED BY <1>1, <1>2, <1>3, <1>4

\* Whatever comes of it, the item's url is the one used last.
LEMMA ConsiderSeen ==
    ASSUME NEW st \in States, MemoryOK(st), NEW i \in Item
    PROVE  LET r == Consider(st, i) IN
           /\ r.seen \in Seq(Urls) /\ Distinct(r.seen) /\ Len(r.seen) <= SeenCap
           /\ ToSet(r.seen) \subseteq ToSet(st.seen) \cup {UrlOf[i]}
           /\ Recent(r.seen, UrlOf[i], 1)
           /\ \A u : \A n \in Nat \ {0} :
                n < SeenCap /\ Recent(st.seen, u, n) => Recent(r.seen, u, n + 1)
<1> DEFINE r == Consider(st, i)
           u0 == UrlOf[i]
<1>1. u0 \in Urls /\ st.seen \in Seq(Urls) /\ Distinct(st.seen) /\ Len(st.seen) <= SeenCap
  BY DEF MemoryOK, Urls
<1>2. CASE u0 \in ToSet(st.seen) /\ r.seen = Touch(st.seen, u0)
  <2>1. /\ r.seen \in Seq(Urls) /\ Distinct(r.seen) /\ ToSet(r.seen) = ToSet(st.seen) \cup {u0}
        /\ Len(r.seen) = Len(st.seen) /\ r.seen[Len(r.seen)] = u0 /\ OneMoreUsed(st.seen, r.seen)
    BY <1>1, <1>2, TouchProperties
  <2>2. Len(r.seen) \in 1..Len(r.seen) /\ Len(r.seen) - Len(r.seen) < 1
    <3>1. Len(st.seen) \in Nat /\ Len(st.seen) # 0
      BY <1>1, <1>2, SetOfSeq
    <3> QED BY <2>1, <3>1
  <2>3. Recent(r.seen, u0, 1)
    BY <2>1, <2>2 DEF Recent
  <2> QED BY <1>1, <2>1, <2>3 DEF OneMoreUsed
<1>3. CASE r.seen = Add(st.seen, u0)
  BY <1>1, <1>3, AddProperties
<1>4. \/ u0 \in ToSet(st.seen) /\ r.seen = Touch(st.seen, u0)
      \/ r.seen = Add(st.seen, u0)
  <2>1. \/ SeenItem(st, r, i) \/ StoredItem(st, r, i)
        \/ RepeatedTitle(st, r, i) \/ NewItem(st, r, i)
    BY ConsiderCases
  <2> HIDE DEF r
  <2>2. CASE SeenItem(st, r, i)
    BY <2>2 DEF SeenItem, States
  <2>3. CASE StoredItem(st, r, i)
    BY <2>3 DEF StoredItem, States
  <2>4. CASE RepeatedTitle(st, r, i)
    BY <2>4 DEF RepeatedTitle, States
  <2>5. CASE NewItem(st, r, i)
    BY <2>5 DEF NewItem
  <2> QED BY <2>1, <2>2, <2>3, <2>4, <2>5
<1> QED BY <1>2, <1>3, <1>4

\* An item that is skipped leaves the titles as they were; one that is new puts
\* its own in, if it has one.
SameTitles(st, r) ==
    /\ r.titles \in Seq(Sightings) /\ DistinctKeys(r.titles) /\ Len(r.titles) <= TitleCap
    /\ ToSet(r.titles) \subseteq ToSet(st.titles)
    /\ TitlesFit => ToSet(r.titles) = ToSet(st.titles)
PutsTitle(st, r, i) ==
    LET x == [key |-> TitleOf[i], at |-> now]
        others == {s \in ToSet(st.titles) : s.key # TitleOf[i]} IN
    /\ TitleWindow > 0 /\ TitleOf[i] # NoTitle
    /\ \A s \in ToSet(st.titles) : s.key = TitleOf[i] => ~WithinWindow(s.at)
    /\ r.titles \in Seq(Sightings) /\ DistinctKeys(r.titles) /\ Len(r.titles) <= TitleCap
    /\ ToSet(r.titles) \subseteq others \cup {x}
    /\ TitlesFit => ToSet(r.titles) = others \cup {x}

LEMMA RecordSameTitle ==
    ASSUME NEW st \in States, MemoryOK(st), NEW r,
           NEW old \in ToSet(st.titles), r.titles = RecordTitle(st.titles, old)
    PROVE  SameTitles(st, r)
<1>1. /\ st.titles \in Seq(Sightings) /\ DistinctKeys(st.titles) /\ Len(st.titles) <= TitleCap
  BY DEF MemoryOK
<1>2. old \in Sightings
  BY <1>1, SetOfSeq
<1>3. {y \in ToSet(st.titles) : y.key # old.key} \cup {old} = ToSet(st.titles)
  <2> SUFFICES ASSUME NEW y \in ToSet(st.titles), y.key = old.key PROVE y = old
    OBVIOUS
  <2>1. PICK a \in 1..Len(st.titles) : st.titles[a] = y
    BY <1>1, SetOfSeq
  <2>2. PICK b \in 1..Len(st.titles) : st.titles[b] = old
    BY <1>1, SetOfSeq
  <2>3. a = b
    BY <1>1, <2>1, <2>2, SetOfSeq DEF DistinctKeys
  <2> QED BY <2>1, <2>2, <2>3
<1>4. /\ r.titles \in Seq(Sightings) /\ DistinctKeys(r.titles) /\ Len(r.titles) <= TitleCap
      /\ ToSet(r.titles) \subseteq {y \in ToSet(st.titles) : y.key # old.key} \cup {old}
  BY <1>1, <1>2, RecordTitleProperties
<1>5. TitlesFit => ToSet(r.titles) = {y \in ToSet(st.titles) : y.key # old.key} \cup {old}
  BY <1>1, <1>2, RecordKeepsAll
<1> QED BY <1>3, <1>4, <1>5 DEF SameTitles

LEMMA ConsiderTitles ==
    ASSUME NEW st \in States, MemoryOK(st), NEW i \in Item, now \in 0..MaxTime
    PROVE  LET r == Consider(st, i) IN
           /\ r \in States
           /\ \/ /\ r.new = st.new /\ SameTitles(st, r)
                 /\ TitleWindow = 0 => UrlOf[i] \in ToSet(st.seen) \/ i \in stored
              \/ /\ r.new = Append(st.new, i) /\ i \notin stored /\ UrlOf[i] \notin ToSet(st.seen)
                 /\ \/ SameTitles(st, r) /\ ~(TitleWindow > 0 /\ TitleOf[i] # NoTitle)
                    \/ PutsTitle(st, r, i)
<1> DEFINE r == Consider(st, i)
<1>1. \/ SeenItem(st, r, i) \/ StoredItem(st, r, i)
      \/ RepeatedTitle(st, r, i) \/ NewItem(st, r, i)
  BY ConsiderCases
<1>2. r.seen \in Seq(Urls)
  BY ConsiderSeen
<1>3. /\ st.titles \in Seq(Sightings) /\ DistinctKeys(st.titles) /\ Len(st.titles) <= TitleCap
      /\ TitleWindow \in Nat
  BY PollerAssumption DEF MemoryOK
<1>4. r = [seen |-> r.seen, titles |-> r.titles, new |-> r.new]
  BY DEF Consider, SkipSeen, SkipStored, SkipTitle, Accept, States
<1>5. st.new \in Seq(Item) /\ Append(st.new, i) \in Seq(Item)
  BY DEF States
<1> HIDE DEF r
<1>6. CASE SeenItem(st, r, i)
  <2>1. r.titles = st.titles /\ r.new = st.new /\ UrlOf[i] \in ToSet(st.seen)
    BY <1>6 DEF SeenItem, States
  <2> QED BY <1>2, <1>3, <1>4, <1>5, <2>1 DEF SameTitles, States, r
<1>7. CASE StoredItem(st, r, i)
  <2>1. r.titles = st.titles /\ r.new = st.new /\ i \in stored
    BY <1>7 DEF StoredItem, States
  <2> QED BY <1>2, <1>3, <1>4, <1>5, <2>1 DEF SameTitles, States, r
<1>8. CASE RepeatedTitle(st, r, i)
  <2>1. PICK old \in ToSet(st.titles) : r.titles = RecordTitle(st.titles, old) /\ r.new = st.new
    BY <1>8 DEF RepeatedTitle, States
  <2>2. SameTitles(st, r)
    BY <2>1, RecordSameTitle
  <2>3. TitleWindow # 0
    BY <1>3, <1>8 DEF RepeatedTitle
  <2>4. r.titles \in Seq(Sightings) /\ r.new \in Seq(Item)
    BY <1>5, <2>1, <2>2 DEF SameTitles
  <2>5. r \in States
    BY <1>2, <1>4, <2>4 DEF States
  <2> QED BY <2>1, <2>2, <2>3, <2>5 DEF r
<1>9. CASE NewItem(st, r, i)
  <2>1. /\ r.new = Append(st.new, i) /\ i \notin stored /\ UrlOf[i] \notin ToSet(st.seen)
    BY <1>9 DEF NewItem
  <2>2. CASE ~(TitleWindow > 0 /\ TitleOf[i] # NoTitle)
    <3>1. r.titles = st.titles
      BY <1>9, <2>2 DEF NewItem
    <3> QED BY <1>2, <1>3, <1>4, <1>5, <2>1, <2>2, <3>1 DEF SameTitles, States, r
  <2>3. CASE TitleWindow > 0 /\ TitleOf[i] # NoTitle
    <3> DEFINE x == [key |-> TitleOf[i], at |-> now]
    <3>1. /\ r.titles = RecordTitle(st.titles, x)
          /\ \A s \in ToSet(st.titles) : s.key = TitleOf[i] => ~WithinWindow(s.at)
      BY <1>9, <2>3 DEF NewItem
    <3>2. x \in Sightings /\ x.key = TitleOf[i]
      BY <2>3 DEF Sightings, Titles
    <3> HIDE DEF x
    <3>3. PutsTitle(st, r, i)
      BY <1>3, <2>3, <3>1, <3>2, RecordTitleProperties, RecordKeepsAll DEF PutsTitle, x
    <3> QED BY <1>2, <1>4, <1>5, <2>1, <3>3 DEF PutsTitle, States, r
  <2> QED BY <2>2, <2>3
<1> QED BY <1>1, <1>6, <1>7, <1>8, <1>9

\* An item that is new comes after those that were.
LEMMA ConsiderNew ==
    ASSUME NEW st \in States, MemoryOK(st), NEW i \in Item, now \in 0..MaxTime
    PROVE  LET r == Consider(st, i) IN
           /\ Len(st.new) \in Nat /\ Len(r.new) \in Nat
           /\ \A m \in 1..Len(st.new) : m \in 1..Len(r.new) /\ r.new[m] = st.new[m]
           /\ \A m \in 1..Len(r.new) :
                \/ m \in 1..Len(st.new) /\ r.new[m] = st.new[m]
                \/ /\ m = Len(st.new) + 1 /\ r.new[m] = i
                   /\ i \notin stored /\ UrlOf[i] \notin ToSet(st.seen)
           /\ r.new # st.new => Len(st.new) + 1 \in 1..Len(r.new) /\ r.new[Len(st.new) + 1] = i
<1> DEFINE r == Consider(st, i)
<1>1. /\ r.new \in Seq(Item) /\ st.new \in Seq(Item)
      /\ \/ r.new = st.new
         \/ r.new = Append(st.new, i) /\ i \notin stored /\ UrlOf[i] \notin ToSet(st.seen)
  BY ConsiderTitles DEF States
<1> HIDE DEF r
<1>2. Len(st.new) \in Nat /\ Len(r.new) \in Nat
  BY <1>1, SetOfSeq
<1>3. CASE r.new = st.new
  BY <1>2, <1>3 DEF r
<1>4. CASE r.new = Append(st.new, i) /\ i \notin stored /\ UrlOf[i] \notin ToSet(st.seen)
  <2>1. /\ Len(r.new) = Len(st.new) + 1 /\ r.new[Len(r.new)] = i
        /\ \A m \in 1..Len(st.new) : r.new[m] = st.new[m]
    BY <1>1, <1>4, AppendProperties
  <2>2. \A m \in 1..Len(r.new) : m \in 1..Len(st.new) \/ m = Len(st.new) + 1
    BY <1>2, <2>1
  <2>3. \A m \in 1..Len(st.new) : m \in 1..Len(r.new)
    BY <1>2, <2>1
  <2>4. Len(st.new) + 1 \in 1..Len(r.new)
    BY <1>2, <2>1
  <2> QED BY <1>2, <1>4, <2>1, <2>2, <2>3, <2>4 DEF r
<1> QED BY <1>1, <1>3, <1>4

-----------------------------------------------------------------------------
(* What holds of the loop when n items have been looked at. *)

LoopTypes(st) == st \in States /\ MemoryOK(st)

\* A title it remembers was remembered before, or is one of a new item;
TitlesFrom(st) ==
    \A s \in ToSet(st.titles) :
        \/ \E o \in ToSet(titles) : o.key = s.key
        \/ \E m \in 1..Len(st.new) : TitleOf[st.new[m]] = s.key

\* so is a url, unless it is one of a row.
UrlsFrom(st) ==
    TitleWindow = 0 =>
        \A u \in ToSet(st.seen) :
            \/ u \in ToSet(seen) \/ \E i \in stored : UrlOf[i] = u
            \/ \E m \in 1..Len(st.new) : UrlOf[st.new[m]] = u

\* New items have no row, and as long as the memory has room for what has been
\* looked at, no two of them have one url.
NewUrls(st, n) ==
    /\ \A m \in 1..Len(st.new) : st.new[m] \notin stored
    /\ n <= SeenCap => \A m \in 1..Len(st.new) : Recent(st.seen, UrlOf[st.new[m]], n)
    /\ n <= SeenCap + 1 => \A a, b \in 1..Len(st.new) : UrlOf[st.new[a]] = UrlOf[st.new[b]] => a = b

\* A story that passed less than a window ago is remembered by its title.
Covered(memo) ==
    \A i \in Item : passedAt[i] # Never /\ TitleOf[i] # NoTitle =>
        \/ \E s \in ToSet(memo) : s.key = TitleOf[i] /\ s.at >= passedAt[i]
        \/ now - passedAt[i] > TitleWindow

\* No story of this title passed less than a window before `at`.
LongPassed(key, at) ==
    \A i \in Item : passedAt[i] # Never /\ TitleOf[i] = key => at - passedAt[i] > TitleWindow

\* New items have titles of their own, just remembered, and not passed lately.
NewTitles(st) ==
    \A a \in 1..Len(st.new) : TitleOf[st.new[a]] # NoTitle =>
        /\ \E s \in ToSet(st.titles) : s.key = TitleOf[st.new[a]] /\ s.at = now
        /\ LongPassed(TitleOf[st.new[a]], now)
        /\ \A b \in 1..Len(st.new) : TitleOf[st.new[b]] = TitleOf[st.new[a]] => b = a

LEMMA ConsiderTypes ==
    ASSUME NEW st, LoopTypes(st), NEW i \in Item, now \in 0..MaxTime
    PROVE  LoopTypes(Consider(st, i))
<1>1. st \in States /\ MemoryOK(st)
  BY DEF LoopTypes
<1> DEFINE r == Consider(st, i)
<1>2. r \in States /\ (SameTitles(st, r) \/ PutsTitle(st, r, i))
  BY <1>1, ConsiderTitles
<1>3. r.seen \in Seq(Urls) /\ Distinct(r.seen) /\ Len(r.seen) <= SeenCap
  BY <1>1, ConsiderSeen
<1> HIDE DEF r
<1>4. r.titles \in Seq(Sightings) /\ DistinctKeys(r.titles) /\ Len(r.titles) <= TitleCap
  <2>1. CASE SameTitles(st, r)
    BY <2>1 DEF SameTitles
  <2>2. CASE PutsTitle(st, r, i)
    BY <2>2 DEF PutsTitle
  <2> QED BY <1>2, <2>1, <2>2
<1> QED BY <1>2, <1>3, <1>4 DEF LoopTypes, MemoryOK, r

LEMMA ConsiderFrom ==
    ASSUME NEW st, LoopTypes(st), NEW i \in Item, now \in 0..MaxTime, TitlesFrom(st), UrlsFrom(st)
    PROVE  TitlesFrom(Consider(st, i)) /\ UrlsFrom(Consider(st, i))
<1> DEFINE r == Consider(st, i)
<1>1. st \in States /\ MemoryOK(st)
  BY DEF LoopTypes
<1>2. /\ \A m \in 1..Len(st.new) : m \in 1..Len(r.new) /\ r.new[m] = st.new[m]
      /\ r.new # st.new => Len(st.new) + 1 \in 1..Len(r.new) /\ r.new[Len(st.new) + 1] = i
  BY <1>1, ConsiderNew
<1>3. \/ /\ r.new = st.new /\ SameTitles(st, r)
         /\ TitleWindow = 0 => UrlOf[i] \in ToSet(st.seen) \/ i \in stored
      \/ /\ r.new = Append(st.new, i)
         /\ SameTitles(st, r) \/ PutsTitle(st, r, i)
  BY <1>1, ConsiderTitles
<1>4. r.new = st.new \/ \E m \in 1..Len(r.new) : r.new[m] = i
  BY <1>2
<1>5. ToSet(r.seen) \subseteq ToSet(st.seen) \cup {UrlOf[i]}
  BY <1>1, ConsiderSeen
<1>6. st.new # Append(st.new, i)
  <2>1. Len(Append(st.new, i)) = Len(st.new) + 1 /\ Len(st.new) \in Nat
    BY <1>1, AppendProperties, SetOfSeq DEF States
  <2> QED BY <2>1
<1> HIDE DEF r
<1>7. TitlesFrom(r)
  <2> SUFFICES ASSUME NEW s \in ToSet(r.titles)
               PROVE  \/ \E o \in ToSet(titles) : o.key = s.key
                      \/ \E m \in 1..Len(r.new) : TitleOf[r.new[m]] = s.key
    BY DEF TitlesFrom
  <2>1. CASE s \in ToSet(st.titles)
    BY <1>2, <2>1 DEF TitlesFrom
  <2>2. CASE s \notin ToSet(st.titles)
    <3>1. ~SameTitles(st, r)
      BY <2>2 DEF SameTitles
    <3>2. r.new = Append(st.new, i) /\ PutsTitle(st, r, i)
      BY <1>3, <3>1
    <3>3. s.key = TitleOf[i]
      BY <2>2, <3>2 DEF PutsTitle
    <3> QED BY <1>4, <1>6, <3>2, <3>3
  <2> QED BY <2>1, <2>2
<1>8. UrlsFrom(r)
  <2> SUFFICES ASSUME TitleWindow = 0, NEW u \in ToSet(r.seen)
               PROVE  \/ u \in ToSet(seen) \/ \E j \in stored : UrlOf[j] = u
                      \/ \E m \in 1..Len(r.new) : UrlOf[r.new[m]] = u
    BY DEF UrlsFrom
  <2>1. CASE u \in ToSet(st.seen)
    BY <1>2, <2>1 DEF UrlsFrom
  <2>2. CASE u \notin ToSet(st.seen)
    <3>1. u = UrlOf[i] /\ (i \in stored \/ r.new = Append(st.new, i))
      BY <1>3, <1>5, <2>2
    <3> QED BY <1>4, <1>6, <3>1
  <2> QED BY <2>1, <2>2
<1> QED BY <1>7, <1>8 DEF r

LEMMA ConsiderNewUrls ==
    ASSUME NEW st, LoopTypes(st), NEW i \in Item, now \in 0..MaxTime,
           NEW n \in Nat, NewUrls(st, n), n = 0 => st.new = <<>>
    PROVE  NewUrls(Consider(st, i), n + 1)
<1> DEFINE r == Consider(st, i)
<1>1. st \in States /\ MemoryOK(st) /\ SeenCap \in Nat
  BY PollerAssumption DEF LoopTypes
<1>2. /\ Len(st.new) \in Nat /\ Len(r.new) \in Nat
      /\ \A m \in 1..Len(r.new) :
            \/ m \in 1..Len(st.new) /\ r.new[m] = st.new[m]
            \/ /\ m = Len(st.new) + 1 /\ r.new[m] = i
               /\ i \notin stored /\ UrlOf[i] \notin ToSet(st.seen)
  BY <1>1, ConsiderNew
<1>3. /\ Recent(r.seen, UrlOf[i], 1)
      /\ \A u : \A k \in Nat \ {0} :
            k < SeenCap /\ Recent(st.seen, u, k) => Recent(r.seen, u, k + 1)
  BY <1>1, ConsiderSeen
<1> HIDE DEF r
<1>4. \A m \in 1..Len(r.new) : r.new[m] \notin stored
  BY <1>2 DEF NewUrls
<1>5. ASSUME n + 1 <= SeenCap, NEW m \in 1..Len(r.new)
      PROVE  Recent(r.seen, UrlOf[r.new[m]], n + 1)
  <2>1. CASE m \in 1..Len(st.new) /\ r.new[m] = st.new[m]
    <3>1. n # 0
      <4>1. st.new # <<>>
        BY <2>1
      <4> QED BY <4>1
    <3>2. n < SeenCap /\ n <= SeenCap
      BY <1>1, <1>5
    <3>3. Recent(st.seen, UrlOf[st.new[m]], n)
      BY <2>1, <3>2 DEF NewUrls
    <3> QED BY <1>3, <2>1, <3>1, <3>2, <3>3
  <2>2. CASE r.new[m] = i
    BY <1>3, <2>2 DEF Recent
  <2> QED BY <1>2, <2>1, <2>2
<1>6. ASSUME n + 1 <= SeenCap + 1, NEW a \in 1..Len(r.new), NEW b \in 1..Len(r.new),
             UrlOf[r.new[a]] = UrlOf[r.new[b]]
      PROVE  a = b
  <2>1. n <= SeenCap /\ n <= SeenCap + 1
    BY <1>1, <1>6
  <2>2. \A m \in 1..Len(st.new) : UrlOf[st.new[m]] \in ToSet(st.seen)
    <3> SUFFICES ASSUME NEW m \in 1..Len(st.new) PROVE UrlOf[st.new[m]] \in ToSet(st.seen)
      OBVIOUS
    <3>1. PICK p \in 1..Len(st.seen) : st.seen[p] = UrlOf[st.new[m]]
      BY <2>1 DEF NewUrls, Recent
    <3> QED BY <1>1, <3>1, SetOfSeq DEF MemoryOK
  <2>3. \A x, y \in 1..Len(st.new) : UrlOf[st.new[x]] = UrlOf[st.new[y]] => x = y
    BY <2>1 DEF NewUrls
  <2>4. CASE a \in 1..Len(st.new) /\ r.new[a] = st.new[a]
    BY <1>2, <1>6, <2>2, <2>3, <2>4
  <2>5. CASE a = Len(st.new) + 1 /\ r.new[a] = i /\ UrlOf[i] \notin ToSet(st.seen)
    BY <1>2, <1>6, <2>2, <2>5
  <2> QED BY <1>2, <2>4, <2>5
<1> QED BY <1>4, <1>5, <1>6 DEF NewUrls, r

\* What the history of passed stories looks like, at any time.
PassedOK ==
    /\ now \in 0..MaxTime
    /\ passedAt \in [Item -> 0..Never]
    /\ \A i \in Item : passedAt[i] # Never => passedAt[i] <= now

LEMMA ConsiderNewTitles ==
    ASSUME NEW st, LoopTypes(st), NEW i \in Item, PassedOK, TitlesFit, TitleWindow > 0,
           Covered(st.titles), NewTitles(st)
    PROVE  Covered(Consider(st, i).titles) /\ NewTitles(Consider(st, i))
<1> DEFINE r == Consider(st, i)
           x == [key |-> TitleOf[i], at |-> now]
<1>0. now \in Int /\ TitleWindow \in Int /\ TitleWindow > 0 /\ \A j \in Item : passedAt[j] \in Int
  BY PollerAssumption DEF PassedOK, Never
<1>1. st \in States /\ MemoryOK(st) /\ now \in 0..MaxTime
  BY DEF LoopTypes, PassedOK
<1>2. /\ \A m \in 1..Len(r.new) :
            \/ m \in 1..Len(st.new) /\ r.new[m] = st.new[m]
            \/ m = Len(st.new) + 1 /\ r.new[m] = i
      /\ r.new = st.new => \A m \in 1..Len(r.new) : m \in 1..Len(st.new) /\ r.new[m] = st.new[m]
  BY <1>1, ConsiderNew
<1>3. \/ r.new = st.new /\ SameTitles(st, r)
      \/ SameTitles(st, r) /\ TitleOf[i] = NoTitle
      \/ PutsTitle(st, r, i)
  BY <1>1, ConsiderTitles
<1> HIDE DEF r
<1>4. CASE SameTitles(st, r) /\ (r.new = st.new \/ TitleOf[i] = NoTitle)
  <2>1. ToSet(r.titles) = ToSet(st.titles)
    BY <1>4 DEF SameTitles
  <2>2. Covered(r.titles)
    BY <2>1 DEF Covered
  <2>3. \A m \in 1..Len(r.new) : TitleOf[r.new[m]] # NoTitle => m \in 1..Len(st.new) /\ r.new[m] = st.new[m]
    BY <1>2, <1>4
  <2>4. NewTitles(r)
    BY <2>1, <2>3 DEF NewTitles
  <2> QED BY <2>2, <2>4 DEF r
<1>5. CASE PutsTitle(st, r, i)
  <2>1. /\ TitleOf[i] # NoTitle
        /\ ToSet(r.titles) = {s \in ToSet(st.titles) : s.key # TitleOf[i]} \cup {x}
        /\ \A s \in ToSet(st.titles) : s.key = TitleOf[i] => ~WithinWindow(s.at)
    BY <1>5 DEF PutsTitle
  <2>2. x \in ToSet(r.titles) /\ x.key = TitleOf[i] /\ x.at = now
    BY <2>1
  <2> HIDE DEF x
  <2>3. \A s \in ToSet(st.titles) : s.at \in Int
    <3>1. st.titles \in Seq(Sightings)
      BY <1>1 DEF MemoryOK
    <3>2. \A s \in ToSet(st.titles) : s \in Sightings
      BY <3>1, SetOfSeq
    <3> QED BY <3>2 DEF Sightings
  <2>4. \A s \in ToSet(st.titles) : s.key = TitleOf[i] => now - s.at > TitleWindow
    BY <1>0, <2>1, <2>3 DEF WithinWindow
  <2>5. Covered(r.titles)
    <3> SUFFICES ASSUME NEW j \in Item, passedAt[j] # Never, TitleOf[j] # NoTitle
                 PROVE  \/ \E s \in ToSet(r.titles) : s.key = TitleOf[j] /\ s.at >= passedAt[j]
                        \/ now - passedAt[j] > TitleWindow
      BY DEF Covered
    <3>1. CASE TitleOf[j] = TitleOf[i]
      BY <2>2, <3>1 DEF PassedOK
    <3>2. CASE TitleOf[j] # TitleOf[i]
      BY <2>1, <3>2 DEF Covered
    <3> QED BY <3>1, <3>2
  <2>6. LongPassed(TitleOf[i], now)
    <3> SUFFICES ASSUME NEW j \in Item, passedAt[j] # Never, TitleOf[j] = TitleOf[i]
                 PROVE  now - passedAt[j] > TitleWindow
      BY DEF LongPassed
    <3>1. CASE \E s \in ToSet(st.titles) : s.key = TitleOf[j] /\ s.at >= passedAt[j]
      <4>1. PICK s \in ToSet(st.titles) : s.key = TitleOf[j] /\ s.at >= passedAt[j]
        BY <3>1
      <4>2. now - s.at > TitleWindow /\ s.at \in Int
        BY <2>3, <2>4, <4>1
      <4> QED BY <1>0, <4>1, <4>2
    <3> QED BY <2>1, <3>1 DEF Covered
  <2>7. \A m \in 1..Len(st.new) : TitleOf[st.new[m]] # TitleOf[i]
    <3> SUFFICES ASSUME NEW m \in 1..Len(st.new), TitleOf[st.new[m]] = TitleOf[i] PROVE FALSE
      OBVIOUS
    <3>1. PICK s \in ToSet(st.titles) : s.key = TitleOf[i] /\ s.at = now
      BY <2>1 DEF NewTitles
    <3>2. now - now > TitleWindow
      BY <2>4, <3>1
    <3> QED BY <1>0, <3>2
  <2>8. NewTitles(r)
    <3> SUFFICES ASSUME NEW a \in 1..Len(r.new), TitleOf[r.new[a]] # NoTitle
                 PROVE  /\ \E s \in ToSet(r.titles) : s.key = TitleOf[r.new[a]] /\ s.at = now
                        /\ LongPassed(TitleOf[r.new[a]], now)
                        /\ \A b \in 1..Len(r.new) : TitleOf[r.new[b]] = TitleOf[r.new[a]] => b = a
      BY DEF NewTitles
    <3>1. CASE a \in 1..Len(st.new) /\ r.new[a] = st.new[a]
      <4>1. PICK s \in ToSet(st.titles) : s.key = TitleOf[r.new[a]] /\ s.at = now
        BY <3>1 DEF NewTitles
      <4>2. s \in ToSet(r.titles)
        BY <2>1, <2>7, <3>1, <4>1
      <4>3. \A b \in 1..Len(r.new) : TitleOf[r.new[b]] = TitleOf[r.new[a]] => b = a
        BY <1>2, <2>7, <3>1 DEF NewTitles
      <4>4. LongPassed(TitleOf[r.new[a]], now)
        BY <3>1 DEF NewTitles
      <4> QED BY <4>1, <4>2, <4>3, <4>4
    <3>2. CASE a = Len(st.new) + 1 /\ r.new[a] = i
      <4>1. \A b \in 1..Len(r.new) : TitleOf[r.new[b]] = TitleOf[r.new[a]] => b = a
        BY <1>2, <2>7, <3>2
      <4> QED BY <2>2, <2>6, <3>2, <4>1
    <3> QED BY <1>2, <3>1, <3>2
  <2> QED BY <2>5, <2>8 DEF r
<1> QED BY <1>3, <1>4, <1>5

\* What holds of a pass once it has filtered n items.
LoopInv(st, n) ==
    /\ LoopTypes(st) /\ TitlesFrom(st) /\ UrlsFrom(st) /\ NewUrls(st, n)
    /\ n = 0 => st.new = <<>>
    /\ TitlesFit /\ TitleWindow > 0 /\ Covered(titles) => Covered(st.titles) /\ NewTitles(st)

LEMMA FilterProperties ==
    ASSUME NEW served \in Servings, MemoryOK(Memory), PassedOK
    PROVE  LoopInv(Filter(served), Len(served)) /\ Len(served) <= MaxServed
<1>1. served \in Seq(Item) /\ Len(served) \in Nat /\ Len(served) <= MaxServed
  <2>1. PICK k \in 0..MaxServed : served \in [1..k -> Item]
    BY DEF Servings, BoundedSeq, SeqOf
  <2>2. k \in Nat /\ MaxServed \in Nat
    BY PollerAssumption
  <2> QED BY <2>1, <2>2
<1>2. PICK g : /\ Filter(served) = g[Len(served)]
               /\ g[0] = [seen |-> seen, titles |-> titles, new |-> <<>>]
               /\ \A i \in 1..Len(served) : g[i] = Consider(g[i - 1], served[i])
  BY <1>1, FilterIsLast
<1> DEFINE S == {n \in Nat : n <= Len(served) => LoopInv(g[n], n)}
<1>3. 0 \in S
  <2> DEFINE st == g[0]
  <2>1. st = [seen |-> seen, titles |-> titles, new |-> <<>>]
    BY <1>2
  <2>2. st.seen = seen /\ st.titles = titles /\ st.new = <<>>
    BY <2>1
  <2>3. LoopTypes(st)
    <3>1. /\ seen \in Seq(Urls) /\ Distinct(seen) /\ Len(seen) <= SeenCap
          /\ titles \in Seq(Sightings) /\ DistinctKeys(titles) /\ Len(titles) <= TitleCap
      BY DEF MemoryOK, Memory
    <3>2. st \in States
      BY <2>1, <3>1 DEF States
    <3> HIDE DEF st
    <3> QED BY <2>2, <3>1, <3>2 DEF LoopTypes, MemoryOK
  <2> HIDE DEF st
  <2>4. Len(st.new) = 0
    BY <2>2
  <2>5. TitlesFrom(st) /\ UrlsFrom(st) /\ NewUrls(st, 0) /\ NewTitles(st)
    BY <2>2, <2>4 DEF TitlesFrom, UrlsFrom, NewUrls, NewTitles
  <2>6. LoopInv(st, 0)
    BY <2>2, <2>3, <2>5 DEF LoopInv
  <2> QED BY <2>6 DEF st
<1>4. ASSUME NEW n \in Nat, n \in S
      PROVE  n + 1 \in S
  <2> SUFFICES ASSUME n + 1 <= Len(served) PROVE LoopInv(g[n + 1], n + 1)
    OBVIOUS
  <2>1. LoopInv(g[n], n)
    BY <1>1, <1>4
  <2>2. n + 1 \in 1..Len(served) /\ (n + 1) - 1 = n
    BY <1>1
  <2>3. g[n + 1] = Consider(g[n], served[n + 1]) /\ served[n + 1] \in Item
    BY <1>1, <1>2, <2>2
  <2> DEFINE st == g[n]
             i == served[n + 1]
             r == g[n + 1]
  <2>4. r = Consider(st, i) /\ i \in Item
    BY <2>3
  <2>5. LoopInv(st, n) /\ LoopTypes(st)
    BY <2>1 DEF LoopInv
  <2> HIDE DEF st, i, r
  <2>6. now \in 0..MaxTime
    BY DEF PassedOK
  <2>7. LoopTypes(r)
    BY <2>4, <2>5, <2>6, ConsiderTypes
  <2>8. TitlesFrom(r) /\ UrlsFrom(r)
    BY <2>4, <2>5, <2>6, ConsiderFrom DEF LoopInv
  <2>9. NewUrls(r, n + 1)
    BY <2>4, <2>5, <2>6, ConsiderNewUrls DEF LoopInv
  <2>10. ASSUME TitlesFit, TitleWindow > 0, Covered(titles)
         PROVE  Covered(r.titles) /\ NewTitles(r)
    <3>1. Covered(st.titles) /\ NewTitles(st)
      BY <2>5, <2>10 DEF LoopInv
    <3> QED BY <2>4, <2>5, <2>10, <3>1, ConsiderNewTitles
  <2>11. n + 1 # 0
    OBVIOUS
  <2>12. LoopInv(r, n + 1)
    BY <2>7, <2>8, <2>9, <2>10, <2>11 DEF LoopInv
  <2> QED BY <2>12 DEF r
<1> HIDE DEF S
<1>5. \A n \in Nat : n \in S
  BY <1>3, <1>4, SetInduction
<1>6. LoopInv(g[Len(served)], Len(served))
  BY <1>1, <1>5 DEF S
<1> QED BY <1>1, <1>2, <1>6

-----------------------------------------------------------------------------
(* The rollback. *)

\* g is the function of the rollback's states up to the n-th item of the batch.
Undone(m, st, failed) == IF m \in failed THEN Rollback(st, batch[m]) ELSE st
IsUndoing(g, failed, n) ==
    g = [m \in 0..n |-> IF m = 0 THEN Memory ELSE Undone(m, g[m - 1], failed)]

LEMMA UndoingsExist ==
    ASSUME NEW failed
    PROVE  \A n \in Nat : \E g : IsUndoing(g, failed, n)
<1> DEFINE S == {n \in Nat : \E g : IsUndoing(g, failed, n)}
<1>1. 0 \in S
  <2>1. IsUndoing([m \in 0..0 |-> Memory], failed, 0)
    BY DEF IsUndoing
  <2> QED BY <2>1
<1>2. ASSUME NEW n \in Nat, n \in S
      PROVE  n + 1 \in S
  <2>1. PICK g : IsUndoing(g, failed, n)
    BY <1>2
  <2> DEFINE h == [m \in 0..(n + 1) |-> IF m = n + 1 THEN Undone(n + 1, g[n], failed) ELSE g[m]]
  <2>2. \A m \in 0..n : g[m] = IF m = 0 THEN Memory ELSE Undone(m, g[m - 1], failed)
    BY <2>1 DEF IsUndoing
  <2>3. ASSUME NEW m \in 0..(n + 1)
        PROVE  h[m] = IF m = 0 THEN Memory ELSE Undone(m, h[m - 1], failed)
    <3>1. CASE m = n + 1
      <4>1. m - 1 = n /\ n \in 0..(n + 1) /\ n # n + 1 /\ m # 0
        BY <3>1
      <4>2. h[m - 1] = g[n] /\ h[m] = Undone(m, g[n], failed)
        BY <3>1, <4>1
      <4> QED BY <4>1, <4>2
    <3>2. CASE m \in 0..n
      <4>1. m # n + 1 /\ (m # 0 => m - 1 \in 0..(n + 1) /\ m - 1 # n + 1)
        BY <3>2
      <4>2. h[m] = g[m] /\ (m # 0 => h[m - 1] = g[m - 1])
        BY <4>1
      <4> QED BY <2>2, <3>2, <4>2
    <3> QED BY <3>1, <3>2
  <2>4. h = [m \in 0..(n + 1) |-> IF m = 0 THEN Memory ELSE Undone(m, h[m - 1], failed)]
    <3> DEFINE f == [m \in 0..(n + 1) |-> IF m = 0 THEN Memory ELSE Undone(m, h[m - 1], failed)]
    <3>1. \A m \in 0..(n + 1) : h[m] = f[m]
      BY <2>3
    <3> QED BY <3>1
  <2>5. IsUndoing(h, failed, n + 1)
    BY <2>4 DEF IsUndoing
  <2> QED BY <2>5
<1> HIDE DEF S
<1>3. \A n \in Nat : n \in S
  BY <1>1, <1>2, SetInduction
<1> QED BY <1>3 DEF S

LEMMA ForgetIsLast ==
    ASSUME NEW failed, Len(batch) \in Nat, Forget(failed)
    PROVE  \E g : /\ seen' = g[Len(batch)].seen /\ titles' = g[Len(batch)].titles
                  /\ g[0] = Memory
                  /\ \A m \in 1..Len(batch) : g[m] = Undone(m, g[m - 1], failed)
<1> DEFINE g == CHOOSE h : IsUndoing(h, failed, Len(batch))
<1>1. IsUndoing(g, failed, Len(batch))
  BY UndoingsExist
<1>2. seen' = g[Len(batch)].seen /\ titles' = g[Len(batch)].titles
  BY DEF Forget, IsUndoing, Undone, Memory
<1> HIDE DEF g
<1>3. \A m \in 0..Len(batch) : g[m] = IF m = 0 THEN Memory ELSE Undone(m, g[m - 1], failed)
  BY <1>1 DEF IsUndoing
<1>4. g[0] = Memory
  <2>1. 0 \in 0..Len(batch)
    OBVIOUS
  <2> QED BY <1>3, <2>1
<1>5. ASSUME NEW m \in 1..Len(batch)
      PROVE  g[m] = Undone(m, g[m - 1], failed)
  <2>1. m \in 0..Len(batch) /\ m # 0
    OBVIOUS
  <2> QED BY <1>3, <2>1
<1> QED BY <1>2, <1>4, <1>5

\* The urls and the titles of the failed items among the first n are gone, and
\* nothing else.
Rolled(st, failed, n) ==
    /\ MemoryOK(st)
    /\ \A u : u \in ToSet(st.seen) <=>
            u \in ToSet(seen) /\ \A m \in 1..n : m \in failed => u # UrlOf[batch[m]]
    /\ \A s : s \in ToSet(st.titles) <=>
            s \in ToSet(titles) /\ \A m \in 1..n : m \in failed => s.key # TitleOf[batch[m]]

LEMMA RollbackProperties ==
    ASSUME NEW st, MemoryOK(st), NEW i
    PROVE  LET r == Rollback(st, i) IN
           /\ MemoryOK(r)
           /\ \A u : u \in ToSet(r.seen) <=> u \in ToSet(st.seen) /\ u # UrlOf[i]
           /\ \A s : s \in ToSet(r.titles) <=> s \in ToSet(st.titles) /\ s.key # TitleOf[i]
<1> DEFINE r == Rollback(st, i)
<1>1. r.seen = Discard(st.seen, UrlOf[i]) /\ r.titles = ForgetTitle(st.titles, TitleOf[i])
  BY DEF Rollback
<1>2. /\ st.seen \in Seq(Urls) /\ Distinct(st.seen) /\ Len(st.seen) <= SeenCap
      /\ st.titles \in Seq(Sightings) /\ DistinctKeys(st.titles) /\ Len(st.titles) <= TitleCap
      /\ Len(st.seen) \in Nat /\ Len(st.titles) \in Nat
  BY SetOfSeq DEF MemoryOK
<1> HIDE DEF r
<1>3. /\ r.seen \in Seq(Urls) /\ Distinct(r.seen) /\ ToSet(r.seen) = ToSet(st.seen) \ {UrlOf[i]}
      /\ Len(r.seen) = Len(st.seen) \/ Len(r.seen) = Len(st.seen) - 1
  BY <1>1, <1>2, DiscardProperties
<1>4. /\ r.titles \in Seq(Sightings) /\ DistinctKeys(r.titles) /\ Len(r.titles) <= Len(st.titles)
      /\ ToSet(r.titles) = {s \in ToSet(st.titles) : s.key # TitleOf[i]}
  BY <1>1, <1>2, ForgetTitleProperties
<1>5. Len(r.seen) <= SeenCap /\ Len(r.titles) <= TitleCap
  <2>1. Len(r.titles) \in Nat /\ SeenCap \in Nat /\ TitleCap \in Nat
    BY <1>4, SetOfSeq, PollerAssumption
  <2> QED BY <1>2, <1>3, <1>4, <2>1
<1>6. MemoryOK(r)
  BY <1>3, <1>4, <1>5 DEF MemoryOK
<1> QED BY <1>3, <1>4, <1>6 DEF r

LEMMA ForgetProperties ==
    ASSUME NEW failed, MemoryOK(Memory), batch \in Seq(Item), Forget(failed)
    PROVE  Rolled([seen |-> seen', titles |-> titles'], failed, Len(batch))
<1>1. Len(batch) \in Nat
  BY SetOfSeq
<1>2. PICK g : /\ seen' = g[Len(batch)].seen /\ titles' = g[Len(batch)].titles
               /\ g[0] = Memory
               /\ \A m \in 1..Len(batch) : g[m] = Undone(m, g[m - 1], failed)
  BY <1>1, ForgetIsLast
<1> DEFINE S == {n \in Nat : n <= Len(batch) => Rolled(g[n], failed, n)}
<1>3. 0 \in S
  <2>1. Rolled(Memory, failed, 0)
    BY DEF Rolled, Memory
  <2> QED BY <1>2, <2>1
<1>4. ASSUME NEW n \in Nat, n \in S
      PROVE  n + 1 \in S
  <2> SUFFICES ASSUME n + 1 <= Len(batch) PROVE Rolled(g[n + 1], failed, n + 1)
    OBVIOUS
  <2>1. Rolled(g[n], failed, n)
    BY <1>1, <1>4
  <2>2. n + 1 \in 1..Len(batch) /\ (n + 1) - 1 = n
    BY <1>1
  <2>3. g[n + 1] = Undone(n + 1, g[n], failed)
    BY <1>2, <2>2
  <2>4. \A m : m \in 1..(n + 1) <=> m \in 1..n \/ m = n + 1
    OBVIOUS
  <2> DEFINE st == g[n]
             r == g[n + 1]
  <2>5. Rolled(st, failed, n) /\ r = Undone(n + 1, st, failed)
    BY <2>1, <2>3
  <2> HIDE DEF st, r
  <2>6. CASE n + 1 \in failed
    <3>1. r = Rollback(st, batch[n + 1]) /\ MemoryOK(st)
      BY <2>5, <2>6 DEF Undone, Rolled
    <3>2. /\ MemoryOK(r)
          /\ \A u : u \in ToSet(r.seen) <=> u \in ToSet(st.seen) /\ u # UrlOf[batch[n + 1]]
          /\ \A s : s \in ToSet(r.titles) <=> s \in ToSet(st.titles) /\ s.key # TitleOf[batch[n + 1]]
      BY <3>1, RollbackProperties
    <3>3. Rolled(r, failed, n + 1)
      BY <2>4, <2>5, <2>6, <3>2 DEF Rolled
    <3> QED BY <3>3 DEF r
  <2>7. CASE n + 1 \notin failed
    <3>1. r = st
      BY <2>5, <2>7 DEF Undone
    <3>2. Rolled(r, failed, n + 1)
      BY <2>4, <2>5, <2>7, <3>1 DEF Rolled
    <3> QED BY <3>2 DEF r
  <2> QED BY <2>6, <2>7
<1> HIDE DEF S
<1>5. \A n \in Nat : n \in S
  BY <1>3, <1>4, SetInduction
<1>6. Rolled(g[Len(batch)], failed, Len(batch))
  BY <1>1, <1>5 DEF S
<1> QED BY <1>2, <1>6 DEF Rolled, MemoryOK

-----------------------------------------------------------------------------
(* The poller's invariant.  Its steps, for the poller alone and for the      *)
(* poller beside the push channel, which may commit a row at any time.       *)

RowFromElsewhere == \E i \in Item : CommitRow(i) /\ UNCHANGED pollerVars
PollerStep ==
    \/ PollerNext
    \/ \E i \in Item : DrainRow(i)
    \/ RestartPoller
    \/ RowFromElsewhere
    \/ UNCHANGED vars

PollerOK ==
    /\ MemoryOK(Memory) /\ PassedOK
    /\ pass \in {"idle", "tick", "probe"}
    /\ batch \in Seq(Item)
    /\ outcome \in [1..Len(batch) -> {"due", "ok", "failed"}]
    /\ pass = "idle" => batch = <<>>
    /\ passTime \in 0..MaxTime /\ passTime <= now
    /\ stored \subseteq landed /\ landed \subseteq Item
    /\ faulted \in BOOLEAN

\* What a pass starts with.
LEMMA StartPassFilters ==
    ASSUME PollerOK, NEW kind, NEW served \in Servings, StartPass(kind, served)
    PROVE  LET st == Filter(served) IN
           /\ LoopInv(st, Len(served)) /\ Len(served) <= MaxServed
           /\ seen' = st.seen /\ titles' = st.titles /\ batch' = st.new
           /\ outcome' = [n \in 1..Len(batch') |-> "due"]
           /\ batch' \in Seq(Item)
           /\ pass = "idle" /\ batch = <<>>
           /\ pass' = IF batch' = <<>> THEN "idle" ELSE kind
           /\ passTime' = now /\ UNCHANGED <<now, passedAt, faulted, storeVars>>
<1> DEFINE st == Filter(served)
<1>1. LoopInv(st, Len(served)) /\ Len(served) <= MaxServed
  BY FilterProperties DEF PollerOK
<1>2. /\ seen' = st.seen /\ titles' = st.titles /\ batch' = st.new
      /\ outcome' = [n \in DOMAIN st.new |-> "due"]
      /\ pass = "idle" /\ batch = <<>>
      /\ pass' = IF batch' = <<>> THEN "idle" ELSE kind
      /\ passTime' = now /\ UNCHANGED <<now, passedAt, faulted, storeVars>>
  BY DEF StartPass, PollerOK
<1> HIDE DEF st
<1>3. st.new \in Seq(Item)
  BY <1>1 DEF LoopInv, LoopTypes, States
<1>4. DOMAIN st.new = 1..Len(st.new)
  BY <1>3, SetOfSeq
<1> QED BY <1>1, <1>2, <1>3, <1>4 DEF st

LEMMA StartPassTypes ==
    ASSUME PollerOK, NEW kind \in {"tick", "probe"}, NEW served \in Servings, StartPass(kind, served)
    PROVE  PollerOK'
<1> DEFINE st == Filter(served)
<1>1. /\ LoopInv(st, Len(served))
      /\ seen' = st.seen /\ titles' = st.titles /\ batch' = st.new
      /\ outcome' = [n \in 1..Len(batch') |-> "due"]
      /\ batch' \in Seq(Item)
      /\ pass' = IF batch' = <<>> THEN "idle" ELSE kind
      /\ passTime' = now /\ UNCHANGED <<now, passedAt, faulted, storeVars>>
  BY StartPassFilters
<1> HIDE DEF st
<1>2. MemoryOK(Memory)'
  BY <1>1 DEF LoopInv, LoopTypes, MemoryOK, Memory
<1>3. PassedOK'
  BY <1>1 DEF PollerOK, PassedOK
<1>4. passTime' \in 0..MaxTime /\ passTime' <= now'
  BY <1>1 DEF PollerOK, PassedOK
<1> QED BY <1>1, <1>2, <1>3, <1>4 DEF PollerOK, storeVars

LEMMA AbortPassFilters ==
    ASSUME PollerOK, AbortPass
    PROVE  /\ PollerOK'
           /\ TitlesFit /\ TitleWindow > 0 /\ Covered(titles) => Covered(titles)'
           /\ ReadFaults /\ batch = <<>> /\ faulted' = TRUE
           /\ UNCHANGED <<passVars, now, passedAt, storeVars>>
<1>1. PICK served \in Servings, i \in Item :
        seen' = Add(Filter(served).seen, UrlOf[i]) /\ titles' = Filter(served).titles
  BY DEF AbortPass
<1> DEFINE st == Filter(served)
<1>2. LoopInv(st, Len(served))
  BY FilterProperties DEF PollerOK
<1>3. seen' = Add(st.seen, UrlOf[i]) /\ titles' = st.titles
  BY <1>1
<1>4. /\ ReadFaults /\ batch = <<>> /\ faulted' = TRUE
      /\ UNCHANGED <<passVars, now, passedAt, storeVars>>
  BY DEF AbortPass, PollerOK
<1> HIDE DEF st
<1>5. MemoryOK(st) /\ UrlOf[i] \in Urls
  BY <1>2 DEF LoopInv, LoopTypes, Urls
<1>6. seen' \in Seq(Urls) /\ Distinct(seen') /\ Len(seen') <= SeenCap
  BY <1>3, <1>5, AddProperties DEF MemoryOK
<1>7. MemoryOK(Memory)'
  BY <1>3, <1>5, <1>6 DEF MemoryOK, Memory
<1>8. PassedOK'
  BY <1>4 DEF PollerOK, PassedOK
<1>9. PollerOK'
  BY <1>4, <1>7, <1>8 DEF PollerOK, passVars, storeVars
<1>10. TitlesFit /\ TitleWindow > 0 /\ Covered(titles) => Covered(titles)'
  BY <1>2, <1>3, <1>4 DEF LoopInv, Covered
<1> QED BY <1>4, <1>9, <1>10

\* A failed item of a probe, and the failed items of a tick at its end, are
\* forgotten.
Failures == IF pass = "tick" THEN {n \in DOMAIN batch : outcome[n] = "failed"} ELSE {}

LEMMA IngestFailsForgets ==
    ASSUME PollerOK, NEW n \in 1..Len(batch), IngestFails(n)
    PROVE  /\ pass \in {"tick", "probe"} /\ outcome[n] = "due"
           /\ outcome' = [outcome EXCEPT ![n] = "failed"]
           /\ UNCHANGED <<pass, batch, passTime, now, passedAt, faulted, storeVars>>
           /\ \/ pass = "probe" /\ Rolled([seen |-> seen', titles |-> titles'], {n}, Len(batch))
              \/ pass = "tick" /\ UNCHANGED memory
<1>1. /\ pass \in {"tick", "probe"} /\ outcome[n] = "due"
      /\ outcome' = [outcome EXCEPT ![n] = "failed"]
      /\ UNCHANGED <<pass, batch, passTime, now, passedAt, faulted, storeVars>>
      /\ IF pass = "probe" THEN Forget({n}) ELSE UNCHANGED memory
  BY DEF IngestFails, MayIngest, PollerOK
<1>2. CASE pass = "probe"
  BY <1>1, <1>2, ForgetProperties DEF PollerOK
<1>3. CASE pass = "tick"
  BY <1>1, <1>3
<1> QED BY <1>1, <1>2, <1>3

LEMMA EndPassForgets ==
    ASSUME PollerOK, EndPass
    PROVE  /\ pass \in {"tick", "probe"} /\ \A n \in 1..Len(batch) : outcome[n] # "due"
           /\ Rolled([seen |-> seen', titles |-> titles'], Failures, Len(batch))
           /\ pass' = "idle" /\ batch' = <<>> /\ outcome' = <<>>
           /\ UNCHANGED <<passTime, now, passedAt, faulted, storeVars>>
<1>1. batch \in Seq(Item) /\ DOMAIN batch = 1..Len(batch)
  BY SetOfSeq DEF PollerOK
<1>2. /\ pass \in {"tick", "probe"} /\ \A n \in 1..Len(batch) : outcome[n] # "due"
      /\ IF pass = "tick" THEN Forget(Failures) ELSE UNCHANGED memory
      /\ pass' = "idle" /\ batch' = <<>> /\ outcome' = <<>>
      /\ UNCHANGED <<passTime, now, passedAt, faulted, storeVars>>
  BY <1>1 DEF EndPass, PollerOK, Failures
<1>3. CASE pass = "tick"
  BY <1>2, <1>3, ForgetProperties DEF PollerOK
<1>4. CASE pass = "probe"
  BY <1>2, <1>4 DEF Failures, Rolled, memory, PollerOK, Memory, MemoryOK
<1> QED BY <1>2, <1>3, <1>4

LEMMA PollerTypes ==
    PollerOK /\ PollerStep => PollerOK'
<1> SUFFICES ASSUME PollerOK, PollerStep PROVE PollerOK'
  OBVIOUS
<1>0. /\ Len(batch) \in Nat /\ DOMAIN batch = 1..Len(batch)
      /\ \A n \in 1..Len(batch) : batch[n] \in Item
      /\ Len(<<>>) = 0
  <2>1. batch \in Seq(Item)
    BY DEF PollerOK
  <2> QED BY <2>1, SetOfSeq
<1>1. ASSUME NEW served \in Servings, NEW kind \in {"tick", "probe"}, StartPass(kind, served)
      PROVE  PollerOK'
  BY <1>1, StartPassTypes
<1>2. CASE AbortPass
  BY <1>2, AbortPassFilters
<1>3. ASSUME NEW n \in 1..Len(batch), Ingested(n)
      PROVE  PollerOK'
  <2>1. /\ CommitRow(batch[n]) /\ passedAt' = [passedAt EXCEPT ![batch[n]] = passTime]
        /\ outcome' = [outcome EXCEPT ![n] = "ok"]
        /\ UNCHANGED <<memory, pass, batch, passTime, now, faulted>>
    BY <1>3 DEF Ingested
  <2>2. MemoryOK(Memory)'
    BY <2>1 DEF PollerOK, memory, Memory, MemoryOK
  <2>3. PassedOK'
    <3>1. passTime \in 0..Never
      BY PollerAssumption DEF PollerOK, Never
    <3>2. /\ passedAt' \in [Item -> 0..Never] /\ now' = now
          /\ \A i \in Item : passedAt'[i] = IF i = batch[n] THEN passTime ELSE passedAt[i]
      BY <2>1, <3>1 DEF PollerOK, PassedOK
    <3> QED BY <3>2 DEF PollerOK, PassedOK
  <2>4. stored' \subseteq landed' /\ landed' \subseteq Item
    BY <1>0, <2>1 DEF CommitRow, PollerOK
  <2> QED BY <2>1, <2>2, <2>3, <2>4 DEF PollerOK
<1>4. ASSUME NEW n \in 1..Len(batch), IngestFails(n)
      PROVE  PollerOK'
  <2>1. /\ outcome' = [outcome EXCEPT ![n] = "failed"]
        /\ UNCHANGED <<pass, batch, passTime, now, passedAt, faulted, storeVars>>
        /\ \/ Rolled([seen |-> seen', titles |-> titles'], {n}, Len(batch))
           \/ UNCHANGED memory
    BY <1>4, IngestFailsForgets
  <2>2. MemoryOK(Memory)'
    BY <2>1 DEF PollerOK, memory, Memory, MemoryOK, Rolled
  <2>3. PassedOK'
    BY <2>1 DEF PollerOK, PassedOK
  <2> QED BY <2>1, <2>2, <2>3 DEF PollerOK, storeVars
<1>5. CASE EndPass
  <2>1. /\ pass' = "idle" /\ batch' = <<>> /\ outcome' = <<>>
        /\ UNCHANGED <<passTime, now, passedAt, faulted, storeVars>>
        /\ Rolled([seen |-> seen', titles |-> titles'], Failures, Len(batch))
    BY <1>5, EndPassForgets
  <2>2. MemoryOK(Memory)'
    BY <2>1 DEF Memory, MemoryOK, Rolled
  <2>3. PassedOK'
    BY <2>1 DEF PollerOK, PassedOK
  <2>4. batch' \in Seq(Item) /\ outcome' \in [1..Len(batch') -> {"due", "ok", "failed"}]
    BY <1>0, <2>1
  <2> QED BY <2>1, <2>2, <2>3, <2>4 DEF PollerOK, storeVars
<1>6. CASE ClockTick
  <2>1. now < MaxTime /\ now' = now + 1 /\ UNCHANGED <<memory, passVars, passedAt, faulted, storeVars>>
    BY <1>6 DEF ClockTick
  <2>2. now' \in 0..MaxTime /\ passTime <= now' /\ \A i \in Item : passedAt[i] # Never => passedAt[i] <= now'
    BY <2>1, PollerAssumption DEF PollerOK, PassedOK, Never
  <2>3. MemoryOK(Memory)'
    BY <2>1 DEF PollerOK, memory, Memory, MemoryOK
  <2>4. PassedOK'
    BY <2>1, <2>2 DEF PollerOK, PassedOK
  <2> QED BY <2>1, <2>2, <2>3, <2>4 DEF PollerOK, storeVars, passVars
<1>7. ASSUME NEW i \in Item, DrainRow(i)
      PROVE  PollerOK'
  <2>1. stored' = stored \ {i} /\ UNCHANGED <<pollerVars, landed>>
    BY <1>7 DEF DrainRow
  <2>2. MemoryOK(Memory)' /\ PassedOK'
    BY <2>1 DEF PollerOK, pollerVars, memory, Memory, MemoryOK, PassedOK
  <2> QED BY <2>1, <2>2 DEF PollerOK, pollerVars, passVars
<1>8. CASE RestartPoller
  <2>1. /\ seen' = <<>> /\ titles' = <<>>
        /\ pass' = "idle" /\ batch' = <<>> /\ outcome' = <<>>
        /\ passedAt' = [i \in Item |-> Never]
        /\ faulted' = FALSE
        /\ UNCHANGED <<passTime, now, storeVars>>
    BY <1>8 DEF RestartPoller
  <2>2. MemoryOK(Memory)'
    BY <1>0, <2>1, PollerAssumption DEF Memory, MemoryOK, Distinct, DistinctKeys
  <2>3. PassedOK'
    <3>1. Never \in 0..Never
      BY PollerAssumption DEF Never
    <3> QED BY <2>1, <3>1 DEF PollerOK, PassedOK
  <2>4. batch' \in Seq(Item) /\ outcome' \in [1..Len(batch') -> {"due", "ok", "failed"}]
    BY <1>0, <2>1
  <2> QED BY <2>1, <2>2, <2>3, <2>4 DEF PollerOK, storeVars
<1>9. CASE RowFromElsewhere
  <2>1. PICK i \in Item : CommitRow(i) /\ UNCHANGED pollerVars
    BY <1>9 DEF RowFromElsewhere
  <2>2. MemoryOK(Memory)' /\ PassedOK'
    BY <2>1 DEF PollerOK, pollerVars, memory, Memory, MemoryOK, PassedOK
  <2> QED BY <2>1, <2>2 DEF PollerOK, pollerVars, passVars, CommitRow
<1>10. CASE UNCHANGED vars
  <2>1. MemoryOK(Memory)' /\ PassedOK'
    BY <1>10 DEF PollerOK, vars, pollerVars, memory, Memory, MemoryOK, PassedOK
  <2> QED BY <1>10, <2>1 DEF PollerOK, vars, pollerVars, passVars, storeVars
<1> QED BY <1>0, <1>1, <1>2, <1>3, <1>4, <1>5, <1>6, <1>7, <1>8, <1>9, <1>10 DEF PollerStep, PollerNext

-----------------------------------------------------------------------------
(* Nothing is remembered for nothing: what is remembered belongs to a story  *)
(* that landed, or to an item of the pass that will land or be rolled back.  *)

Pending(n) == outcome[n] = "due" \/ (outcome[n] = "failed" /\ pass = "tick")

EarnedTitles ==
    \A s \in ToSet(titles) :
        \/ \E i \in landed : TitleOf[i] = s.key
        \/ \E n \in 1..Len(batch) : Pending(n) /\ TitleOf[batch[n]] = s.key

EarnedUrls ==
    \A u \in ToSet(seen) :
        \/ \E i \in landed : UrlOf[i] = u
        \/ \E n \in 1..Len(batch) : Pending(n) /\ UrlOf[batch[n]] = u

Earned ==
    ~faulted => EarnedTitles /\ (TitleWindow = 0 => EarnedUrls)

LEMMA StartPassEarned ==
    ASSUME PollerOK, Earned, NEW kind, NEW served \in Servings, StartPass(kind, served)
    PROVE  Earned'
<1> DEFINE st == Filter(served)
<1>1. /\ LoopInv(st, Len(served))
      /\ seen' = st.seen /\ titles' = st.titles /\ batch' = st.new
      /\ outcome' = [n \in 1..Len(batch') |-> "due"]
      /\ batch = <<>>
      /\ UNCHANGED <<now, passedAt, faulted, storeVars>>
  BY StartPassFilters
<1> HIDE DEF st
<1>2. Len(batch) = 0 /\ \A n \in 1..Len(batch') : Pending(n)'
  BY <1>1 DEF Pending
<1> SUFFICES ASSUME ~faulted' PROVE EarnedTitles' /\ (TitleWindow = 0 => EarnedUrls')
  BY DEF Earned
<1>3. EarnedTitles /\ (TitleWindow = 0 => EarnedUrls) /\ stored \subseteq landed /\ landed' = landed
  BY <1>1 DEF Earned, storeVars, PollerOK
<1>4. EarnedTitles'
  BY <1>1, <1>2, <1>3 DEF EarnedTitles, LoopInv, TitlesFrom
<1>5. ASSUME TitleWindow = 0 PROVE EarnedUrls'
  BY <1>1, <1>2, <1>3, <1>5 DEF EarnedUrls, LoopInv, UrlsFrom
<1> QED BY <1>4, <1>5

LEMMA PollerEarned ==
    PollerOK /\ Earned /\ PollerStep => Earned'
<1> SUFFICES ASSUME PollerOK, Earned, PollerStep PROVE Earned'
  OBVIOUS
<1>0. /\ Len(batch) \in Nat /\ DOMAIN batch = 1..Len(batch)
      /\ \A n \in 1..Len(batch) : batch[n] \in Item
      /\ Len(<<>>) = 0
  <2>1. batch \in Seq(Item)
    BY DEF PollerOK
  <2> QED BY <2>1, SetOfSeq
<1>1. ASSUME NEW served \in Servings, NEW kind, StartPass(kind, served)
      PROVE  Earned'
  BY <1>1, StartPassEarned
<1>2. CASE AbortPass
  BY <1>2, AbortPassFilters DEF Earned
<1>3. ASSUME NEW n \in 1..Len(batch), Ingested(n)
      PROVE  Earned'
  <2>1. /\ landed' = landed \cup {batch[n]}
        /\ outcome' = [outcome EXCEPT ![n] = "ok"]
        /\ UNCHANGED <<seen, titles, pass, batch, faulted>>
    BY <1>3 DEF Ingested, CommitRow, memory
  <2>2. \A m \in 1..Len(batch) : m # n => outcome'[m] = outcome[m]
    BY <2>1 DEF PollerOK
  <2>3. \A m \in 1..Len(batch) : Pending(m) => Pending(m)' \/ m = n
    BY <2>1, <2>2 DEF Pending
  <2> QED BY <2>1, <2>3 DEF Earned, EarnedTitles, EarnedUrls
<1>4. ASSUME NEW n \in 1..Len(batch), IngestFails(n)
      PROVE  Earned'
  <2>1. /\ pass \in {"tick", "probe"} /\ outcome[n] = "due"
        /\ outcome' = [outcome EXCEPT ![n] = "failed"]
        /\ UNCHANGED <<pass, batch, passTime, now, passedAt, faulted, storeVars>>
        /\ \/ pass = "probe" /\ Rolled([seen |-> seen', titles |-> titles'], {n}, Len(batch))
           \/ pass = "tick" /\ UNCHANGED memory
    BY <1>4, IngestFailsForgets
  <2>2. outcome'[n] = "failed" /\ \A m \in 1..Len(batch) : m # n => outcome'[m] = outcome[m]
    BY <2>1 DEF PollerOK
  <2>3. CASE pass = "tick" /\ UNCHANGED memory
    <3>1. \A m \in 1..Len(batch) : Pending(m) => Pending(m)'
      BY <2>1, <2>2, <2>3 DEF Pending
    <3> QED BY <2>1, <2>3, <3>1 DEF Earned, EarnedTitles, EarnedUrls, memory, storeVars
  <2>4. CASE pass = "probe" /\ Rolled([seen |-> seen', titles |-> titles'], {n}, Len(batch))
    <3>1. \A m \in 1..Len(batch) : Pending(m) => Pending(m)' \/ m = n
      BY <2>1, <2>2 DEF Pending
    <3>2. /\ \A u \in ToSet(seen') : u \in ToSet(seen) /\ u # UrlOf[batch[n]]
          /\ \A s \in ToSet(titles') : s \in ToSet(titles) /\ s.key # TitleOf[batch[n]]
      BY <2>4 DEF Rolled
    <3> QED BY <2>1, <3>1, <3>2 DEF Earned, EarnedTitles, EarnedUrls, storeVars
  <2> QED BY <2>1, <2>3, <2>4
<1>5. CASE EndPass
  <2>1. /\ pass \in {"tick", "probe"} /\ \A n \in 1..Len(batch) : outcome[n] # "due"
        /\ Rolled([seen |-> seen', titles |-> titles'], Failures, Len(batch))
        /\ UNCHANGED <<faulted, storeVars>>
    BY <1>5, EndPassForgets
  <2>2. \A m \in 1..Len(batch) : Pending(m) => m \in Failures
    BY <1>0, <2>1 DEF Pending, Failures
  <2>3. /\ \A u \in ToSet(seen') : u \in ToSet(seen) /\ \A m \in 1..Len(batch) : Pending(m) => u # UrlOf[batch[m]]
        /\ \A s \in ToSet(titles') :
              s \in ToSet(titles) /\ \A m \in 1..Len(batch) : Pending(m) => s.key # TitleOf[batch[m]]
    BY <2>1, <2>2 DEF Rolled
  <2> QED BY <2>1, <2>3 DEF Earned, EarnedTitles, EarnedUrls, storeVars
<1>6. CASE ClockTick
  BY <1>6 DEF ClockTick, memory, passVars, storeVars, Earned, EarnedTitles, EarnedUrls, Pending
<1>7. ASSUME NEW i \in Item, DrainRow(i)
      PROVE  Earned'
  BY <1>7 DEF DrainRow, pollerVars, memory, passVars, Earned, EarnedTitles, EarnedUrls, Pending
<1>8. CASE RestartPoller
  <2>1. seen' = <<>> /\ titles' = <<>>
    BY <1>8 DEF RestartPoller
  <2>2. ToSet(<<>>) = {}
    BY DEF ToSet
  <2> QED BY <2>1, <2>2 DEF Earned, EarnedTitles, EarnedUrls
<1>9. CASE RowFromElsewhere
  <2>1. landed \subseteq landed' /\ UNCHANGED pollerVars
    BY <1>9 DEF RowFromElsewhere, CommitRow
  <2> QED BY <2>1 DEF pollerVars, memory, passVars, Earned, EarnedTitles, EarnedUrls, Pending
<1>10. CASE UNCHANGED vars
  BY <1>10 DEF vars, pollerVars, memory, passVars, storeVars, Earned, EarnedTitles, EarnedUrls, Pending
<1> QED BY <1>0, <1>1, <1>2, <1>3, <1>4, <1>5, <1>6, <1>7, <1>8, <1>9, <1>10 DEF PollerStep, PollerNext

-----------------------------------------------------------------------------
(* One story per window. *)

\* A story that passed is remembered by its title; the items of a pass have
\* titles of their own, that had not passed lately when the pass began, and
\* remembered since.
PassCovered ==
    /\ Covered(titles)
    /\ \A n \in 1..Len(batch) : TitleOf[batch[n]] # NoTitle =>
        /\ \A m \in 1..Len(batch) : TitleOf[batch[m]] = TitleOf[batch[n]] => m = n
        /\ outcome[n] # "ok" => LongPassed(TitleOf[batch[n]], passTime)
        /\ outcome[n] = "due" =>
            \E s \in ToSet(titles) : s.key = TitleOf[batch[n]] /\ s.at >= passTime

LEMMA RolledCovered ==
    ASSUME PollerOK, PassCovered, NEW failed, UNCHANGED <<now, passedAt>>,
           \A n \in failed \cap 1..Len(batch) : outcome[n] # "ok",
           Rolled([seen |-> seen', titles |-> titles'], failed, Len(batch))
    PROVE  Covered(titles)'
<1> SUFFICES ASSUME NEW i \in Item, passedAt[i] # Never, TitleOf[i] # NoTitle
             PROVE  \/ \E s \in ToSet(titles') : s.key = TitleOf[i] /\ s.at >= passedAt[i]
                    \/ now - passedAt[i] > TitleWindow
  BY DEF Covered
<1>1. CASE \E m \in 1..Len(batch) : m \in failed /\ TitleOf[batch[m]] = TitleOf[i]
  <2>1. PICK m \in 1..Len(batch) : m \in failed /\ TitleOf[batch[m]] = TitleOf[i]
    BY <1>1
  <2>2. passTime - passedAt[i] > TitleWindow
    BY <2>1 DEF PassCovered, LongPassed
  <2>3. /\ passTime \in Int /\ now \in Int /\ passTime <= now /\ passedAt[i] \in Int
        /\ TitleWindow \in Int
    BY PollerAssumption DEF PollerOK, PassedOK, Never
  <2> QED BY <2>2, <2>3
<1>2. CASE ~ \E m \in 1..Len(batch) : m \in failed /\ TitleOf[batch[m]] = TitleOf[i]
  BY <1>2 DEF Rolled, PassCovered, Covered
<1> QED BY <1>1, <1>2

LEMMA PollerCovers ==
    ASSUME TitlesFit, TitleWindow > 0, PollerOK, PassCovered, PollerStep
    PROVE  PassCovered'
<1>0. /\ Len(batch) \in Nat /\ DOMAIN batch = 1..Len(batch)
      /\ \A n \in 1..Len(batch) : batch[n] \in Item
      /\ Len(<<>>) = 0
  <2>1. batch \in Seq(Item)
    BY DEF PollerOK
  <2> QED BY <2>1, SetOfSeq
<1>1. ASSUME NEW served \in Servings, NEW kind, StartPass(kind, served)
      PROVE  PassCovered'
  <2> DEFINE st == Filter(served)
  <2>1. /\ LoopInv(st, Len(served))
        /\ seen' = st.seen /\ titles' = st.titles /\ batch' = st.new
        /\ passTime' = now /\ UNCHANGED <<now, passedAt, faulted, storeVars>>
    BY <1>1, StartPassFilters
  <2> HIDE DEF st
  <2>2. Covered(st.titles) /\ NewTitles(st)
    BY <2>1 DEF LoopInv, PassCovered
  <2>3. Covered(titles)'
    BY <2>1, <2>2 DEF Covered
  <2>4. now >= now
    BY DEF PollerOK, PassedOK
  <2> QED BY <2>1, <2>2, <2>3, <2>4 DEF PassCovered, NewTitles, LongPassed
<1>2. CASE AbortPass
  <2>1. /\ Covered(titles)' /\ batch' = <<>>
    BY <1>2, AbortPassFilters DEF PassCovered, passVars
  <2> QED BY <1>0, <2>1 DEF PassCovered
<1>3. ASSUME NEW n \in 1..Len(batch), Ingested(n)
      PROVE  PassCovered'
  <2>1. /\ outcome[n] = "due" /\ passedAt' = [passedAt EXCEPT ![batch[n]] = passTime]
        /\ outcome' = [outcome EXCEPT ![n] = "ok"]
        /\ UNCHANGED <<titles, batch, passTime, now>>
    BY <1>3 DEF Ingested, MayIngest, memory
  <2>2. /\ outcome'[n] = "ok" /\ \A m \in 1..Len(batch) : m # n => outcome'[m] = outcome[m]
        /\ passedAt'[batch[n]] = passTime
        /\ \A i \in Item : i # batch[n] => passedAt'[i] = passedAt[i]
    BY <1>0, <2>1 DEF PollerOK, PassedOK
  <2>3. Covered(titles)'
    <3> SUFFICES ASSUME NEW i \in Item, passedAt'[i] # Never, TitleOf[i] # NoTitle
                 PROVE  \/ \E s \in ToSet(titles) : s.key = TitleOf[i] /\ s.at >= passedAt'[i]
                        \/ now - passedAt'[i] > TitleWindow
      BY <2>1 DEF Covered
    <3>1. CASE i = batch[n]
      BY <2>1, <2>2, <3>1 DEF PassCovered
    <3>2. CASE i # batch[n]
      BY <2>2, <3>2 DEF PassCovered, Covered
    <3> QED BY <3>1, <3>2
  <2>4. ASSUME NEW m \in 1..Len(batch), TitleOf[batch[m]] # NoTitle, outcome'[m] # "ok"
        PROVE  LongPassed(TitleOf[batch[m]], passTime)'
    <3>1. m # n /\ LongPassed(TitleOf[batch[m]], passTime) /\ TitleOf[batch[n]] # TitleOf[batch[m]]
      BY <2>2, <2>4 DEF PassCovered
    <3> QED BY <2>1, <2>2, <3>1 DEF LongPassed
  <2> QED BY <2>1, <2>2, <2>3, <2>4 DEF PassCovered
<1>4. ASSUME NEW n \in 1..Len(batch), IngestFails(n)
      PROVE  PassCovered'
  <2>1. /\ outcome[n] = "due"
        /\ outcome' = [outcome EXCEPT ![n] = "failed"]
        /\ UNCHANGED <<pass, batch, passTime, now, passedAt, faulted, storeVars>>
        /\ \/ Rolled([seen |-> seen', titles |-> titles'], {n}, Len(batch))
           \/ UNCHANGED memory
    BY <1>4, IngestFailsForgets
  <2>2. outcome'[n] = "failed" /\ \A m \in 1..Len(batch) : m # n => outcome'[m] = outcome[m]
    BY <2>1 DEF PollerOK
  <2>3. Covered(titles)'
    <3>1. CASE UNCHANGED memory
      BY <2>1, <3>1 DEF memory, PassCovered, Covered
    <3>2. CASE Rolled([seen |-> seen', titles |-> titles'], {n}, Len(batch))
      <4>1. \A m \in {n} \cap 1..Len(batch) : outcome[m] # "ok"
        BY <2>1
      <4> QED BY <2>1, <3>2, <4>1, RolledCovered
    <3> QED BY <2>1, <3>1, <3>2
  <2>4. ASSUME NEW m \in 1..Len(batch), TitleOf[batch[m]] # NoTitle, outcome'[m] = "due"
        PROVE  \E s \in ToSet(titles') : s.key = TitleOf[batch[m]] /\ s.at >= passTime
    <3>1. m # n /\ outcome[m] = "due"
      BY <2>2, <2>4
    <3>2. TitleOf[batch[n]] # TitleOf[batch[m]]
      BY <2>4, <3>1 DEF PassCovered
    <3>3. PICK s \in ToSet(titles) : s.key = TitleOf[batch[m]] /\ s.at >= passTime
      BY <2>4, <3>1 DEF PassCovered
    <3>4. s \in ToSet(titles')
      BY <2>1, <3>2, <3>3 DEF Rolled, memory
    <3> QED BY <3>3, <3>4
  <2>5. \A m \in 1..Len(batch) : TitleOf[batch[m]] # NoTitle /\ outcome'[m] # "ok" =>
            LongPassed(TitleOf[batch[m]], passTime)'
    <3>1. \A m \in 1..Len(batch) : outcome'[m] # "ok" => outcome[m] # "ok"
      BY <2>1, <2>2
    <3> QED BY <2>1, <3>1 DEF PassCovered, LongPassed
  <2> QED BY <2>1, <2>3, <2>4, <2>5 DEF PassCovered
<1>5. CASE EndPass
  <2>1. /\ \A n \in 1..Len(batch) : outcome[n] # "due"
        /\ Rolled([seen |-> seen', titles |-> titles'], Failures, Len(batch))
        /\ batch' = <<>> /\ UNCHANGED <<now, passedAt>>
    BY <1>5, EndPassForgets
  <2>2. \A n \in Failures \cap 1..Len(batch) : outcome[n] # "ok"
    BY DEF Failures
  <2>3. Covered(titles)'
    BY <2>1, <2>2, RolledCovered
  <2> QED BY <1>0, <2>1, <2>3 DEF PassCovered
<1>6. CASE ClockTick
  <2>1. now' = now + 1 /\ UNCHANGED <<titles, batch, outcome, passTime, passedAt>>
    BY <1>6 DEF ClockTick, memory, passVars
  <2>2. Covered(titles)'
    <3>1. now \in Int /\ TitleWindow \in Int /\ \A i \in Item : passedAt[i] \in Int
      BY PollerAssumption DEF PollerOK, PassedOK, Never
    <3>2. \A i \in Item : now - passedAt[i] > TitleWindow => now' - passedAt[i] > TitleWindow
      BY <2>1, <3>1
    <3> QED BY <2>1, <3>2 DEF PassCovered, Covered
  <2> QED BY <2>1, <2>2 DEF PassCovered, LongPassed
<1>7. ASSUME NEW i \in Item, DrainRow(i)
      PROVE  PassCovered'
  BY <1>7 DEF DrainRow, pollerVars, memory, passVars, PassCovered, Covered, LongPassed
<1>8. CASE RestartPoller
  <2>1. batch' = <<>> /\ passedAt' = [i \in Item |-> Never]
    BY <1>8 DEF RestartPoller
  <2> QED BY <1>0, <2>1 DEF PassCovered, Covered
<1>9. CASE RowFromElsewhere
  BY <1>9 DEF RowFromElsewhere, pollerVars, memory, passVars, PassCovered, Covered, LongPassed
<1>10. CASE UNCHANGED vars
  BY <1>10 DEF vars, pollerVars, memory, passVars, PassCovered, Covered, LongPassed
<1> QED BY <1>0, <1>1, <1>2, <1>3, <1>4, <1>5, <1>6, <1>7, <1>8, <1>9, <1>10 DEF PollerStep, PollerNext

-----------------------------------------------------------------------------
(* The poller on its own. *)

LEMMA PollerInit ==
    ASSUME Init
    PROVE  PollerOK /\ Earned /\ PassCovered /\ OneStoryPerWindow
<1>1. Len(<<>>) = 0 /\ ToSet(<<>>) = {} /\ <<>> \in Seq(Item)
  BY DEF ToSet
<1>2. MemoryOK(Memory)
  BY <1>1, PollerAssumption DEF Init, MemoryOK, Memory, Distinct, DistinctKeys
<1>3. PassedOK
  <2>1. Never \in 0..Never /\ 0 \in 0..MaxTime
    BY PollerAssumption DEF Never
  <2> QED BY <2>1 DEF Init, PassedOK
<1>4. PollerOK
  <2>1. 0 \in 0..MaxTime /\ 0 <= 0
    BY PollerAssumption
  <2>2. outcome \in [1..Len(batch) -> {"due", "ok", "failed"}]
    BY <1>1 DEF Init
  <2>3. now = 0 /\ passTime = 0 /\ batch = <<>> /\ pass = "idle" /\ stored = {} /\ landed = {} /\ ~faulted
    BY DEF Init
  <2>4. faulted \in BOOLEAN
    BY DEF Init
  <2> QED BY <1>1, <1>2, <1>3, <2>1, <2>2, <2>3, <2>4 DEF PollerOK
<1>5. Earned
  BY <1>1 DEF Init, Earned, EarnedTitles, EarnedUrls
<1>6. PassCovered /\ OneStoryPerWindow
  BY <1>1 DEF Init, PassCovered, Covered, OneStoryPerWindow
<1> QED BY <1>4, <1>5, <1>6

LEMMA NextIsPollerStep ==
    [Next]_vars => PollerStep
BY DEF Next, PollerStep

LEMMA PollerOKTypes ==
    PollerOK => PollerTypeOK
<1> SUFFICES ASSUME PollerOK PROVE PollerTypeOK
  OBVIOUS
<1>1. DOMAIN batch = 1..Len(batch)
  BY SetOfSeq DEF PollerOK
<1> DEFINE S == [key : {TitleOf[i] : i \in Item}, at : 0..MaxTime]
<1>2. \A n \in 1..Len(titles) : titles[n] \in S
  <2>1. titles \in Seq(Sightings)
    BY DEF PollerOK, MemoryOK, Memory
  <2>2. \A n \in 1..Len(titles) : titles[n] \in Sightings
    BY <2>1
  <2> QED BY <2>2 DEF Sightings, Titles
<1>3. titles \in Seq(S)
  <2>1. titles \in Seq(Sightings)
    BY DEF PollerOK, MemoryOK, Memory
  <2> HIDE DEF S
  <2> QED BY <1>2, <2>1
<1>4. /\ seen \in Seq({UrlOf[i] : i \in Item}) /\ Len(seen) <= SeenCap
      /\ Len(titles) <= TitleCap
  BY DEF PollerOK, MemoryOK, Memory, Urls
<1> QED BY <1>1, <1>3, <1>4 DEF PollerOK, PassedOK, PollerTypeOK

\* Every variable of the poller stays within its type: neither memory grows
\* beyond its capacity (news_poller.py, _SeenCache and _record_title).
THEOREM PollerTypeCorrect ==
    Spec => []PollerTypeOK
<1>1. Init => PollerOK
  BY PollerInit
<1>2. PollerOK /\ [Next]_vars => PollerOK'
  BY NextIsPollerStep, PollerTypes
<1>3. PollerOK => PollerTypeOK
  BY PollerOKTypes
<1> QED BY <1>1, <1>2, <1>3, PTL DEF Spec

\* A title is remembered only on behalf of a story that landed: when no pass
\* runs and no read of the store has raised, each remembered title is one of
\* an item that had a row (_rollback_title).
THEOREM TitlesCorrect ==
    Spec => []TitlesHaveLanded
<1> DEFINE Inv == PollerOK /\ Earned
<1>1. Init => Inv
  BY PollerInit
<1>2. Inv /\ [Next]_vars => Inv'
  BY NextIsPollerStep, PollerTypes, PollerEarned
<1>3. Inv => TitlesHaveLanded
  <2> SUFFICES ASSUME PollerOK, Earned, pass = "idle", ~faulted, NEW s \in ToSet(titles)
               PROVE  \E i \in landed : TitleOf[i] = s.key
    BY DEF TitlesHaveLanded
  <2>1. Len(batch) = 0
    BY DEF PollerOK
  <2> QED BY <2>1 DEF Earned, EarnedTitles
<1> HIDE DEF Inv
<1> QED BY <1>1, <1>2, <1>3, PTL DEF Spec

LEMMA StepKeepsOneStory ==
    ASSUME PollerOK, PassCovered, OneStoryPerWindow, [Next]_vars
    PROVE  OneStoryPerWindow'
<1>0. batch \in Seq(Item) /\ DOMAIN batch = 1..Len(batch) /\ passedAt \in [Item -> 0..Never]
  BY SetOfSeq DEF PollerOK, PassedOK
<1>1. ASSUME NEW n \in 1..Len(batch), Ingested(n)
      PROVE  OneStoryPerWindow'
  <2> DEFINE k == batch[n]
  <2>1. /\ outcome[n] = "due" /\ k \in Item
        /\ passedAt' = [passedAt EXCEPT ![k] = passTime]
    BY <1>0, <1>1 DEF Ingested, MayIngest
  <2>2. /\ passedAt'[k] = passTime
        /\ \A i \in Item : i # k => passedAt'[i] = passedAt[i]
    BY <1>0, <2>1
  <2>3. \A i \in Item : TitleOf[i] = TitleOf[k] /\ TitleOf[k] # NoTitle /\ passedAt[i] # Never =>
            passTime - passedAt[i] > TitleWindow
    BY <2>1 DEF PassCovered, LongPassed
  <2>4. /\ passTime \in Int /\ TitleWindow \in Int /\ TitleWindow >= 0
        /\ \A i \in Item : passedAt[i] \in Int
    BY PollerAssumption DEF PollerOK, PassedOK, Never
  <2> HIDE DEF k
  <2> SUFFICES ASSUME NEW i \in Item, NEW j \in Item,
                      i # j, TitleOf[i] = TitleOf[j], TitleOf[i] # NoTitle,
                      passedAt'[i] # Never, passedAt'[j] # Never, passedAt'[i] <= passedAt'[j]
               PROVE  passedAt'[j] - passedAt'[i] > TitleWindow
    BY DEF OneStoryPerWindow
  <2>5. CASE j = k
    BY <2>2, <2>3, <2>5
  <2>6. CASE i = k
    <3>1. passTime - passedAt[j] > TitleWindow /\ passTime <= passedAt[j]
      BY <2>2, <2>3, <2>6
    <3> QED BY <2>4, <3>1
  <2>7. CASE i # k /\ j # k
    BY <2>2, <2>7 DEF OneStoryPerWindow
  <2> QED BY <2>5, <2>6, <2>7
<1>2. CASE RestartPoller
  BY <1>2 DEF RestartPoller, OneStoryPerWindow
<1>3. CASE UNCHANGED passedAt
  BY <1>3 DEF OneStoryPerWindow
<1>4. \/ \E n \in 1..Len(batch) : Ingested(n)
      \/ RestartPoller
      \/ UNCHANGED passedAt
  <2>1. ASSUME NEW served \in Servings, NEW kind, StartPass(kind, served) PROVE UNCHANGED passedAt
    BY <2>1 DEF StartPass
  <2>2. ASSUME NEW n, IngestFails(n) PROVE UNCHANGED passedAt
    BY <2>2 DEF IngestFails
  <2>3. AbortPass \/ EndPass \/ ClockTick \/ UNCHANGED vars => UNCHANGED passedAt
    BY DEF AbortPass, EndPass, ClockTick, vars, pollerVars
  <2>4. ASSUME NEW i, DrainRow(i) PROVE UNCHANGED passedAt
    BY <2>4 DEF DrainRow, pollerVars
  <2> QED BY <1>0, <2>1, <2>2, <2>3, <2>4 DEF Next, PollerNext
<1> QED BY <1>1, <1>2, <1>3, <1>4

\* Near-duplicate suppression: two articles with one title never both pass
\* within the window, whichever pass, probe or retry brought them, as long as
\* the memory of titles could hold all of them (_is_duplicate_title).
THEOREM TitleDedupCorrect ==
    ASSUME TitlesFit, TitleWindow > 0
    PROVE  Spec => []OneStoryPerWindow
<1> DEFINE Inv == PollerOK /\ PassCovered /\ OneStoryPerWindow
<1>1. Init => Inv
  BY PollerInit
<1>2. Inv /\ [Next]_vars => Inv'
  BY NextIsPollerStep, PollerTypes, PollerCovers, StepKeepsOneStory
<1>3. Inv => OneStoryPerWindow
  OBVIOUS
<1> HIDE DEF Inv
<1> QED BY <1>1, <1>2, <1>3, PTL DEF Spec

\* No two items of a pass have one url, and what is due has no row.
FreshBatch ==
    /\ \A m, n \in 1..Len(batch) : UrlOf[batch[m]] = UrlOf[batch[n]] => m = n
    /\ \A n \in 1..Len(batch) : outcome[n] = "due" => batch[n] \notin stored

LEMMA StepKeepsFreshBatch ==
    ASSUME MaxServed <= SeenCap + 1, PollerOK, FreshBatch, [Next]_vars
    PROVE  FreshBatch'
<1>0. batch \in Seq(Item) /\ DOMAIN batch = 1..Len(batch) /\ Len(<<>>) = 0
  BY SetOfSeq DEF PollerOK
<1>1. ASSUME NEW served \in Servings, NEW kind, StartPass(kind, served)
      PROVE  FreshBatch'
  <2> DEFINE st == Filter(served)
  <2>1. /\ LoopInv(st, Len(served)) /\ Len(served) <= MaxServed
        /\ batch' = st.new /\ stored' = stored
    BY <1>1, StartPassFilters DEF storeVars
  <2> HIDE DEF st
  <2>2. Len(served) <= SeenCap + 1
    <3>1. Len(served) \in Nat
      <4>1. PICK k \in 0..MaxServed : served \in [1..k -> Item]
        BY DEF Servings, BoundedSeq, SeqOf
      <4>2. k \in Nat /\ MaxServed \in Nat
        BY PollerAssumption
      <4> QED BY <4>1, <4>2
    <3> QED BY <2>1, <3>1, PollerAssumption
  <2> QED BY <2>1, <2>2 DEF FreshBatch, LoopInv, NewUrls
<1>2. CASE AbortPass
  BY <1>2 DEF AbortPass, passVars, storeVars, FreshBatch
<1>3. ASSUME NEW n \in 1..Len(batch), Ingested(n)
      PROVE  FreshBatch'
  <2>1. /\ stored' = stored \cup {batch[n]} /\ outcome' = [outcome EXCEPT ![n] = "ok"]
        /\ batch' = batch
    BY <1>3 DEF Ingested, CommitRow
  <2>2. outcome'[n] = "ok" /\ \A m \in 1..Len(batch) : m # n => outcome'[m] = outcome[m]
    BY <2>1 DEF PollerOK
  <2>3. \A m \in 1..Len(batch) : m # n => batch[m] # batch[n]
    BY DEF FreshBatch
  <2> QED BY <2>1, <2>2, <2>3 DEF FreshBatch
<1>4. ASSUME NEW n \in 1..Len(batch), IngestFails(n)
      PROVE  FreshBatch'
  <2>1. /\ outcome' = [outcome EXCEPT ![n] = "failed"] /\ batch' = batch /\ stored' = stored
    BY <1>4 DEF IngestFails, storeVars
  <2>2. outcome'[n] = "failed" /\ \A m \in 1..Len(batch) : m # n => outcome'[m] = outcome[m]
    BY <2>1 DEF PollerOK
  <2> QED BY <2>1, <2>2 DEF FreshBatch
<1>5. CASE EndPass \/ RestartPoller
  <2>1. batch' = <<>>
    BY <1>5 DEF EndPass, RestartPoller
  <2> QED BY <1>0, <2>1 DEF FreshBatch
<1>6. CASE ClockTick
  BY <1>6 DEF ClockTick, passVars, storeVars, FreshBatch
<1>7. ASSUME NEW i \in Item, DrainRow(i)
      PROVE  FreshBatch'
  BY <1>7 DEF DrainRow, pollerVars, passVars, FreshBatch
<1>8. CASE UNCHANGED vars
  BY <1>8 DEF vars, pollerVars, passVars, storeVars, FreshBatch
<1> QED BY <1>0, <1>1, <1>2, <1>3, <1>4, <1>5, <1>6, <1>7, <1>8 DEF Next, PollerNext

\* The poller never processes a capture that has a row, and never two articles
\* of one url in one pass, as long as a pass fetches at most one item more than
\* the memory of urls holds (_poll_once, probe_feed_async).
THEOREM PassesCorrect ==
    ASSUME MaxServed <= SeenCap + 1
    PROVE  Spec => []NoReprocess
<1> DEFINE Inv == PollerOK /\ FreshBatch
<1>1. Init => Inv
  <2>1. Init => Len(batch) = 0
    BY DEF Init
  <2> QED BY <2>1, PollerInit DEF FreshBatch
<1>2. Inv /\ [Next]_vars => Inv'
  BY NextIsPollerStep, PollerTypes, StepKeepsFreshBatch
<1>3. Inv => NoReprocess
  <2>1. PollerOK => DOMAIN batch = 1..Len(batch)
    BY SetOfSeq DEF PollerOK
  <2> QED BY <2>1 DEF FreshBatch, NoReprocess
<1> HIDE DEF Inv
<1> QED BY <1>1, <1>2, <1>3, PTL DEF Spec

-----------------------------------------------------------------------------
(* The poller and the push channel. *)

IntakeOK ==
    /\ PollerOK
    /\ wsSeen \in Seq(Urls) /\ Distinct(wsSeen) /\ Len(wsSeen) <= SeenCap
    /\ flight \in [Source -> Item \cup {NoItem}]

LEMMA IntakeInitOK ==
    ASSUME IntakeInit
    PROVE  IntakeOK
<1>1. Len(<<>>) = 0 /\ <<>> \in Seq(Urls)
  OBVIOUS
<1>2. Init /\ wsSeen = <<>> /\ flight = [s \in Source |-> NoItem]
  BY DEF IntakeInit
<1> QED BY <1>1, <1>2, PollerInit, PollerAssumption DEF IntakeOK, Distinct

\* What a frame does to the channel's memory.
LEMMA FrameSteps ==
    ASSUME IntakeOK, NEW s \in Source, Frame(s)
    PROVE  \/ \E i \in Item :
                /\ UrlOf[i] \in ToSet(wsSeen) /\ wsSeen' = Touch(wsSeen, UrlOf[i])
                /\ UNCHANGED <<vars, flight>>
           \/ \E i \in Item :
                /\ i \in stored /\ wsSeen' = Add(wsSeen, UrlOf[i])
                /\ UNCHANGED <<vars, flight>>
           \/ \E i \in Item :
                /\ UrlOf[i] \notin ToSet(wsSeen)
                /\ wsSeen' = Discard(Add(wsSeen, UrlOf[i]), UrlOf[i])
                /\ UNCHANGED <<vars, flight>>
           \/ \E i \in Item :
                /\ UrlOf[i] \notin ToSet(wsSeen) /\ wsSeen' = Add(wsSeen, UrlOf[i])
                /\ flight[s] = NoItem /\ flight' = [flight EXCEPT ![s] = i] /\ UNCHANGED vars
           \/ /\ flight[s] \in Item /\ CommitRow(flight[s])
              /\ flight' = [flight EXCEPT ![s] = NoItem] /\ UNCHANGED <<pollerVars, wsSeen>>
           \/ /\ flight[s] \in Item /\ wsSeen' = Discard(wsSeen, UrlOf[flight[s]])
              /\ flight' = [flight EXCEPT ![s] = NoItem] /\ UNCHANGED vars
<1>1. flight[s] # NoItem => flight[s] \in Item
  BY DEF IntakeOK
<1>2. ASSUME NEW i \in Item, SkipFrame(s, i)
      PROVE  \/ /\ UrlOf[i] \in ToSet(wsSeen) /\ wsSeen' = Touch(wsSeen, UrlOf[i])
                /\ UNCHANGED <<vars, flight>>
             \/ /\ i \in stored /\ wsSeen' = Add(wsSeen, UrlOf[i])
                /\ UNCHANGED <<vars, flight>>
  BY <1>2 DEF SkipFrame, Has
<1>3. ASSUME NEW i \in Item, FrameReadFails(s, i)
      PROVE  /\ UrlOf[i] \notin ToSet(wsSeen)
             /\ wsSeen' = Discard(Add(wsSeen, UrlOf[i]), UrlOf[i])
             /\ UNCHANGED <<vars, flight>>
  BY <1>3 DEF FrameReadFails, Has
<1>4. ASSUME NEW i \in Item, AcceptFrame(s, i)
      PROVE  /\ UrlOf[i] \notin ToSet(wsSeen) /\ wsSeen' = Add(wsSeen, UrlOf[i])
             /\ flight[s] = NoItem /\ flight' = [flight EXCEPT ![s] = i] /\ UNCHANGED vars
  BY <1>4 DEF AcceptFrame, Has
<1>5. FrameIngested(s) =>
        /\ flight[s] \in Item /\ CommitRow(flight[s])
        /\ flight' = [flight EXCEPT ![s] = NoItem] /\ UNCHANGED <<pollerVars, wsSeen>>
  BY <1>1 DEF FrameIngested
<1>6. FrameFails(s) =>
        /\ flight[s] \in Item /\ wsSeen' = Discard(wsSeen, UrlOf[flight[s]])
        /\ flight' = [flight EXCEPT ![s] = NoItem] /\ UNCHANGED vars
  BY <1>1 DEF FrameFails
<1> QED BY <1>2, <1>3, <1>4, <1>5, <1>6 DEF Frame

LEMMA FrameIsPollerStep ==
    ASSUME IntakeOK, NEW s \in Source, Frame(s)
    PROVE  PollerStep
<1>1. UNCHANGED vars \/ (flight[s] \in Item /\ CommitRow(flight[s]) /\ UNCHANGED pollerVars)
  BY FrameSteps
<1> QED BY <1>1 DEF PollerStep, RowFromElsewhere

LEMMA IntakeIsPollerStep ==
    ASSUME IntakeOK, [IntakeNext]_allVars
    PROVE  PollerStep
<1>1. CASE UNCHANGED allVars
  BY <1>1 DEF allVars, PollerStep
<1>2. CASE PollerNext \/ (\E i \in Item : DrainRow(i)) \/ RestartAll
  BY <1>2 DEF RestartAll, PollerStep
<1>3. ASSUME NEW s \in Source, Frame(s) PROVE PollerStep
  BY <1>3, FrameIsPollerStep
<1> QED BY <1>1, <1>2, <1>3 DEF IntakeNext

LEMMA IntakeStepOK ==
    ASSUME IntakeOK, [IntakeNext]_allVars
    PROVE  IntakeOK'
<1>1. PollerOK'
  BY IntakeIsPollerStep, PollerTypes DEF IntakeOK
<1>2. wsSeen \in Seq(Urls) /\ Distinct(wsSeen) /\ Len(wsSeen) <= SeenCap /\ SeenCap \in Nat
      /\ \A i \in Item : UrlOf[i] \in Urls
  BY PollerAssumption DEF IntakeOK, Urls
<1> DEFINE OK(ws) == ws \in Seq(Urls) /\ Distinct(ws) /\ Len(ws) <= SeenCap
<1>3. ASSUME NEW ws, OK(ws), NEW e PROVE OK(Discard(ws, e))
  <2>1. /\ Discard(ws, e) \in Seq(Urls) /\ Distinct(Discard(ws, e))
        /\ Len(Discard(ws, e)) = Len(ws) \/ Len(Discard(ws, e)) = Len(ws) - 1
    BY <1>3, DiscardProperties
  <2>2. Len(ws) \in Nat
    BY <1>3, SetOfSeq
  <2> QED BY <1>2, <1>3, <2>1, <2>2
<1>4. ASSUME NEW i \in Item PROVE OK(Add(wsSeen, UrlOf[i]))
  BY <1>2, AddProperties
<1>5. ASSUME NEW s \in Source, Frame(s)
      PROVE  OK(wsSeen') /\ flight' \in [Source -> Item \cup {NoItem}]
  <2>1. OK(wsSeen')
    <3>1. ASSUME NEW i \in Item, UrlOf[i] \in ToSet(wsSeen), wsSeen' = Touch(wsSeen, UrlOf[i])
          PROVE  OK(wsSeen')
      BY <1>2, <3>1, TouchProperties
    <3>2. ASSUME NEW i \in Item, wsSeen' = Add(wsSeen, UrlOf[i]) PROVE OK(wsSeen')
      BY <1>4, <3>2
    <3>3. ASSUME NEW i \in Item, wsSeen' = Discard(Add(wsSeen, UrlOf[i]), UrlOf[i]) PROVE OK(wsSeen')
      BY <1>3, <1>4, <3>3
    <3>4. ASSUME wsSeen' = Discard(wsSeen, UrlOf[flight[s]]) PROVE OK(wsSeen')
      BY <1>2, <1>3, <3>4
    <3>5. CASE UNCHANGED wsSeen
      BY <1>2, <3>5
    <3> HIDE DEF OK
    <3> QED BY <1>5, <3>1, <3>2, <3>3, <3>4, <3>5, FrameSteps
  <2>2. flight' \in [Source -> Item \cup {NoItem}]
    <3>1. \/ flight' = flight
          \/ \E x \in Item \cup {NoItem} : flight' = [flight EXCEPT ![s] = x]
      BY <1>5, FrameSteps
    <3> QED BY <3>1 DEF IntakeOK
  <2> QED BY <2>1, <2>2
<1>6. CASE RestartAll
  <2>1. wsSeen' = <<>> /\ flight' = [s \in Source |-> NoItem] /\ Len(<<>>) = 0 /\ <<>> \in Seq(Urls)
    BY <1>6 DEF RestartAll
  <2> QED BY <1>1, <1>2, <2>1 DEF IntakeOK, Distinct
<1>7. CASE UNCHANGED intakeVars
  BY <1>1, <1>7 DEF intakeVars, IntakeOK
<1> HIDE DEF OK
<1>8. ASSUME NEW s \in Source, Frame(s) PROVE IntakeOK'
  BY <1>1, <1>5, <1>8 DEF IntakeOK, OK
<1> QED BY <1>6, <1>7, <1>8 DEF IntakeNext, allVars

\* The types hold of the two channels together as well.
THEOREM IntakeTypeCorrect ==
    IntakeSpec => []IntakeTypeOK
<1>1. IntakeInit => IntakeOK
  BY IntakeInitOK
<1>2. IntakeOK /\ [IntakeNext]_allVars => IntakeOK'
  BY IntakeStepOK
<1>3. IntakeOK => IntakeTypeOK
  BY PollerOKTypes DEF IntakeOK, IntakeTypeOK, Urls
<1> QED BY <1>1, <1>2, <1>3, PTL DEF IntakeSpec

LEMMA StepKeepsPushedUrls ==
    ASSUME IntakeOK, PushedUrlsHaveLanded, [IntakeNext]_allVars
    PROVE  PushedUrlsHaveLanded'
<1>0. wsSeen \in Seq(Urls) /\ Distinct(wsSeen) /\ Len(wsSeen) <= SeenCap
      /\ stored \subseteq landed /\ \A i \in Item : UrlOf[i] \in Urls
  BY DEF IntakeOK, PollerOK, Urls
<1>1. ASSUME NEW s \in Source, Frame(s)
      PROVE  PushedUrlsHaveLanded'
  <2>1. ASSUME NEW i \in Item, UrlOf[i] \in ToSet(wsSeen), wsSeen' = Touch(wsSeen, UrlOf[i]),
               UNCHANGED <<vars, flight>>
        PROVE  PushedUrlsHaveLanded'
    <3>0. ToSet(Touch(wsSeen, UrlOf[i])) = ToSet(wsSeen) \cup {UrlOf[i]}
      BY <1>0, TouchProperties
    <3>1. ToSet(wsSeen') = ToSet(wsSeen)
      BY <2>1, <3>0
    <3> QED BY <2>1, <3>1 DEF PushedUrlsHaveLanded, vars, storeVars
  <2>2. ASSUME NEW i \in Item, i \in stored, wsSeen' = Add(wsSeen, UrlOf[i]), UNCHANGED <<vars, flight>>
        PROVE  PushedUrlsHaveLanded'
    <3>1. ToSet(wsSeen') \subseteq ToSet(wsSeen) \cup {UrlOf[i]} /\ i \in landed
      BY <1>0, <2>2, AddProperties
    <3> QED BY <2>2, <3>1 DEF PushedUrlsHaveLanded, vars, storeVars
  <2>3. ASSUME NEW i \in Item, wsSeen' = Discard(Add(wsSeen, UrlOf[i]), UrlOf[i]), UNCHANGED <<vars, flight>>
        PROVE  PushedUrlsHaveLanded'
    <3> DEFINE a == Add(wsSeen, UrlOf[i])
    <3>1. a \in Seq(Urls) /\ Distinct(a) /\ ToSet(a) \subseteq ToSet(wsSeen) \cup {UrlOf[i]}
      BY <1>0, AddProperties
    <3>2. ToSet(wsSeen') = ToSet(a) \ {UrlOf[i]}
      BY <2>3, <3>1, DiscardProperties
    <3>3. ToSet(wsSeen') \subseteq ToSet(wsSeen)
      BY <3>1, <3>2
    <3> QED BY <2>3, <3>3 DEF PushedUrlsHaveLanded, vars, storeVars
  <2>4. ASSUME NEW i \in Item, wsSeen' = Add(wsSeen, UrlOf[i]), flight[s] = NoItem,
               flight' = [flight EXCEPT ![s] = i], UNCHANGED vars
        PROVE  PushedUrlsHaveLanded'
    <3>1. ToSet(wsSeen') \subseteq ToSet(wsSeen) \cup {UrlOf[i]}
      BY <1>0, <2>4, AddProperties
    <3>2. /\ flight'[s] = i /\ i # NoItem
          /\ \A t \in Source : flight[t] # NoItem => flight'[t] = flight[t]
      BY <2>4, IntakeAssumption DEF IntakeOK
    <3> QED BY <2>4, <3>1, <3>2 DEF PushedUrlsHaveLanded, vars, storeVars
  <2>5. ASSUME CommitRow(flight[s]), flight' = [flight EXCEPT ![s] = NoItem],
               UNCHANGED <<pollerVars, wsSeen>>
        PROVE  PushedUrlsHaveLanded'
    <3>1. /\ landed' = landed \cup {flight[s]} /\ wsSeen' = wsSeen
          /\ \A t \in Source : t # s => flight'[t] = flight[t]
      BY <2>5 DEF IntakeOK, CommitRow
    <3> QED BY <3>1 DEF PushedUrlsHaveLanded
  <2>6. ASSUME wsSeen' = Discard(wsSeen, UrlOf[flight[s]]), flight' = [flight EXCEPT ![s] = NoItem],
               UNCHANGED vars
        PROVE  PushedUrlsHaveLanded'
    <3>1. ToSet(wsSeen') = ToSet(wsSeen) \ {UrlOf[flight[s]]}
      BY <1>0, <2>6, DiscardProperties
    <3>2. \A t \in Source : t # s => flight'[t] = flight[t]
      BY <2>6 DEF IntakeOK
    <3> QED BY <2>6, <3>1, <3>2 DEF PushedUrlsHaveLanded, vars, storeVars
  <2> QED BY <1>1, <2>1, <2>2, <2>3, <2>4, <2>5, <2>6, FrameSteps
<1>2. CASE RestartAll
  <2>1. wsSeen' = <<>> /\ ToSet(<<>>) = {}
    BY <1>2 DEF RestartAll, ToSet
  <2> QED BY <2>1 DEF PushedUrlsHaveLanded
<1>3. CASE (PollerNext \/ \E i \in Item : DrainRow(i)) /\ UNCHANGED intakeVars
  <2>1. landed \subseteq landed'
    <3>1. ASSUME NEW served \in Servings, NEW kind, StartPass(kind, served) PROVE landed' = landed
      BY <3>1 DEF StartPass, storeVars
    <3>2. ASSUME NEW n, IngestFails(n) PROVE landed' = landed
      BY <3>2 DEF IngestFails, storeVars
    <3>3. ASSUME NEW n, Ingested(n) PROVE landed \subseteq landed'
      BY <3>3 DEF Ingested, CommitRow
    <3>4. AbortPass \/ EndPass \/ ClockTick => landed' = landed
      BY DEF AbortPass, EndPass, ClockTick, storeVars
    <3>5. ASSUME NEW i, DrainRow(i) PROVE landed' = landed
      BY <3>5 DEF DrainRow
    <3> QED BY <1>3, <3>1, <3>2, <3>3, <3>4, <3>5 DEF PollerNext
  <2> QED BY <1>3, <2>1 DEF PushedUrlsHaveLanded, intakeVars
<1>4. CASE UNCHANGED allVars
  BY <1>4 DEF allVars, intakeVars, vars, storeVars, PushedUrlsHaveLanded
<1> QED BY <1>1, <1>2, <1>3, <1>4 DEF IntakeNext

\* A url the channel remembers is being ingested or landed, for any sizes.
THEOREM PushedUrlsCorrect ==
    IntakeSpec => []PushedUrlsHaveLanded
<1> DEFINE Inv == IntakeOK /\ PushedUrlsHaveLanded
<1>1. IntakeInit => Inv
  <2>1. IntakeInit => ToSet(wsSeen) = {}
    BY DEF IntakeInit, ToSet
  <2> QED BY <2>1, IntakeInitOK DEF PushedUrlsHaveLanded
<1>2. Inv /\ [IntakeNext]_allVars => Inv'
  BY IntakeStepOK, StepKeepsPushedUrls
<1>3. Inv => PushedUrlsHaveLanded
  OBVIOUS
<1> HIDE DEF Inv
<1> QED BY <1>1, <1>2, <1>3, PTL DEF IntakeSpec

\* Beside the push channel too, a title is remembered only on behalf of a story
\* that landed.
THEOREM IntakeTitlesCorrect ==
    IntakeSpec => []TitlesHaveLanded
<1> DEFINE Inv == IntakeOK /\ Earned
<1>1. IntakeInit => Inv
  BY IntakeInitOK, PollerInit DEF IntakeInit
<1>2. Inv /\ [IntakeNext]_allVars => Inv'
  BY IntakeStepOK, IntakeIsPollerStep, PollerEarned DEF IntakeOK
<1>3. Inv => TitlesHaveLanded
  <2> SUFFICES ASSUME PollerOK, Earned, pass = "idle", ~faulted, NEW s \in ToSet(titles)
               PROVE  \E i \in landed : TitleOf[i] = s.key
    BY DEF TitlesHaveLanded, IntakeOK
  <2>1. Len(batch) = 0
    BY DEF PollerOK
  <2> QED BY <2>1 DEF Earned, EarnedTitles
<1> HIDE DEF Inv
<1> QED BY <1>1, <1>2, <1>3, PTL DEF IntakeSpec

LEMMA StepKeepsFaultless ==
    ASSUME ~ReadFaults, ~faulted, PollerStep
    PROVE  ~faulted'
<1>1. ASSUME NEW served \in Servings, NEW kind, StartPass(kind, served) PROVE faulted' = faulted
  BY <1>1 DEF StartPass
<1>2. ASSUME NEW n, IngestFails(n) PROVE faulted' = faulted
  BY <1>2 DEF IngestFails
<1>3. ASSUME NEW n, Ingested(n) PROVE faulted' = faulted
  BY <1>3 DEF Ingested
<1>4. ASSUME NEW i, DrainRow(i) PROVE faulted' = faulted
  BY <1>4 DEF DrainRow, pollerVars
<1>5. EndPass \/ ClockTick \/ UNCHANGED vars => faulted' = faulted
  BY DEF EndPass, ClockTick, vars, pollerVars
<1>6. RowFromElsewhere => faulted' = faulted
  BY DEF RowFromElsewhere, pollerVars
<1>7. RestartPoller => ~faulted'
  BY DEF RestartPoller
<1>8. ~AbortPass
  BY DEF AbortPass
<1> QED BY <1>1, <1>2, <1>3, <1>4, <1>5, <1>6, <1>7, <1>8 DEF PollerStep, PollerNext

\* Without title dedup and with reads that do not raise, no failure leaves a
\* url suppressed behind a story that never landed, in the memory of either
\* channel.
THEOREM SuppressionCorrect ==
    ASSUME TitleWindow = 0, ~ReadFaults
    PROVE  IntakeSpec => []NothingSuppressed
<1> DEFINE Inv == IntakeOK /\ Earned /\ ~faulted /\ PushedUrlsHaveLanded
<1>1. IntakeInit => Inv
  <2>1. IntakeInit => ToSet(wsSeen) = {} /\ ~faulted
    BY DEF IntakeInit, Init, ToSet
  <2> QED BY <2>1, IntakeInitOK, PollerInit DEF PushedUrlsHaveLanded, IntakeInit
<1>2. Inv /\ [IntakeNext]_allVars => Inv'
  BY IntakeStepOK, IntakeIsPollerStep, PollerEarned, StepKeepsPushedUrls, StepKeepsFaultless
     DEF IntakeOK
<1>3. Inv => NothingSuppressed
  <2> SUFFICES ASSUME PollerOK, Earned, ~faulted, pass = "idle", NEW u \in ToSet(seen)
               PROVE  \E i \in landed : UrlOf[i] = u
    BY DEF NothingSuppressed, UrlsHaveLanded, IntakeOK
  <2>1. Len(batch) = 0
    BY DEF PollerOK
  <2> QED BY <2>1 DEF Earned, EarnedUrls
<1> HIDE DEF Inv
<1> QED BY <1>1, <1>2, <1>3, PTL DEF IntakeSpec

\* What a source is ingesting is remembered, and it alone is ingesting it.
FlightsRemembered ==
    \A s \in Source : flight[s] # NoItem => UrlOf[flight[s]] \in ToSet(wsSeen)

UrlsFit == IsFiniteSet(Urls) /\ Cardinality(Urls) <= SeenCap

LEMMA StepKeepsFlights ==
    ASSUME UrlsFit, IntakeOK, FlightsRemembered, OneFlightPerUrl, [IntakeNext]_allVars
    PROVE  FlightsRemembered' /\ OneFlightPerUrl'
<1>0. /\ wsSeen \in Seq(Urls) /\ Distinct(wsSeen) /\ \A i \in Item : UrlOf[i] \in Urls
      /\ flight \in [Source -> Item \cup {NoItem}] /\ NoItem \notin Item
  BY IntakeAssumption DEF IntakeOK, Urls
<1>1. \A i \in Item : ToSet(Add(wsSeen, UrlOf[i])) = ToSet(wsSeen) \cup {UrlOf[i]}
  BY <1>0, AddKeepsAll DEF UrlsFit
<1>2. ASSUME flight' = flight, ToSet(wsSeen) \subseteq ToSet(wsSeen')
      PROVE  FlightsRemembered' /\ OneFlightPerUrl'
  BY <1>2 DEF FlightsRemembered, OneFlightPerUrl
<1>3. ASSUME NEW s \in Source, Frame(s)
      PROVE  FlightsRemembered' /\ OneFlightPerUrl'
  <2>1. ASSUME NEW i \in Item, wsSeen' = Touch(wsSeen, UrlOf[i]), flight' = flight
        PROVE  ToSet(wsSeen) \subseteq ToSet(wsSeen')
    <3>1. ToSet(Touch(wsSeen, UrlOf[i])) = ToSet(wsSeen) \cup {UrlOf[i]}
      BY <1>0, TouchProperties
    <3> QED BY <2>1, <3>1
  <2>2. ASSUME NEW i \in Item, wsSeen' = Add(wsSeen, UrlOf[i]), flight' = flight
        PROVE  ToSet(wsSeen) \subseteq ToSet(wsSeen')
    BY <1>1, <2>2
  <2>3. ASSUME NEW i \in Item, UrlOf[i] \notin ToSet(wsSeen), flight' = flight,
               wsSeen' = Discard(Add(wsSeen, UrlOf[i]), UrlOf[i])
        PROVE  ToSet(wsSeen) \subseteq ToSet(wsSeen')
    <3> DEFINE a == Add(wsSeen, UrlOf[i])
    <3>1. a \in Seq(Urls) /\ Distinct(a)
      BY <1>0, AddProperties DEF IntakeOK
    <3>2. ToSet(wsSeen') = ToSet(a) \ {UrlOf[i]}
      BY <2>3, <3>1, DiscardProperties
    <3> QED BY <1>1, <2>3, <3>2
  <2>4. ASSUME NEW i \in Item, UrlOf[i] \notin ToSet(wsSeen), wsSeen' = Add(wsSeen, UrlOf[i]),
               flight' = [flight EXCEPT ![s] = i]
        PROVE  FlightsRemembered' /\ OneFlightPerUrl'
    <3>1. flight'[s] = i /\ \A t \in Source : t # s => flight'[t] = flight[t]
      BY <1>0, <2>4
    <3>2. \A t \in Source : t # s /\ flight[t] # NoItem =>
            UrlOf[flight[t]] \in ToSet(wsSeen) /\ UrlOf[flight[t]] # UrlOf[i]
      BY <2>4 DEF FlightsRemembered
    <3>3. ToSet(wsSeen') = ToSet(wsSeen) \cup {UrlOf[i]}
      BY <1>1, <2>4
    <3>4. FlightsRemembered'
      BY <3>1, <3>2, <3>3 DEF FlightsRemembered
    <3>5. OneFlightPerUrl'
      BY <3>1, <3>2 DEF OneFlightPerUrl
    <3> QED BY <3>4, <3>5
  <2>5. ASSUME flight' = [flight EXCEPT ![s] = NoItem],
               wsSeen' = wsSeen \/ wsSeen' = Discard(wsSeen, UrlOf[flight[s]]), flight[s] \in Item
        PROVE  FlightsRemembered' /\ OneFlightPerUrl'
    <3>1. flight'[s] = NoItem /\ \A t \in Source : t # s => flight'[t] = flight[t]
      BY <1>0, <2>5
    <3>2. ToSet(wsSeen) \ {UrlOf[flight[s]]} \subseteq ToSet(wsSeen')
      <4>1. ToSet(Discard(wsSeen, UrlOf[flight[s]])) = ToSet(wsSeen) \ {UrlOf[flight[s]]}
        BY <1>0, DiscardProperties
      <4> QED BY <2>5, <4>1
    <3>3. flight[s] # NoItem
      BY <1>0, <2>5
    <3>4. FlightsRemembered'
      BY <3>1, <3>2, <3>3 DEF FlightsRemembered, OneFlightPerUrl
    <3>5. OneFlightPerUrl'
      BY <3>1 DEF OneFlightPerUrl
    <3> QED BY <3>4, <3>5
  <2> QED BY <1>2, <1>3, <2>1, <2>2, <2>3, <2>4, <2>5, FrameSteps
<1>4. CASE RestartAll
  BY <1>4 DEF RestartAll, FlightsRemembered, OneFlightPerUrl
<1>5. CASE UNCHANGED intakeVars
  BY <1>2, <1>5 DEF intakeVars
<1> QED BY <1>3, <1>4, <1>5 DEF IntakeNext, allVars

\* Two push sources never ingest one url at the same time, as long as the
\* channel's memory has room for every url (_handle_frame remembers the url
\* before it awaits the ingest).
THEOREM FlightsCorrect ==
    ASSUME UrlsFit
    PROVE  IntakeSpec => []OneFlightPerUrl
<1> DEFINE Inv == IntakeOK /\ FlightsRemembered /\ OneFlightPerUrl
<1>1. IntakeInit => Inv
  BY IntakeInitOK DEF IntakeInit, FlightsRemembered, OneFlightPerUrl
<1>2. Inv /\ [IntakeNext]_allVars => Inv'
  BY IntakeStepOK, StepKeepsFlights
<1>3. Inv => OneFlightPerUrl
  OBVIOUS
<1> HIDE DEF Inv
<1> QED BY <1>1, <1>2, <1>3, PTL DEF IntakeSpec

=============================================================================
