------------------------------- MODULE Counting -------------------------------
(***************************************************************************)
(* Sums and counts over finite sets, for the proofs about reports that add *)
(* up what rows say.  A sum of the values of a function f over S is        *)
(* SumOver(f, S); a fact is proved of every finite set by adding elements  *)
(* one at a time.                                                          *)
(***************************************************************************)
EXTENDS Integers, Sequences, FiniteSets, FiniteSetsExt, FiniteSetTheorems, NaturalsInduction,
        WellFoundedInduction, Functions, TLAPS

SumOver(f, S) == MapThenSumSet(LAMBDA x : f[x], S)

-----------------------------------------------------------------------------
(* Induction. *)

\* A set of numbers that has 0, and with a number the next, has them all.
LEMMA SetInduction ==
    ASSUME NEW G, 0 \in G, \A n \in Nat : n \in G => n + 1 \in G
    PROVE  \A n \in Nat : n \in G
<1> SUFFICES ASSUME NEW k \in Nat, k \notin G
             PROVE  FALSE
  OBVIOUS
<1>1. PICK m \in Nat \ G : \A j \in Nat \ G : ~ (<<j, m>> \in OpToRel(<, Nat))
  <2>1. Nat \ G \subseteq Nat /\ Nat \ G # {}
    OBVIOUS
  <2> QED BY <2>1, NatLessThanWellFounded, WFMin
<1>2. \A j \in Nat \ G : ~ (j < m)
  BY <1>1 DEF OpToRel
<1>3. CASE m = 0
  BY <1>3
<1>4. CASE m # 0
  <2>1. m - 1 \in Nat /\ m - 1 < m /\ (m - 1) + 1 = m
    BY <1>4
  <2>2. m - 1 \in G
    BY <1>2, <2>1
  <2> QED BY <2>1, <2>2
<1> QED BY <1>3, <1>4

\* G holds the empty set, and with a part of S every greater part: it holds S.
LEMMA AddingElements ==
    ASSUME NEW S, IsFiniteSet(S), NEW G, {} \in G,
           \A T \in SUBSET S : \A x \in S \ T : T \in G => T \cup {x} \in G
    PROVE  S \in G
<1> DEFINE N == {n \in Nat : \A T \in SUBSET S : Cardinality(T) = n => T \in G}
<1>1. \A T \in SUBSET S : IsFiniteSet(T) /\ Cardinality(T) \in Nat
  BY FS_Subset, FS_CardinalityType
<1>2. 0 \in N
  <2>1. \A T \in SUBSET S : Cardinality(T) = 0 => T = {}
    BY <1>1, FS_EmptySet
  <2> QED BY <2>1
<1>3. ASSUME NEW n \in Nat, n \in N
      PROVE  n + 1 \in N
  <2> SUFFICES ASSUME NEW T \in SUBSET S, Cardinality(T) = n + 1
               PROVE  T \in G
    OBVIOUS
  <2>1. IsFiniteSet(T) /\ T # {}
    BY <1>1, FS_EmptySet
  <2>2. PICK x : x \in T
    BY <2>1
  <2>3. Cardinality(T \ {x}) = n
    <3>1. Cardinality(T \ {x}) = Cardinality(T) - 1
      BY <2>1, <2>2, FS_RemoveElement
    <3> QED BY <3>1
  <2>4. T \ {x} \in SUBSET S /\ x \in S \ (T \ {x}) /\ (T \ {x}) \cup {x} = T
    BY <2>2
  <2>5. T \ {x} \in G
    BY <1>3, <2>3, <2>4
  <2> QED BY <2>4, <2>5
<1> HIDE DEF N
<1>4. \A n \in Nat : n \in N
  BY <1>2, <1>3, SetInduction
<1>5. Cardinality(S) \in N
  BY <1>1, <1>4
<1> QED BY <1>5 DEF N

-----------------------------------------------------------------------------
(* Finite orders. *)

\* A finite set has an element with none before it.  R is the order, as pairs.
LEMMA SomethingIsFirst ==
    ASSUME NEW S, IsFiniteSet(S), S # {}, NEW R,
           \A x \in S : <<x, x>> \notin R,
           \A x, y, z \in S : <<x, y>> \in R /\ <<y, z>> \in R => <<x, z>> \in R
    PROVE  \E x \in S : \A y \in S : <<y, x>> \notin R
<1> DEFINE above(x) == {y \in S : <<y, x>> \in R}
           sizes == {Cardinality(above(x)) : x \in S}
<1>1. ASSUME NEW x \in S
      PROVE  IsFiniteSet(above(x)) /\ Cardinality(above(x)) \in Nat
  <2>1. above(x) \in SUBSET S
    OBVIOUS
  <2> QED BY <2>1, FS_Subset, FS_CardinalityType
<1>2. sizes \subseteq Nat /\ sizes # {}
  <2> HIDE DEF above
  <2> QED BY <1>1
<1>3. PICK n \in sizes : \A j \in sizes : ~ (<<j, n>> \in OpToRel(<, Nat))
  BY <1>2, NatLessThanWellFounded, WFMin
<1>4. \A j \in sizes : ~ (j < n)
  BY <1>2, <1>3 DEF OpToRel
<1>5. PICK x \in S : n = Cardinality(above(x))
  OBVIOUS
<1>6. ASSUME NEW y \in S, <<y, x>> \in R
      PROVE  FALSE
  <2>1. y \in above(x) /\ y \notin above(y) /\ above(y) \in SUBSET above(x)
    BY <1>6
  <2>2. Cardinality(above(y)) <= Cardinality(above(x))
        /\ Cardinality(above(y)) # Cardinality(above(x))
    <3> HIDE DEF above
    <3> QED BY <1>1, <2>1, FS_Subset
  <2>3. Cardinality(above(y)) < n /\ Cardinality(above(y)) \in sizes
    <3>1. Cardinality(above(y)) \in Nat /\ Cardinality(above(x)) \in Nat
      BY <1>1
    <3> HIDE DEF above
    <3> QED BY <1>5, <2>2, <3>1
  <2> QED BY <1>4, <2>3
<1> QED BY <1>6

\* What a function makes of a finite set is finite.
LEMMA ImageIsFinite ==
    ASSUME NEW S, IsFiniteSet(S), NEW f
    PROVE  IsFiniteSet({f[x] : x \in S}) /\ Cardinality({f[x] : x \in S}) <= Cardinality(S)
<1> DEFINE h == [x \in S |-> f[x]]
<1>1. h \in Surjection(S, {f[x] : x \in S})
  BY DEF Surjection
<1> QED BY <1>1, FS_Surjection

\* A sequence says no more things than it has places.
LEMMA RangeIsFinite ==
    ASSUME NEW s, Len(s) \in Nat, DOMAIN s = 1..Len(s)
    PROVE  IsFiniteSet(Range(s)) /\ Cardinality(Range(s)) <= Len(s)
<1> DEFINE m == Len(s)
           D == 1..m
<1>1. IsFiniteSet(D) /\ Cardinality(D) = m
  <2>1. 1 \in Int /\ m \in Int
    OBVIOUS
  <2>2. IsFiniteSet(1..m) /\ Cardinality(1..m) = IF 1 > m THEN 0 ELSE m - 1 + 1
    BY <2>1, FS_Interval
  <2> QED BY <2>1, <2>2
<1>2. Range(s) = {s[x] : x \in D}
  BY DEF Range
<1> HIDE DEF D
<1>3. IsFiniteSet({s[x] : x \in D}) /\ Cardinality({s[x] : x \in D}) <= Cardinality(D)
  BY <1>1, ImageIsFinite
<1> QED BY <1>1, <1>2, <1>3

\* A finite set of numbers has its Max, and its Min.
LEMMA Extremes ==
    ASSUME NEW S \in SUBSET Int, IsFiniteSet(S), S # {}
    PROVE  /\ Max(S) \in S /\ \A x \in S : x <= Max(S)
           /\ Min(S) \in S /\ \A x \in S : Min(S) <= x
<1>1. \E x \in S : \A y \in S : y <= x
  <2> DEFINE R == {p \in S \X S : p[1] > p[2]}
  <2>0. \A x, y \in S : <<x, y>> \in R <=> x > y
    OBVIOUS
  <2> HIDE DEF R
  <2>1. (\A x \in S : <<x, x>> \notin R)
        /\ \A x, y, z \in S : <<x, y>> \in R /\ <<y, z>> \in R => <<x, z>> \in R
    BY <2>0
  <2>2. PICK x \in S : \A y \in S : <<y, x>> \notin R
    BY <2>1, SomethingIsFirst
  <2>3. ASSUME NEW y \in S PROVE y <= x
    <3>1. x \in Int /\ y \in Int
      OBVIOUS
    <3>2. <<y, x>> \notin R
      BY <2>2
    <3>3. ~ (y > x)
      BY <2>0, <3>2
    <3> QED BY <3>1, <3>3
  <2> QED BY <2>3
<1>2. \E x \in S : \A y \in S : x <= y
  <2> DEFINE R == {p \in S \X S : p[1] < p[2]}
  <2>0. \A x, y \in S : <<x, y>> \in R <=> x < y
    OBVIOUS
  <2> HIDE DEF R
  <2>1. (\A x \in S : <<x, x>> \notin R)
        /\ \A x, y, z \in S : <<x, y>> \in R /\ <<y, z>> \in R => <<x, z>> \in R
    BY <2>0
  <2>2. PICK x \in S : \A y \in S : <<y, x>> \notin R
    BY <2>1, SomethingIsFirst
  <2>3. ASSUME NEW y \in S PROVE x <= y
    <3>1. x \in Int /\ y \in Int
      OBVIOUS
    <3>2. <<y, x>> \notin R
      BY <2>2
    <3>3. ~ (y < x)
      BY <2>0, <3>2
    <3> QED BY <3>1, <3>3
  <2> QED BY <2>3
<1>3. Max(S) \in S /\ \A x \in S : x <= Max(S)
  <2>1. \E x \in S : \A y \in S : x >= y
    BY <1>1
  <2>2. Max(S) \in S /\ \A x \in S : Max(S) >= x
    BY <2>1 DEF Max
  <2> QED BY <2>2
<1>4. Min(S) \in S /\ \A x \in S : Min(S) <= x
  BY <1>2 DEF Min
<1> QED BY <1>3, <1>4

\* Of finitely many numbers the first of the greatest.
LEMMA FirstOfGreatest ==
    ASSUME NEW m \in Nat \ {0}, NEW f, \A k \in 1..m : f[k] \in Nat
    PROVE  \E n \in 1..m : \A k \in 1..m : f[k] < f[n] \/ (f[k] = f[n] /\ n <= k)
<1> DEFINE D == 1..m
           R == {p \in D \X D : f[p[1]] > f[p[2]] \/ (f[p[1]] = f[p[2]] /\ p[1] < p[2])}
<1>1. IsFiniteSet(D) /\ D # {}
  <2>1. 1 \in D
    OBVIOUS
  <2>2. IsFiniteSet(D)
    BY FS_Interval
  <2> HIDE DEF D
  <2> QED BY <2>1, <2>2
<1>2. \A x, y \in D : <<x, y>> \in R <=> f[x] > f[y] \/ (f[x] = f[y] /\ x < y)
  OBVIOUS
<1>n. \A x \in D : x \in Nat /\ f[x] \in Nat
  OBVIOUS
<1> HIDE DEF R, D
<1>3. (\A x \in D : <<x, x>> \notin R)
      /\ \A x, y, z \in D : <<x, y>> \in R /\ <<y, z>> \in R => <<x, z>> \in R
  BY <1>2, <1>n
<1>4. PICK n \in D : \A k \in D : <<k, n>> \notin R
  BY <1>1, <1>3, SomethingIsFirst
<1>5. ASSUME NEW k \in D
      PROVE  f[k] < f[n] \/ (f[k] = f[n] /\ n <= k)
  <2>1. ~ (f[k] > f[n]) /\ ~ (f[k] = f[n] /\ k < n)
    BY <1>2, <1>4
  <2> QED BY <1>n, <2>1
<1> QED BY <1>5 DEF D

-----------------------------------------------------------------------------
(* What a sum is: the value for the element that is chosen and the sum of    *)
(* the others.                                                               *)

Chosen(T) == CHOOSE x \in T : TRUE

\* u adds up f over the parts of S, one chosen element at a time.
Adds(u, f, S) ==
    u = [T \in SUBSET S |-> IF T = {} THEN 0 ELSE f[Chosen(T)] + u[T \ {Chosen(T)}]]

\* The sum is what the chosen adding function says of the set.
LEMMA SumIsChosen ==
    ASSUME NEW f, NEW S
    PROVE  SumOver(f, S) = (CHOOSE u : Adds(u, f, S))[S]
BY DEF SumOver, MapThenSumSet, MapThenFoldSet, Adds, Chosen

\* There is such a function: every size of part is reached from the one below.
LEMMA AddsExists ==
    ASSUME NEW f, NEW S, IsFiniteSet(S)
    PROVE  \E u : Adds(u, f, S)
<1> DEFINE Step(u, T) == IF T = {} THEN 0 ELSE f[Chosen(T)] + u[T \ {Chosen(T)}]
           Upto(n) == \E u : /\ u = [T \in SUBSET S |-> u[T]]
                             /\ \A T \in SUBSET S : Cardinality(T) <= n => u[T] = Step(u, T)
           N == {n \in Nat : Upto(n)}
<1>1. \A T \in SUBSET S : IsFiniteSet(T) /\ Cardinality(T) \in Nat
  BY FS_Subset, FS_CardinalityType
<1>2. \A T \in SUBSET S : T # {} =>
          T \ {Chosen(T)} \in SUBSET S /\ Cardinality(T \ {Chosen(T)}) = Cardinality(T) - 1
  <2> SUFFICES ASSUME NEW T \in SUBSET S, T # {}
               PROVE  T \ {Chosen(T)} \in SUBSET S
                      /\ Cardinality(T \ {Chosen(T)}) = Cardinality(T) - 1
    OBVIOUS
  <2>1. Chosen(T) \in T
    BY DEF Chosen
  <2> QED BY <1>1, <2>1, FS_RemoveElement
<1>3. 0 \in N
  <2> DEFINE u == [T \in SUBSET S |-> 0]
  <2>1. \A T \in SUBSET S : Cardinality(T) <= 0 => T = {}
    BY <1>1, FS_EmptySet
  <2>2. \A T \in SUBSET S : Cardinality(T) <= 0 => u[T] = Step(u, T)
    BY <2>1
  <2> QED BY <2>2
<1>4. ASSUME NEW n \in Nat, n \in N
      PROVE  n + 1 \in N
  <2>1. PICK u : \A T \in SUBSET S : Cardinality(T) <= n => u[T] = Step(u, T)
    BY <1>4
  <2> DEFINE v == [T \in SUBSET S |-> IF Cardinality(T) <= n THEN u[T] ELSE Step(u, T)]
  <2>2. ASSUME NEW T \in SUBSET S, Cardinality(T) <= n + 1
        PROVE  v[T] = Step(v, T)
    <3>1. CASE T = {}
      <4>1. Cardinality(T) <= n
        BY <3>1, FS_EmptySet
      <4> QED BY <2>1, <3>1, <4>1
    <3>2. CASE T # {}
      <4> DEFINE rest == T \ {Chosen(T)}
      <4>1. rest \in SUBSET S /\ Cardinality(rest) <= n
        BY <1>1, <1>2, <2>2, <3>2
      <4>2. v[rest] = u[rest]
        BY <4>1
      <4>3. v[T] = f[Chosen(T)] + u[rest]
        BY <2>1, <3>2
      <4> QED BY <3>2, <4>2, <4>3
    <3> QED BY <3>1, <3>2
  <2>3. v = [T \in SUBSET S |-> v[T]]
    OBVIOUS
  <2>4. Upto(n + 1)
    <3> HIDE DEF v, Step
    <3> QED BY <2>2, <2>3
  <2> HIDE DEF Upto
  <2> QED BY <2>4
<1> HIDE DEF N
<1>5. Cardinality(S) \in N
  BY <1>1, <1>3, <1>4, SetInduction
<1>6. PICK u : /\ u = [T \in SUBSET S |-> u[T]]
               /\ \A T \in SUBSET S : Cardinality(T) <= Cardinality(S) => u[T] = Step(u, T)
  <2> HIDE DEF Step
  <2> QED BY <1>5 DEF N
<1>7. \A T \in SUBSET S : u[T] = Step(u, T)
  <2>1. \A T \in SUBSET S : Cardinality(T) <= Cardinality(S)
    BY FS_Subset
  <2> HIDE DEF Step
  <2> QED BY <1>6, <2>1
<1>8. u = [T \in SUBSET S |-> Step(u, T)]
  <2> HIDE DEF Step
  <2> QED BY <1>6, <1>7
<1> QED BY <1>8 DEF Adds

\* And one only: two of them agree on every part that both have.
LEMMA AddsUnique ==
    ASSUME NEW f, NEW S, IsFiniteSet(S), NEW T \in SUBSET S,
           NEW u, Adds(u, f, S), NEW v, Adds(v, f, T)
    PROVE  u[T] = v[T]
<1> DEFINE N == {n \in Nat : \A R \in SUBSET T : Cardinality(R) = n => u[R] = v[R]}
<1>1. \A R \in SUBSET T : R \in SUBSET S /\ IsFiniteSet(R) /\ Cardinality(R) \in Nat
  BY FS_Subset, FS_CardinalityType
<1>2. \A R \in SUBSET T :
          /\ u[R] = IF R = {} THEN 0 ELSE f[Chosen(R)] + u[R \ {Chosen(R)}]
          /\ v[R] = IF R = {} THEN 0 ELSE f[Chosen(R)] + v[R \ {Chosen(R)}]
  <2>1. \A R \in SUBSET S : u[R] = IF R = {} THEN 0 ELSE f[Chosen(R)] + u[R \ {Chosen(R)}]
    BY DEF Adds
  <2>2. \A R \in SUBSET T : v[R] = IF R = {} THEN 0 ELSE f[Chosen(R)] + v[R \ {Chosen(R)}]
    BY DEF Adds
  <2> QED BY <1>1, <2>1, <2>2
<1>3. 0 \in N
  <2>1. \A R \in SUBSET T : Cardinality(R) = 0 => R = {}
    BY <1>1, FS_EmptySet
  <2> QED BY <1>2, <2>1
<1>4. ASSUME NEW n \in Nat, n \in N
      PROVE  n + 1 \in N
  <2> SUFFICES ASSUME NEW R \in SUBSET T, Cardinality(R) = n + 1
               PROVE  u[R] = v[R]
    OBVIOUS
  <2>1. R # {}
    BY FS_EmptySet
  <2>2. Chosen(R) \in R
    BY <2>1 DEF Chosen
  <2>3. R \ {Chosen(R)} \in SUBSET T /\ Cardinality(R \ {Chosen(R)}) = n
    <3>1. Cardinality(R \ {Chosen(R)}) = Cardinality(R) - 1
      BY <1>1, <2>2, FS_RemoveElement
    <3> QED BY <3>1
  <2>4. u[R \ {Chosen(R)}] = v[R \ {Chosen(R)}]
    BY <1>4, <2>3
  <2> QED BY <1>2, <2>1, <2>4
<1> HIDE DEF N
<1>5. \A n \in Nat : n \in N
  BY <1>3, <1>4, SetInduction
<1>6. Cardinality(T) \in N
  BY <1>1, <1>5
<1> QED BY <1>6 DEF N

\* Every function that adds up the parts of a set says what their sums are,
LEMMA SumAdds ==
    ASSUME NEW f, NEW S, IsFiniteSet(S), NEW u, Adds(u, f, S), NEW T \in SUBSET S
    PROVE  SumOver(f, T) = u[T]
<1>1. IsFiniteSet(T)
  BY FS_Subset
<1> DEFINE v == CHOOSE w : Adds(w, f, T)
<1>2. Adds(v, f, T)
  <2>1. \E w : Adds(w, f, T)
    BY <1>1, AddsExists
  <2> QED BY <2>1
<1> HIDE DEF v
<1>3. u[T] = v[T]
  BY <1>2, AddsUnique
<1> QED BY <1>3, SumIsChosen DEF v

\* so that a sum is its chosen term and the sum of the rest.
LEMMA SumChosen ==
    ASSUME NEW f, NEW S, IsFiniteSet(S)
    PROVE  SumOver(f, S) = IF S = {} THEN 0 ELSE f[Chosen(S)] + SumOver(f, S \ {Chosen(S)})
<1>1. PICK u : Adds(u, f, S)
  BY AddsExists
<1>2. SumOver(f, S) = u[S] /\ SumOver(f, S \ {Chosen(S)}) = u[S \ {Chosen(S)}]
  BY <1>1, SumAdds
<1>3. u[S] = IF S = {} THEN 0 ELSE f[Chosen(S)] + u[S \ {Chosen(S)}]
  BY <1>1 DEF Adds
<1> QED BY <1>2, <1>3

\* Nothing adds up to nothing.
LEMMA SumEmpty == ASSUME NEW f PROVE SumOver(f, {}) = 0
BY SumChosen, FS_EmptySet

\* A sum of integers is one, and so is one of natural numbers.
LEMMA SumType ==
    ASSUME NEW f, NEW S, IsFiniteSet(S)
    PROVE  /\ (\A x \in S : f[x] \in Int) => SumOver(f, S) \in Int
           /\ (\A x \in S : f[x] \in Nat) => SumOver(f, S) \in Nat
<1> DEFINE N == {n \in Nat : \A T \in SUBSET S : Cardinality(T) = n =>
                    /\ (\A x \in T : f[x] \in Int) => SumOver(f, T) \in Int
                    /\ (\A x \in T : f[x] \in Nat) => SumOver(f, T) \in Nat}
<1>1. \A T \in SUBSET S : IsFiniteSet(T) /\ Cardinality(T) \in Nat
  BY FS_Subset, FS_CardinalityType
<1>2. 0 \in N
  <2>1. \A T \in SUBSET S : Cardinality(T) = 0 => T = {}
    BY <1>1, FS_EmptySet
  <2> QED BY <2>1, SumEmpty
<1>3. ASSUME NEW n \in Nat, n \in N
      PROVE  n + 1 \in N
  <2> SUFFICES ASSUME NEW T \in SUBSET S, Cardinality(T) = n + 1
               PROVE  /\ (\A x \in T : f[x] \in Int) => SumOver(f, T) \in Int
                      /\ (\A x \in T : f[x] \in Nat) => SumOver(f, T) \in Nat
    OBVIOUS
  <2>1. T # {}
    BY FS_EmptySet
  <2>2. Chosen(T) \in T
    BY <2>1 DEF Chosen
  <2> DEFINE R == T \ {Chosen(T)}
  <2>3. R \in SUBSET S /\ R \in SUBSET T /\ Cardinality(R) = n
    BY <1>1, <2>2, FS_RemoveElement
  <2>4. SumOver(f, T) = f[Chosen(T)] + SumOver(f, R)
    BY <1>1, <2>1, SumChosen
  <2>5. /\ (\A x \in R : f[x] \in Int) => SumOver(f, R) \in Int
        /\ (\A x \in R : f[x] \in Nat) => SumOver(f, R) \in Nat
    BY <1>3, <2>3
  <2> HIDE DEF R
  <2> QED BY <2>2, <2>3, <2>4, <2>5
<1> HIDE DEF N
<1>4. \A n \in Nat : n \in N
  BY <1>2, <1>3, SetInduction
<1>5. Cardinality(S) \in N
  BY <1>1, <1>4
<1> QED BY <1>5 DEF N

\* Any element may be the first to be added.
LEMMA SumRemove ==
    ASSUME NEW f, NEW S, IsFiniteSet(S), \A x \in S : f[x] \in Int, NEW x \in S
    PROVE  SumOver(f, S) = f[x] + SumOver(f, S \ {x})
<1> DEFINE N == {n \in Nat : \A T \in SUBSET S : Cardinality(T) = n =>
                    \A y \in T : SumOver(f, T) = f[y] + SumOver(f, T \ {y})}
<1>1. \A T \in SUBSET S : IsFiniteSet(T) /\ Cardinality(T) \in Nat /\ SumOver(f, T) \in Int
  BY FS_Subset, FS_CardinalityType, SumType
<1>2. 0 \in N
  <2>1. \A T \in SUBSET S : Cardinality(T) = 0 => T = {}
    BY <1>1, FS_EmptySet
  <2> QED BY <2>1
<1>3. ASSUME NEW n \in Nat, n \in N
      PROVE  n + 1 \in N
  <2> SUFFICES ASSUME NEW T \in SUBSET S, Cardinality(T) = n + 1, NEW y \in T
               PROVE  SumOver(f, T) = f[y] + SumOver(f, T \ {y})
    OBVIOUS
  <2> DEFINE z == Chosen(T)
  <2>1. z \in T
    BY DEF Chosen
  <2>2. SumOver(f, T) = f[z] + SumOver(f, T \ {z})
    BY <1>1, SumChosen
  <2>3. CASE y = z
    BY <2>2, <2>3
  <2>4. CASE y # z
    <3> HIDE DEF z
    <3>1. \A w \in T : T \ {w} \in SUBSET S /\ Cardinality(T \ {w}) = n
      <4> SUFFICES ASSUME NEW w \in T PROVE Cardinality(T \ {w}) = n
        OBVIOUS
      <4>1. Cardinality(T \ {w}) = Cardinality(T) - 1
        BY <1>1, FS_RemoveElement
      <4> QED BY <4>1
    <3>2. SumOver(f, T \ {z}) = f[y] + SumOver(f, (T \ {z}) \ {y})
      <4>1. y \in T \ {z}
        BY <2>4
      <4> QED BY <1>3, <2>1, <3>1, <4>1
    <3>3. SumOver(f, T \ {y}) = f[z] + SumOver(f, (T \ {y}) \ {z})
      <4>1. z \in T \ {y}
        BY <2>1, <2>4
      <4> QED BY <1>3, <3>1, <4>1
    <3> DEFINE rest == SumOver(f, (T \ {z}) \ {y})
    <3>4. SumOver(f, (T \ {y}) \ {z}) = rest
      <4>1. (T \ {z}) \ {y} = (T \ {y}) \ {z}
        OBVIOUS
      <4> QED BY <4>1
    <3>5. f[y] \in Int /\ f[z] \in Int /\ rest \in Int
      <4>1. (T \ {z}) \ {y} \in SUBSET S
        OBVIOUS
      <4> QED BY <1>1, <2>1, <4>1
    <3> HIDE DEF rest
    <3>6. SumOver(f, T) = f[z] + (f[y] + rest) /\ SumOver(f, T \ {y}) = f[z] + rest
      BY <2>2, <3>2, <3>3, <3>4 DEF rest
    <3> QED BY <3>5, <3>6
  <2> QED BY <2>3, <2>4
<1> HIDE DEF N
<1>4. \A n \in Nat : n \in N
  BY <1>2, <1>3, SetInduction
<1>5. Cardinality(S) \in N
  BY <1>1, <1>4
<1> QED BY <1>5 DEF N

\* A new element adds its term.
LEMMA SumAdd ==
    ASSUME NEW f, NEW S, IsFiniteSet(S), NEW x, x \notin S, \A y \in S \cup {x} : f[y] \in Int
    PROVE  SumOver(f, S \cup {x}) = f[x] + SumOver(f, S)
<1>1. IsFiniteSet(S \cup {x}) /\ (S \cup {x}) \ {x} = S
  BY FS_AddElement
<1> QED BY <1>1, SumRemove

\* Only the values on S matter.
LEMMA SumSame ==
    ASSUME NEW S, IsFiniteSet(S), NEW f, NEW g, \A x \in S : f[x] \in Int /\ f[x] = g[x]
    PROVE  SumOver(f, S) = SumOver(g, S)
<1> DEFINE G == {T \in SUBSET S : SumOver(f, T) = SumOver(g, T)}
<1>1. {} \in G
  BY SumEmpty
<1>2. ASSUME NEW T \in SUBSET S, NEW x \in S \ T, T \in G
      PROVE  T \cup {x} \in G
  <2>1. IsFiniteSet(T)
    BY FS_Subset
  <2>2. SumOver(f, T \cup {x}) = f[x] + SumOver(f, T)
    BY <2>1, SumAdd
  <2>3. SumOver(g, T \cup {x}) = g[x] + SumOver(g, T)
    BY <2>1, SumAdd
  <2> QED BY <1>2, <2>2, <2>3
<1>3. S \in G
  <2> HIDE DEF G
  <2> QED BY <1>1, <1>2, AddingElements
<1> QED BY <1>3

\* The sum of sums, and of multiples.
LEMMA SumPlus ==
    ASSUME NEW S, IsFiniteSet(S), NEW f, NEW g, NEW h,
           \A x \in S : f[x] \in Int /\ g[x] \in Int /\ h[x] = f[x] + g[x]
    PROVE  SumOver(h, S) = SumOver(f, S) + SumOver(g, S)
<1> DEFINE G == {T \in SUBSET S : SumOver(h, T) = SumOver(f, T) + SumOver(g, T)}
<1>1. {} \in G
  BY SumEmpty
<1>2. ASSUME NEW T \in SUBSET S, NEW x \in S \ T, T \in G
      PROVE  T \cup {x} \in G
  <2>1. IsFiniteSet(T)
    BY FS_Subset
  <2>2. SumOver(f, T \cup {x}) = f[x] + SumOver(f, T)
    BY <2>1, SumAdd
  <2>3. SumOver(g, T \cup {x}) = g[x] + SumOver(g, T)
    BY <2>1, SumAdd
  <2>4. SumOver(h, T \cup {x}) = h[x] + SumOver(h, T)
    BY <2>1, SumAdd
  <2>5. SumOver(f, T) \in Int /\ SumOver(g, T) \in Int
    BY <2>1, SumType
  <2> QED BY <1>2, <2>2, <2>3, <2>4, <2>5
<1>3. S \in G
  <2> HIDE DEF G
  <2> QED BY <1>1, <1>2, AddingElements
<1> QED BY <1>3

\* A factor of every term is one of the sum.
LEMMA SumTimes ==
    ASSUME NEW S, IsFiniteSet(S), NEW f, NEW h, NEW a \in Int,
           \A x \in S : f[x] \in Int /\ h[x] = a * f[x]
    PROVE  SumOver(h, S) = a * SumOver(f, S)
<1> DEFINE G == {T \in SUBSET S : SumOver(h, T) = a * SumOver(f, T)}
<1>1. {} \in G
  BY SumEmpty
<1>2. ASSUME NEW T \in SUBSET S, NEW x \in S \ T, T \in G
      PROVE  T \cup {x} \in G
  <2>1. IsFiniteSet(T)
    BY FS_Subset
  <2>2. SumOver(f, T \cup {x}) = f[x] + SumOver(f, T)
    BY <2>1, SumAdd
  <2>3. SumOver(h, T \cup {x}) = h[x] + SumOver(h, T)
    BY <2>1, SumAdd
  <2>4. SumOver(f, T) \in Int /\ f[x] \in Int /\ h[x] = a * f[x]
    BY <2>1, SumType
  <2>5. a * (f[x] + SumOver(f, T)) = a * f[x] + a * SumOver(f, T)
    BY <2>4
  <2> QED BY <1>2, <2>2, <2>3, <2>4, <2>5
<1>3. S \in G
  <2> HIDE DEF G
  <2> QED BY <1>1, <1>2, AddingElements
<1> QED BY <1>3

\* Greater values, greater sum.
LEMMA SumMonotone ==
    ASSUME NEW S, IsFiniteSet(S), NEW f, NEW g,
           \A x \in S : f[x] \in Int /\ g[x] \in Int /\ f[x] <= g[x]
    PROVE  SumOver(f, S) <= SumOver(g, S)
<1> DEFINE G == {T \in SUBSET S : SumOver(f, T) <= SumOver(g, T)}
<1>1. {} \in G
  BY SumEmpty
<1>2. ASSUME NEW T \in SUBSET S, NEW x \in S \ T, T \in G
      PROVE  T \cup {x} \in G
  <2>1. IsFiniteSet(T)
    BY FS_Subset
  <2>2. SumOver(f, T \cup {x}) = f[x] + SumOver(f, T)
    BY <2>1, SumAdd
  <2>3. SumOver(g, T \cup {x}) = g[x] + SumOver(g, T)
    BY <2>1, SumAdd
  <2>4. SumOver(f, T) \in Int /\ SumOver(g, T) \in Int
    BY <2>1, SumType
  <2> QED BY <1>2, <2>2, <2>3, <2>4
<1>3. S \in G
  <2> HIDE DEF G
  <2> QED BY <1>1, <1>2, AddingElements
<1> QED BY <1>3

\* The sum of a constant; a cardinality is a sum of ones.
LEMMA SumConstant ==
    ASSUME NEW S, IsFiniteSet(S), NEW f, NEW a \in Int, \A x \in S : f[x] = a
    PROVE  SumOver(f, S) = a * Cardinality(S)
<1> DEFINE G == {T \in SUBSET S : SumOver(f, T) = a * Cardinality(T)}
<1>1. {} \in G
  BY SumEmpty, FS_EmptySet
<1>2. ASSUME NEW T \in SUBSET S, NEW x \in S \ T, T \in G
      PROVE  T \cup {x} \in G
  <2>1. IsFiniteSet(T)
    BY FS_Subset
  <2>2. SumOver(f, T \cup {x}) = f[x] + SumOver(f, T)
    BY <2>1, SumAdd
  <2>3. Cardinality(T \cup {x}) = Cardinality(T) + 1 /\ Cardinality(T) \in Nat
    BY <2>1, FS_AddElement, FS_CardinalityType
  <2>4. a * (Cardinality(T) + 1) = a + a * Cardinality(T)
    BY <2>3
  <2> QED BY <1>2, <2>2, <2>3, <2>4
<1>3. S \in G
  <2> HIDE DEF G
  <2> QED BY <1>1, <1>2, AddingElements
<1> QED BY <1>3

\* A sum over two sets that share nothing.
LEMMA SumUnion ==
    ASSUME NEW S, IsFiniteSet(S), NEW R, IsFiniteSet(R), S \cap R = {},
           NEW f, \A x \in S \cup R : f[x] \in Int
    PROVE  SumOver(f, S \cup R) = SumOver(f, S) + SumOver(f, R)
<1> DEFINE G == {T \in SUBSET S : SumOver(f, T \cup R) = SumOver(f, T) + SumOver(f, R)}
<1>1. {} \in G
  <2>1. {} \cup R = R /\ SumOver(f, R) \in Int
    BY SumType
  <2> QED BY <2>1, SumEmpty
<1>2. ASSUME NEW T \in SUBSET S, NEW x \in S \ T, T \in G
      PROVE  T \cup {x} \in G
  <2>1. IsFiniteSet(T) /\ IsFiniteSet(T \cup R) /\ x \notin T \cup R
    BY FS_Subset, FS_Union
  <2>2. SumOver(f, T \cup {x}) = f[x] + SumOver(f, T)
    BY <2>1, SumAdd
  <2>3. SumOver(f, (T \cup {x}) \cup R) = f[x] + SumOver(f, T \cup R)
    <3>1. SumOver(f, (T \cup R) \cup {x}) = f[x] + SumOver(f, T \cup R)
      BY <2>1, SumAdd
    <3>2. (T \cup R) \cup {x} = (T \cup {x}) \cup R
      OBVIOUS
    <3> QED BY <3>1, <3>2
  <2>4. SumOver(f, T) \in Int /\ SumOver(f, R) \in Int /\ f[x] \in Int
    BY <2>1, SumType
  <2> QED BY <1>2, <2>2, <2>3, <2>4
<1>3. S \in G
  <2> HIDE DEF G
  <2> QED BY <1>1, <1>2, AddingElements
<1> QED BY <1>3

\* What is left out of a sum of natural numbers makes it no greater.
LEMMA SumOfPart ==
    ASSUME NEW S, IsFiniteSet(S), NEW T \in SUBSET S, NEW f, \A x \in S : f[x] \in Nat
    PROVE  SumOver(f, T) <= SumOver(f, S)
<1>1. IsFiniteSet(T) /\ IsFiniteSet(S \ T) /\ S = T \cup (S \ T) /\ T \cap (S \ T) = {}
  BY FS_Subset
<1>2. SumOver(f, S) = SumOver(f, T) + SumOver(f, S \ T)
  <2>1. SumOver(f, T \cup (S \ T)) = SumOver(f, T) + SumOver(f, S \ T)
    BY <1>1, SumUnion
  <2> QED BY <1>1, <2>1
<1>3. SumOver(f, T) \in Nat /\ SumOver(f, S \ T) \in Nat
  BY <1>1, SumType
<1> QED BY <1>2, <1>3

\* Nothing but zeros; and one that is none of them.
LEMMA SumZero ==
    ASSUME NEW S, IsFiniteSet(S), NEW f, \A x \in S : f[x] \in Nat
    PROVE  SumOver(f, S) = 0 <=> \A x \in S : f[x] = 0
<1>1. ASSUME NEW x \in S PROVE f[x] <= SumOver(f, S)
  <2>1. IsFiniteSet(S \ {x})
    BY FS_Subset
  <2>2. SumOver(f, S) = f[x] + SumOver(f, S \ {x}) /\ SumOver(f, S \ {x}) \in Nat
    BY <2>1, SumRemove, SumType
  <2> QED BY <2>2
<1>2. ASSUME \A x \in S : f[x] = 0 PROVE SumOver(f, S) = 0
  <2>1. SumOver(f, S) = 0 * Cardinality(S)
    BY <1>2, SumConstant
  <2> QED BY <2>1, FS_CardinalityType
<1> QED BY <1>1, <1>2, SumType

\* Zero stands for what is not in T.
LEMMA SumFilter ==
    ASSUME NEW S, IsFiniteSet(S), NEW T \in SUBSET S, NEW f, NEW g,
           \A x \in S : f[x] \in Int /\ g[x] = IF x \in T THEN f[x] ELSE 0
    PROVE  SumOver(g, S) = SumOver(f, T)
<1>1. IsFiniteSet(T) /\ IsFiniteSet(S \ T) /\ S = T \cup (S \ T) /\ T \cap (S \ T) = {}
  BY FS_Subset
<1>2. SumOver(g, S) = SumOver(g, T) + SumOver(g, S \ T)
  <2>1. SumOver(g, T \cup (S \ T)) = SumOver(g, T) + SumOver(g, S \ T)
    BY <1>1, SumUnion
  <2> QED BY <1>1, <2>1
<1>3. SumOver(g, S \ T) = 0
  <2>1. SumOver(g, S \ T) = 0 * Cardinality(S \ T)
    BY <1>1, SumConstant
  <2> QED BY <1>1, <2>1, FS_CardinalityType
<1>4. SumOver(g, T) = SumOver(f, T) /\ SumOver(f, T) \in Int
  BY <1>1, SumSame, SumType
<1> QED BY <1>2, <1>3, <1>4

\* A sum of sums over parts of S that may overlap: every element counts as
\* often as it is in one.  part[k] is a part, of[x] are those that x is in.
LEMMA SumCover ==
    ASSUME NEW S, IsFiniteSet(S), NEW K, IsFiniteSet(K),
           NEW part, NEW of, \A x \in S : \A k \in K : x \in part[k] <=> k \in of[x],
           \A k \in K : part[k] \subseteq S, \A x \in S : of[x] \subseteq K,
           NEW f, \A x \in S : f[x] \in Int,
           NEW h, \A k \in K : h[k] = SumOver(f, part[k]),
           NEW w, \A x \in S : w[x] = f[x] * Cardinality(of[x])
    PROVE  SumOver(h, K) = SumOver(w, S)
<1> DEFINE times(L) == [x \in S |-> f[x] * Cardinality(of[x] \cap L)]
           G == {L \in SUBSET K : SumOver(h, L) = SumOver(times(L), S)}
<1>0. \A L \in SUBSET K : \A x \in S :
          /\ IsFiniteSet(of[x] \cap L)
          /\ Cardinality(of[x] \cap L) \in Nat
          /\ times(L)[x] \in Int
  <2> SUFFICES ASSUME NEW L \in SUBSET K, NEW x \in S
               PROVE  /\ IsFiniteSet(of[x] \cap L)
                      /\ Cardinality(of[x] \cap L) \in Nat
                      /\ times(L)[x] \in Int
    OBVIOUS
  <2>1. of[x] \cap L \in SUBSET K
    OBVIOUS
  <2>2. IsFiniteSet(of[x] \cap L) /\ Cardinality(of[x] \cap L) \in Nat
    BY <2>1, FS_Subset, FS_CardinalityType
  <2> QED BY <2>2
<1>1. {} \in G
  <2>1. \A x \in S : times({})[x] = 0
    <3> SUFFICES ASSUME NEW x \in S PROVE times({})[x] = 0
      OBVIOUS
    <3>1. of[x] \cap {} = {}
      OBVIOUS
    <3> QED BY <3>1, FS_EmptySet
  <2>2. SumOver(times({}), S) = 0 * Cardinality(S)
    <3> HIDE DEF times
    <3> QED BY <2>1, SumConstant
  <2>3. SumOver(times({}), S) = 0
    <3> HIDE DEF times
    <3> QED BY <2>2, FS_CardinalityType
  <2> HIDE DEF times
  <2> QED BY <2>3, SumEmpty
<1>2. ASSUME NEW L \in SUBSET K, NEW k \in K \ L, L \in G
      PROVE  L \cup {k} \in G
  <2> DEFINE once == [x \in S |-> IF x \in part[k] THEN f[x] ELSE 0]
  <2>1. ASSUME NEW x \in S
        PROVE  times(L \cup {k})[x] = times(L)[x] + once[x]
    <3> DEFINE in(M) == of[x] \cap M
    <3>1. IsFiniteSet(in(L)) /\ Cardinality(in(L)) \in Nat /\ k \notin in(L)
      BY <1>0
    <3>2. CASE x \in part[k]
      <4>1. in(L \cup {k}) = in(L) \cup {k}
        BY <3>2
      <4>2. Cardinality(in(L) \cup {k}) = Cardinality(in(L)) + 1
        <5> HIDE DEF in
        <5> QED BY <3>1, FS_AddElement
      <4>3. Cardinality(in(L \cup {k})) = Cardinality(in(L)) + 1
        <5> HIDE DEF in
        <5> QED BY <4>1, <4>2
      <4>4. f[x] * (Cardinality(in(L)) + 1) = f[x] * Cardinality(in(L)) + f[x]
        BY <3>1
      <4>5. once[x] = f[x]
        BY <3>2
      <4>6. times(L \cup {k})[x] = f[x] * Cardinality(in(L \cup {k})) /\ times(L)[x] = f[x] * Cardinality(in(L))
        OBVIOUS
      <4> HIDE DEF in, times, once
      <4> QED BY <4>3, <4>4, <4>5, <4>6
    <3>3. CASE x \notin part[k]
      <4>1. in(L \cup {k}) = in(L)
        BY <3>3
      <4>2. times(L \cup {k})[x] = f[x] * Cardinality(in(L \cup {k})) /\ times(L)[x] = f[x] * Cardinality(in(L))
        OBVIOUS
      <4>3. once[x] = 0 /\ times(L)[x] \in Int
        BY <1>0, <3>3
      <4> HIDE DEF in, times, once
      <4> QED BY <4>1, <4>2, <4>3
    <3> QED BY <3>2, <3>3
  <2>2. \A x \in S : times(L)[x] \in Int /\ once[x] \in Int
    <3>1. \A x \in S : times(L)[x] \in Int
      <4> HIDE DEF times
      <4> QED BY <1>0
    <3>2. \A x \in S : once[x] \in Int
      OBVIOUS
    <3> HIDE DEF times, once
    <3> QED BY <3>1, <3>2
  <2>3. SumOver(times(L \cup {k}), S) = SumOver(times(L), S) + SumOver(once, S)
    <3> DEFINE after == times(L \cup {k})
               before == times(L)
    <3>1. \A x \in S : before[x] \in Int /\ once[x] \in Int /\ after[x] = before[x] + once[x]
      BY <2>1, <2>2
    <3> HIDE DEF after, before, once
    <3>2. SumOver(after, S) = SumOver(before, S) + SumOver(once, S)
      BY <3>1, SumPlus
    <3> QED BY <3>2 DEF after, before
  <2>4. SumOver(once, S) = SumOver(f, part[k])
    <3>1. \A x \in S : f[x] \in Int /\ once[x] = IF x \in part[k] THEN f[x] ELSE 0
      OBVIOUS
    <3>2. part[k] \in SUBSET S
      OBVIOUS
    <3> HIDE DEF once
    <3> QED BY <3>1, <3>2, SumFilter
  <2>5. \A j \in K : h[j] \in Int
    <3> SUFFICES ASSUME NEW j \in K PROVE h[j] \in Int
      OBVIOUS
    <3>1. IsFiniteSet(part[j])
      BY FS_Subset
    <3>2. SumOver(f, part[j]) \in Int
      BY <3>1, SumType
    <3> QED BY <3>2
  <2>6. SumOver(h, L \cup {k}) = h[k] + SumOver(h, L)
    <3>1. IsFiniteSet(L)
      BY FS_Subset
    <3> QED BY <2>5, <3>1, SumAdd
  <2>7. h[k] = SumOver(f, part[k]) /\ h[k] \in Int
    BY <2>5
  <2>8. SumOver(times(L), S) \in Int
    <3> HIDE DEF times
    <3> QED BY <2>2, SumType
  <2> HIDE DEF times, once
  <2> QED BY <1>2, <2>3, <2>4, <2>6, <2>7, <2>8
<1>3. K \in G
  <2> HIDE DEF G
  <2> QED BY <1>1, <1>2, AddingElements
<1>4. SumOver(times(K), S) = SumOver(w, S)
  <2>1. \A x \in S : times(K)[x] = w[x]
    <3> SUFFICES ASSUME NEW x \in S PROVE times(K)[x] = w[x]
      OBVIOUS
    <3>1. of[x] \cap K = of[x]
      OBVIOUS
    <3>2. times(K)[x] = f[x] * Cardinality(of[x] \cap K)
      OBVIOUS
    <3> QED BY <3>1, <3>2
  <2>2. \A x \in S : times(K)[x] \in Int
    BY <1>0
  <2> HIDE DEF times
  <2> QED BY <2>1, <2>2, SumSame
<1> QED BY <1>3, <1>4

\* Parts that do not overlap and leave nothing out: f adds up over them.
LEMMA SumParts ==
    ASSUME NEW S, IsFiniteSet(S), NEW K, IsFiniteSet(K),
           NEW g, \A x \in S : g[x] \in K,
           NEW part, \A k \in K : part[k] \subseteq S,
           \A x \in S : \A k \in K : x \in part[k] <=> g[x] = k,
           NEW f, \A x \in S : f[x] \in Int,
           NEW h, \A k \in K : h[k] = SumOver(f, part[k])
    PROVE  SumOver(h, K) = SumOver(f, S)
<1> DEFINE of == [x \in S |-> {g[x]}]
           w == [x \in S |-> f[x] * Cardinality(of[x])]
<1>1. /\ \A x \in S : \A k \in K : x \in part[k] <=> k \in of[x]
      /\ \A x \in S : of[x] \subseteq K
  OBVIOUS
<1>2. \A x \in S : w[x] = f[x] * Cardinality(of[x])
  OBVIOUS
<1>3. \A x \in S : w[x] = f[x]
  <2> SUFFICES ASSUME NEW x \in S PROVE w[x] = f[x]
    OBVIOUS
  <2>1. of[x] = {g[x]}
    OBVIOUS
  <2> HIDE DEF w, of
  <2>2. Cardinality(of[x]) = 1
    BY <2>1, FS_Singleton
  <2>3. w[x] = f[x] * 1 /\ f[x] \in Int
    BY <1>2, <2>2
  <2> QED BY <2>3
<1> HIDE DEF of, w
<1>4. SumOver(h, K) = SumOver(w, S)
  BY <1>1, <1>2, SumCover
<1>5. SumOver(f, S) = SumOver(w, S)
  BY <1>3, SumSame
<1> QED BY <1>4, <1>5

\* The same sum, of what the elements are called elsewhere.
LEMMA SumImage ==
    ASSUME NEW S, IsFiniteSet(S), NEW m, \A x, y \in S : m[x] = m[y] => x = y,
           NEW f, NEW g, \A x \in S : f[m[x]] \in Int /\ g[x] = f[m[x]]
    PROVE  SumOver(f, {m[x] : x \in S}) = SumOver(g, S)
<1> DEFINE T == {m[x] : x \in S}
           part == [k \in T |-> {x \in S : m[x] = k}]
<1>1. IsFiniteSet(T)
  <2> DEFINE to == [x \in S |-> m[x]]
  <2>1. to \in Surjection(S, T)
    BY DEF Surjection
  <2> HIDE DEF to, T
  <2> QED BY <2>1, FS_Surjection
<1>2. ASSUME NEW k \in T
      PROVE  f[k] = SumOver(g, part[k])
  <2>1. PICK x \in S : m[x] = k
    OBVIOUS
  <2>2. part[k] = {x}
    BY <2>1
  <2>3. IsFiniteSet({x}) /\ IsFiniteSet({}) /\ {x} \ {x} = {}
    BY FS_Singleton, FS_EmptySet
  <2>4. SumOver(g, {x}) = g[x] + SumOver(g, {x} \ {x})
    BY <2>3, SumRemove
  <2>5. SumOver(g, {x}) = g[x] + 0
    BY <2>3, <2>4, SumEmpty
  <2>6. f[k] = g[x] /\ g[x] \in Int
    BY <2>1
  <2> HIDE DEF T, part
  <2> QED BY <2>2, <2>5, <2>6
<1>3. /\ \A x \in S : m[x] \in T /\ g[x] \in Int
      /\ \A k \in T : part[k] \subseteq S
      /\ \A x \in S : \A k \in T : x \in part[k] <=> m[x] = k
  OBVIOUS
<1> HIDE DEF T, part
<1>4. SumOver(f, T) = SumOver(g, S)
  BY <1>1, <1>2, <1>3, SumParts
<1> QED BY <1>4 DEF T

\* Parts that do not overlap, counted.
LEMMA CountParts ==
    ASSUME NEW S, IsFiniteSet(S), NEW K, IsFiniteSet(K),
           NEW g, \A x \in S : g[x] \in K,
           NEW part, \A k \in K : part[k] \subseteq S,
           \A x \in S : \A k \in K : x \in part[k] <=> g[x] = k,
           NEW h, \A k \in K : h[k] = Cardinality(part[k])
    PROVE  SumOver(h, K) = Cardinality(S)
<1> DEFINE one == [x \in S |-> 1]
<1>1. \A x \in S : one[x] = 1
  OBVIOUS
<1> HIDE DEF one
<1>2. \A k \in K : h[k] = SumOver(one, part[k])
  <2> SUFFICES ASSUME NEW k \in K PROVE h[k] = SumOver(one, part[k])
    OBVIOUS
  <2>1. IsFiniteSet(part[k]) /\ Cardinality(part[k]) \in Nat /\ \A x \in part[k] : one[x] = 1
    BY <1>1, FS_Subset, FS_CardinalityType
  <2>2. SumOver(one, part[k]) = 1 * Cardinality(part[k])
    BY <2>1, SumConstant
  <2> QED BY <2>1, <2>2
<1>3. SumOver(h, K) = SumOver(one, S)
  BY <1>1, <1>2, SumParts
<1>4. SumOver(one, S) = 1 * Cardinality(S)
  BY <1>1, SumConstant
<1> QED BY <1>3, <1>4, FS_CardinalityType

\* R orders S: strictly, and every two elements.
Orders(R, S) ==
    /\ \A x \in S : <<x, x>> \notin R
    /\ \A x, y \in S : x # y => <<x, y>> \in R \/ <<y, x>> \in R
    /\ \A x, y, z \in S : <<x, y>> \in R /\ <<y, z>> \in R => <<x, z>> \in R

\* The rank of an element is one more than the number of those before it.
Ranks(rank, before, R, S) ==
    \A x \in S :
        /\ before[x] \in SUBSET S /\ \A y \in S : y \in before[x] <=> <<y, x>> \in R
        /\ rank[x] = Cardinality(before[x]) + 1

\* A strict total order ranks a finite set 1, 2, and so on.
LEMMA Ranked ==
    ASSUME NEW S, IsFiniteSet(S), NEW R, Orders(R, S),
           NEW before, NEW rank, Ranks(rank, before, R, S)
    PROVE  /\ \A x \in S : rank[x] \in 1..Cardinality(S)
           /\ \A x, y \in S : <<x, y>> \in R => rank[x] < rank[y]
           /\ \A x, y \in S : rank[x] = rank[y] => x = y
           /\ \A n \in 1..Cardinality(S) : \E x \in S : rank[x] = n
<1>a. /\ \A x \in S : <<x, x>> \notin R
      /\ \A x, y \in S : x # y => <<x, y>> \in R \/ <<y, x>> \in R
      /\ \A x, y, z \in S : <<x, y>> \in R /\ <<y, z>> \in R => <<x, z>> \in R
  BY DEF Orders
<1>b. \A x \in S :
        /\ before[x] \in SUBSET S /\ \A y \in S : y \in before[x] <=> <<y, x>> \in R
        /\ rank[x] = Cardinality(before[x]) + 1
  BY DEF Ranks
<1> USE <1>a, <1>b
<1> DEFINE m == Cardinality(S)
<1>1. m \in Nat
  BY FS_CardinalityType
<1>2. ASSUME NEW x \in S
      PROVE  /\ IsFiniteSet(before[x]) /\ Cardinality(before[x]) \in 0..m - 1
             /\ rank[x] \in 1..m
  <2>1. before[x] \in SUBSET S /\ x \notin before[x]
    OBVIOUS
  <2>2. IsFiniteSet(before[x]) /\ Cardinality(before[x]) <= m /\ Cardinality(before[x]) \in Nat
    BY <2>1, FS_Subset, FS_CardinalityType
  <2>3. Cardinality(before[x]) # m
    BY <2>1, FS_Subset
  <2>4. Cardinality(before[x]) \in 0..m - 1
    BY <1>1, <2>2, <2>3
  <2> QED BY <1>1, <2>2, <2>4
<1>3. ASSUME NEW x \in S, NEW y \in S, <<x, y>> \in R
      PROVE  rank[x] < rank[y]
  <2>1. before[x] \in SUBSET before[y]
    <3> SUFFICES ASSUME NEW z \in before[x] PROVE z \in before[y]
      OBVIOUS
    <3>1. z \in S /\ <<z, x>> \in R
      OBVIOUS
    <3>2. <<z, y>> \in R
      BY <1>3, <3>1
    <3> QED BY <3>1, <3>2
  <2>2. x \in before[y] /\ x \notin before[x]
    BY <1>3
  <2>3. Cardinality(before[x]) <= Cardinality(before[y])
        /\ Cardinality(before[x]) # Cardinality(before[y])
    BY <1>2, <2>1, <2>2, FS_Subset
  <2>4. Cardinality(before[x]) \in Nat /\ Cardinality(before[y]) \in Nat
    BY <1>1, <1>2
  <2>5. rank[x] = Cardinality(before[x]) + 1 /\ rank[y] = Cardinality(before[y]) + 1
    OBVIOUS
  <2> QED BY <2>3, <2>4, <2>5
<1>4. ASSUME NEW x \in S, NEW y \in S, rank[x] = rank[y]
      PROVE  x = y
  <2>1. rank[x] \in Nat /\ rank[y] \in Nat
    BY <1>1, <1>2
  <2>2. ~ (rank[x] < rank[y]) /\ ~ (rank[y] < rank[x])
    BY <1>4, <2>1
  <2>3. <<x, y>> \notin R /\ <<y, x>> \notin R
    BY <1>3, <2>2
  <2> QED BY <2>3
<1>5. \A n \in 1..m : \E x \in S : rank[x] = n
  <2> DEFINE D == 1..m
             f == [x \in S |-> rank[x]]
  <2>1. IsFiniteSet(D) /\ Cardinality(D) = m
    <3>1. 1 \in Int /\ m \in Int
      BY <1>1
    <3>2. IsFiniteSet(1..m) /\ Cardinality(1..m) = IF 1 > m THEN 0 ELSE m - 1 + 1
      BY <3>1, FS_Interval
    <3> QED BY <1>1, <3>2
  <2>2. \A x \in S : rank[x] \in D
    BY <1>2
  <2> HIDE DEF D
  <2>3. f \in Injection(S, D)
    BY <1>4, <2>2 DEF Injection, IsInjective
  <2>4. f \in Surjection(S, D)
    BY <2>1, <2>3, FS_Injection
  <2>5. \A n \in D : \E x \in S : f[x] = n
    BY <2>4 DEF Surjection
  <2>6. \A n \in D : \E x \in S : rank[x] = n
    BY <2>5
  <2> QED BY <2>6 DEF D
<1> QED BY <1>2, <1>3, <1>4, <1>5

-----------------------------------------------------------------------------
(* Two functions over one set. *)

\* No greater anywhere and the same in sum: the same everywhere.
LEMMA SumStrict ==
    ASSUME NEW S, IsFiniteSet(S), NEW f, NEW g,
           \A x \in S : f[x] \in Int /\ g[x] \in Int /\ f[x] <= g[x],
           SumOver(f, S) = SumOver(g, S)
    PROVE  \A x \in S : f[x] = g[x]
<1> DEFINE d == [x \in S |-> g[x] - f[x]]
<1>1. \A x \in S : d[x] \in Nat /\ f[x] \in Int /\ d[x] \in Int /\ g[x] = f[x] + d[x]
  OBVIOUS
<1> HIDE DEF d
<1>2. SumOver(g, S) = SumOver(f, S) + SumOver(d, S)
  BY <1>1, SumPlus
<1>3. SumOver(f, S) \in Int /\ SumOver(d, S) \in Int
  BY <1>1, SumType
<1>4. SumOver(d, S) = 0
  BY <1>2, <1>3
<1>5. \A x \in S : d[x] = 0
  BY <1>1, <1>4, SumZero
<1> QED BY <1>1, <1>5

\* The same in sum: where one is above the other somewhere, it is below it elsewhere.
LEMMA SumBalance ==
    ASSUME NEW S, IsFiniteSet(S), NEW f, NEW g, \A x \in S : f[x] \in Int /\ g[x] \in Int,
           SumOver(f, S) = SumOver(g, S)
    PROVE  (\E x \in S : f[x] > g[x]) <=> (\E x \in S : f[x] < g[x])
<1>1. ASSUME ~ \E x \in S : f[x] > g[x]
      PROVE  ~ \E x \in S : f[x] < g[x]
  <2>1. \A x \in S : f[x] \in Int /\ g[x] \in Int /\ f[x] <= g[x]
    BY <1>1
  <2>2. \A x \in S : f[x] = g[x]
    BY <2>1, SumStrict
  <2> QED BY <2>2
<1>2. ASSUME ~ \E x \in S : f[x] < g[x]
      PROVE  ~ \E x \in S : f[x] > g[x]
  <2>1. \A x \in S : g[x] \in Int /\ f[x] \in Int /\ g[x] <= f[x]
    BY <1>2
  <2>2. \A x \in S : g[x] = f[x]
    BY <2>1, SumStrict
  <2> QED BY <2>2
<1> QED BY <1>1, <1>2

\* h is the product of f and g, place by place; and over all pairs of places.
Multiplies(h, f, g, S) ==
    \A x \in S : f[x] \in Int /\ g[x] \in Int /\ h[x] = f[x] * g[x]
Tabulates(h, f, A, g, B) ==
    /\ \A a \in A : f[a] \in Int
    /\ \A b \in B : g[b] \in Int
    /\ \A a \in A : \A b \in B : h[<<a, b>>] = f[a] * g[b]

\* A sum over a table whose entries are products is the product of two sums.
LEMMA SumTable ==
    ASSUME NEW A, IsFiniteSet(A), NEW B, IsFiniteSet(B), NEW f, NEW g, NEW h,
           Tabulates(h, f, A, g, B)
    PROVE  SumOver(h, A \X B) = SumOver(f, A) * SumOver(g, B)
<1> DEFINE S == A \X B
           G == SumOver(g, B)
           row == [a \in A |-> {a} \X B]
           first == [p \in S |-> p[1]]
           r == [a \in A |-> SumOver(h, row[a])]
<1>1. G \in Int
  BY SumType DEF Tabulates
<1>2. IsFiniteSet(S)
  BY FS_Product
<1>3. \A p \in S : h[p] \in Int
  <2> SUFFICES ASSUME NEW a \in A, NEW b \in B
               PROVE  h[<<a, b>>] \in Int
    OBVIOUS
  <2>1. f[a] \in Int /\ g[b] \in Int /\ h[<<a, b>>] = f[a] * g[b]
    BY DEF Tabulates
  <2> QED BY <2>1
<1>4. /\ \A p \in S : first[p] \in A
      /\ \A a \in A : row[a] \subseteq S
      /\ \A p \in S : \A a \in A : p \in row[a] <=> first[p] = a
      /\ \A a \in A : r[a] = SumOver(h, row[a])
  OBVIOUS
<1>5. SumOver(r, A) = SumOver(h, S)
  <2> HIDE DEF S, row, first, r
  <2> QED BY <1>2, <1>3, <1>4, SumParts
<1>6. ASSUME NEW a \in A
      PROVE  r[a] = G * f[a]
  <2> DEFINE m == [b \in B |-> <<a, b>>]
             k == [b \in B |-> h[<<a, b>>]]
  <2>1. \A x, y \in B : m[x] = m[y] => x = y
    OBVIOUS
  <2>2. {m[b] : b \in B} = row[a]
    OBVIOUS
  <2>3. \A b \in B : h[m[b]] \in Int /\ k[b] = h[m[b]]
    BY <1>3
  <2>4. SumOver(h, row[a]) = SumOver(k, B)
    <3> HIDE DEF m, k, row
    <3> QED BY <2>1, <2>2, <2>3, SumImage
  <2>5. f[a] \in Int /\ \A b \in B : g[b] \in Int /\ k[b] = f[a] * g[b]
    BY DEF Tabulates
  <2>6. SumOver(k, B) = f[a] * G
    <3> HIDE DEF k
    <3> QED BY <2>5, SumTimes
  <2>7. r[a] = f[a] * G
    BY <2>4, <2>6
  <2> HIDE DEF r, G
  <2> QED BY <1>1, <2>5, <2>7
<1>7. \A a \in A : f[a] \in Int /\ r[a] = G * f[a]
  BY <1>6 DEF Tabulates
<1> HIDE DEF r, G, S
<1>8. SumOver(r, A) = G * SumOver(f, A)
  BY <1>1, <1>7, SumTimes
<1>9. SumOver(f, A) \in Int
  BY <1>7, SumType
<1> QED BY <1>1, <1>5, <1>8, <1>9 DEF G, S

\* The inequality of Cauchy and Schwarz, and when it is strict.
LEMMA CauchySchwarz ==
    ASSUME NEW S, IsFiniteSet(S), NEW u, NEW v, NEW uu, NEW uv, NEW vv,
           Multiplies(uu, u, u, S), Multiplies(uv, u, v, S), Multiplies(vv, v, v, S)
    PROVE  LET A == SumOver(uu, S)
               B == SumOver(uv, S)
               C == SumOver(vv, S)
           IN  /\ A \in Nat /\ B \in Int /\ C \in Nat /\ B * B <= A * C
               /\ B * B = A * C => \A x \in S : A * v[x] = B * u[x]
<1> DEFINE A == SumOver(uu, S)
           B == SumOver(uv, S)
           C == SumOver(vv, S)
<1>1. \A x \in S : u[x] \in Int /\ v[x] \in Int /\ uu[x] = u[x] * u[x] /\ uv[x] = u[x] * v[x]
                   /\ vv[x] = v[x] * v[x]
  BY DEF Multiplies
<1>2. \A x \in S : uu[x] \in Nat /\ uv[x] \in Int /\ vv[x] \in Nat
  <2> SUFFICES ASSUME NEW x \in S
               PROVE  uu[x] \in Nat /\ uv[x] \in Int /\ vv[x] \in Nat
    OBVIOUS
  <2>1. ASSUME NEW n \in Int PROVE n * n \in Nat
    OBVIOUS
  <2> QED BY <1>1, <2>1
<1>3. A \in Nat /\ B \in Int /\ C \in Nat
  BY <1>2, SumType
<1> DEFINE a == A * A
           b == -2 * (A * B)
           c == B * B
           p == [x \in S |-> a * vv[x]]
           q == [x \in S |-> b * uv[x]]
           r == [x \in S |-> c * uu[x]]
           pq == [x \in S |-> p[x] + q[x]]
           d == [x \in S |-> pq[x] + r[x]]
<1>4. a \in Int /\ b \in Int /\ c \in Int
  BY <1>3
<1> HIDE DEF A, B, C
<1>5. ASSUME NEW x \in S
      PROVE  /\ p[x] = a * vv[x] /\ q[x] = b * uv[x] /\ r[x] = c * uu[x]
             /\ p[x] \in Int /\ q[x] \in Int /\ r[x] \in Int
             /\ pq[x] = p[x] + q[x] /\ pq[x] \in Int /\ d[x] = pq[x] + r[x]
  <2>1. p[x] = a * vv[x] /\ q[x] = b * uv[x] /\ r[x] = c * uu[x]
        /\ pq[x] = p[x] + q[x] /\ d[x] = pq[x] + r[x]
    OBVIOUS
  <2>2. vv[x] \in Int /\ uv[x] \in Int /\ uu[x] \in Int
    BY <1>2
  <2> HIDE DEF a, b, c, p, q, r, pq, d
  <2> QED BY <1>4, <2>1, <2>2
<1>6. ASSUME NEW x \in S
      PROVE  /\ d[x] = (A * v[x] - B * u[x]) * (A * v[x] - B * u[x])
             /\ d[x] \in Nat
             /\ d[x] = 0 => A * v[x] = B * u[x]
  <2>1. d[x] = (A * A) * (v[x] * v[x]) + (-2 * (A * B)) * (u[x] * v[x]) + (B * B) * (u[x] * u[x])
    BY <1>1, <1>5
  <2>2. u[x] \in Int /\ v[x] \in Int /\ A \in Int /\ B \in Int
    BY <1>1, <1>3
  <2> DEFINE s == u[x]
             t == v[x]
             e == A * t - B * s
  <2>3. d[x] = e * e /\ e \in Int
    <3> HIDE DEF d
    <3>1. s \in Int /\ t \in Int
      BY <2>2
    <3>2. d[x] = (A * A) * (t * t) + (-2 * (A * B)) * (s * t) + (B * B) * (s * s)
      BY <2>1
    <3> HIDE DEF s, t
    <3> QED BY <2>2, <3>1, <3>2
  <2>4. e = 0 => A * t = B * s
    <3>1. A * t \in Int /\ B * s \in Int
      BY <2>2
    <3> QED BY <3>1
  <2> HIDE DEF e, d
  <2>5. e * e \in Nat /\ (e * e = 0 => e = 0)
    BY <2>3
  <2> QED BY <2>3, <2>4, <2>5 DEF e
<1> HIDE DEF a, b, c, p, q, r, pq, d
<1>7. SumOver(p, S) = a * C /\ SumOver(q, S) = b * B /\ SumOver(r, S) = c * A
  <2>1. \A x \in S : vv[x] \in Int /\ p[x] = a * vv[x]
    BY <1>2, <1>5
  <2>2. \A x \in S : uv[x] \in Int /\ q[x] = b * uv[x]
    BY <1>2, <1>5
  <2>3. \A x \in S : uu[x] \in Int /\ r[x] = c * uu[x]
    BY <1>2, <1>5
  <2>4. SumOver(p, S) = a * C
    BY <1>4, <2>1, SumTimes DEF C
  <2>5. SumOver(q, S) = b * B
    BY <1>4, <2>2, SumTimes DEF B
  <2>6. SumOver(r, S) = c * A
    BY <1>4, <2>3, SumTimes DEF A
  <2> QED BY <2>4, <2>5, <2>6
<1>8. SumOver(pq, S) = SumOver(p, S) + SumOver(q, S)
  <2>1. \A x \in S : p[x] \in Int /\ q[x] \in Int /\ pq[x] = p[x] + q[x]
    BY <1>5
  <2> QED BY <2>1, SumPlus
<1>9. SumOver(d, S) = SumOver(pq, S) + SumOver(r, S)
  <2>1. \A x \in S : pq[x] \in Int /\ r[x] \in Int /\ d[x] = pq[x] + r[x]
    BY <1>5
  <2> QED BY <2>1, SumPlus
<1>10. SumOver(d, S) = A * (A * C - B * B)
  <2>1. SumOver(d, S) = ((A * A) * C + (-2 * (A * B)) * B) + (B * B) * A
    BY <1>7, <1>8, <1>9 DEF a, b, c
  <2> HIDE DEF d
  <2> QED BY <1>3, <2>1
<1>11. SumOver(d, S) \in Nat /\ (SumOver(d, S) = 0 <=> \A x \in S : d[x] = 0)
  BY <1>6, SumType, SumZero
<1>12. A = 0 => B = 0
  <2> SUFFICES ASSUME A = 0
               PROVE  B = 0
    OBVIOUS
  <2>1. \A x \in S : uu[x] = 0
    BY <1>2, SumZero DEF A
  <2>2. ASSUME NEW x \in S PROVE uv[x] = 0
    <3>1. u[x] \in Int /\ v[x] \in Int /\ u[x] * u[x] = 0 /\ uv[x] = u[x] * v[x]
      BY <1>1, <2>1
    <3>2. u[x] = 0
      BY <3>1
    <3> QED BY <3>1, <3>2
  <2>3. \A x \in S : uv[x] = 0
    BY <2>2
  <2>4. 0 \in Int
    OBVIOUS
  <2>5. SumOver(uv, S) = 0 * Cardinality(S)
    BY <2>3, <2>4, SumConstant
  <2>6. Cardinality(S) \in Nat
    BY FS_CardinalityType
  <2> QED BY <2>5, <2>6 DEF B
<1>13. B * B <= A * C
  <2>1. CASE A = 0
    BY <1>3, <1>12, <2>1
  <2>2. CASE A # 0
    <3> DEFINE z == A * C - B * B
    <3>1. z \in Int /\ A * z >= 0 /\ A > 0
      BY <1>3, <1>10, <1>11, <2>2
    <3>2. z >= 0
      <4> HIDE DEF z
      <4> QED BY <1>3, <3>1
    <3>3. A * C \in Int /\ B * B \in Int
      BY <1>3
    <3> QED BY <3>2, <3>3
  <2> QED BY <2>1, <2>2
<1>14. ASSUME B * B = A * C
       PROVE  \A x \in S : A * v[x] = B * u[x]
  <2>1. A * C - B * B = 0
    BY <1>3, <1>14
  <2>2. SumOver(d, S) = 0
    BY <1>3, <1>10, <2>1
  <2> QED BY <1>6, <1>11, <2>2
<1> QED BY <1>3, <1>13, <1>14 DEF A, B, C

\* The sum of squares is no more than the square of the sum, and no less than its mean share.
LEMMA SumOfSquaresBounds ==
    ASSUME NEW S, IsFiniteSet(S), NEW f, \A x \in S : f[x] \in Nat,
           NEW ff, Multiplies(ff, f, f, S)
    PROVE  LET T == SumOver(f, S)
               Q == SumOver(ff, S)
           IN  T \in Nat /\ Q \in Nat /\ Q <= T * T /\ T * T <= Q * Cardinality(S)
<1> DEFINE T == SumOver(f, S)
           Q == SumOver(ff, S)
           n == Cardinality(S)
           one == [x \in S |-> 1]
           g == [x \in S |-> T * f[x]]
<1>1. T \in Nat /\ n \in Nat
  BY SumType, FS_CardinalityType
<1>2. Multiplies(one, one, one, S) /\ Multiplies(f, one, f, S)
  BY DEF Multiplies
<1>3. SumOver(one, S) = n
  <2>1. 1 \in Int /\ \A x \in S : one[x] = 1
    OBVIOUS
  <2> HIDE DEF one
  <2>2. SumOver(one, S) = 1 * n
    BY <2>1, SumConstant
  <2> QED BY <1>1, <2>2
<1>4. Q \in Nat /\ T * T <= n * Q
  <2> HIDE DEF one
  <2> QED BY <1>2, <1>3, CauchySchwarz
<1> HIDE DEF T, Q, n
<1>5. ASSUME NEW x \in S
      PROVE  f[x] <= T
  <2>1. \A y \in S : f[y] \in Int
    OBVIOUS
  <2>2. T = f[x] + SumOver(f, S \ {x})
    BY <2>1, SumRemove DEF T
  <2>3. IsFiniteSet(S \ {x}) /\ \A y \in S \ {x} : f[y] \in Nat
    BY FS_Subset
  <2>4. SumOver(f, S \ {x}) \in Nat
    BY <2>3, SumType
  <2> QED BY <2>2, <2>4
<1>6. ASSUME NEW x \in S
      PROVE  ff[x] \in Int /\ g[x] \in Int /\ ff[x] <= g[x] /\ g[x] = T * f[x]
  <2>1. ff[x] = f[x] * f[x] /\ g[x] = T * f[x] /\ f[x] \in Nat
    BY DEF Multiplies
  <2>2. f[x] * f[x] <= T * f[x]
    BY <1>1, <1>5, <2>1
  <2> QED BY <1>1, <2>1, <2>2
<1> HIDE DEF g
<1>7. SumOver(ff, S) <= SumOver(g, S)
  BY <1>6, SumMonotone
<1>8. SumOver(g, S) = T * T
  <2>1. T \in Int /\ \A x \in S : f[x] \in Int /\ g[x] = T * f[x]
    BY <1>1, <1>6
  <2> QED BY <2>1, SumTimes DEF T
<1> QED BY <1>1, <1>4, <1>7, <1>8 DEF T, Q, n

-----------------------------------------------------------------------------
(* Functions defined from earlier values of themselves. *)

\* u starts with first, and takes each later value from an earlier one.
Recurs(u, N, first, step, prev) ==
    u = [n \in 1..N |-> IF n = 1 THEN first ELSE step[n][u[prev[n]]]]

Backwards(prev, N) == \A n \in 1..N : n # 1 => prev[n] \in 1 .. n - 1
StepsWithin(step, N, V) == \A n \in 1..N : n # 1 => \A v \in V : step[n][v] \in V

\* There is such a function, and its values stay where the steps stay.
LEMMA Recursion ==
    ASSUME NEW N \in Nat, NEW V, NEW first \in V, NEW step, NEW prev,
           Backwards(prev, N), StepsWithin(step, N, V)
    PROVE  /\ \E u : Recurs(u, N, first, step, prev)
           /\ \A u : Recurs(u, N, first, step, prev) => \A n \in 1..N : u[n] \in V
<1> DEFINE Next1(u, n) == IF n = 1 THEN first ELSE step[n][u[prev[n]]]
           Upto(k) == \E u : /\ u = [n \in 1..N |-> u[n]]
                             /\ \A n \in 1..N : n <= k => u[n] = Next1(u, n)
           K == {k \in Nat : Upto(k)}
<1>1. 0 \in K
  <2> DEFINE u == [n \in 1..N |-> first]
  <2>1. u = [n \in 1..N |-> u[n]] /\ \A n \in 1..N : n <= 0 => u[n] = Next1(u, n)
    OBVIOUS
  <2> QED BY <2>1
<1>2. ASSUME NEW k \in Nat, k \in K
      PROVE  k + 1 \in K
  <2>1. PICK u : \A n \in 1..N : n <= k => u[n] = Next1(u, n)
    BY <1>2
  <2> DEFINE v == [n \in 1..N |-> IF n <= k THEN u[n] ELSE Next1(u, n)]
  <2>2. ASSUME NEW n \in 1..N, n <= k + 1
        PROVE  v[n] = Next1(v, n)
    <3>1. v[n] = Next1(u, n)
      BY <2>1
    <3>2. CASE n = 1
      BY <3>1, <3>2
    <3>3. CASE n # 1
      <4>1. prev[n] \in 1..N /\ prev[n] <= k
        BY <2>2, <3>3 DEF Backwards
      <4>2. v[prev[n]] = u[prev[n]]
        BY <4>1
      <4> QED BY <3>1, <3>3, <4>2
    <3> QED BY <3>2, <3>3
  <2>3. v = [n \in 1..N |-> v[n]]
    OBVIOUS
  <2>4. Upto(k + 1)
    <3> HIDE DEF v, Next1
    <3> QED BY <2>2, <2>3
  <2> HIDE DEF Upto
  <2> QED BY <2>4
<1> HIDE DEF K
<1>3. N \in K
  BY <1>1, <1>2, SetInduction
<1>4. PICK u : u = [n \in 1..N |-> u[n]] /\ \A n \in 1..N : n <= N => u[n] = Next1(u, n)
  <2> HIDE DEF Next1
  <2> QED BY <1>3 DEF K
<1>5. \A n \in 1..N : u[n] = Next1(u, n)
  <2> HIDE DEF Next1
  <2> QED BY <1>4
<1>6. u = [n \in 1..N |-> Next1(u, n)]
  <2> HIDE DEF Next1
  <2> QED BY <1>4, <1>5
<1>7. ASSUME NEW w, Recurs(w, N, first, step, prev)
      PROVE  \A n \in 1..N : w[n] \in V
  <2> DEFINE M == {m \in Nat : \A n \in 1..N : n <= m => w[n] \in V}
  <2>1. \A n \in 1..N : w[n] = IF n = 1 THEN first ELSE step[n][w[prev[n]]]
    BY <1>7 DEF Recurs
  <2>2. 0 \in M
    OBVIOUS
  <2>3. ASSUME NEW m \in Nat, m \in M
        PROVE  m + 1 \in M
    <3> SUFFICES ASSUME NEW n \in 1..N, n <= m + 1
                 PROVE  w[n] \in V
      OBVIOUS
    <3>1. CASE n = 1
      BY <2>1, <3>1
    <3>2. CASE n # 1
      <4>1. prev[n] \in 1..N /\ prev[n] <= m
        BY <3>2 DEF Backwards
      <4>2. w[prev[n]] \in V
        BY <2>3, <4>1
      <4> QED BY <2>1, <3>2, <4>2 DEF StepsWithin
    <3> QED BY <3>1, <3>2
  <2> HIDE DEF M
  <2>4. N \in M
    BY <2>2, <2>3, SetInduction
  <2> QED BY <2>4 DEF M
<1> QED BY <1>6, <1>7 DEF Recurs

-----------------------------------------------------------------------------
(* Moments. *)

\* The product of two differences, multiplied out.
LEMMA Expand ==
    ASSUME NEW n \in Int, NEW p \in Int, NEW q \in Int, NEW a \in Int, NEW b \in Int
    PROVE  (n * p - a) * (n * q - b) = (n * n) * (p * q) + (-(n * b)) * p + ((-(n * a)) * q + a * b)
OBVIOUS

\* u is x about its mean, times the number of elements.
Centred(u, x, S) == \A i \in S : x[i] \in Int /\ u[i] = Cardinality(S) * x[i] - SumOver(x, S)

\* The sum of the products of two centred functions.
LEMMA CentredProduct ==
    ASSUME NEW S, IsFiniteSet(S), NEW x, NEW y, NEW u, NEW v, NEW xy, NEW uv,
           Centred(u, x, S), Centred(v, y, S), Multiplies(xy, x, y, S), Multiplies(uv, u, v, S)
    PROVE  SumOver(uv, S)
             = Cardinality(S) * (Cardinality(S) * SumOver(xy, S) - SumOver(x, S) * SumOver(y, S))
<1> DEFINE n == Cardinality(S)
           X == SumOver(x, S)
           Y == SumOver(y, S)
           P == SumOver(xy, S)
           a == [i \in S |-> (n * n) * xy[i]]
           b == [i \in S |-> (-(n * Y)) * x[i]]
           c == [i \in S |-> (-(n * X)) * y[i]]
           d == [i \in S |-> X * Y]
           ab == [i \in S |-> a[i] + b[i]]
           cd == [i \in S |-> c[i] + d[i]]
<1>1. \A i \in S : /\ x[i] \in Int /\ y[i] \in Int /\ xy[i] \in Int /\ xy[i] = x[i] * y[i]
                   /\ u[i] = n * x[i] - X /\ v[i] = n * y[i] - Y /\ uv[i] = u[i] * v[i]
  BY DEF Centred, Multiplies
<1>2. n \in Int /\ X \in Int /\ Y \in Int /\ P \in Int
  <2>1. \A i \in S : x[i] \in Int
    BY <1>1
  <2>2. \A i \in S : y[i] \in Int
    BY <1>1
  <2>3. \A i \in S : xy[i] \in Int
    BY <1>1
  <2> QED BY <2>1, <2>2, <2>3, SumType, FS_CardinalityType
<1> HIDE DEF n, X, Y, P
<1>3. n * n \in Int /\ -(n * Y) \in Int /\ -(n * X) \in Int /\ X * Y \in Int
  BY <1>2
<1>4. ASSUME NEW i \in S
      PROVE  /\ a[i] = (n * n) * xy[i] /\ b[i] = (-(n * Y)) * x[i] /\ c[i] = (-(n * X)) * y[i]
             /\ d[i] = X * Y /\ ab[i] = a[i] + b[i] /\ cd[i] = c[i] + d[i]
             /\ a[i] \in Int /\ b[i] \in Int /\ c[i] \in Int /\ d[i] \in Int
             /\ ab[i] \in Int /\ cd[i] \in Int /\ uv[i] = ab[i] + cd[i]
  <2>1. /\ a[i] = (n * n) * xy[i] /\ b[i] = (-(n * Y)) * x[i] /\ c[i] = (-(n * X)) * y[i]
        /\ d[i] = X * Y /\ ab[i] = a[i] + b[i] /\ cd[i] = c[i] + d[i]
    OBVIOUS
  <2> HIDE DEF a, b, c, d, ab, cd
  <2>2. a[i] \in Int /\ b[i] \in Int /\ c[i] \in Int /\ d[i] \in Int
    BY <1>1, <1>3, <2>1
  <2>3. uv[i] = (n * x[i] - X) * (n * y[i] - Y)
    BY <1>1
  <2>4. (n * x[i] - X) * (n * y[i] - Y)
          = (n * n) * (x[i] * y[i]) + (-(n * Y)) * x[i] + ((-(n * X)) * y[i] + X * Y)
    BY <1>1, <1>2, Expand
  <2>5. uv[i] = a[i] + b[i] + (c[i] + d[i])
    BY <1>1, <2>1, <2>3, <2>4
  <2> QED BY <2>1, <2>2, <2>5
<1> HIDE DEF a, b, c, d, ab, cd
<1>5. SumOver(a, S) = (n * n) * P
  <2>1. \A i \in S : xy[i] \in Int /\ a[i] = (n * n) * xy[i]
    BY <1>1, <1>4
  <2> QED BY <1>3, <2>1, SumTimes DEF P
<1>6. SumOver(b, S) = (-(n * Y)) * X
  <2>1. \A i \in S : x[i] \in Int /\ b[i] = (-(n * Y)) * x[i]
    BY <1>1, <1>4
  <2> QED BY <1>3, <2>1, SumTimes DEF X
<1>7. SumOver(c, S) = (-(n * X)) * Y
  <2>1. \A i \in S : y[i] \in Int /\ c[i] = (-(n * X)) * y[i]
    BY <1>1, <1>4
  <2> QED BY <1>3, <2>1, SumTimes DEF Y
<1>8. SumOver(d, S) = (X * Y) * n
  <2>1. \A i \in S : d[i] = X * Y
    BY <1>4
  <2> QED BY <1>3, <2>1, SumConstant DEF n
<1>9. SumOver(ab, S) = SumOver(a, S) + SumOver(b, S)
  <2>1. \A i \in S : a[i] \in Int /\ b[i] \in Int /\ ab[i] = a[i] + b[i]
    BY <1>4
  <2> QED BY <2>1, SumPlus
<1>10. SumOver(cd, S) = SumOver(c, S) + SumOver(d, S)
  <2>1. \A i \in S : c[i] \in Int /\ d[i] \in Int /\ cd[i] = c[i] + d[i]
    BY <1>4
  <2> QED BY <2>1, SumPlus
<1>11. SumOver(uv, S) = SumOver(ab, S) + SumOver(cd, S)
  <2>1. \A i \in S : ab[i] \in Int /\ cd[i] \in Int /\ uv[i] = ab[i] + cd[i]
    BY <1>4
  <2> QED BY <2>1, SumPlus
<1>12. SumOver(uv, S) = ((n * n) * P + (-(n * Y)) * X) + ((-(n * X)) * Y + (X * Y) * n)
  BY <1>5, <1>6, <1>7, <1>8, <1>9, <1>10, <1>11
<1>13. ((n * n) * P + (-(n * Y)) * X) + ((-(n * X)) * Y + (X * Y) * n) = n * (n * P - X * Y)
  BY <1>2
<1>14. SumOver(uv, S) = n * (n * P - X * Y)
  BY <1>12, <1>13
<1> QED BY <1>14 DEF n, X, Y, P

\* A common square factor may be cancelled on both sides.
LEMMA CancelSquare ==
    ASSUME NEW n \in Nat \ {0}, NEW a \in Int, NEW b \in Int, NEW c \in Int
    PROVE  /\ (n * b) * (n * b) <= (n * a) * (n * c) => b * b <= a * c
           /\ b * b = a * c => (n * b) * (n * b) = (n * a) * (n * c)
<1>1. (n * b) * (n * b) = (n * n) * (b * b) /\ (n * a) * (n * c) = (n * n) * (a * c)
  OBVIOUS
<1> DEFINE m == n * n
           p == b * b
           q == a * c
<1>2. m \in Int /\ m > 0 /\ p \in Int /\ q \in Int
  OBVIOUS
<1> HIDE DEF m, p, q
<1>3. m * p <= m * q => p <= q
  BY <1>2
<1> QED BY <1>1, <1>3 DEF m, p, q

Moment(n, xy, x, y, S) == n * SumOver(xy, S) - SumOver(x, S) * SumOver(y, S)
Correlates(n, vx, cov, vy, xx, xy, yy, x, y, S) ==
    /\ n = Cardinality(S) /\ vx = Moment(n, xx, x, x, S)
    /\ cov = Moment(n, xy, x, y, S) /\ vy = Moment(n, yy, y, y, S)
Follows(vx, cov, n, x, y, S) ==
    \A i \in S : vx * (n * y[i] - SumOver(y, S)) = cov * (n * x[i] - SumOver(x, S))

\* Covariance and variances: no correlation is beyond one, and at exactly one
\* or minus one either function tells the other.
LEMMA CorrelationBounded ==
    ASSUME NEW S, IsFiniteSet(S), S # {}, NEW x, NEW y, NEW xx, NEW xy, NEW yy,
           Multiplies(xx, x, x, S), Multiplies(xy, x, y, S), Multiplies(yy, y, y, S),
           NEW n, NEW vx, NEW cov, NEW vy, Correlates(n, vx, cov, vy, xx, xy, yy, x, y, S)
    PROVE  /\ vx \in Nat /\ cov \in Int /\ vy \in Nat /\ cov * cov <= vx * vy
           /\ cov * cov = vx * vy => Follows(vx, cov, n, x, y, S)
<1> DEFINE X == SumOver(x, S)
           Y == SumOver(y, S)
           u == [i \in S |-> n * x[i] - X]
           v == [i \in S |-> n * y[i] - Y]
           uu == [i \in S |-> u[i] * u[i]]
           uv == [i \in S |-> u[i] * v[i]]
           vv == [i \in S |-> v[i] * v[i]]
<1>1. \A i \in S : /\ x[i] \in Int /\ y[i] \in Int
                   /\ xx[i] \in Int /\ xy[i] \in Int /\ yy[i] \in Int
  BY DEF Multiplies
<1>2. n \in Nat \ {0} /\ X \in Int /\ Y \in Int
      /\ SumOver(xx, S) \in Int /\ SumOver(xy, S) \in Int /\ SumOver(yy, S) \in Int
  <2>1. \A i \in S : x[i] \in Int
    BY <1>1
  <2>2. \A i \in S : y[i] \in Int
    BY <1>1
  <2>3. \A i \in S : xx[i] \in Int
    BY <1>1
  <2>4. \A i \in S : xy[i] \in Int
    BY <1>1
  <2>5. \A i \in S : yy[i] \in Int
    BY <1>1
  <2>6. n = Cardinality(S)
    BY DEF Correlates
  <2> QED BY <2>1, <2>2, <2>3, <2>4, <2>5, <2>6, SumType, FS_CardinalityType, FS_EmptySet
<1>a. /\ n = Cardinality(S) /\ vx = n * SumOver(xx, S) - X * X /\ cov = n * SumOver(xy, S) - X * Y
      /\ vy = n * SumOver(yy, S) - Y * Y
  BY DEF Correlates, Moment
<1>3. vx \in Int /\ cov \in Int /\ vy \in Int
  <2> HIDE DEF X, Y
  <2> QED BY <1>2, <1>a
<1>4. \A i \in S : u[i] = n * x[i] - X /\ v[i] = n * y[i] - Y
  OBVIOUS
<1>5. Centred(u, x, S) /\ Centred(v, y, S)
  BY <1>1, <1>a DEF Centred
<1>6. \A i \in S : uu[i] = u[i] * u[i] /\ uv[i] = u[i] * v[i] /\ vv[i] = v[i] * v[i]
  OBVIOUS
<1>7. \A i \in S : u[i] \in Int /\ v[i] \in Int
  <2> HIDE DEF u, v, X, Y
  <2> QED BY <1>1, <1>2, <1>4
<1> HIDE DEF u, v, uu, uv, vv
<1>8. Multiplies(uu, u, u, S) /\ Multiplies(uv, u, v, S) /\ Multiplies(vv, v, v, S)
  <2>1. \A i \in S : uu[i] \in Int /\ uv[i] \in Int /\ vv[i] \in Int
    BY <1>6, <1>7
  <2> QED BY <1>6, <1>7, <2>1 DEF Multiplies
<1>9. SumOver(uu, S) = n * vx
  <2>1. SumOver(uu, S) = Cardinality(S) * (Cardinality(S) * SumOver(xx, S) - X * X)
    BY <1>5, <1>8, CentredProduct
  <2> HIDE DEF X, Y
  <2> QED BY <1>a, <2>1
<1>10. SumOver(uv, S) = n * cov
  <2>1. SumOver(uv, S) = Cardinality(S) * (Cardinality(S) * SumOver(xy, S) - X * Y)
    BY <1>5, <1>8, CentredProduct
  <2> HIDE DEF X, Y
  <2> QED BY <1>a, <2>1
<1>11. SumOver(vv, S) = n * vy
  <2>1. SumOver(vv, S) = Cardinality(S) * (Cardinality(S) * SumOver(yy, S) - Y * Y)
    BY <1>5, <1>8, CentredProduct
  <2> HIDE DEF X, Y
  <2> QED BY <1>a, <2>1
<1> HIDE DEF X, Y
<1>12. /\ n * vx \in Nat /\ n * vy \in Nat /\ (n * cov) * (n * cov) <= (n * vx) * (n * vy)
       /\ (n * cov) * (n * cov) = (n * vx) * (n * vy) =>
             \A i \in S : (n * vx) * v[i] = (n * cov) * u[i]
  <2> DEFINE A == n * vx
             B == n * cov
             C == n * vy
  <2>1. SumOver(uu, S) = A /\ SumOver(uv, S) = B /\ SumOver(vv, S) = C
    BY <1>9, <1>10, <1>11
  <2> HIDE DEF A, B, C
  <2>2. A \in Nat /\ C \in Nat /\ B * B <= A * C
        /\ (B * B = A * C => \A i \in S : A * v[i] = B * u[i])
    BY <1>8, <2>1, CauchySchwarz
  <2> QED BY <2>2 DEF A, B, C
<1>13. vx \in Nat /\ vy \in Nat
  BY <1>2, <1>3, <1>12
<1>14. cov * cov <= vx * vy
       /\ (cov * cov = vx * vy => (n * cov) * (n * cov) = (n * vx) * (n * vy))
  <2>1. (n * cov) * (n * cov) <= (n * vx) * (n * vy)
    BY <1>12
  <2>2. n \in Nat \ {0} /\ vx \in Int /\ cov \in Int /\ vy \in Int
    BY <1>2, <1>3
  <2>3. (n * cov) * (n * cov) <= (n * vx) * (n * vy) => cov * cov <= vx * vy
    BY <2>2, CancelSquare, Zenon
  <2>4. cov * cov = vx * vy => (n * cov) * (n * cov) = (n * vx) * (n * vy)
    BY <2>2, CancelSquare, Zenon
  <2> QED BY <2>1, <2>3, <2>4
<1>15. ASSUME cov * cov = vx * vy, NEW i \in S
       PROVE  vx * (n * y[i] - Y) = cov * (n * x[i] - X)
  <2>1. (n * vx) * v[i] = (n * cov) * u[i]
    BY <1>12, <1>14, <1>15
  <2>2. u[i] \in Int /\ v[i] \in Int
    BY <1>7
  <2>3. vx * v[i] = cov * u[i]
    <3> DEFINE p == v[i]
               q == u[i]
    <3>1. /\ n \in Nat \ {0} /\ vx \in Int /\ cov \in Int /\ p \in Int /\ q \in Int
          /\ (n * vx) * p = (n * cov) * q
      BY <1>2, <1>3, <2>1, <2>2
    <3> HIDE DEF p, q
    <3>2. (n * vx) * p = n * (vx * p) /\ (n * cov) * q = n * (cov * q)
      BY <3>1
    <3> DEFINE s == vx * p
               t == cov * q
    <3>3. n \in Nat \ {0} /\ s \in Int /\ t \in Int /\ n * s = n * t
      BY <3>1, <3>2
    <3> HIDE DEF s, t
    <3>4. s = t
      BY <3>3
    <3> QED BY <3>4 DEF p, q, s, t
  <2> QED BY <1>4, <2>3
<1>16. \A i \in S : cov * cov = vx * vy => vx * (n * y[i] - Y) = cov * (n * x[i] - X)
  BY <1>15
<1> QED BY <1>3, <1>13, <1>14, <1>16 DEF X, Y, Follows

=============================================================================
