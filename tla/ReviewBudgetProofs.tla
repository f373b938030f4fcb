------------------------- MODULE ReviewBudgetProofs -------------------------
(***************************************************************************)
(* The budget guard for every number of threads and captures, every price  *)
(* and every set of caps.  The first part is about sums; induction is by   *)
(* least counterexample, over sets of naturals.                            *)
(***************************************************************************)
EXTENDS ReviewBudget, TLAPS, WellFoundedInduction

\* Induction for a set of naturals.
LEMMA SetInduction ==
    ASSUME NEW S, 0 \in S, \A n \in Nat : n \in S => n + 1 \in S
    PROVE  \A n \in Nat : n \in S
<1> DEFINE bad == {n \in Nat : n \notin S}
<1>1. ASSUME bad # {}
      PROVE  FALSE
  <2>1. bad \subseteq Nat
    OBVIOUS
  <2>2. PICK k \in bad : \A j \in bad : ~ (<<j, k>> \in OpToRel(<, Nat))
    BY <1>1, <2>1, NatLessThanWellFounded, WFMin
  <2>3. \A j \in bad : ~ (j < k)
    BY <2>1, <2>2 DEF OpToRel
  <2>4. k \in Nat /\ k # 0
    BY <2>2
  <2>5. k - 1 \in Nat /\ k - 1 < k
    BY <2>4
  <2>6. k - 1 \in S
    BY <2>3, <2>5
  <2>7. (k - 1) + 1 \in S
    BY <2>5, <2>6
  <2>8. (k - 1) + 1 = k
    BY <2>4
  <2> QED BY <2>2, <2>7, <2>8
<1> QED BY <1>1

\* g is the function of partial sums of f up to n.
IsSums(g, f, n) == g = [i \in 0..n |-> IF i = 0 THEN 0 ELSE g[i - 1] + f[i]]

\* Partial sums exist: the recursive definition in Total defines a function.
LEMMA SumsExist ==
    ASSUME NEW f
    PROVE  \A n \in Nat : \E g : IsSums(g, f, n)
<1> DEFINE S == {n \in Nat : \E g : IsSums(g, f, n)}
<1>1. 0 \in S
  <2>1. IsSums([i \in 0..0 |-> 0], f, 0)
    BY DEF IsSums
  <2> QED BY <2>1
<1>2. ASSUME NEW n \in Nat, n \in S
      PROVE  n + 1 \in S
  <2>1. PICK g : IsSums(g, f, n)
    BY <1>2
  <2> DEFINE h == [i \in 0..(n + 1) |-> IF i = n + 1 THEN g[n] + f[n + 1] ELSE g[i]]
  <2>2. \A i \in 0..n : g[i] = IF i = 0 THEN 0 ELSE g[i - 1] + f[i]
    BY <2>1 DEF IsSums
  <2>3. ASSUME NEW i \in 0..(n + 1)
        PROVE  h[i] = IF i = 0 THEN 0 ELSE h[i - 1] + f[i]
    <3>1. CASE i = n + 1
      <4>1. i - 1 = n /\ n \in 0..(n + 1) /\ n # n + 1 /\ i # 0
        BY <3>1
      <4> QED BY <3>1, <4>1
    <3>2. CASE i \in 0..n
      <4>1. i # n + 1 /\ (i # 0 => i - 1 \in 0..(n + 1) /\ i - 1 # n + 1)
        BY <3>2
      <4> QED BY <3>2, <4>1, <2>2
    <3> QED BY <3>1, <3>2
  <2>4. IsSums(h, f, n + 1)
    BY <2>3 DEF IsSums
  <2> QED BY <2>4
<1> HIDE DEF S
<1>3. \A n \in Nat : n \in S
  BY <1>1, <1>2, SetInduction
<1> QED BY <1>3 DEF S

\* Total is the last of the partial sums.
LEMMA TotalIsLast ==
    ASSUME NEW f, NEW n \in Nat
    PROVE  \E g : /\ Total(f, n) = g[n]
                  /\ g[0] = 0
                  /\ \A i \in 1..n : g[i] = g[i - 1] + f[i]
<1> DEFINE g == CHOOSE h : IsSums(h, f, n)
<1>1. IsSums(g, f, n)
  BY SumsExist
<1>2. Total(f, n) = g[n]
  BY DEF Total, IsSums
<1> HIDE DEF g
<1>3. \A i \in 0..n : g[i] = IF i = 0 THEN 0 ELSE g[i - 1] + f[i]
  BY <1>1 DEF IsSums
<1>4. g[0] = 0 /\ \A i \in 1..n : g[i] = g[i - 1] + f[i]
  BY <1>3
<1> QED BY <1>2, <1>4

\* A total of naturals is a natural.
LEMMA TotalIsNat ==
    ASSUME NEW n \in Nat, NEW f, \A i \in 1..n : f[i] \in Nat
    PROVE  Total(f, n) \in Nat
<1>1. PICK g : /\ Total(f, n) = g[n]
               /\ g[0] = 0
               /\ \A i \in 1..n : g[i] = g[i - 1] + f[i]
  BY TotalIsLast
<1> DEFINE S == {i \in Nat : i <= n => g[i] \in Nat}
<1>2. 0 \in S
  BY <1>1
<1>3. ASSUME NEW i \in Nat, i \in S
      PROVE  i + 1 \in S
  <2>1. CASE i + 1 <= n
    <3>1. i + 1 \in 1..n /\ (i + 1) - 1 = i /\ i <= n
      BY <2>1
    <3>2. g[i + 1] = g[i] + f[i + 1] /\ g[i] \in Nat /\ f[i + 1] \in Nat
      BY <1>1, <1>3, <3>1
    <3> QED BY <3>2
  <2> QED BY <2>1
<1> HIDE DEF S
<1>4. n \in S
  BY <1>2, <1>3, SetInduction
<1> QED BY <1>1, <1>4 DEF S

\* Two totals whose summands together stay below M stay below n * M.
LEMMA TotalsBounded ==
    ASSUME NEW n \in Nat, NEW M \in Nat, NEW e, NEW f,
           \A i \in 1..n : e[i] \in Nat /\ f[i] \in Nat /\ e[i] + f[i] <= M
    PROVE  Total(e, n) + Total(f, n) <= n * M
<1>1. PICK d : /\ Total(e, n) = d[n]
               /\ d[0] = 0
               /\ \A i \in 1..n : d[i] = d[i - 1] + e[i]
  BY TotalIsLast
<1>2. PICK g : /\ Total(f, n) = g[n]
               /\ g[0] = 0
               /\ \A i \in 1..n : g[i] = g[i - 1] + f[i]
  BY TotalIsLast
<1> DEFINE S == {i \in Nat : i <= n => /\ d[i] \in Nat /\ g[i] \in Nat
                                      /\ d[i] + g[i] <= i * M}
<1>3. 0 \in S
  BY <1>1, <1>2
<1>4. ASSUME NEW i \in Nat, i \in S
      PROVE  i + 1 \in S
  <2>1. CASE i + 1 <= n
    <3>1. i + 1 \in 1..n /\ (i + 1) - 1 = i /\ i <= n
      BY <2>1
    <3>2. /\ d[i + 1] = d[i] + e[i + 1] /\ g[i + 1] = g[i] + f[i + 1]
          /\ d[i] \in Nat /\ g[i] \in Nat /\ d[i] + g[i] <= i * M
          /\ e[i + 1] \in Nat /\ f[i + 1] \in Nat /\ e[i + 1] + f[i + 1] <= M
      BY <1>1, <1>2, <1>4, <3>1
    <3>3. (i + 1) * M = i * M + M /\ i * M \in Nat
      OBVIOUS
    <3> QED BY <3>2, <3>3
  <2> QED BY <2>1
<1> HIDE DEF S
<1>5. n \in S
  BY <1>3, <1>4, SetInduction
<1> QED BY <1>1, <1>2, <1>5 DEF S

\* Changing one summand moves the total by the difference.
LEMMA TotalMoves ==
    ASSUME NEW n \in Nat, NEW f, NEW h, NEW w \in 1..n,
           \A i \in 1..n : f[i] \in Nat /\ h[i] \in Nat,
           \A i \in 1..n : i # w => h[i] = f[i]
    PROVE  Total(h, n) = Total(f, n) - f[w] + h[w]
<1>1. PICK d : /\ Total(f, n) = d[n]
               /\ d[0] = 0
               /\ \A i \in 1..n : d[i] = d[i - 1] + f[i]
  BY TotalIsLast
<1>2. PICK g : /\ Total(h, n) = g[n]
               /\ g[0] = 0
               /\ \A i \in 1..n : g[i] = g[i - 1] + h[i]
  BY TotalIsLast
<1> DEFINE moved(i) == IF i >= w THEN h[w] - f[w] ELSE 0
           S == {i \in Nat : i <= n => d[i] \in Nat /\ g[i] = d[i] + moved(i)}
<1>3. 0 \in S
  BY <1>1, <1>2
<1>4. ASSUME NEW i \in Nat, i \in S
      PROVE  i + 1 \in S
  <2>1. CASE i + 1 <= n
    <3>1. i + 1 \in 1..n /\ (i + 1) - 1 = i /\ i <= n
      BY <2>1
    <3>2. /\ d[i + 1] = d[i] + f[i + 1] /\ g[i + 1] = g[i] + h[i + 1]
          /\ d[i] \in Nat /\ g[i] = d[i] + moved(i)
          /\ f[i + 1] \in Nat /\ h[i + 1] \in Nat /\ f[w] \in Nat /\ h[w] \in Nat
          /\ i + 1 # w => h[i + 1] = f[i + 1]
      BY <1>1, <1>2, <1>4, <3>1
    <3>3. CASE i + 1 = w
      BY <3>2, <3>3, <2>1
    <3>4. CASE i + 1 # w
      BY <3>2, <3>4, <2>1
    <3> QED BY <3>3, <3>4
  <2> QED BY <2>1
<1> HIDE DEF S
<1>5. n \in S
  BY <1>3, <1>4, SetInduction
<1>6. g[n] = d[n] + (h[w] - f[w]) /\ d[n] \in Nat /\ f[w] \in Nat /\ h[w] \in Nat
  BY <1>5 DEF S
<1> QED BY <1>1, <1>2, <1>6

-----------------------------------------------------------------------------
(* The invariant *)

BudgetInv == BudgetTypeOK /\ CacheCoversTable /\ OvershootBounded

\* The three totals are naturals.
TotalsNat ==
    /\ Durable \in Nat
    /\ Total(Unbumped, NumWorkers) \in Nat
    /\ Total(Exposure, NumWorkers) \in Nat

LEMMA TotalsAreNat == BudgetTypeOK => TotalsNat
<1> SUFFICES ASSUME BudgetTypeOK
             PROVE  TotalsNat
  OBVIOUS
<1>1. Total(row, NumCaptures) \in Nat
  <2>1. NumCaptures \in Nat /\ \A c \in 1..NumCaptures : row[c] \in Nat
    BY BudgetAssumption DEF BudgetTypeOK, Captures
  <2> QED BY <2>1, TotalIsNat
<1>2. NumWorkers \in Nat /\ MaxCost \in Nat
  BY BudgetAssumption
<1>3. \A w \in 1..NumWorkers : Unbumped[w] \in Nat /\ Exposure[w] \in Nat
  BY <1>2 DEF BudgetTypeOK, Unbumped, Exposure, Workers
<1>4. Total(Unbumped, NumWorkers) \in Nat /\ Total(Exposure, NumWorkers) \in Nat
  BY <1>2, <1>3, TotalIsNat
<1> QED BY <1>1, <1>4 DEF TotalsNat, Durable, BudgetTypeOK

\* The same in the next state.
LEMMA TotalsStayNat == BudgetTypeOK' => TotalsNat'
BY TotalsAreNat, PTL

\* The cached value a check uses is a natural.
LEMMA KnownIsNat ==
    ASSUME BudgetTypeOK
    PROVE  Known \in Nat
BY TotalsAreNat DEF TotalsNat, Known, BudgetTypeOK

\* Every step keeps the types.
LEMMA BudgetTypeStep ==
    ASSUME BudgetTypeOK, [Next]_vars
    PROVE  BudgetTypeOK'
<1> USE DEF BudgetTypeOK
<1>1. Durable \in Nat /\ Known \in Nat
  BY TotalsAreNat, KnownIsNat DEF TotalsNat
<1>2. CASE UNCHANGED vars
  BY <1>2 DEF vars
<1>3. ASSUME NEW c \in Captures, RequestReview(c)
      PROVE  BudgetTypeOK'
  BY <1>1, <1>3 DEF RequestReview, table, config
<1>4. ASSUME NEW c \in Captures, SkipReview(c)
      PROVE  BudgetTypeOK'
  BY <1>4 DEF SkipReview, table, config
<1>5. CASE ReadBudget
  BY <1>1, <1>5 DEF ReadBudget, table, config
<1>6. ASSUME NEW w \in Workers, CallStep(w)
      PROVE  BudgetTypeOK'
  <2>1. ASSUME NEW job \in Captures \cup {Narrative}, Ask(w, job)
        PROVE  BudgetTypeOK'
    <3>1. UNCHANGED <<row, ledger, cached, cap, enabled, patching, billed>>
          /\ queued' = queued \ {job}
      BY <2>1 DEF Ask, table, config
    <3> DEFINE asker == [phase |-> "asking", job |-> job, limit |-> cap, cost |-> 0]
    <3>2. /\ asker \in [phase : Phases, job : Captures \cup {Narrative},
                        limit : Caps \cup {0}, cost : 0..MaxCost]
          /\ asker.phase = "asking"
      BY BudgetAssumption DEF Phases
    <3>3. worker' = [worker EXCEPT ![w] = asker]
      BY <2>1 DEF Ask
    <3> HIDE DEF asker
    <3> QED BY <3>1, <3>2, <3>3
  <2>2. CASE CheckBudget(w)
    BY <1>1, <2>2, BudgetAssumption DEF CheckBudget, table, config, Idle, Phases
  <2>3. ASSUME NEW cost \in 0..MaxCost, Answer(w, cost)
        PROVE  BudgetTypeOK'
    <3>1. UNCHANGED <<row, ledger, cached, cap, enabled, patching, queued>>
          /\ billed' \in Nat
      BY <2>3, BudgetAssumption DEF Answer, table, config
    <3> DEFINE answered == [worker[w] EXCEPT !.phase = "answered", !.cost = cost]
    <3>2. /\ answered \in [phase : Phases, job : Captures \cup {Narrative},
                           limit : Caps \cup {0}, cost : 0..MaxCost]
          /\ answered.phase = "answered"
      BY DEF Phases
    <3>3. worker' = [worker EXCEPT ![w] = answered]
      BY <2>3 DEF Answer
    <3> HIDE DEF answered
    <3> QED BY <3>1, <3>2, <3>3
  <2>4. CASE CallFails(w)
    BY <2>4, BudgetAssumption DEF CallFails, table, config, Idle, Phases
  <2>5. CASE PersistError(w)
    BY <2>5, BudgetAssumption DEF PersistError, config, Idle, Phases
  <2>6. CASE StoreReview(w)
    BY <2>6 DEF StoreReview, config, Phases
  <2>7. CASE BumpCache(w)
    <3>1. cached' \in Nat
      BY <1>1, <2>7, BudgetAssumption DEF BumpCache
    <3>2. UNCHANGED <<row, ledger, cap, enabled, patching, queued, billed>>
      BY <2>7 DEF BumpCache, table, config
    <3>3. /\ worker' = [worker EXCEPT ![w] = Idle]
          /\ Idle \in [phase : Phases, job : Captures \cup {Narrative},
                       limit : Caps \cup {0}, cost : 0..MaxCost]
          /\ Idle.phase = "idle"
      BY <2>7, BudgetAssumption DEF BumpCache, Idle, Phases
    <3> QED BY <3>1, <3>2, <3>3
  <2>8. CASE AddSpend(w)
    BY <1>1, <2>8, BudgetAssumption DEF AddSpend, config, Idle, Phases
  <2>9. CASE StoreFails(w)
    BY <2>9, BudgetAssumption DEF StoreFails, table, config, Idle, Phases
  <2> QED BY <1>6, <2>1, <2>2, <2>3, <2>4, <2>5, <2>6, <2>7, <2>8, <2>9 DEF CallStep
<1>7. ASSUME NEW e \in BOOLEAN, NEW c \in Caps, WriteSettings(e, c)
      PROVE  BudgetTypeOK'
  BY <1>7 DEF WriteSettings, table
<1>8. CASE InvalidateCache
  BY <1>8 DEF InvalidateCache, table
<1>9. CASE ReportStatus
  BY <1>1, <1>9 DEF ReportStatus, table
<1>10. CASE Restart
  BY <1>10, BudgetAssumption DEF Restart, table, Idle, Phases
<1> QED
  BY <1>2, <1>3, <1>4, <1>5, <1>6, <1>7, <1>8, <1>9, <1>10 DEF Next

\* A step of one thread moves both totals over the threads by its own share.
LEMMA WorkerMoves ==
    ASSUME BudgetTypeOK, BudgetTypeOK', NEW w \in Workers,
           \A v \in Workers : v # w => worker'[v] = worker[v]
    PROVE  /\ Total(Unbumped, NumWorkers)'
                = Total(Unbumped, NumWorkers) - Unbumped[w] + (Unbumped')[w]
           /\ Total(Exposure, NumWorkers)'
                = Total(Exposure, NumWorkers) - Exposure[w] + (Exposure')[w]
<1>1. NumWorkers \in Nat /\ MaxCost \in Nat /\ w \in 1..NumWorkers
  BY BudgetAssumption DEF Workers
<1>2. \A v \in 1..NumWorkers : /\ Unbumped[v] \in Nat /\ (Unbumped')[v] \in Nat
                               /\ v # w => (Unbumped')[v] = Unbumped[v]
  BY DEF BudgetTypeOK, Unbumped, Workers
<1>3. \A v \in 1..NumWorkers : /\ Exposure[v] \in Nat /\ (Exposure')[v] \in Nat
                               /\ v # w => (Exposure')[v] = Exposure[v]
  BY <1>1 DEF BudgetTypeOK, Exposure, Workers
<1>4. Total(Unbumped', NumWorkers)
        = Total(Unbumped, NumWorkers) - Unbumped[w] + (Unbumped')[w]
  BY <1>1, <1>2, TotalMoves
<1>5. Total(Exposure', NumWorkers)
        = Total(Exposure, NumWorkers) - Exposure[w] + (Exposure')[w]
  BY <1>1, <1>3, TotalMoves
<1> QED BY <1>4, <1>5

\* Writing the row of one capture moves the recorded spend by the difference.
LEMMA TableMoves ==
    ASSUME BudgetTypeOK, BudgetTypeOK', NEW c \in Captures,
           \A d \in Captures : d # c => row'[d] = row[d],
           ledger' = ledger
    PROVE  Durable' = Durable - row[c] + row'[c]
<1>1. NumCaptures \in Nat /\ c \in 1..NumCaptures
  BY BudgetAssumption DEF Captures
<1>2. \A d \in 1..NumCaptures : /\ row[d] \in Nat /\ row'[d] \in Nat
                                /\ d # c => row'[d] = row[d]
  BY DEF BudgetTypeOK, Captures
<1>3. Total(row', NumCaptures) = Total(row, NumCaptures) - row[c] + row'[c]
  BY <1>1, <1>2, TotalMoves
<1>4. Total(row, NumCaptures) \in Nat
  BY <1>1, <1>2, TotalIsNat
<1> QED BY <1>1, <1>2, <1>3, <1>4 DEF Durable, BudgetTypeOK

\* A step that touches neither the table nor a thread, and leaves the cache at
\* its value, at the table's or empty, keeps both properties.
LEMMA CacheOnly ==
    ASSUME BudgetInv, BudgetTypeOK',
           UNCHANGED <<row, ledger, worker>>,
           cached' \in {cached, Known, Unset}
    PROVE  CacheCoversTable' /\ OvershootBounded'
<1>1. /\ Durable' = Durable
      /\ Total(Unbumped, NumWorkers)' = Total(Unbumped, NumWorkers)
      /\ Total(Exposure, NumWorkers)' = Total(Exposure, NumWorkers)
  BY DEF Durable, Unbumped, Exposure
<1>2. /\ Durable \in Nat /\ Total(Unbumped, NumWorkers) \in Nat
  BY TotalsAreNat DEF TotalsNat, BudgetInv
<1>3. cached' # Unset => Durable <= cached' + Total(Unbumped, NumWorkers)
  BY <1>2 DEF BudgetInv, CacheCoversTable, Known
<1>4. CacheCoversTable'
  BY <1>1, <1>3 DEF CacheCoversTable
<1>5. OvershootBounded'
  BY <1>1 DEF BudgetInv, OvershootBounded
<1> QED BY <1>4, <1>5

\* What is owed to the cache and what may still be spent fit into one call per
\* thread.
LoadFits == Total(Unbumped, NumWorkers) + Total(Exposure, NumWorkers)
                <= NumWorkers * MaxCost

LEMMA LoadBounded == BudgetTypeOK => LoadFits
<1> SUFFICES ASSUME BudgetTypeOK
             PROVE  LoadFits
  OBVIOUS
<1>1. NumWorkers \in Nat /\ MaxCost \in Nat
  BY BudgetAssumption
<1>2. \A w \in 1..NumWorkers : /\ Unbumped[w] \in Nat /\ Exposure[w] \in Nat
                               /\ Unbumped[w] + Exposure[w] <= MaxCost
  BY <1>1 DEF BudgetTypeOK, Unbumped, Exposure, Workers
<1> QED BY <1>1, <1>2, TotalsBounded DEF LoadFits

LEMMA LoadStaysBounded == BudgetTypeOK' => LoadFits'
BY LoadBounded, PTL

\* A step of a call keeps the cache above the table and the overshoot bounded.
LEMMA CallKeeps ==
    ASSUME BudgetInv, BudgetTypeOK', NEW w \in Workers, CallStep(w)
    PROVE  CacheCoversTable' /\ OvershootBounded'
<1> DEFINE D == Durable
           U == Total(Unbumped, NumWorkers)
           X == Total(Exposure, NumWorkers)
<1>1. /\ D \in Nat /\ U \in Nat /\ X \in Nat /\ D' \in Nat /\ U' \in Nat /\ X' \in Nat
      /\ Known \in Nat /\ MaxCost \in Nat /\ NumWorkers * MaxCost \in Nat
      /\ Caps \subseteq Nat \ {0}
  <2>1. BudgetTypeOK
    BY DEF BudgetInv
  <2>2. D \in Nat /\ U \in Nat /\ X \in Nat /\ Known \in Nat
    BY <2>1, TotalsAreNat, KnownIsNat DEF TotalsNat
  <2>3. D' \in Nat /\ U' \in Nat /\ X' \in Nat
    BY TotalsStayNat DEF TotalsNat
  <2>4. MaxCost \in Nat /\ NumWorkers * MaxCost \in Nat /\ Caps \subseteq Nat \ {0}
    BY BudgetAssumption
  <2> QED BY <2>2, <2>3, <2>4
<1>2. ASSUME NEW top \in Caps, \A c \in Caps : c <= top
      PROVE  D + X <= top - 1 + NumWorkers * MaxCost
  BY <1>2 DEF BudgetInv, OvershootBounded
<1>3. cached # Unset => D <= cached + U
  BY DEF BudgetInv, CacheCoversTable
<1>4. D <= Known + U
  BY <1>1, <1>3 DEF Known
<1>5. /\ worker' = [worker EXCEPT ![w] = worker'[w]]
      /\ \A v \in Workers : v # w => worker'[v] = worker[v]
  BY DEF CallStep, Ask, CheckBudget, Answer, CallFails, PersistError, StoreReview,
         BumpCache, AddSpend, StoreFails, BudgetInv, BudgetTypeOK
<1>6. /\ U' = U - Unbumped[w] + (Unbumped')[w]
      /\ X' = X - Exposure[w] + (Exposure')[w]
  BY <1>5, WorkerMoves DEF BudgetInv
<1>7. /\ Unbumped[w] = IF worker[w].phase = "stored" THEN worker[w].cost ELSE 0
      /\ (Unbumped')[w] = IF worker'[w].phase = "stored" THEN worker'[w].cost ELSE 0
      /\ Exposure[w] = IF worker[w].phase \in {"calling", "answered"} THEN MaxCost ELSE 0
      /\ (Exposure')[w] = IF worker'[w].phase \in {"calling", "answered"}
                             THEN MaxCost ELSE 0
      /\ worker[w].cost \in Nat /\ worker[w].cost <= MaxCost
  BY BudgetAssumption DEF Unbumped, Exposure, BudgetInv, BudgetTypeOK
<1>8. U' + X' <= NumWorkers * MaxCost
  BY LoadStaysBounded DEF LoadFits
\* Both properties from the effect of the step on the three totals.
<1>9. ASSUME cached' # Unset => D' <= cached' + U',
             \A top \in Caps : (\A c \in Caps : c <= top) =>
                D' + X' <= top - 1 + NumWorkers * MaxCost
      PROVE  CacheCoversTable' /\ OvershootBounded'
  BY <1>9 DEF CacheCoversTable, OvershootBounded
<1> HIDE DEF D, U, X
<1>10. ASSUME NEW job \in Captures \cup {Narrative}, Ask(w, job)
      PROVE  CacheCoversTable' /\ OvershootBounded'
  <2>1. D' = D /\ cached' = cached
    BY <1>10 DEF Ask, D, Durable, table
  <2>2. /\ Unbumped[w] = 0 /\ (Unbumped')[w] = 0
        /\ Exposure[w] = 0 /\ (Exposure')[w] = 0
    BY <1>10, <1>7 DEF Ask, Idle, BudgetInv, BudgetTypeOK
  <2> QED BY <1>1, <1>2, <1>3, <1>6, <1>9, <2>1, <2>2
<1>11. CASE CheckBudget(w)
  <2>1. D' = D /\ cached' = Known
    BY <1>11 DEF CheckBudget, D, Durable, table
  <2>2. /\ Unbumped[w] = 0 /\ (Unbumped')[w] = 0 /\ Exposure[w] = 0
        /\ (Exposure')[w] = 0 \/ Known < worker[w].limit
    BY <1>11, <1>7 DEF CheckBudget, Idle, BudgetInv, BudgetTypeOK
  <2>3. cached' # Unset => D' <= cached' + U'
    BY <1>1, <1>4, <1>6, <2>1, <2>2
  <2>4. ASSUME NEW top \in Caps, \A c \in Caps : c <= top
        PROVE  D' + X' <= top - 1 + NumWorkers * MaxCost
    <3>1. worker[w].limit \in Caps \cup {0}
      BY DEF BudgetInv, BudgetTypeOK
    <3>2. worker[w].limit \in Nat /\ worker[w].limit <= top /\ top \in Nat
      <4>1. top \in Nat
        BY <1>1
      <4>2. CASE worker[w].limit = 0
        BY <4>1, <4>2
      <4>3. CASE worker[w].limit \in Caps
        BY <1>1, <2>4, <4>1, <4>3
      <4> QED BY <3>1, <4>1, <4>2, <4>3
    <3>3. CASE (Exposure')[w] = 0
      BY <1>1, <1>2, <1>6, <2>1, <2>2, <2>4, <3>3
    <3>4. CASE Known < worker[w].limit
      BY <1>1, <1>4, <1>6, <1>8, <2>1, <2>2, <3>2, <3>4
    <3> QED BY <2>2, <3>3, <3>4
  <2> QED BY <1>9, <2>3, <2>4
<1>12. ASSUME NEW cost \in 0..MaxCost, Answer(w, cost)
      PROVE  CacheCoversTable' /\ OvershootBounded'
  <2>1. D' = D /\ cached' = cached
    BY <1>12 DEF Answer, D, Durable, table
  <2>2. /\ Unbumped[w] = 0 /\ (Unbumped')[w] = 0
        /\ Exposure[w] = MaxCost /\ (Exposure')[w] = MaxCost
    BY <1>12, <1>7 DEF Answer, Idle, BudgetInv, BudgetTypeOK
  <2> QED BY <1>1, <1>2, <1>3, <1>6, <1>9, <2>1, <2>2
<1>13. CASE CallFails(w)
  <2>1. D' = D /\ cached' = cached
    BY <1>13 DEF CallFails, D, Durable, table
  <2>2. /\ Unbumped[w] = 0 /\ (Unbumped')[w] = 0
        /\ Exposure[w] = MaxCost /\ (Exposure')[w] = 0
    BY <1>13, <1>7 DEF CallFails, Idle, BudgetInv, BudgetTypeOK
  <2> QED BY <1>1, <1>2, <1>3, <1>6, <1>9, <2>1, <2>2
<1>14. CASE PersistError(w)
  <2>1. worker[w].job \in Captures /\ row[worker[w].job] \in Nat
    BY <1>14, BudgetAssumption DEF PersistError, BudgetInv, BudgetTypeOK, Narrative
  <2>2. D' = D - row[worker[w].job] + row'[worker[w].job]
    BY <1>14, <2>1, TableMoves DEF PersistError, D, BudgetInv, BudgetTypeOK
  <2>3. row'[worker[w].job] = 0 /\ cached' = cached
    BY <1>14, <2>1 DEF PersistError, BudgetInv, BudgetTypeOK
  <2>4. /\ Unbumped[w] = 0 /\ (Unbumped')[w] = 0
        /\ Exposure[w] = 0 /\ (Exposure')[w] = 0
    BY <1>14, <1>7 DEF PersistError, Idle, BudgetInv, BudgetTypeOK
  <2>5. D' <= D
    BY <1>1, <2>1, <2>2, <2>3
  <2>6. cached' # Unset => D' <= cached' + U'
    <3>1. cached = Unset \/ cached \in Nat
      BY DEF BudgetInv, BudgetTypeOK
    <3> QED BY <1>1, <1>3, <1>6, <2>3, <2>4, <2>5, <3>1
  <2>7. X' = X
    BY <1>1, <1>6, <2>4
  <2> QED BY <1>1, <1>2, <1>9, <2>5, <2>6, <2>7
<1>15. CASE StoreReview(w)
  <2>1. worker[w].job \in Captures /\ row[worker[w].job] \in Nat
    BY <1>15, BudgetAssumption DEF StoreReview, BudgetInv, BudgetTypeOK, Narrative
  <2>2. D' = D - row[worker[w].job] + row'[worker[w].job]
    BY <1>15, <2>1, TableMoves DEF StoreReview, D, BudgetInv, BudgetTypeOK
  <2>3. row'[worker[w].job] = worker[w].cost /\ cached' = cached
    BY <1>15, <2>1 DEF StoreReview, BudgetInv, BudgetTypeOK
  <2>4. /\ Unbumped[w] = 0 /\ (Unbumped')[w] = worker[w].cost
        /\ Exposure[w] = MaxCost /\ (Exposure')[w] = 0
    BY <1>15, <1>7 DEF StoreReview, BudgetInv, BudgetTypeOK
  <2>5. D' <= D + worker[w].cost
    BY <1>1, <1>7, <2>1, <2>2, <2>3
  <2>6. U' = U + worker[w].cost /\ X' = X - MaxCost
    BY <1>1, <1>6, <1>7, <2>4
  <2>7. cached' # Unset => D' <= cached' + U'
    <3>1. cached = Unset \/ cached \in Nat
      BY DEF BudgetInv, BudgetTypeOK
    <3> QED BY <1>1, <1>3, <1>7, <2>3, <2>5, <2>6, <3>1
  <2> QED BY <1>1, <1>2, <1>7, <1>9, <2>5, <2>6, <2>7
<1>16. CASE BumpCache(w)
  <2>1. D' = D
    BY <1>16 DEF BumpCache, D, Durable, table
  <2>2. cached' = IF cached = Unset THEN D ELSE cached + worker[w].cost
    BY <1>16 DEF BumpCache, D
  <2>3. /\ Unbumped[w] = worker[w].cost /\ (Unbumped')[w] = 0
        /\ Exposure[w] = 0 /\ (Exposure')[w] = 0
    BY <1>16, <1>7 DEF BumpCache, Idle, BudgetInv, BudgetTypeOK
  <2>4. cached = Unset \/ cached \in Nat
    BY DEF BudgetInv, BudgetTypeOK
  <2> QED BY <1>1, <1>2, <1>3, <1>6, <1>7, <1>9, <2>1, <2>2, <2>3, <2>4
<1>17. CASE AddSpend(w)
  <2>1. D' = D + worker[w].cost /\ cached' = Known + worker[w].cost
    <3>1. Total(row, NumCaptures) \in Nat /\ ledger \in Nat
      <4>1. NumCaptures \in Nat /\ \A c \in 1..NumCaptures : row[c] \in Nat
        BY BudgetAssumption DEF BudgetInv, BudgetTypeOK, Captures
      <4> QED BY <4>1, TotalIsNat DEF BudgetInv, BudgetTypeOK
    <3> QED BY <1>17, <1>7, <3>1 DEF AddSpend, D, Durable
  <2>2. /\ Unbumped[w] = 0 /\ (Unbumped')[w] = 0
        /\ Exposure[w] = MaxCost /\ (Exposure')[w] = 0
    BY <1>17, <1>7 DEF AddSpend, Idle, BudgetInv, BudgetTypeOK
  <2> QED BY <1>1, <1>2, <1>4, <1>6, <1>7, <1>9, <2>1, <2>2
<1>18. CASE StoreFails(w)
  <2>1. D' = D /\ cached' = cached
    BY <1>18 DEF StoreFails, D, Durable, table
  <2>2. /\ Unbumped[w] = 0 /\ (Unbumped')[w] = 0
        /\ Exposure[w] \in Nat /\ (Exposure')[w] = 0
    BY <1>1, <1>18, <1>7 DEF StoreFails, Idle, BudgetInv, BudgetTypeOK
  <2> QED BY <1>1, <1>2, <1>3, <1>6, <1>9, <2>1, <2>2
<1> QED
  BY <1>10, <1>11, <1>12, <1>13, <1>14, <1>15, <1>16, <1>17, <1>18 DEF CallStep

\* The inductive invariant holds initially and is kept by every step.
LEMMA BudgetInvInit == Init => BudgetInv
<1> SUFFICES ASSUME Init
             PROVE  BudgetInv
  OBVIOUS
<1>1. BudgetTypeOK
  BY BudgetAssumption DEF Init, BudgetTypeOK, Idle, Phases
<1>2. CacheCoversTable
  BY DEF Init, CacheCoversTable
<1>3. NumWorkers \in Nat /\ NumCaptures \in Nat /\ MaxCost \in Nat /\ Caps \subseteq Nat \ {0}
  BY BudgetAssumption
<1>4. Total(row, NumCaptures) + Total(row, NumCaptures) <= NumCaptures * 0
  <2>1. \A c \in 1..NumCaptures : row[c] = 0
    BY DEF Init, Captures
  <2> QED BY <1>3, <2>1, TotalsBounded
<1>5. Durable = 0
  <2>1. Total(row, NumCaptures) \in Nat
    <3>1. \A c \in 1..NumCaptures : row[c] \in Nat
      BY DEF Init, Captures
    <3> QED BY <1>3, <3>1, TotalIsNat
  <2>2. Total(row, NumCaptures) = 0
    BY <1>3, <1>4, <2>1
  <2> QED BY <2>2 DEF Durable, Init
<1>6. LoadFits /\ TotalsNat
  BY <1>1, LoadBounded, TotalsAreNat
<1>7. OvershootBounded
  BY <1>3, <1>5, <1>6 DEF OvershootBounded, LoadFits, TotalsNat
<1> QED BY <1>1, <1>2, <1>7 DEF BudgetInv

LEMMA BudgetInvStep == BudgetInv /\ [Next]_vars => BudgetInv'
<1> SUFFICES ASSUME BudgetInv, [Next]_vars
             PROVE  BudgetInv'
  OBVIOUS
<1>1. BudgetTypeOK'
  BY BudgetTypeStep DEF BudgetInv
<1>2. CASE UNCHANGED vars
  BY <1>1, <1>2, CacheOnly DEF vars, BudgetInv
<1>3. ASSUME NEW w \in Workers, CallStep(w)
      PROVE  BudgetInv'
  BY <1>1, <1>3, CallKeeps DEF BudgetInv
<1>4. CASE Restart
  <2>1. NumWorkers \in Nat /\ NumWorkers * MaxCost \in Nat /\ Caps \subseteq Nat \ {0}
    BY BudgetAssumption
  <2>2. Durable' = Durable
    BY <1>4 DEF Restart, table, Durable
  <2>3. \A w \in 1..NumWorkers : (Exposure')[w] = 0
    BY <1>4 DEF Restart, Exposure, Idle, Workers
  <2>4. Total(Exposure', NumWorkers) + Total(Exposure', NumWorkers) <= NumWorkers * 0
    BY <2>1, <2>3, TotalsBounded
  <2>5. Total(Exposure, NumWorkers)' = 0
    <3>1. Total(Exposure, NumWorkers)' \in Nat
      BY <1>1, TotalsStayNat DEF TotalsNat
    <3> QED BY <2>1, <2>4, <3>1
  <2>6. Durable \in Nat /\ Total(Exposure, NumWorkers) \in Nat
    BY TotalsAreNat DEF TotalsNat, BudgetInv
  <2>7. OvershootBounded'
    <3>1. ASSUME NEW top \in Caps, \A c \in Caps : c <= top
          PROVE  Durable + Total(Exposure, NumWorkers)
                    <= top - 1 + NumWorkers * MaxCost
      BY <3>1 DEF BudgetInv, OvershootBounded
    <3> QED BY <2>1, <2>2, <2>5, <2>6, <3>1 DEF OvershootBounded
  <2>8. CacheCoversTable'
    BY <1>4 DEF Restart, CacheCoversTable
  <2> QED BY <1>1, <2>7, <2>8 DEF BudgetInv
<1>5. CASE \/ \E c \in Captures : RequestReview(c) \/ SkipReview(c)
           \/ ReadBudget
           \/ \E e \in BOOLEAN, c \in Caps : WriteSettings(e, c)
           \/ InvalidateCache
           \/ ReportStatus
  <2>1. UNCHANGED <<row, ledger, worker>> /\ cached' \in {cached, Known, Unset}
    BY <1>5 DEF RequestReview, SkipReview, ReadBudget, WriteSettings,
                InvalidateCache, ReportStatus, table
  <2> QED BY <1>1, <2>1, CacheOnly DEF BudgetInv
<1> QED BY <1>2, <1>3, <1>4, <1>5 DEF Next

-----------------------------------------------------------------------------
(* Theorems *)

\* The guard keeps its types: above all, a refused or failed call that writes an
\* error row is a review, so that the row has a capture.
THEOREM BudgetTypeCorrect == Spec => []BudgetTypeOK
<1>1. BudgetInv => BudgetTypeOK
  BY DEF BudgetInv
<1> QED BY <1>1, BudgetInvInit, BudgetInvStep, PTL DEF Spec

\* In every reachable state the cache and what is on its way to it cover the
\* reviews table, whatever rows are replaced, caches dropped and calls lost.
THEOREM CacheCorrect == Spec => []CacheCoversTable
<1>1. BudgetInv => CacheCoversTable
  BY DEF BudgetInv
<1> QED BY <1>1, BudgetInvInit, BudgetInvStep, PTL DEF Spec

\* For every number of threads the recorded spend passes the largest cap by less
\* than one dearest call per thread.
THEOREM OvershootCorrect == Spec => []OvershootBounded
<1>1. BudgetInv => OvershootBounded
  BY DEF BudgetInv
<1> QED BY <1>1, BudgetInvInit, BudgetInvStep, PTL DEF Spec
=============================================================================
