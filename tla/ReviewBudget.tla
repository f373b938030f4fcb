----------------------------- MODULE ReviewBudget -----------------------------
(***************************************************************************)
(* The spend guard of the DeepSeek reviewer (reviewers/registry.py): a     *)
(* cached running total in front of the costs stored in the `reviews`      *)
(* table, checked before every paid call and raised after it, by the two   *)
(* threads of the reviewer pool, the on-demand endpoint and the narrative  *)
(* endpoints of api.py at once, while PATCH /api/reviews/settings drops    *)
(* the cache.                                                              *)
(*                                                                         *)
(* A cost is a small natural number.  The `reviews` table is row[c], the   *)
(* cost of the DeepSeek row of capture c (0 without one), and ledger, the  *)
(* total of the narrative rows, whose ids are fresh so that they only add. *)
(***************************************************************************)
EXTENDS Integers

CONSTANTS NumWorkers,   \* pool threads and request threads that may pay
          NumCaptures,
          MaxCost,      \* the dearest single call
          Caps,         \* the values of usd_cap the operator sets
          MaxBilled     \* bound: what the provider may bill in all

ASSUME BudgetAssumption ==
    /\ NumWorkers \in Nat \ {0} /\ NumCaptures \in Nat
    /\ MaxCost \in Nat /\ MaxBilled \in Nat
    /\ Caps \subseteq Nat \ {0} /\ Caps # {}

Workers == 1..NumWorkers
Captures == 1..NumCaptures
Narrative == 0          \* the job of a live-read or explain call
Unset == -1             \* _cached_spent_usd is None

VARIABLES row, ledger,  \* the reviews table
          cached,       \* _cached_spent_usd
          cap, enabled, \* settings.reviewers.deepseek, shared and mutable
          patching,     \* how far PATCH /api/reviews/settings has come
          queued,       \* captures whose review was admitted to the pool
          worker,       \* the calls in progress
          billed        \* history: the costs the provider has reported

vars == <<row, ledger, cached, cap, enabled, patching, queued, worker, billed>>
table == <<row, ledger>>
config == <<cap, enabled, patching>>

-----------------------------------------------------------------------------
\* Total(f, n): f[1] + ... + f[n].
Total(f, n) ==
    LET upTo[i \in 0..n] == IF i = 0 THEN 0 ELSE upTo[i - 1] + f[i]
    IN  upTo[n]

\* _durable_spent_usd: both sums over the table.
Durable == ledger + Total(row, NumCaptures)

\* budget_state().spent_usd: the cache, filled from the table when empty.
Known == IF cached = Unset THEN Durable ELSE cached

\* What upserted reviews have not yet added to the cache.
Unbumped == [w \in Workers |->
                IF worker[w].phase = "stored" THEN worker[w].cost ELSE 0]

\* What the calls in progress may still put on record, at worst.
Exposure == [w \in Workers |->
                IF worker[w].phase \in {"calling", "answered"} THEN MaxCost ELSE 0]

Idle == [phase |-> "idle", job |-> Narrative, limit |-> 0, cost |-> 0]

Phases == {"idle", "asking", "calling", "answered", "stored", "failed"}

BudgetTypeOK ==
    /\ row \in [Captures -> 0..MaxCost]
    /\ ledger \in Nat
    /\ cached \in Nat \cup {Unset}
    /\ cap \in Caps
    /\ enabled \in BOOLEAN
    /\ patching \in {"no", "written", "dropped"}
    /\ queued \subseteq Captures
    /\ worker \in [Workers -> [phase : Phases, job : Captures \cup {Narrative},
                               limit : Caps \cup {0}, cost : 0..MaxCost]]
    /\ \A w \in Workers : worker[w].phase = "failed" => worker[w].job # Narrative
    /\ billed \in Nat

Init ==
    /\ row = [c \in Captures |-> 0]
    /\ ledger = 0
    /\ cached = Unset
    /\ cap \in Caps
    /\ enabled \in BOOLEAN
    /\ patching = "no"
    /\ queued = {}
    /\ worker = [w \in Workers |-> Idle]
    /\ billed = 0

-----------------------------------------------------------------------------
\* The sampler or the on-demand endpoint: a review is admitted when the guard
\* is not exhausted at that moment.
RequestReview(c) ==
    /\ enabled
    /\ Known < cap
    /\ cached' = Known
    /\ queued' = queued \cup {c}
    /\ UNCHANGED <<table, config, worker, billed>>

\* Any reader of the budget: /api/stats, the status endpoints, a check that
\* ends in a refusal.
ReadBudget ==
    /\ cached' = Known
    /\ UNCHANGED <<table, config, queued, worker, billed>>

\* A client exists, and budget_state reads the cap before it takes its lock.
Ask(w, job) ==
    /\ worker[w].phase = "idle"
    /\ enabled
    /\ job # Narrative => job \in queued
    /\ worker' = [worker EXCEPT ![w] =
                    [phase |-> "asking", job |-> job, limit |-> cap, cost |-> 0]]
    /\ queued' = queued \ {job}
    /\ UNCHANGED <<table, cached, config, billed>>

\* run_and_persist_deepseek without a client returns None.
SkipReview(c) ==
    /\ c \in queued
    /\ ~enabled
    /\ queued' = queued \ {c}
    /\ UNCHANGED <<table, cached, config, worker, billed>>

\* Mutant: `spent > cap` for `spent >= cap`.
CheckBudgetLate(w) ==
    /\ worker[w].phase = "asking"
    /\ cached' = Known
    /\ worker' = [worker EXCEPT ![w] =
                    IF Known <= worker[w].limit THEN [@ EXCEPT !.phase = "calling"]
                    ELSE IF @.job = Narrative THEN Idle
                    ELSE [@ EXCEPT !.phase = "failed"]]
    /\ UNCHANGED <<table, config, queued, billed>>

\* The locked half of budget_state, and the branch on `exhausted`: a refused
\* review is answered by an error row, a refused narrative by local text.
CheckBudget(w) ==
    /\ worker[w].phase = "asking"
    /\ cached' = Known
    /\ worker' = [worker EXCEPT ![w] =
                    IF Known < worker[w].limit THEN [@ EXCEPT !.phase = "calling"]
                    ELSE IF @.job = Narrative THEN Idle
                    ELSE [@ EXCEPT !.phase = "failed"]]
    /\ UNCHANGED <<table, config, queued, billed>>

\* A usable answer; its usage envelope prices it.
Answer(w, cost) ==
    /\ worker[w].phase = "calling"
    /\ billed + cost <= MaxBilled
    /\ billed' = billed + cost
    /\ worker' = [worker EXCEPT ![w].phase = "answered", ![w].cost = cost]
    /\ UNCHANGED <<table, cached, config, queued>>

\* No usable answer (timeout, non-200, unparsable content, a reader of the
\* stream that left): whatever it cost, no cost reaches the guard.
CallFails(w) ==
    /\ worker[w].phase = "calling"
    /\ worker' = [worker EXCEPT ![w] =
                    IF @.job = Narrative THEN Idle ELSE [@ EXCEPT !.phase = "failed"]]
    /\ UNCHANGED <<table, cached, config, queued, billed>>

\* _persist_error: a row that costs nothing, in place of the capture's row.
PersistError(w) ==
    /\ worker[w].phase = "failed"
    /\ row' = [row EXCEPT ![worker[w].job] = 0]
    /\ worker' = [worker EXCEPT ![w] = Idle]
    /\ UNCHANGED <<ledger, cached, config, queued, billed>>

\* upsert_review: INSERT OR REPLACE on (capture_id, reviewer_id).
StoreReview(w) ==
    /\ worker[w].phase = "answered"
    /\ worker[w].job # Narrative
    /\ row' = [row EXCEPT ![worker[w].job] = worker[w].cost]
    /\ worker' = [worker EXCEPT ![w].phase = "stored"]
    /\ UNCHANGED <<ledger, cached, config, queued, billed>>

\* Mutant: an empty cache is taken for zero.
BumpCacheFromZero(w) ==
    /\ worker[w].phase = "stored"
    /\ cached' = (IF cached = Unset THEN 0 ELSE cached) + worker[w].cost
    /\ worker' = [worker EXCEPT ![w] = Idle]
    /\ UNCHANGED <<table, config, queued, billed>>

\* _bump_cache_only, a lock acquisition after the upsert.
BumpCache(w) ==
    /\ worker[w].phase = "stored"
    /\ cached' = IF cached = Unset THEN Durable ELSE cached + worker[w].cost
    /\ worker' = [worker EXCEPT ![w] = Idle]
    /\ UNCHANGED <<table, config, queued, billed>>

\* add_spend: ledger row and cache under one lock.
AddSpend(w) ==
    /\ worker[w].phase = "answered"
    /\ worker[w].job = Narrative
    /\ ledger' = ledger + worker[w].cost
    /\ cached' = Known + worker[w].cost
    /\ worker' = [worker EXCEPT ![w] = Idle]
    /\ UNCHANGED <<row, config, queued, billed>>

\* upsert_review raises (database locked): the row is not written, the
\* exception ends the call and the cache is never raised.
StoreFails(w) ==
    /\ worker[w].phase \in {"answered", "failed"}
    /\ worker' = [worker EXCEPT ![w] = Idle]
    /\ UNCHANGED <<table, cached, config, queued, billed>>

\* PATCH /api/reviews/settings assigns the fields, drops the cache, and
\* returns status(), which fills it again.
WriteSettings(e, c) ==
    /\ patching = "no"
    /\ enabled' = e /\ cap' = c
    /\ patching' = "written"
    /\ UNCHANGED <<table, cached, queued, worker, billed>>

InvalidateCache ==
    /\ patching = "written"
    /\ cached' = Unset
    /\ patching' = "dropped"
    /\ UNCHANGED <<table, cap, enabled, queued, worker, billed>>

ReportStatus ==
    /\ patching = "dropped"
    /\ cached' = Known
    /\ patching' = "no"
    /\ UNCHANGED <<table, cap, enabled, queued, worker, billed>>

\* The process ends (crash or close with cancel_futures) and starts again:
\* the table survives, the calls in progress and the queue do not.
Restart ==
    /\ cached' = Unset
    /\ cap' \in Caps /\ enabled' \in BOOLEAN
    /\ patching' = "no"
    /\ queued' = {}
    /\ worker' = [w \in Workers |-> Idle]
    /\ UNCHANGED <<table, billed>>

CallStep(w) ==
    \/ \E job \in Captures \cup {Narrative} : Ask(w, job)
    \/ CheckBudget(w)
    \/ \E cost \in 0..MaxCost : Answer(w, cost)
    \/ CallFails(w)
    \/ PersistError(w)
    \/ StoreReview(w)
    \/ BumpCache(w)
    \/ AddSpend(w)
    \/ StoreFails(w)

Next ==
    \/ \E c \in Captures : RequestReview(c) \/ SkipReview(c)
    \/ ReadBudget
    \/ \E w \in Workers : CallStep(w)
    \/ \E e \in BOOLEAN, c \in Caps : WriteSettings(e, c)
    \/ InvalidateCache
    \/ ReportStatus
    \/ Restart

Spec == Init /\ [][Next]_vars

-----------------------------------------------------------------------------
(* Properties *)

\* The guard never believes in less than what the table holds, apart from the
\* reviews stored but not yet added: a cache below that would let calls run
\* past the cap although the spend is on disk.
CacheCoversTable ==
    cached # Unset => Durable <= cached + Total(Unbumped, NumWorkers)

\* However calls, settings changes and restarts interleave, the spend on
\* record and the worst case of the calls in progress exceed the largest cap
\* ever set by less than one call per thread.
OvershootBounded ==
    \A top \in Caps : (\A c \in Caps : c <= top) =>
        Durable + Total(Exposure, NumWorkers) <= top - 1 + NumWorkers * MaxCost

\* "must aggregate every USD spend or the cap is bypassable after a cache
\* invalidation" (registry.py, _durable_spent_usd): recorded spend stays.
SpendStaysOnRecord == [][Durable' >= Durable]_vars

\* The cache is never above what was billed ("would count the spend twice and
\* silently halve the effective usd_cap", registry.py, _bump_cache_only).
CountedOnce == cached <= billed

=============================================================================
