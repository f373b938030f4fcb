---------------------------- MODULE FeedSchedule ----------------------------
(***************************************************************************)
(* When the HTTP poller fetches a feed (src/catchem/news_poller.py): the   *)
(* circuit breaker, which reacts to failures, and the adaptive cadence,    *)
(* which reacts to emptiness.  A scheduled tick (or "Poll now") fetches    *)
(* the feeds that are neither cooling nor ahead of their due cycle; a      *)
(* probe fetches one feed whatever its state.  Both hold `_lock` from      *)
(* their first look at feed_health to their last write.                    *)
(*                                                                         *)
(* Cooldowns and due cycles are kept as what remains of them, counters of  *)
(* errors and empties saturate past the end of the ladders: nothing else   *)
(* of them is ever looked at, and no bound on time or cycles is needed.    *)
(***************************************************************************)
EXTENDS Integers, Sequences, FiniteSets

CONSTANTS
    Feed,           \* the configured feeds
    Threshold,      \* CIRCUIT_BREAKER_THRESHOLD
    Ladder,         \* BACKOFF_LADDER_SECONDS, in clock units
    CadenceLadder,  \* ADAPTIVE_CADENCE_LADDER: <<empties up to, every n cycles>>
    CadenceMax,     \* ADAPTIVE_CADENCE_MAX
    Adaptive,       \* _adaptive_polling_enabled
    ReadFaults      \* may the dedup read of a tick raise?

ASSUME ScheduleAssumption ==
    /\ Threshold \in Nat \ {0}
    /\ Ladder \in Seq(Nat \ {0}) /\ Len(Ladder) > 0
    /\ \A j, k \in 1..Len(Ladder) : j <= k => Ladder[j] <= Ladder[k]
    /\ CadenceLadder \in Seq(Nat \X (Nat \ {0})) /\ Len(CadenceLadder) > 0
    /\ CadenceMax \in Nat \ {0}
    /\ \A k \in 1..Len(CadenceLadder) : CadenceLadder[k][2] <= CadenceMax
    /\ Adaptive \in BOOLEAN /\ ReadFaults \in BOOLEAN

Closed == -1        \* no cooldown_until

VARIABLES
    errors,     \* consecutive_errors
    cooldown,   \* what remains until cooldown_until; 0 once it has passed
    empties,    \* consecutive_empty
    dueIn,      \* cycles until _feed_next_due_cycle; 0 when due
    ok,         \* the health entry's ok
    backedOff,  \* the health entry's backed_off
    busy,       \* who holds _lock: nobody ("idle"), a "tick" or a "probe"
    fetching,   \* feeds_to_fetch
    skipped,    \* feeds the pass passes over as cooling
    opened      \* history: the last cooldown of the current error streak

health == <<errors, cooldown, empties, ok, backedOff, opened>>
scheduleVars == <<health, dueIn, busy, fetching, skipped>>

ErrorsCap == Threshold + Len(Ladder)
EmptiesCap == CadenceLadder[Len(CadenceLadder)][1] + 1
LongestCooldown == Ladder[Len(Ladder)]

AtMost(cap, n) == IF n > cap THEN cap ELSE n

ScheduleTypeOK ==
    /\ errors \in [Feed -> 0..ErrorsCap]
    /\ cooldown \in [Feed -> Closed..LongestCooldown]
    /\ empties \in [Feed -> 0..EmptiesCap]
    /\ dueIn \in [Feed -> 0..CadenceMax]
    /\ ok \in [Feed -> BOOLEAN]
    /\ backedOff \in [Feed -> BOOLEAN]
    /\ busy \in {"idle", "tick", "probe"}
    /\ fetching \in SUBSET Feed
    /\ skipped \in SUBSET Feed
    /\ opened \in [Feed -> 0..LongestCooldown]

ScheduleInit ==
    /\ errors = [f \in Feed |-> 0]
    /\ cooldown = [f \in Feed |-> Closed]
    /\ empties = [f \in Feed |-> 0]
    /\ dueIn = [f \in Feed |-> 0]
    /\ ok = [f \in Feed |-> FALSE]
    /\ backedOff = [f \in Feed |-> FALSE]
    /\ busy = "idle" /\ fetching = {} /\ skipped = {}
    /\ opened = [f \in Feed |-> 0]

-----------------------------------------------------------------------------
(* The two ladders. *)

(* Mutant: past the last rung the ladder starts over. *)
ComputeCooldownWrapping(n) ==
    IF n < Threshold THEN Closed ELSE Ladder[((n - Threshold) % Len(Ladder)) + 1]

(* Mutant: one failure more before the breaker opens. *)
ComputeCooldownLate(n) ==
    IF n <= Threshold THEN Closed ELSE Ladder[AtMost(Len(Ladder), n - Threshold + 1)]

(* _compute_cooldown_until *)
ComputeCooldown(n) ==
    IF n < Threshold THEN Closed ELSE Ladder[AtMost(Len(Ladder), n - Threshold + 1)]

(* _adaptive_cadence: the first rung that holds n, or the slowest cadence. *)
Cadence(n) ==
    LET holding == {k \in 1..Len(CadenceLadder) : n <= CadenceLadder[k][1]} IN
    IF holding = {} THEN CadenceMax
    ELSE CadenceLadder[CHOOSE k \in holding : \A j \in holding : k <= j][2]

-----------------------------------------------------------------------------
(* A tick up to its await: which feeds to fetch.  A cooldown that has passed *)
(* is nulled on the way, before the due cycle is looked at.                  *)

Cooling(f) == cooldown[f] > 0
NotDue(f) == Adaptive /\ dueIn[f] > 0

(* Mutant: the cycle count stands still. *)
BeginTickSameCycle ==
    /\ busy = "idle"
    /\ busy' = "tick"
    /\ skipped' = {f \in Feed : Cooling(f)}
    /\ fetching' = {f \in Feed : ~Cooling(f) /\ ~NotDue(f)}
    /\ cooldown' = [f \in Feed |-> IF cooldown[f] = 0 THEN Closed ELSE cooldown[f]]
    /\ backedOff' = [f \in Feed |-> IF cooldown[f] = 0 THEN FALSE ELSE backedOff[f]]
    /\ UNCHANGED <<dueIn, errors, empties, ok, opened>>

(* dueIn counts from the next cycle on: this one's number is taken here. *)
BeginTick ==
    /\ busy = "idle"
    /\ busy' = "tick"
    /\ skipped' = {f \in Feed : Cooling(f)}
    /\ fetching' = {f \in Feed : ~Cooling(f) /\ ~NotDue(f)}
    /\ cooldown' = [f \in Feed |-> IF cooldown[f] = 0 THEN Closed ELSE cooldown[f]]
    /\ backedOff' = [f \in Feed |-> IF cooldown[f] = 0 THEN FALSE ELSE backedOff[f]]
    /\ dueIn' = [f \in Feed |-> IF dueIn[f] = 0 THEN 0 ELSE dueIn[f] - 1]
    /\ UNCHANGED <<errors, empties, ok, opened>>

(* Mutant: the cooldown is cleared and the badge stays. *)
BeginProbeKeepingBadge(f) ==
    /\ busy = "idle"
    /\ busy' = "probe"
    /\ fetching' = {f} /\ skipped' = {}
    /\ cooldown' = [cooldown EXCEPT ![f] = Closed]
    /\ UNCHANGED <<backedOff, errors, empties, dueIn, ok, opened>>

(* A probe up to its await: the feed's cooldown is cleared. *)
BeginProbe(f) ==
    /\ busy = "idle"
    /\ busy' = "probe"
    /\ fetching' = {f} /\ skipped' = {}
    /\ cooldown' = [cooldown EXCEPT ![f] = Closed]
    /\ backedOff' = [backedOff EXCEPT ![f] = IF cooldown[f] # Closed THEN FALSE ELSE @]
    /\ UNCHANGED <<errors, empties, dueIn, ok, opened>>

-----------------------------------------------------------------------------
(* What a fetch brought: something "new", nothing ("empty"), or an "error".  *)

Outcomes == [fetching -> {"new", "empty", "error"}]

ErrorsAfter(res, f) ==
    IF f \notin DOMAIN res THEN errors[f]
    ELSE IF res[f] = "error" THEN AtMost(ErrorsCap, errors[f] + 1)
    ELSE 0

CooldownAfter(res, f) ==
    IF f \notin DOMAIN res THEN cooldown[f]
    ELSE IF res[f] = "error" THEN ComputeCooldown(ErrorsAfter(res, f))
    ELSE Closed

(* _record_feed_result for every result, the skipped feeds among them.       *)
RecordResults(res) ==
    /\ errors' = [f \in Feed |-> ErrorsAfter(res, f)]
    /\ cooldown' = [f \in Feed |-> CooldownAfter(res, f)]
    /\ ok' = [f \in Feed |-> IF f \in skipped THEN FALSE
                             ELSE IF f \in DOMAIN res THEN res[f] # "error"
                             ELSE ok[f]]
    /\ backedOff' = [f \in Feed |-> f \in skipped \/ (f \notin DOMAIN res /\ backedOff[f])]
    /\ opened' = [f \in Feed |-> IF f \notin DOMAIN res THEN opened[f]
                                 ELSE IF res[f] # "error" THEN 0
                                 ELSE IF CooldownAfter(res, f) = Closed THEN opened[f]
                                 ELSE CooldownAfter(res, f)]

EmptiesAfter(res, f) ==
    IF f \notin DOMAIN res \/ res[f] = "error" THEN empties[f]
    ELSE IF res[f] = "new" THEN 0
    ELSE AtMost(EmptiesCap, empties[f] + 1)

(* Mutant: the next cycle is set from the count before this fetch. *)
RecordYieldStale(res) ==
    /\ empties' = [f \in Feed |-> EmptiesAfter(res, f)]
    /\ dueIn' = [f \in Feed |->
        IF f \in DOMAIN res /\ res[f] # "error" THEN Cadence(empties[f]) - 1 ELSE dueIn[f]]

(* _record_adaptive_yield for the feeds that were fetched and are ok.  This  *)
(* cycle is already taken, so a cadence of n leaves n - 1 cycles to sit out. *)
RecordYield(res) ==
    /\ empties' = [f \in Feed |-> EmptiesAfter(res, f)]
    /\ dueIn' = [f \in Feed |->
        IF f \in DOMAIN res /\ res[f] # "error" THEN Cadence(EmptiesAfter(res, f)) - 1 ELSE dueIn[f]]

Release == busy' = "idle" /\ fetching' = {} /\ skipped' = {}

EndTick ==
    /\ busy = "tick"
    /\ \E res \in Outcomes : RecordResults(res) /\ RecordYield(res)
    /\ Release

(* The dedup read raises: the breaker has its results, the cadence has not.  *)
AbortTick ==
    /\ ReadFaults
    /\ busy = "tick"
    /\ \E res \in Outcomes : RecordResults(res)
    /\ Release
    /\ UNCHANGED <<empties, dueIn>>

(* A probe, aborted or not, records its result and leaves the cadence alone. *)
EndProbe ==
    /\ busy = "probe"
    /\ \E res \in Outcomes : RecordResults(res)
    /\ Release
    /\ UNCHANGED <<empties, dueIn>>

ClockTick ==
    /\ \E f \in Feed : cooldown[f] > 0
    /\ cooldown' = [f \in Feed |-> IF cooldown[f] > 0 THEN cooldown[f] - 1 ELSE cooldown[f]]
    /\ UNCHANGED <<errors, empties, ok, backedOff, opened, dueIn, busy, fetching, skipped>>

ScheduleNext ==
    \/ BeginTick \/ EndTick \/ AbortTick
    \/ \E f \in Feed : BeginProbe(f)
    \/ EndProbe
    \/ ClockTick

ScheduleSpec == ScheduleInit /\ [][ScheduleNext]_scheduleVars

(* The poller's loop never ends and waits at most _interval between ticks,   *)
(* every fetch has a timeout, and asyncio.Lock is fair to its waiters.       *)
ScheduleFairness == SF_scheduleVars(BeginTick) /\ WF_scheduleVars(EndTick \/ AbortTick) /\ WF_scheduleVars(EndProbe) /\ WF_scheduleVars(ClockTick)

ScheduleFairSpec == ScheduleSpec /\ ScheduleFairness

-----------------------------------------------------------------------------
(* What the schedule promises. *)

(* The entries of one feed's health agree: a cooldown stands only behind a   *)
(* full streak of errors, "ok" only without one, and the backed-off badge    *)
(* only beside a cooldown (_record_feed_result, _poll_once, probe).          *)
HealthAgrees ==
    \A f \in Feed :
        /\ cooldown[f] # Closed => errors[f] >= Threshold
        /\ ok[f] => errors[f] = 0 /\ cooldown[f] = Closed /\ ~backedOff[f]
        /\ backedOff[f] => cooldown[f] # Closed

(* A feed sits out only what its empty fetches and the cadence ladder call   *)
(* for, whatever errors, probes and aborted ticks came in between: the due   *)
(* cycle is never behind what the current count of empties says.             *)
SitsOutItsEmptinessOnly == \A f \in Feed : dueIn[f] < Cadence(empties[f])

(* Once a streak reaches the threshold the feed is never fetched by a tick   *)
(* before a cooldown was opened and has run out or was cleared: the breaker  *)
(* opens with the very failure that completes the streak.                    *)
StreakOpensBreaker ==
    \A f \in Feed : errors[f] >= Threshold => opened[f] > 0

(* The health rows of the feeds agree with themselves and with the schedule: *)
(* a feed is kept from the next tick by a full streak of errors that opened  *)
(* the breaker, or by its own emptiness, and by nothing else.                *)
ScheduleAgrees == HealthAgrees /\ SitsOutItsEmptinessOnly /\ StreakOpensBreaker

(* "The ladder is climbed each additional failure": within one streak of     *)
(* errors no cooldown is shorter than the one before, though it expires and  *)
(* is nulled, or is cleared by a probe, in between.                          *)
LadderClimbs ==
    [][\A f \in Feed : errors'[f] > 0 /\ opened'[f] # opened[f] => opened'[f] > opened[f]]_scheduleVars

(* "so we still probe the feed every hour rather than going silent until     *)
(* restart": every feed is fetched again and again, whatever it brings.      *)
NeverSilent == \A f \in Feed : []<>(f \in fetching)

=============================================================================
