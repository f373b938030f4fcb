--------------------------- MODULE PushReconnect ----------------------------
(***************************************************************************)
(* The life of the push channel's connections (src/catchem/ws_push.py):    *)
(* one task per source connects, reads frames, and after every session,    *)
(* however it ended, sleeps for a backoff that a count of failures picks   *)
(* from a ladder.  stop() sets the event, cancels the tasks and awaits     *)
(* them.  What becomes of a frame is the business of NewsIntake.           *)
(***************************************************************************)
EXTENDS Naturals, Sequences

CONSTANTS
    Source,         \* the sources that have a task
    BackoffLadder   \* WS_BACKOFF_LADDER_SECONDS

ASSUME LadderAssumption ==
    /\ BackoffLadder \in Seq(Nat) /\ Len(BackoffLadder) > 0
    /\ \A j, k \in 1..Len(BackoffLadder) : j < k => BackoffLadder[j] < BackoffLadder[k]

VARIABLES
    conn,       \* where the task is: "connecting", "open", "waiting", "stopped"
    failures,   \* consecutive_failures; it saturates where the ladder ends
    got,        \* has this session delivered a frame?
    delay,      \* the backoff of the last session
    stop,       \* "no", "asked", or "done" once stop() has returned
    dead,       \* history: sessions in a row that never connected
    silent      \* history: sessions in a row that delivered no frame

pushVars == <<conn, failures, got, delay, stop, dead, silent>>

TopRung == Len(BackoffLadder)
Up(n) == IF n < TopRung THEN n + 1 ELSE TopRung

PushTypeOK ==
    /\ conn \in [Source -> {"connecting", "open", "waiting", "stopped"}]
    /\ failures \in [Source -> 0..TopRung]
    /\ got \in [Source -> BOOLEAN]
    /\ delay \in [Source -> {BackoffLadder[k] : k \in 1..TopRung}]
    /\ stop \in {"no", "asked", "done"}
    /\ dead \in [Source -> 0..TopRung] /\ silent \in [Source -> 0..TopRung]

PushInit ==
    /\ conn = [s \in Source |-> "connecting"]
    /\ failures = [s \in Source |-> 0]
    /\ got = [s \in Source |-> FALSE]
    /\ delay = [s \in Source |-> BackoffLadder[1]]
    /\ stop = "no"
    /\ dead = [s \in Source |-> 0] /\ silent = [s \in Source |-> 0]

(* _backoff_seconds *)
Backoff(n) == BackoffLadder[IF n = 0 THEN 1 ELSE n]

(* Mutant: a failed attempt clears the count. *)
FailuresForgotten(s) == 0

FailuresAfter(s) == IF got[s] THEN 0 ELSE Up(failures[s])

(* _mark_connected, on every transport. *)
Connect(s) ==
    /\ conn[s] = "connecting" /\ stop = "no"
    /\ conn' = [conn EXCEPT ![s] = "open"]
    /\ failures' = [failures EXCEPT ![s] = 0]
    /\ dead' = [dead EXCEPT ![s] = 0]
    /\ UNCHANGED <<got, delay, stop, silent>>

Frame(s) ==
    /\ conn[s] = "open" /\ stop = "no"
    /\ got' = [got EXCEPT ![s] = TRUE]
    /\ silent' = [silent EXCEPT ![s] = 0]
    /\ UNCHANGED <<conn, failures, delay, stop, dead>>

(* A session is over: refused, closed by the server, or dropped.            *)
EndSession(s) ==
    /\ conn[s] \in {"connecting", "open"}
    /\ stop = "no"
    /\ failures' = [failures EXCEPT ![s] = FailuresAfter(s)]
    /\ delay' = [delay EXCEPT ![s] = Backoff(FailuresAfter(s))]
    /\ conn' = [conn EXCEPT ![s] = "waiting"]
    /\ dead' = [dead EXCEPT ![s] = IF conn[s] = "connecting" THEN Up(@) ELSE @]
    /\ silent' = [silent EXCEPT ![s] = IF got[s] THEN @ ELSE Up(@)]
    /\ UNCHANGED <<got, stop>>

(* The backoff has passed. *)
Wake(s) ==
    /\ conn[s] = "waiting" /\ stop = "no"
    /\ conn' = [conn EXCEPT ![s] = "connecting"]
    /\ got' = [got EXCEPT ![s] = FALSE]
    /\ UNCHANGED <<failures, delay, stop, dead, silent>>

(* stop() up to its first await: the event, and a cancel for every task.    *)
AskStop ==
    /\ stop = "no"
    /\ stop' = "asked"
    /\ UNCHANGED <<conn, failures, got, delay, dead, silent>>

(* Mutant: a task asleep in its backoff is not woken. *)
TaskEndsUnlessAsleep(s) ==
    /\ stop = "asked"
    /\ conn[s] \in {"connecting", "open"}
    /\ conn' = [conn EXCEPT ![s] = "stopped"]
    /\ UNCHANGED <<failures, got, delay, stop, dead, silent>>

(* The task ends: cancelled at its await, or it sees the event first.       *)
TaskEnds(s) ==
    /\ stop = "asked"
    /\ conn[s] # "stopped"
    /\ conn' = [conn EXCEPT ![s] = "stopped"]
    /\ UNCHANGED <<failures, got, delay, stop, dead, silent>>

StopReturns ==
    /\ stop = "asked"
    /\ \A s \in Source : conn[s] = "stopped"
    /\ stop' = "done"
    /\ UNCHANGED <<conn, failures, got, delay, dead, silent>>

Task(s) == Connect(s) \/ Frame(s) \/ EndSession(s) \/ Wake(s) \/ TaskEnds(s)

PushNext == (\E s \in Source : Task(s)) \/ AskStop \/ StopReturns

(* A task that may go on does; nobody has to stop the channel, and no source *)
(* has to connect or to deliver.                                             *)
PushFairness ==
    /\ \A s \in Source : WF_pushVars(Wake(s)) /\ WF_pushVars(TaskEnds(s))
    /\ WF_pushVars(StopReturns)

PushSpec == PushInit /\ [][PushNext]_pushVars
PushFairSpec == PushSpec /\ PushFairness

-----------------------------------------------------------------------------
(* What the reconnect loop promises. *)

(* A source that does not answer climbs the ladder: its wait is never        *)
(* shorter than its attempts in a row call for, whatever came before them.   *)
DeadSourceIsThrottled ==
    \A s \in Source : conn[s] = "waiting" /\ dead[s] > 0 => delay[s] >= BackoffLadder[dead[s]]

(* No source is ever given up: it is back from every backoff, until the      *)
(* channel is stopped, and stop() returns.                                   *)
WaitEnds ==
    /\ \A s \in Source : conn[s] = "waiting" ~> conn[s] \in {"connecting", "stopped"}
    /\ stop = "asked" ~> stop = "done"

(* "counting it lets backoff throttle the otherwise-hot reconnect loop":     *)
(* sessions in a row that deliver nothing climb the ladder too.              *)
SilentSourceIsThrottled ==
    \A s \in Source : conn[s] = "waiting" /\ silent[s] > 0 => delay[s] >= BackoffLadder[silent[s]]

=============================================================================
