------------------------------ MODULE Lifespan ------------------------------
(***************************************************************************)
(* One life of the sidecar (src/catchem/api.py lifespan, supervisor.py):   *)
(* the supervisor opens the store and two worker pools, then poller, push  *)
(* channel and archiver start one after the other, each of them only if    *)
(* the settings enable it; whatever happens they are stopped in the        *)
(* opposite order and the supervisor is closed last.  Ingest threads are   *)
(* in the middle of process_capture meanwhile and cannot be cancelled;     *)
(* high-score rows become webhook posts on a pool of their own, counted    *)
(* one counter at a time.                                                  *)
(*                                                                         *)
(* What a component does while it runs is the business of its own module.  *)
(***************************************************************************)
EXTENDS Naturals, Sequences, FiniteSets

CONSTANTS
    Worker,         \* threads that may be in process_capture
    PoolSize,       \* workers of the webhook pool
    MaxAlerts,      \* bound: alerts attempted
    MaxPatches      \* bound: patches of the webhook configuration

StartOrder == <<"poller", "channel", "archiver">>
Component == {StartOrder[k] : k \in 1..Len(StartOrder)}
Ingesting == {"poller", "channel"}

ASSUME LifespanAssumption ==
    /\ IsFiniteSet(Worker)
    /\ PoolSize \in Nat \ {0} /\ MaxAlerts \in Nat /\ MaxPatches \in Nat

VARIABLES
    phase,      \* "off", "starting", "up", "stopping", "ended"
    enabled,    \* the components the settings enable
    at,         \* the next of StartOrder
    built,      \* the globals that are set
    running,    \* components with a live task or worker
    supervisor, \* "none", "open", "closed"
    worker,     \* "free", "scored", "stored", "counted"
    webhook,    \* settings.webhook: [on, url], url of "none", "good", "bad"
    patches,
    queue,      \* submitted alerts no worker has taken
    posting,    \* alerts whose post is under way
    stats,      \* webhook_stats
    dropped     \* history: alerts refused by a closed pool, or cancelled with it

lifeVars == <<phase, enabled, at, built, running, supervisor>>
alertVars == <<webhook, patches, queue, posting, stats, dropped>>
spanVars == <<lifeVars, worker, alertVars>>

Count(k) == stats' = [stats EXCEPT ![k] = @ + 1]

SpanTypeOK ==
    /\ phase \in {"off", "starting", "up", "stopping", "ended"}
    /\ enabled \in SUBSET Component /\ at \in 1..Len(StartOrder) + 1
    /\ built \in SUBSET Component /\ running \in SUBSET Component
    /\ supervisor \in {"none", "open", "closed"}
    /\ worker \in [Worker -> {"free", "scored", "stored", "counted"}]
    /\ webhook \in [on : BOOLEAN, url : {"none", "good", "bad"}]
    /\ patches \in Nat /\ queue \in Nat /\ posting \in 0..PoolSize /\ dropped \in Nat
    /\ stats \in [{"attempted", "sent", "filtered", "failed"} -> Nat]

SpanInit ==
    /\ phase = "off" /\ enabled = {} /\ at = 1
    /\ built = {} /\ running = {} /\ supervisor = "none"
    /\ worker = [t \in Worker |-> "free"]
    /\ webhook = [on |-> FALSE, url |-> "none"] /\ patches = 0
    /\ queue = 0 /\ posting = 0 /\ dropped = 0
    /\ stats = [k \in {"attempted", "sent", "filtered", "failed"} |-> 0]

-----------------------------------------------------------------------------
(* The lifespan. *)

(* Settings and supervisor.  The url of a settings file is not vetted. *)
OpenSupervisor ==
    /\ phase = "off"
    /\ phase' = "starting" /\ supervisor' = "open"
    /\ enabled' \in SUBSET Component
    /\ webhook' \in [on : BOOLEAN, url : {"none", "good", "bad"}]
    /\ UNCHANGED <<at, built, running, worker, patches, queue, posting, stats, dropped>>

Starting(c) == phase = "starting" /\ at <= Len(StartOrder) /\ StartOrder[at] = c

(* _build_... gives None for a component that is not enabled. *)
Start(c) ==
    /\ Starting(c)
    /\ at' = at + 1
    /\ IF c \in enabled
       THEN built' = built \cup {c} /\ running' = running \cup {c}
       ELSE UNCHANGED <<built, running>>
    /\ UNCHANGED <<phase, enabled, supervisor, worker, alertVars>>

(* Mutant: the global is assigned when start() has returned. *)
StartFailsUnassigned(c) ==
    /\ Starting(c) /\ c \in enabled
    /\ running' \in {running, running \cup {c}}
    /\ phase' = "stopping"
    /\ UNCHANGED <<built, enabled, at, supervisor, worker, alertVars>>

(* It raises: in its constructor, or in start() with some of it running.     *)
StartFails(c) ==
    /\ Starting(c) /\ c \in enabled
    /\ \/ UNCHANGED <<built, running>>
       \/ built' = built \cup {c} /\ running' \in {running, running \cup {c}}
    /\ phase' = "stopping"
    /\ UNCHANGED <<enabled, at, supervisor, worker, alertVars>>

Yield ==
    /\ phase = "starting" /\ at > Len(StartOrder)
    /\ phase' = "up"
    /\ UNCHANGED <<enabled, at, built, running, supervisor, worker, alertVars>>

BeginShutdown ==
    /\ phase = "up"
    /\ phase' = "stopping"
    /\ UNCHANGED <<enabled, at, built, running, supervisor, worker, alertVars>>

(* The next stop(), last started first.  One that raises, because the task   *)
(* it awaits had raised, is suppressed; that task has ended as well.         *)
StopNext(c) ==
    /\ phase = "stopping" /\ c \in built
    /\ \A k, j \in 1..Len(StartOrder) : StartOrder[j] = c /\ k > j => StartOrder[k] \notin built
    /\ built' = built \ {c} /\ running' = running \ {c}
    /\ UNCHANGED <<phase, enabled, at, supervisor, worker, alertVars>>

(* close(): both pools shut down without waiting, what is queued cancelled,  *)
(* the buffered rows flushed.                                                *)
CloseSupervisor ==
    /\ phase = "stopping" /\ built = {}
    /\ phase' = "ended" /\ supervisor' = "closed"
    /\ dropped' = dropped + queue /\ queue' = 0
    /\ UNCHANGED <<enabled, at, built, running, worker, webhook, patches, posting, stats>>

-----------------------------------------------------------------------------
(* process_capture, in a worker that outlives the stop() of its component.   *)

Ingest(t) ==
    /\ worker[t] = "free"
    /\ running \cap Ingesting # {} /\ supervisor = "open"
    /\ worker' = [worker EXCEPT ![t] = "scored"]
    /\ UNCHANGED <<lifeVars, alertVars>>

(* insert_record commits, or raises and the capture with it.  A store that   *)
(* was closed opens a connection of its own.                                 *)
Store(t) ==
    /\ worker[t] = "scored"
    /\ worker' \in {[worker EXCEPT ![t] = "stored"], [worker EXCEPT ![t] = "free"]}
    /\ UNCHANGED <<lifeVars, alertVars>>

Skip(t) ==
    /\ worker[t] = "stored" /\ ~(webhook.on /\ webhook.url # "none")
    /\ worker' = [worker EXCEPT ![t] = "free"]
    /\ UNCHANGED <<lifeVars, alertVars>>

(* _maybe_dispatch_webhook up to its submit: one lock for one counter. *)
Attempt(t) ==
    /\ worker[t] = "stored" /\ webhook.on /\ webhook.url # "none"
    /\ stats["attempted"] < MaxAlerts
    /\ worker' = [worker EXCEPT ![t] = "counted"]
    /\ Count("attempted")
    /\ UNCHANGED <<lifeVars, webhook, patches, queue, posting, dropped>>

(* A pool that was shut down raises RuntimeError, which is passed over. *)
Submit(t) ==
    /\ worker[t] = "counted"
    /\ worker' = [worker EXCEPT ![t] = "free"]
    /\ IF supervisor = "open"
       THEN queue' = queue + 1 /\ UNCHANGED dropped
       ELSE dropped' = dropped + 1 /\ UNCHANGED queue
    /\ UNCHANGED <<lifeVars, webhook, patches, posting, stats>>

(* Mutant: an alert that is filtered is not counted. *)
TurnDownUncounted ==
    /\ queue > 0 /\ posting < PoolSize
    /\ queue' = queue - 1
    /\ \/ (webhook.on => webhook.url # "bad") /\ UNCHANGED stats
       \/ webhook.on /\ webhook.url = "bad" /\ Count("failed")
    /\ UNCHANGED <<lifeVars, worker, webhook, patches, posting, dropped>>

(* _webhook_runner: the configuration is read when the worker runs.  Off, no *)
(* url, or a row the score floor or a label filter turns down: "filtered". A *)
(* url that was never good: "invalid_url".                                   *)
TurnDown ==
    /\ queue > 0 /\ posting < PoolSize
    /\ queue' = queue - 1
    /\ \/ (webhook.on => webhook.url # "bad") /\ Count("filtered")
       \/ webhook.on /\ webhook.url = "bad" /\ Count("failed")
    /\ UNCHANGED <<lifeVars, worker, webhook, patches, posting, dropped>>

BeginPost ==
    /\ queue > 0 /\ posting < PoolSize
    /\ webhook.on /\ webhook.url = "good"
    /\ queue' = queue - 1 /\ posting' = posting + 1
    /\ UNCHANGED <<lifeVars, worker, webhook, patches, stats, dropped>>

(* Below 400 it was sent; a timeout, an error, or a status from 400 failed.  *)
EndPost ==
    /\ posting > 0
    /\ posting' = posting - 1
    /\ Count("sent") \/ Count("failed")
    /\ UNCHANGED <<lifeVars, worker, webhook, patches, queue, dropped>>

(* POST /api/webhook/config, key by key: a url that is turned down ends the  *)
(* request with a 422 and leaves what came before it applied.                *)
PatchWebhook(on, url) ==
    /\ phase = "up" /\ patches < MaxPatches
    /\ patches' = patches + 1
    /\ webhook' = [on |-> on, url |-> IF url = "bad" THEN webhook.url ELSE url]
    /\ UNCHANGED <<lifeVars, worker, queue, posting, stats, dropped>>

SpanNext ==
    \/ OpenSupervisor \/ Yield \/ BeginShutdown \/ CloseSupervisor
    \/ \E c \in Component : Start(c) \/ StartFails(c) \/ StopNext(c)
    \/ \E t \in Worker : Ingest(t) \/ Store(t) \/ Skip(t) \/ Attempt(t) \/ Submit(t)
    \/ TurnDown \/ BeginPost \/ EndPost
    \/ \E on \in BOOLEAN, url \in {"none", "good", "bad"} : PatchWebhook(on, url)

SpanSpec == SpanInit /\ [][SpanNext]_spanVars

-----------------------------------------------------------------------------
(* What a life promises. *)

(* "Startup must be all-or-nothing": when the life is over, or its start has *)
(* failed, nothing runs; and the supervisor is never closed under a          *)
(* component that still runs, for the flush must be the last word.           *)
DownMeansDown ==
    /\ phase = "ended" => built = {} /\ supervisor = "closed"
    /\ supervisor # "open" => running = {}

(* "This lock serialises every mutation (and snapshot)": every alert that    *)
(* was attempted is somewhere, in one place, at every moment: an outcome, in *)
(* the queue, on the wire, on its way into the pool, or given up with it.    *)
AlertsAddUp ==
    stats["attempted"] =
        stats["sent"] + stats["filtered"] + stats["failed"] + queue + posting + dropped
        + Cardinality({t \in Worker : worker[t] = "counted"})

=============================================================================
