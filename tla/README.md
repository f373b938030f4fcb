# catchem, specified

TLA+ specifications of the parts of catchem that are hard to test: what several threads and
asyncio tasks do to one SQLite database, to the files beside it and to a handful of in-memory
caches while reads and writes fail, the process dies and settings change; and what the reports
computed from the rows say when rows arrive late, twice, undated or in any order. TLC checks each
module on a small instance; TLAPS proves every invariant and every action property of the passing
runs for every value of the constants, some under hypotheses that section 5 names.

Paths below are relative to `src/catchem/` inside the repository's `src/` directory unless they
start elsewhere. `PROJECT.json` names, for every definition that models code, the lines it models.

    tlc -workers 2 -config Archive.cfg MCDriveArchiver     # one run
    tlapm DriveArchiverProofs.tla                          # one proof module

Contents: 1 the system; 2 the modules; 3 the runs; 4 fairness; 5 what is proved; 6 what is only
model-checked; 7 claims of the source the code does not keep; 8 abstractions; 9 not modelled.

## 1. The system

catchem collects financial news, scores every article and shows the result. One Python process
serves HTTP (FastAPI on an asyncio loop), polls feeds, listens to push sources, and drains old rows
to a directory on the user's drive. A desktop shell (Tauri) starts and stops that process.

    feeds ──> NewsPoller ──┐                                       ┌──> Parquet export
    push  ──> WebSocket ───┼─> Supervisor.process_capture ─> Storage (SQLite) ──> QuantEngine cache
    files ──> ReplayRunner ┘        │ scoring, vector file        │   ^
                                    └─> webhook, 2nd opinion      │   └── offsets, dlq, reviews, tags
                                         (ReviewerRegistry)       └──> DriveArchiver ──> daily CSV

| Component | State it keeps | Operations | Talks to |
|---|---|---|---|
| Record store (`storage.py`) | SQLite tables `records`, `record_labels`, `record_tags`, `offsets`, `dlq`, `reviews`; `_pending_rows`; a lock and a pool of connections | insert_record (upsert, index rebuild, buffer, rotation), tag edits, flush, close | called by everything, under `_lock` |
| Drive archiver (`archive.py`) | `_run_lock`, `_stop`, `_task`, `_drive_dir`; CSV files; `.npy` vectors it purges | `_run` (tick), `archive_now`, `_archive_once`, start, stop | takes `Storage._lock` around SELECT–append–DELETE and around the purge |
| Vector index (`embeddings.py`) | one `.npy` per capture | save (before the row is inserted, without the lock), delete | service, archiver |
| News poller, dedup (`news_poller.py`) | `_seen` (LRU of canonical urls), `_seen_titles`, `_lock` | tick, poll_now, probe, ingest pool, rollback | store |
| News poller, schedule (`news_poller.py`) | `feed_health`, `_feed_next_due_cycle`, `_poll_cycle` | choice of feeds, breaker, cadence | held under the same `_lock` |
| Push channel (`ws_push.py`) | its own `_seen`, one task and one `_SourceState` per source | connect, frame, backoff, stop | store |
| Replay and tail (`awareness_replay.py`, `awareness_reader.py`, `supervisor.py`) | offsets (durable), `ReplayOffset` (local) | run_once, tail, POST /replay | store, dlq, webhook |
| Review budget (`reviewers/registry.py`) | `_cached_spent_usd`, shared mutable settings, `reviews` rows | paid calls, settings PATCH, invalidation | store, provider |
| Quant cache (`quant/engine.py`) | `_cache`, `_pending_events` | `_cached`, invalidate | store; called by request threads and a pool |
| Supervisor (`supervisor.py`, `webhook.py`) | two thread pools, webhook counters | process_capture, run_replay, close | all of the above |
| HTTP API (`api.py`) | singletons of the components, two response caches | handlers, lifespan, database import | all of the above |
| Migrations (`migrations.py`) | `user_version` | apply_migrations at start | store |
| Rate limiter (`rate_limit.py`) | buckets per client | allow | API |
| Scoring pipeline (`service.py` and the stages it calls) | none | a capture to a record | store, vector index |
| Quant signals (`quant/*.py`) | none; their answers sit in the quant cache | a list of rows to a report | quant cache |
| Read models (`api.py`, `dashboard_data.py`), portfolio, gaps, golden set, backtest | none | rows, reviews and feeds to panels and exports | store, poller |
| Desktop shell, boot page (`desktop/…`) | child process, port, boot token | start, stop, restart, health poll | API over HTTP |
| React UI (`frontend/…`) | live stream, merged pages, alerts | hooks | API |
| Feed packs, market data, settings, CLI, … | none that is shared | data, single statements | — |

`PROJECT.json` lists all components, the ones that are not modelled with the reason.

**What makes it hard.** (a) *Interleaving*: `_archive_once` runs on pool threads (tick and
`/ui/archive-now`) beside ingest threads; `asyncio.Lock` protects the poller's memories across
awaits; push sources have no lock at all and rely on there being no await between a look and an
add; request threads meet in `_cached`. (b) *Partial failure*: an append that stops half way, a
DELETE after the fsync, a rotation inside an insert, an ingest that fails after its url and title
were remembered, a paid call whose row cannot be written. (c) *Restarts*: the memories and
`feed_health` are gone, offsets and rows are not; a boot dies between the statements of a migration
and the bump of its version; an import swaps the file under open connections. (d) *Limits*: LRU
evictions during the pass that counts on them, the cut between live tier and overflow, ladders,
windows, a cap asked before and booked after a call of seconds. (e) *Late and repeated data*: every
report is recomputed over a corpus whose rows have times of their own, so that each of them has a
grid, a window and a rule for ties and missing dates, and several count the same rows in different
loops.

**What makes each part correct**, in a sentence, with the property that says so:

- store: the inverted index and the tags describe exactly the rows, no row misses the export
  (`StoreAgrees`), reprocessing keeps tags (`TagsSurviveReprocess`);
- archiver: no committed capture is lost (`NoCaptureLost`, `ImplementsLedger`), what is deleted is
  what was selected (`SnapshotIsCurrent`), a daily file repeats nothing (`OneLinePerFile`), the
  newest rows stay (`NewestStay`), vectors of live rows stay (`LiveVectorKept`), stop waits for the
  sweep (`StopDrainsSweeps`), a backlog drains (`BacklogDrains`);
- poller and push: nothing stays suppressed behind an ingest that failed (`TitlesHaveLanded`,
  `NothingSuppressed`, `ServedStoryLands`), nothing is processed twice within a channel
  (`NoReprocess`, `OneFlightPerUrl`), one story per title window (`OneStoryPerWindow`);
- schedule: health and schedule of a feed agree, the breaker opens with the streak that completes,
  a feed sits out its own emptiness only (`ScheduleAgrees`), the ladder is climbed (`LadderClimbs`),
  and no feed is ever silent for good (`FeedsNeverSilent`);
- push connections: `DeadSourceIsThrottled`, `WaitEnds`;
- a life of the process: whatever starts is stopped in the opposite order before the supervisor
  closes (`DownMeansDown`), every alert is accounted for (`AlertsAddUp`);
- the database file: the version never claims what the schema lacks (`SchemaCoversVersion`), an
  import never costs a row its backup does not have (`ImportIsRecoverable`);
- rate limiter: `BurstBounded`;
- replay: `NothingSkipped`, `AlertedOnce`, `EveryLineSettles`;
- budget: `CacheCoversTable`, `OvershootBounded`;
- quant cache: `SingleFlight`, `EveryRequestEnds`, `StalenessBounded`;
- events: the clusters tile the rows, the leader was first, novelty is what it says (`EventsAgree`),
  and news that comes last regroups nothing (`LateNewsOnlyExtends`);
- signals, pipeline, audits and panels: totals are what the rows add up to (`BooksBalance`), good and
  bad news are judged alike (`MirrorNews`), two parts that say the same thing agree
  (`ReportsAgree`), and a late, undated or repeated row keeps to its place (`NewRowKeepsItsPlace`).

## 2. The modules

| Module | Models | State | Actions |
|---|---|---|---|
| `RecordStore` | `storage.py` writes | `records[id]` (the version a row holds, 0 for none), `labels`, `tags`, `pending` (`_pending_rows`), `parquet`, history `committed`, `lost` | `BuildRow`, `InsertRecord`/`InsertFails` (transaction and rotation), `DeleteRecords`, `AddTag`/`RemoveTag`, `Flush`, `LoseBuffer` |
| `CaptureLedger` | nothing: the abstract promise of the drain | `live`, `filed` | `Admit`, `File`, `Release` (only filed captures) |
| `DriveArchiver` (extends `RecordStore`) | `archive.py` composed with ingest, vectors, tags, teardown, crashes | CSV lines with their number of copies, `synced`, `torn`, both locks, `pc` of each sweep, `phase` of the process | one action per step of `_archive_once`: `Dispatch`, `EnterSweep`, `SelectBatch`, `WriteCsv`/`WriteFails`, `DeleteBatch`/`SqliteFails`, `BeginPurge`, `ExamineVector`, `UnlinkVector`, `EndSweep`; `StoreRecord`, `Midnight`, `BeginStop`, `Drained`, `CloseStore`, `Restart` |
| `NewsPoller` | dedup, ingest pool, rollback | the two LRU memories, the pass that holds `_lock`, its batch and outcomes, clock, rows | `StartPass` (fetch and filter loop), `AbortPass` (a read raises), `Ingested`/`IngestFails`, `EndPass`, `DrainRow`, `RestartPoller` |
| `NewsIntake` (extends `NewsPoller`) | the poller and the push sources on one store | `wsSeen`, `flight[source]` | `SkipFrame`, `FrameReadFails`, `AcceptFrame`, `FrameIngested`, `FrameFails`, and the poller's |
| `FeedSchedule` | circuit breaker and adaptive cadence | per feed: errors, cooldown left, empties, cycles left, `ok`, `backedOff` | `BeginTick`, `EndTick`, `AbortTick`, `BeginProbe`, `EndProbe`, `ClockTick` |
| `PushReconnect` | the connection loop of `ws_push.py` | per source: state, failures, wait | `Connect`, `Frame`, `EndSession`, `Wake`, `AskStop`, `TaskEnds`, `StopReturns` |
| `Replay` | passes over capture files | files, offsets, stored and dead-lettered captures, per runner its place | `StartPass`, `OpenFile`, `HandleOk`/`HandleFails`, `GoOn` (periodic save), `SaveAndStop` (limit), `EndFile`, `EndPass`, `Abandon`; external `AppendLine`, `Rewrite` |
| `ReviewBudget` | spend guard | review rows, narrative ledger, cached total, settings, calls in progress | `Ask`, `CheckBudget`, `Answer`, `CallFails`, `StoreReview`, `BumpCache`, `AddSpend`, `PersistError`, `StoreFails`, `WriteSettings`/`InvalidateCache`, `ReadBudget`, `ReportStatus`, `Restart` |
| `QuantCache` | `_cached` and `invalidate` | entries with age, registered builders, request threads | `Look`, `Enrol`, `Woken`, `BuildAlone`, `Build`, `Publish`, `ReadFails`, `Reply`, `Invalidate`, `Tick` |
| `Lifespan` | the lifespan of `api.py`, the supervisor's ingest path and webhook pool | phase, components built and running, ingest threads, webhook configuration, queue, posts, counters | `OpenSupervisor`, `Start`/`StartFails`, `Yield`, `BeginShutdown`, `StopNext`, `CloseSupervisor`; `Ingest`, `Store`, `Skip`, `Attempt`, `Submit`; `TurnDown`, `BeginPost`, `EndPost`; `PatchWebhook` |
| `TruthStore` | `migrations.py`, the bootstrap script, `db_import` | the file, its WAL, the boot's next statement, which file the pooled connections hold, the import's place, backups | `Boot`, `RunStatement`, `Bump`, `Down`, `Insert`, `Checkpoint`; `Stage`, `FoldForBackup`, `Backup`/`BackupFails`, `Swap`, `UnlinkSidecars`; external `Restore` |
| `RateLimit` | `TokenBucket.allow` | the clock each request read, tokens, `last_refill` | `Arrive` (the clock, before the lock), `Allow` (under it), `Pass` |
| `EventSignals` | `event_clustering.py`, `lead_lag.py`, `novelty.py` | the table, newest first, and the cached clusters | `Capture`, `RefreshClusters`; the reports are operators |
| `Corpus` | what every other report is computed from | a bag of rows and the report asked for | `Capture` |
| `SurgeSignals` | `anomaly.py`, `spillover.py`, `news_velocity.py`, `topic_regime.py` | — | operators over the bag |
| `SentimentSignals` | `sentiment_momentum.py`, `sentiment_dispersion.py`, `intensity.py`, `global_tone.py` | — | operators |
| `MixSignals` | `co_occurrence.py`, `symbol_correlation.py`, `source_reliability.py`, `persistence.py`, `market_time.py`, `arrival_heatmap.py`, `market_reaction.py` | — | operators |
| `Pipeline` | `service.py` with `finance_filter.py`, `zero_shot_classifier.py`, `entity_linker.py`, `symbol_mapper.py`, `sentiment.py`, `scoring.py`, `channel_mapper.py`, `evidence.py`, `reranker.py` | — | operators; the bag is the sentences of one capture |
| `Audits` | `awareness_gaps.py`, `portfolio.py`, `golden.py`, `backtest.py` | — | operators |
| `Views` | the panels, exports and status pages of `api.py`, `dashboard_data.py`, the read queries of `storage.py`, the grouping of feeds | — | operators |
| `Reports` | nothing of its own: it joins the report modules over one `Corpus` | — | their properties, conjoined into `BooksBalance`, `ReportsAgree`, `NewRowKeepsItsPlace` |

A step is atomic in the model when the code runs it under one lock or without an await, or when
nothing another actor can see happens in between. A step that the code splits is split: the sweep is
nine steps though two locks cover it, because a crash, a failing write or an insert that waits for
the lock may come at each; a paid call is asked, checked, answered, written and booked separately;
a cached call looks up, enrols under the lock, builds outside and publishes under it again; a
migration commits statement by statement; an import checkpoints, copies, swaps and unlinks.

The report modules are pure functions of rows, written as operators over a bag (`Corpus`) or a table
(`EventSignals`) that grows by one row a step, so that an action property can compare a report
before and after a row arrives. Statistics are exact: a z-score is compared by squares, a mean is
kept as a multiple of a common unit, Pearson's r as the sign and square of a fraction. Word lists,
regular expressions and models are a lexicon of the instance: what the stages know of a word.

The `MC…` modules add model values, ladders, rows and symmetry for TLC. `MCSidecar` puts six small
machines that share no variable side by side: `part`, chosen at the start, says which one moves.
`MCSignals` gives each report its rows. `…Proofs` modules hold
the theorems, and `Counting` the facts about sums and counts over finite sets that they share. Operators next to a definition whose comment begins with "Mutant" are plausible bugs
of that definition; `PROJECT.json` pairs each property with one that breaks it.

## 3. The runs

States are distinct states found; times are of two workers.

| Run | Instance | States | Time |
|---|---|---|---|
| `archive` | two captures, three record versions, two sweep threads, two directories, two ingests at a time, one crash, live tier of one row, one row per sweep; appends fail between lines, vectors may fail to save | 1.43 M | 90 s |
| `archive_liveness` | one sweep thread over midnight, three versions, read-backs of the CSV may fail | 234 k | 40 s |
| `poller_dedup` | three articles (two share a title, two a url), url memory of two, title memory of one, window of one unit, three items per pass, reads may raise | 39 k | 20 s |
| `news_intake` | three articles at two urls, two push sources, two items per pass, title dedup off | 61 k | 70 s |
| `sidecar` | six machines, below | 459 k | 150 s |
| `replay` | one file of two lines, two captures, two runners with a limit of two, one replacement in place | 2.88 M | 30 s |
| `replay_liveness` | two files, one capture per pass, live tail | 155 k | 10 s |
| `review_budget` | two payers, one capture, calls cost up to 2, caps 1 and 2, 7 billed in all | 1.13 M | 15 s |
| `quant_cache` | two requests for lead-lag over clusters over records, TTL 2, calls up to one tick late | 5.09 M | 55 s |
| `events` | four captures in three texts of two outlets, each dated before, at or after the others or not at all; a report sees the newest three | 199 k | 45 s |
| `signals` | twenty-odd small alphabets of rows, one per report, and every bag of up to six of them (three to seven where a case needs fewer or more) | 60 k | 85 s |
| `archive_torn_line` | as `archive`, one thread, and a write may stop in the middle of a line | violation | 4 s |

**What they show, and why the bounds are enough.**

- `archive`. The smallest instance in which a capture is archived, ingested again and archived
  again (three versions of two captures), while another one makes it overflow; a second sweep
  thread waits for `_run_lock`; an insert waits for `Storage._lock`; the fallback directory takes over
  and hands back; and a crash comes at any step of any of them. A live tier and a batch of one are
  the boundary cases of the cut. The proofs remove the bounds for every safety property of the run. `VIEW HideExport` leaves Parquet and tag-edit history out of the state for this run:
  no property of it reads them, and `archive_liveness` looks at them.
  `OneLinePerFile` needs `FlakyReads = FALSE`: `_archived_capture_ids` answers an unreadable file with
  the empty set, on purpose, and rows are then appended again; nothing is lost by that
  (`NothingLost` is proved for both values).
- `archive_liveness`. Two days, so that a backlog survives midnight and a file that will not be
  read again; failing inserts, rotations and DELETEs; a stop at any time.
- `poller_dedup`. One title fills a title memory of one and is rolled back, expires and comes again;
  a pass of three items is the longest for which a url memory of two keeps `NoReprocess`
  (`PassesCorrect` proves it for `MaxServed <= SeenCap + 1`); the window is closed at
  exactly its length (`TitleWindow = 1`, three clock units). `DrainRow` takes rows away under the
  poller, as the archiver does. `RestartPoller` forgets both memories at any moment.
- `news_intake`. Two sources meet each other and a pass of the poller on one url, every ingest may
  fail and every look at the store may raise on the push side. Title dedup is off here because it
  belongs to the poller alone and `poller_dedup` has it.
- `sidecar`. Six machines of one process that share no variable, so that interleaving them would
  only multiply states; each behaviour moves one of them (`part`), and is a behaviour of that
  machine's own specification.
  - *Feeds*: threshold 3, cooldowns 1, 2, 4, cadences 1, 2, 3 and 4. Three rungs and three steps are
    the first, a middle and the last of each ladder, and counters run one step beyond the last,
    where they saturate. Two feeds share the lock, so a probe of one and a tick over both
    interleave. The last interval of the cadence ladder differs from the one past its end.
  - *Push*: ladder 1, 2, 5; two sources so that `stop()` awaits one while the other is in any state.
  - *One life*: two ingest threads, a webhook pool of one, two alerts (one posts while the other is
    queued), one patch of the configuration, and a `start()` that fails at any of the components.
  - *Database file*: two rows, three scripts (bootstrap, empty baseline, a table with its index), two
    old snapshots (from before the versions, and one cut short inside version 2), one backup, one
    crash at any statement or file operation. An import needs one row committed before its
    checkpoint and one after.
  - *Bucket*: two requests of one client, capacity 3, costs 1 and 3, four units of time: one overtakes
    the other between the clock and the lock.
  - *Quant cache*: two requests over two levels and a store that may raise: one thread builds and one
    waits or arrives late; the event is set with no value, and the waiter builds alone.
- `replay`. Two runners read the same offset and save theirs in any order; a limit of two ends a
  pass in the middle of a file, and two lines suffice for a save between them. `NothingSkipped`
  speaks of files that only grow; the replacement is there for `AlertedOnce` and the divergence in
  section 7.
- `review_budget`. Two threads are the pool's size; caps 1 and 2 with calls up to 2 let one call
  jump over either cap, two let them both be out at once; 7 units leave room for reviews after the
  cap was raised. The same run with two captures and 5 units (5.8 M states) passes as well.
- `quant_cache`. Three levels are the longest chain in the code; the bound
  `Levels * (TTL - 1 + 2 * MaxLate) + MaxLate` is reached, so it is tight, and `StalenessCorrect` proves it for every chain. The run is about a store that
  always answers (`SteadySpec`): a read that raises hands its waiters an entry of any age (section 7).
  The quant cache of `sidecar` runs `QuantSpec`, in which any read may raise.
- `events`. Three rows in sight of four: a row leaves the report while the cached clusters still
  name it. The similarity threshold is met exactly by one pair; a row is dated
  before, at or after its arrival, or not at all, and then counts as published when it was captured.
- `signals`. An alphabet holds the rows that differ in what its report looks at, at the values where
  the code branches: ties and signs, a score at a threshold, the last minute of a session, a time
  beyond either end of a window, a missing date, label or quote, a word in two lexica, a text told
  twice. Six rows fill a bucket, a pair and a baseline and leave one over. Rows arrive in every
  order, so the action property meets each bag with each last row.

Every property is broken by the mutants `PROJECT.json` pairs with it, under its own run's instance:
the bounds are large enough for the fault to show. A property that joins those of several modules
has a mutant in each of them.

`CHECK_DEADLOCK FALSE` stands where the system may stop: a closed process whose crashes are used up
(`archive`, `archive_liveness`, `archive_torn_line`), a poller whose clock or
items are at their bound (`poller_dedup`, `news_intake`), a stopped channel, an ended life or a clock
at its bound (`sidecar`), a full corpus (`events`, `signals`).

## 4. Fairness

- `DriveArchiver.FairSpec`: `_run` loops until stop and sweeps every interval (WF of `Dispatch`),
  pool threads run (WF of the steps that cannot fail), and an append, a SELECT or a DELETE that is
  tried again and again succeeds at last (SF of `SelectBatch`, `WriteCsv`, `DeleteBatch`). That is an
  assumption on the drive and on SQLite, the one archive.py makes ("transient outage"); the code
  contributes the retries. `BacklogDrains` lets a stop end the promise.
- `NewsIntake.IntakeFairSpec`: feeds serve each item again and again (SF of a tick that serves it),
  an ingest comes to an end one way or the other (WF), an item ingested again and again gets through
  (SF), a pass ends after its ingests (WF). Nothing is assumed of push sources, and restarts are
  not excluded.
- `FeedSchedule.ScheduleFairness` (in `MCSidecar` of the behaviours about feeds): SF of `BeginTick`, because the loop waits at most its interval and
  `asyncio.Lock` wakes waiters in order, so probes cannot keep the tick out; WF of the ends and of the
  clock.
- `PushReconnect.PushFairness`: WF of `Wake` (asyncio.sleep ends), `TaskEnds` and `StopReturns`. No source
  has to answer.
- `Replay`: WF of starting a pass and of its steps; `EveryLineSettles` assumes that from some time on
  passes are no longer killed in the middle (`Uninterrupted`).
- `QuantCache.QuantFairness`: WF of the steps of each request thread, a raising read among them; it may
  raise every time.
- Nothing is assumed of `Lifespan`, `TruthStore`, `RateLimit` and the reports: what is said of them is
  safety.

## 5. What is proved

Assumptions are the named `ASSUME`s of the modules (constants are numbers, caps are positive, a model
value is not one of the things it stands apart from, ladders are not empty and climb, the paths of a
replay and the words of a row are finite sets, and a cached value is built from values of lower levels
only: `LevelsAssumption`, the call graph of `engine.py`), which TLC evaluates in every run. Those of
the report modules say what a row may hold (times and scores are integers, labels finite sets) and
what names one: no two rows share a number, as no two share an id in their table. `PipelineAssumption` adds that
the classes and reasons in use are those of the shipped taxonomy, and that a symbol is on the
denylist or not, however it is written. All theorems hold for every size of every set, and for every bound. A theorem that needs more says so in
its own ASSUME; the instance of its run meets it.

| Module | Theorems | Argument |
|---|---|---|
| `DriveArchiverProofs` | `StoreCorrect`: `StoreAgrees` (`IndexFollowsRecords` and `NoExportGap`) and types. `TagsKept`: `TagsSurviveReprocess` | `StoreInv`, these three together, is inductive over `StoreStep`, the steps of the store under *any* use of it |
| | `ArchTypeCorrect`, `SnapshotCorrect`, `StopDrains`, `LiveVectors` | `LockInv` = types, `LockDiscipline` (who is between SELECT and DELETE or purging owns `Storage._lock`; who sweeps owns `_run_lock`), `DoomedIsAbsent`, `SnapshotIsCurrent` |
| | `SystemUsesStore`: the composed system implements `RecordStore`; `StoreInSystem`: what is proved of the store holds in it | rows in flight were built (`InflightIsBuilt`), so every step of the system is a step of the store or leaves it alone |
| | `NothingLost` (`NoCaptureLost`), `Refinement` (`ImplementsLedger`), both for `TornWrites = FALSE` | `ArchInv` = `LockInv` and: rows and lines have a common past, fsynced lines are readable, no stump, and `DeleteIsSafe`: a sweep about to delete has filed its whole batch |
| | `AppendIdempotent` (`OneLinePerFile`), for `FlakyReads = FALSE`; `LiveTierStays` (`NewestStay`) | `OneLinePerFile` is inductive beside `LockInv`: an append leaves out what its read-back found. No two rows have one version (`VersionsAreUnique`), so the rows selected are few and each has `LocalCap` newer ones, which stays true until the DELETE because nobody else changes the table under the lock (`BatchIsOverflow`) |
| `ReviewBudgetProofs` | `BudgetTypeCorrect`, `CacheCorrect`, `OvershootCorrect` | `BudgetInv` = types, `CacheCoversTable`, `OvershootBounded`. Sums over workers and captures are a recursive function; lemmas bound them and say what changing one term does, by induction on the length (a least counterexample, since the induction theorems of the library take an operator) |
| `SidecarProofs` | `SchemaCorrect` (`SchemaCoversVersion`), `ImportCorrect` (`ImportIsRecoverable`) | `SchemaInv` adds where a boot is: in the script above the version, behind the statements that ran (`BootIsInOrder`), in the file and in every backup. `ImportInv` says what each stage of an import has secured of the rows that had committed at its checkpoint |
| | `SpanTypeCorrect`, `DownCorrect` (`DownMeansDown`), `AlertsCorrect` (`AlertsAddUp`) | `LifeInv`: what runs was built, and the phases say who is there. `AlertsInv` needs the types of the counters only; lemmas count the threads between two counters |
| | `RateTypeCorrect`, `BurstCorrect` (`BurstBounded`) | `BucketInv`: granted plus left is at most what the bucket held and was credited for, with the time credited twice when `last_refill` goes back kept in a history variable |
| | `PushTypeCorrect`, `BackoffCorrect` (`DeadSourceIsThrottled`) | `BackoffInv`: the wait of a source is the rung its failures call for |
| | `ScheduleCorrect` (`ScheduleAgrees`), `LadderIsClimbed` (`LadderClimbs`) | `ScheduleInv` adds what the ghost `opened` holds, the rung the streak calls for (`OpenedIsRung`), and what is true of feeds being fetched or skipped while the lock is held; a longer streak calls for no shorter cooldown because the ladder is monotone (`ScheduleAssumption`, lemma `RungClimbs`) |
| | `QuantTypeCorrect`, `FlightCorrect` (`SingleFlight`) | `FlightInv` = types, one builder per key, and one for everybody who waits; `Pointwise` restates the set equation per thread |
| | `StalenessCorrect` (`StalenessBounded`), of `SteadySpec` | `StaleInv`: what a request holds is no older than the levels below it allow (`Sound`), a value in the cache was no older than that when it was stored and has aged with its entry (`EntriesAge`), and a waiter who is woken finds an entry no older than its own delay (`WokenFindsIt`). The levels come from `LevelsAssumption` |
| | `ReplayTypeCorrect`, `ReplayCorrect` (`NothingSkipped`) | `ReplayInv`: while no file was replaced, what lies below an offset is settled (`OffsetsAreSafe`), and a pass holds a beginning of its file and has settled what it will save (`PassIsSafe`), for any number of runners at one file |
| | `ReplayAlertsCorrect` (`AlertedOnce`), for `InTail = {}` | an alert leaves a row behind (`AlertInv`), and the row keeps replay from a second one |
| `NewsIntakeProofs` | `PollerTypeCorrect`, `IntakeTypeCorrect` | lemmas on the LRU sequences: what a touch, an eviction and a rollback keep of order, length and contents; the filter loop is a recursive function, reasoned about by induction on a set of numbers |
| | `TitlesCorrect`, `IntakeTitlesCorrect` (`TitlesHaveLanded`, of the poller alone and beside the push channel) | `EarnedTitles`: a title remembered is that of a story that landed, or of an item whose rollback is still to come |
| | `TitleDedupCorrect` (`OneStoryPerWindow`), when `TitlesFit` and `TitleWindow > 0` | `PassCovered`: a story that passed lately is remembered by its title, and an item of the pass had not passed when the pass began |
| | `PassesCorrect` (`NoReprocess`), when `MaxServed <= SeenCap + 1` | `FreshBatch`: a pass evicts none of its own urls before it ends |
| | `SuppressionCorrect` (`NothingSuppressed`), for `TitleWindow = 0` and `ReadFaults = FALSE`; `PushedUrlsCorrect` | `EarnedUrls`, the same for urls in both memories |
| | `FlightsCorrect` (`OneFlightPerUrl`), when `UrlsFit` | the url in flight is remembered while its ingest is awaited |
| `EventSignalsProofs` | `ClustersCorrect` (`ClustersTile`), `LateNewsCorrect` (`LateNewsOnlyExtends`) | `Tiles`: after each row the clusters share out the rows seen so far, and every cluster is a chain in time and similarity (`Tile`). A row's place in the order is a cardinality; a row later than all the rest comes last, so the clusters before it are the old ones |
| | `LeadersCorrect` (`LeadersAreFirst`), `NoveltyCorrect` (`NoveltyAgrees`) | `TableInv`: numbers of rows are unique. Finite sets have extremes (`SomethingIsFirst`), so every CHOOSE of a report has what it looks for |
| | `SourcesCorrect` (`LeadersLead`), `EventsCorrect` (`EventsAgree`, all four together) | the pairs of a domain and an event it took part in are counted by domain and by event, and both counts are one; a domain that has led scores more than any that has not, and a sort key with no two alike (`AlphabetAssumption`) makes every place of the ranking that of one domain |
| `SignalsProofs` | `BooksCorrect` (`BooksBalance`) | the rows are a finite bag (`CorpusInv`), and that is the whole invariant: what is said of a report is arithmetic of sums over it. A table is counted by rows and by columns (`SumTable`), a set by the parts it is cut into (`SumParts`), edges by the rows that make them; Pearson's r is at most 1 by the inequality of Cauchy and Schwarz (`CauchySchwarz`, `CorrelationBounded` of `Counting`) |
| | `MirrorCorrect` (`MirrorNews`) | turning every label round is a bijection between the shapes of two bags, which keeps sums (`SumImage`) and turns nets, directions, flips and dominance round one by one |
| | `AuditsCorrect` (`AuditsAgree`) | the terms covered and the gaps share out the watched ones (`TermsShared`); the cells of a golden set and the bins of a calibration are parts of what was scored, and their counts its count (`SumParts`) |
| `ReportsProofs` | `PlaceCorrect` (`NewRowKeepsItsPlace`) | two bags that differ in how often one row occurs say the same of every bucket before that row (`BarBucket`): same anchor of the grid, same histories, hence same z-scores, surges and mixes. Points without a date are not among the dated ones, and a sentence told again adds to weights only (`RetoldCorrect`, `RetoldIsNotMore`) |
| | `LayersCorrect` (`LayersAgree`) | stage by stage: what a stage of the pipeline finds is in the record unless a later one rules it out |
| | `ReportsCorrect` (`ReportsAgree`, with `AuditsCorrect`) | a window is what an order of the rows places first, and holds as many rows as asked for or all there are; a breakdown by key adds up to its window (`SumParts`), one by label covers it (`SumCover`); means rounded down stay below the mean of the sums, by induction on the columns |

Three of these have hypotheses on sizes because the property ends where the memory does. The code
keeps 4096 urls per memory (`_SeenCache`) and 5000 titles; a memory that has to evict a title inside
its window forgets that the story was told, one that evicts a url in flight lets it in again, and a
pass longer than the memory of urls evicts its own first url. What a read that raises does to
`NothingSuppressed` is in section 7, and why `OneLinePerFile` needs reads that work in section 3.
`AlertedOnce` is about replay without the live tail, which alerts for every row it reads.

Why the strengthening is needed: `NoCaptureLost` alone is not inductive, since a state in which a
sweep is about to delete rows that are on no durable line satisfies it and the next does not.
`DeleteIsSafe` excludes it, and is kept because the snapshot cannot change while the lock is held
(`SnapshotIsCurrent`, hence `LockDiscipline`), because the
fsync of `WriteCsv` covers the whole file, the lines it found there and did not append included
(`SyncedIsReadable`), and because no line can have been glued to a stump (`NoStump`, which is where `TornWrites = FALSE` enters).

The library's induction theorems take an operator, which the provers cannot instantiate; `Counting`
therefore states induction with a set in its place (`SetInduction` for numbers, `AddingElements` for
finite sets; the first is proved by a least counterexample, the second from it). From them follow that
a recursive function over a finite stretch exists and stays in its range (`Recursion`), and that the fold of the
community modules is the sum (`SumAdds`). Everything proved of totals rests on these.

## 6. What is only model-checked

- Liveness (`BacklogDrains`, `ServedStoryLands`, `FeedsNeverSilent`, `WaitEnds`, `EveryLineSettles`,
  `EveryRequestEnds`): outside the prover's reach.
- Nothing else that a run checks: each of its invariants and action properties is a theorem of section
  5, under the hypotheses named there. What the runs add to those is that the hypotheses are met by
  instances in which the interesting cases happen, and that plausible bugs break the property.
- Types are proved of every machine and have no line in a run.

## 7. Claims of the source the code does not keep

`archive_torn_line` is a run; each of the others is a formula of its module that TLC refutes when it
is put in place of the properties of the configuration named here, with the constants changed as
given. Line numbers are of the file named first.

| Formula | Claim | What happens | Configuration |
|---|---|---|---|
| `NoCaptureLost` with `TornWrites` | archive.py:21 "We never lose data on a transient outage", :28 "write fails, retry" | An append that stops inside a line leaves a stump without a newline; the next sweep opens the file with mode "a" and writes its first row onto it. That row is on no line of its own, and is deleted from SQLite. | `ArchiveTornLine.cfg` |
| `DeletedRowWasWritten` | archive.py:427: the row deleted is "the same row we wrote to CSV" | A capture archived today and ingested again today is skipped by the read-back (by id) and its newer row is deleted unwritten. | `Archive.cfg`, `MaxVersion = 4`, one sweeper, one directory, `MaxInflight = 1`, `MaxRestarts = 0`; as PROPERTY, without SYMMETRY |
| `LiveRecordHasVector` | archive.py:605: the guards "close the save-before-insert window" | A vector saved before the sweep began, for a row inserted after its purge, is old and its row is absent: it is unlinked. | `Archive.cfg`, `MaxVersion = 4`, one sweeper, one directory, `MaxRestarts = 0`, `LossyVectors = FALSE` |
| `NoSweepAfterStop` | archive.py:334: `_archive_once` "can no longer start because `_stop` is set and the task is gone" | A pool thread already dispatched that has not reached `_run_lock` lets `_drain` take and release it, and sweeps after stop() returned. | `Archive.cfg` |
| `ExportsOnlyCommitted` | storage.py:9: SQLite is "the index of truth", Parquet a denormalized export | The row is buffered inside the transaction; when COMMIT or the rotation fails the table rolls back, the buffer does not. | `ArchiveLiveness.cfg`, `ArchSpec` |
| `SuppressionIsEarned` | news_poller.py:1496: after the rollback the next sighting "gets a real chance to ingest" | An outlet dropped by the title gate had its url added to `_seen` first; if the first outlet's ingest fails only that one's url is rolled back. | `PollerDedup.cfg`, `ReadFaults = FALSE`, `TitleCap = 2` |
| `UrlsHaveLanded` with `ReadFaults` | news_poller.py:1366: without rollback a transient failure "permanently loses the article until LRU eviction" | `get_record` raising in the filter loop leaves every url and title accepted so far remembered. ws_push.py:776 guards the same call. | `NewsIntake.cfg`, `IntakeSpec`, `ReadFaults = TRUE` |
| `IngestedOnce` | ws_push.py:25: an article on both channels "is ingested exactly once" | The memories are separate and both look at the store before either commits. | `NewsIntake.cfg`, `IntakeSpec` |
| `SilentSourceIsThrottled` | ws_push.py:600: counting graceful closes "lets backoff throttle the otherwise-hot reconnect loop" | Each connect resets the count, so it never passes 1 and the wait stays on the first rung. | `Sidecar.cfg` |
| `ProcessedOnce` | awareness_replay.py:1: "each capture is processed exactly once across restarts" | Rows are committed one by one, the offset now and then: a crash in between repeats them. | `Replay.cfg`, one runner, `Limit = 0`, `MaxRewrites = 0` |
| `FailureHoldsOffset` | docs/SYSTEM_OVERVIEW.md:109: failed captures "do not advance the offset" | `run_once` advances for every line it was handed. | as above |
| `ShrinkingIsNoticed` | awareness_reader.py:66: a shorter file is read from line 1 "rather than dropping the captures" | The reset is local to the iterator; if the shortened file yields no capture, the old offset is saved again and hides what is written up to it. | `Replay.cfg`, one runner, `Limit = 0` |
| `SpendStaysOnRecord` | reviewers/registry.py:147: the total "must aggregate every USD spend" | The row of a capture is replaced by its next review, or by a cost-free error row. | `ReviewBudget.cfg`, as PROPERTY |
| `CountedOnce` | reviewers/registry.py:200: a rebuilt cache must not "count the spend twice" | A rebuild between the upsert and the bump holds the row already, and the bump adds it again. | `ReviewBudget.cfg` |
| `RefreshedByExpiry` | quant/engine.py:211: signals "refresh via the `cache_ttl_seconds` (30s) expiry" | Cached signals are built from cached records: ages add up to two or three TTLs. | `QuantCache.cfg` |
| `ExpiredIsRebuilt` | tests/test_quant_engine.py:368: "A call past the TTL window must rebuild" | A waiter whose builder raised returns whatever entry is there, of any age. | `QuantCache.cfg`, `QuantSpec`, as PROPERTY, without SYMMETRY |
| `InvalidateForgets` | api.py:4363: the cache is dropped so that signals "refresh immediately" | A build in flight publishes what it read before, with the time of its end, for a full TTL. | `QuantCache.cfg` |

Where a hazard in `PROJECT.json` is covered only up to one of these, its note says so.

**Read while modelling.** The modules below model what the code does; these are the places where
a comment or a docstring says something else, or where the behaviour is worth knowing.

*Reports.* quant/event_clustering.py:399 "Two records cluster only if their effective timestamps differ
by at most this many seconds": the window rolls with the last member (:461), so the ends of a chain
may be any time apart. `lead_lag.py` orders by
`published_ts` as written by the outlet: a clock that is ahead names the later one as leader, and a
future date drags the windows with it. `sentiment_momentum.py` anchors its grid on the oldest row, so
an old row that leaves regroups the rest. `anomaly.py` skips empty buckets in its baseline while
`news_velocity.py` and `spillover.py` count them. `persistence.py` falls back from `published_ts` to `created_at`;
`source_reliability.py` takes times up to a day ahead. `arrival_heatmap.py` fetches four times its
limit and filters afterwards; the trend panel buckets by the offset a date was written with.
*Pipeline.* `entity_linker.py` does not apply its denylist to cashtags ("$SEC" is a ticker), and
"(NASDAQ: LI)" gives a symbol without an entity. `channel_mapper.py` is called from tests only. backtest.py:114 drops
pairs "where DeepSeek returned a degenerate 0.0"; the code keeps them.
*Panels.* A DeepSeek row that is an error agrees with an empty stub in five fields of six and enters
the means. `/api/news/sources` leaves out feeds that were never polled. The deep health check takes a
poller that hangs in its first tick for healthy. The first day of the spend history is partial. The
docstring of `api_symbol_sentiment_trend` follows a statement, so it is none.
*Process.* A POST of the webhook configuration that ends in a 422 keeps the keys applied before. An
ingest thread outlives `stop()` of the poller (news_poller.py:983); a row it inserts after `close()` is in
SQLite and in no export. `api_stats` (api.py:1394, "never stampedes the storage lock") lets
concurrent misses all compute, and the last to finish stores its payload, even an older one. A
stream that breaks off after some tokens is not metered.
*Database import.* The backup is copied outside `Storage._lock`: rows committed between the checkpoint
and the swap are in neither file. Pooled connections opened before the swap keep writing to the file
that was unlinked. Concurrent imports share the name of their upload, and backups of one second their
own. A crash between `os.replace` and the unlink of the sidecar files leaves frames of the old
database beside the new one (`Restore` is the operator's way out). An imported snapshot is not
migrated before the next boot. docs/ARCHITECTURE.md:367 speaks of keeping the last two
backups; nothing removes one.
*Rate limiter.* rate_limit.py:63 "Atomically check + consume": the clock is read before the lock, so
`last_refill` may go back and time is credited twice (`BurstBounded` allows for it). Waiting
`retry_after` "guarantees the next request succeeds" (:68) to a client whose requests come one by one.

## 8. Abstractions, and what is left out

- *Store.* A record is the version number of its last processing; `service.process` is a fresh
  version. SQLite's COMMIT is atomic and durable (WAL), so a crash is between transactions.
- *Archive.* A file maps each line to none, one or several copies. What is appended without an
  fsync may be gone after a crash, in whole lines; a torn line is one that later readers cannot
  parse, and glues to what follows. A day is a number that only grows. Captures are archived in the
  order of their version (`ORDER BY created_at`, which the upsert renews); ties are not modelled.
- *Poller.* Fetching and filtering are one step, since `_lock` is held and what else runs (push,
  archiver) meets it only in `get_record`. Items older than the age limit are dropped before any memory is
  touched and are left out. Titles and urls are compared as values of `TitleOf` and `UrlOf`.
- *Schedule.* Times are what remains until a cooldown or a due cycle; counters saturate behind the
  last rung. After a restart `feed_health` is empty, which is the initial state.
- *Replay.* A pass sees the file as it was at open; lines the writer adds meanwhile come with the
  next pass. The real iterator may also meet lines appended while it reads: the behaviours in which
  the append comes before the open.
- *Budget.* Costs are small numbers, and the cost of a call that fails is outside the books, as in
  the code. `MaxBilled` bounds what the provider bills in one behaviour.
- *Quant.* A value is the age of its records and whether they were read before the last
  invalidation. A reply takes no time; a call is at most `MaxLate` ticks late between its clock and
  its effect. A signal that raised is a None that the cache keeps like any value.
- *Life.* A component is running or not; what it does while it runs is its own module. The webhook is
  one alert per stored row; its URL is absent, good or bad. Closing the pool drops what is queued
  (`cancel_futures`), which `dropped` remembers.
- *Database file.* A schema is a set of objects, a snapshot the rows, the schema and the version. One
  import at a time, and a checkpoint that is asked for succeeds. `Restore` puts a backup back after a
  crash between swap and unlink and is not code.
- *Bucket.* One client (buckets share nothing), whole tokens, whole units of time.
- *Reports.* Numbers are integers in a stated unit (thousandths, sixtieths), logarithms a table.
  Times are small numbers, texts the set of words the stages look for, quotes what a fixture
  answers. The order of equal rows is fixed where the code's is. Limits are those of the instance.

## 9. Not modelled

`PROJECT.json` lists every component; these stay outside, or partly outside:

- *Response caches* (`/api/stats`, global tone): a lock around a dictionary of read-only answers, stale
  by their TTL at most. The cache whose values are built from one another is `QuantCache`.
- *HTTP API: uploads, static files, live stream, narrative prompt*: formats and files. What handlers
  change is an action of the module of the component they change.
- *Desktop shell and boot page*: they start a process and poll its health. Who holds a port and
  whether a child dies with its parent is decided by the operating system; the hazard is listed
  without a property.
- *React UI*: pages over the read models, with no state the server relies on.
- *Feed packs and reviewers* (partly): lists of feeds, parsers and prompts. A fetch is its items or an
  error, a review its payload, its cost or an error.
- *Market data, newsimpact adapter, text extraction, contracts, demo, settings, schemas, logging,
  redaction, CLI*: data, formatting, single statements, or commands that call what is modelled.

Of what is modelled, the limits are: the poller leaves out the parsing of feeds and items dropped for
their age; the store the read queries that return one row; a second process on the same database
(the CLI beside the sidecar) is modelled for replay only, by its runners.

Proofs worth adding: that the two intake channels together implement "a served url is remembered
only if it has a row or is on its way", and `OneLinePerFile` for read-backs that may fail, up to lines
that repeat.
