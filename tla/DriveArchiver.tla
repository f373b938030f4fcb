---------------------------- MODULE DriveArchiver ----------------------------
(***************************************************************************)
(* The drain of old rows from SQLite into daily CSV files on the user's    *)
(* drive (src/catchem/archive.py), composed with what runs beside it: the  *)
(* ingest threads that upsert records (supervisor.process_capture), the    *)
(* vector files they write first (embeddings.py), tag edits, the teardown  *)
(* of the process, and its crashes.                                        *)
(*                                                                         *)
(* A CSV file is a bag of lines <<capture id, version>>.  Two sweep        *)
(* threads, the background tick and a manual /ui/archive-now, share        *)
(* _run_lock; everything that writes SQLite shares Storage._lock.          *)
(***************************************************************************)
EXTENDS RecordStore

CONSTANTS
    Sweeper,        \* threads that may run _archive_once
    Nobody,         \* a lock nobody holds
    NoCapture,      \* no vector file is about to be unlinked
    Dir,            \* {configured drive directory, fallback directory}
    Primary,        \* the configured one; the others are fallbacks
    MaxDay,         \* bound: UTC days of one behaviour
    MaxInflight,    \* bound: captures processed at the same time
    MaxRestarts,    \* bound: crashes of one behaviour
    LocalCap,       \* local_cap_rows
    PerTickCap,     \* _per_tick_cap
    TornWrites,     \* may a failing write leave part of a line behind?
    FlakyReads,     \* may the read-back of the CSV file fail?
    LossyVectors    \* may saving a vector fail?

ASSUME ArchiverAssumption ==
    /\ Nobody \notin Sweeper
    /\ NoCapture \notin CaptureId
    /\ Primary \in Dir
    /\ MaxDay \in Nat \ {0} /\ MaxInflight \in Nat /\ MaxRestarts \in Nat
    /\ LocalCap \in Nat \ {0} /\ PerTickCap \in Nat \ {0}
    /\ {TornWrites, FlakyReads, LossyVectors} \subseteq BOOLEAN

VARIABLES
    csv,        \* file -> line -> copies in it: 0, 1, or 2 for "several"
    synced,     \* file -> lines a completed fsync has made durable
    torn,       \* files that end in the middle of a line
    dir,        \* _drive_dir
    day,        \* the UTC date
    vec,        \* capture id -> mtime of its .npy, 0 when it has none
    inflight,   \* rows built by service.process and not yet inserted
    lock,       \* owner of Storage._lock across steps
    runLock,    \* owner of _run_lock
    pc,         \* where each sweep thread is in _archive_once
    started,    \* its sweep_started
    batch,      \* the rows it SELECTed
    todo,       \* archived captures whose vector it has yet to examine
    doomed,     \* the capture whose vector it is about to unlink
    phase,      \* the process: running, draining, drained, closed
    restarts    \* crashes so far

fileVars == <<csv, synced, torn>>
sweepVars == <<pc, started, batch, todo, doomed>>
lockVars == <<lock, runLock>>
procVars == <<phase, restarts>>
archVars == <<fileVars, dir, day, vec, inflight, lockVars, sweepVars, procVars>>
allVars == <<version, storeVars, archVars>>

File == Dir \X (1..MaxDay)
Target(d) == <<d, day>>     \* csv_path_for_today

Lines(f) == {l \in Row : csv[f][l] > 0}
Ids(rows) == {r[1] : r \in rows}

ArchTypeOK ==
    /\ StoreTypeOK
    /\ csv \in [File -> [Row -> 0..2]]
    /\ synced \in [File -> SUBSET Row]
    /\ torn \in SUBSET File
    /\ dir \in Dir
    /\ day \in 1..MaxDay
    /\ vec \in [CaptureId -> 0..MaxVersion]
    /\ inflight \in SUBSET Row
    /\ lock \in Sweeper \cup {Nobody}
    /\ runLock \in Sweeper \cup {Nobody}
    /\ pc \in [Sweeper -> {"off", "dispatched", "entered", "write", "delete",
                           "purge", "purging"}]
    /\ started \in [Sweeper -> 0..MaxVersion + 1]
    /\ batch \in [Sweeper -> SUBSET Row]
    /\ todo \in [Sweeper -> SUBSET CaptureId]
    /\ doomed \in [Sweeper -> CaptureId \cup {NoCapture}]
    /\ phase \in {"running", "draining", "drained", "closed"}
    /\ restarts \in 0..MaxRestarts

ArchInit ==
    /\ StoreInit
    /\ csv = [f \in File |-> [l \in Row |-> 0]]
    /\ synced = [f \in File |-> {}]
    /\ torn = {}
    /\ dir = Primary
    /\ day = 1
    /\ vec = [id \in CaptureId |-> 0]
    /\ inflight = {}
    /\ lock = Nobody
    /\ runLock = Nobody
    /\ pc = [s \in Sweeper |-> "off"]
    /\ started = [s \in Sweeper |-> 0]
    /\ batch = [s \in Sweeper |-> {}]
    /\ todo = [s \in Sweeper |-> {}]
    /\ doomed = [s \in Sweeper |-> NoCapture]
    /\ phase = "running"
    /\ restarts = 0

-----------------------------------------------------------------------------
(* Ingest: service.process saves the vector and builds the record without a *)
(* lock; insert_record then waits for Storage._lock.                        *)

BuildRecord(id) ==
    /\ phase = "running"
    /\ version < MaxVersion
    /\ Cardinality(inflight) < MaxInflight
    /\ version' = version + 1
    /\ inflight' = inflight \cup {<<id, version + 1>>}
    /\ \/ vec' = [vec EXCEPT ![id] = version + 1]
       \/ LossyVectors /\ UNCHANGED vec
    /\ UNCHANGED <<storeVars, fileVars, dir, day, lockVars, sweepVars, procVars>>

StoreRecord(row) ==
    /\ lock = Nobody
    /\ InsertRecord(row[1], row[2]) \/ InsertFails(row[1], row[2])
    /\ inflight' = inflight \ {row}
    /\ UNCHANGED <<version, fileVars, dir, day, vec, lockVars, sweepVars, procVars>>

EditTag(id) ==
    /\ lock = Nobody /\ phase = "running"
    /\ AddTag(id) \/ RemoveTag(id)
    /\ UNCHANGED <<version, archVars>>

-----------------------------------------------------------------------------
(* One sweep, _archive_once. *)

(* asyncio.to_thread hands the call to a pool thread, which starts running. *)
Dispatch(s) ==
    /\ phase = "running"
    /\ pc[s] = "off"
    /\ pc' = [pc EXCEPT ![s] = "dispatched"]
    /\ UNCHANGED <<version, storeVars, fileVars, dir, day, vec, inflight,
                   lockVars, started, batch, todo, doomed, procVars>>

(* Non-blocking acquire of _run_lock: "already running" or the sweep begins. *)
EnterSweep(s) ==
    /\ pc[s] = "dispatched"
    /\ \/ /\ runLock = Nobody
          /\ runLock' = s
          /\ started' = [started EXCEPT ![s] = version + 1]
          /\ pc' = [pc EXCEPT ![s] = "entered"]
       \/ /\ runLock # Nobody
          /\ pc' = [pc EXCEPT ![s] = "off"]
          /\ UNCHANGED <<runLock, started>>
    /\ UNCHANGED <<version, storeVars, fileVars, dir, day, vec, inflight,
                   lock, batch, todo, doomed, procVars>>

(* Mutant: the cut keeps one row too few. *)
OverflowOneTooMany == {id \in Present :
    Cardinality({j \in Present : records[j] > records[id]}) >= LocalCap - 1}

(* The rows outside the newest LocalCap, and of those the oldest PerTickCap. *)
Overflow == {id \in Present :
    Cardinality({j \in Present : records[j] > records[id]}) >= LocalCap}
Selected == {id \in Overflow :
    Cardinality({j \in Overflow : records[j] < records[id]}) < PerTickCap}

(* Mutant: a way out without the finally clause that releases _run_lock. *)
LeaveSweepLocked(s) ==
    /\ pc' = [pc EXCEPT ![s] = "off"]
    /\ started' = [started EXCEPT ![s] = 0]
    /\ batch' = [batch EXCEPT ![s] = {}]
    /\ todo' = [todo EXCEPT ![s] = {}]
    /\ doomed' = [doomed EXCEPT ![s] = NoCapture]
    /\ lock' = Nobody
    /\ UNCHANGED runLock

(* Every way out of the sweep: both locks go, and with them the snapshot. *)
LeaveSweep(s) ==
    /\ pc' = [pc EXCEPT ![s] = "off"]
    /\ started' = [started EXCEPT ![s] = 0]
    /\ batch' = [batch EXCEPT ![s] = {}]
    /\ todo' = [todo EXCEPT ![s] = {}]
    /\ doomed' = [doomed EXCEPT ![s] = NoCapture]
    /\ lock' = Nobody
    /\ runLock' = Nobody

(* Mutant: the SELECT runs outside the lock ("WAL readers don't block"). *)
SelectBatchUnlocked(s) ==
    /\ pc[s] = "entered"
    /\ lock = Nobody
    /\ \/ Selected = {} /\ LeaveSweep(s)
       \/ /\ Selected # {}
          /\ batch' = [batch EXCEPT ![s] = {<<id, records[id]>> : id \in Selected}]
          /\ pc' = [pc EXCEPT ![s] = "write"]
          /\ UNCHANGED <<lockVars, started, todo, doomed>>
    /\ UNCHANGED <<version, storeVars, fileVars, dir, day, vec, inflight, procVars>>

(* Take Storage._lock and SELECT; with nothing to drain the sweep is over. *)
SelectBatch(s) ==
    /\ pc[s] = "entered"
    /\ lock = Nobody
    /\ \/ Selected = {} /\ LeaveSweep(s)
       \/ /\ Selected # {}
          /\ lock' = s
          /\ batch' = [batch EXCEPT ![s] = {<<id, records[id]>> : id \in Selected}]
          /\ pc' = [pc EXCEPT ![s] = "write"]
          /\ UNCHANGED <<runLock, started, todo, doomed>>
    /\ UNCHANGED <<version, storeVars, fileVars, dir, day, vec, inflight, procVars>>

(* Mutant: no read-back, every sweep appends its whole batch. *)
ReadBackNothing(f) == {{}}

(* _archived_capture_ids: the captures the file already holds; nothing when *)
(* reading it fails.                                                        *)
ReadBack(f) == {Ids(Lines(f))} \cup (IF FlakyReads THEN {{}} ELSE {})

(* Rows go out oldest first, so a write that breaks off has written those up *)
(* to some version.                                                          *)
UpTo(rows, v) == {r \in rows : r[2] <= v}

(* The lines `rows` become when appended: the oldest one is glued to a torn *)
(* last line, if there is one, and is no longer a line of its own.          *)
Appended(f, rows) ==
    IF f \in torn THEN {r \in rows : \E q \in rows : q[2] < r[2]} ELSE rows

AppendRows(f, rows) ==
    csv' = [csv EXCEPT ![f] = [l \in Row |->
        IF l \in Appended(f, rows) /\ @[l] < 2 THEN @[l] + 1 ELSE @[l]]]

(* Mutant: flush() without fsync(), the lines are in the page cache only. *)
WriteCsvNoFsync(s) ==
    /\ pc[s] = "write"
    /\ \E d \in {dir} \cup (Dir \ {Primary}) : \E seen \in ReadBack(Target(d)) :
        /\ AppendRows(Target(d), {r \in batch[s] : r[1] \notin seen})
        /\ dir' = d
    /\ pc' = [pc EXCEPT ![s] = "delete"]
    /\ UNCHANGED <<version, storeVars, synced, torn, day, vec, inflight, lockVars,
                   started, batch, todo, doomed, procVars>>

(* mkdir, append, flush and fsync succeed, in the configured directory or,  *)
(* when its mkdir fails, in the fallback one, which then stays the target.  *)
WriteCsv(s) ==
    /\ pc[s] = "write"
    /\ \E d \in {dir} \cup (Dir \ {Primary}) : \E seen \in ReadBack(Target(d)) :
        LET f == Target(d)
            rows == {r \in batch[s] : r[1] \notin seen} IN
        /\ AppendRows(f, rows)
        /\ synced' = [synced EXCEPT ![f] = {l \in Row : csv'[f][l] > 0}]
        /\ torn' = IF rows = {} THEN torn ELSE torn \ {f}
        /\ dir' = d
    /\ pc' = [pc EXCEPT ![s] = "delete"]
    /\ UNCHANGED <<version, storeVars, day, vec, inflight, lockVars,
                   started, batch, todo, doomed, procVars>>

(* Mutant: the error path falls through to the DELETE. *)
WriteFailsAndDeletes(s) ==
    /\ pc[s] = "write"
    /\ pc' = [pc EXCEPT ![s] = "delete"]
    /\ UNCHANGED <<version, storeVars, fileVars, dir, day, vec, inflight,
                   lockVars, started, batch, todo, doomed, procVars>>

(* OSError: some of the rows may have reached the file, perhaps cut in the  *)
(* middle of a line, and none of them is known to be durable.  Nothing is   *)
(* deleted.                                                                 *)
WriteFails(s) ==
    /\ pc[s] = "write"
    /\ \E d \in {dir} \cup (Dir \ {Primary}), v \in 0..version :
       \E seen \in ReadBack(Target(d)) :
        LET f == Target(d)
            rows == UpTo({r \in batch[s] : r[1] \notin seen}, v) IN
        /\ AppendRows(f, rows)
        /\ torn' \in {IF rows = {} THEN torn ELSE torn \ {f}}
                     \cup (IF TornWrites THEN {torn \cup {f}} ELSE {})
        /\ dir' = d
    /\ LeaveSweep(s)
    /\ UNCHANGED <<version, storeVars, synced, day, vec, inflight, procVars>>

(* The chunked DELETE commits as one transaction and releases Storage._lock. *)
DeleteBatch(s) ==
    /\ pc[s] = "delete"
    /\ DeleteRecords(Ids(batch[s]))
    /\ todo' = [todo EXCEPT ![s] = Ids(batch[s])]
    /\ lock' = Nobody
    /\ pc' = [pc EXCEPT ![s] = "purge"]
    /\ UNCHANGED <<version, fileVars, dir, day, vec, inflight, runLock,
                   started, batch, doomed, procVars>>

(* A SELECT, the DELETE or a look at the rows raises: what was open rolls    *)
(* back, and the error leaves _archive_once through its finally clause.      *)
SqliteFails(s) ==
    /\ pc[s] \in {"entered", "delete", "purge", "purging"}
    /\ lock \in {Nobody, s}
    /\ doomed[s] = NoCapture
    /\ LeaveSweep(s)
    /\ UNCHANGED <<version, storeVars, fileVars, dir, day, vec, inflight, procVars>>

(* Storage._lock again, to drop the vectors of the archived captures. *)
BeginPurge(s) ==
    /\ pc[s] = "purge"
    /\ lock = Nobody
    /\ lock' = s
    /\ pc' = [pc EXCEPT ![s] = "purging"]
    /\ UNCHANGED <<version, storeVars, fileVars, dir, day, vec, inflight,
                   runLock, started, batch, todo, doomed, procVars>>

(* Mutant: only the age of the file is looked at, not whether a row is back. *)
PurgeableByAge(s, id) == vec[id] < started[s]

(* The two race guards: the row is still absent, and the file is older than *)
(* the sweep.                                                               *)
Purgeable(s, id) == records[id] = 0 /\ vec[id] < started[s]

ExamineVector(s, id) ==
    /\ pc[s] = "purging"
    /\ doomed[s] = NoCapture
    /\ id \in todo[s]
    /\ todo' = [todo EXCEPT ![s] = @ \ {id}]
    /\ doomed' = IF Purgeable(s, id) THEN [doomed EXCEPT ![s] = id] ELSE doomed
    /\ UNCHANGED <<version, storeVars, fileVars, dir, day, vec, inflight,
                   lockVars, pc, started, batch, procVars>>

UnlinkVector(s) ==
    /\ pc[s] = "purging"
    /\ doomed[s] # NoCapture
    /\ vec' = [vec EXCEPT ![doomed[s]] = 0]
    /\ doomed' = [doomed EXCEPT ![s] = NoCapture]
    /\ UNCHANGED <<version, storeVars, fileVars, dir, day, inflight,
                   lockVars, pc, started, batch, todo, procVars>>

EndSweep(s) ==
    /\ pc[s] = "purging"
    /\ todo[s] = {} /\ doomed[s] = NoCapture
    /\ LeaveSweep(s)
    /\ UNCHANGED <<version, storeVars, fileVars, dir, day, vec, inflight, procVars>>

-----------------------------------------------------------------------------
(* The world around it. *)

Midnight ==
    /\ day < MaxDay
    /\ day' = day + 1
    /\ UNCHANGED <<version, storeVars, fileVars, dir, vec, inflight,
                   lockVars, sweepVars, procVars>>

(* DriveArchiver.stop: set _stop and cancel the task, then wait for a turn  *)
(* at _run_lock; last, Supervisor.close flushes the Parquet buffer.         *)
BeginStop ==
    /\ phase = "running"
    /\ phase' = "draining"
    /\ UNCHANGED <<version, storeVars, fileVars, dir, day, vec, inflight,
                   lockVars, sweepVars, restarts>>

(* Mutant: stop returns as soon as the task is cancelled. *)
DrainedAtOnce ==
    /\ phase = "draining"
    /\ phase' = "drained"
    /\ UNCHANGED <<version, storeVars, fileVars, dir, day, vec, inflight,
                   lockVars, sweepVars, restarts>>

Drained ==
    /\ phase = "draining"
    /\ runLock = Nobody
    /\ phase' = "drained"
    /\ UNCHANGED <<version, storeVars, fileVars, dir, day, vec, inflight,
                   lockVars, sweepVars, restarts>>

CloseStore ==
    /\ phase = "drained"
    /\ lock = Nobody
    /\ Flush \/ (pending = {} /\ UNCHANGED storeVars)
    /\ phase' = "closed"
    /\ UNCHANGED <<version, fileVars, dir, day, vec, inflight,
                   lockVars, sweepVars, restarts>>

(* The process ends and starts again.  Committed rows and fsynced lines     *)
(* survive, whatever else was in the files may not; threads, locks, the     *)
(* buffer and a chosen fallback directory are gone.                         *)
Restart ==
    /\ restarts < MaxRestarts
    /\ restarts' = restarts + 1
    /\ phase' = "running"
    /\ LoseBuffer
    /\ \E kept \in SUBSET UNION {Lines(f) : f \in File} :
        csv' = [f \in File |-> [l \in Row |->
                   IF l \in synced[f] \cup kept THEN csv[f][l] ELSE 0]]
    /\ torn' \in (IF TornWrites THEN SUBSET File ELSE {torn})
    /\ dir' = Primary
    /\ inflight' = {}
    /\ lock' = Nobody
    /\ runLock' = Nobody
    /\ pc' = [s \in Sweeper |-> "off"]
    /\ started' = [s \in Sweeper |-> 0]
    /\ batch' = [s \in Sweeper |-> {}]
    /\ todo' = [s \in Sweeper |-> {}]
    /\ doomed' = [s \in Sweeper |-> NoCapture]
    /\ UNCHANGED <<version, synced, day, vec>>

Sweep(s) ==
    \/ EnterSweep(s) \/ SelectBatch(s)
    \/ WriteCsv(s) \/ WriteFails(s)
    \/ DeleteBatch(s) \/ SqliteFails(s)
    \/ BeginPurge(s) \/ UnlinkVector(s) \/ EndSweep(s)
    \/ \E id \in CaptureId : ExamineVector(s, id)

ArchNext ==
    \/ \E id \in CaptureId : BuildRecord(id) \/ EditTag(id)
    \/ \E row \in inflight : StoreRecord(row)
    \/ \E s \in Sweeper : Dispatch(s) \/ Sweep(s)
    \/ Midnight \/ BeginStop \/ Drained \/ CloseStore \/ Restart

ArchSpec == ArchInit /\ [][ArchNext]_allVars

-----------------------------------------------------------------------------
(* What the drain promises. *)

Durable == {l \in Row : \E f \in File : l \in synced[f] /\ csv[f][l] > 0}
Filed == {id \in CaptureId : \E l \in Durable : l[1] = id}

(* "We never lose data on a transient outage" (module docstring): a capture *)
(* that was ever committed is still a row of SQLite, or some version of it  *)
(* is on a line of the archive that no crash can take back.                 *)
NoCaptureLost ==
    Ids(committed) \subseteq Present \cup Filed

(* The same promise as a refinement: every step of the composed system is a *)
(* step of the ledger, which lets go of filed captures only, or none of it. *)
Ledger == INSTANCE CaptureLedger WITH live <- Present, filed <- Filed
ImplementsLedger == Ledger!Spec

(* The lock makes the SELECT and the DELETE one operation: until the DELETE *)
(* the snapshot is what the table holds, whatever ingest threads attempt,   *)
(* so the row that is deleted is the row that was selected.                 *)
SnapshotIsCurrent ==
    \A s \in Sweeper : pc[s] \in {"write", "delete"} => batch[s] \subseteq LiveRows

(* The append is idempotent: whatever failed or restarted after an earlier  *)
(* append, one daily file has at most one line for a capture.               *)
OneLinePerFile ==
    \A f \in File : \A l \in Lines(f) :
        csv[f][l] = 1 /\ \A m \in Lines(f) : m[1] = l[1] => m = l

(* The live tier stays: a row leaves the table only when LocalCap newer     *)
(* rows are there, and at most PerTickCap leave together.                   *)
Leaving == {id \in Present : records'[id] = 0}
NewestStay ==
    [][ /\ Cardinality(Leaving) <= PerTickCap
        /\ \A id \in Leaving :
            Cardinality({j \in Present : records[j] > records[id]}) >= LocalCap]_allVars

(* The purge after a sweep never unlinks the vector of a capture that has a *)
(* row at that moment, though ingest may have put it back in between.       *)
LiveVectorKept ==
    [][\A id \in CaptureId :
        vec[id] # 0 /\ vec'[id] = 0 => id \notin Present]_allVars

(* stop returns only when no sweep that took _run_lock is still at work:    *)
(* none is left between its SELECT and the end of its purge, so close does  *)
(* not flush behind an orphaned DELETE.                                     *)
StopDrainsSweeps ==
    [][phase' = "drained" /\ phase # "drained" =>
        \A s \in Sweeper : pc[s] \in {"off", "dispatched"}]_allVars

(* A backlog drains: while the process runs and the drive and SQLite heal   *)
(* from time to time, the rows past the live tier go to the archive.        *)
BacklogDrains == Overflow # {} ~> Overflow = {} \/ phase # "running"

-----------------------------------------------------------------------------
(* Why it keeps them: the inductive invariant of the proofs. *)

(* Between its SELECT and its DELETE, and while it purges, a sweep owns     *)
(* Storage._lock; from its first step to its last it owns _run_lock.        *)
LockDiscipline ==
    \A s \in Sweeper :
        /\ pc[s] \in {"write", "delete", "purging"} => lock = s
        /\ pc[s] \notin {"off", "dispatched"} => runLock = s

(* A vector about to be unlinked is that of a capture without a row. *)
DoomedIsAbsent ==
    \A s \in Sweeper : doomed[s] # NoCapture =>
        pc[s] = "purging" /\ records[doomed[s]] = 0

(* Rows and lines have a common past: both were committed at some time. *)
RowsWereCommitted == LiveRows \subseteq committed
LinesWereCommitted == \A f \in File : Lines(f) \subseteq committed

(* What was fsynced is there to be read, and no file ends in a stump.       *)
SyncedIsReadable == \A f \in File : synced[f] \subseteq Lines(f)
NoStump == torn = {}

(* A sweep deletes nothing that is not filed. *)
DeleteIsSafe ==
    \A s \in Sweeper : pc[s] = "delete" => Ids(batch[s]) \subseteq Filed

LockInv == ArchTypeOK /\ LockDiscipline /\ DoomedIsAbsent /\ SnapshotIsCurrent
ArchInv ==
    /\ LockInv
    /\ RowsWereCommitted /\ LinesWereCommitted
    /\ SyncedIsReadable /\ NoStump /\ DeleteIsSafe
    /\ NoCaptureLost

-----------------------------------------------------------------------------
(* Claims of the source that the code does not keep. *)

(* "the row we delete is the same row we wrote to CSV" (archive.py).        *)
DeletedRowWasWritten ==
    [][\A id \in Present : records'[id] = 0 =>
        \E f \in File : csv[f][<<id, records[id]>>] > 0]_allVars

(* "Together these close the save-before-insert window": a live record      *)
(* keeps the vector that was saved for it (when every save succeeds).       *)
LiveRecordHasVector == \A id \in Present : vec[id] # 0

(* "_archive_once, which can no longer start" once stop has drained.        *)
NoSweepAfterStop ==
    phase \in {"drained", "closed"} =>
        \A s \in Sweeper : pc[s] \in {"off", "dispatched"}

-----------------------------------------------------------------------------
(* Fairness: pool threads and the event loop run, the background loop keeps *)
(* sweeping, and an append or a DELETE that is tried again and again         *)
(* succeeds at last.                                                        *)
Fairness ==
    /\ \A s \in Sweeper :
        /\ WF_allVars(Dispatch(s))
        /\ WF_allVars(EnterSweep(s) \/ BeginPurge(s) \/ UnlinkVector(s) \/ EndSweep(s))
        /\ WF_allVars(\E id \in CaptureId : ExamineVector(s, id))
        /\ SF_allVars(SelectBatch(s))
        /\ SF_allVars(WriteCsv(s))
        /\ SF_allVars(DeleteBatch(s))
    /\ WF_allVars(\E row \in inflight : StoreRecord(row))

FairSpec == ArchSpec /\ Fairness

=============================================================================
