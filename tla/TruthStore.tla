----------------------------- MODULE TruthStore -----------------------------
(***************************************************************************)
(* The database file itself: what a boot does to its schema (storage.py    *)
(* _init_db, migrations.py), and what an import of a snapshot does to its  *)
(* rows (api.py db_import).  Every statement of a script commits by        *)
(* itself; the version is bumped afterwards; a row commits to the WAL      *)
(* first, and only a checkpoint folds it into the file that is copied.     *)
(* The connections that were open before an import swapped the file go on  *)
(* writing to the one that was unlinked.                                   *)
(*                                                                         *)
(* One import at a time: its cost of 5 against a bucket of 6 leaves the    *)
(* next one most of a minute away.  Checkpoints succeed.                   *)
(***************************************************************************)
EXTENDS Naturals, Sequences, FiniteSets

CONSTANTS
    Row,            \* rows that may be inserted
    Script,         \* Script[v + 1]: the objects version v creates; v = 0 is _SCHEMA_SQL
    Snapshot,       \* the database files that may be uploaded
    MaxBackups,     \* bound: imports that got as far as their backup
    MaxCrashes      \* bound: boots that end before they are through

Object == UNION {{Script[k][i] : i \in 1..Len(Script[k])} : k \in 1..Len(Script)}
Versions == 0..Len(Script) - 1
Database == [rows : SUBSET Row, schema : SUBSET Object, version : Versions]

(* Every version up to the file's own is in its schema. *)
Covered(db) ==
    \A v \in 1..db.version : \A i \in 1..Len(Script[v + 1]) : Script[v + 1][i] \in db.schema

ASSUME TruthAssumption ==
    /\ Script \in Seq(Seq(STRING)) /\ Len(Script) > 0
    /\ Snapshot \subseteq Database /\ \A s \in Snapshot : Covered(s)
    /\ MaxBackups \in Nat /\ MaxCrashes \in Nat

VARIABLES
    main,       \* the file at db_path
    wal,        \* rows committed since the last checkpoint
    server,     \* "down", "boot" or "up"; "damaged" when the file does not open
    step,       \* the boot's next statement: <<version, index>>
    pooled,     \* which files the pooled connections hold: of "this", "gone"
    import,     \* "none", "staged", "folded", "copied", "swapped"
    tmp,        \* the staged upload
    backups,    \* the catchem_backup_<stamp>.sqlite3 files
    owed,       \* history: rows no import had a right to lose
    late,       \* history: rows committed since the import's checkpoint
    crashes

storeVars == <<main, wal, server, step, pooled, import, tmp, backups, owed, late, crashes>>

Empty == [rows |-> {}, schema |-> {}, version |-> 0]

StoreTypeOK ==
    /\ main \in Database /\ wal \in SUBSET Row
    /\ server \in {"down", "boot", "up", "damaged"}
    /\ step \in Versions \X (Nat \ {0})
    /\ pooled \in SUBSET {"this", "gone"}
    /\ import \in {"none", "staged", "folded", "copied", "swapped"}
    /\ tmp \in Snapshot \cup {Empty}
    /\ backups \in SUBSET Database
    /\ owed \in SUBSET Row /\ late \in SUBSET Row /\ crashes \in 0..MaxCrashes

StoreInit ==
    /\ main = Empty /\ wal = {} /\ backups = {} /\ owed = {} /\ late = {}
    /\ server = "down" /\ step = <<0, 1>>
    /\ pooled = {} /\ import = "none" /\ tmp = Empty
    /\ crashes = 0

-----------------------------------------------------------------------------
(* Boot: the bootstrap script, then every version above the file's.          *)

Boot ==
    /\ server = "down"
    /\ server' = "boot" /\ step' = <<0, 1>>
    /\ UNCHANGED <<main, wal, pooled, import, tmp, backups, owed, late, crashes>>

ScriptAt == Script[step[1] + 1]

(* Mutant: the version is claimed by the first statement of its script. *)
RunStatementClaiming ==
    /\ server = "boot" /\ step[2] <= Len(ScriptAt)
    /\ main' = [main EXCEPT !.schema = @ \cup {ScriptAt[step[2]]},
                            !.version = IF step[1] > @ THEN step[1] ELSE @]
    /\ step' = <<step[1], step[2] + 1>>
    /\ UNCHANGED <<wal, server, pooled, import, tmp, backups, owed, late, crashes>>

(* CREATE ... IF NOT EXISTS, in autocommit mode. *)
RunStatement ==
    /\ server = "boot" /\ step[2] <= Len(ScriptAt)
    /\ main' = [main EXCEPT !.schema = @ \cup {ScriptAt[step[2]]}]
    /\ step' = <<step[1], step[2] + 1>>
    /\ UNCHANGED <<wal, server, pooled, import, tmp, backups, owed, late, crashes>>

(* pending_migrations: the versions above the file's, one after the other.  *)
Pending(db) == db.version < Len(Script) - 1

(* The script is through: PRAGMA user_version, and on to the next one.  The  *)
(* bootstrap script has no version.                                          *)
Bump ==
    /\ server = "boot" /\ step[2] > Len(ScriptAt)
    /\ main' = [main EXCEPT !.version = IF step[1] > @ THEN step[1] ELSE @]
    /\ IF Pending(main')
       THEN server' = "boot" /\ step' = <<main'.version + 1, 1>> /\ pooled' = pooled
       ELSE server' = "up" /\ step' = step /\ pooled' = pooled \cup {"this"}
    /\ UNCHANGED <<wal, import, tmp, backups, owed, late, crashes>>

(* A statement raises, and the boot with it; or the process is killed, at a  *)
(* boot or under load.  The next open recovers the WAL that lies beside the  *)
(* file; the pool and a half-done import are gone, the staged file is left.  *)
(* Frames of the old file beside the new one would be replayed over it.      *)
Down ==
    /\ server \in {"boot", "up"} /\ crashes < MaxCrashes
    /\ crashes' = crashes + 1
    /\ server' = IF import = "swapped" /\ wal # {} THEN "damaged" ELSE "down"
    /\ pooled' = {} /\ import' = "none"
    /\ UNCHANGED <<main, wal, step, tmp, backups, owed, late>>

(* "a bad import is a mv away from recovery" *)
Restore(b) ==
    /\ server = "damaged"
    /\ main' = b /\ wal' = {} /\ backups' = backups \ {b}
    /\ server' = "down"
    /\ UNCHANGED <<step, pooled, import, tmp, owed, late, crashes>>

-----------------------------------------------------------------------------
(* Load. *)

Committed == main.rows \cup wal

(* _get_conn: a pooled connection, or a new one while all are in use.        *)
Insert(row, held) ==
    /\ server = "up" /\ row \notin Committed
    /\ held \in pooled \cup {"this"}
    /\ import # "swapped"               \* the swap holds the storage lock
    /\ pooled' = pooled \cup {held}
    /\ IF held = "this"
       THEN wal' = wal \cup {row} /\ owed' = owed \cup {row} /\ late' = late \cup {row}
       ELSE UNCHANGED <<wal, owed, late>>
    /\ UNCHANGED <<main, server, step, import, tmp, backups, crashes>>

Fold == main' = [main EXCEPT !.rows = Committed] /\ wal' = {}

(* SQLite's own checkpoint, or the one of an export. *)
Checkpoint ==
    /\ server = "up" /\ wal # {} /\ import # "swapped"
    /\ Fold
    /\ UNCHANGED <<server, step, pooled, import, tmp, backups, owed, late, crashes>>

-----------------------------------------------------------------------------
(* POST /api/db/import. *)

(* The upload is staged whole and fsynced; one that is no database, too      *)
(* large or empty is unlinked, one that breaks off is left: neither goes on. *)
Stage(snapshot) ==
    /\ server = "up" /\ import = "none"
    /\ Cardinality(backups) < MaxBackups
    /\ tmp' = snapshot /\ import' = "staged"
    /\ UNCHANGED <<main, wal, server, step, pooled, backups, owed, late, crashes>>

(* Mutant: the main file is copied as it lies there. *)
FoldForBackupSkipped ==
    /\ import = "staged"
    /\ import' = "folded" /\ late' = {}
    /\ UNCHANGED <<main, wal, server, step, pooled, tmp, backups, owed, crashes>>

(* The checkpoint before the backup.  What the import owes is what it saw.   *)
FoldForBackup ==
    /\ import = "staged"
    /\ Fold
    /\ import' = "folded" /\ late' = {}
    /\ UNCHANGED <<server, step, pooled, tmp, backups, owed, crashes>>

(* The copy of the main file, outside the lock. *)
Backup ==
    /\ import = "folded"
    /\ backups' = backups \cup {main}
    /\ import' = "copied"
    /\ UNCHANGED <<main, wal, server, step, pooled, tmp, owed, late, crashes>>

(* The copy fails, and the request with it. *)
BackupFails ==
    /\ import = "folded"
    /\ import' = "none"
    /\ UNCHANGED <<main, wal, server, step, pooled, tmp, backups, owed, late, crashes>>

(* Under the lock: the staged file takes the name, and whatever committed    *)
(* since the checkpoint goes with the file that had it.                      *)
Swap ==
    /\ import = "copied"
    /\ main' = tmp
    /\ owed' = owed \ late
    /\ pooled' = IF pooled = {} THEN {} ELSE {"gone"}
    /\ import' = "swapped"
    /\ UNCHANGED <<wal, server, step, tmp, backups, late, crashes>>

(* ... and the -wal and -shm of the old file are unlinked. *)
UnlinkSidecars ==
    /\ import = "swapped"
    /\ wal' = {} /\ import' = "none"
    /\ UNCHANGED <<main, server, step, pooled, tmp, backups, owed, late, crashes>>

StoreNext ==
    \/ Boot \/ RunStatement \/ Bump \/ Down
    \/ \E b \in backups : Restore(b)
    \/ \E row \in Row, held \in {"this", "gone"} : Insert(row, held)
    \/ Checkpoint
    \/ \E s \in Snapshot : Stage(s)
    \/ FoldForBackup \/ Backup \/ BackupFails \/ Swap \/ UnlinkSidecars

StoreSpec == StoreInit /\ [][StoreNext]_storeVars

-----------------------------------------------------------------------------
(* What the file promises. *)

(* user_version never claims an object the schema lacks, whatever boots were *)
(* cut short and whatever snapshots were imported ("the next boot retries    *)
(* the same step", apply_migrations): a table a migration brings is not      *)
(* skipped for good by a crash between its statements and the bump.          *)
SchemaCoversVersion == Covered(main)

(* "so a bad import is a mv away from recovery" (db_import): every row that  *)
(* had committed when an import took its checkpoint is in the database or in *)
(* a backup, whoever writes, folds or dies in between; in a backup, if the   *)
(* file that took its place does not open.                                   *)
ImportIsRecoverable ==
    owed \subseteq (UNION {b.rows : b \in backups}) \cup (IF server = "damaged" THEN {} ELSE Committed)

=============================================================================
