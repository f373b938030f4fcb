----------------------------- MODULE RecordStore -----------------------------
(***************************************************************************)
(* The durable sinks of one catchem process: the SQLite tables `records`,  *)
(* `record_labels` and `record_tags`, and the batch of rows waiting to be  *)
(* exported to Parquet (src/catchem/storage.py, class Storage).            *)
(*                                                                         *)
(* A row's content is abstracted to its version: the position, in the      *)
(* order of created_at, of the processing pass that built it.  Two passes  *)
(* over one capture give two versions.                                     *)
(***************************************************************************)
EXTENDS Naturals, FiniteSets

CONSTANTS
    CaptureId,      \* the capture ids the process may meet
    MaxVersion,     \* bound: processing passes of one behaviour
    RotateParquet   \* rotate_parquet_records: rows that trigger a rotation

ASSUME StoreAssumption == MaxVersion \in Nat /\ RotateParquet \in Nat \ {0}

VARIABLES
    version,    \* processing passes so far; the last created_at handed out
    records,    \* capture id -> version of its row, 0 when it has none
    labels,     \* capture id -> version its inverted-index rows describe
    tags,       \* captures that carry a user tag (record_tags)
    pending,    \* _pending_rows: rows waiting for the next Parquet file
    parquet,    \* rows written to Parquet files
    committed,  \* history: rows some COMMIT made visible in SQLite
    lost        \* history: buffered rows a crash threw away

history == <<committed, lost>>
storeVars == <<records, labels, tags, pending, parquet, history>>
vars == <<version, storeVars>>

Version == 1..MaxVersion
Row == CaptureId \X Version     \* <<capture id, version>>

Present == {id \in CaptureId : records[id] # 0}
LiveRows == {<<id, records[id]>> : id \in Present}

StoreTypeOK ==
    /\ version \in 0..MaxVersion
    /\ records \in [CaptureId -> 0..MaxVersion]
    /\ labels \in [CaptureId -> 0..MaxVersion]
    /\ tags \in SUBSET CaptureId
    /\ pending \in SUBSET Row
    /\ parquet \in SUBSET Row
    /\ committed \in SUBSET Row
    /\ lost \in SUBSET Row

StoreInit ==
    /\ version = 0
    /\ records = [id \in CaptureId |-> 0]
    /\ labels = [id \in CaptureId |-> 0]
    /\ tags = {}
    /\ pending = {}
    /\ parquet = {}
    /\ committed = {}
    /\ lost = {}

-----------------------------------------------------------------------------
(* Parquet rotation. *)

RotationDue(rows) == Cardinality(rows) >= RotateParquet

(* _flush_parquet_locked with `rows` buffered: the batch becomes a file and *)
(* the buffer is emptied only after write_table returned.                   *)
FlushParquet(rows) ==
    /\ parquet' = parquet \cup rows
    /\ pending' = {}

(* The tail of insert_record: buffer the row, rotate when the batch is full. *)
BufferRow(row) ==
    LET rows == pending \cup {row} IN
    \/ ~RotationDue(rows) /\ pending' = rows /\ UNCHANGED parquet
    \/ RotationDue(rows) /\ FlushParquet(rows)

-----------------------------------------------------------------------------
(* insert_record: one BEGIN IMMEDIATE .. COMMIT holding Storage._lock.  The *)
(* upsert updates the row in place, so the ON DELETE CASCADE of record_tags *)
(* does not fire; the label rows are rebuilt in the same transaction.       *)

(* Mutant: INSERT OR REPLACE, whose implicit DELETE cascades to the tags. *)
ReplaceRecord(id, v) ==
    /\ records' = [records EXCEPT ![id] = v]
    /\ labels' = [labels EXCEPT ![id] = v]
    /\ tags' = tags \ {id}

UpsertRecord(id, v) ==
    /\ records' = [records EXCEPT ![id] = v]
    /\ labels' = [labels EXCEPT ![id] = v]
    /\ UNCHANGED tags

InsertRecord(id, v) ==
    /\ UpsertRecord(id, v)
    /\ BufferRow(<<id, v>>)
    /\ committed' = committed \cup {<<id, v>>}
    /\ UNCHANGED lost

(* Mutant: the buffer is cleared before write_table is known to have worked. *)
InsertFailsDroppingBatch(id, v) ==
    /\ UNCHANGED <<records, labels, tags, history>>
    /\ \/ UNCHANGED <<pending, parquet>>
       \/ /\ RotationDue(pending \cup {<<id, v>>})
          /\ pending' = {}
          /\ UNCHANGED parquet

(* The three ways it raises.  A statement fails before the row is buffered; *)
(* the rotation it triggers fails; or COMMIT fails after the row has been   *)
(* buffered.  SQLite rolls back in each case, the buffer does not.          *)
InsertFails(id, v) ==
    /\ UNCHANGED <<records, labels, tags, history>>
    /\ \/ UNCHANGED <<pending, parquet>>
       \/ /\ RotationDue(pending \cup {<<id, v>>})
          /\ pending' = pending \cup {<<id, v>>}
          /\ UNCHANGED parquet
       \/ BufferRow(<<id, v>>)

(* add_record_tag / remove_record_tag.  The foreign key refuses a tag for a *)
(* capture that has no row.                                                 *)
AddTag(id) ==
    /\ id \in Present \ tags
    /\ tags' = tags \cup {id}
    /\ UNCHANGED <<records, labels, pending, parquet, history>>

RemoveTag(id) ==
    /\ id \in tags
    /\ tags' = tags \ {id}
    /\ UNCHANGED <<records, labels, pending, parquet, history>>

(* Mutant: foreign_keys is off on this connection, the cascade never fires. *)
DeleteRecordsNoCascade(ids) ==
    /\ records' = [id \in CaptureId |-> IF id \in ids THEN 0 ELSE records[id]]
    /\ labels' = [id \in CaptureId |-> IF id \in ids THEN 0 ELSE labels[id]]
    /\ UNCHANGED <<tags, pending, parquet, history>>

(* The archiver's DELETE transaction: label rows, rows, and by the cascade  *)
(* the tags of the captures in ids.                                         *)
DeleteRecords(ids) ==
    /\ records' = [id \in CaptureId |-> IF id \in ids THEN 0 ELSE records[id]]
    /\ labels' = [id \in CaptureId |-> IF id \in ids THEN 0 ELSE labels[id]]
    /\ tags' = tags \ ids
    /\ UNCHANGED <<pending, parquet, history>>

(* flush, and the first step of close. *)
Flush ==
    /\ pending # {}
    /\ FlushParquet(pending)
    /\ UNCHANGED <<records, labels, tags, history>>

(* The process dies: the buffer is lost, committed rows are not. *)
LoseBuffer ==
    /\ pending' = {}
    /\ lost' = lost \cup pending
    /\ UNCHANGED <<records, labels, tags, parquet, committed>>

-----------------------------------------------------------------------------
(* What the rest of the process may do with the store: rows are built ahead  *)
(* of their insert and inserted in any order, again on a retry; tag edits,   *)
(* sweeps, flushes and crashes come at any time.                             *)

BuildRow ==
    /\ version < MaxVersion
    /\ version' = version + 1
    /\ UNCHANGED storeVars

StoreRow(id, v) ==
    /\ InsertRecord(id, v) \/ InsertFails(id, v)
    /\ UNCHANGED version

Housekeeping ==
    /\ \/ \E id \in CaptureId : AddTag(id) \/ RemoveTag(id)
       \/ \E ids \in SUBSET CaptureId : DeleteRecords(ids)
       \/ Flush
       \/ LoseBuffer
    /\ UNCHANGED version

Next ==
    \/ BuildRow
    \/ \E id \in CaptureId, v \in 1..version : StoreRow(id, v)
    \/ Housekeeping

Spec == StoreInit /\ [][Next]_vars

-----------------------------------------------------------------------------
(* The inverted index describes exactly the version each row holds, and a   *)
(* tag hangs on a row: /records/by-* and the Tags page never count a ghost, *)
(* whatever insert, delete or failure came last.                            *)
IndexFollowsRecords ==
    /\ labels = records
    /\ tags \subseteq Present

(* Every row a reader can see reaches the Parquet export: it is written,    *)
(* or still buffered, or was buffered when the process died.  A failed      *)
(* rotation must not drop the batch it could not write.                     *)
NoExportGap == LiveRows \subseteq parquet \cup pending \cup lost

(* Index, tags and export describe the rows: what the pages count and what   *)
(* the export holds is never about a row that is not there, or lacks one     *)
(* that is (storage.py insert_record, delete_records, _flush_parquet).       *)
StoreAgrees == IndexFollowsRecords /\ NoExportGap

(* Reprocessing keeps an analyst's tags: a tag leaves a capture only when   *)
(* the user removes it or the row itself goes (the reason insert_record is  *)
(* an upsert and not INSERT OR REPLACE).                                    *)
TagsSurviveReprocess ==
    [][\A id \in tags \ tags' : records'[id] \in {0, records[id]}]_vars

(* storage.py calls Parquet a denormalized export of SQLite, "the index of  *)
(* truth": every exported row was once a committed row.                     *)
ExportsOnlyCommitted == parquet \subseteq committed

=============================================================================
