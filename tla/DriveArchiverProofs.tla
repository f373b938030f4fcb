------------------------- MODULE DriveArchiverProofs -------------------------
(* Theorems about RecordStore, and about DriveArchiver that extends it, for  *)
(* every set of captures, sweep threads and directories and every bound.     *)
(* What does not depend on torn lines (types, locks, snapshot) is proved for *)
(* every TornWrites, what the archive promises for appends that fail between *)
(* lines only.                                                               *)
EXTENDS DriveArchiver, FiniteSetTheorems, WellFoundedInduction, TLAPS

-----------------------------------------------------------------------------
(* The record store, alone or inside a larger system. *)

(* A step of the store, alone or inside a larger system: one of its          *)
(* operations, or a step of somebody else.                                   *)
StoreStep ==
    \/ \E id \in CaptureId, v \in Version : InsertRecord(id, v) \/ InsertFails(id, v)
    \/ \E id \in CaptureId : AddTag(id) \/ RemoveTag(id)
    \/ \E ids \in SUBSET CaptureId : DeleteRecords(ids)
    \/ Flush
    \/ LoseBuffer
    \/ UNCHANGED storeVars

(* Buffering a row, with or without a rotation, loses no row and invents     *)
(* none: the two places together gain exactly that row.                      *)
LEMMA BufferRowAdds ==
    ASSUME NEW row, BufferRow(row)
    PROVE  parquet' \cup pending' = parquet \cup pending \cup {row}
BY DEF BufferRow, FlushParquet

LEMMA BufferRowType ==
    ASSUME StoreTypeOK, NEW row \in Row, BufferRow(row)
    PROVE  pending' \in SUBSET Row /\ parquet' \in SUBSET Row
BY DEF BufferRow, FlushParquet, StoreTypeOK

(* Every operation of the store keeps its variables in their types.          *)
LEMMA StoreTypeStep ==
    ASSUME StoreAssumption, StoreTypeOK, version' \in 0..MaxVersion, StoreStep
    PROVE  StoreTypeOK'
<1> USE DEF StoreTypeOK, storeVars, history
<1>1. ASSUME NEW id \in CaptureId, NEW v \in Version, InsertRecord(id, v)
      PROVE  StoreTypeOK'
  <2>1. <<id, v>> \in Row /\ v \in 0..MaxVersion
        BY StoreAssumption DEF Row, Version, StoreAssumption
  <2>2. pending' \in SUBSET Row /\ parquet' \in SUBSET Row
        BY <1>1, <2>1, BufferRowType DEF InsertRecord
  <2>. QED BY <1>1, <2>1, <2>2 DEF InsertRecord, UpsertRecord
<1>2. ASSUME NEW id \in CaptureId, NEW v \in Version, InsertFails(id, v)
      PROVE  StoreTypeOK'
  <2>1. <<id, v>> \in Row
        BY DEF Row
  <2>2. pending' \in SUBSET Row /\ parquet' \in SUBSET Row
        BY <1>2, <2>1, BufferRowType DEF InsertFails
  <2>. QED BY <1>2, <2>2 DEF InsertFails
<1>3. ASSUME NEW id \in CaptureId, AddTag(id) \/ RemoveTag(id)
      PROVE  StoreTypeOK'
  BY <1>3 DEF AddTag, RemoveTag, Present
<1>4. ASSUME NEW ids \in SUBSET CaptureId, DeleteRecords(ids)
      PROVE  StoreTypeOK'
  BY <1>4, StoreAssumption DEF DeleteRecords, StoreAssumption
<1>5. CASE Flush
  BY <1>5 DEF Flush, FlushParquet
<1>6. CASE LoseBuffer
  BY <1>6 DEF LoseBuffer
<1>7. CASE UNCHANGED storeVars
  BY <1>7
<1>. QED BY <1>1, <1>2, <1>3, <1>4, <1>5, <1>6, <1>7 DEF StoreStep

(* The label rows and the tags follow the rows through every operation.      *)
LEMMA IndexStep ==
    ASSUME StoreAssumption, StoreTypeOK, IndexFollowsRecords, StoreStep
    PROVE  IndexFollowsRecords'
<1> USE DEF StoreTypeOK, IndexFollowsRecords, Present, storeVars, history
<1>1. ASSUME NEW id \in CaptureId, NEW v \in Version, InsertRecord(id, v)
      PROVE  IndexFollowsRecords'
  <2>1. v # 0
        BY StoreAssumption DEF Version, StoreAssumption
  <2>. QED BY <1>1, <2>1 DEF InsertRecord, UpsertRecord
<1>2. ASSUME NEW id \in CaptureId, NEW v \in Version, InsertFails(id, v)
      PROVE  IndexFollowsRecords'
  BY <1>2 DEF InsertFails
<1>3. ASSUME NEW id \in CaptureId, AddTag(id) \/ RemoveTag(id)
      PROVE  IndexFollowsRecords'
  BY <1>3 DEF AddTag, RemoveTag
<1>4. ASSUME NEW ids \in SUBSET CaptureId, DeleteRecords(ids)
      PROVE  IndexFollowsRecords'
  BY <1>4 DEF DeleteRecords
<1>5. CASE Flush \/ LoseBuffer \/ UNCHANGED storeVars
  BY <1>5 DEF Flush, LoseBuffer
<1>. QED BY <1>1, <1>2, <1>3, <1>4, <1>5 DEF StoreStep

(* No operation opens a gap between the rows and their export.               *)
LEMMA ExportStep ==
    ASSUME StoreAssumption, StoreTypeOK, NoExportGap, StoreStep
    PROVE  NoExportGap'
<1> USE DEF StoreTypeOK, NoExportGap, LiveRows, Present, storeVars, history
<1>1. ASSUME NEW id \in CaptureId, NEW v \in Version, InsertRecord(id, v)
      PROVE  NoExportGap'
  <2>1. parquet' \cup pending' = parquet \cup pending \cup {<<id, v>>} /\ lost' = lost
        BY <1>1, BufferRowAdds DEF InsertRecord
  <2>2. \A j \in CaptureId : records'[j] # 0 =>
            <<j, records'[j]>> = <<id, v>> \/ (records[j] # 0 /\ records'[j] = records[j])
        BY <1>1 DEF InsertRecord, UpsertRecord
  <2>. QED BY <2>1, <2>2
<1>2. ASSUME NEW id \in CaptureId, NEW v \in Version, InsertFails(id, v)
      PROVE  NoExportGap'
  <2>1. parquet \cup pending \subseteq parquet' \cup pending'
        BY <1>2, BufferRowAdds DEF InsertFails
  <2>. QED BY <1>2, <2>1 DEF InsertFails
<1>3. ASSUME NEW id \in CaptureId, AddTag(id) \/ RemoveTag(id)
      PROVE  NoExportGap'
  BY <1>3 DEF AddTag, RemoveTag
<1>4. ASSUME NEW ids \in SUBSET CaptureId, DeleteRecords(ids)
      PROVE  NoExportGap'
  BY <1>4 DEF DeleteRecords
<1>5. CASE Flush
  BY <1>5 DEF Flush, FlushParquet
<1>6. CASE LoseBuffer
  BY <1>6 DEF LoseBuffer
<1>7. CASE UNCHANGED storeVars
  BY <1>7
<1>. QED BY <1>1, <1>2, <1>3, <1>4, <1>5, <1>6, <1>7 DEF StoreStep

StoreInv == StoreTypeOK /\ IndexFollowsRecords /\ NoExportGap

LEMMA StoreInitInv ==
    ASSUME StoreAssumption, StoreInit
    PROVE  StoreInv
BY DEF StoreAssumption, StoreInit, StoreInv, StoreTypeOK, IndexFollowsRecords,
       NoExportGap, LiveRows, Present

(* A step of RecordStore is a step of the store.                             *)
LEMMA NextIsStoreStep ==
    ASSUME StoreAssumption, StoreTypeOK, [Next]_vars
    PROVE  StoreStep /\ version' \in 0..MaxVersion
<1>1. CASE BuildRow
  BY <1>1 DEF BuildRow, StoreStep, StoreTypeOK, StoreAssumption
<1>4. ASSUME NEW id \in CaptureId, NEW v \in 1..version, StoreRow(id, v)
      PROVE  StoreStep /\ version' \in 0..MaxVersion
  <2>1. v \in Version
        BY DEF Version, StoreTypeOK, StoreAssumption
  <2>. QED BY <1>4, <2>1 DEF StoreRow, StoreStep, StoreTypeOK
<1>2. CASE Housekeeping
  BY <1>2 DEF Housekeeping, StoreStep, Present, StoreTypeOK
<1>3. CASE UNCHANGED vars
  BY <1>3 DEF vars, StoreStep, StoreTypeOK
<1>. QED BY <1>1, <1>2, <1>3, <1>4 DEF Next

(* In every reachable state the variables have their types, the inverted     *)
(* index and the tags follow the rows, and no row is missing from the export.*)
THEOREM StoreCorrect == Spec => [](StoreTypeOK /\ StoreAgrees)
<1>1. StoreInit => StoreInv
      BY StoreAssumption, StoreInitInv
<1>2. StoreInv /\ [Next]_vars => StoreInv'
      BY StoreAssumption, NextIsStoreStep, StoreTypeStep, IndexStep, ExportStep DEF StoreInv
<1>3. StoreInv => StoreTypeOK /\ StoreAgrees
      BY DEF StoreInv, StoreAgrees
<1>. QED BY <1>1, <1>2, <1>3, PTL DEF Spec

(* A tag goes with its row or by the user's hand, in every operation.        *)
LEMMA TagsStep ==
    ASSUME StoreAssumption, StoreTypeOK, StoreStep
    PROVE  \A id \in tags \ tags' : records'[id] \in {0, records[id]}
<1> USE DEF StoreTypeOK, storeVars, history
<1>1. CASE \E id \in CaptureId, v \in Version : InsertRecord(id, v) \/ InsertFails(id, v)
  BY <1>1 DEF InsertRecord, UpsertRecord, InsertFails
<1>2. CASE \E id \in CaptureId : AddTag(id) \/ RemoveTag(id)
  BY <1>2 DEF AddTag, RemoveTag
<1>3. ASSUME NEW ids \in SUBSET CaptureId, DeleteRecords(ids)
      PROVE  \A id \in tags \ tags' : records'[id] \in {0, records[id]}
  BY <1>3 DEF DeleteRecords
<1>4. CASE Flush \/ LoseBuffer \/ UNCHANGED storeVars
  BY <1>4 DEF Flush, LoseBuffer
<1>. QED BY <1>1, <1>2, <1>3, <1>4 DEF StoreStep

(* No reprocessing pass, in whatever order with sweeps, failures and edits,  *)
(* costs a capture its tags.                                                 *)
THEOREM TagsKept == Spec => TagsSurviveReprocess
<1>1. [Next]_vars /\ StoreTypeOK =>
          [\A id \in tags \ tags' : records'[id] \in {0, records[id]}]_vars
      BY StoreAssumption, NextIsStoreStep, TagsStep
<1>. QED BY <1>1, StoreCorrect, PTL DEF Spec, TagsSurviveReprocess

-----------------------------------------------------------------------------
(* The archiver. *)

(* The steps that touch neither a lock nor a sweep. *)
Beside ==
    \/ \E id \in CaptureId : BuildRecord(id) \/ EditTag(id)
    \/ \E row \in inflight : StoreRecord(row)
    \/ Midnight \/ BeginStop \/ Drained \/ CloseStore

-----------------------------------------------------------------------------
(* The store inside the composed system. *)

LEMMA ArchStepIsStoreStep ==
    ASSUME ArchTypeOK, [ArchNext]_allVars
    PROVE  StoreStep /\ version' \in 0..MaxVersion
<1> USE StoreAssumption, ArchiverAssumption
    DEF StoreAssumption, ArchiverAssumption, ArchTypeOK, StoreTypeOK
<1>1. CASE Beside
  <2>1. ASSUME NEW id \in CaptureId, BuildRecord(id) \/ EditTag(id)
        PROVE  StoreStep /\ version' \in 0..MaxVersion
        BY <2>1 DEF BuildRecord, EditTag, StoreStep, archVars
  <2>2. ASSUME NEW row \in inflight, StoreRecord(row)
        PROVE  StoreStep /\ version' \in 0..MaxVersion
    <3>1. row[1] \in CaptureId /\ row[2] \in Version
          BY DEF Row
    <3>. QED BY <2>2, <3>1 DEF StoreRecord, StoreStep
  <2>3. CASE Midnight \/ BeginStop \/ Drained \/ CloseStore
        BY <2>3 DEF Midnight, BeginStop, Drained, CloseStore, StoreStep
  <2>. QED BY <1>1, <2>1, <2>2, <2>3 DEF Beside
<1>2. CASE Restart
  BY <1>2 DEF Restart, StoreStep
<1>3. CASE UNCHANGED allVars
  BY <1>3 DEF allVars, StoreStep
<1>4. ASSUME NEW s \in Sweeper, DeleteBatch(s)
      PROVE  StoreStep /\ version' \in 0..MaxVersion
  <2>1. Ids(batch[s]) \in SUBSET CaptureId
        BY DEF Ids, Row
  <2>. QED BY <1>4, <2>1 DEF DeleteBatch, StoreStep
<1>5. ASSUME NEW s \in Sweeper,
             Dispatch(s) \/ EnterSweep(s) \/ SelectBatch(s) \/ WriteCsv(s)
                \/ WriteFails(s) \/ SqliteFails(s) \/ BeginPurge(s)
                \/ UnlinkVector(s) \/ EndSweep(s)
                \/ \E id \in CaptureId : ExamineVector(s, id)
      PROVE  UNCHANGED storeVars /\ version' = version
  BY <1>5 DEF Dispatch, EnterSweep, SelectBatch, WriteCsv, WriteFails, SqliteFails,
       BeginPurge, UnlinkVector, EndSweep, ExamineVector
<1>6. ASSUME NEW s \in Sweeper,
             Dispatch(s) \/ EnterSweep(s) \/ SelectBatch(s) \/ WriteCsv(s)
                \/ WriteFails(s) \/ SqliteFails(s) \/ BeginPurge(s)
                \/ UnlinkVector(s) \/ EndSweep(s)
                \/ \E id \in CaptureId : ExamineVector(s, id)
      PROVE  StoreStep /\ version' \in 0..MaxVersion
  BY <1>5, <1>6 DEF StoreStep
<1>. QED BY <1>1, <1>2, <1>3, <1>4, <1>6 DEF ArchNext, Sweep, Beside

-----------------------------------------------------------------------------
(* Types and locks. *)

LEMMA LeaveSweepType ==
    ASSUME ArchTypeOK, NEW s \in Sweeper, LeaveSweep(s)
    PROVE  /\ pc' \in [Sweeper -> {"off", "dispatched", "entered", "write", "delete",
                                   "purge", "purging"}]
           /\ started' \in [Sweeper -> 0..MaxVersion + 1]
           /\ batch' \in [Sweeper -> SUBSET Row]
           /\ todo' \in [Sweeper -> SUBSET CaptureId]
           /\ doomed' \in [Sweeper -> CaptureId \cup {NoCapture}]
           /\ lock' = Nobody /\ runLock' = Nobody
BY StoreAssumption DEF LeaveSweep, ArchTypeOK, StoreAssumption

(* An append keeps the files' types, and takes no line away.                 *)
LEMMA AppendRowsType ==
    ASSUME ArchTypeOK, NEW f \in File, NEW rows, AppendRows(f, rows)
    PROVE  /\ csv' \in [File -> [Row -> 0..2]]
           /\ \A g \in File, l \in Row : csv[g][l] > 0 => csv'[g][l] > 0
<1> DEFINE new == [l \in Row |-> IF l \in Appended(f, rows) /\ csv[f][l] < 2
                                 THEN csv[f][l] + 1 ELSE csv[f][l]]
<1>1. csv' = [csv EXCEPT ![f] = new] /\ csv \in [File -> [Row -> 0..2]]
  BY DEF AppendRows, ArchTypeOK
<1>2. new \in [Row -> 0..2] /\ \A l \in Row : csv[f][l] > 0 => new[l] > 0
  <2>1. \A l \in Row : csv[f][l] \in 0..2
        BY <1>1
  <2>. QED BY <2>1
<1> HIDE DEF new
<1>3. csv' \in [File -> [Row -> 0..2]]
  BY <1>1, <1>2
<1>4. ASSUME NEW g \in File, NEW l \in Row, csv[g][l] > 0
      PROVE  csv'[g][l] > 0
  BY <1>1, <1>2, <1>4
<1>. QED BY <1>3, <1>4

LEMMA TargetIsFile ==
    ASSUME ArchTypeOK, NEW d \in {dir} \cup (Dir \ {Primary})
    PROVE  Target(d) \in File
BY DEF ArchTypeOK, Target, File

LEMMA ArchTypeStep ==
    ASSUME ArchTypeOK, [ArchNext]_allVars
    PROVE  ArchTypeOK'
<1>0. StoreTypeOK'
  BY StoreAssumption, ArchStepIsStoreStep, StoreTypeStep DEF ArchTypeOK
<1> USE <1>0, StoreAssumption, ArchiverAssumption
    DEF StoreAssumption, ArchiverAssumption, ArchTypeOK, fileVars, sweepVars, lockVars,
        procVars, archVars, allVars
<1>1. ASSUME NEW id \in CaptureId, BuildRecord(id) \/ EditTag(id)
      PROVE  ArchTypeOK'
  <2>1. CASE BuildRecord(id)
    <3>1. version + 1 \in Version
          BY <2>1 DEF BuildRecord, StoreTypeOK, Version
    <3>2. inflight' \in SUBSET Row
          BY <2>1, <3>1 DEF BuildRecord, Row
    <3>3. vec' \in [CaptureId -> 0..MaxVersion]
          BY <2>1, <3>1 DEF BuildRecord, Version
    <3>. QED BY <2>1, <3>2, <3>3 DEF BuildRecord
  <2>2. CASE EditTag(id)
        BY <2>2 DEF EditTag
  <2>. QED BY <1>1, <2>1, <2>2
<1>2. ASSUME NEW row \in inflight, StoreRecord(row)
      PROVE  ArchTypeOK'
  BY <1>2 DEF StoreRecord
<1>3. CASE Midnight \/ BeginStop \/ Drained \/ CloseStore
  BY <1>3 DEF Midnight, BeginStop, Drained, CloseStore
<1>4. CASE Restart
  <2>1. csv' \in [File -> [Row -> 0..2]]
        BY <1>4 DEF Restart
  <2>2. torn' \in SUBSET File
        BY <1>4 DEF Restart
  <2>3. started' \in [Sweeper -> 0..MaxVersion + 1]
        BY <1>4 DEF Restart
  <2>. QED BY <1>4, <2>1, <2>2, <2>3 DEF Restart
<1>5. ASSUME NEW s \in Sweeper, Dispatch(s)
      PROVE  ArchTypeOK'
  BY <1>5 DEF Dispatch
<1>6. ASSUME NEW s \in Sweeper, EnterSweep(s)
      PROVE  ArchTypeOK'
  <2>1. version + 1 \in 0..MaxVersion + 1
        BY DEF StoreTypeOK
  <2>. QED BY <1>6, <2>1 DEF EnterSweep
<1>7. ASSUME NEW s \in Sweeper, SelectBatch(s)
      PROVE  ArchTypeOK'
  <2>1. CASE Selected = {} /\ LeaveSweep(s)
        BY <1>7, <2>1, LeaveSweepType DEF SelectBatch
  <2>2. {<<id, records[id]>> : id \in Selected} \in SUBSET Row
    <3>1. \A id \in Selected : id \in CaptureId /\ records[id] \in Version
          BY DEF Selected, Overflow, Present, Version, StoreTypeOK
    <3>. QED BY <3>1 DEF Row
  <2>. QED BY <1>7, <2>1, <2>2 DEF SelectBatch
<1>8. ASSUME NEW s \in Sweeper, WriteCsv(s)
      PROVE  ArchTypeOK'
  <2>1. PICK d \in {dir} \cup (Dir \ {Primary}) :
            /\ \E seen : AppendRows(Target(d), {r \in batch[s] : r[1] \notin seen})
            /\ synced' = [synced EXCEPT ![Target(d)] = {l \in Row : csv'[Target(d)][l] > 0}]
            /\ torn' \in {torn, torn \ {Target(d)}}
            /\ dir' = d
        BY <1>8 DEF WriteCsv
  <2>2. csv' \in [File -> [Row -> 0..2]]
        BY <2>1, TargetIsFile, AppendRowsType
  <2>3. synced' \in [File -> SUBSET Row]
        BY <2>1, TargetIsFile
  <2>. QED BY <1>8, <2>1, <2>2, <2>3 DEF WriteCsv
<1>9. ASSUME NEW s \in Sweeper, WriteFails(s)
      PROVE  ArchTypeOK'
  <2>1. PICK d \in {dir} \cup (Dir \ {Primary}) :
            /\ \E rows : AppendRows(Target(d), rows)
            /\ torn' \in {torn, torn \ {Target(d)}, torn \cup {Target(d)}}
            /\ dir' = d
        BY <1>9 DEF WriteFails
  <2>2. csv' \in [File -> [Row -> 0..2]]
        BY <2>1, TargetIsFile, AppendRowsType
  <2>3. torn' \in SUBSET File
        BY <2>1, TargetIsFile
  <2>4. LeaveSweep(s)
        BY <1>9 DEF WriteFails
  <2>. QED BY <1>9, <2>1, <2>2, <2>3, <2>4, LeaveSweepType DEF WriteFails
<1>10. ASSUME NEW s \in Sweeper, DeleteBatch(s)
       PROVE  ArchTypeOK'
  <2>1. Ids(batch[s]) \in SUBSET CaptureId
        BY DEF Ids, Row
  <2>. QED BY <1>10, <2>1 DEF DeleteBatch
<1>11. ASSUME NEW s \in Sweeper, SqliteFails(s)
       PROVE  ArchTypeOK'
  BY <1>11, LeaveSweepType DEF SqliteFails
<1>12. ASSUME NEW s \in Sweeper, BeginPurge(s)
       PROVE  ArchTypeOK'
  BY <1>12 DEF BeginPurge
<1>13. ASSUME NEW s \in Sweeper, NEW id \in CaptureId, ExamineVector(s, id)
       PROVE  ArchTypeOK'
  BY <1>13 DEF ExamineVector
<1>14. ASSUME NEW s \in Sweeper, UnlinkVector(s)
       PROVE  ArchTypeOK'
  BY <1>14 DEF UnlinkVector
<1>15. ASSUME NEW s \in Sweeper, EndSweep(s)
       PROVE  ArchTypeOK'
  BY <1>15, LeaveSweepType DEF EndSweep
<1>16. CASE UNCHANGED allVars
  BY <1>16
<1>. QED BY <1>1, <1>2, <1>3, <1>4, <1>5, <1>6, <1>7, <1>8, <1>9, <1>10, <1>11, <1>12,
            <1>13, <1>14, <1>15, <1>16 DEF ArchNext, Sweep

-----------------------------------------------------------------------------
(* Mutual exclusion, and what it gives. *)

LEMMA LockStep ==
    ASSUME ArchTypeOK, LockDiscipline, [ArchNext]_allVars
    PROVE  LockDiscipline'
<1> USE ArchiverAssumption
    DEF ArchiverAssumption, ArchTypeOK, LockDiscipline, lockVars, sweepVars, archVars, allVars
<1>1. CASE UNCHANGED allVars
  BY <1>1
<1>2. ASSUME NEW id \in CaptureId, BuildRecord(id) \/ EditTag(id)
      PROVE  LockDiscipline'
  BY <1>2 DEF BuildRecord, EditTag
<1>3. ASSUME NEW row \in inflight, StoreRecord(row)
      PROVE  LockDiscipline'
  BY <1>3 DEF StoreRecord
<1>4. CASE Midnight \/ BeginStop \/ Drained \/ CloseStore
  BY <1>4 DEF Midnight, BeginStop, Drained, CloseStore
<1>5. CASE Restart
  BY <1>5 DEF Restart
<1>6. ASSUME NEW s \in Sweeper, Dispatch(s) \/ EnterSweep(s)
      PROVE  LockDiscipline'
  BY <1>6 DEF Dispatch, EnterSweep
<1>7. ASSUME NEW s \in Sweeper, SelectBatch(s)
      PROVE  LockDiscipline'
  BY <1>7 DEF SelectBatch, LeaveSweep
<1>8. ASSUME NEW s \in Sweeper, WriteCsv(s) \/ DeleteBatch(s) \/ BeginPurge(s)
      PROVE  LockDiscipline'
  BY <1>8 DEF WriteCsv, DeleteBatch, BeginPurge
<1>9. ASSUME NEW s \in Sweeper, WriteFails(s) \/ SqliteFails(s) \/ EndSweep(s)
      PROVE  LockDiscipline'
  <2>1. LeaveSweep(s) /\ lock \in {Nobody, s} /\ runLock = s
        BY <1>9 DEF WriteFails, SqliteFails, EndSweep
  <2>. QED BY <2>1 DEF LeaveSweep
<1>10. ASSUME NEW s \in Sweeper,
              UnlinkVector(s) \/ \E id \in CaptureId : ExamineVector(s, id)
       PROVE  LockDiscipline'
  BY <1>10 DEF UnlinkVector, ExamineVector
<1>. QED BY <1>1, <1>2, <1>3, <1>4, <1>5, <1>6, <1>7, <1>8, <1>9, <1>10
         DEF ArchNext, Sweep

(* While a sweep owns Storage._lock the table changes by its own DELETE only. *)
LEMMA OwnerKeepsRecords ==
    ASSUME ArchTypeOK, LockDiscipline, [ArchNext]_allVars,
           NEW s \in Sweeper, lock = s
    PROVE  records' = records \/ DeleteBatch(s) \/ Restart
<1> USE ArchiverAssumption DEF ArchiverAssumption, LockDiscipline, storeVars
<1>1. ASSUME NEW id \in CaptureId, BuildRecord(id) \/ EditTag(id)
      PROVE  records' = records
  BY <1>1 DEF BuildRecord, EditTag
<1>2. ASSUME NEW row \in inflight, StoreRecord(row)
      PROVE  FALSE
  BY <1>2 DEF StoreRecord
<1>3. CASE Midnight \/ BeginStop \/ Drained \/ CloseStore
  BY <1>3 DEF Midnight, BeginStop, Drained, CloseStore, Flush
<1>4. ASSUME NEW t \in Sweeper,
             Dispatch(t) \/ EnterSweep(t) \/ SelectBatch(t) \/ WriteCsv(t)
                \/ WriteFails(t) \/ SqliteFails(t) \/ BeginPurge(t)
                \/ UnlinkVector(t) \/ EndSweep(t)
                \/ \E id \in CaptureId : ExamineVector(t, id)
      PROVE  records' = records
  BY <1>4 DEF Dispatch, EnterSweep, SelectBatch, WriteCsv, WriteFails, SqliteFails,
       BeginPurge, UnlinkVector, EndSweep, ExamineVector
<1>5. ASSUME NEW t \in Sweeper, DeleteBatch(t)
      PROVE  DeleteBatch(s)
  BY <1>5 DEF DeleteBatch
<1>6. CASE UNCHANGED allVars
  BY <1>6 DEF allVars
<1>. QED BY <1>1, <1>2, <1>3, <1>4, <1>5, <1>6 DEF ArchNext, Sweep

(* Another thread's step leaves a sweep's own variables alone.               *)
LEMMA OthersLeaveSweep ==
    ASSUME ArchTypeOK, [ArchNext]_allVars, NEW s \in Sweeper
    PROVE  \/ Restart
           \/ Dispatch(s) \/ Sweep(s)
           \/ pc'[s] = pc[s] /\ batch'[s] = batch[s] /\ doomed'[s] = doomed[s]
<1> USE DEF ArchTypeOK, sweepVars, archVars, allVars
<1>1. ASSUME NEW t \in Sweeper, t # s, Dispatch(t) \/ Sweep(t)
      PROVE  pc'[s] = pc[s] /\ batch'[s] = batch[s] /\ doomed'[s] = doomed[s]
  <2>1. CASE Dispatch(t) \/ EnterSweep(t) \/ WriteCsv(t) \/ DeleteBatch(t)
                \/ BeginPurge(t) \/ UnlinkVector(t)
                \/ \E id \in CaptureId : ExamineVector(t, id)
        BY <1>1, <2>1 DEF Dispatch, EnterSweep, WriteCsv, DeleteBatch, BeginPurge,
             UnlinkVector, ExamineVector
  <2>2. CASE SelectBatch(t) \/ WriteFails(t) \/ SqliteFails(t) \/ EndSweep(t)
        BY <1>1, <2>2 DEF SelectBatch, WriteFails, SqliteFails, EndSweep, LeaveSweep
  <2>. QED BY <1>1, <2>1, <2>2 DEF Sweep
<1>2. CASE Beside \/ UNCHANGED allVars
  BY <1>2 DEF Beside, BuildRecord, EditTag, StoreRecord, Midnight, BeginStop, Drained,
       CloseStore
<1>. QED BY <1>1, <1>2 DEF ArchNext, Beside

LEMMA SnapshotStep ==
    ASSUME ArchTypeOK, LockDiscipline, SnapshotIsCurrent, [ArchNext]_allVars
    PROVE  SnapshotIsCurrent'
<1> SUFFICES ASSUME NEW s \in Sweeper, pc'[s] \in {"write", "delete"}
             PROVE  batch'[s] \subseteq LiveRows'
    BY DEF SnapshotIsCurrent
<1> USE DEF ArchTypeOK
<1>1. CASE Restart
  BY <1>1 DEF Restart
<1>2. CASE pc'[s] = pc[s] /\ batch'[s] = batch[s] /\ ~Restart
  <2>1. lock = s /\ ~DeleteBatch(s)
        BY <1>2 DEF LockDiscipline, DeleteBatch
  <2>2. records' = records
        BY <1>2, <2>1, OwnerKeepsRecords
  <2>. QED BY <1>2, <2>2 DEF SnapshotIsCurrent, LiveRows, Present
<1>3. CASE SelectBatch(s)
  <2>1. records' = records /\ batch'[s] = {<<id, records[id]>> : id \in Selected}
        BY <1>3 DEF SelectBatch, LeaveSweep, storeVars
  <2>. QED BY <2>1 DEF LiveRows, Present, Selected, Overflow
<1>4. CASE WriteCsv(s)
  BY <1>4 DEF WriteCsv, SnapshotIsCurrent, LiveRows, Present, storeVars
<1>5. CASE Dispatch(s) \/ EnterSweep(s) \/ DeleteBatch(s) \/ BeginPurge(s)
              \/ WriteFails(s) \/ SqliteFails(s) \/ EndSweep(s)
  BY <1>5 DEF Dispatch, EnterSweep, DeleteBatch, BeginPurge, WriteFails, SqliteFails,
       EndSweep, LeaveSweep
<1>6. CASE UnlinkVector(s) \/ \E id \in CaptureId : ExamineVector(s, id)
  BY <1>6 DEF UnlinkVector, ExamineVector
<1>. QED BY <1>1, <1>2, <1>3, <1>4, <1>5, <1>6, OthersLeaveSweep DEF Sweep

LEMMA DoomedStep ==
    ASSUME ArchTypeOK, LockDiscipline, DoomedIsAbsent, [ArchNext]_allVars
    PROVE  DoomedIsAbsent'
<1> SUFFICES ASSUME NEW s \in Sweeper, doomed'[s] # NoCapture
             PROVE  pc'[s] = "purging" /\ records'[doomed'[s]] = 0
    BY DEF DoomedIsAbsent
<1> USE DEF ArchTypeOK
<1>1. CASE Restart
  BY <1>1 DEF Restart
<1>2. CASE pc'[s] = pc[s] /\ doomed'[s] = doomed[s] /\ ~Restart
  <2>1. lock = s /\ ~DeleteBatch(s)
        BY <1>2 DEF LockDiscipline, DoomedIsAbsent, DeleteBatch
  <2>2. records' = records
        BY <1>2, <2>1, OwnerKeepsRecords
  <2>. QED BY <1>2, <2>2 DEF DoomedIsAbsent
<1>3. CASE \E id \in CaptureId : ExamineVector(s, id)
  <2>1. records' = records /\ pc' = pc /\ pc[s] = "purging"
        BY <1>3 DEF ExamineVector, storeVars
  <2>2. doomed' = doomed \/ \E id \in CaptureId : doomed'[s] = id /\ records[id] = 0
        BY <1>3 DEF ExamineVector, Purgeable
  <2>. QED BY <2>1, <2>2 DEF DoomedIsAbsent
<1>4. CASE Dispatch(s) \/ EnterSweep(s) \/ WriteCsv(s) \/ DeleteBatch(s) \/ BeginPurge(s)
              \/ UnlinkVector(s)
  BY <1>4 DEF Dispatch, EnterSweep, WriteCsv, DeleteBatch, BeginPurge, UnlinkVector,
       DoomedIsAbsent, storeVars
<1>5. CASE SelectBatch(s) \/ WriteFails(s) \/ SqliteFails(s) \/ EndSweep(s)
  BY <1>5 DEF SelectBatch, WriteFails, SqliteFails, EndSweep, LeaveSweep, DoomedIsAbsent
<1>. QED BY <1>1, <1>2, <1>3, <1>4, <1>5, OthersLeaveSweep DEF Sweep

LEMMA ArchInitLock ==
    ASSUME ArchInit
    PROVE  LockInv
<1>1. StoreTypeOK
  BY StoreAssumption, StoreInitInv DEF ArchInit, StoreInv
<1>2. started \in [Sweeper -> 0..MaxVersion + 1] /\ vec \in [CaptureId -> 0..MaxVersion]
  BY StoreAssumption DEF ArchInit, StoreAssumption
<1>3. csv \in [File -> [Row -> 0..2]]
  BY DEF ArchInit
<1>4. day \in 1..MaxDay /\ restarts \in 0..MaxRestarts /\ dir \in Dir
  BY ArchiverAssumption DEF ArchInit, ArchiverAssumption
<1>5. ArchTypeOK
  BY <1>1, <1>2, <1>3, <1>4 DEF ArchInit, ArchTypeOK
<1>. QED BY <1>5 DEF ArchInit, LockInv, LockDiscipline, DoomedIsAbsent, SnapshotIsCurrent

LEMMA LockInvStep ==
    ASSUME LockInv, [ArchNext]_allVars
    PROVE  LockInv'
BY ArchTypeStep, LockStep, DoomedStep, SnapshotStep DEF LockInv

(* The variables of the composed system keep their types.                    *)
THEOREM ArchTypeCorrect == ArchSpec => []ArchTypeOK
<1>1. ArchInit => LockInv
  BY ArchInitLock
<1>2. LockInv /\ [ArchNext]_allVars => LockInv'
  BY LockInvStep
<1>3. LockInv => ArchTypeOK
  BY DEF LockInv
<1>. QED BY <1>1, <1>2, <1>3, PTL DEF ArchSpec

(* Whatever the ingest threads, a second sweep, failures and crashes do, the *)
(* rows a sweep is about to delete are the rows it selected.                 *)
THEOREM SnapshotCorrect == ArchSpec => []SnapshotIsCurrent
<1>1. ArchInit => LockInv
  BY ArchInitLock
<1>2. LockInv /\ [ArchNext]_allVars => LockInv'
  BY LockInvStep
<1>3. LockInv => SnapshotIsCurrent
  BY DEF LockInv
<1>. QED BY <1>1, <1>2, <1>3, PTL DEF ArchSpec

(* When stop has waited its turn at _run_lock, every sweep that had begun is *)
(* over.                                                                     *)
THEOREM StopDrains == ArchSpec => StopDrainsSweeps
<1> DEFINE Drains == phase' = "drained" /\ phase # "drained" =>
                        \A s \in Sweeper : pc[s] \in {"off", "dispatched"}
<1>1. ArchInit => LockInv
  BY ArchInitLock
<1>2. LockInv /\ [ArchNext]_allVars => LockInv'
  BY LockInvStep
<1>3. LockInv /\ [ArchNext]_allVars => [Drains]_allVars
  <2> SUFFICES ASSUME LockInv, ArchNext, phase' = "drained", phase # "drained"
               PROVE  \A s \in Sweeper : pc[s] \in {"off", "dispatched"}
      BY DEF Drains
  <2>1. Drained
        BY DEF ArchNext, Sweep, BuildRecord, EditTag, StoreRecord, Dispatch, EnterSweep,
           SelectBatch, WriteCsv, WriteFails, DeleteBatch, SqliteFails, BeginPurge,
           ExamineVector, UnlinkVector, EndSweep, Midnight, BeginStop, CloseStore, Restart,
           archVars, procVars
  <2>. QED BY <2>1, ArchiverAssumption
       DEF Drained, LockInv, LockDiscipline, ArchTypeOK, ArchiverAssumption
<1> HIDE DEF Drains
<1>4. ArchSpec => [][Drains]_allVars
  BY <1>1, <1>2, <1>3, PTL DEF ArchSpec
<1>. QED BY <1>4 DEF StopDrainsSweeps, Drains

(* No step unlinks the vector of a capture that has a row at that moment.    *)
THEOREM LiveVectors == ArchSpec => LiveVectorKept
<1> DEFINE Kept == \A id \in CaptureId : vec[id] # 0 /\ vec'[id] = 0 => id \notin Present
<1>1. ArchInit => LockInv
  BY ArchInitLock
<1>2. LockInv /\ [ArchNext]_allVars => LockInv'
  BY LockInvStep
<1>3. LockInv /\ [ArchNext]_allVars => [Kept]_allVars
  <2> SUFFICES ASSUME LockInv, ArchNext, NEW id \in CaptureId, vec[id] # 0, vec'[id] = 0
               PROVE  id \notin Present
      BY DEF Kept
  <2>1. ASSUME NEW s \in Sweeper, UnlinkVector(s)
        PROVE  id \notin Present
        BY <2>1 DEF UnlinkVector, LockInv, DoomedIsAbsent, ArchTypeOK, Present
  <2>2. ASSUME NEW j \in CaptureId, BuildRecord(j)
        PROVE  vec'[id] # 0
        BY <2>2, StoreAssumption
        DEF BuildRecord, LockInv, ArchTypeOK, StoreTypeOK, StoreAssumption
  <2>. QED BY <2>1, <2>2
       DEF ArchNext, Sweep, EditTag, StoreRecord, Dispatch, EnterSweep, SelectBatch,
           WriteCsv, WriteFails, DeleteBatch, SqliteFails, BeginPurge, ExamineVector,
           EndSweep, Midnight, BeginStop, Drained, CloseStore, Restart, archVars
<1> HIDE DEF Kept
<1>4. ArchSpec => [][Kept]_allVars
  BY <1>1, <1>2, <1>3, PTL DEF ArchSpec
<1>. QED BY <1>4 DEF LiveVectorKept, Kept

-----------------------------------------------------------------------------
(* What RecordStore assumes of the rest of the process is what the system    *)
(* does: no step of it goes behind the store's back.                         *)

(* A row waiting for its insert was built by a pass that has been counted.   *)
InflightIsBuilt == \A r \in inflight : r[2] <= version

LEMMA InflightStep ==
    ASSUME ArchTypeOK, InflightIsBuilt, [ArchNext]_allVars
    PROVE  InflightIsBuilt'
<1> USE DEF ArchTypeOK, StoreTypeOK, InflightIsBuilt, archVars, allVars, storeVars
<1>1. ASSUME NEW id \in CaptureId, BuildRecord(id) \/ EditTag(id)
      PROVE  InflightIsBuilt'
  <2>1. \A r \in inflight : r[2] \in Nat
        BY StoreAssumption DEF Row, Version, StoreAssumption
  <2>. QED BY <1>1, <2>1 DEF BuildRecord, EditTag
<1>2. ASSUME NEW row \in inflight, StoreRecord(row)
      PROVE  InflightIsBuilt'
  BY <1>2 DEF StoreRecord
<1>3. CASE Midnight \/ BeginStop \/ Drained \/ CloseStore \/ Restart
  BY <1>3 DEF Midnight, BeginStop, Drained, CloseStore, Restart
<1>4. ASSUME NEW s \in Sweeper, Dispatch(s) \/ Sweep(s)
      PROVE  InflightIsBuilt'
  BY <1>4 DEF Dispatch, Sweep, EnterSweep, SelectBatch, WriteCsv, WriteFails, DeleteBatch,
       SqliteFails, BeginPurge, UnlinkVector, EndSweep, ExamineVector
<1>5. CASE UNCHANGED allVars
  BY <1>5
<1>. QED BY <1>1, <1>2, <1>3, <1>4, <1>5 DEF ArchNext

LEMMA ArchStepIsNext ==
    ASSUME ArchTypeOK, InflightIsBuilt, [ArchNext]_allVars
    PROVE  [Next]_vars
<1> USE DEF ArchTypeOK, StoreTypeOK, vars
<1>1. ASSUME NEW id \in CaptureId, BuildRecord(id)
      PROVE  Next
  BY <1>1 DEF BuildRecord, Next, BuildRow
<1>2. ASSUME NEW id \in CaptureId, EditTag(id)
      PROVE  Next
  BY <1>2 DEF EditTag, Next, Housekeeping
<1>3. ASSUME NEW row \in inflight, StoreRecord(row)
      PROVE  Next
  <2>1. row[1] \in CaptureId /\ row[2] \in 1..version
        BY StoreAssumption DEF Row, Version, InflightIsBuilt, StoreAssumption
  <2>. QED BY <1>3, <2>1 DEF StoreRecord, Next, StoreRow
<1>4. CASE CloseStore
  BY <1>4 DEF CloseStore, Next, Housekeeping
<1>5. CASE Restart
  BY <1>5 DEF Restart, Next, Housekeeping
<1>6. ASSUME NEW s \in Sweeper, DeleteBatch(s)
      PROVE  Next
  <2>1. Ids(batch[s]) \in SUBSET CaptureId
        BY DEF Ids, Row
  <2>. QED BY <1>6, <2>1 DEF DeleteBatch, Next, Housekeeping
<1>7. ASSUME NEW s \in Sweeper,
             Dispatch(s) \/ EnterSweep(s) \/ SelectBatch(s) \/ WriteCsv(s)
                \/ WriteFails(s) \/ SqliteFails(s) \/ BeginPurge(s)
                \/ UnlinkVector(s) \/ EndSweep(s)
                \/ \E id \in CaptureId : ExamineVector(s, id)
      PROVE  UNCHANGED vars
  BY <1>7 DEF Dispatch, EnterSweep, SelectBatch, WriteCsv, WriteFails, SqliteFails,
       BeginPurge, UnlinkVector, EndSweep, ExamineVector
<1>8. CASE Midnight \/ BeginStop \/ Drained
  BY <1>8 DEF Midnight, BeginStop, Drained
<1>9. CASE UNCHANGED allVars
  BY <1>9 DEF allVars
<1>. QED BY <1>1, <1>2, <1>3, <1>4, <1>5, <1>6, <1>7, <1>8, <1>9 DEF ArchNext, Sweep

(* The composed system implements RecordStore: whatever holds of the store   *)
(* on its own, under any use, holds of the store inside the process.         *)
THEOREM SystemUsesStore == ArchSpec => Spec
<1>1. ArchInit => ArchTypeOK /\ InflightIsBuilt /\ StoreInit
  BY ArchInitLock DEF LockInv, ArchInit, InflightIsBuilt
<1>2. ArchTypeOK /\ InflightIsBuilt /\ [ArchNext]_allVars
        => ArchTypeOK' /\ InflightIsBuilt' /\ [Next]_vars
  BY ArchTypeStep, InflightStep, ArchStepIsNext
<1>. QED BY <1>1, <1>2, PTL DEF ArchSpec, Spec

(* The index, the tags and the Parquet export stay consistent with the rows  *)
(* in the composed system too, and reprocessing keeps an analyst's tags:     *)
(* sweeps, teardown and crashes included.                                    *)
THEOREM StoreInSystem ==
    ArchSpec => []StoreAgrees /\ TagsSurviveReprocess
<1>1. Spec => []StoreAgrees
  BY StoreCorrect, PTL
<1>. QED BY <1>1, SystemUsesStore, TagsKept

-----------------------------------------------------------------------------
(* What the archive holds, when an append fails between lines only.          *)

(* An append adds exactly its rows. *)
LEMMA AppendAdds ==
    ASSUME ArchTypeOK, NoStump, NEW f \in File, NEW rows, AppendRows(f, rows),
           NEW g \in File, NEW l \in Row
    PROVE  csv'[g][l] > 0 <=> csv[g][l] > 0 \/ (g = f /\ l \in rows)
<1>1. Appended(f, rows) = rows /\ csv[f][l] \in 0..2
  BY DEF NoStump, Appended, ArchTypeOK
<1>2. csv'[f][l] = IF l \in rows /\ csv[f][l] < 2 THEN csv[f][l] + 1 ELSE csv[f][l]
  BY <1>1 DEF AppendRows, ArchTypeOK
<1>3. g # f => csv'[g] = csv[g]
  BY DEF AppendRows, ArchTypeOK
<1>. QED BY <1>1, <1>2, <1>3

(* What the two outcomes of a write have in common: rows of the batch go to  *)
(* one file, and only a file that was fsynced counts more lines as durable.  *)
LEMMA WriteEffect ==
    ASSUME ArchInv, TornWrites = FALSE, NEW s \in Sweeper, WriteCsv(s) \/ WriteFails(s)
    PROVE  \E f \in File, rows \in SUBSET batch[s] :
             /\ AppendRows(f, rows)
             /\ torn' = {}
             /\ synced' \in {synced, [synced EXCEPT ![f] = {l \in Row : csv'[f][l] > 0}]}
<1> USE DEF ArchInv, LockInv, NoStump
<1>1. CASE WriteCsv(s)
  <2>1. PICK d \in {dir} \cup (Dir \ {Primary}) : \E seen :
            /\ AppendRows(Target(d), {r \in batch[s] : r[1] \notin seen})
            /\ synced' = [synced EXCEPT ![Target(d)] = {l \in Row : csv'[Target(d)][l] > 0}]
            /\ torn' = {}
        BY <1>1 DEF WriteCsv
  <2>. QED BY <2>1, TargetIsFile
<1>2. CASE WriteFails(s)
  <2>1. PICK d \in {dir} \cup (Dir \ {Primary}) : \E v, seen :
            /\ AppendRows(Target(d), UpTo({r \in batch[s] : r[1] \notin seen}, v))
            /\ torn' = {}
        BY <1>2 DEF WriteFails
  <2>2. synced' = synced
        BY <1>2 DEF WriteFails
  <2>. QED BY <2>1, <2>2, TargetIsFile DEF UpTo
<1>. QED BY <1>1, <1>2

(* The files change when a sweep writes and when the process restarts.       *)
LEMMA FilesFrame ==
    ASSUME [ArchNext]_allVars
    PROVE  \/ \E s \in Sweeper : WriteCsv(s) \/ WriteFails(s)
           \/ Restart
           \/ UNCHANGED fileVars
BY DEF ArchNext, Sweep, BuildRecord, EditTag, StoreRecord, Dispatch, EnterSweep, SelectBatch,
       DeleteBatch, SqliteFails, BeginPurge, ExamineVector, UnlinkVector, EndSweep, Midnight,
       BeginStop, Drained, CloseStore, archVars, allVars

LEMMA FilesStep ==
    ASSUME ArchInv, TornWrites = FALSE, [ArchNext]_allVars
    PROVE  /\ SyncedIsReadable'
           /\ NoStump'
           /\ \A f \in File, l \in Row :
                 /\ l \in synced[f] => l \in synced'[f]
                 /\ csv'[f][l] > 0 => csv[f][l] > 0 \/ l \in committed
<1> USE DEF ArchInv, LockInv, ArchTypeOK
<1>1. ASSUME NEW s \in Sweeper, WriteCsv(s) \/ WriteFails(s)
      PROVE  /\ SyncedIsReadable' /\ NoStump'
             /\ \A f \in File, l \in Row :
                   /\ l \in synced[f] => l \in synced'[f]
                   /\ csv'[f][l] > 0 => csv[f][l] > 0 \/ l \in committed
  <2>1. PICK f \in File, rows \in SUBSET batch[s] :
             /\ AppendRows(f, rows)
             /\ torn' = {}
             /\ synced' \in {synced, [synced EXCEPT ![f] = {l \in Row : csv'[f][l] > 0}]}
        BY <1>1, WriteEffect
  <2>2. \A g \in File, l \in Row :
            csv'[g][l] > 0 <=> csv[g][l] > 0 \/ (g = f /\ l \in rows)
        BY <2>1, AppendAdds
  <2>3. rows \subseteq committed
        BY <1>1, <2>1 DEF WriteCsv, WriteFails, SnapshotIsCurrent, RowsWereCommitted
  <2>4. \A g \in File : synced'[g] = synced[g] \/ synced'[g] = {l \in Row : csv'[g][l] > 0}
        BY <2>1
  <2>5. \A g \in File, l \in Row : l \in synced[g] => csv[g][l] > 0
        BY DEF SyncedIsReadable, Lines
  <2>6. SyncedIsReadable'
        BY <2>2, <2>4, <2>5 DEF SyncedIsReadable, Lines
  <2>. QED BY <2>1, <2>2, <2>3, <2>4, <2>5, <2>6 DEF NoStump
<1>2. CASE Restart
  <2>1. synced' = synced /\ torn' = {}
        BY <1>2 DEF Restart, NoStump
  <2>2. \A f \in File, l \in Row :
            /\ csv'[f][l] \in {0, csv[f][l]}
            /\ l \in synced[f] => csv'[f][l] = csv[f][l]
        BY <1>2 DEF Restart
  <2>3. \A f \in File, l \in Row : csv[f][l] \in 0..2
        OBVIOUS
  <2>4. SyncedIsReadable'
        BY <2>1, <2>2 DEF SyncedIsReadable, Lines
  <2>. QED BY <2>1, <2>2, <2>3, <2>4 DEF NoStump
<1>3. CASE UNCHANGED fileVars
  BY <1>3 DEF fileVars, SyncedIsReadable, Lines, NoStump
<1>. QED BY <1>1, <1>2, <1>3, FilesFrame

(* A filed capture stays filed. *)
LEMMA FiledGrows ==
    ASSUME ArchInv, TornWrites = FALSE, [ArchNext]_allVars
    PROVE  Filed \subseteq Filed'
<1>1. \A f \in File, l \in Row : l \in synced[f] => l \in synced'[f] /\ csv'[f][l] > 0
  BY FilesStep DEF SyncedIsReadable, Lines
<1>. QED BY <1>1 DEF Filed, Durable

(* The history of commits grows by the row an insert commits, and then the   *)
(* capture has a row.  Rows appear in no other way.                          *)
LEMMA CommittedStep ==
    ASSUME ArchInv, [ArchNext]_allVars
    PROVE  /\ committed \subseteq committed'
           /\ \A l \in committed' \ committed : l[1] \in Present'
           /\ \A id \in CaptureId : records'[id] # 0 =>
                 records'[id] = records[id] \/ <<id, records'[id]>> \in committed'
<1> USE StoreAssumption
    DEF ArchInv, LockInv, ArchTypeOK, StoreTypeOK, storeVars, history, StoreAssumption
<1>1. ASSUME NEW id \in CaptureId, NEW v \in Version, InsertRecord(id, v)
      PROVE  /\ committed' = committed \cup {<<id, v>>}
             /\ records' = [records EXCEPT ![id] = v]
             /\ v # 0
  BY <1>1 DEF InsertRecord, UpsertRecord, Version
<1>2. CASE \E id \in CaptureId, v \in Version : InsertRecord(id, v)
  BY <1>1, <1>2 DEF Present
<1>3. ASSUME NEW ids \in SUBSET CaptureId, DeleteRecords(ids)
      PROVE  committed' = committed /\ \A id \in CaptureId : records'[id] \in {0, records[id]}
  BY <1>3 DEF DeleteRecords
<1>4. CASE UNCHANGED storeVars \/ Flush \/ LoseBuffer
            \/ (\E id \in CaptureId : AddTag(id) \/ RemoveTag(id))
            \/ (\E id \in CaptureId, v \in Version : InsertFails(id, v))
  BY <1>4 DEF Flush, LoseBuffer, AddTag, RemoveTag, InsertFails
<1>. QED BY <1>2, <1>3, <1>4, ArchStepIsStoreStep DEF StoreStep

LEMMA DeleteIsSafeStep ==
    ASSUME ArchInv, TornWrites = FALSE, [ArchNext]_allVars
    PROVE  DeleteIsSafe'
<1> SUFFICES ASSUME NEW s \in Sweeper, pc'[s] = "delete"
             PROVE  Ids(batch'[s]) \subseteq Filed'
    BY DEF DeleteIsSafe
<1> USE DEF ArchInv, LockInv, ArchTypeOK
<1>1. CASE Restart
  BY <1>1 DEF Restart
<1>2. CASE pc'[s] = pc[s] /\ batch'[s] = batch[s]
  BY <1>2, FiledGrows DEF DeleteIsSafe
<1>3. CASE WriteCsv(s)
  <2>1. PICK d \in {dir} \cup (Dir \ {Primary}) : \E seen \in ReadBack(Target(d)) :
            /\ AppendRows(Target(d), {r \in batch[s] : r[1] \notin seen})
            /\ synced' = [synced EXCEPT ![Target(d)] = {l \in Row : csv'[Target(d)][l] > 0}]
        BY <1>3 DEF WriteCsv
  <2> DEFINE f == Target(d)
  <2>2. PICK seen \in ReadBack(f) : AppendRows(f, {r \in batch[s] : r[1] \notin seen})
        BY <2>1
  <2>3. f \in File
        BY TargetIsFile
  <2>4. synced'[f] = {l \in Row : csv'[f][l] > 0}
        BY <2>1, <2>3
  <2> HIDE DEF f
  <2>5. \A l \in Row : csv[f][l] > 0 => l \in Durable'
        BY <2>2, <2>3, <2>4, AppendAdds DEF Durable
  <2>6. ASSUME NEW r \in batch[s]
        PROVE  r[1] \in Filed'
    <3>1. r \in Row /\ r[1] \in CaptureId
          BY DEF Row
    <3>2. CASE r[1] \notin seen
          BY <2>2, <2>3, <2>4, <3>1, <3>2, AppendAdds DEF Durable, Filed
    <3>3. CASE r[1] \in seen
      <4>1. PICK l \in Row : csv[f][l] > 0 /\ l[1] = r[1]
            BY <2>2, <3>3 DEF ReadBack, Ids, Lines
      <4>. QED BY <2>5, <3>1, <4>1 DEF Filed
    <3>. QED BY <3>2, <3>3
  <2>. QED BY <1>3, <2>6 DEF WriteCsv, Ids
<1>4. CASE Dispatch(s) \/ EnterSweep(s) \/ SelectBatch(s) \/ DeleteBatch(s) \/ BeginPurge(s)
              \/ WriteFails(s) \/ SqliteFails(s) \/ EndSweep(s)
  BY <1>4 DEF Dispatch, EnterSweep, SelectBatch, DeleteBatch, BeginPurge, WriteFails,
       SqliteFails, EndSweep, LeaveSweep
<1>5. CASE UnlinkVector(s) \/ \E id \in CaptureId : ExamineVector(s, id)
  BY <1>5 DEF UnlinkVector, ExamineVector
<1>. QED BY <1>1, <1>2, <1>3, <1>4, <1>5, OthersLeaveSweep DEF Sweep

(* A row leaves the table by the DELETE of a sweep that selected it. *)
LEMMA RowsGoByDelete ==
    ASSUME ArchTypeOK, [ArchNext]_allVars,
           NEW id \in CaptureId, id \in Present, id \notin Present'
    PROVE  \E s \in Sweeper : DeleteBatch(s) /\ id \in Ids(batch[s])
<1> USE DEF ArchTypeOK, StoreTypeOK, Present, storeVars
<1>1. ASSUME NEW j \in CaptureId, BuildRecord(j) \/ EditTag(j)
      PROVE  FALSE
  BY <1>1 DEF BuildRecord, EditTag, AddTag, RemoveTag
<1>2. ASSUME NEW row \in inflight, StoreRecord(row)
      PROVE  FALSE
  <2>1. row[2] # 0
        BY StoreAssumption DEF Row, Version, StoreAssumption
  <2>. QED BY <1>2, <2>1 DEF StoreRecord, InsertRecord, UpsertRecord, InsertFails
<1>3. CASE Midnight \/ BeginStop \/ Drained \/ CloseStore \/ Restart
  BY <1>3 DEF Midnight, BeginStop, Drained, CloseStore, Flush, Restart, LoseBuffer
<1>4. ASSUME NEW t \in Sweeper,
             Dispatch(t) \/ EnterSweep(t) \/ SelectBatch(t) \/ WriteCsv(t)
                \/ WriteFails(t) \/ SqliteFails(t) \/ BeginPurge(t)
                \/ UnlinkVector(t) \/ EndSweep(t)
                \/ \E j \in CaptureId : ExamineVector(t, j)
      PROVE  FALSE
  BY <1>4 DEF Dispatch, EnterSweep, SelectBatch, WriteCsv, WriteFails, SqliteFails,
       BeginPurge, UnlinkVector, EndSweep, ExamineVector
<1>5. ASSUME NEW t \in Sweeper, DeleteBatch(t)
      PROVE  id \in Ids(batch[t])
  BY <1>5 DEF DeleteBatch, DeleteRecords
<1>6. CASE UNCHANGED allVars
  BY <1>6 DEF allVars
<1>. QED BY <1>1, <1>2, <1>3, <1>4, <1>5, <1>6 DEF ArchNext, Sweep

LEMMA NoCaptureLostStep ==
    ASSUME ArchInv, TornWrites = FALSE, [ArchNext]_allVars
    PROVE  NoCaptureLost'
<1>1. ASSUME NEW l \in committed', l[1] \in CaptureId
      PROVE  l[1] \in Present' \cup Filed'
  <2>1. CASE l \notin committed
        BY <1>1, <2>1, CommittedStep
  <2>2. CASE l \in committed /\ l[1] \in Filed
        BY <2>2, FiledGrows
  <2>3. CASE l \in committed /\ l[1] \in Present \ Present'
    <3>1. PICK s \in Sweeper : DeleteBatch(s) /\ l[1] \in Ids(batch[s])
          BY <1>1, <2>3, RowsGoByDelete DEF ArchInv, LockInv
    <3>2. l[1] \in Filed
          BY <3>1 DEF ArchInv, DeleteIsSafe, DeleteBatch
    <3>. QED BY <3>2, FiledGrows
  <2>. QED BY <2>1, <2>2, <2>3 DEF ArchInv, NoCaptureLost, Ids
<1>2. committed' \subseteq Row
  BY ArchTypeStep DEF ArchInv, LockInv, ArchTypeOK, StoreTypeOK
<1>3. \A l \in Row : l[1] \in CaptureId
  BY DEF Row
<1>. QED BY <1>1, <1>2, <1>3 DEF NoCaptureLost, Ids

LEMMA CommonPastStep ==
    ASSUME ArchInv, TornWrites = FALSE, [ArchNext]_allVars
    PROVE  RowsWereCommitted' /\ LinesWereCommitted'
<1>1. RowsWereCommitted'
  BY CommittedStep DEF ArchInv, RowsWereCommitted, LiveRows, Present
<1>2. LinesWereCommitted'
  BY FilesStep, CommittedStep DEF ArchInv, LinesWereCommitted, Lines
<1>. QED BY <1>1, <1>2

LEMMA ArchInvStep ==
    ASSUME ArchInv, TornWrites = FALSE, [ArchNext]_allVars
    PROVE  ArchInv'
<1>1. LockInv'
  BY LockInvStep DEF ArchInv
<1>. QED BY <1>1, CommonPastStep, FilesStep, DeleteIsSafeStep, NoCaptureLostStep DEF ArchInv

LEMMA ArchInitInv ==
    ASSUME ArchInit
    PROVE  ArchInv
<1>1. LockInv
  BY ArchInitLock
<1>. QED BY <1>1
     DEF ArchInit, StoreInit, ArchInv, RowsWereCommitted, LinesWereCommitted, LiveRows, Present,
         SyncedIsReadable, Lines, NoStump, DeleteIsSafe, NoCaptureLost, Ids

(* If a failing append never stops in the middle of a line, no capture that  *)
(* was ever committed is lost: it is a row, or on a durable line of the       *)
(* archive, through failing appends and DELETEs, flaky read-backs, the        *)
(* fallback directory, midnight and crashes at any step.                     *)
THEOREM NothingLost ==
    ASSUME TornWrites = FALSE
    PROVE  ArchSpec => []NoCaptureLost
<1>1. ArchInit => ArchInv
  BY ArchInitInv
<1>2. ArchInv /\ [ArchNext]_allVars => ArchInv'
  BY ArchInvStep
<1>3. ArchInv => NoCaptureLost
  BY DEF ArchInv
<1>. QED BY <1>1, <1>2, <1>3, PTL DEF ArchSpec

-----------------------------------------------------------------------------
(* The composed system implements CaptureLedger. *)

LEMMA LedgerInit ==
    ASSUME ArchInit
    PROVE  Ledger!Init
BY DEF ArchInit, StoreInit, Ledger!Init, Present, Filed, Durable

(* Nothing is filed that is not, at that moment, live or filed already.      *)
LEMMA NewlyFiled ==
    ASSUME ArchInv, TornWrites = FALSE, [ArchNext]_allVars
    PROVE  Filed' \subseteq Present \cup Filed
<1>1. ASSUME NEW l \in Durable'
      PROVE  l \in committed
  BY <1>1, FilesStep DEF ArchInv, LinesWereCommitted, Lines, Durable
<1>. QED BY <1>1 DEF Filed, ArchInv, NoCaptureLost, Ids

(* Every step of the system is a step of the ledger or a stutter: a commit   *)
(* admits, an fsync files, a DELETE releases.                                *)
LEMMA LedgerStep ==
    ASSUME ArchInv, TornWrites = FALSE, [ArchNext]_allVars
    PROVE  [Ledger!Next]_<<Present, Filed>>
<1> USE DEF ArchInv, LockInv, ArchTypeOK, StoreTypeOK
<1>1. CASE \E s \in Sweeper : WriteCsv(s) \/ WriteFails(s)
  <2>1. Present' = Present
        BY <1>1 DEF WriteCsv, WriteFails, Present, storeVars
  <2>2. Ledger!File(Filed')
        BY <2>1, FiledGrows, NewlyFiled DEF Ledger!File
  <2>3. Filed' \in SUBSET CaptureId
        BY DEF Filed
  <2>. QED BY <2>2, <2>3 DEF Ledger!Next
<1>2. CASE Restart
  <2>1. Present' = Present
        BY <1>2 DEF Restart, LoseBuffer, Present
  <2>2. Ledger!File(Filed')
        BY <2>1, FiledGrows, NewlyFiled DEF Ledger!File
  <2>3. Filed' \in SUBSET CaptureId
        BY DEF Filed
  <2>. QED BY <2>2, <2>3 DEF Ledger!Next
<1>3. CASE UNCHANGED fileVars
  <2>1. Filed' = Filed
        BY <1>3 DEF fileVars, Filed, Durable
  <2>2. ASSUME NEW id \in CaptureId, NEW v \in Version, InsertRecord(id, v)
        PROVE  Ledger!Admit(id)
    <3>1. v # 0
          BY StoreAssumption DEF Version, StoreAssumption
    <3>2. Present' = Present \cup {id}
          BY <2>2, <3>1 DEF InsertRecord, UpsertRecord, Present
    <3>. QED BY <2>1, <3>2 DEF Ledger!Admit
  <2>3. ASSUME NEW s \in Sweeper, DeleteBatch(s)
        PROVE  Ledger!Release(Ids(batch[s])) /\ Ids(batch[s]) \in SUBSET CaptureId
    <3>1. Ids(batch[s]) \subseteq Filed /\ Ids(batch[s]) \subseteq CaptureId
          BY <2>3 DEF DeleteBatch, DeleteIsSafe, Ids, Row
    <3>2. Ids(batch[s]) \subseteq Present
          BY <2>3 DEF DeleteBatch, SnapshotIsCurrent, LiveRows, Ids
    <3>3. Present' = Present \ Ids(batch[s])
          BY <2>3 DEF DeleteBatch, DeleteRecords, Present
    <3>. QED BY <2>1, <3>1, <3>2, <3>3 DEF Ledger!Release
  <2>4. CASE Present' = Present
        BY <2>1, <2>4
  <2>5. CASE \E id \in Present : id \notin Present'
    <3>1. \E s \in Sweeper : DeleteBatch(s)
          BY <2>5, RowsGoByDelete DEF Present
    <3>. QED BY <2>3, <3>1 DEF Ledger!Next
  <2>6. CASE \E id \in Present' : id \notin Present
    <3>1. \E id \in CaptureId, v \in Version : InsertRecord(id, v)
          BY <2>6, ArchStepIsStoreStep
          DEF StoreStep, InsertFails, AddTag, RemoveTag, DeleteRecords, Flush, LoseBuffer,
              Present, storeVars
    <3>. QED BY <2>2, <3>1 DEF Ledger!Next
  <2>. QED BY <2>4, <2>5, <2>6
<1>. QED BY <1>1, <1>2, <1>3, FilesFrame

(* Under the same assumption the store, its ingest threads and its archiver  *)
(* together implement the ledger.                                            *)
THEOREM Refinement ==
    ASSUME TornWrites = FALSE
    PROVE  ArchSpec => ImplementsLedger
<1>1. ArchInit => ArchInv /\ Ledger!Init
  BY ArchInitInv, LedgerInit
<1>2. ArchInv /\ [ArchNext]_allVars => ArchInv'
  BY ArchInvStep
<1>3. ArchInv /\ [ArchNext]_allVars => [Ledger!Next]_<<Present, Filed>>
  BY LedgerStep
<1>. QED BY <1>1, <1>2, <1>3, PTL DEF ArchSpec, ImplementsLedger, Ledger!Spec


-----------------------------------------------------------------------------
(* The append is idempotent, as long as the read-back of the file works.     *)

(* What the two outcomes of a write add to a file: rows of the batch whose   *)
(* capture has no line there.                                                *)
LEMMA WriteAddsNew ==
    ASSUME LockInv, FlakyReads = FALSE, NEW s \in Sweeper, WriteCsv(s) \/ WriteFails(s)
    PROVE  \E f \in File : \E rows \in SUBSET {r \in batch[s] : r[1] \notin Ids(Lines(f))} :
              AppendRows(f, rows)
<1> USE DEF LockInv
<1>1. CASE WriteCsv(s)
  <2>1. PICK d \in {dir} \cup (Dir \ {Primary}) : \E seen \in ReadBack(Target(d)) :
            AppendRows(Target(d), {r \in batch[s] : r[1] \notin seen})
        BY <1>1 DEF WriteCsv
  <2>2. AppendRows(Target(d), {r \in batch[s] : r[1] \notin Ids(Lines(Target(d)))})
        BY <2>1 DEF ReadBack
  <2>. QED BY <2>2, TargetIsFile
<1>2. CASE WriteFails(s)
  <2>1. PICK d \in {dir} \cup (Dir \ {Primary}) : \E v \in 0..version : \E seen \in ReadBack(Target(d)) :
            AppendRows(Target(d), UpTo({r \in batch[s] : r[1] \notin seen}, v))
        BY <1>2 DEF WriteFails
  <2>2. PICK v \in 0..version : AppendRows(Target(d),
                            UpTo({r \in batch[s] : r[1] \notin Ids(Lines(Target(d)))}, v))
        BY <2>1 DEF ReadBack
  <2>3. UpTo({r \in batch[s] : r[1] \notin Ids(Lines(Target(d)))}, v)
            \in SUBSET {r \in batch[s] : r[1] \notin Ids(Lines(Target(d)))}
        BY DEF UpTo
  <2>. QED BY <2>2, <2>3, TargetIsFile
<1>. QED BY <1>1, <1>2

(* A line of the file is as it was, or it is one of the rows and the only     *)
(* copy, if it was not there before.                                         *)
LEMMA AppendedLines ==
    ASSUME ArchTypeOK, NEW f \in File, NEW rows, AppendRows(f, rows),
           NEW g \in File, NEW l \in Row
    PROVE  \/ csv'[g][l] = csv[g][l]
           \/ g = f /\ l \in rows /\ csv'[g][l] = csv[g][l] + 1
<1>1. csv'[f][l] = IF l \in Appended(f, rows) /\ csv[f][l] < 2
                   THEN csv[f][l] + 1 ELSE csv[f][l]
  BY DEF AppendRows, ArchTypeOK
<1>2. Appended(f, rows) \subseteq rows
  BY DEF Appended
<1>3. g # f => csv'[g] = csv[g]
  BY DEF AppendRows, ArchTypeOK
<1>. QED BY <1>1, <1>2, <1>3

LEMMA OneLineStep ==
    ASSUME LockInv, OneLinePerFile, FlakyReads = FALSE, [ArchNext]_allVars
    PROVE  OneLinePerFile'
<1> USE DEF LockInv, ArchTypeOK
<1>1. ASSUME NEW s \in Sweeper, WriteCsv(s) \/ WriteFails(s)
      PROVE  OneLinePerFile'
  <2>0. PICK f \in File : \E rows \in SUBSET {r \in batch[s] : r[1] \notin Ids(Lines(f))} :
             AppendRows(f, rows)
        BY <1>1, WriteAddsNew
  <2>1. PICK rows \in SUBSET {r \in batch[s] : r[1] \notin Ids(Lines(f))} :
             AppendRows(f, rows)
        BY <2>0
  <2>2. \A g \in File, l \in Row :
            \/ csv'[g][l] = csv[g][l]
            \/ g = f /\ l \in rows /\ csv'[g][l] = csv[g][l] + 1
        BY <2>1, AppendedLines
  <2>3. \A l \in rows : csv[f][l] = 0 /\ \A m \in Lines(f) : m[1] # l[1]
        BY <2>1 DEF Ids, Lines
  <2>4. \A l, m \in rows : l[1] = m[1] => l = m
        BY <1>1, <2>1
        DEF WriteCsv, WriteFails, SnapshotIsCurrent, LiveRows, Present
  <2>5. ASSUME NEW g \in File, NEW l \in Lines(g)'
        PROVE  csv'[g][l] = 1 /\ \A m \in Lines(g)' : m[1] = l[1] => m = l
    <3>1. \A m \in Lines(g)' : m \in Row /\ (m \in Lines(g) \/ (g = f /\ m \in rows))
          BY <2>2 DEF Lines
    <3>2. csv'[g][l] = 1
          BY <2>2, <2>3, <3>1 DEF OneLinePerFile, Lines
    <3>. QED BY <2>3, <2>4, <3>1, <3>2 DEF OneLinePerFile
  <2>. QED BY <2>5 DEF OneLinePerFile
<1>2. CASE Restart
  <2>1. \A f \in File, l \in Row : csv'[f][l] \in {0, csv[f][l]}
        BY <1>2 DEF Restart
  <2>2. ASSUME NEW f \in File, NEW l \in Row, csv'[f][l] > 0
        PROVE  csv'[f][l] = csv[f][l] /\ l \in Lines(f)
        BY <2>1, <2>2 DEF Lines
  <2>3. \A f \in File : Lines(f)' \subseteq Lines(f)
                         /\ \A l \in Lines(f)' : csv'[f][l] = csv[f][l]
        BY <2>2 DEF Lines
  <2> HIDE DEF ArchTypeOK, LockInv
  <2>. QED BY <2>3 DEF OneLinePerFile
<1>3. CASE UNCHANGED fileVars
  BY <1>3 DEF fileVars, OneLinePerFile, Lines
<1>. QED BY <1>1, <1>2, <1>3, FilesFrame

(* Whatever fails, stops in the middle of a line or restarts after an earlier *)
(* append, a daily file has at most one line for a capture, as long as what   *)
(* it already holds can be read.                                             *)
THEOREM AppendIdempotent ==
    ASSUME FlakyReads = FALSE
    PROVE  ArchSpec => []OneLinePerFile
<1>1. ArchInit => LockInv /\ OneLinePerFile
  BY ArchInitLock DEF ArchInit, OneLinePerFile, Lines
<1>2. LockInv /\ OneLinePerFile /\ [ArchNext]_allVars => LockInv' /\ OneLinePerFile'
  BY LockInvStep, OneLineStep
<1>. QED BY <1>1, <1>2, PTL DEF ArchSpec

-----------------------------------------------------------------------------
(* The cut: what a DELETE leaves behind, and how much it takes.              *)

Lowest(S, f, k) == {x \in S : Cardinality({y \in S : f[y] < f[x]}) < k}

(* Of a finite set ordered by distinct naturals, at most k elements have      *)
(* fewer than k elements below them.                                         *)
LEMMA LowestK ==
    ASSUME NEW S, NEW k \in Nat \ {0}, NEW f \in [S -> Nat], IsFiniteSet(S),
           \A x, y \in S : f[x] = f[y] => x = y
    PROVE  Cardinality(Lowest(S, f, k)) <= k
<1> DEFINE Below(x) == {y \in S : f[y] < f[x]}
           T == {x \in S : Cardinality(Below(x)) < k}
<1> SUFFICES Cardinality(T) <= k
    BY DEF Lowest
<1>1. IsFiniteSet(T) /\ Cardinality(T) \in Nat
  BY FS_Subset, FS_CardinalityType
<1>2. CASE T = {}
  <2> HIDE DEF T
  <2>1. Cardinality(T) = 0
        BY <1>2, FS_EmptySet
  <2>. QED BY <2>1
<1>3. ASSUME NEW m \in T, \A x \in T : f[x] <= f[m]
      PROVE  Cardinality(T) <= k
  <2>1. T \ {m} \in SUBSET Below(m)
    <3>1. ASSUME NEW x \in T, x # m
          PROVE  f[x] < f[m]
          <4>1. f[x] \in Nat /\ f[m] \in Nat /\ f[x] # f[m] /\ f[x] <= f[m]
                BY <1>3, <3>1
          <4>. QED BY <4>1
    <3>. QED BY <3>1
  <2>2. Below(m) \in SUBSET S
        OBVIOUS
  <2>3. Cardinality(T \ {m}) <= Cardinality(Below(m)) /\ Cardinality(Below(m)) \in Nat
        BY <2>1, <2>2, FS_Subset, FS_CardinalityType
  <2>4. Cardinality(Below(m)) < k
        OBVIOUS
  <2>5. Cardinality(T \ {m}) = Cardinality(T) - 1
        BY <1>1, FS_RemoveElement
  <2> HIDE DEF T, Below
  <2>. QED BY <1>1, <2>3, <2>4, <2>5
<1>4. ASSUME T # {}
      PROVE  \E m \in T : \A x \in T : f[x] <= f[m]
  \* the first greatest element, by the size of what lies below it
  <2> DEFINE above(x) == {y \in T : f[x] < f[y]}
             sizes == {Cardinality(above(x)) : x \in T}
  <2>1. \A x \in T : IsFiniteSet(above(x)) /\ Cardinality(above(x)) \in Nat
    <3>1. ASSUME NEW x \in T
          PROVE  IsFiniteSet(above(x)) /\ Cardinality(above(x)) \in Nat
          <4>1. above(x) \in SUBSET T
                OBVIOUS
          <4>. QED BY <1>1, <4>1, FS_Subset, FS_CardinalityType
    <3>. QED BY <3>1
  <2>2. sizes \subseteq Nat /\ sizes # {}
    <3> HIDE DEF above, T
    <3>. QED BY <1>4, <2>1
  <2>3. PICK n \in sizes : \A j \in sizes : ~ (<<j, n>> \in OpToRel(<, Nat))
        BY <2>2, NatLessThanWellFounded, WFMin
  <2>4. \A j \in sizes : ~ (j < n)
        BY <2>2, <2>3 DEF OpToRel
  <2>5. PICK m \in T : n = Cardinality(above(m))
        OBVIOUS
  <2>6. ASSUME NEW x \in T, ~ (f[x] <= f[m])
        PROVE  FALSE
    <3>0. f[x] \in Nat /\ f[m] \in Nat /\ f[m] < f[x]
          BY <2>6
    <3>1. x \in above(m) /\ x \notin above(x)
          BY <3>0
    <3>2. above(x) \in SUBSET above(m)
      <4>1. ASSUME NEW y \in above(x)
            PROVE  f[m] < f[y]
            <5>1. f[y] \in Nat /\ f[x] < f[y]
                  OBVIOUS
            <5>. QED BY <3>0, <5>1
      <4>. QED BY <4>1
    <3>3. Cardinality(above(x)) <= Cardinality(above(m))
          BY <2>1, <3>2, FS_Subset
    <3>4. Cardinality(above(x)) # Cardinality(above(m))
          BY <2>1, <3>1, <3>2, FS_Subset
    <3>5. Cardinality(above(x)) \in Nat /\ Cardinality(above(m)) \in Nat
          BY <2>1
    <3>6. Cardinality(above(x)) \in sizes
          OBVIOUS
    <3> HIDE DEF above, sizes
    <3>. QED BY <2>4, <2>5, <3>3, <3>4, <3>5, <3>6
  <2>. QED BY <2>6
<1> HIDE DEF T
<1>. QED BY <1>2, <1>3, <1>4

(* No two passes build the same version, and every row, stored or about to   *)
(* be, was built by one of them.                                             *)
Built == inflight \cup LiveRows
VersionsAreUnique ==
    /\ \A r \in Built : r[2] <= version
    /\ \A r, q \in Built : r[2] = q[2] => r = q

LEMMA VersionsStep ==
    ASSUME ArchTypeOK, VersionsAreUnique, [ArchNext]_allVars
    PROVE  VersionsAreUnique'
<1> USE DEF ArchTypeOK, StoreTypeOK, VersionsAreUnique
<1>0. Built \subseteq Row /\ \A r \in Built : r[2] \in Nat
  BY StoreAssumption DEF Built, LiveRows, Present, Row, Version, StoreAssumption
<1>1. ASSUME Built' \subseteq Built, version' = version
      PROVE  VersionsAreUnique'
  BY <1>1
<1>2. ASSUME NEW id \in CaptureId, BuildRecord(id)
      PROVE  VersionsAreUnique'
  <2>1. Built' = Built \cup {<<id, version + 1>>} /\ version' = version + 1
        BY <1>2 DEF BuildRecord, Built, LiveRows, Present, storeVars
  <2>. QED BY <1>0, <2>1
<1>3. ASSUME NEW row \in inflight, StoreRecord(row)
      PROVE  VersionsAreUnique'
  <2>1. row = <<row[1], row[2]>> /\ row[1] \in CaptureId /\ row[2] # 0
        BY StoreAssumption DEF Row, Version, StoreAssumption
  <2>2. CASE InsertRecord(row[1], row[2])
    <3>1. records' = [records EXCEPT ![row[1]] = row[2]]
          BY <2>2 DEF InsertRecord, UpsertRecord
    <3>2. LiveRows' \subseteq LiveRows \cup {row}
          BY <2>1, <3>1 DEF LiveRows, Present
    <3>. QED BY <1>1, <1>3, <3>2 DEF StoreRecord, Built
  <2>3. CASE InsertFails(row[1], row[2])
    <3>1. LiveRows' = LiveRows
          BY <2>3 DEF InsertFails, LiveRows, Present, storeVars
    <3>. QED BY <1>1, <1>3, <3>1 DEF StoreRecord, Built
  <2>. QED BY <1>3, <2>2, <2>3 DEF StoreRecord
<1>4. ASSUME NEW id \in CaptureId, EditTag(id)
      PROVE  VersionsAreUnique'
  BY <1>1, <1>4 DEF EditTag, AddTag, RemoveTag, archVars, Built, LiveRows, Present, storeVars
<1>5. CASE Midnight \/ BeginStop \/ Drained \/ CloseStore
  BY <1>1, <1>5 DEF Midnight, BeginStop, Drained, CloseStore, Flush, Built, LiveRows, Present,
     storeVars
<1>6. CASE Restart
  BY <1>1, <1>6 DEF Restart, LoseBuffer, Built, LiveRows, Present
<1>7. ASSUME NEW s \in Sweeper, DeleteBatch(s)
      PROVE  VersionsAreUnique'
  <2>1. LiveRows' \subseteq LiveRows
        BY <1>7 DEF DeleteBatch, DeleteRecords, LiveRows, Present
  <2>. QED BY <1>1, <1>7, <2>1 DEF DeleteBatch, Built
<1>8. ASSUME NEW s \in Sweeper,
             Dispatch(s) \/ EnterSweep(s) \/ SelectBatch(s) \/ WriteCsv(s)
                \/ WriteFails(s) \/ SqliteFails(s) \/ BeginPurge(s)
                \/ UnlinkVector(s) \/ EndSweep(s)
                \/ \E id \in CaptureId : ExamineVector(s, id)
      PROVE  VersionsAreUnique'
  <2>1. UNCHANGED <<storeVars, version, inflight>>
        BY <1>8 DEF Dispatch, EnterSweep, SelectBatch, WriteCsv, WriteFails, SqliteFails,
           BeginPurge, UnlinkVector, EndSweep, ExamineVector
  <2>. QED BY <1>1, <2>1 DEF Built, LiveRows, Present, storeVars
<1>9. CASE UNCHANGED allVars
  BY <1>1, <1>9 DEF allVars, archVars, Built, LiveRows, Present, storeVars
<1>. QED BY <1>2, <1>3, <1>4, <1>5, <1>6, <1>7, <1>8, <1>9 DEF ArchNext, Sweep

(* A batch stays within the cap, and every row of it has LocalCap newer ones, *)
(* from the SELECT to the DELETE.                                            *)
Newer(id) == {j \in Present : records[j] > records[id]}
BatchIsOverflow ==
    \A s \in Sweeper : pc[s] \in {"write", "delete"} =>
        /\ IsFiniteSet(Ids(batch[s])) /\ Cardinality(Ids(batch[s])) <= PerTickCap
        /\ \A id \in Ids(batch[s]) : Cardinality(Newer(id)) >= LocalCap

LEMMA SelectionIsSmall ==
    ASSUME ArchTypeOK, VersionsAreUnique
    PROVE  IsFiniteSet(Selected) /\ Cardinality(Selected) <= PerTickCap
<1> USE DEF ArchTypeOK, StoreTypeOK
<1> DEFINE f == [id \in Overflow |-> records[id]]
<1>1. Overflow \subseteq Present /\ Present \subseteq CaptureId
  BY DEF Overflow, Present
<1>2. f \in [Overflow -> Nat] /\ f \in [Overflow -> 0..MaxVersion]
  BY <1>1, StoreAssumption DEF StoreAssumption
<1>3. \A x, y \in Overflow : f[x] = f[y] => x = y
  <2>1. ASSUME NEW x \in Overflow, NEW y \in Overflow, f[x] = f[y]
        PROVE  x = y
    <3>1. <<x, records[x]>> \in Built /\ <<y, records[y]>> \in Built
          BY <1>1 DEF Built, LiveRows
    <3>2. <<x, records[x]>> = <<y, records[y]>>
          BY <2>1, <3>1 DEF VersionsAreUnique
    <3>. QED BY <3>2
  <2>. QED BY <2>1
<1>4. IsFiniteSet(Overflow)
  <2>1. f \in Injection(Overflow, 0..MaxVersion)
        BY <1>2, <1>3 DEF Injection, IsInjective
  <2>2. IsFiniteSet(0..MaxVersion)
        BY StoreAssumption, FS_Interval DEF StoreAssumption
  <2>. QED BY <2>1, <2>2, FS_Injection
<1>5. Selected = Lowest(Overflow, f, PerTickCap)
  <2>1. \A id \in Overflow :
            {j \in Overflow : records[j] < records[id]} = {j \in Overflow : f[j] < f[id]}
        OBVIOUS
  <2>. QED BY <2>1 DEF Selected, Lowest
<1>6. IsFiniteSet(Selected)
  BY <1>4, FS_Subset DEF Selected
<1> HIDE DEF f
<1>7. Cardinality(Lowest(Overflow, f, PerTickCap)) <= PerTickCap
  BY <1>2, <1>3, <1>4, LowestK, ArchiverAssumption DEF ArchiverAssumption
<1>. QED BY <1>5, <1>6, <1>7

LEMMA BatchStep ==
    ASSUME LockInv, VersionsAreUnique, BatchIsOverflow, [ArchNext]_allVars
    PROVE  BatchIsOverflow'
<1> SUFFICES ASSUME NEW s \in Sweeper, pc'[s] \in {"write", "delete"}
             PROVE  /\ IsFiniteSet(Ids(batch'[s]))
                    /\ Cardinality(Ids(batch'[s])) <= PerTickCap
                    /\ \A id \in Ids(batch'[s]) : Cardinality(Newer(id)') >= LocalCap
    BY DEF BatchIsOverflow, Ids
<1> USE DEF LockInv, ArchTypeOK
<1>0. records' = records => \A id : Newer(id)' = Newer(id)
  BY DEF Newer, Present
<1>1. CASE Restart
  BY <1>1 DEF Restart
<1>2. CASE pc'[s] = pc[s] /\ batch'[s] = batch[s] /\ ~Restart
  <2>1. lock = s /\ ~DeleteBatch(s)
        BY <1>2 DEF LockDiscipline, DeleteBatch
  <2>2. records' = records
        BY <1>2, <2>1, OwnerKeepsRecords
  <2>. QED BY <1>0, <1>2, <2>2 DEF BatchIsOverflow
<1>3. CASE SelectBatch(s)
  <2>1. records' = records /\ batch'[s] = {<<id, records[id]>> : id \in Selected}
        BY <1>3 DEF SelectBatch, LeaveSweep, storeVars
  <2>2. Ids(batch'[s]) = Selected
    <3>1. \A id : id \in Ids(batch'[s]) <=> \E r \in batch'[s] : r[1] = id
          BY DEF Ids
    <3>2. \A r : r \in batch'[s] <=> \E id \in Selected : r = <<id, records[id]>>
          BY <2>1
    <3>3. ASSUME NEW id \in Selected
          PROVE  id \in Ids(batch'[s])
          <4>1. <<id, records[id]>> \in batch'[s] /\ <<id, records[id]>>[1] = id
                BY <2>1
          <4>. QED BY <3>1, <4>1
    <3>4. ASSUME NEW id \in Ids(batch'[s])
          PROVE  id \in Selected
          BY <3>1, <3>2
    <3>. QED BY <3>3, <3>4
  <2>3. \A id \in Selected : Cardinality(Newer(id)) >= LocalCap
        BY DEF Selected, Overflow, Newer
  <2>. QED BY <1>0, <2>1, <2>2, <2>3, SelectionIsSmall
<1>4. CASE WriteCsv(s)
  BY <1>0, <1>4 DEF WriteCsv, BatchIsOverflow, storeVars
<1>5. CASE Dispatch(s) \/ EnterSweep(s) \/ DeleteBatch(s) \/ BeginPurge(s)
              \/ WriteFails(s) \/ SqliteFails(s) \/ EndSweep(s)
  BY <1>5 DEF Dispatch, EnterSweep, DeleteBatch, BeginPurge, WriteFails, SqliteFails,
       EndSweep, LeaveSweep
<1>6. CASE UnlinkVector(s) \/ \E id \in CaptureId : ExamineVector(s, id)
  BY <1>6 DEF UnlinkVector, ExamineVector
<1>. QED BY <1>1, <1>2, <1>3, <1>4, <1>5, <1>6, OthersLeaveSweep DEF Sweep

(* A row leaves the table only when LocalCap newer rows are there, and at     *)
(* most PerTickCap rows leave together: ingest threads, a second sweep, tag  *)
(* edits and crashes between the SELECT and the DELETE change nothing of it. *)
THEOREM LiveTierStays == ArchSpec => NewestStay
<1> DEFINE Stays == /\ Cardinality(Leaving) <= PerTickCap
                    /\ \A id \in Leaving :
                        Cardinality({j \in Present : records[j] > records[id]}) >= LocalCap
           Inv == LockInv /\ VersionsAreUnique /\ BatchIsOverflow
<1>1. ArchInit => Inv
  BY ArchInitLock DEF ArchInit, StoreInit, VersionsAreUnique, BatchIsOverflow, Built, LiveRows,
     Present
<1>2. Inv /\ [ArchNext]_allVars => Inv'
  BY LockInvStep, VersionsStep, BatchStep DEF LockInv
<1>3. Inv /\ [ArchNext]_allVars => [Stays]_allVars
  <2> SUFFICES ASSUME Inv, ArchNext
               PROVE  Stays
      OBVIOUS
  <2>1. Leaving \subseteq {id \in Present : id \notin Present'}
        BY DEF Present, Leaving
  <2>2. CASE Leaving = {}
        BY <2>2, FS_EmptySet, ArchiverAssumption DEF ArchiverAssumption
  <2>3. ASSUME NEW x \in Leaving
        PROVE  Stays
    <3>1. PICK s \in Sweeper : DeleteBatch(s)
          BY <2>1, <2>3, RowsGoByDelete DEF LockInv, Present
    <3>2. Leaving \subseteq Ids(batch[s])
          BY <3>1 DEF Leaving, DeleteBatch, DeleteRecords, Present, LockInv, ArchTypeOK,
             StoreTypeOK
    <3>3. /\ IsFiniteSet(Ids(batch[s])) /\ Cardinality(Ids(batch[s])) <= PerTickCap
          /\ \A id \in Ids(batch[s]) : Cardinality(Newer(id)) >= LocalCap
          BY <3>1 DEF DeleteBatch, BatchIsOverflow
    <3>4. Cardinality(Leaving) <= PerTickCap
      <4>1. Cardinality(Leaving) <= Cardinality(Ids(batch[s]))
            BY <3>2, <3>3, FS_Subset
      <4>2. Cardinality(Leaving) \in Nat /\ Cardinality(Ids(batch[s])) \in Nat
            BY <3>2, <3>3, FS_Subset, FS_CardinalityType
      <4>. QED BY <3>3, <4>1, <4>2, ArchiverAssumption DEF ArchiverAssumption
    <3>. QED BY <3>2, <3>3, <3>4 DEF Newer
  <2>. QED BY <2>2, <2>3
<1> HIDE DEF Inv
<1>. QED BY <1>1, <1>2, <1>3, PTL DEF ArchSpec, NewestStay

=============================================================================
