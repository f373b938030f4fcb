----------------------------- MODULE SidecarProofs -----------------------------
(***************************************************************************)
(* What surrounds the core of the sidecar: the life of the process, its    *)
(* database file, the two throttles and the news poller's breaker.         *)
(*                                                                         *)
(* The file, for any scripts, any snapshots a boot has left behind and any *)
(* number of rows, backups and crashes: its version never claims what its  *)
(* schema lacks, and no import costs a row that had committed when the     *)
(* import took its checkpoint.  A life, for any number of ingest threads,  *)
(* alerts and patches: nothing outlives the supervisor, and no alert is    *)
(* lost sight of, whatever start fails and whenever the pools are closed.  *)
(* The token bucket of a client, for any capacity, rate and costs, however *)
(* its requests overtake each other, and the backoff of the push sources,  *)
(* for any ladder.  The circuit breaker and the cadence of the news        *)
(* poller, for every set of feeds, every threshold and all ladders: their  *)
(* invariant says what the history variable holds, the cooldown the        *)
(* current streak of errors calls for.  The quant cache, for every set of  *)
(* threads, keys and chains: one builder per key and no waiter without     *)
(* one; and, while the store answers, the age of an answer by the levels   *)
(* it went through.  Replay, for any number of passes side by side, any    *)
(* files and any limit: no offset that a pass saves is behind a line that  *)
(* nobody has dealt with, and replay alerts once per capture.              *)
(***************************************************************************)
EXTENDS TruthStore, Lifespan, FeedSchedule, RateLimit, PushReconnect, QuantCache,
        Replay, SequenceTheorems, FiniteSetTheorems, WellFoundedInduction, TLAPS

-----------------------------------------------------------------------------
(* The database file. *)

\* Where a boot is: in the bootstrap script or in that of the version above the
\* file's, and behind the statements that have run.
BootIsInOrder ==
    server = "boot" =>
        /\ step[1] = 0 \/ step[1] = main.version + 1
        /\ \A i \in 1..Len(ScriptAt) : i < step[2] => ScriptAt[i] \in main.schema

SchemaInv ==
    /\ StoreTypeOK
    /\ Covered(main) /\ \A b \in backups : Covered(b)
    /\ BootIsInOrder
    /\ import # "none" => server = "up"

BackedUp == UNION {b.rows : b \in backups}

\* What the import has secured, from one step to the next of it.
ImportInv ==
    /\ server # "damaged" => owed \subseteq BackedUp \cup Committed
    /\ import = "folded" => owed \ late \subseteq BackedUp \cup main.rows
    /\ import = "copied" => owed \ late \subseteq BackedUp
    /\ import = "swapped" \/ server = "damaged" => owed \subseteq BackedUp

-----------------------------------------------------------------------------
(* Types. *)

LEMMA ScriptTypes ==
    /\ Len(Script) \in Nat \ {0} /\ 0 \in Versions /\ Versions \subseteq Nat
    /\ \A v \in Versions : Len(Script[v + 1]) \in Nat
    /\ \A v \in Versions, i \in Nat \ {0} :
          i <= Len(Script[v + 1]) => Script[v + 1][i] \in Object
<1>1. Len(Script) \in Nat \ {0}
  BY TruthAssumption
<1>2. \A k \in 1..Len(Script) : Script[k] \in Seq(STRING)
  BY TruthAssumption
<1>3. 0 \in Versions /\ Versions \subseteq Nat /\ \A v \in Versions : v + 1 \in 1..Len(Script)
  BY <1>1 DEF Versions
<1>4. \A v \in Versions : Len(Script[v + 1]) \in Nat
  BY <1>2, <1>3
<1>5. ASSUME NEW v \in Versions, NEW i \in Nat \ {0}, i <= Len(Script[v + 1])
      PROVE  Script[v + 1][i] \in Object
  <2>1. i \in 1..Len(Script[v + 1])
    BY <1>4, <1>5
  <2> QED BY <1>3, <2>1 DEF Object
<1> QED BY <1>1, <1>3, <1>4, <1>5

LEMMA EmptyIsCovered == Empty \in Database /\ Covered(Empty)
BY ScriptTypes DEF Empty, Database, Covered

LEMMA StagedIsCovered == StoreTypeOK => tmp \in Database /\ Covered(tmp)
BY EmptyIsCovered, TruthAssumption DEF StoreTypeOK

LEMMA StoreTypeStep == StoreTypeOK /\ BootIsInOrder /\ [StoreNext]_storeVars => StoreTypeOK'
<1> SUFFICES ASSUME StoreTypeOK, BootIsInOrder, [StoreNext]_storeVars PROVE StoreTypeOK'
  OBVIOUS
<1> USE ScriptTypes DEF StoreTypeOK
<1>0. main.rows \in SUBSET Row /\ main.schema \in SUBSET Object /\ main.version \in Versions
  BY DEF Database
<1>1. CASE Boot
  BY <1>1 DEF Boot
<1>2. CASE RunStatement
  <2>1. step[1] \in Versions /\ step[2] \in Nat \ {0} /\ step[2] + 1 \in Nat \ {0}
    OBVIOUS
  <2>2. ScriptAt[step[2]] \in Object
    BY <1>2, <2>1 DEF RunStatement, ScriptAt
  <2>3. main' \in Database
    BY <1>2, <2>2 DEF RunStatement, Database
  <2> QED BY <1>2, <2>1, <2>3 DEF RunStatement
<1>3. CASE Bump
  <2>1. step[1] \in Versions
    OBVIOUS
  <2>2. main' \in Database
    BY <1>3, <2>1 DEF Bump, Database
  <2>3. Pending(main') => <<main'.version + 1, 1>> \in Versions \X (Nat \ {0})
    BY <2>2 DEF Pending, Database, Versions
  <2> QED BY <1>3, <2>2, <2>3 DEF Bump
<1>4. CASE Down
  BY <1>4, TruthAssumption DEF Down
<1>5. CASE \E b \in backups : Restore(b)
  BY <1>5 DEF Restore
<1>6. CASE \E row \in Row, held \in {"this", "gone"} : Insert(row, held)
  BY <1>6 DEF Insert
<1>7. CASE Checkpoint \/ FoldForBackup
  <2>1. main' \in Database /\ wal' = {}
    BY <1>0, <1>7 DEF Checkpoint, FoldForBackup, Fold, Committed, Database
  <2> QED BY <1>7, <2>1 DEF Checkpoint, FoldForBackup
<1>8. CASE \E s \in Snapshot : Stage(s)
  BY <1>8 DEF Stage
<1>9. CASE Backup \/ BackupFails \/ UnlinkSidecars
  BY <1>9 DEF Backup, BackupFails, UnlinkSidecars
<1>10. CASE Swap
  BY <1>10, StagedIsCovered DEF Swap
<1>11. CASE UNCHANGED storeVars
  BY <1>11 DEF storeVars
<1> QED BY <1>1, <1>2, <1>3, <1>4, <1>5, <1>6, <1>7, <1>8, <1>9, <1>10, <1>11 DEF StoreNext

-----------------------------------------------------------------------------
(* The schema. *)

LEMMA SchemaStep == SchemaInv /\ [StoreNext]_storeVars => SchemaInv'
<1> SUFFICES ASSUME SchemaInv, [StoreNext]_storeVars PROVE SchemaInv'
  OBVIOUS
<1> USE ScriptTypes DEF SchemaInv
<1>t. StoreTypeOK'
  BY StoreTypeStep
<1>u. import' # "none" => server' = "up"
  BY DEF StoreNext, storeVars, Boot, RunStatement, Bump, Down, Restore, Insert, Checkpoint,
         Stage, FoldForBackup, Backup, BackupFails, Swap, UnlinkSidecars
<1>0. /\ main.version \in Versions /\ main \in Database
      /\ step[1] \in Versions /\ step[2] \in Nat \ {0}
  BY DEF StoreTypeOK, Database
<1>1. CASE Boot
  <2>1. main' = main /\ backups' = backups /\ step' = <<0, 1>>
    BY <1>1 DEF Boot
  <2>2. BootIsInOrder'
    BY <2>1 DEF BootIsInOrder
  <2> QED BY <1>t, <1>u, <2>1, <2>2 DEF Covered
<1>2. CASE RunStatement
  <2>1. /\ main'.version = main.version /\ main'.schema = main.schema \cup {ScriptAt[step[2]]}
        /\ step' = <<step[1], step[2] + 1>> /\ backups' = backups /\ ScriptAt' = ScriptAt
    BY <1>0, <1>2 DEF RunStatement, Database, ScriptAt
  <2>2. Covered(main')
    BY <2>1 DEF Covered
  <2>3. BootIsInOrder'
    <3>1. /\ step[1] = 0 \/ step[1] = main.version + 1
          /\ \A i \in 1..Len(ScriptAt) : i < step[2] => ScriptAt[i] \in main.schema
      BY <1>2 DEF RunStatement, BootIsInOrder
    <3>2. ASSUME NEW i \in 1..Len(ScriptAt), i < step[2] + 1
          PROVE  ScriptAt[i] \in main'.schema
      <4>1. i < step[2] \/ i = step[2]
        BY <1>0, <3>2 DEF ScriptAt
      <4> QED BY <2>1, <3>1, <4>1
    <3> QED BY <2>1, <3>1, <3>2 DEF BootIsInOrder
  <2> QED BY <1>t, <1>u, <2>1, <2>2, <2>3
<1>3. CASE Bump
  <2>1. main'.schema = main.schema /\ backups' = backups
    BY <1>0, <1>3 DEF Bump, Database
  <2>2. main'.version = (IF step[1] > main.version THEN step[1] ELSE main.version)
    BY <1>0, <1>3 DEF Bump, Database
  <2>3. \A i \in 1..Len(ScriptAt) : ScriptAt[i] \in main.schema
    BY <1>0, <1>3 DEF Bump, BootIsInOrder, ScriptAt
  <2>4. step[1] = 0 \/ step[1] = main.version + 1
    BY <1>3 DEF Bump, BootIsInOrder
  <2>5. Covered(main')
    <3>1. ASSUME NEW v \in 1..main'.version, NEW i \in 1..Len(Script[v + 1])
          PROVE  Script[v + 1][i] \in main'.schema
      <4>0. main.version \in Nat /\ step[1] \in Nat /\ main'.version \in {step[1], main.version}
        BY <1>0, <2>2
      <4>1. v <= main.version \/ v = step[1]
        BY <2>2, <2>4, <4>0
      <4>2. CASE v <= main.version
        BY <1>0, <2>1, <4>2 DEF Covered
      <4>3. CASE v = step[1]
        BY <2>1, <2>3, <4>3 DEF ScriptAt
      <4> QED BY <4>1, <4>2, <4>3
    <3> QED BY <3>1 DEF Covered
  <2>6. BootIsInOrder'
    <3>1. CASE server' = "boot"
      <4>1. step' = <<main'.version + 1, 1>>
        BY <1>3, <3>1 DEF Bump
      <4> QED BY <4>1 DEF BootIsInOrder
    <3> QED BY <3>1 DEF BootIsInOrder
  <2> QED BY <1>t, <1>u, <2>1, <2>5, <2>6
<1>4. CASE Down
  BY <1>4, <1>t DEF Down, BootIsInOrder
<1>5. CASE \E b \in backups : Restore(b)
  BY <1>5, <1>t DEF Restore, BootIsInOrder
<1>6. CASE \E row \in Row, held \in {"this", "gone"} : Insert(row, held)
  BY <1>6, <1>t DEF Insert, BootIsInOrder
<1>7. CASE Checkpoint \/ FoldForBackup
  <2>1. main'.schema = main.schema /\ main'.version = main.version /\ backups' = backups
    BY <1>0, <1>7 DEF Checkpoint, FoldForBackup, Fold, Database
  <2>2. Covered(main')
    BY <2>1 DEF Covered
  <2>3. server' = server /\ step' = step /\ ScriptAt' = ScriptAt
    BY <1>7 DEF Checkpoint, FoldForBackup, ScriptAt
  <2> QED BY <1>t, <1>u, <2>1, <2>2, <2>3 DEF BootIsInOrder
<1>8. CASE (\E s \in Snapshot : Stage(s)) \/ BackupFails \/ UnlinkSidecars
  BY <1>8, <1>t DEF Stage, BackupFails, UnlinkSidecars, BootIsInOrder, ScriptAt
<1>9. CASE Backup
  BY <1>9, <1>t DEF Backup, BootIsInOrder, ScriptAt
<1>10. CASE Swap
  BY <1>10, <1>t, StagedIsCovered DEF Swap, BootIsInOrder
<1>11. CASE UNCHANGED storeVars
  BY <1>11, <1>t DEF storeVars, BootIsInOrder, ScriptAt
<1> QED BY <1>1, <1>2, <1>3, <1>4, <1>5, <1>6, <1>7, <1>8, <1>9, <1>10, <1>11 DEF StoreNext

LEMMA SchemaInit == StoreInit => SchemaInv
BY ScriptTypes, EmptyIsCovered, TruthAssumption DEF StoreInit, SchemaInv, StoreTypeOK, BootIsInOrder

-----------------------------------------------------------------------------
(* The rows. *)

LEMMA ImportStep == SchemaInv /\ ImportInv /\ [StoreNext]_storeVars => ImportInv'
<1> SUFFICES ASSUME SchemaInv, ImportInv, [StoreNext]_storeVars PROVE ImportInv'
  OBVIOUS
<1> USE DEF ImportInv, BackedUp, Committed
<1>0. /\ main \in Database /\ (import # "none" => server = "up") /\ wal \subseteq Row
  BY DEF SchemaInv, StoreTypeOK
<1>1. CASE Boot
  BY <1>0, <1>1 DEF Boot
<1>2. CASE RunStatement
  <2>1. main'.rows = main.rows /\ UNCHANGED <<wal, server, import, backups, owed, late>>
    BY <1>0, <1>2 DEF RunStatement, Database
  <2> QED BY <2>1
<1>3. CASE Bump
  <2>1. main'.rows = main.rows /\ UNCHANGED <<wal, import, backups, owed, late>>
    BY <1>0, <1>3 DEF Bump, Database
  <2>2. server = "boot" /\ server' \in {"boot", "up"}
    BY <1>3 DEF Bump
  <2> QED BY <1>0, <2>1, <2>2
<1>4. CASE Down
  <2>1. UNCHANGED <<main, wal, backups, owed, late>> /\ import' = "none" /\ server \in {"boot", "up"}
    BY <1>4 DEF Down
  <2>2. server' = "damaged" => import = "swapped"
    BY <1>4 DEF Down
  <2> QED BY <2>1, <2>2
<1>5. ASSUME NEW b \in backups, Restore(b) PROVE ImportInv'
  BY <1>0, <1>5 DEF Restore
<1>6. ASSUME NEW row \in Row, NEW held \in {"this", "gone"}, Insert(row, held) PROVE ImportInv'
  BY <1>0, <1>6 DEF Insert
<1>7. CASE Checkpoint \/ FoldForBackup
  <2>1. main'.rows = main.rows \cup wal /\ wal' = {} /\ UNCHANGED <<backups, owed, server>>
    BY <1>0, <1>7 DEF Checkpoint, FoldForBackup, Fold, Database
  <2>2. CASE Checkpoint
    <3>1. UNCHANGED <<import, late>> /\ import # "swapped"
      BY <2>2 DEF Checkpoint
    <3> QED BY <2>1, <3>1
  <2>3. CASE FoldForBackup
    <3>1. import = "staged" /\ import' = "folded" /\ late' = {} /\ server = "up"
      BY <1>0, <2>3 DEF FoldForBackup
    <3> QED BY <2>1, <3>1
  <2> QED BY <1>7, <2>2, <2>3
<1>8. CASE (\E s \in Snapshot : Stage(s)) \/ BackupFails
  BY <1>0, <1>8 DEF Stage, BackupFails
<1>9. CASE Backup
  BY <1>0, <1>9 DEF Backup
<1>10. CASE Swap
  BY <1>0, <1>10 DEF Swap
<1>11. CASE UnlinkSidecars
  BY <1>0, <1>11 DEF UnlinkSidecars
<1>12. CASE UNCHANGED storeVars
  BY <1>12 DEF storeVars
<1> QED BY <1>1, <1>2, <1>3, <1>4, <1>5, <1>6, <1>7, <1>8, <1>9, <1>10, <1>11, <1>12 DEF StoreNext

-----------------------------------------------------------------------------
(* The theorems. *)

(* The types, and user_version claims nothing the schema lacks: through every *)
(* boot that is cut short, and every import of a snapshot a boot left behind. *)
THEOREM SchemaCorrect == StoreSpec => [](StoreTypeOK /\ SchemaCoversVersion)
<1>1. SchemaInv => StoreTypeOK /\ SchemaCoversVersion
  BY DEF SchemaInv, SchemaCoversVersion
<1> QED BY <1>1, SchemaInit, SchemaStep, PTL DEF StoreSpec

(* "a bad import is a mv away from recovery": what had committed at the       *)
(* checkpoint of an import is in the database or in a backup.                 *)
THEOREM ImportCorrect == StoreSpec => []ImportIsRecoverable
<1>1. StoreInit => ImportInv
  BY DEF StoreInit, ImportInv
<1>2. ImportInv => ImportIsRecoverable
  BY DEF ImportInv, ImportIsRecoverable, BackedUp, Committed
<1> QED BY <1>1, <1>2, SchemaInit, SchemaStep, ImportStep, PTL DEF StoreSpec

-----------------------------------------------------------------------------
(* A life of the sidecar. *)

\* What has been started is on record, and the phases say who is there.
LifeInv ==
    /\ running \subseteq built
    /\ phase \in {"off", "ended"} => built = {}
    /\ phase = "ended" => supervisor = "closed"
    /\ supervisor # "open" => phase \in {"off", "ended"}

LEMMA LifeInit == SpanInit => LifeInv
BY DEF SpanInit, LifeInv

LEMMA LifeStep == LifeInv /\ [SpanNext]_spanVars => LifeInv'
<1> SUFFICES ASSUME LifeInv, [SpanNext]_spanVars PROVE LifeInv'
  OBVIOUS
<1> USE DEF LifeInv, lifeVars
<1>1. CASE OpenSupervisor \/ Yield \/ BeginShutdown \/ CloseSupervisor
  BY <1>1 DEF OpenSupervisor, Yield, BeginShutdown, CloseSupervisor
<1>2. ASSUME NEW c \in Component, Start(c) \/ StartFails(c) \/ StopNext(c)
      PROVE  LifeInv'
  BY <1>2 DEF Start, StartFails, StopNext, Starting
<1>3. CASE UNCHANGED lifeVars
  BY <1>3
<1>4. ASSUME NEW t \in Worker, Ingest(t) \/ Store(t) \/ Skip(t) \/ Attempt(t) \/ Submit(t)
      PROVE  UNCHANGED lifeVars
  BY <1>4 DEF Ingest, Store, Skip, Attempt, Submit
<1>5. ASSUME TurnDown \/ BeginPost \/ EndPost PROVE UNCHANGED lifeVars
  BY <1>5 DEF TurnDown, BeginPost, EndPost
<1>6. ASSUME NEW on \in BOOLEAN, NEW url \in {"none", "good", "bad"}, PatchWebhook(on, url)
      PROVE  UNCHANGED lifeVars
  BY <1>6 DEF PatchWebhook
<1>7. UNCHANGED spanVars => UNCHANGED lifeVars
  BY DEF spanVars
<1> QED BY <1>1, <1>2, <1>3, <1>4, <1>5, <1>6, <1>7 DEF SpanNext

\* The finally of the lifespan, whatever start failed before it: the supervisor
\* is closed when nothing is left that could call it.
THEOREM DownCorrect == SpanSpec => []DownMeansDown
<1>1. LifeInv => DownMeansDown
  BY DEF LifeInv, DownMeansDown
<1> QED BY <1>1, LifeInit, LifeStep, PTL DEF SpanSpec

-----------------------------------------------------------------------------
(* The alerts. *)

AlertCounts == {"attempted", "sent", "filtered", "failed"}

CountedBy == {t \in Worker : worker[t] = "counted"}

BooksType ==
    /\ worker \in [Worker -> {"free", "scored", "stored", "counted"}]
    /\ stats \in [AlertCounts -> Nat]
    /\ queue \in Nat /\ posting \in Nat /\ dropped \in Nat

AlertsInv == BooksType /\ AlertsAddUp

LEMMA SumOfCounts ==
    AlertsAddUp <=> stats["attempted"] = stats["sent"] + stats["filtered"] + stats["failed"]
                                           + queue + posting + dropped + Cardinality(CountedBy)
BY DEF AlertsAddUp, CountedBy

LEMMA AlertsInit == SpanInit => AlertsInv
<1> SUFFICES ASSUME SpanInit PROVE AlertsInv
  OBVIOUS
<1>1. BooksType /\ stats = [k \in AlertCounts |-> 0] /\ queue = 0 /\ posting = 0 /\ dropped = 0
  BY DEF SpanInit, BooksType, AlertCounts
<1>2. CountedBy = {}
  BY DEF SpanInit, CountedBy
<1>3. Cardinality(CountedBy) = 0
  BY <1>2, FS_EmptySet
<1> QED BY <1>1, <1>3 DEF AlertsInv, AlertsAddUp, CountedBy, AlertCounts

LEMMA CountedIsFinite == IsFiniteSet(CountedBy) /\ Cardinality(CountedBy) \in Nat
<1>1. CountedBy \subseteq Worker
  BY DEF CountedBy
<1> QED BY <1>1, LifespanAssumption, FS_Subset, FS_CardinalityType

\* What a step that leaves the ingest threads alone has to keep.
LEMMA SameThreads ==
    ASSUME AlertsInv, BooksType', worker' = worker,
           stats'["attempted"] - stats'["sent"] - stats'["filtered"] - stats'["failed"]
               - queue' - posting' - dropped'
             = stats["attempted"] - stats["sent"] - stats["filtered"] - stats["failed"]
               - queue - posting - dropped
    PROVE  AlertsInv'
<1>1. CountedBy' = CountedBy
  BY DEF CountedBy
<1>2. /\ \A k \in AlertCounts : stats[k] \in Nat /\ stats'[k] \in Nat
      /\ queue \in Nat /\ posting \in Nat /\ dropped \in Nat
      /\ queue' \in Nat /\ posting' \in Nat /\ dropped' \in Nat
  BY DEF AlertsInv, BooksType
<1>3. Cardinality(CountedBy') = Cardinality(CountedBy) /\ Cardinality(CountedBy) \in Nat
  BY <1>1, CountedIsFinite
<1>4. AlertsAddUp'
  <2>1. "attempted" \in AlertCounts /\ "sent" \in AlertCounts /\ "filtered" \in AlertCounts /\ "failed" \in AlertCounts
    BY DEF AlertCounts
  <2>2. stats["attempted"] = stats["sent"] + stats["filtered"] + stats["failed"]
                               + queue + posting + dropped + Cardinality(CountedBy)
    BY SumOfCounts DEF AlertsInv
  <2>3. stats'["attempted"] = stats'["sent"] + stats'["filtered"] + stats'["failed"]
                               + queue' + posting' + dropped' + Cardinality(CountedBy')
    BY <1>2, <1>3, <2>1, <2>2
  <2> QED BY <2>3 DEF AlertsAddUp, CountedBy
<1> QED BY <1>4 DEF AlertsInv

\* An alert on its way into the pool goes into the queue, or is given up.
LEMMA OneLeaves ==
    ASSUME NEW s \in Nat, NEW f \in Nat, NEW e \in Nat, NEW p \in Nat, NEW q \in Nat, NEW d \in Nat,
           NEW r \in Nat, NEW g \in Nat, NEW n \in Nat, r + g = q + d + 1
    PROVE  s + f + e + q + p + d + n = s + f + e + r + p + g + (n - 1)
OBVIOUS

LEMMA SubmitStep ==
    ASSUME BooksType, AlertsAddUp, NEW t \in Worker, Submit(t)
    PROVE  AlertsInv'
<1>1. worker[t] = "counted" /\ worker' = [worker EXCEPT ![t] = "free"] /\ UNCHANGED <<posting, stats>>
  BY DEF Submit
<1>2. CountedBy' = CountedBy \ {t} /\ t \in CountedBy
  BY <1>1 DEF BooksType, CountedBy
<1>3. Cardinality(CountedBy') = Cardinality(CountedBy) - 1
  BY <1>2, CountedIsFinite, FS_RemoveElement
<1>4. queue \in Nat /\ posting \in Nat /\ dropped \in Nat
  BY DEF BooksType
<1>5. queue' + dropped' = queue + dropped + 1 /\ queue' \in Nat /\ dropped' \in Nat
  BY <1>4 DEF Submit
<1>6. BooksType'
  BY <1>1, <1>5 DEF BooksType
<1>7. stats["sent"] \in Nat /\ stats["filtered"] \in Nat /\ stats["failed"] \in Nat
  BY DEF BooksType, AlertCounts
<1>8. stats["attempted"] = stats["sent"] + stats["filtered"] + stats["failed"]
                             + queue + posting + dropped + Cardinality(CountedBy)
  BY SumOfCounts
<1>9. stats["attempted"] = stats["sent"] + stats["filtered"] + stats["failed"]
                             + queue' + posting + dropped' + Cardinality(CountedBy')
  <2>1. PICK s \in Nat, f \in Nat, e \in Nat, p \in Nat, q \in Nat, d \in Nat,
             r \in Nat, g \in Nat, n \in Nat :
          /\ stats["sent"] = s /\ stats["filtered"] = f /\ stats["failed"] = e /\ posting = p
          /\ queue = q /\ dropped = d /\ queue' = r /\ dropped' = g /\ Cardinality(CountedBy) = n
    BY <1>4, <1>5, <1>7, CountedIsFinite
  <2>2. r + g = q + d + 1
    BY <1>5, <2>1
  <2>3. s + f + e + q + p + d + n = s + f + e + r + p + g + (n - 1)
    BY <2>2, OneLeaves
  <2> QED BY <1>3, <1>8, <2>1, <2>3
<1> QED BY <1>1, <1>6, <1>9 DEF AlertsInv, AlertsAddUp, CountedBy

LEMMA AlertsStep == AlertsInv /\ [SpanNext]_spanVars => AlertsInv'
<1> SUFFICES ASSUME AlertsInv, [SpanNext]_spanVars PROVE AlertsInv'
  OBVIOUS
<1> USE DEF AlertsInv
<1>0. /\ \A k \in AlertCounts : stats[k] \in Nat
      /\ "attempted" \in AlertCounts /\ "sent" \in AlertCounts /\ "filtered" \in AlertCounts
      /\ "failed" \in AlertCounts /\ stats \in [AlertCounts -> Nat]
      /\ queue \in Nat /\ posting \in Nat /\ dropped \in Nat
  BY DEF BooksType, AlertCounts
<1>c. \A k \in AlertCounts : Count(k) =>
          /\ stats' \in [AlertCounts -> Nat] /\ stats'[k] = stats[k] + 1
          /\ \A j \in AlertCounts : j # k => stats'[j] = stats[j]
  BY <1>0 DEF Count
<1>1. CASE UNCHANGED <<worker, stats, queue, posting, dropped>>
  BY <1>1, <1>0, SameThreads DEF BooksType
<1>2. CASE OpenSupervisor \/ Yield \/ BeginShutdown
  BY <1>2, <1>1 DEF OpenSupervisor, Yield, BeginShutdown, alertVars
<1>3. CASE CloseSupervisor
  <2>1. /\ worker' = worker /\ stats' = stats /\ posting' = posting
        /\ dropped' = dropped + queue /\ queue' = 0
    BY <1>3 DEF CloseSupervisor
  <2> QED BY <1>0, <2>1, SameThreads DEF BooksType
<1>4. ASSUME NEW c \in Component, Start(c) \/ StartFails(c) \/ StopNext(c) PROVE AlertsInv'
  BY <1>4, <1>1 DEF Start, StartFails, StopNext, alertVars
<1>5. ASSUME NEW t \in Worker, Ingest(t) \/ Store(t) \/ Skip(t) PROVE AlertsInv'
  <2>1. UNCHANGED <<stats, queue, posting, dropped>>
    BY <1>5 DEF Ingest, Store, Skip, alertVars
  <2>2. worker[t] # "counted" /\ \E w \in {"free", "scored", "stored"} : worker' = [worker EXCEPT ![t] = w]
    BY <1>5 DEF Ingest, Store, Skip
  <2>3. BooksType' /\ CountedBy' = CountedBy
    BY <1>0, <2>1, <2>2 DEF BooksType, CountedBy
  <2> QED BY <2>1, <2>3 DEF AlertsAddUp, CountedBy
<1>6. ASSUME NEW t \in Worker, Attempt(t) PROVE AlertsInv'
  <2>1. worker[t] = "stored" /\ worker' = [worker EXCEPT ![t] = "counted"]
        /\ UNCHANGED <<queue, posting, dropped>> /\ Count("attempted")
    BY <1>6 DEF Attempt
  <2>2. CountedBy' = CountedBy \cup {t} /\ t \notin CountedBy
    BY <2>1 DEF BooksType, CountedBy
  <2>3. Cardinality(CountedBy') = Cardinality(CountedBy) + 1
    BY <2>2, CountedIsFinite, FS_AddElement
  <2>4. BooksType'
    BY <1>0, <1>c, <2>1 DEF BooksType
  <2>5. /\ stats'["attempted"] = stats["attempted"] + 1 /\ stats'["sent"] = stats["sent"]
        /\ stats'["filtered"] = stats["filtered"] /\ stats'["failed"] = stats["failed"]
    BY <1>0, <1>c, <2>1
  <2> QED BY <1>0, <2>1, <2>3, <2>4, <2>5, CountedIsFinite DEF AlertsAddUp, CountedBy
<1>7. ASSUME NEW t \in Worker, Submit(t) PROVE AlertsInv'
  BY <1>7, SubmitStep
<1>8. CASE TurnDown
  <2>1. /\ worker' = worker /\ queue > 0 /\ queue' = queue - 1 /\ UNCHANGED <<posting, dropped>>
        /\ Count("filtered") \/ Count("failed")
    BY <1>8 DEF TurnDown
  <2>2. BooksType'
    BY <1>0, <1>c, <2>1 DEF BooksType
  <2> QED BY <1>0, <1>c, <2>1, <2>2, SameThreads
<1>9. CASE BeginPost
  <2>1. /\ worker' = worker /\ stats' = stats /\ dropped' = dropped
        /\ queue > 0 /\ queue' = queue - 1 /\ posting' = posting + 1
    BY <1>9 DEF BeginPost
  <2> QED BY <1>0, <2>1, SameThreads DEF BooksType
<1>10. CASE EndPost
  <2>1. /\ worker' = worker /\ posting > 0 /\ posting' = posting - 1 /\ UNCHANGED <<queue, dropped>>
        /\ Count("sent") \/ Count("failed")
    BY <1>10 DEF EndPost
  <2>2. BooksType'
    BY <1>0, <1>c, <2>1 DEF BooksType
  <2> QED BY <1>0, <1>c, <2>1, <2>2, SameThreads
<1>11. ASSUME NEW on \in BOOLEAN, NEW url \in {"none", "good", "bad"}, PatchWebhook(on, url)
       PROVE  AlertsInv'
  BY <1>11, <1>1 DEF PatchWebhook
<1>12. CASE UNCHANGED spanVars
  BY <1>12, <1>1 DEF spanVars, alertVars
<1> QED BY <1>2, <1>3, <1>4, <1>5, <1>6, <1>7, <1>8, <1>9, <1>10, <1>11, <1>12 DEF SpanNext

\* Every alert that was attempted has an outcome, or is in one place: for every
\* number of threads, whatever is patched, and though the pools are abandoned.
THEOREM AlertsCorrect == SpanSpec => []AlertsAddUp
<1>1. AlertsInv => AlertsAddUp
  BY DEF AlertsInv
<1> QED BY <1>1, AlertsInit, AlertsStep, PTL DEF SpanSpec

LEMMA SpanTypeStep == SpanTypeOK /\ [SpanNext]_spanVars => SpanTypeOK'
<1> SUFFICES ASSUME SpanTypeOK, [SpanNext]_spanVars PROVE SpanTypeOK'
  OBVIOUS
<1> USE DEF SpanTypeOK, lifeVars, alertVars
<1>0. Len(StartOrder) \in Nat
  BY DEF StartOrder
<1>c. \A k \in {"attempted", "sent", "filtered", "failed"} :
          Count(k) => stats' \in [{"attempted", "sent", "filtered", "failed"} -> Nat]
  BY DEF Count
<1>1. CASE OpenSupervisor \/ Yield \/ BeginShutdown \/ CloseSupervisor
  BY <1>1 DEF OpenSupervisor, Yield, BeginShutdown, CloseSupervisor
<1>2. ASSUME NEW c \in Component, Start(c) PROVE SpanTypeOK'
  BY <1>0, <1>2 DEF Start, Starting
<1>3. ASSUME NEW c \in Component, StartFails(c) \/ StopNext(c) PROVE SpanTypeOK'
  BY <1>3 DEF StartFails, StopNext
<1>4. ASSUME NEW t \in Worker, Ingest(t) \/ Store(t) \/ Skip(t) PROVE SpanTypeOK'
  BY <1>4 DEF Ingest, Store, Skip
<1>5. ASSUME NEW t \in Worker, Attempt(t) \/ Submit(t) PROVE SpanTypeOK'
  <2>1. UNCHANGED <<lifeVars, webhook, patches, posting>>
        /\ \E w \in {"free", "counted"} : worker' = [worker EXCEPT ![t] = w]
    BY <1>5 DEF Attempt, Submit
  <2>2. stats' \in [{"attempted", "sent", "filtered", "failed"} -> Nat]
    BY <1>5, <1>c DEF Attempt, Submit
  <2>3. queue' \in Nat /\ dropped' \in Nat
    BY <1>5 DEF Attempt, Submit
  <2> QED BY <2>1, <2>2, <2>3
<1>6. CASE TurnDown \/ BeginPost \/ EndPost
  <2>1. UNCHANGED <<lifeVars, worker, webhook, patches, dropped>>
    BY <1>6 DEF TurnDown, BeginPost, EndPost
  <2>2. stats' \in [{"attempted", "sent", "filtered", "failed"} -> Nat]
    BY <1>6, <1>c DEF TurnDown, BeginPost, EndPost
  <2>3. queue' \in Nat /\ posting' \in 0..PoolSize
    BY <1>6, LifespanAssumption DEF TurnDown, BeginPost, EndPost
  <2> QED BY <2>1, <2>2, <2>3
<1>7. ASSUME NEW on \in BOOLEAN, NEW url \in {"none", "good", "bad"}, PatchWebhook(on, url)
      PROVE  SpanTypeOK'
  BY <1>7 DEF PatchWebhook
<1>8. CASE UNCHANGED spanVars
  BY <1>8 DEF spanVars
<1> QED BY <1>1, <1>2, <1>3, <1>4, <1>5, <1>6, <1>7, <1>8 DEF SpanNext

\* A life keeps its types: above all, never more posts than the pool has workers.
THEOREM SpanTypeCorrect == SpanSpec => []SpanTypeOK
<1>1. SpanInit => SpanTypeOK
  BY LifespanAssumption DEF SpanInit, SpanTypeOK, StartOrder
<1> QED BY <1>1, SpanTypeStep, PTL DEF SpanSpec

-----------------------------------------------------------------------------
(* The throttles. *)

\* The time a bucket has been credited for, since it was made.
Credited == last + rewound - born

\* What was granted and what is left is what the bucket held and was credited.
BucketInv ==
    /\ clock \in Nat /\ born \in Nat /\ rewound \in Nat /\ spent \in Nat /\ tokens \in Nat
    /\ seen \in [Caller -> Nat \cup {None}] /\ last \in Nat \cup {None}
    /\ born <= clock
    /\ \A r \in Caller : seen[r] <= clock
    /\ last = None => spent = 0 /\ tokens = Capacity /\ rewound = 0
    /\ last # None => /\ last <= clock /\ Credited >= 0
                      /\ spent + tokens <= Capacity + Rate * Credited

\* Integer facts a rate needs.
LEMMA RateGrows ==
    ASSUME NEW k \in Nat, NEW a \in Int, NEW b \in Int, a <= b
    PROVE  k * a <= k * b
OBVIOUS

LEMMA RateSplits ==
    ASSUME NEW k \in Nat, NEW a \in Int, NEW b \in Int
    PROVE  k * (a + b) = k * a + b * k /\ k * a \in Int /\ b * k \in Int /\ k * 0 = 0
OBVIOUS

LEMMA BucketInit == RateInit => BucketInv
BY RateAssumption DEF RateInit, BucketInv, None

\* A request: the bucket is credited for what the request has seen of the clock.
LEMMA AllowStep ==
    ASSUME BucketInv, NEW r \in Caller, NEW cost \in Cost, Allow(r, cost)
    PROVE  BucketInv'
<1>1. PICK c \in Nat, b \in Nat, w \in Nat, s \in Nat, k \in Nat, x \in Nat, l \in Nat :
        /\ clock = c /\ born' = b /\ rewound = w /\ spent = s /\ tokens = k /\ seen[r] = x
        /\ LastRefill = l
        /\ l <= c /\ x <= c /\ b <= c
        /\ l + w - b >= 0
        /\ s + k <= Capacity + Rate * (l + w - b)
  <2>1. clock \in Nat /\ rewound \in Nat /\ spent \in Nat /\ tokens \in Nat /\ seen[r] \in Nat
    BY DEF BucketInv, Allow, None
  <2>2. CASE last = None
    <3>1. LastRefill = clock /\ born' = clock
      BY <2>2 DEF LastRefill, Allow
    <3>2. spent = 0 /\ tokens = Capacity /\ rewound = 0
      BY <2>2 DEF BucketInv
    <3>3. clock + rewound - clock = 0 /\ Rate * 0 = 0
      BY <2>1, <3>2, RateAssumption
    <3>4. spent + tokens <= Capacity + Rate * (clock + rewound - clock)
      BY <3>2, <3>3, RateAssumption
    <3>5. clock <= clock /\ seen[r] <= clock /\ clock + rewound - clock >= 0
      BY <2>1, <3>3 DEF BucketInv
    <3> QED BY <2>1, <3>1, <3>4, <3>5
  <2>3. CASE last # None
    <3>1. LastRefill = last /\ born' = born /\ last \in Nat
      BY <2>3 DEF LastRefill, Allow, BucketInv
    <3> QED BY <2>1, <2>3, <3>1 DEF BucketInv, Credited
  <2> QED BY <2>2, <2>3
<1>2. PICK e \in Nat, f \in Nat, g \in Nat :
        /\ Elapsed(r) = e /\ Refilled(r) = f /\ Rewind(r) = g
        /\ f <= k + e * Rate
        /\ x + w + g - b = (l + w - b) + e
  <2>1. PICK e \in Nat : Elapsed(r) = e /\ e = (IF x > l THEN x - l ELSE 0)
    BY <1>1 DEF Elapsed
  <2>2. PICK g \in Nat : Rewind(r) = g /\ g = (IF x < l THEN l - x ELSE 0)
    BY <1>1 DEF Rewind
  <2>3. e * Rate \in Nat /\ Capacity \in Nat
    BY RateAssumption
  <2>4. PICK f \in Nat : Refilled(r) = f /\ f <= k + e * Rate
    BY <1>1, <2>1, <2>3 DEF Refilled
  <2>5. x + g = l + e
    BY <2>1, <2>2
  <2> QED BY <2>1, <2>2, <2>4, <2>5
<1>3. s + f <= Capacity + Rate * (x + w + g - b)
  <2>1. Rate * ((l + w - b) + e) = Rate * (l + w - b) + e * Rate
    BY RateSplits, RateAssumption
  <2>2. Rate * (l + w - b) \in Int /\ e * Rate \in Nat
    BY RateAssumption
  <2> QED BY <1>1, <1>2, <2>1, <2>2, RateAssumption
<1>4. /\ clock' = c /\ born' = b /\ rewound' = w + g /\ last' = x /\ last' # None
      /\ seen' = [seen EXCEPT ![r] = None]
  BY <1>1, <1>2 DEF Allow, None
<1>5. spent' \in Nat /\ tokens' \in Nat /\ spent' + tokens' = s + f
  <2>1. cost \in Nat
    BY RateAssumption
  <2> QED BY <1>1, <1>2, <2>1 DEF Allow
<1>6. Credited' = x + w + g - b /\ Credited' >= 0
  BY <1>1, <1>2, <1>4 DEF Credited
<1>7. \A q \in Caller : seen'[q] \in Nat \cup {None} /\ seen'[q] <= clock'
  BY <1>1, <1>4 DEF BucketInv, None
<1>8. clock' \in Nat /\ born' \in Nat /\ rewound' \in Nat /\ last' \in Nat /\ born' <= clock' /\ last' <= clock'
  BY <1>1, <1>2, <1>4
<1>9. seen' \in [Caller -> Nat \cup {None}] /\ \A q \in Caller : seen'[q] <= clock'
  BY <1>4, <1>7 DEF BucketInv
<1>10. spent' + tokens' <= Capacity + Rate * Credited'
  BY <1>3, <1>5, <1>6
<1> QED BY <1>4, <1>5, <1>6, <1>8, <1>9, <1>10 DEF BucketInv

LEMMA BucketStep == BucketInv /\ [RateNext]_rateVars => BucketInv'
<1> SUFFICES ASSUME BucketInv, [RateNext]_rateVars PROVE BucketInv'
  OBVIOUS
<1>1. ASSUME NEW r \in Caller, Arrive(r) PROVE BucketInv'
  BY <1>1 DEF Arrive, BucketInv, Credited, None
<1>2. ASSUME NEW r \in Caller, NEW c \in Cost, Allow(r, c) PROVE BucketInv'
  BY <1>2, AllowStep
<1>3. CASE Pass
  BY <1>3 DEF Pass, BucketInv, Credited, None
<1>4. CASE UNCHANGED rateVars
  BY <1>4 DEF rateVars, BucketInv, Credited
<1> QED BY <1>1, <1>2, <1>3, <1>4 DEF RateNext

\* A client is never granted more than the bucket held and was credited, for any
\* capacity and rate; what late requests set back is all that is credited twice.
THEOREM BurstCorrect == RateSpec => []BurstBounded
<1>1. BucketInv => BurstBounded
  <2> SUFFICES ASSUME BucketInv PROVE BurstBounded
    OBVIOUS
  <2>1. PICK c \in Nat, b \in Nat, w \in Nat, s \in Nat, k \in Nat :
          clock = c /\ born = b /\ rewound = w /\ spent = s /\ tokens = k /\ b <= c
    BY DEF BucketInv
  <2>2. CASE last = None
    <3>1. s = 0 /\ Capacity \in Nat /\ Rate \in Nat /\ c - b + w \in Nat
      BY <2>1, <2>2, RateAssumption DEF BucketInv
    <3>2. Rate * (c - b + w) \in Nat
      BY <3>1
    <3> QED BY <2>1, <3>1, <3>2 DEF BurstBounded
  <2>3. CASE last # None
    <3>1. PICK l \in Nat : last = l /\ l <= c /\ s + k <= Capacity + Rate * (l + w - b)
      BY <2>1, <2>3 DEF BucketInv, Credited
    <3>2. Rate * (l + w - b) <= Rate * (c - b + w)
      BY <3>1, RateGrows, RateAssumption
    <3>3. Rate * (l + w - b) \in Int /\ Rate * (c - b + w) \in Int
      BY RateAssumption
    <3>4. s <= Capacity + Rate * (c - b + w)
      BY <3>1, <3>2, <3>3, RateAssumption
    <3> QED BY <2>1, <3>4 DEF BurstBounded
  <2> QED BY <2>2, <2>3
<1> QED BY <1>1, BucketInit, BucketStep, PTL DEF RateSpec

\* Whatever order its requests take the lock in, a bucket never holds more than
\* its capacity, nor a moment the clock has not reached.
LEMMA RateTypeStep == RateTypeOK /\ [RateNext]_rateVars => RateTypeOK'
<1> SUFFICES ASSUME RateTypeOK, [RateNext]_rateVars PROVE RateTypeOK'
  OBVIOUS
<1> USE RateAssumption DEF RateTypeOK, None
<1>1. ASSUME NEW r \in Caller, Arrive(r) PROVE RateTypeOK'
  BY <1>1 DEF Arrive
<1>2. ASSUME NEW r \in Caller, NEW c \in Cost, Allow(r, c) PROVE RateTypeOK'
  <2>1. seen[r] \in 0..MaxTime /\ LastRefill \in 0..MaxTime
    BY <1>2 DEF Allow, LastRefill
  <2>2. Elapsed(r) \in Nat /\ Rewind(r) \in Nat
    BY <2>1 DEF Elapsed, Rewind
  <2>3. PICK e \in Nat : e = Elapsed(r) * Rate
    BY <2>2
  <2>4. Refilled(r) \in 0..Capacity
    BY <2>3 DEF Refilled
  <2>5. tokens' \in 0..Capacity /\ spent' \in Nat
    BY <1>2, <2>4 DEF Allow
  <2>6. seen' \in [Caller -> 0..MaxTime \cup {None}] /\ last' \in 0..MaxTime
    BY <1>2, <2>1 DEF Allow
  <2>7. clock' = clock /\ born' \in 0..MaxTime /\ rewound' \in Nat
    BY <1>2, <2>2 DEF Allow
  <2> QED BY <2>5, <2>6, <2>7
<1>3. CASE Pass
  BY <1>3 DEF Pass
<1>4. CASE UNCHANGED rateVars
  BY <1>4 DEF rateVars
<1> QED BY <1>1, <1>2, <1>3, <1>4 DEF RateNext

\* "max `capacity`" (rate_limit.py): a bucket never holds more than it can.
THEOREM RateTypeCorrect == RateSpec => []RateTypeOK
<1>1. RateInit => RateTypeOK
  BY RateAssumption DEF RateInit, RateTypeOK
<1> QED BY <1>1, RateTypeStep, PTL DEF RateSpec

-----------------------------------------------------------------------------
(* The backoff of a push source. *)

\* A source's count of failures covers its failed attempts, and the wait of one
\* that sleeps is what its count calls for.
SourceOK(s) ==
    /\ conn[s] = "connecting" => ~got[s]
    /\ conn[s] = "open" => dead[s] = 0
    /\ dead[s] <= failures[s]
    /\ conn[s] = "waiting" => delay[s] = Backoff(failures[s])

BackoffInv == PushTypeOK /\ \A s \in Source : SourceOK(s)

LEMMA LadderTypes ==
    /\ TopRung \in Nat \ {0}
    /\ \A n \in 0..TopRung : Up(n) \in 0..TopRung /\ Backoff(n) \in {BackoffLadder[k] : k \in 1..TopRung}
    /\ \A n, m \in 0..TopRung : n <= m => Up(n) <= Up(m)
    /\ \A k \in 1..TopRung : BackoffLadder[k] \in Nat
<1>1. TopRung \in Nat \ {0} /\ \A k \in 1..TopRung : BackoffLadder[k] \in Nat
  BY LadderAssumption DEF TopRung
<1>2. ASSUME NEW n \in 0..TopRung
      PROVE  Up(n) \in 0..TopRung /\ Backoff(n) \in {BackoffLadder[k] : k \in 1..TopRung}
  BY <1>1 DEF Up, Backoff
<1>3. ASSUME NEW n \in 0..TopRung, NEW m \in 0..TopRung, n <= m
      PROVE  Up(n) <= Up(m)
  BY <1>1, <1>3 DEF Up
<1> QED BY <1>1, <1>2, <1>3

LEMMA BackoffInit == PushInit => BackoffInv
<1> SUFFICES ASSUME PushInit PROVE BackoffInv
  OBVIOUS
<1>1. PushTypeOK
  BY LadderTypes DEF PushInit, PushTypeOK
<1>2. \A s \in Source : SourceOK(s)
  BY DEF PushInit, SourceOK
<1> QED BY <1>1, <1>2 DEF BackoffInv

\* A step of one source is no step of another.
LEMMA OtherSources ==
    ASSUME BackoffInv, NEW s \in Source, Task(s), NEW u \in Source \ {s}
    PROVE  SourceOK(u)'
<1>1. /\ conn'[u] = conn[u] /\ failures'[u] = failures[u] /\ got'[u] = got[u]
      /\ delay'[u] = delay[u] /\ dead'[u] = dead[u]
  BY DEF Task, Connect, Frame, EndSession, Wake, TaskEnds, BackoffInv, PushTypeOK
<1> QED BY <1>1 DEF BackoffInv, SourceOK, Backoff

LEMMA BackoffStep == BackoffInv /\ [PushNext]_pushVars => BackoffInv'
<1> SUFFICES ASSUME BackoffInv, [PushNext]_pushVars PROVE BackoffInv'
  OBVIOUS
<1>0. PushTypeOK /\ \A s \in Source : SourceOK(s)
  BY DEF BackoffInv
<1>a. ASSUME NEW s \in Source, Task(s), PushTypeOK', SourceOK(s)'
      PROVE  BackoffInv'
  BY <1>a, OtherSources DEF BackoffInv
<1>b. ASSUME NEW s \in Source
      PROVE  /\ failures[s] \in 0..TopRung /\ dead[s] \in 0..TopRung /\ got[s] \in BOOLEAN
             /\ 0 \in 0..TopRung
  BY <1>0, LadderTypes DEF PushTypeOK
<1>1. ASSUME NEW s \in Source, Connect(s) PROVE BackoffInv'
  <2>1. PushTypeOK'
    BY <1>0, <1>1, <1>b DEF Connect, PushTypeOK
  <2>2. conn'[s] = "open" /\ dead'[s] = 0 /\ failures'[s] = 0
    BY <1>0, <1>1 DEF Connect, PushTypeOK
  <2>3. SourceOK(s)'
    BY <2>2 DEF SourceOK
  <2> QED BY <1>1, <1>a, <2>1, <2>3 DEF Task
<1>2. ASSUME NEW s \in Source, Frame(s) PROVE BackoffInv'
  <2>1. PushTypeOK'
    BY <1>0, <1>2, <1>b DEF Frame, PushTypeOK
  <2>2. conn'[s] = "open" /\ dead'[s] = dead[s] /\ failures'[s] = failures[s]
    BY <1>2 DEF Frame
  <2>3. SourceOK(s)'
    BY <1>0, <1>2, <2>2 DEF SourceOK, Frame
  <2> QED BY <1>2, <1>a, <2>1, <2>3 DEF Task
<1>3. ASSUME NEW s \in Source, EndSession(s) PROVE BackoffInv'
  <2>1. FailuresAfter(s) \in 0..TopRung /\ Up(dead[s]) \in 0..TopRung
    BY <1>b, LadderTypes DEF FailuresAfter
  <2>2. Backoff(FailuresAfter(s)) \in {BackoffLadder[k] : k \in 1..TopRung}
    BY <2>1, LadderTypes
  <2>3. silent[s] \in 0..TopRung /\ Up(silent[s]) \in 0..TopRung
    BY <1>0, LadderTypes DEF PushTypeOK
  <2>4. PushTypeOK'
    BY <1>0, <1>3, <1>b, <2>1, <2>2, <2>3 DEF EndSession, PushTypeOK
  <2>5. /\ conn'[s] = "waiting" /\ delay'[s] = Backoff(FailuresAfter(s))
        /\ failures'[s] = FailuresAfter(s)
        /\ dead'[s] = IF conn[s] = "connecting" THEN Up(dead[s]) ELSE dead[s]
    BY <1>0, <1>3 DEF EndSession, PushTypeOK
  <2>6. dead'[s] <= failures'[s]
    <3>1. CASE conn[s] = "connecting"
      <4>1. dead'[s] = Up(dead[s]) /\ failures'[s] = Up(failures[s]) /\ dead[s] <= failures[s]
        BY <1>0, <2>5, <3>1 DEF SourceOK, FailuresAfter
      <4> QED BY <1>b, <4>1, LadderTypes
    <3>2. CASE conn[s] # "connecting"
      <4>1. dead'[s] = 0
        BY <1>0, <1>3, <2>5, <3>2 DEF SourceOK, EndSession
      <4> QED BY <2>1, <2>5, <4>1
    <3> QED BY <3>1, <3>2
  <2>7. SourceOK(s)'
    BY <2>5, <2>6 DEF SourceOK, Backoff
  <2> QED BY <1>3, <1>a, <2>4, <2>7 DEF Task
<1>4. ASSUME NEW s \in Source, Wake(s) PROVE BackoffInv'
  <2>1. PushTypeOK'
    BY <1>0, <1>4 DEF Wake, PushTypeOK
  <2>2. conn'[s] = "connecting" /\ ~got'[s] /\ dead'[s] = dead[s] /\ failures'[s] = failures[s]
    BY <1>0, <1>4 DEF Wake, PushTypeOK
  <2>3. SourceOK(s)'
    BY <1>0, <2>2 DEF SourceOK
  <2> QED BY <1>4, <1>a, <2>1, <2>3 DEF Task
<1>5. ASSUME NEW s \in Source, TaskEnds(s) PROVE BackoffInv'
  <2>1. PushTypeOK'
    BY <1>0, <1>5 DEF TaskEnds, PushTypeOK
  <2>2. conn'[s] = "stopped" /\ dead'[s] = dead[s] /\ failures'[s] = failures[s]
    BY <1>0, <1>5 DEF TaskEnds, PushTypeOK
  <2>3. SourceOK(s)'
    BY <1>0, <2>2 DEF SourceOK
  <2> QED BY <1>5, <1>a, <2>1, <2>3 DEF Task
<1>6. CASE AskStop \/ StopReturns \/ UNCHANGED pushVars
  <2>1. UNCHANGED <<conn, failures, got, delay, dead, silent>>
    BY <1>6 DEF AskStop, StopReturns, pushVars
  <2>2. PushTypeOK'
    BY <1>0, <1>6, <2>1 DEF AskStop, StopReturns, pushVars, PushTypeOK
  <2>3. \A s \in Source : SourceOK(s)'
    BY <1>0, <2>1 DEF SourceOK, Backoff
  <2> QED BY <2>2, <2>3 DEF BackoffInv
<1> QED BY <1>1, <1>2, <1>3, <1>4, <1>5, <1>6 DEF PushNext, Task

\* A source that does not answer climbs the ladder, for any ladder that climbs.
THEOREM BackoffCorrect == PushSpec => []DeadSourceIsThrottled
<1>1. BackoffInv => DeadSourceIsThrottled
  <2> SUFFICES ASSUME BackoffInv, NEW s \in Source, conn[s] = "waiting", dead[s] > 0
               PROVE  delay[s] >= BackoffLadder[dead[s]]
    BY DEF DeadSourceIsThrottled
  <2>1. dead[s] \in 1..TopRung /\ failures[s] \in 1..TopRung /\ dead[s] <= failures[s]
    <3>1. dead[s] \in 0..TopRung /\ failures[s] \in 0..TopRung
      BY DEF BackoffInv, PushTypeOK
    <3>2. dead[s] <= failures[s]
      BY DEF BackoffInv, SourceOK
    <3> QED BY <3>1, <3>2, LadderTypes
  <2>2. delay[s] = BackoffLadder[failures[s]]
    BY <2>1 DEF BackoffInv, SourceOK, Backoff
  <2>3. dead[s] = failures[s] \/ BackoffLadder[dead[s]] < BackoffLadder[failures[s]]
    BY <2>1, LadderAssumption DEF TopRung
  <2>4. BackoffLadder[dead[s]] \in Nat /\ BackoffLadder[failures[s]] \in Nat
    BY <2>1, LadderTypes
  <2> HIDE DEF BackoffInv
  <2> QED BY <2>2, <2>3, <2>4
<1> QED BY <1>1, BackoffInit, BackoffStep, PTL DEF PushSpec

\* The push channel keeps its types, its counters within the ladder.
THEOREM PushTypeCorrect == PushSpec => []PushTypeOK
<1>1. BackoffInv => PushTypeOK
  BY DEF BackoffInv
<1> QED BY <1>1, BackoffInit, BackoffStep, PTL DEF PushSpec

-----------------------------------------------------------------------------
(* The news poller's breaker and cadence. *)

(* What the ladder says for a streak of n errors; 0 short of the threshold. *)
Rung(n) == IF n < Threshold THEN 0 ELSE Ladder[AtMost(Len(Ladder), n - Threshold + 1)]

OpenedIsRung == \A f \in Feed : opened[f] = Rung(errors[f])

(* While a pass holds the lock, the feeds it fetches are not cooling.       *)
FetchedAreClosed == \A f \in fetching : cooldown[f] = Closed /\ ~backedOff[f]

SkippedAreCooling ==
    \A f \in skipped : cooldown[f] # Closed /\ f \notin fetching

ScheduleInv ==
    /\ ScheduleTypeOK
    /\ HealthAgrees
    /\ SitsOutItsEmptinessOnly
    /\ OpenedIsRung
    /\ FetchedAreClosed
    /\ SkippedAreCooling

-----------------------------------------------------------------------------
(* The ladders. *)

LEMMA CapsAreNat ==
    /\ Threshold \in Nat \ {0}
    /\ LongestCooldown \in Nat \ {0}
    /\ ErrorsCap \in Nat \ {0} /\ ErrorsCap >= Threshold
    /\ EmptiesCap \in Nat \ {0}
    /\ CadenceMax \in Nat \ {0}
<1>1. Len(Ladder) \in 1..Len(Ladder) /\ Len(CadenceLadder) \in 1..Len(CadenceLadder)
  BY ScheduleAssumption
<1>2. Ladder[Len(Ladder)] \in Nat \ {0} /\ CadenceLadder[Len(CadenceLadder)] \in Nat \X (Nat \ {0})
  BY <1>1, ScheduleAssumption
<1> QED BY <1>1, <1>2, ScheduleAssumption DEF LongestCooldown, ErrorsCap, EmptiesCap

(* A saturated counter stays in its range. *)
LEMMA AtMostBounds ==
    ASSUME NEW cap \in Nat, NEW n \in Nat
    PROVE  AtMost(cap, n) \in 0..cap /\ AtMost(cap, n) <= n /\ (n > 0 /\ cap > 0 => AtMost(cap, n) > 0)
BY DEF AtMost

(* Past the threshold, the rung is an index of the ladder. *)
LEMMA RungIndex ==
    ASSUME NEW n \in Nat, n >= Threshold
    PROVE  AtMost(Len(Ladder), n - Threshold + 1) \in 1..Len(Ladder)
BY ScheduleAssumption DEF AtMost

(* A rung is a cooldown of the ladder, and none exceeds the last. *)
LEMMA RungBounds ==
    ASSUME NEW n \in Nat
    PROVE  /\ Rung(n) \in 0..LongestCooldown
           /\ Rung(n) > 0 <=> n >= Threshold
           /\ n >= Threshold => ComputeCooldown(n) = Rung(n)
           /\ n < Threshold => ComputeCooldown(n) = Closed
<1>1. CASE n < Threshold
  BY <1>1, CapsAreNat DEF Rung, ComputeCooldown
<1>2. CASE n >= Threshold
  <2>1. AtMost(Len(Ladder), n - Threshold + 1) \in 1..Len(Ladder)
    BY <1>2, RungIndex
  <2>2. Len(Ladder) \in 1..Len(Ladder) /\ Ladder[Len(Ladder)] \in Nat \ {0}
    BY ScheduleAssumption
  <2>3. \A j \in 1..Len(Ladder) : Ladder[j] \in Nat \ {0} /\ Ladder[j] <= Ladder[Len(Ladder)]
    <3>1. \A j, k \in 1..Len(Ladder) : j <= k => Ladder[j] <= Ladder[k]
      BY ScheduleAssumption
    <3>2. \A j \in 1..Len(Ladder) : Ladder[j] \in Nat \ {0} /\ j <= Len(Ladder)
      BY ScheduleAssumption
    <3> QED BY <2>2, <3>1, <3>2
  <2>4. /\ Ladder[AtMost(Len(Ladder), n - Threshold + 1)] \in Nat \ {0}
        /\ Ladder[AtMost(Len(Ladder), n - Threshold + 1)] <= Ladder[Len(Ladder)]
    BY <2>1, <2>3
  <2> QED BY <1>2, <2>2, <2>4, ScheduleAssumption DEF Rung, ComputeCooldown, LongestCooldown
<1> QED BY <1>1, <1>2, ScheduleAssumption

(* More errors never call for a shorter cooldown. *)
LEMMA RungClimbs ==
    ASSUME NEW n \in Nat, NEW m \in Nat, n <= m
    PROVE  Rung(n) <= Rung(m)
<1>1. CASE n < Threshold
  <2>1. Rung(n) = 0
    BY <1>1 DEF Rung
  <2>2. Rung(m) \in 0..LongestCooldown /\ LongestCooldown \in Nat
    BY RungBounds, CapsAreNat
  <2> QED BY <2>1, <2>2
<1>2. CASE n >= Threshold
  <2>1. m >= Threshold
    BY <1>2, ScheduleAssumption
  <2>2. /\ AtMost(Len(Ladder), n - Threshold + 1) \in 1..Len(Ladder)
        /\ AtMost(Len(Ladder), m - Threshold + 1) \in 1..Len(Ladder)
    BY <1>2, <2>1, RungIndex
  <2>3. AtMost(Len(Ladder), n - Threshold + 1) <= AtMost(Len(Ladder), m - Threshold + 1)
    BY <1>2, <2>1, ScheduleAssumption DEF AtMost
  <2>4. Ladder[AtMost(Len(Ladder), n - Threshold + 1)] <= Ladder[AtMost(Len(Ladder), m - Threshold + 1)]
    BY <2>2, <2>3, ScheduleAssumption
  <2> QED BY <1>2, <2>1, <2>4, ScheduleAssumption DEF Rung
<1> QED BY <1>1, <1>2, ScheduleAssumption

(* Errors beyond the cap call for no other rung than the cap. *)
LEMMA RungSaturates ==
    ASSUME NEW n \in 0..ErrorsCap
    PROVE  /\ AtMost(ErrorsCap, n + 1) \in 0..ErrorsCap
           /\ AtMost(ErrorsCap, n + 1) >= n
           /\ AtMost(ErrorsCap, n + 1) > 0
BY CapsAreNat DEF AtMost

LEMMA CadenceBounds ==
    ASSUME NEW n \in Nat
    PROVE  Cadence(n) \in 1..CadenceMax
<1> DEFINE holding == {k \in 1..Len(CadenceLadder) : n <= CadenceLadder[k][1]}
<1>1. CASE holding = {}
  BY <1>1, ScheduleAssumption DEF Cadence
<1>2. CASE holding # {}
  <2>1. PICK k \in holding : \A j \in holding : k <= j
    <3>1. holding \subseteq Nat
      BY ScheduleAssumption
    <3>2. PICK k \in holding : \A j \in holding : ~ (<<j, k>> \in OpToRel(<, Nat))
      BY <1>2, <3>1, NatLessThanWellFounded, WFMin
    <3>3. \A j \in holding : ~ (j < k)
      BY <3>1, <3>2 DEF OpToRel
    <3> HIDE DEF holding
    <3>4. k \in Nat /\ \A j \in holding : j \in Nat /\ ~ (j < k)
      BY <3>1, <3>3
    <3>5. \A j \in holding : k <= j
      BY <3>4
    <3> QED BY <3>2, <3>5
  <2>2. (CHOOSE i \in holding : \A j \in holding : i <= j) \in holding
    BY <2>1
  <2>3. \A i \in 1..Len(CadenceLadder) : CadenceLadder[i][2] \in 1..CadenceMax
    BY ScheduleAssumption
  <2> QED BY <1>2, <2>2, <2>3 DEF Cadence
<1> QED BY <1>1, <1>2

-----------------------------------------------------------------------------
(* The invariant. *)

LEMMA ScheduleBegins == ScheduleInit => ScheduleInv
<1> SUFFICES ASSUME ScheduleInit PROVE ScheduleInv
  OBVIOUS
<1>1. Cadence(0) \in 1..CadenceMax
  BY CadenceBounds
<1>2. /\ 0 \in 0..ErrorsCap /\ 0 \in 0..EmptiesCap /\ 0 \in 0..LongestCooldown /\ 0 \in 0..CadenceMax
      /\ Closed \in Closed..LongestCooldown
      /\ Rung(0) = 0
  BY CapsAreNat DEF Closed, Rung
<1> QED BY <1>1, <1>2, ScheduleAssumption
  DEF ScheduleInit, ScheduleInv, ScheduleTypeOK, HealthAgrees, SitsOutItsEmptinessOnly,
      OpenedIsRung, FetchedAreClosed, SkippedAreCooling

(* What a record of results does to one feed: RecordResults keeps the        *)
(* invariant's parts that speak of the breaker, provided the pass is over.   *)
LEMMA RecordKeepsHealth ==
    ASSUME ScheduleInv, NEW res \in Outcomes, RecordResults(res), NEW f \in Feed
    PROVE  /\ errors'[f] \in 0..ErrorsCap
           /\ cooldown'[f] \in Closed..LongestCooldown
           /\ ok'[f] \in BOOLEAN /\ backedOff'[f] \in BOOLEAN
           /\ opened'[f] \in 0..LongestCooldown
           /\ cooldown'[f] # Closed => errors'[f] >= Threshold
           /\ ok'[f] => errors'[f] = 0 /\ cooldown'[f] = Closed /\ ~backedOff'[f]
           /\ backedOff'[f] => cooldown'[f] # Closed
           /\ opened'[f] = Rung(errors'[f])
           /\ errors'[f] > 0 => errors'[f] >= errors[f]
<1> USE DEF ScheduleInv, ScheduleTypeOK
<1>1. /\ DOMAIN res = fetching /\ \A g \in fetching : res[g] \in {"new", "empty", "error"}
      /\ errors[f] \in 0..ErrorsCap /\ errors[f] \in Nat
  BY CapsAreNat DEF Outcomes
<1>2. CASE f \notin fetching
  <2>1. errors'[f] = errors[f] /\ cooldown'[f] = cooldown[f] /\ opened'[f] = opened[f]
    BY <1>1, <1>2 DEF RecordResults, ErrorsAfter, CooldownAfter
  <2>2. ok'[f] \in BOOLEAN /\ (ok'[f] => f \notin skipped /\ ok[f])
    BY <1>1, <1>2 DEF RecordResults
  <2>3. backedOff'[f] \in BOOLEAN /\ (backedOff'[f] => f \in skipped \/ backedOff[f])
    BY <1>1, <1>2 DEF RecordResults
  <2>4. f \in skipped => cooldown[f] # Closed
    BY DEF SkippedAreCooling
  <2>5. /\ cooldown[f] # Closed => errors[f] >= Threshold
        /\ ok[f] => errors[f] = 0 /\ cooldown[f] = Closed /\ ~backedOff[f]
        /\ backedOff[f] => cooldown[f] # Closed
    BY DEF HealthAgrees
  <2>6. ok'[f] => errors'[f] = 0 /\ cooldown'[f] = Closed /\ ~backedOff'[f]
    BY <2>1, <2>2, <2>3, <2>5, Zenon
  <2>7. backedOff'[f] => cooldown'[f] # Closed
    BY <2>1, <2>3, <2>4, <2>5, Zenon
  <2>8. /\ errors[f] \in 0..ErrorsCap /\ cooldown[f] \in Closed..LongestCooldown
        /\ opened[f] \in 0..LongestCooldown /\ opened[f] = Rung(errors[f])
        /\ errors[f] >= errors[f]
    BY DEF OpenedIsRung
  <2> HIDE DEF ScheduleInv, ScheduleTypeOK
  <2> QED BY <2>1, <2>2, <2>3, <2>5, <2>6, <2>7, <2>8, Zenon
<1>3. CASE f \in fetching /\ res[f] = "error"
  <2>1. f \notin skipped
    BY <1>3 DEF SkippedAreCooling
  <2>2. /\ errors'[f] = AtMost(ErrorsCap, errors[f] + 1)
        /\ cooldown'[f] = ComputeCooldown(errors'[f])
        /\ opened'[f] = IF cooldown'[f] = Closed THEN opened[f] ELSE cooldown'[f]
    BY <1>1, <1>3, <2>1 DEF RecordResults, ErrorsAfter, CooldownAfter
  <2>8. ok'[f] \in BOOLEAN /\ backedOff'[f] \in BOOLEAN /\ ~ok'[f] /\ ~backedOff'[f]
    BY <1>1, <1>3, <2>1 DEF RecordResults
  <2>3. errors'[f] \in 0..ErrorsCap /\ errors'[f] >= errors[f] /\ errors'[f] \in Nat
    BY <1>1, <2>2, RungSaturates
  <2>4. /\ Rung(errors'[f]) \in 0..LongestCooldown
        /\ errors'[f] < Threshold => cooldown'[f] = Closed /\ Rung(errors'[f]) = 0
        /\ errors'[f] >= Threshold => cooldown'[f] = Rung(errors'[f]) /\ Rung(errors'[f]) > 0
    BY <2>2, <2>3, RungBounds, CapsAreNat DEF Rung
  <2>5. opened[f] = Rung(errors[f])
    BY DEF OpenedIsRung
  <2>6. errors'[f] < Threshold => opened[f] = 0
    BY <1>1, <2>3, <2>5, CapsAreNat DEF Rung
  <2>7. LongestCooldown \in Nat
    BY CapsAreNat
  <2> HIDE DEF ScheduleInv, ScheduleTypeOK
  <2>9. /\ cooldown'[f] \in Closed..LongestCooldown
        /\ opened'[f] \in 0..LongestCooldown
        /\ cooldown'[f] # Closed => errors'[f] >= Threshold
        /\ opened'[f] = Rung(errors'[f])
    BY <2>2, <2>3, <2>4, <2>6, <2>7, CapsAreNat DEF Closed
  <2> QED BY <2>3, <2>8, <2>9, Zenon
<1>4. CASE f \in fetching /\ res[f] # "error"
  <2>1. f \notin skipped
    BY <1>4 DEF SkippedAreCooling
  <2>2. errors'[f] = 0 /\ cooldown'[f] = Closed /\ opened'[f] = 0
    BY <1>1, <1>4, <2>1 DEF RecordResults, ErrorsAfter, CooldownAfter
  <2>3. ok'[f] \in BOOLEAN /\ backedOff'[f] \in BOOLEAN /\ ~backedOff'[f]
    BY <1>1, <1>4, <2>1 DEF RecordResults
  <2>4. /\ Rung(0) = 0 /\ 0 \in 0..LongestCooldown /\ 0 \in 0..ErrorsCap
        /\ Closed \in Closed..LongestCooldown /\ ~(0 > 0)
    BY CapsAreNat DEF Rung, Closed
  <2> HIDE DEF ScheduleInv, ScheduleTypeOK
  <2> QED BY <2>2, <2>3, <2>4, Zenon
<1> QED BY <1>2, <1>3, <1>4

(* The cadence part: a feed sits out less than its emptiness calls for.      *)
LEMMA YieldKeepsCadence ==
    ASSUME ScheduleInv, NEW res \in Outcomes, RecordYield(res), NEW f \in Feed
    PROVE  /\ empties'[f] \in 0..EmptiesCap
           /\ dueIn'[f] \in 0..CadenceMax
           /\ dueIn'[f] < Cadence(empties'[f])
<1> USE DEF ScheduleInv, ScheduleTypeOK
<1>0. EmptiesCap \in Nat /\ empties[f] \in Nat /\ DOMAIN res = fetching
  BY CapsAreNat DEF Outcomes
<1>1. /\ empties'[f] = EmptiesAfter(res, f)
      /\ dueIn'[f] = IF f \in fetching /\ res[f] # "error" THEN Cadence(empties'[f]) - 1 ELSE dueIn[f]
  BY <1>0 DEF RecordYield
<1>2. empties'[f] \in 0..EmptiesCap
  BY <1>0, <1>1, AtMostBounds DEF EmptiesAfter
<1>3. Cadence(empties'[f]) \in 1..CadenceMax
  BY <1>0, <1>2, CadenceBounds
<1>4. CASE f \in fetching /\ res[f] # "error"
  BY <1>1, <1>2, <1>3, <1>4, CapsAreNat
<1>5. CASE ~(f \in fetching /\ res[f] # "error")
  BY <1>0, <1>1, <1>2, <1>5 DEF EmptiesAfter, SitsOutItsEmptinessOnly
<1> QED BY <1>4, <1>5

(* What a record of results leaves of the health, written of all feeds, and  *)
(* with the lock released: the parts of the invariant that EndTick,          *)
(* AbortTick and EndProbe share.                                             *)
LEMMA RecordKeepsBreaker ==
    ASSUME ScheduleInv, NEW res \in Outcomes, RecordResults(res), Release
    PROVE  /\ errors' \in [Feed -> 0..ErrorsCap]
           /\ cooldown' \in [Feed -> Closed..LongestCooldown]
           /\ ok' \in [Feed -> BOOLEAN] /\ backedOff' \in [Feed -> BOOLEAN]
           /\ opened' \in [Feed -> 0..LongestCooldown]
           /\ busy' \in {"idle", "tick", "probe"}
           /\ fetching' \in SUBSET Feed /\ skipped' \in SUBSET Feed
           /\ HealthAgrees' /\ OpenedIsRung' /\ FetchedAreClosed' /\ SkippedAreCooling'
<1>1. \A f \in Feed :
        /\ errors'[f] \in 0..ErrorsCap
        /\ cooldown'[f] \in Closed..LongestCooldown
        /\ ok'[f] \in BOOLEAN /\ backedOff'[f] \in BOOLEAN
        /\ opened'[f] \in 0..LongestCooldown
        /\ cooldown'[f] # Closed => errors'[f] >= Threshold
        /\ ok'[f] => errors'[f] = 0 /\ cooldown'[f] = Closed /\ ~backedOff'[f]
        /\ backedOff'[f] => cooldown'[f] # Closed
        /\ opened'[f] = Rung(errors'[f])
  BY RecordKeepsHealth
<1>2. /\ errors' = [f \in Feed |-> errors'[f]] /\ cooldown' = [f \in Feed |-> cooldown'[f]]
      /\ ok' = [f \in Feed |-> ok'[f]] /\ backedOff' = [f \in Feed |-> backedOff'[f]]
      /\ opened' = [f \in Feed |-> opened'[f]]
  BY DEF RecordResults
<1>3. busy' = "idle" /\ fetching' = {} /\ skipped' = {}
  BY DEF Release
<1>4. /\ errors' \in [Feed -> 0..ErrorsCap] /\ cooldown' \in [Feed -> Closed..LongestCooldown]
      /\ opened' \in [Feed -> 0..LongestCooldown]
  BY <1>1, <1>2
<1>5. ok' \in [Feed -> BOOLEAN] /\ backedOff' \in [Feed -> BOOLEAN]
  BY <1>1, <1>2, Zenon
<1>6. HealthAgrees' /\ OpenedIsRung'
  BY <1>1, Zenon DEF HealthAgrees, OpenedIsRung
<1>7. FetchedAreClosed' /\ SkippedAreCooling'
  BY <1>3 DEF FetchedAreClosed, SkippedAreCooling
<1> QED BY <1>3, <1>4, <1>5, <1>6, <1>7

LEMMA ScheduleStep == ScheduleInv /\ [ScheduleNext]_scheduleVars => ScheduleInv'
<1> SUFFICES ASSUME ScheduleInv, [ScheduleNext]_scheduleVars PROVE ScheduleInv'
  OBVIOUS
<1>0. /\ \A f \in Feed : /\ dueIn[f] \in 0..CadenceMax /\ empties[f] \in 0..EmptiesCap
                         /\ cooldown[f] \in Closed..LongestCooldown
                         /\ dueIn[f] < Cadence(empties[f])
                         /\ Cadence(empties[f]) \in 1..CadenceMax
      /\ Closed \in Closed..LongestCooldown
  BY CapsAreNat, CadenceBounds DEF ScheduleInv, ScheduleTypeOK, SitsOutItsEmptinessOnly, Closed
<1>1. CASE BeginTick
  <2> USE <1>1 DEF BeginTick
  <2>1. dueIn' \in [Feed -> 0..CadenceMax] /\ \A f \in Feed : dueIn'[f] <= dueIn[f]
    BY <1>0, CapsAreNat
  <2>2. cooldown' \in [Feed -> Closed..LongestCooldown]
    BY <1>0
  <2>3. backedOff' \in [Feed -> BOOLEAN]
    BY DEF ScheduleInv, ScheduleTypeOK
  <2>4. ScheduleTypeOK'
    BY <2>1, <2>2, <2>3 DEF ScheduleInv, ScheduleTypeOK
  <2>5. \A f \in Feed : /\ cooldown'[f] # Closed => cooldown[f] # Closed
                        /\ backedOff'[f] => backedOff[f] /\ cooldown[f] # 0
                        /\ cooldown[f] # 0 => cooldown'[f] = cooldown[f]
    BY DEF ScheduleInv, ScheduleTypeOK
  <2>6. HealthAgrees'
    BY <2>5 DEF ScheduleInv, HealthAgrees
  <2>7. SitsOutItsEmptinessOnly'
    <3> SUFFICES ASSUME NEW f \in Feed
                 PROVE  dueIn'[f] < Cadence(empties[f])
      BY DEF SitsOutItsEmptinessOnly
    <3> QED BY <1>0, <2>1, <2>5
  <2>8. OpenedIsRung'
    BY DEF ScheduleInv, OpenedIsRung
  <2>9. FetchedAreClosed' /\ SkippedAreCooling'
    <3>1. ASSUME NEW f \in fetching' PROVE cooldown'[f] = Closed /\ ~backedOff'[f]
      BY <1>0, <2>5, CapsAreNat DEF Cooling, Closed, ScheduleInv, HealthAgrees
    <3>2. ASSUME NEW f \in skipped' PROVE cooldown'[f] # Closed /\ f \notin fetching'
      BY <1>0, CapsAreNat DEF Cooling, Closed
    <3> QED BY <3>1, <3>2 DEF FetchedAreClosed, SkippedAreCooling
  <2> QED BY <2>4, <2>6, <2>7, <2>8, <2>9 DEF ScheduleInv
<1>2. ASSUME NEW g \in Feed, BeginProbe(g) PROVE ScheduleInv'
  <2> USE <1>2 DEF BeginProbe
  <2>1. ScheduleTypeOK'
    BY <1>0 DEF ScheduleInv, ScheduleTypeOK
  <2>2. \A f \in Feed : /\ cooldown'[f] # Closed => cooldown'[f] = cooldown[f]
                        /\ backedOff'[f] => backedOff[f]
                        /\ f = g => cooldown'[f] = Closed
                        /\ f # g => cooldown'[f] = cooldown[f]
                        /\ f = g /\ cooldown[f] # Closed => ~backedOff'[f]
    BY DEF ScheduleInv, ScheduleTypeOK
  <2>3. HealthAgrees'
    BY <2>2 DEF ScheduleInv, HealthAgrees
  <2>4. SitsOutItsEmptinessOnly'
    <3> SUFFICES ASSUME NEW f \in Feed
                 PROVE  dueIn[f] < Cadence(empties[f])
      BY DEF SitsOutItsEmptinessOnly
    <3> QED BY <1>0, <2>2
  <2>5. OpenedIsRung'
    BY DEF ScheduleInv, OpenedIsRung
  <2>6. FetchedAreClosed' /\ SkippedAreCooling'
    BY <2>2 DEF FetchedAreClosed, SkippedAreCooling, ScheduleInv, HealthAgrees
  <2> QED BY <2>1, <2>3, <2>4, <2>5, <2>6 DEF ScheduleInv
<1>3. CASE EndTick
  <2>1. PICK res \in Outcomes : RecordResults(res) /\ RecordYield(res)
    BY <1>3 DEF EndTick
  <2>2. Release
    BY <1>3 DEF EndTick
  <2>3. \A f \in Feed : /\ empties'[f] \in 0..EmptiesCap
                        /\ dueIn'[f] \in 0..CadenceMax
                        /\ dueIn'[f] < Cadence(empties'[f])
    BY <2>1, YieldKeepsCadence
  <2>4. empties' \in [Feed -> 0..EmptiesCap] /\ dueIn' \in [Feed -> 0..CadenceMax]
    <3>1. empties' = [f \in Feed |-> empties'[f]] /\ dueIn' = [f \in Feed |-> dueIn'[f]]
      BY <2>1 DEF RecordYield
    <3> QED BY <2>3, <3>1
  <2>5. ScheduleTypeOK' /\ HealthAgrees' /\ OpenedIsRung' /\ FetchedAreClosed' /\ SkippedAreCooling'
    BY <2>1, <2>2, <2>4, RecordKeepsBreaker DEF ScheduleTypeOK
  <2>6. SitsOutItsEmptinessOnly'
    <3> SUFFICES ASSUME NEW f \in Feed
                 PROVE  dueIn'[f] < Cadence(empties'[f])
      BY DEF SitsOutItsEmptinessOnly
    <3> QED BY <2>3
  <2> QED BY <2>5, <2>6 DEF ScheduleInv
<1>4. CASE AbortTick \/ EndProbe
  <2>1. PICK res \in Outcomes : RecordResults(res)
    BY <1>4 DEF AbortTick, EndProbe
  <2>2. Release /\ UNCHANGED <<empties, dueIn>>
    BY <1>4 DEF AbortTick, EndProbe
  <2>3. ScheduleTypeOK' /\ HealthAgrees' /\ OpenedIsRung' /\ FetchedAreClosed' /\ SkippedAreCooling'
    BY <2>1, <2>2, RecordKeepsBreaker DEF ScheduleTypeOK, ScheduleInv
  <2>4. SitsOutItsEmptinessOnly'
    <3> SUFFICES ASSUME NEW f \in Feed
                 PROVE  dueIn[f] < Cadence(empties[f])
      BY <2>2 DEF SitsOutItsEmptinessOnly
    <3> QED BY <1>0
  <2> QED BY <2>3, <2>4 DEF ScheduleInv
<1>5. CASE ClockTick
  <2> USE <1>5 DEF ClockTick
  <2>1. cooldown' \in [Feed -> Closed..LongestCooldown]
    BY <1>0, CapsAreNat DEF Closed
  <2>2. \A f \in Feed : cooldown'[f] = Closed <=> cooldown[f] = Closed
    BY <1>0, CapsAreNat DEF Closed
  <2>3. ScheduleTypeOK'
    BY <2>1 DEF ScheduleInv, ScheduleTypeOK
  <2>4. HealthAgrees'
    BY <2>2 DEF ScheduleInv, HealthAgrees
  <2>5. SitsOutItsEmptinessOnly'
    <3> SUFFICES ASSUME NEW f \in Feed
                 PROVE  dueIn[f] < Cadence(empties[f])
      BY DEF SitsOutItsEmptinessOnly
    <3> QED BY <1>0, <2>2
  <2>6. OpenedIsRung'
    BY DEF ScheduleInv, OpenedIsRung
  <2>7. FetchedAreClosed' /\ SkippedAreCooling'
    BY <2>2 DEF FetchedAreClosed, SkippedAreCooling, ScheduleInv, ScheduleTypeOK
  <2> QED BY <2>3, <2>4, <2>5, <2>6, <2>7 DEF ScheduleInv
<1>6. CASE UNCHANGED scheduleVars
  BY <1>6 DEF scheduleVars, health, ScheduleInv, ScheduleTypeOK, HealthAgrees, SitsOutItsEmptinessOnly,
     OpenedIsRung, FetchedAreClosed, SkippedAreCooling
<1> QED BY <1>1, <1>2, <1>3, <1>4, <1>5, <1>6 DEF ScheduleNext

(* Within a streak, a new cooldown is longer than the last one.              *)
LEMMA StepClimbs ==
    ScheduleInv /\ [ScheduleNext]_scheduleVars =>
        [\A f \in Feed : errors'[f] > 0 /\ opened'[f] # opened[f] => opened'[f] > opened[f]]_scheduleVars
<1> SUFFICES ASSUME ScheduleInv, ScheduleNext, NEW f \in Feed, errors'[f] > 0, opened'[f] # opened[f]
             PROVE  opened'[f] > opened[f]
  OBVIOUS
<1>1. PICK res \in Outcomes : RecordResults(res)
  BY DEF ScheduleNext, BeginTick, EndTick, AbortTick, BeginProbe, EndProbe, ClockTick
<1>2. errors'[f] >= errors[f] /\ errors'[f] \in Nat /\ opened'[f] = Rung(errors'[f])
  BY <1>1, RecordKeepsHealth, CapsAreNat
<1>3. errors[f] \in Nat /\ opened[f] = Rung(errors[f])
  BY CapsAreNat DEF ScheduleInv, ScheduleTypeOK, OpenedIsRung
<1>4. /\ Rung(errors[f]) \in Nat /\ Rung(errors'[f]) \in Nat
      /\ Rung(errors[f]) <= Rung(errors'[f])
  BY <1>2, <1>3, RungClimbs, RungBounds, CapsAreNat
<1> QED BY <1>2, <1>3, <1>4

-----------------------------------------------------------------------------
(* The theorems. *)

(* Breaker and cadence keep their types; the entries of a feed's health      *)
(* agree, a feed sits out only what its emptiness calls for, and a full      *)
(* streak of errors has opened the breaker: for any feeds and any ladders.   *)
THEOREM ScheduleCorrect == ScheduleSpec => [](ScheduleTypeOK /\ ScheduleAgrees)
<1>1. ScheduleInv => ScheduleTypeOK /\ ScheduleAgrees
  <2> SUFFICES ASSUME ScheduleInv, NEW f \in Feed, errors[f] >= Threshold PROVE opened[f] > 0
    BY DEF ScheduleInv, ScheduleAgrees, StreakOpensBreaker
  <2>1. errors[f] \in Nat
    BY CapsAreNat DEF ScheduleInv, ScheduleTypeOK
  <2> QED BY <2>1, RungBounds DEF ScheduleInv, OpenedIsRung
<1> QED BY <1>1, ScheduleBegins, ScheduleStep, PTL DEF ScheduleSpec

(* "The ladder is climbed each additional failure."                          *)
THEOREM LadderIsClimbed == ScheduleSpec => LadderClimbs
BY ScheduleBegins, ScheduleStep, StepClimbs, PTL DEF ScheduleSpec, LadderClimbs

-----------------------------------------------------------------------------
(* The quant cache (quant/engine.py). *)

FlightInv == QuantTypeOK /\ OneBuilder /\ WaitersHaveBuilder

Building(u) == thread[u].pc \in {"build", "publish"}

\* OneBuilder, a thread at a time.
BuilderIsRegistered ==
    \A k \in Keys, u \in Threads : Building(u) /\ Key(u) = k <=> pending[k] = u

\* Values and requests that are used whole.
LEMMA Basics ==
    /\ JustRead \in Values /\ Absent \in Entries
    /\ AgeCap \in Nat \ {0} /\ OldCap \in Nat \ {0}
    /\ Idle \in Requests /\ Idle.pc = "idle" /\ Idle.chain = <<>>
<1>1. StaleBound \in Nat
  <2>1. LevelBound \in Nat
    BY CacheAssumption DEF LevelBound
  <2> QED BY <2>1, CacheAssumption DEF StaleBound
<1>2. AgeCap \in Nat \ {0} /\ OldCap \in Nat \ {0}
  BY <1>1, CacheAssumption DEF AgeCap, OldCap
<1>3. JustRead \in Values /\ Absent \in Entries
  BY <1>2 DEF JustRead, Absent, Values, Entries
<1>4. Idle \in Requests /\ Idle.pc = "idle" /\ Idle.chain = <<>>
  BY <1>3, CacheAssumption DEF Idle, Requests, Phases
<1> QED BY <1>2, <1>3, <1>4

\* A request that goes on is a request; it no longer waits or builds.
LEMMA ReturnedType ==
    ASSUME QuantTypeOK, NEW t \in Threads, thread[t].pc # "idle", NEW v \in Values
    PROVE  /\ Returned(t, v) \in Requests
           /\ Returned(t, v).pc \in {"look", "done"}
           /\ Returned(t, v).chain # <<>>
<1> DEFINE rest == Tail(thread[t].chain)
<1>1. thread[t] \in Requests /\ thread[t].chain \in Seq(Keys) /\ thread[t].chain # <<>>
  BY DEF QuantTypeOK, Requests
<1>2. rest \in Seq(Keys)
  BY <1>1
<1> HIDE DEF rest
<1>3. Returned(t, v) = [thread[t] EXCEPT !.pc = IF rest = <<>> THEN "done" ELSE "look",
                          !.chain = IF rest = <<>> THEN thread[t].chain ELSE rest,
                          !.late = 0, !.before = thread[t].last,
                          !.last = v, !.val = JustRead]
  BY DEF Returned, rest
<1>4. thread[t].last \in Values /\ JustRead \in Values /\ 0 \in 0..MaxLate
  BY <1>1, Basics, CacheAssumption DEF Requests
<1> QED BY <1>1, <1>2, <1>3, <1>4 DEF Requests, Phases

\* What a busy request looks up and computes has the right type.
LEMMA InHand ==
    ASSUME QuantTypeOK, NEW t \in Threads, thread[t].pc # "idle"
    PROVE  /\ Key(t) \in Keys
           /\ cache[Key(t)].value \in Values
           /\ Built(t) \in Values
<1>1. thread[t] \in Requests /\ thread[t].chain \in Seq(Keys) /\ thread[t].chain # <<>>
  BY DEF QuantTypeOK, Requests
<1>2. Key(t) \in Keys
  BY <1>1 DEF Key
<1>3. cache[Key(t)].value \in Values
  BY <1>2 DEF QuantTypeOK, Entries
<1>4. thread[t].last \in Values /\ thread[t].before \in Values
  BY <1>1 DEF Requests
<1>5. Built(t) \in Values
  BY <1>4, Basics DEF Built, Older
<1> QED BY <1>2, <1>3, <1>5

\* A step of one request that keeps it a request keeps the types.
LEMMA OneRequest ==
    ASSUME QuantTypeOK, NEW t \in Threads, NEW r \in Requests,
           r.pc = "idle" <=> r.chain = <<>>,
           thread' = [thread EXCEPT ![t] = r],
           cache' \in [Keys -> Entries],
           pending' \in [Keys -> Threads \cup {NoThread}]
    PROVE  QuantTypeOK'
BY DEF QuantTypeOK

\* The same when its waiters are woken with it.
LEMMA WakingRequest ==
    ASSUME QuantTypeOK, NEW t \in Threads, NEW r \in Requests,
           r.pc = "idle" <=> r.chain = <<>>,
           thread' = WithWaitersWoken(t, r),
           cache' \in [Keys -> Entries],
           pending' \in [Keys -> Threads \cup {NoThread}]
    PROVE  QuantTypeOK'
<1>1. ASSUME NEW u \in Threads
      PROVE  /\ thread'[u] \in Requests
             /\ thread'[u].pc = "idle" <=> thread'[u].chain = <<>>
  <2>1. thread[u] \in Requests /\ (thread[u].pc = "idle" <=> thread[u].chain = <<>>)
    BY DEF QuantTypeOK
  <2>2. CASE u = t
    BY <2>2 DEF WithWaitersWoken
  <2>3. CASE u # t /\ thread[u].pc = "wait" /\ Key(u) = Key(t)
    <3>1. thread'[u] = [thread[u] EXCEPT !.pc = "woken"]
      BY <2>3 DEF WithWaitersWoken
    <3> QED BY <2>1, <2>3, <3>1 DEF Requests, Phases
  <2>4. CASE u # t /\ ~(thread[u].pc = "wait" /\ Key(u) = Key(t))
    <3>1. thread'[u] = thread[u]
      BY <2>4 DEF WithWaitersWoken
    <3> QED BY <2>1, <3>1
  <2> QED BY <2>2, <2>3, <2>4
<1>2. thread' = [u \in Threads |-> thread'[u]]
  BY DEF WithWaitersWoken
<1>3. thread' \in [Threads -> Requests]
  BY <1>1, <1>2
<1> QED BY <1>1, <1>3 DEF QuantTypeOK

LEMMA RequestTypes ==
    ASSUME QuantTypeOK, NEW t \in Threads, Step(t)
    PROVE  QuantTypeOK'
<1> DEFINE k == Key(t)
           CP == /\ cache \in [Keys -> Entries]
                 /\ pending \in [Keys -> Threads \cup {NoThread}]
<1>1. CP
  BY DEF QuantTypeOK
<1>2. thread[t] \in Requests /\ (thread[t].pc = "idle" <=> thread[t].chain = <<>>)
  BY DEF QuantTypeOK
<1>3. thread[t].pc # "idle"
  BY <1>2 DEF Step, Serve, Look, Enrol, Woken, BuildAlone, Build, Publish, ReadFails, Reply, At
<1>4. k \in Keys /\ cache[k].value \in Values /\ Built(t) \in Values
  BY <1>3, InHand
\* Moving on within the call, and returning from it.
<1>5. ASSUME NEW here \in Phases \ {"idle"}, Goto(t, here), UNCHANGED cache,
             pending' \in [Keys -> Threads \cup {NoThread}]
      PROVE  QuantTypeOK'
  <2> DEFINE r == [thread[t] EXCEPT !.pc = here]
  <2>1. r \in Requests /\ (r.pc = "idle" <=> r.chain = <<>>)
    BY <1>2, <1>3 DEF Requests
  <2>2. thread' = [thread EXCEPT ![t] = r]
    BY <1>5 DEF Goto
  <2> HIDE DEF r
  <2> QED BY <1>1, <1>5, <2>1, <2>2, OneRequest
<1>6. ASSUME NEW v \in Values, Return(t, v), UNCHANGED <<cache, pending>>
      PROVE  QuantTypeOK'
  <2>1. /\ Returned(t, v) \in Requests
        /\ Returned(t, v).pc = "idle" <=> Returned(t, v).chain = <<>>
    BY <1>3, ReturnedType
  <2>2. thread' = [thread EXCEPT ![t] = Returned(t, v)]
    BY <1>6 DEF Return
  <2> QED BY <1>1, <1>6, <2>1, <2>2, OneRequest
<1>7. CASE Look(t)
  BY <1>1, <1>4, <1>5, <1>6, <1>7 DEF Look, Phases
<1>8. CASE Enrol(t)
  BY <1>1, <1>4, <1>5, <1>6, <1>8 DEF Enrol, Phases
<1>9. CASE Woken(t)
  BY <1>1, <1>4, <1>5, <1>6, <1>9 DEF Woken, Phases
<1>10. CASE BuildAlone(t)
  BY <1>4, <1>6, <1>10 DEF BuildAlone
<1>11. CASE Build(t)
  <2> DEFINE r == [thread[t] EXCEPT !.pc = "publish", !.val = Built(t)]
  <2>1. r \in Requests /\ (r.pc = "idle" <=> r.chain = <<>>)
    BY <1>2, <1>3, <1>4 DEF Requests, Phases
  <2>2. thread' = [thread EXCEPT ![t] = r] /\ UNCHANGED <<cache, pending>>
    BY <1>11 DEF Build
  <2> HIDE DEF r
  <2> QED BY <1>1, <2>1, <2>2, OneRequest
<1>12. CASE Publish(t)
  <2>1. thread[t].val \in Values
    BY <1>2 DEF Requests
  <2>2. /\ Returned(t, thread[t].val) \in Requests
        /\ Returned(t, thread[t].val).pc = "idle" <=> Returned(t, thread[t].val).chain = <<>>
    BY <1>3, <2>1, ReturnedType
  <2>3. [age |-> 0, value |-> thread[t].val, in |-> TRUE] \in Entries
    BY <2>1, Basics DEF Entries
  <2>4. /\ cache' \in [Keys -> Entries]
        /\ pending' \in [Keys -> Threads \cup {NoThread}]
        /\ thread' = WithWaitersWoken(t, Returned(t, thread[t].val))
    BY <1>1, <1>12, <2>3 DEF Publish
  <2> QED BY <2>2, <2>4, WakingRequest
<1>13. CASE ReadFails(t)
  <2>1. CASE Fails(t)
    BY <1>1, <2>1, Basics, WakingRequest DEF Fails
  <2>2. CASE thread' = [thread EXCEPT ![t] = Idle] /\ UNCHANGED <<cache, pending>>
    BY <1>1, <2>2, Basics, OneRequest
  <2> QED BY <1>13, <2>1, <2>2 DEF ReadFails
<1>14. CASE Reply(t)
  BY <1>1, <1>14, Basics, OneRequest DEF Reply
<1> QED
  BY <1>7, <1>8, <1>9, <1>10, <1>11, <1>12, <1>13, <1>14 DEF Step, Serve

\* Ageing keeps a value a value.
LEMMA AgedType ==
    ASSUME NEW v \in Values
    PROVE  Aged(v) \in Values
BY Basics DEF Aged, Values

LEMMA InvalidateTypes ==
    ASSUME QuantTypeOK, Invalidate
    PROVE  /\ QuantTypeOK'
           /\ \A t \in Threads : /\ thread'[t].pc = thread[t].pc
                                 /\ thread'[t].chain = thread[t].chain
<1>1. ASSUME NEW t \in Threads
      PROVE  /\ thread'[t] \in Requests
             /\ thread'[t].pc = thread[t].pc /\ thread'[t].chain = thread[t].chain
  <2>1. thread[t] \in Requests
    BY DEF QuantTypeOK
  <2>2. thread'[t] = [thread[t] EXCEPT !.fresh = FALSE,
                          !.last = Forgotten(thread[t].last),
                          !.before = Forgotten(thread[t].before),
                          !.val = Forgotten(thread[t].val)]
    BY DEF Invalidate
  <2>3. /\ thread[t].last \in Values /\ thread[t].before \in Values
        /\ thread[t].val \in Values
    BY <2>1 DEF Requests
  <2>4. /\ Forgotten(thread[t].last) \in Values
        /\ Forgotten(thread[t].before) \in Values
        /\ Forgotten(thread[t].val) \in Values
    BY <2>3 DEF Forgotten, Values
  <2> QED BY <2>1, <2>2, <2>4 DEF Requests
<1>2. thread' = [t \in Threads |-> thread'[t]]
  BY DEF Invalidate
<1>3. thread' \in [Threads -> Requests]
  BY <1>1, <1>2
<1>4. cache' \in [Keys -> Entries] /\ pending' = pending
  BY Basics DEF Invalidate
<1> QED BY <1>1, <1>3, <1>4 DEF QuantTypeOK

LEMMA TickTypes ==
    ASSUME QuantTypeOK, Tick
    PROVE  /\ QuantTypeOK'
           /\ \A t \in Threads : /\ thread'[t].pc = thread[t].pc
                                 /\ thread'[t].chain = thread[t].chain
<1>1. ASSUME NEW t \in Threads
      PROVE  /\ thread'[t] \in Requests
             /\ thread'[t].pc = thread[t].pc /\ thread'[t].chain = thread[t].chain
  <2>1. thread[t] \in Requests /\ (thread[t].pc = "idle" <=> thread[t].chain = <<>>)
    BY DEF QuantTypeOK
  <2>2. CASE thread[t].pc = "idle"
    <3>1. thread'[t] = Idle
      BY <2>2 DEF Tick, At
    <3> QED BY <2>1, <2>2, <3>1, Basics
  <2>3. CASE thread[t].pc # "idle"
    <3>1. /\ thread[t].last \in Values /\ thread[t].before \in Values
          /\ thread[t].val \in Values /\ thread[t].late \in 0..MaxLate
      BY <2>1 DEF Requests
    <3>2. thread[t].late < MaxLate
      BY <2>3 DEF Tick
    <3>3. thread'[t] = [thread[t] EXCEPT !.late = thread[t].late + 1,
                            !.last = Aged(thread[t].last),
                            !.before = Aged(thread[t].before),
                            !.val = Aged(thread[t].val)]
      BY <2>3 DEF Tick, At
    <3>4. /\ Aged(thread[t].last) \in Values /\ Aged(thread[t].before) \in Values
          /\ Aged(thread[t].val) \in Values /\ thread[t].late + 1 \in 0..MaxLate
      BY <3>1, <3>2, AgedType, CacheAssumption
    <3> QED BY <2>1, <3>3, <3>4 DEF Requests
  <2> QED BY <2>2, <2>3
<1>2. thread' = [t \in Threads |-> thread'[t]]
  BY DEF Tick
<1>3. thread' \in [Threads -> Requests]
  BY <1>1, <1>2
<1>4. ASSUME NEW k \in Keys
      PROVE  cache'[k] \in Entries
  <2>1. cache[k] \in Entries /\ cache[k].value \in Values /\ cache[k].age \in 0..AgeCap
    BY DEF QuantTypeOK, Entries
  <2>2. CASE cache[k].in
    <3>1. cache'[k] = [cache[k] EXCEPT
                          !.age = IF cache[k].age < AgeCap THEN cache[k].age + 1
                                  ELSE cache[k].age,
                          !.value = Aged(cache[k].value)]
      BY <2>2 DEF Tick
    <3>2. Aged(cache[k].value) \in Values
      BY <2>1, AgedType
    <3>3. (IF cache[k].age < AgeCap THEN cache[k].age + 1 ELSE cache[k].age) \in 0..AgeCap
      BY <2>1, Basics
    <3> QED BY <2>1, <3>1, <3>2, <3>3 DEF Entries
  <2>3. CASE ~cache[k].in
    BY <2>3, Basics DEF Tick
  <2> QED BY <2>2, <2>3
<1>5. cache' \in [Keys -> Entries] /\ pending' = pending
  <2>1. cache' = [k \in Keys |-> cache'[k]]
    BY DEF Tick
  <2> QED BY <1>4, <2>1 DEF Tick
<1> QED BY <1>1, <1>3, <1>5 DEF QuantTypeOK

LEMMA RequestArrives ==
    ASSUME QuantTypeOK, NEW t \in Threads, NEW chain \in Chains, Request(t, chain)
    PROVE  QuantTypeOK'
<1> DEFINE r == [pc |-> "look", chain |-> chain, late |-> 0, last |-> JustRead,
                 before |-> JustRead, val |-> JustRead, fresh |-> TRUE]
<1>1. chain \in Seq(Keys) /\ chain # <<>>
  BY CacheAssumption
<1>2. r \in Requests /\ r.pc = "look" /\ r.chain = chain
  BY <1>1, Basics, CacheAssumption DEF Requests, Phases
<1>3. thread' = [thread EXCEPT ![t] = r] /\ UNCHANGED <<cache, pending>>
  BY DEF Request
<1> HIDE DEF r
<1>4. cache' \in [Keys -> Entries] /\ pending' \in [Keys -> Threads \cup {NoThread}]
  BY <1>3 DEF QuantTypeOK
<1> QED BY <1>1, <1>2, <1>3, <1>4, OneRequest

LEMMA QuantTypeStep ==
    ASSUME QuantTypeOK, [QuantNext]_quantVars
    PROVE  QuantTypeOK'
<1>1. CASE UNCHANGED quantVars
  BY <1>1 DEF quantVars, QuantTypeOK
<1> QED
  BY <1>1, RequestArrives, RequestTypes, InvalidateTypes, TickTypes DEF QuantNext, SteadyNext, Step

LEMMA QuantTypeInit == QuantInit => QuantTypeOK
<1> SUFFICES ASSUME QuantInit PROVE QuantTypeOK
  OBVIOUS
<1>1. cache \in [Keys -> Entries] /\ thread \in [Threads -> Requests]
  BY Basics DEF QuantInit
<1>2. pending \in [Keys -> Threads \cup {NoThread}]
  BY DEF QuantInit
<1>3. ASSUME NEW t \in Threads PROVE thread[t].pc = "idle" /\ thread[t].chain = <<>>
  BY Basics DEF QuantInit
<1> QED BY <1>1, <1>2, <1>3 DEF QuantTypeOK

\* The two ways of saying it.
LEMMA BuildersPointwise == QuantTypeOK => (OneBuilder <=> BuilderIsRegistered)
<1> SUFFICES ASSUME QuantTypeOK PROVE OneBuilder <=> BuilderIsRegistered
  OBVIOUS
<1>1. ASSUME NEW k \in Keys PROVE pending[k] \in Threads \cup {NoThread}
  BY DEF QuantTypeOK
<1>2. ASSUME NEW k \in Keys
      PROVE  ({t \in Threads : thread[t].pc \in {"build", "publish"} /\ Key(t) = k}
                  = {pending[k]} \ {NoThread})
             <=> (\A u \in Threads : Building(u) /\ Key(u) = k <=> pending[k] = u)
  <2> DEFINE B == {t \in Threads : thread[t].pc \in {"build", "publish"} /\ Key(t) = k}
  <2>1. \A u \in Threads : u \in B <=> Building(u) /\ Key(u) = k
    BY DEF Building
  <2>2. \A u \in B : u \in Threads
    OBVIOUS
  <2> HIDE DEF B
  <2> QED BY <2>1, <2>2, <1>1, CacheAssumption DEF B
<1> QED BY <1>2 DEF OneBuilder, BuilderIsRegistered

\* A step by which nobody begins or ends a build and who waits has a builder.
LEMMA NobodyBuilds ==
    ASSUME BuilderIsRegistered, UNCHANGED pending,
           \A u \in Threads : /\ Building(u)' <=> Building(u)
                              /\ Building(u) => Key(u)' = Key(u)
                              /\ At(u, "wait")' => pending[Key(u)'] # NoThread
    PROVE  BuilderIsRegistered' /\ WaitersHaveBuilder'
BY DEF BuilderIsRegistered, WaitersHaveBuilder

\* The same for a step that moves one thread only.
LEMMA OneMoves ==
    ASSUME BuilderIsRegistered, WaitersHaveBuilder, UNCHANGED pending, QuantTypeOK,
           NEW t \in Threads, NEW r, thread' = [thread EXCEPT ![t] = r],
           r.pc \in {"build", "publish"} <=> Building(t),
           Building(t) => r.chain = thread[t].chain,
           r.pc = "wait" => pending[Head(r.chain)] # NoThread
    PROVE  BuilderIsRegistered' /\ WaitersHaveBuilder'
<1>1. \A u \in Threads : thread'[u] = IF u = t THEN r ELSE thread[u]
  BY DEF QuantTypeOK
<1>2. ASSUME NEW u \in Threads
      PROVE  /\ Building(u)' <=> Building(u)
             /\ Building(u) => Key(u)' = Key(u)
             /\ At(u, "wait")' => pending[Key(u)'] # NoThread
  <2>1. CASE u = t
    BY <1>1, <2>1 DEF Building, Key, At
  <2>2. CASE u # t
    BY <1>1, <2>2 DEF Building, Key, At, WaitersHaveBuilder
  <2> QED BY <2>1, <2>2
<1> QED BY <1>2, NobodyBuilds

\* The end of a build: the key has no builder, and nobody waits for it.
LEMMA BuildEnds ==
    ASSUME BuilderIsRegistered, WaitersHaveBuilder, QuantTypeOK,
           NEW t \in Threads, Building(t), NEW r,
           r.pc \notin {"build", "publish", "wait"},
           pending' = [pending EXCEPT ![Key(t)] = NoThread],
           thread' = WithWaitersWoken(t, r)
    PROVE  BuilderIsRegistered' /\ WaitersHaveBuilder'
<1>1. Key(t) \in Keys
  BY InHand DEF Building
<1>2. \A k \in Keys : pending'[k] = IF k = Key(t) THEN NoThread ELSE pending[k]
  BY DEF QuantTypeOK
<1>3. \A u \in Threads :
        thread'[u] = IF u = t THEN r
                     ELSE IF thread[u].pc = "wait" /\ Key(u) = Key(t)
                       THEN [thread[u] EXCEPT !.pc = "woken"]
                       ELSE thread[u]
  BY DEF WithWaitersWoken
<1>4. ASSUME NEW u \in Threads, u # t
      PROVE  /\ Building(u)' <=> Building(u)
             /\ Key(u)' = Key(u)
             /\ At(u, "wait")' => At(u, "wait") /\ Key(u) # Key(t)
  <2>1. thread[u] \in Requests
    BY DEF QuantTypeOK
  <2>2. CASE thread[u].pc = "wait" /\ Key(u) = Key(t)
    <3>1. thread'[u] = [thread[u] EXCEPT !.pc = "woken"]
      BY <1>3, <1>4, <2>2
    <3>2. thread'[u].pc = "woken" /\ thread'[u].chain = thread[u].chain
      BY <2>1, <3>1 DEF Requests
    <3> QED BY <2>2, <3>2 DEF Building, Key, At
  <2>3. CASE ~(thread[u].pc = "wait" /\ Key(u) = Key(t))
    <3>1. thread'[u] = thread[u]
      BY <1>3, <1>4, <2>3
    <3> QED BY <2>3, <3>1 DEF Building, Key, At
  <2> QED BY <2>2, <2>3
<1>5. ~Building(t)' /\ ~At(t, "wait")'
  BY <1>3 DEF Building, At
<1>6. ASSUME NEW k \in Keys, NEW u \in Threads
      PROVE  (Building(u) /\ Key(u) = k)' <=> pending'[k] = u
  <2>1. CASE u = t
    BY <1>2, <1>5, <2>1, <1>1, CacheAssumption DEF BuilderIsRegistered
  <2>2. CASE u # t
    BY <1>1, <1>2, <1>4, <2>2, CacheAssumption DEF BuilderIsRegistered
  <2> QED BY <2>1, <2>2
<1>7. ASSUME NEW u \in Threads, At(u, "wait")'
      PROVE  pending'[Key(u)'] # NoThread
  <2>1. u # t /\ At(u, "wait") /\ Key(u)' = Key(u) /\ Key(u) # Key(t)
    BY <1>4, <1>5, <1>7
  <2>2. Key(u) \in Keys
    BY <2>1, InHand DEF At
  <2> QED BY <1>2, <2>1, <2>2 DEF WaitersHaveBuilder
<1> QED BY <1>6, <1>7 DEF BuilderIsRegistered, WaitersHaveBuilder

LEMMA FlightOfRequest ==
    ASSUME QuantTypeOK, BuilderIsRegistered, WaitersHaveBuilder,
           NEW t \in Threads, Step(t)
    PROVE  BuilderIsRegistered' /\ WaitersHaveBuilder'
<1>1. thread[t].pc # "idle"
  <2>1. thread[t].pc = "idle" <=> thread[t].chain = <<>>
    BY DEF QuantTypeOK
  <2> QED BY <2>1 DEF Step, Serve, Look, Enrol, Woken, BuildAlone, Build, Publish, ReadFails,
                      Reply, At
<1>2. thread[t] \in Requests /\ Key(t) \in Keys /\ cache[Key(t)].value \in Values
      /\ Built(t) \in Values /\ thread[t].val \in Values
  BY <1>1, InHand DEF QuantTypeOK, Requests
\* Moving on within the call, and returning from it.
<1>3. ASSUME ~Building(t), NEW here \in Phases \ {"build", "publish"}, Goto(t, here),
             UNCHANGED pending, here = "wait" => pending[Key(t)] # NoThread
      PROVE  BuilderIsRegistered' /\ WaitersHaveBuilder'
  <2> DEFINE r == [thread[t] EXCEPT !.pc = here]
  <2>1. r.pc = here /\ r.chain = thread[t].chain
    BY <1>2 DEF Requests
  <2>2. thread' = [thread EXCEPT ![t] = r]
    BY <1>3 DEF Goto
  <2> HIDE DEF r
  <2> QED BY <1>3, <2>1, <2>2, OneMoves DEF Key
<1>4. ASSUME ~Building(t), NEW v \in Values, Return(t, v), UNCHANGED pending
      PROVE  BuilderIsRegistered' /\ WaitersHaveBuilder'
  <2>1. Returned(t, v).pc \in {"look", "done"}
    BY <1>1, ReturnedType
  <2>2. thread' = [thread EXCEPT ![t] = Returned(t, v)]
    BY <1>4 DEF Return
  <2> QED BY <1>4, <2>1, <2>2, OneMoves
<1>5. CASE Look(t)
  <2>1. ~Building(t)
    BY <1>5 DEF Look, At, Building
  <2> QED BY <1>2, <1>3, <1>4, <1>5, <2>1 DEF Look, Phases
<1>6. CASE Enrol(t)
  <2>1. ~Building(t)
    BY <1>6 DEF Enrol, At, Building
  <2>2. CASE Return(t, cache[Key(t)].value) /\ UNCHANGED pending
    BY <1>2, <1>4, <2>1, <2>2
  <2>3. CASE pending[Key(t)] # NoThread /\ Goto(t, "wait") /\ UNCHANGED pending
    BY <1>3, <2>1, <2>3 DEF Phases
  <2>4. CASE /\ pending[Key(t)] = NoThread
             /\ Goto(t, "build")
             /\ pending' = [pending EXCEPT ![Key(t)] = t]
    <3>1. \A u \in Threads : thread'[u] = IF u = t THEN [thread[t] EXCEPT !.pc = "build"]
                                         ELSE thread[u]
      BY <2>4 DEF Goto, QuantTypeOK
    <3>2. thread'[t].pc = "build" /\ thread'[t].chain = thread[t].chain
      BY <1>2, <3>1 DEF Requests
    <3>3. \A k \in Keys : pending'[k] = IF k = Key(t) THEN t ELSE pending[k]
      BY <2>4 DEF QuantTypeOK
    <3>4. Building(t)' /\ Key(t)' = Key(t)
      BY <3>2 DEF Building, Key
    <3>5. ASSUME NEW u \in Threads, u # t
          PROVE  (Building(u)' <=> Building(u)) /\ Key(u)' = Key(u)
      BY <3>1, <3>5 DEF Building, Key
    <3>6. ASSUME NEW k \in Keys, NEW u \in Threads
          PROVE  (Building(u) /\ Key(u) = k)' <=> pending'[k] = u
      <4>1. CASE u = t
        BY <2>1, <3>3, <3>4, <4>1 DEF BuilderIsRegistered
      <4>2. CASE u # t
        BY <1>2, <2>4, <3>3, <3>5, <4>2, CacheAssumption DEF BuilderIsRegistered
      <4> QED BY <4>1, <4>2
    <3>7. ASSUME NEW u \in Threads, At(u, "wait")'
          PROVE  pending'[Key(u)'] # NoThread
      <4>1. u # t
        BY <3>2, <3>7 DEF At
      <4>2. thread'[u] = thread[u]
        BY <3>1, <4>1
      <4>3. At(u, "wait") /\ Key(u)' = Key(u) /\ Key(u) \in Keys
        BY <3>7, <4>2, InHand DEF At, Key
      <4> QED BY <3>3, <4>3, CacheAssumption DEF WaitersHaveBuilder
    <3> QED BY <3>6, <3>7 DEF BuilderIsRegistered, WaitersHaveBuilder
  <2> QED BY <1>6, <2>2, <2>3, <2>4 DEF Enrol
<1>7. CASE Woken(t)
  <2>1. ~Building(t)
    BY <1>7 DEF Woken, At, Building
  <2> QED BY <1>2, <1>3, <1>4, <1>7, <2>1 DEF Woken, Phases
<1>8. CASE BuildAlone(t)
  <2>1. ~Building(t)
    BY <1>8 DEF BuildAlone, At, Building
  <2> QED BY <1>2, <1>4, <1>8, <2>1 DEF BuildAlone
<1>9. CASE Build(t)
  <2> DEFINE r == [thread[t] EXCEPT !.pc = "publish", !.val = Built(t)]
  <2>1. r.pc = "publish" /\ r.chain = thread[t].chain
    BY <1>2 DEF Requests
  <2>2. thread' = [thread EXCEPT ![t] = r] /\ UNCHANGED pending /\ Building(t)
    BY <1>9 DEF Build, At, Building
  <2> HIDE DEF r
  <2> QED BY <2>1, <2>2, OneMoves
<1>10. CASE Publish(t)
  <2>1. Returned(t, thread[t].val).pc \in {"look", "done"}
    BY <1>1, <1>2, ReturnedType
  <2>2. /\ Building(t)
        /\ pending' = [pending EXCEPT ![Key(t)] = NoThread]
        /\ thread' = WithWaitersWoken(t, Returned(t, thread[t].val))
    BY <1>10 DEF Publish, At, Building
  <2> QED BY <2>1, <2>2, BuildEnds
<1>11. CASE ReadFails(t)
  <2>1. CASE At(t, "build") /\ Fails(t)
    <3>1. Building(t)
      BY <2>1 DEF At, Building
    <3> QED BY <2>1, <3>1, Basics, BuildEnds DEF Fails
  <2>2. CASE /\ At(t, "alone")
             /\ thread' = [thread EXCEPT ![t] = Idle]
             /\ UNCHANGED <<cache, pending>>
    <3>1. ~Building(t)
      BY <2>2 DEF At, Building
    <3> QED BY <2>2, <3>1, Basics, OneMoves
  <2> QED BY <1>11, <2>1, <2>2 DEF ReadFails
<1>12. CASE Reply(t)
  <2>1. ~Building(t)
    BY <1>12 DEF Reply, At, Building
  <2> QED BY <1>12, <2>1, Basics, OneMoves DEF Reply
<1> QED BY <1>5, <1>6, <1>7, <1>8, <1>9, <1>10, <1>11, <1>12 DEF Step, Serve

LEMMA FlightStep ==
    ASSUME QuantTypeOK, OneBuilder, WaitersHaveBuilder, [QuantNext]_quantVars
    PROVE  OneBuilder' /\ WaitersHaveBuilder'
<1>1. BuilderIsRegistered /\ QuantTypeOK'
  BY BuildersPointwise, QuantTypeStep
\* Steps that leave every thread where it is.
<1>2. ASSUME UNCHANGED pending,
             \A u \in Threads : /\ thread'[u].pc = thread[u].pc
                                /\ thread'[u].chain = thread[u].chain
      PROVE  BuilderIsRegistered' /\ WaitersHaveBuilder'
  <2>1. ASSUME NEW u \in Threads
        PROVE  /\ Building(u)' <=> Building(u)
               /\ Building(u) => Key(u)' = Key(u)
               /\ At(u, "wait")' => pending[Key(u)'] # NoThread
    <3>1. thread'[u].pc = thread[u].pc /\ Key(u)' = Key(u)
      BY <1>2 DEF Key
    <3>2. Building(u)' <=> Building(u)
      BY <3>1 DEF Building
    <3>3. At(u, "wait")' => pending[Key(u)'] # NoThread
      BY <3>1 DEF At, WaitersHaveBuilder
    <3> QED BY <3>1, <3>2, <3>3
  <2> QED BY <1>1, <1>2, <2>1, NobodyBuilds
<1>3. BuilderIsRegistered' /\ WaitersHaveBuilder'
  <2>1. CASE UNCHANGED quantVars
    BY <1>2, <2>1 DEF quantVars
  <2>2. ASSUME NEW t \in Threads, NEW chain \in Chains, Request(t, chain)
        PROVE  BuilderIsRegistered' /\ WaitersHaveBuilder'
    <3> DEFINE r == [pc |-> "look", chain |-> chain, late |-> 0, last |-> JustRead,
                     before |-> JustRead, val |-> JustRead, fresh |-> TRUE]
    <3>1. r.pc = "look"
      OBVIOUS
    <3>2. thread' = [thread EXCEPT ![t] = r] /\ UNCHANGED pending /\ ~Building(t)
      BY <2>2 DEF Request, At, Building
    <3> HIDE DEF r
    <3> QED BY <1>1, <3>1, <3>2, OneMoves
  <2>3. CASE Invalidate
    BY <1>2, <2>3, InvalidateTypes DEF Invalidate
  <2>4. CASE Tick
    BY <1>2, <2>4, TickTypes DEF Tick
  <2> QED BY <1>1, <2>1, <2>2, <2>3, <2>4, FlightOfRequest DEF QuantNext, SteadyNext, Step
<1>4. QuantTypeOK' => (OneBuilder' <=> BuilderIsRegistered')
  BY BuildersPointwise, PTL
<1> QED BY <1>1, <1>3, <1>4

LEMMA FlightInit == QuantInit => FlightInv
<1> SUFFICES ASSUME QuantInit PROVE FlightInv
  OBVIOUS
<1>1. QuantTypeOK
  BY QuantTypeInit
<1>2. \A t \in Threads : thread[t].pc = "idle"
  BY Basics DEF QuantInit
<1>3. \A k \in Keys : pending[k] = NoThread
  BY DEF QuantInit
<1>4. BuilderIsRegistered /\ WaitersHaveBuilder
  BY <1>2, <1>3, CacheAssumption DEF BuilderIsRegistered, WaitersHaveBuilder, Building, At
<1> QED BY <1>1, <1>4, BuildersPointwise DEF FlightInv

LEMMA FlightInvariant == QuantSpec => []FlightInv
<1>1. FlightInv /\ [QuantNext]_quantVars => FlightInv'
  BY QuantTypeStep, FlightStep DEF FlightInv
<1> QED BY <1>1, FlightInit, PTL DEF QuantSpec

\* The types of the quant cache, for every TTL, lateness and set of chains: what
\* is cached and handed from key to key stays within the ages told apart.
THEOREM QuantTypeCorrect == QuantSpec => []QuantTypeOK
<1>1. FlightInv => QuantTypeOK
  BY DEF FlightInv
<1> QED BY <1>1, FlightInvariant, PTL

\* One builder per key (_pending_events), and whoever waits in _cached waits for a
\* build under way: for every number of request threads, through invalidations,
\* expiries and builds that raise.
THEOREM FlightCorrect == QuantSpec => []SingleFlight
<1>1. FlightInv => SingleFlight
  BY DEF FlightInv, SingleFlight
<1> QED BY <1>1, FlightInvariant, PTL

-----------------------------------------------------------------------------
(* How old an answer can be, while the store answers. *)

\* The levels of the keys, and what they bound: Base(k) ticks for what k is built
\* from, Join(k) more for a join, whose older input waited one call longer.
level == CHOOSE rank \in [Keys -> 1..Levels] : \A chain \in Chains : RankedBy(rank, chain)
Base(k) == (level[k] - 1) * LevelBound
Join(k) == IF k \in Joins THEN MaxLate ELSE 0
Top(k) == Base(k) + LevelBound + Join(k)

LEMMA Product ==
    ASSUME NEW a \in Nat, NEW b \in Nat, NEW c \in Nat, a <= b
    PROVE  a * c \in Nat /\ a * c <= b * c /\ (a + 1) * c = a * c + c
OBVIOUS

LEMMA LevelsExist ==
    level \in [Keys -> 1..Levels] /\ \A chain \in Chains : RankedBy(level, chain)
BY LevelsAssumption DEF level

\* The arithmetic of levels.
LEMMA Bounds ==
    /\ LevelBound \in Nat /\ MaxLate \in Nat /\ TTL \in Nat \ {0}
    /\ LevelBound = TTL - 1 + 2 * MaxLate
    /\ \A k \in Keys : Base(k) \in Nat /\ Join(k) \in {0, MaxLate} /\ Top(k) <= StaleBound
    /\ \A j, k \in Keys : level[j] < level[k] => Base(j) + LevelBound <= Base(k)
    /\ StaleBound \in Nat
<1>1. LevelBound \in Nat /\ MaxLate \in Nat /\ TTL \in Nat \ {0} /\ Levels \in Nat
  BY CacheAssumption DEF LevelBound
<1>2. ASSUME NEW k \in Keys
      PROVE  level[k] \in 1..Levels
  BY LevelsExist
<1>3. ASSUME NEW k \in Keys
      PROVE  Base(k) \in Nat /\ Join(k) \in {0, MaxLate} /\ Top(k) <= StaleBound
  <2>1. level[k] - 1 \in Nat /\ level[k] \in Nat /\ level[k] - 1 <= level[k] /\ level[k] <= Levels
        /\ (level[k] - 1) + 1 = level[k]
    BY <1>1, <1>2
  <2>2. Base(k) \in Nat /\ ((level[k] - 1) + 1) * LevelBound = Base(k) + LevelBound
    BY <1>1, <2>1, Product DEF Base
  <2>3. level[k] * LevelBound <= Levels * LevelBound /\ level[k] * LevelBound \in Nat
    BY <1>1, <2>1, Product
  <2>4. Levels * LevelBound \in Nat
    BY <1>1, Product
  <2>5. Join(k) \in {0, MaxLate} /\ Join(k) <= IF Joins = {} THEN 0 ELSE MaxLate
    BY <1>1 DEF Join
  <2>6. Base(k) + LevelBound <= Levels * LevelBound
    BY <2>1, <2>2, <2>3
  <2> HIDE DEF Base, Join
  <2>7. StaleBound = Levels * LevelBound + (IF Joins = {} THEN 0 ELSE MaxLate)
    BY DEF StaleBound
  <2> QED BY <1>1, <2>2, <2>4, <2>5, <2>6, <2>7 DEF Top
<1>4. ASSUME NEW j \in Keys, NEW k \in Keys, level[j] < level[k]
      PROVE  Base(j) + LevelBound <= Base(k)
  <2>1. /\ level[j] - 1 \in Nat /\ level[k] - 1 \in Nat
        /\ (level[j] - 1) + 1 \in Nat /\ (level[j] - 1) + 1 <= level[k] - 1
    BY <1>1, <1>2, <1>4
  <2>2. ((level[j] - 1) + 1) * LevelBound <= (level[k] - 1) * LevelBound
    BY <1>1, <2>1, Product
  <2>3. ((level[j] - 1) + 1) * LevelBound = (level[j] - 1) * LevelBound + LevelBound
    BY <1>1, <2>1, Product
  <2> QED BY <2>2, <2>3 DEF Base
<1>5. StaleBound \in Nat
  <2>1. Levels * LevelBound \in Nat
    BY <1>1, Product
  <2> QED BY <1>1, <2>1 DEF StaleBound
<1> QED BY <1>1, <1>3, <1>4, <1>5 DEF LevelBound

\* A request whose next key k has, in hand, values young enough to build k from;
\* its call has taken `late` ticks so far.
Sound(r) == r.pc # "idle" =>
    /\ r.chain \in Seq(Keys) /\ r.chain # <<>> /\ RankedBy(level, r.chain)
    /\ r.pc # "done" =>
        /\ r.chain[1] # Records => r.last.old <= Base(r.chain[1]) + r.late
        /\ r.chain[1] \in Joins => r.before.old <= Base(r.chain[1]) + MaxLate + r.late
        /\ Len(r.chain) > 1 /\ r.chain[2] \in Joins => r.last.old <= Base(r.chain[2]) + r.late
    /\ r.pc = "publish" => r.val.old <= Base(r.chain[1]) + Join(r.chain[1]) + r.late
    /\ r.pc = "done" => r.last.old <= StaleBound

\* An entry was young when it was stored and aged with the clock, and a waiter finds
\* the entry of the build it waited for.
EntriesAge ==
    \A k \in Keys : cache[k].in /\ cache[k].age < AgeCap =>
        cache[k].value.old <= Base(k) + Join(k) + MaxLate + cache[k].age
WokenFindsIt ==
    \A t \in Threads : At(t, "woken") /\ cache[Key(t)].in => cache[Key(t)].age <= thread[t].late

StaleInv ==
    /\ QuantTypeOK
    /\ \A t \in Threads : Sound(thread[t])
    /\ EntriesAge
    /\ WokenFindsIt

\* A request that is handed a value of its level goes on soundly.
LEMMA ReturnIsSound ==
    ASSUME QuantTypeOK, NEW t \in Threads, Sound(thread[t]),
           thread[t].pc \notin {"idle", "done"},
           NEW v \in Values, v.old <= Top(Key(t))
    PROVE  Sound(Returned(t, v))
<1> DEFINE c == thread[t].chain
           rest == Tail(c)
<1>1. thread[t] \in Requests /\ c \in Seq(Keys) /\ c # <<>> /\ RankedBy(level, c)
  BY DEF QuantTypeOK, Requests, Sound
<1>2. /\ Len(c) \in Nat \ {0} /\ Key(t) = c[1] /\ \A i \in 1..Len(c) : c[i] \in Keys
      /\ v.old \in Nat /\ thread[t].last.old \in Nat /\ thread[t].late \in Nat
      /\ thread[t].late <= MaxLate
  <2>1. Len(c) \in Nat \ {0} /\ \A i \in 1..Len(c) : c[i] \in Keys
    BY <1>1
  <2>2. Key(t) = c[1]
    BY DEF Key
  <2>3. v.old \in Nat /\ thread[t].last \in Values
    BY <1>1, Basics DEF Requests, Values
  <2>4. thread[t].last.old \in Nat
    BY <2>3, Basics DEF Values
  <2>5. thread[t].late \in Nat /\ thread[t].late <= MaxLate
    BY <1>1, CacheAssumption DEF Requests
  <2> QED BY <2>1, <2>2, <2>3, <2>4, <2>5
<1>3. /\ rest \in Seq(Keys) /\ Len(rest) = Len(c) - 1
      /\ \A i \in 1..Len(rest) : rest[i] = c[i + 1]
  BY <1>1
<1>4. c[1] \in Keys
  BY <1>1
<1> HIDE DEF rest
<1>5. CASE rest = <<>>
  <2>1. /\ Returned(t, v).pc = "done" /\ Returned(t, v).chain = c
        /\ Returned(t, v).last = v
    BY <1>1, <1>5 DEF Returned, rest, Requests
  <2>2. v.old <= StaleBound
    <3>1. Base(c[1]) \in Nat /\ Join(c[1]) \in {0, MaxLate} /\ Top(c[1]) <= StaleBound
      BY <1>4, Bounds
    <3>2. Top(c[1]) \in Nat
      BY <3>1, Bounds DEF Top
    <3> QED BY <1>2, <3>1, <3>2, Bounds
  <2> QED BY <1>1, <2>1, <2>2 DEF Sound
<1>6. CASE rest # <<>>
  <2>1. /\ Returned(t, v).pc = "look" /\ Returned(t, v).chain = rest
        /\ Returned(t, v).last = v /\ Returned(t, v).before = thread[t].last
        /\ Returned(t, v).late = 0
    BY <1>1, <1>6 DEF Returned, rest, Requests
  <2>2. Len(c) > 1 /\ Len(rest) > 0
    BY <1>2, <1>3, <1>6
  <2>3. v.old <= Base(c[1]) + LevelBound
    <3>1. c[1] \notin Joins
      BY <1>2, <2>2 DEF RankedBy, c, Sound
    <3> QED BY <1>2, <1>4, <3>1, Bounds DEF Top, Join
  <2>4. c[2] \in Keys /\ rest[1] = c[2] /\ 2 \in DOMAIN c /\ 1 \in DOMAIN rest
    BY <1>1, <1>2, <1>3, <2>2
  <2>5. rest[1] # Records => v.old <= Base(rest[1])
    <3>1. c[2] # Records => level[c[1]] < level[c[2]]
      BY <1>1, <2>4 DEF RankedBy
    <3> QED BY <1>2, <1>4, <2>3, <2>4, <3>1, Bounds
  <2>6. rest[1] \in Joins => thread[t].last.old <= Base(rest[1]) + MaxLate
    <3>1. c[2] \in Joins => thread[t].last.old <= Base(c[2]) + thread[t].late
      BY <2>2 DEF Sound
    <3>2. Base(c[2]) \in Nat /\ MaxLate \in Nat
      BY <2>4, Bounds
    <3>3. Base(c[2]) + thread[t].late <= Base(c[2]) + MaxLate
      BY <1>2, <3>2
    <3> HIDE DEF c
    <3>4. ASSUME c[2] \in Joins
          PROVE  thread[t].last.old <= Base(c[2]) + MaxLate
      BY <1>2, <3>1, <3>2, <3>3, <3>4
    <3> QED BY <2>4, <3>4
  <2>7. Len(rest) > 1 /\ rest[2] \in Joins => v.old <= Base(rest[2])
    <3> SUFFICES ASSUME Len(rest) > 1, rest[2] \in Joins
                 PROVE  v.old <= Base(rest[2])
      OBVIOUS
    <3>1. rest[2] = c[3] /\ 3 \in DOMAIN c /\ c[3] \in Keys
      BY <1>1, <1>2, <1>3
    <3>2. level[c[1]] < level[c[3]]
      <4>1. \A i \in DOMAIN c : c[i] \in Joins /\ i > 2 => level[c[i - 2]] < level[c[i]]
        BY <1>1 DEF RankedBy
      <4>2. 3 \in DOMAIN c /\ c[3] \in Joins /\ 3 > 2 /\ 3 - 2 = 1
        BY <3>1
      <4>3. level[c[3 - 2]] < level[c[3]]
        <5> HIDE DEF c
        <5> QED BY ONLY <4>1, <4>2, Zenon
      <4> HIDE DEF c
      <4> QED BY <4>2, <4>3
    <3>3. Base(c[1]) + LevelBound <= Base(c[3])
      BY <1>4, <3>1, <3>2, Bounds
    <3>4. Base(c[1]) \in Nat /\ Base(c[3]) \in Nat /\ LevelBound \in Nat
      BY <1>4, <3>1, Bounds
    <3> HIDE DEF c
    <3> QED BY <1>2, <2>3, <3>1, <3>3, <3>4
  <2>8. RankedBy(level, rest)
    <3> SUFFICES ASSUME NEW i \in DOMAIN rest
                 PROVE  /\ i > 1 /\ rest[i] # Records => level[rest[i - 1]] < level[rest[i]]
                        /\ rest[i] \in Joins =>
                             /\ i = Len(rest)
                             /\ i > 2 => level[rest[i - 2]] < level[rest[i]]
      BY DEF RankedBy
    <3>1. i \in 1..Len(rest) /\ i + 1 \in DOMAIN c /\ rest[i] = c[i + 1]
      BY <1>1, <1>2, <1>3
    <3>2. i > 1 => i - 1 \in 1..Len(rest) /\ rest[i - 1] = c[i]
      BY <1>2, <1>3, <3>1
    <3>3. i > 2 => i - 2 \in 1..Len(rest) /\ rest[i - 2] = c[i - 1]
      <4>1. i > 2 => i - 2 \in 1..Len(rest) /\ (i - 2) + 1 = i - 1
        BY <1>2, <1>3, <3>1
      <4> HIDE DEF c
      <4> QED BY <1>3, <4>1
    <3>4. /\ i + 1 > 1 /\ c[i + 1] # Records => level[c[(i + 1) - 1]] < level[c[i + 1]]
          /\ c[i + 1] \in Joins => /\ i + 1 = Len(c)
                                   /\ i + 1 > 2 => level[c[(i + 1) - 2]] < level[c[i + 1]]
      BY <1>1, <3>1 DEF RankedBy
    <3>5. i \in Nat /\ (i + 1) - 1 = i /\ (i + 1) - 2 = i - 1
      BY <3>1
    <3> HIDE DEF c
    <3> QED BY <1>2, <1>3, <3>1, <3>2, <3>3, <3>4, <3>5
  <2> QED BY <1>2, <1>3, <1>6, <2>1, <2>4, <2>5, <2>6, <2>7, <2>8, Bounds DEF Sound
<1> QED BY <1>5, <1>6

\* What build() computes is as young as its level says.
LEMMA BuiltIsYoung ==
    ASSUME QuantTypeOK, NEW t \in Threads, Sound(thread[t]),
           thread[t].pc \notin {"idle", "done"}
    PROVE  Built(t).old <= Base(Key(t)) + Join(Key(t)) + thread[t].late
<1>1. thread[t] \in Requests /\ thread[t].chain # <<>> /\ Key(t) \in Keys
  BY InHand DEF QuantTypeOK, Requests, Sound
<1>2. Key(t) = thread[t].chain[1]
  BY <1>1 DEF Key
<1>3. /\ thread[t].last.old \in Nat /\ thread[t].before.old \in Nat
      /\ thread[t].late \in Nat /\ thread[t].late <= MaxLate
  BY <1>1, Basics, CacheAssumption DEF Requests, Values
<1>4. /\ Key(t) # Records => thread[t].last.old <= Base(Key(t)) + thread[t].late
      /\ Key(t) \in Joins => thread[t].before.old <= Base(Key(t)) + MaxLate + thread[t].late
  BY <1>2 DEF Sound
<1>5. Base(Key(t)) \in Nat /\ Join(Key(t)) \in {0, MaxLate} /\ MaxLate \in Nat
  BY <1>1, Bounds
<1>6. CASE Key(t) = Records
  BY <1>3, <1>5, <1>6 DEF Built, JustRead
<1>7. CASE Key(t) # Records /\ Key(t) \in Joins
  <2>1. Join(Key(t)) = MaxLate
    BY <1>7 DEF Join
  <2> QED BY <1>3, <1>4, <1>5, <1>7, <2>1 DEF Built, Older
<1>8. CASE Key(t) # Records /\ Key(t) \notin Joins
  BY <1>3, <1>4, <1>5, <1>8 DEF Built
<1> QED BY <1>6, <1>7, <1>8

\* An entry that is served within its TTL is as young as its level says, ...
LEMMA HitIsYoung ==
    ASSUME QuantTypeOK, EntriesAge, NEW t \in Threads, thread[t].pc # "idle", Hit(t)
    PROVE  cache[Key(t)].value.old <= Top(Key(t))
<1>1. Key(t) \in Keys /\ thread[t] \in Requests
  BY InHand DEF QuantTypeOK
<1>2. /\ cache[Key(t)] \in Entries /\ thread[t].late \in Nat /\ thread[t].late <= MaxLate
  BY <1>1, CacheAssumption DEF QuantTypeOK, Requests
<1>3. cache[Key(t)].age \in Nat /\ cache[Key(t)].value.old \in Nat
  BY <1>2, Basics DEF Entries, Values
<1>4. Base(Key(t)) \in Nat /\ Join(Key(t)) \in Nat
  BY <1>1, Bounds
<1>5. cache[Key(t)].age < AgeCap
  BY <1>2, <1>3, Bounds DEF Hit, AgeCap
<1>6. cache[Key(t)].value.old <= Base(Key(t)) + Join(Key(t)) + MaxLate + cache[Key(t)].age
  BY <1>1, <1>5 DEF EntriesAge, Hit
<1> QED BY <1>2, <1>3, <1>4, <1>6, Bounds DEF Hit, Top

\* ... and so is the one a woken waiter finds, expired or not.
LEMMA WokenIsYoung ==
    ASSUME QuantTypeOK, EntriesAge, WokenFindsIt, NEW t \in Threads,
           At(t, "woken"), cache[Key(t)].in
    PROVE  cache[Key(t)].value.old <= Top(Key(t))
<1>0. thread[t].pc # "idle"
  BY DEF At
<1>1. Key(t) \in Keys /\ thread[t] \in Requests
  BY <1>0, InHand DEF QuantTypeOK
<1>2. /\ cache[Key(t)] \in Entries /\ thread[t].late \in Nat /\ thread[t].late <= MaxLate
  BY <1>1, CacheAssumption DEF QuantTypeOK, Requests
<1>3. cache[Key(t)].age \in Nat /\ cache[Key(t)].value.old \in Nat
  BY <1>2, Basics DEF Entries, Values
<1>4. Base(Key(t)) \in Nat /\ Join(Key(t)) \in Nat
  BY <1>1, Bounds
<1>5. cache[Key(t)].age <= thread[t].late
  BY DEF WokenFindsIt
<1>6. cache[Key(t)].age < AgeCap
  BY <1>2, <1>3, <1>5, Bounds DEF AgeCap
<1>7. cache[Key(t)].value.old <= Base(Key(t)) + Join(Key(t)) + MaxLate + cache[Key(t)].age
  BY <1>1, <1>6 DEF EntriesAge
<1> QED BY <1>2, <1>3, <1>4, <1>5, <1>7, Bounds DEF Top

\* A step that moves one thread only, and not into the hands of a builder.
LEMMA OneGoesOn ==
    ASSUME StaleInv, NEW t \in Threads, NEW r, thread' = [thread EXCEPT ![t] = r],
           Sound(r), r.pc # "woken", UNCHANGED cache
    PROVE  (\A u \in Threads : Sound(thread'[u])) /\ EntriesAge' /\ WokenFindsIt'
<1>1. \A u \in Threads : thread'[u] = IF u = t THEN r ELSE thread[u]
  BY DEF StaleInv, QuantTypeOK
<1>2. \A u \in Threads : Sound(thread'[u])
  BY <1>1 DEF StaleInv
<1>3. EntriesAge'
  BY DEF StaleInv, EntriesAge
<1>4. WokenFindsIt'
  BY <1>1 DEF StaleInv, WokenFindsIt, At, Key
<1> QED BY <1>2, <1>3, <1>4

\* The builder stores a value as young as its level says, and its waiters find it.
LEMMA PublishIsSound ==
    ASSUME StaleInv, NEW t \in Threads, Publish(t)
    PROVE  (\A u \in Threads : Sound(thread'[u])) /\ EntriesAge' /\ WokenFindsIt'
<1> DEFINE k == Key(t)
           v == thread[t].val
<1>1. QuantTypeOK /\ thread[t] \in Requests /\ thread[t].pc = "publish" /\ Sound(thread[t])
  BY DEF StaleInv, QuantTypeOK, Publish, At
<1>2. /\ k \in Keys /\ k = thread[t].chain[1] /\ v \in Values /\ v.old \in Nat
      /\ thread[t].late \in Nat /\ thread[t].late <= MaxLate
  <2>1. thread[t].chain # <<>>
    BY <1>1 DEF Sound
  <2> QED BY <1>1, <2>1, InHand, Basics, CacheAssumption DEF Key, Requests, Values
<1>3. v.old <= Base(k) + Join(k) + thread[t].late
  BY <1>1, <1>2 DEF Sound
<1>4. Base(k) \in Nat /\ Join(k) \in Nat /\ MaxLate \in Nat /\ LevelBound \in Nat
      /\ LevelBound >= 2 * MaxLate
  BY <1>2, Bounds
<1>5. v.old <= Top(k)
  BY <1>2, <1>3, <1>4 DEF Top
<1>6. Sound(Returned(t, v)) /\ Returned(t, v).pc \in {"look", "done"}
  BY <1>1, <1>2, <1>5, ReturnIsSound, ReturnedType
<1>7. \A j \in Keys :
        cache'[j] = IF j = k THEN [age |-> 0, value |-> v, in |-> TRUE] ELSE cache[j]
  BY <1>1, <1>2 DEF Publish, QuantTypeOK
<1>8. \A u \in Threads :
        thread'[u] = IF u = t THEN Returned(t, v)
                     ELSE IF thread[u].pc = "wait" /\ Key(u) = k
                       THEN [thread[u] EXCEPT !.pc = "woken"]
                       ELSE thread[u]
  BY DEF Publish, WithWaitersWoken
<1>9. EntriesAge'
  <2>1. v.old <= Base(k) + Join(k) + MaxLate + 0
    BY <1>2, <1>3, <1>4
  <2> HIDE DEF k, v
  <2> QED BY <1>7, <2>1 DEF StaleInv, EntriesAge
<1>10. ASSUME NEW u \in Threads
       PROVE  /\ Sound(thread'[u])
              /\ (At(u, "woken") /\ cache[Key(u)].in => cache[Key(u)].age <= thread[u].late)'
  <2>1. thread[u] \in Requests /\ Sound(thread[u]) /\ thread[u].late \in Nat
    BY CacheAssumption DEF StaleInv, QuantTypeOK, Requests
  <2>2. CASE u = t
    BY <1>6, <1>8, <2>2 DEF At
  <2>3. CASE u # t /\ thread[u].pc = "wait" /\ Key(u) = k
    <3>1. thread'[u] = [thread[u] EXCEPT !.pc = "woken"]
      BY <1>8, <2>3
    <3>2. /\ thread'[u].pc = "woken" /\ thread'[u].chain = thread[u].chain
          /\ thread'[u].late = thread[u].late /\ thread'[u].last = thread[u].last
          /\ thread'[u].before = thread[u].before
      BY <2>1, <3>1 DEF Requests
    <3>3. Sound(thread'[u])
      BY <2>1, <2>3, <3>2 DEF Sound
    <3>4. Key(u)' = k /\ cache'[k].age = 0
      BY <1>2, <1>7, <2>3, <3>2 DEF Key
    <3> HIDE DEF k
    <3> QED BY <2>1, <3>2, <3>3, <3>4
  <2>4. CASE u # t /\ ~ (thread[u].pc = "wait" /\ Key(u) = k)
    <3>1. thread'[u] = thread[u]
      BY <1>8, <2>4
    <3>2. SUFFICES ASSUME At(u, "woken"), cache'[Key(u)].in
                   PROVE  cache'[Key(u)].age <= thread[u].late
      BY <2>1, <3>1 DEF At, Key
    <3>3. Key(u) \in Keys
      BY <1>1, <3>2, InHand DEF At
    <3>4. CASE Key(u) = k
      BY <1>2, <1>7, <2>1, <3>4
    <3>5. CASE Key(u) # k
      BY <1>7, <3>2, <3>3, <3>5 DEF StaleInv, WokenFindsIt
    <3> QED BY <3>4, <3>5
  <2> QED BY <2>2, <2>3, <2>4
<1> QED BY <1>9, <1>10 DEF WokenFindsIt

LEMMA ServeIsSound ==
    ASSUME StaleInv, NEW t \in Threads, Serve(t)
    PROVE  (\A u \in Threads : Sound(thread'[u])) /\ EntriesAge' /\ WokenFindsIt'
<1>0. QuantTypeOK /\ EntriesAge /\ WokenFindsIt /\ thread[t] \in Requests /\ Sound(thread[t])
  BY DEF StaleInv, QuantTypeOK
\* Moving on within the call, and returning from it.
<1>1. ASSUME NEW here \in {"lock", "wait", "alone", "build"}, Goto(t, here), UNCHANGED cache,
             thread[t].pc \notin {"idle", "done"}
      PROVE  (\A u \in Threads : Sound(thread'[u])) /\ EntriesAge' /\ WokenFindsIt'
  <2> DEFINE r == [thread[t] EXCEPT !.pc = here]
  <2>1. /\ r.pc = here /\ r.chain = thread[t].chain /\ r.late = thread[t].late
        /\ r.last = thread[t].last /\ r.before = thread[t].before
    BY <1>0 DEF Requests
  <2>2. thread' = [thread EXCEPT ![t] = r]
    BY <1>1 DEF Goto
  <2> HIDE DEF r
  <2>3. Sound(r)
    BY <1>0, <1>1, <2>1 DEF Sound
  <2> QED BY <1>1, <2>1, <2>2, <2>3, OneGoesOn
<1>2. ASSUME NEW v \in Values, v.old <= Top(Key(t)), Return(t, v), UNCHANGED cache,
             thread[t].pc \notin {"idle", "done"}
      PROVE  (\A u \in Threads : Sound(thread'[u])) /\ EntriesAge' /\ WokenFindsIt'
  <2>1. Sound(Returned(t, v)) /\ Returned(t, v).pc \in {"look", "done"}
    BY <1>0, <1>2, ReturnIsSound, ReturnedType
  <2>2. thread' = [thread EXCEPT ![t] = Returned(t, v)]
    BY <1>2 DEF Return
  <2> QED BY <1>2, <2>1, <2>2, OneGoesOn
<1>3. thread[t].pc # "idle" => Key(t) \in Keys /\ cache[Key(t)].value \in Values
                              /\ Built(t) \in Values
  BY <1>0, InHand
<1>4. CASE Look(t)
  BY <1>0, <1>1, <1>2, <1>3, <1>4, HitIsYoung DEF Look, At
<1>5. CASE Enrol(t)
  BY <1>0, <1>1, <1>2, <1>3, <1>5, HitIsYoung DEF Enrol, At
<1>6. CASE Woken(t)
  BY <1>0, <1>1, <1>2, <1>3, <1>6, WokenIsYoung DEF Woken, At
<1>7. CASE BuildAlone(t)
  <2>1. thread[t].pc = "alone" /\ Return(t, Built(t)) /\ UNCHANGED cache
    BY <1>7 DEF BuildAlone, At
  <2>2. Built(t).old <= Base(Key(t)) + Join(Key(t)) + thread[t].late
    BY <1>0, <2>1, BuiltIsYoung
  <2>3. /\ Built(t).old \in Nat /\ thread[t].late \in Nat /\ thread[t].late <= MaxLate
        /\ Base(Key(t)) \in Nat /\ Join(Key(t)) \in Nat
    <3>1. Built(t) \in Values /\ Key(t) \in Keys
      BY <1>3, <2>1
    <3>2. Built(t).old \in Nat
      BY <3>1, Basics DEF Values
    <3>3. thread[t].late \in Nat /\ thread[t].late <= MaxLate
      BY <1>0, CacheAssumption DEF Requests
    <3>4. Base(Key(t)) \in Nat /\ Join(Key(t)) \in Nat
      BY <3>1, Bounds
    <3> QED BY <3>2, <3>3, <3>4
  <2>4. Built(t).old <= Top(Key(t))
    BY <2>2, <2>3, Bounds DEF Top
  <2> QED BY <1>2, <1>3, <2>1, <2>4
<1>8. CASE Build(t)
  <2> DEFINE r == [thread[t] EXCEPT !.pc = "publish", !.val = Built(t)]
  <2>1. /\ r.pc = "publish" /\ r.chain = thread[t].chain /\ r.late = thread[t].late
        /\ r.last = thread[t].last /\ r.before = thread[t].before /\ r.val = Built(t)
    BY <1>0 DEF Requests
  <2>2. thread' = [thread EXCEPT ![t] = r] /\ UNCHANGED cache /\ thread[t].pc = "build"
    BY <1>8 DEF Build, At
  <2> HIDE DEF r
  <2>3. Built(t).old <= Base(Key(t)) + Join(Key(t)) + thread[t].late
    BY <1>0, <2>2, BuiltIsYoung
  <2>4. Key(t) = thread[t].chain[1]
    BY <1>0, <2>2 DEF Sound, Key, Requests
  <2>5. Sound(r)
    BY <1>0, <2>1, <2>2, <2>3, <2>4 DEF Sound
  <2> QED BY <2>1, <2>2, <2>5, OneGoesOn
<1>9. CASE Publish(t)
  BY <1>9, PublishIsSound
<1>10. CASE Reply(t)
  BY <1>10, Basics, OneGoesOn DEF Reply, Sound
<1> QED BY <1>4, <1>5, <1>6, <1>7, <1>8, <1>9, <1>10 DEF Serve

LEMMA RequestIsSound ==
    ASSUME StaleInv, NEW t \in Threads, NEW chain \in Chains, Request(t, chain)
    PROVE  (\A u \in Threads : Sound(thread'[u])) /\ EntriesAge' /\ WokenFindsIt'
<1> DEFINE r == [pc |-> "look", chain |-> chain, late |-> 0, last |-> JustRead,
                 before |-> JustRead, val |-> JustRead, fresh |-> TRUE]
<1>1. /\ chain \in Seq(Keys) /\ chain # <<>> /\ chain[1] = Records
      /\ RankedBy(level, chain)
  BY CacheAssumption, LevelsExist
<1>2. /\ r.pc = "look" /\ r.chain = chain /\ r.late = 0
      /\ r.last.old = 0 /\ r.before.old = 0
  BY DEF JustRead
<1>3. thread' = [thread EXCEPT ![t] = r] /\ UNCHANGED cache
  BY DEF Request
<1> HIDE DEF r
<1>4. \A i \in 1..Len(chain) : chain[i] \in Keys
  BY <1>1
<1>5. \A k \in Keys : 0 <= Base(k) + 0 /\ 0 <= Base(k) + MaxLate + 0
  BY Bounds
<1>6. Len(chain) \in Nat \ {0}
  BY <1>1
<1>7. Sound(r)
  BY <1>1, <1>2, <1>4, <1>5, <1>6 DEF Sound
<1> QED BY <1>2, <1>3, <1>7, OneGoesOn

LEMMA InvalidateIsSound ==
    ASSUME StaleInv, Invalidate
    PROVE  (\A u \in Threads : Sound(thread'[u])) /\ EntriesAge' /\ WokenFindsIt'
<1>1. ASSUME NEW u \in Threads
      PROVE  Sound(thread'[u]) /\ thread'[u].chain = thread[u].chain
             /\ thread'[u].pc = thread[u].pc
  <2>1. thread[u] \in Requests /\ Sound(thread[u])
    BY DEF StaleInv, QuantTypeOK
  <2>2. thread'[u] = [thread[u] EXCEPT !.fresh = FALSE,
                          !.last = Forgotten(thread[u].last),
                          !.before = Forgotten(thread[u].before),
                          !.val = Forgotten(thread[u].val)]
    BY DEF Invalidate
  <2>3. /\ thread[u].last \in Values /\ thread[u].before \in Values
        /\ thread[u].val \in Values
    BY <2>1 DEF Requests
  <2>4. /\ Forgotten(thread[u].last).old = thread[u].last.old
        /\ Forgotten(thread[u].before).old = thread[u].before.old
        /\ Forgotten(thread[u].val).old = thread[u].val.old
    BY <2>3 DEF Forgotten, Values
  <2>5. /\ thread'[u].pc = thread[u].pc /\ thread'[u].chain = thread[u].chain
        /\ thread'[u].late = thread[u].late
        /\ thread'[u].last.old = thread[u].last.old
        /\ thread'[u].before.old = thread[u].before.old
        /\ thread'[u].val.old = thread[u].val.old
    BY <2>1, <2>2, <2>4 DEF Requests
  <2> QED BY <2>1, <2>5 DEF Sound
<1>2. \A k \in Keys : ~cache'[k].in
  BY DEF Invalidate, Absent
<1>3. WokenFindsIt'
  <2> SUFFICES ASSUME NEW u \in Threads, At(u, "woken")', cache'[Key(u)'].in
               PROVE  FALSE
    BY DEF WokenFindsIt
  <2>1. Key(u) \in Keys /\ Key(u)' = Key(u)
    BY <1>1, InHand DEF At, Key, StaleInv
  <2> QED BY <1>2, <2>1
<1> QED BY <1>1, <1>2, <1>3 DEF EntriesAge

LEMMA TickIsSound ==
    ASSUME StaleInv, Tick
    PROVE  (\A u \in Threads : Sound(thread'[u])) /\ EntriesAge' /\ WokenFindsIt'
<1>0. \A v \in Values : Aged(v).old \in Nat /\ v.old \in Nat /\ Aged(v).old <= v.old + 1
  BY Basics DEF Aged, Values
<1>1. ASSUME NEW u \in Threads
      PROVE  /\ Sound(thread'[u]) /\ thread'[u].pc = thread[u].pc
             /\ thread'[u].chain = thread[u].chain
             /\ thread[u].pc # "idle" => thread'[u].late = thread[u].late + 1
  <2>1. thread[u] \in Requests /\ Sound(thread[u])
        /\ (thread[u].pc = "idle" <=> thread[u].chain = <<>>)
    BY DEF StaleInv, QuantTypeOK
  <2>2. CASE thread[u].pc = "idle"
    <3>1. thread'[u] = Idle
      BY <2>2 DEF Tick, At
    <3> QED BY <2>1, <2>2, <3>1, Basics DEF Sound
  <2>3. CASE thread[u].pc # "idle"
    <3>1. thread'[u] = [thread[u] EXCEPT !.late = thread[u].late + 1,
                            !.last = Aged(thread[u].last),
                            !.before = Aged(thread[u].before),
                            !.val = Aged(thread[u].val)]
      BY <2>3 DEF Tick, At
    <3>2. /\ thread[u].last \in Values /\ thread[u].before \in Values
          /\ thread[u].val \in Values /\ thread[u].late \in Nat
      BY <2>1, CacheAssumption DEF Requests
    <3>3. /\ thread'[u].pc = thread[u].pc /\ thread'[u].chain = thread[u].chain
          /\ thread'[u].late = thread[u].late + 1
          /\ thread'[u].last.old \in Nat /\ thread'[u].last.old <= thread[u].last.old + 1
          /\ thread'[u].before.old \in Nat /\ thread'[u].before.old <= thread[u].before.old + 1
          /\ thread'[u].val.old \in Nat /\ thread'[u].val.old <= thread[u].val.old + 1
      BY <1>0, <2>1, <3>1, <3>2 DEF Requests
    <3>4. thread[u].pc # "done"
      BY DEF Tick
    <3>5. \A i \in 1..Len(thread[u].chain) :
            /\ Base(thread[u].chain[i]) \in Nat /\ Join(thread[u].chain[i]) \in Nat
      <4>1. \A i \in 1..Len(thread[u].chain) : thread[u].chain[i] \in Keys
        BY <2>1 DEF Requests
      <4> QED BY <4>1, Bounds
    <3>6. Len(thread[u].chain) \in Nat \ {0} /\ MaxLate \in Nat
      BY <2>1, <2>3, CacheAssumption DEF Requests
    <3>7. thread[u].last.old \in Nat /\ thread[u].before.old \in Nat
          /\ thread[u].val.old \in Nat
      BY <1>0, <3>2
    <3> DEFINE c == thread[u].chain
    <3>8. /\ c \in Seq(Keys) /\ c # <<>> /\ RankedBy(level, c)
          /\ c[1] # Records => thread[u].last.old <= Base(c[1]) + thread[u].late
          /\ c[1] \in Joins => thread[u].before.old <= Base(c[1]) + MaxLate + thread[u].late
          /\ Len(c) > 1 /\ c[2] \in Joins => thread[u].last.old <= Base(c[2]) + thread[u].late
          /\ thread[u].pc = "publish" => thread[u].val.old <= Base(c[1]) + Join(c[1]) + thread[u].late
      BY <2>1, <2>3, <3>4 DEF Sound
    <3>9. Base(c[1]) \in Nat /\ Join(c[1]) \in Nat /\ (Len(c) > 1 => Base(c[2]) \in Nat)
      BY <3>5, <3>6
    <3> HIDE DEF c
    <3>10. /\ c[1] # Records => thread'[u].last.old <= Base(c[1]) + thread'[u].late
           /\ c[1] \in Joins => thread'[u].before.old <= Base(c[1]) + MaxLate + thread'[u].late
           /\ Len(c) > 1 /\ c[2] \in Joins => thread'[u].last.old <= Base(c[2]) + thread'[u].late
           /\ thread[u].pc = "publish" => thread'[u].val.old <= Base(c[1]) + Join(c[1]) + thread'[u].late
      <4>1. \A b, a, new \in Nat : a <= b + thread[u].late /\ new <= a + 1
                => new <= b + thread'[u].late
        BY <3>2, <3>3
      <4>2. c[1] # Records => thread'[u].last.old <= Base(c[1]) + thread'[u].late
        BY <3>3, <3>7, <3>8, <3>9, <4>1
      <4>3. c[1] \in Joins => thread'[u].before.old <= Base(c[1]) + MaxLate + thread'[u].late
        <5>1. Base(c[1]) + MaxLate \in Nat
          BY <3>6, <3>9
        <5> QED BY <3>3, <3>7, <3>8, <4>1, <5>1
      <4>4. Len(c) > 1 /\ c[2] \in Joins => thread'[u].last.old <= Base(c[2]) + thread'[u].late
        BY <3>3, <3>7, <3>8, <3>9, <4>1
      <4>5. thread[u].pc = "publish"
                => thread'[u].val.old <= Base(c[1]) + Join(c[1]) + thread'[u].late
        <5>1. Base(c[1]) + Join(c[1]) \in Nat
          BY <3>9
        <5> QED BY <3>3, <3>7, <3>8, <4>1, <5>1
      <4> QED BY <4>2, <4>3, <4>4, <4>5
    <3>11. thread'[u].chain = c
      BY <3>3 DEF c
    <3>12. Sound(thread'[u])
      BY <3>3, <3>4, <3>8, <3>10, <3>11 DEF Sound
    <3> QED BY <3>3, <3>12
  <2> QED BY <2>2, <2>3
<1>2. ASSUME NEW k \in Keys
      PROVE  /\ cache'[k].in <=> cache[k].in
             /\ cache[k].in => /\ cache[k].age \in Nat /\ cache'[k].age \in Nat
                               /\ cache[k].age <= AgeCap
                               /\ cache'[k].age = IF cache[k].age < AgeCap
                                                  THEN cache[k].age + 1 ELSE cache[k].age
                               /\ cache'[k].value.old \in Nat /\ cache[k].value.old \in Nat
                               /\ cache'[k].value.old <= cache[k].value.old + 1
  <2>1. cache[k] \in Entries /\ cache[k].value \in Values /\ cache[k].age \in Nat
        /\ cache[k].age <= AgeCap
    BY Basics DEF StaleInv, QuantTypeOK, Entries
  <2>2. CASE cache[k].in
    <3>1. cache'[k] = [cache[k] EXCEPT
                          !.age = IF cache[k].age < AgeCap THEN cache[k].age + 1
                                  ELSE cache[k].age,
                          !.value = Aged(cache[k].value)]
      BY <2>2 DEF Tick
    <3>2. /\ cache'[k].in = cache[k].in
          /\ cache'[k].age = IF cache[k].age < AgeCap THEN cache[k].age + 1 ELSE cache[k].age
          /\ cache'[k].value = Aged(cache[k].value)
      BY <2>1, <3>1 DEF Entries
    <3> QED BY <1>0, <2>1, <2>2, <3>2
  <2>3. CASE ~cache[k].in
    BY <2>3 DEF Tick, Absent
  <2> QED BY <2>2, <2>3
<1>3. EntriesAge'
  <2> SUFFICES ASSUME NEW k \in Keys, cache'[k].in, cache'[k].age < AgeCap
               PROVE  cache'[k].value.old <= Base(k) + Join(k) + MaxLate + cache'[k].age
    BY DEF EntriesAge
  <2>1. cache[k].in /\ cache[k].age < AgeCap /\ cache'[k].age = cache[k].age + 1
    BY <1>2, Basics
  <2>2. cache[k].value.old <= Base(k) + Join(k) + MaxLate + cache[k].age
    BY <2>1 DEF StaleInv, EntriesAge
  <2>3. Base(k) \in Nat /\ Join(k) \in Nat /\ MaxLate \in Nat
    BY Bounds
  <2> QED BY <1>2, <2>1, <2>2, <2>3
<1>4. WokenFindsIt'
  <2> SUFFICES ASSUME NEW u \in Threads, At(u, "woken")', cache'[Key(u)'].in
               PROVE  cache'[Key(u)'].age <= thread'[u].late
    BY DEF WokenFindsIt
  <2>1. At(u, "woken") /\ Key(u)' = Key(u) /\ thread'[u].late = thread[u].late + 1
    BY <1>1 DEF At, Key
  <2>2. Key(u) \in Keys /\ thread[u].late \in Nat
    BY <2>1, InHand, CacheAssumption DEF StaleInv, QuantTypeOK, Requests, At
  <2>3. cache[Key(u)].in /\ cache[Key(u)].age <= thread[u].late
    BY <1>2, <2>1, <2>2 DEF StaleInv, WokenFindsIt
  <2> QED BY <1>2, <2>1, <2>2, <2>3
<1> QED BY <1>1, <1>3, <1>4

LEMMA StaleStep ==
    ASSUME StaleInv, [SteadyNext]_quantVars
    PROVE  StaleInv'
<1>1. QuantTypeOK'
  <2>1. [QuantNext]_quantVars
    BY DEF QuantNext
  <2> QED BY <2>1, QuantTypeStep DEF StaleInv
<1>2. CASE UNCHANGED quantVars
  BY <1>1, <1>2 DEF StaleInv, quantVars, EntriesAge, WokenFindsIt, At, Key
<1>3. CASE SteadyNext
  <2>1. (\A u \in Threads : Sound(thread'[u])) /\ EntriesAge' /\ WokenFindsIt'
    BY <1>3, ServeIsSound, RequestIsSound, InvalidateIsSound, TickIsSound DEF SteadyNext
  <2> QED BY <1>1, <2>1 DEF StaleInv
<1> QED BY <1>2, <1>3

LEMMA StaleInit == QuantInit => StaleInv
<1> SUFFICES ASSUME QuantInit PROVE StaleInv
  OBVIOUS
<1>1. \A t \in Threads : thread[t].pc = "idle"
  BY Basics DEF QuantInit
<1>2. \A k \in Keys : ~cache[k].in
  BY DEF QuantInit, Absent
<1> QED BY <1>1, <1>2, QuantTypeInit DEF StaleInv, Sound, EntriesAge, WokenFindsIt, At

\* While the store answers, no answer is older than one TTL, less one, and two late
\* calls for each level between the store and it, and one more late call for a join:
\* for every number of request threads and levels, through invalidations, expiries
\* and waiters who find an entry that has expired.
THEOREM StalenessCorrect == SteadySpec => []StalenessBounded
<1>1. StaleInv => StalenessBounded
  BY DEF StaleInv, StalenessBounded, Sound, At, Answer
<1> QED BY <1>1, StaleInit, StaleStep, PTL DEF SteadySpec

-----------------------------------------------------------------------------
(* Replay. *)

\* A line that no later pass has to hand to a handler.
Done(l) == l \in Capture => l \in Settled

\* Every line up to an offset is dealt with.
OffsetsAreSafe ==
    \A p \in Path : /\ offset[p] <= Len(file[p])
                    /\ \A i \in 1..offset[p] : Done(file[p][i])

\* A pass holds the beginning of its file, and what it has consumed, which is
\* what it will save, is dealt with.
PassIsSafe(r) ==
    LET p == Head(todo[r]) IN
    /\ Len(text[r]) <= Len(file[p])
    /\ \A i \in 1..Len(text[r]) : file[p][i] = text[r][i]
    /\ mark[r] = line[r]
    /\ \A i \in 1..line[r] : Done(text[r][i])

\* The inductive invariant, for files that only grow.
ReplayInv ==
    /\ ReplayTypeOK
    /\ rewrites = 0 =>
        /\ OffsetsAreSafe
        /\ \A r \in Runner : pc[r] \in {"reading", "handled"} => PassIsSafe(r)

\* An alert of replay leaves a row behind.
AlertInv == \A c \in Capture : alerts[c] \in 0..1 /\ (alerts[c] = 1 => c \in stored)

-----------------------------------------------------------------------------
(* Files and lines. *)

\* The lines of a file are a sequence of bounded length.
LEMMA LinesAreSeq ==
    ASSUME NEW t \in Lines
    PROVE  /\ Len(t) \in 0..MaxLen /\ t \in [1..Len(t) -> Line]
           /\ t \in Seq(Line) /\ DOMAIN t = 1..Len(t)
<1>1. PICK n \in 0..MaxLen : t \in [1..n -> Line]
  BY DEF Lines
<1>2. n \in Nat /\ MaxLen \in Nat
  BY <1>1, ReplayAssumption
<1>3. t \in Seq(Line) /\ Len(t) = n
  BY <1>1, <1>2
<1> QED BY <1>1, <1>2, <1>3

\* A file that is not full takes one more line, and keeps those it has.
LEMMA AppendToFile ==
    ASSUME NEW t \in Lines, NEW l \in Line, Len(t) < MaxLen
    PROVE  /\ Append(t, l) \in Lines
           /\ Len(Append(t, l)) = Len(t) + 1
           /\ \A i \in 1..Len(t) : Append(t, l)[i] = t[i]
<1>1. t \in Seq(Line) /\ Len(t) \in Nat /\ MaxLen \in Nat
  BY LinesAreSeq, ReplayAssumption
<1>2. Append(t, l) \in Seq(Line) /\ Len(Append(t, l)) = Len(t) + 1
  BY <1>1
<1>3. Append(t, l) \in [1..(Len(t) + 1) -> Line]
  BY <1>2, LenProperties
<1>4. Append(t, l) \in Lines
  <2>1. Len(t) + 1 \in 0..MaxLen
    BY <1>1
  <2> QED BY <1>3, <2>1 DEF Lines
<1> QED BY <1>1, <1>2, <1>4

LEMMA EmptyFile == <<>> \in Lines /\ Len(<<>>) = 0
<1>1. 0 \in 0..MaxLen /\ <<>> \in [1..0 -> Line]
  BY ReplayAssumption
<1> QED BY <1>1 DEF Lines

\* An order of the files is a sequence of them.
LEMMA OrdersAreSeqs == \A o \in Orders : o \in Seq(Path)
<1>1. Cardinality(Path) \in Nat
  BY ReplayAssumption, FS_CardinalityType
<1> QED BY <1>1 DEF Orders

\* What is left of an order after its first file.
LEMMA RestIsSeq ==
    ASSUME NEW o \in Seq(Path), o # <<>>
    PROVE  Rest(o) \in Seq(Path) /\ Head(o) \in Path
BY DEF Rest

\* The next line is the first of those ahead that parse.
LEMMA NextLineIsFirst ==
    ASSUME NEW r, line[r] \in Nat, text[r] \in Lines, Ahead(r) # {}
    PROVE  /\ NextLine(r) \in line[r] + 1..Len(text[r])
           /\ text[r][NextLine(r)] \in Capture
           /\ \A i \in line[r] + 1..NextLine(r) - 1 : text[r][i] = Garbage
<1>1. Len(text[r]) \in Nat /\ text[r] \in [1..Len(text[r]) -> Line]
  BY LinesAreSeq
<1>2. Ahead(r) \subseteq Nat
  BY <1>1 DEF Ahead
<1>3. PICK k \in Ahead(r) : \A j \in Ahead(r) : ~ (<<j, k>> \in OpToRel(<, Nat))
  BY <1>2, NatLessThanWellFounded, WFMin
<1>4. \A j \in Ahead(r) : k <= j
  <2>1. \A j \in Ahead(r) : ~ (j < k)
    BY <1>2, <1>3 DEF OpToRel
  <2> QED BY <1>2, <2>1
<1>5. NextLine(r) \in Ahead(r) /\ \A j \in Ahead(r) : NextLine(r) <= j
  BY <1>3, <1>4 DEF NextLine
<1>6. NextLine(r) \in line[r] + 1..Len(text[r]) /\ NextLine(r) \in Nat
  BY <1>2, <1>5 DEF Ahead
<1>7. text[r][NextLine(r)] \in Capture
  <2>1. text[r][NextLine(r)] \in Line /\ text[r][NextLine(r)] # Garbage
    BY <1>1, <1>5, <1>6 DEF Ahead
  <2> QED BY <2>1 DEF Line
<1>8. ASSUME NEW i \in line[r] + 1..NextLine(r) - 1
      PROVE  text[r][i] = Garbage
  <2>1. i \in line[r] + 1..Len(text[r]) /\ ~(NextLine(r) <= i)
    BY <1>1, <1>6
  <2>2. i \notin Ahead(r)
    BY <1>5, <2>1
  <2> QED BY <2>1, <2>2 DEF Ahead
<1> QED BY <1>6, <1>7, <1>8

-----------------------------------------------------------------------------
(* Types. *)

LEMMA ReplayTypeInit == Init => ReplayTypeOK
<1>1. 0 \in 0..MaxLen /\ 0 \in 0..MaxRewrites
  BY ReplayAssumption
<1> QED BY <1>1, EmptyFile DEF Init, ReplayTypeOK

LEMMA StartTypes ==
    ASSUME ReplayTypeOK, NEW r \in Runner, StartPass(r)
    PROVE  ReplayTypeOK'
<1>1. PICK o \in Orders : todo' = [todo EXCEPT ![r] = o]
  BY DEF StartPass, Update
<1>2. o \in Seq(Path)
  BY OrdersAreSeqs
<1> QED BY <1>1, <1>2 DEF StartPass, Update, ReplayTypeOK, fileVars, tables

LEMMA OpenTypes ==
    ASSUME ReplayTypeOK, NEW r \in Runner, OpenFile(r)
    PROVE  ReplayTypeOK'
<1> DEFINE p == Head(todo[r])
<1>1. p \in Path /\ file[p] \in Lines /\ offset[p] \in 0..MaxLen
  BY DEF OpenFile, ReplayTypeOK
<1>2. Len(file[p]) \in 0..MaxLen /\ MaxLen \in Nat
  BY <1>1, LinesAreSeq, ReplayAssumption
<1>3. /\ ResumeAt(offset[p], file[p]) \in 0..MaxLen
      /\ ResumeAt(offset[p], file[p]) <= Len(file[p])
  BY <1>1, <1>2 DEF ResumeAt
<1> HIDE DEF p
<1>4. /\ text' = [text EXCEPT ![r] = file[p]]
      /\ line' = [line EXCEPT ![r] = ResumeAt(offset[p], file[p])]
      /\ mark' = [mark EXCEPT ![r] = offset[p]]
      /\ pc' = [pc EXCEPT ![r] = "reading"] /\ todo[r] # <<>>
      /\ UNCHANGED <<todo, count, fileVars, tables, runs, alerts, noticed>>
  BY DEF OpenFile, Update, p
<1> QED BY <1>1, <1>3, <1>4 DEF ReplayTypeOK, fileVars, tables

\* What handling a line changes, whatever comes of it.
LEMMA HandleMoves ==
    ASSUME ReplayTypeOK, NEW r \in Runner, NEW n \in Nat, Handle(r, n)
    PROVE  /\ pc[r] = "reading"
           /\ NextLine(r) \in line[r] + 1..Len(text[r])
           /\ NextLine(r) \in 0..MaxLen
           /\ text[r][NextLine(r)] \in Capture
           /\ \A i \in line[r] + 1..NextLine(r) - 1 : text[r][i] = Garbage
           /\ pc' = [pc EXCEPT ![r] = "handled"]
           /\ line' = [line EXCEPT ![r] = NextLine(r)]
           /\ mark' = [mark EXCEPT ![r] = NextLine(r)]
           /\ count' = [count EXCEPT ![r] = count[r] + n]
           /\ runs' \in [Capture -> 0..2]
           /\ UNCHANGED <<todo, text, offset, file, rewrites, noticed>>
<1>1. pc[r] = "reading" /\ Ahead(r) # {}
  BY DEF Handle
<1>2. line[r] \in 0..MaxLen /\ text[r] \in Lines /\ MaxLen \in Nat
  BY ReplayAssumption DEF ReplayTypeOK
<1>3. /\ NextLine(r) \in line[r] + 1..Len(text[r])
      /\ text[r][NextLine(r)] \in Capture
      /\ \A i \in line[r] + 1..NextLine(r) - 1 : text[r][i] = Garbage
  BY <1>1, <1>2, NextLineIsFirst
<1>4. NextLine(r) \in 0..MaxLen
  BY <1>2, <1>3, LinesAreSeq
<1>5. runs' \in [Capture -> 0..2]
  <2> DEFINE c == text[r][NextLine(r)]
  <2>1. c \in Capture /\ runs \in [Capture -> 0..2]
    BY <1>3 DEF ReplayTypeOK
  <2>2. runs' = [runs EXCEPT ![c] = IF @ < 2 THEN @ + 1 ELSE 2]
    BY DEF Handle
  <2> HIDE DEF c
  <2> QED BY <2>1, <2>2
<1> QED BY <1>1, <1>3, <1>4, <1>5 DEF Handle, Update, fileVars

LEMMA HandleTypes ==
    ASSUME ReplayTypeOK, NEW r \in Runner, HandleOk(r) \/ HandleFails(r)
    PROVE  ReplayTypeOK'
<1>1. PICK n \in Nat : Handle(r, n)
  BY DEF HandleOk, HandleFails
<1> DEFINE c == text[r][NextLine(r)]
<1>2. c \in Capture
  BY <1>1, HandleMoves
<1>3. stored' \in SUBSET Capture /\ buried' \in SUBSET Capture /\ alerts' \in [Capture -> 0..2]
  <2>1. CASE HandleOk(r)
    BY <1>2, <2>1 DEF HandleOk, Alerted, ReplayTypeOK
  <2>2. CASE HandleFails(r)
    BY <1>2, <2>2 DEF HandleFails, ReplayTypeOK
  <2> QED BY <2>1, <2>2
<1>4. NextLine(r) \in 0..MaxLen /\ NextLine(r) <= Len(text[r]) /\ pc[r] = "reading"
  <2>1. Len(text[r]) \in Nat
    BY LinesAreSeq DEF ReplayTypeOK
  <2> QED BY <1>1, <2>1, HandleMoves DEF ReplayTypeOK
<1>5. /\ pc' = [pc EXCEPT ![r] = "handled"]
      /\ line' = [line EXCEPT ![r] = NextLine(r)]
      /\ mark' = [mark EXCEPT ![r] = NextLine(r)]
      /\ count' = [count EXCEPT ![r] = count[r] + n]
      /\ runs' \in [Capture -> 0..2]
      /\ UNCHANGED <<todo, text, offset, file, rewrites, noticed>>
  BY <1>1, HandleMoves
<1>6. line' \in [Runner -> 0..MaxLen] /\ mark' \in [Runner -> 0..MaxLen]
  BY <1>4, <1>5 DEF ReplayTypeOK
<1>7. count' \in [Runner -> Nat]
  <2>1. count \in [Runner -> Nat] /\ count[r] + n \in Nat
    BY DEF ReplayTypeOK
  <2> QED BY <1>5, <2>1
<1>8. pc' \in [Runner -> {"idle", "between", "reading", "handled", "dead"}]
  <2>1. pc \in [Runner -> {"idle", "between", "reading", "handled", "dead"}]
    BY DEF ReplayTypeOK
  <2> QED BY <1>5, <2>1
<1>9. ASSUME NEW q \in Runner, pc'[q] \in {"reading", "handled"}
      PROVE  todo'[q] # <<>> /\ line'[q] <= Len(text'[q])
  <2>1. CASE q = r
    <3>1. line'[r] = NextLine(r) /\ text' = text /\ todo' = todo
      BY <1>5 DEF ReplayTypeOK
    <3>2. todo[r] # <<>>
      BY <1>4 DEF ReplayTypeOK
    <3> QED BY <1>4, <2>1, <3>1, <3>2
  <2>2. CASE q # r
    <3>1. pc'[q] = pc[q] /\ line'[q] = line[q] /\ text' = text /\ todo' = todo
      BY <1>5, <2>2 DEF ReplayTypeOK
    <3> QED BY <1>9, <3>1 DEF ReplayTypeOK
  <2> QED BY <2>1, <2>2
<1> HIDE DEF c
<1>10. UNCHANGED <<todo, text, offset, file, rewrites, noticed>> /\ runs' \in [Capture -> 0..2]
  BY <1>5
<1> QED BY <1>3, <1>6, <1>7, <1>8, <1>9, <1>10 DEF ReplayTypeOK

LEMMA SaveTypes ==
    ASSUME ReplayTypeOK, NEW r \in Runner, SaveAndStop(r) \/ GoOn(r)
    PROVE  ReplayTypeOK'
<1>1. pc[r] = "handled" /\ offset' \in [Path -> 0..MaxLen]
  BY DEF SaveAndStop, GoOn, ReplayTypeOK
<1>2. /\ pc' = [pc EXCEPT ![r] = "idle"] \/ pc' = [pc EXCEPT ![r] = "reading"]
      /\ UNCHANGED <<todo, text, line, mark, count, fileVars, stored, buried, runs, alerts, noticed>>
  BY DEF SaveAndStop, GoOn, Update
<1> QED BY <1>1, <1>2 DEF ReplayTypeOK, fileVars

LEMMA EndTypes ==
    ASSUME ReplayTypeOK, NEW r \in Runner, EndFile(r) \/ EndPass(r) \/ Abandon(r)
    PROVE  ReplayTypeOK'
<1>1. CASE EndFile(r)
  <2>1. pc[r] = "reading" /\ todo[r] \in Seq(Path) /\ todo[r] # <<>>
    BY <1>1 DEF EndFile, ReplayTypeOK
  <2>2. Head(todo[r]) \in Path /\ Rest(todo[r]) \in Seq(Path)
    BY <2>1, RestIsSeq
  <2>3. offset' \in [Path -> 0..MaxLen] /\ noticed' \in SUBSET Path
    BY <1>1, <2>2 DEF EndFile, ReplayTypeOK
  <2>4. /\ pc' = [pc EXCEPT ![r] = "between"]
        /\ todo' = [todo EXCEPT ![r] = Rest(todo[r])]
        /\ UNCHANGED <<text, line, mark, count, fileVars, stored, buried, runs, alerts>>
    BY <1>1 DEF EndFile, Update
  <2> QED BY <2>2, <2>3, <2>4 DEF ReplayTypeOK, fileVars
<1>2. CASE EndPass(r) \/ Abandon(r)
  BY <1>2 DEF EndPass, Abandon, Update, ReplayTypeOK, fileVars, tables
<1> QED BY <1>1, <1>2

LEMMA FileTypes ==
    ASSUME ReplayTypeOK, NEW p \in Path, (\E l \in Line : AppendLine(p, l)) \/ Rewrite(p)
    PROVE  ReplayTypeOK'
<1>1. CASE Rewrite(p)
  BY <1>1, EmptyFile, ReplayAssumption DEF Rewrite, ReplayTypeOK, tables, runner
<1>2. ASSUME NEW l \in Line, AppendLine(p, l)
      PROVE  ReplayTypeOK'
  <2>1. Append(file[p], l) \in Lines
    BY <1>2, AppendToFile DEF AppendLine, ReplayTypeOK
  <2> QED BY <1>2, <2>1 DEF AppendLine, ReplayTypeOK, tables, runner
<1> QED BY <1>1, <1>2

LEMMA ReplayTypeStep == ReplayTypeOK /\ [Next]_vars => ReplayTypeOK'
<1> SUFFICES ASSUME ReplayTypeOK, [Next]_vars PROVE ReplayTypeOK'
  OBVIOUS
<1>1. CASE UNCHANGED vars
  BY <1>1 DEF vars, fileVars, tables, runner, ReplayTypeOK
<1> QED BY <1>1, FileTypes, StartTypes, OpenTypes, HandleTypes, SaveTypes, EndTypes DEF Next, PassStep

\* The types of the replay's state.
THEOREM ReplayTypeCorrect == Spec => []ReplayTypeOK
BY ReplayTypeInit, ReplayTypeStep, PTL DEF Spec

-----------------------------------------------------------------------------
(* Nothing is skipped. *)

\* Files are only appended to, and what was dealt with stays so.
FilesGrow ==
    \A p \in Path : /\ Len(file[p]) <= Len(file'[p])
                    /\ \A i \in 1..Len(file[p]) : file'[p][i] = file[p][i]

Kept(q) == /\ todo'[q] = todo[q] /\ text'[q] = text[q]
           /\ line'[q] = line[q] /\ mark'[q] = mark[q]

LEMMA SettledGrows == [Next]_vars => Settled \subseteq Settled'
BY DEF Next, PassStep, vars, fileVars, tables, runner, Settled, AppendLine, Rewrite, StartPass,
       OpenFile, HandleOk, HandleFails, SaveAndStop, GoOn, EndFile, EndPass, Abandon

LEMMA FilesDoGrow ==
    ASSUME ReplayTypeOK, [Next]_vars, \A p \in Path : ~Rewrite(p)
    PROVE  FilesGrow
<1>0. \A p \in Path : file[p] \in Lines /\ Len(file[p]) \in Nat
  BY LinesAreSeq DEF ReplayTypeOK
<1>1. ASSUME file' = file PROVE FilesGrow
  BY <1>0, <1>1 DEF FilesGrow
<1>2. ASSUME NEW q \in Path, NEW l \in Line, AppendLine(q, l)
      PROVE  FilesGrow
  <2>1. /\ Len(Append(file[q], l)) = Len(file[q]) + 1
        /\ \A i \in 1..Len(file[q]) : Append(file[q], l)[i] = file[q][i]
    BY <1>0, <1>2, AppendToFile DEF AppendLine
  <2>2. \A p \in Path : file'[p] = IF p = q THEN Append(file[q], l) ELSE file[p]
    BY <1>2 DEF AppendLine, ReplayTypeOK
  <2> SUFFICES ASSUME NEW p \in Path
               PROVE  /\ Len(file[p]) <= Len(file'[p])
                      /\ \A i \in 1..Len(file[p]) : file'[p][i] = file[p][i]
    BY DEF FilesGrow
  <2>3. CASE p = q
    <3>1. file'[p] = Append(file[q], l)
      BY <2>2, <2>3
    <3> QED BY <1>0, <2>1, <2>3, <3>1
  <2>4. CASE p # q
    <3>1. file'[p] = file[p] /\ Len(file[p]) \in Nat
      BY <1>0, <2>2, <2>4
    <3> QED BY <3>1
  <2> QED BY <2>3, <2>4
<1>3. (\E q \in Path, l \in Line : AppendLine(q, l)) \/ file' = file
  BY DEF Next, PassStep, vars, fileVars, StartPass, OpenFile, HandleOk, HandleFails, Handle,
         SaveAndStop, GoOn, EndFile, EndPass, Abandon
<1> QED BY <1>1, <1>2, <1>3

\* What is safe stays safe while files grow.
LEMMA OffsetsStay ==
    ASSUME ReplayTypeOK, OffsetsAreSafe, FilesGrow, Settled \subseteq Settled', offset' = offset
    PROVE  OffsetsAreSafe'
<1>1. ASSUME NEW p \in Path
      PROVE  offset[p] <= Len(file'[p]) /\ \A i \in 1..offset[p] : file'[p][i] = file[p][i] /\ Done(file[p][i])
  <2>1. Len(file[p]) \in Nat /\ offset[p] \in Nat
    BY LinesAreSeq, ReplayAssumption DEF ReplayTypeOK
  <2> QED BY <2>1 DEF OffsetsAreSafe, FilesGrow
<1> QED BY <1>1 DEF OffsetsAreSafe, Done

LEMMA PassStays ==
    ASSUME ReplayTypeOK, ReplayTypeOK', NEW q \in Runner, PassIsSafe(q), pc[q] \in {"reading", "handled"},
           FilesGrow, Settled \subseteq Settled', Kept(q)
    PROVE  PassIsSafe(q)'
<1> DEFINE p == Head(todo[q])
<1>1. p \in Path /\ Len(file[p]) \in Nat /\ Len(file'[p]) \in Nat /\ Len(text[q]) \in Nat
  <2>1. p \in Path
    BY DEF ReplayTypeOK
  <2>2. file[p] \in Lines /\ file'[p] \in Lines /\ text[q] \in Lines
    BY <2>1 DEF ReplayTypeOK
  <2> QED BY <2>1, <2>2, LinesAreSeq
<1>2. p = Head(todo'[q])
  BY DEF Kept
<1>3. Len(text[q]) <= Len(file'[p]) /\ \A i \in 1..Len(text[q]) : file'[p][i] = text[q][i]
  BY <1>1 DEF PassIsSafe, FilesGrow
<1>4. \A i \in 1..line[q] : text[q][i] \in Capture => text[q][i] \in Settled'
  BY DEF PassIsSafe, Done
<1>5. mark[q] = line[q]
  BY DEF PassIsSafe
<1> HIDE DEF p
<1> QED BY <1>2, <1>3, <1>4, <1>5 DEF PassIsSafe, Done, Kept

\* A pass that is safe may save where it is.
LEMMA SavingIsSafe ==
    ASSUME ReplayTypeOK, OffsetsAreSafe, NEW r \in Runner, PassIsSafe(r),
           pc[r] \in {"reading", "handled"},
           file' = file, Settled' = Settled,
           offset' = [offset EXCEPT ![Head(todo[r])] = mark[r]]
    PROVE  OffsetsAreSafe'
<1> DEFINE p == Head(todo[r])
<1>1. p \in Path /\ line[r] <= Len(text[r]) /\ offset \in [Path -> 0..MaxLen] /\ line[r] \in 0..MaxLen
  BY DEF ReplayTypeOK
<1>2. Len(file[p]) \in Nat /\ Len(text[r]) \in Nat /\ MaxLen \in Nat
  BY <1>1, LinesAreSeq, ReplayAssumption DEF ReplayTypeOK
<1>3. line[r] <= Len(file[p]) /\ \A i \in 1..line[r] : Done(file[p][i])
  <2>1. ASSUME NEW i \in 1..line[r]
        PROVE  Done(file[p][i])
    <3>1. i \in 1..Len(text[r])
      BY <1>1, <1>2
    <3> QED BY <3>1 DEF PassIsSafe
  <2> QED BY <1>1, <1>2, <2>1 DEF PassIsSafe
<1>4. \A q \in Path : offset'[q] = IF q = p THEN line[r] ELSE offset[q]
  BY <1>1 DEF PassIsSafe
<1> HIDE DEF p
<1> QED BY <1>3, <1>4 DEF OffsetsAreSafe, Done

\* Opening a file: what lies below the offset is dealt with.
LEMMA OpeningIsSafe ==
    ASSUME ReplayTypeOK, OffsetsAreSafe, NEW r \in Runner, OpenFile(r)
    PROVE  PassIsSafe(r)'
<1> DEFINE p == Head(todo[r])
<1>1. p \in Path /\ todo' = todo /\ file' = file /\ Settled' = Settled
  BY DEF OpenFile, ReplayTypeOK, fileVars, tables, Settled
<1>2. Len(file[p]) \in Nat /\ offset[p] \in Nat /\ offset[p] <= Len(file[p])
  BY <1>1, LinesAreSeq, ReplayAssumption DEF ReplayTypeOK, OffsetsAreSafe
<1>3. text'[r] = file[p] /\ line'[r] = offset[p] /\ mark'[r] = offset[p]
  BY <1>2 DEF OpenFile, Update, ResumeAt, ReplayTypeOK
<1> HIDE DEF p
<1>4. \A i \in 1..offset[p] : Done(file[p][i])
  BY <1>1 DEF OffsetsAreSafe
<1> QED BY <1>1, <1>2, <1>3, <1>4 DEF PassIsSafe, Done, p

\* Handling a line: the lines passed over are garbage, and this one is dealt with.
LEMMA HandlingIsSafe ==
    ASSUME ReplayTypeOK, NEW r \in Runner, PassIsSafe(r), HandleOk(r) \/ HandleFails(r)
    PROVE  PassIsSafe(r)'
<1>1. PICK n \in Nat : Handle(r, n)
  BY DEF HandleOk, HandleFails
<1> DEFINE k == NextLine(r)
<1>2. /\ k \in line[r] + 1..Len(text[r]) /\ text[r][k] \in Capture
      /\ \A i \in line[r] + 1..k - 1 : text[r][i] = Garbage
      /\ line'[r] = k /\ mark'[r] = k
      /\ UNCHANGED <<todo, text, file>>
  BY <1>1, HandleMoves DEF ReplayTypeOK
<1>3. Settled \subseteq Settled' /\ text[r][k] \in Settled'
  BY DEF HandleOk, HandleFails, Settled
<1>4. line[r] \in Nat /\ Len(text[r]) \in Nat
  BY LinesAreSeq, ReplayAssumption DEF ReplayTypeOK
<1> HIDE DEF k
<1>5. ASSUME NEW i \in 1..k
      PROVE  text[r][i] \in Capture => text[r][i] \in Settled'
  <2>1. CASE i <= line[r]
    BY <1>3, <1>4, <2>1 DEF PassIsSafe, Done
  <2>2. CASE i = k
    BY <1>3, <2>2
  <2>3. CASE line[r] < i /\ i < k
    <3>1. i \in line[r] + 1..k - 1
      BY <1>2, <1>4, <2>3
    <3> QED BY <1>2, <3>1, ReplayAssumption
  <2> QED BY <1>2, <1>4, <2>1, <2>2, <2>3
<1> QED BY <1>2, <1>5 DEF PassIsSafe, Done

LEMMA ReplayInvInit == Init => ReplayInv
<1>1. Init => OffsetsAreSafe
  BY EmptyFile DEF Init, OffsetsAreSafe
<1> QED BY <1>1, ReplayTypeInit DEF Init, ReplayInv

LEMMA ReplayInvStep == ReplayInv /\ [Next]_vars => ReplayInv'
<1> SUFFICES ASSUME ReplayInv, [Next]_vars PROVE ReplayInv'
  OBVIOUS
<1>1. ReplayTypeOK /\ ReplayTypeOK'
  BY ReplayTypeStep DEF ReplayInv
<1> SUFFICES ASSUME rewrites' = 0
             PROVE  /\ OffsetsAreSafe'
                    /\ \A q \in Runner : pc'[q] \in {"reading", "handled"} => PassIsSafe(q)'
  BY <1>1 DEF ReplayInv
<1>2. rewrites = 0 /\ \A p \in Path : ~Rewrite(p)
  <2>1. rewrites \in Nat /\ rewrites' \in Nat
    BY <1>1, ReplayAssumption DEF ReplayTypeOK
  <2>2. \A p \in Path : ~Rewrite(p)
    BY <2>1 DEF Rewrite
  <2>3. rewrites' = rewrites
    BY <2>2 DEF Next, PassStep, vars, fileVars, AppendLine, StartPass, OpenFile, HandleOk, HandleFails,
                Handle, SaveAndStop, GoOn, EndFile, EndPass, Abandon
  <2> QED BY <2>2, <2>3
<1>3. OffsetsAreSafe /\ \A q \in Runner : pc[q] \in {"reading", "handled"} => PassIsSafe(q)
  BY <1>2 DEF ReplayInv
<1>4. FilesGrow /\ Settled \subseteq Settled'
  BY <1>1, <1>2, FilesDoGrow, SettledGrows
<1>5. ASSUME NEW q \in Runner, Kept(q), pc'[q] \in {"reading", "handled"},
             pc[q] \in {"reading", "handled"}
      PROVE  PassIsSafe(q)'
  BY <1>1, <1>3, <1>4, <1>5, PassStays
<1>6. ASSUME UNCHANGED <<offset, todo, text, line, mark, pc>>
      PROVE  /\ OffsetsAreSafe'
             /\ \A q \in Runner : pc'[q] \in {"reading", "handled"} => PassIsSafe(q)'
  BY <1>1, <1>3, <1>4, <1>5, <1>6, OffsetsStay DEF Kept
<1>7. ASSUME NEW r \in Runner, \A q \in Runner \ {r} : Kept(q) /\ pc'[q] = pc[q],
             OffsetsAreSafe', pc'[r] \in {"reading", "handled"} => PassIsSafe(r)'
      PROVE  /\ OffsetsAreSafe'
             /\ \A q \in Runner : pc'[q] \in {"reading", "handled"} => PassIsSafe(q)'
  BY <1>5, <1>7
<1>8. ASSUME NEW r \in Runner, StartPass(r) \/ EndPass(r) \/ Abandon(r)
      PROVE  /\ OffsetsAreSafe'
             /\ \A q \in Runner : pc'[q] \in {"reading", "handled"} => PassIsSafe(q)'
  <2>1. offset' = offset /\ pc'[r] \notin {"reading", "handled"}
    BY <1>1, <1>8 DEF StartPass, EndPass, Abandon, Update, tables, ReplayTypeOK
  <2>2. \A q \in Runner \ {r} : Kept(q) /\ pc'[q] = pc[q]
    BY <1>1, <1>8 DEF StartPass, EndPass, Abandon, Update, Kept, ReplayTypeOK
  <2> QED BY <1>1, <1>3, <1>4, <1>7, <2>1, <2>2, OffsetsStay
<1>9. ASSUME NEW r \in Runner, OpenFile(r)
      PROVE  /\ OffsetsAreSafe'
             /\ \A q \in Runner : pc'[q] \in {"reading", "handled"} => PassIsSafe(q)'
  <2>1. offset' = offset /\ \A q \in Runner \ {r} : Kept(q) /\ pc'[q] = pc[q]
    BY <1>1, <1>9 DEF OpenFile, Update, tables, Kept, ReplayTypeOK
  <2>2. OffsetsAreSafe' /\ PassIsSafe(r)'
    BY <1>1, <1>3, <1>4, <1>9, <2>1, OffsetsStay, OpeningIsSafe
  <2> QED BY <1>7, <2>1, <2>2
<1>10. ASSUME NEW r \in Runner, HandleOk(r) \/ HandleFails(r)
       PROVE  /\ OffsetsAreSafe'
              /\ \A q \in Runner : pc'[q] \in {"reading", "handled"} => PassIsSafe(q)'
  <2>0. pc[r] = "reading"
    BY <1>10 DEF HandleOk, HandleFails, Handle
  <2>1. offset' = offset /\ \A q \in Runner \ {r} : Kept(q) /\ pc'[q] = pc[q]
    BY <1>1, <1>10 DEF HandleOk, HandleFails, Handle, Update, Kept, ReplayTypeOK
  <2>2. OffsetsAreSafe' /\ PassIsSafe(r)'
    BY <1>1, <1>3, <1>4, <1>10, <2>0, <2>1, OffsetsStay, HandlingIsSafe
  <2> QED BY <1>7, <2>1, <2>2
<1>11. ASSUME NEW r \in Runner, SaveAndStop(r) \/ GoOn(r)
       PROVE  /\ OffsetsAreSafe'
              /\ \A q \in Runner : pc'[q] \in {"reading", "handled"} => PassIsSafe(q)'
  <2>1. /\ pc[r] = "handled" /\ file' = file /\ Settled' = Settled
        /\ \A q \in Runner : Kept(q)
        /\ \A q \in Runner \ {r} : pc'[q] = pc[q]
    BY <1>1, <1>11 DEF SaveAndStop, GoOn, Update, Kept, fileVars, Settled, ReplayTypeOK
  <2>2. offset' = offset \/ offset' = [offset EXCEPT ![Head(todo[r])] = mark[r]]
    BY <1>11 DEF SaveAndStop, GoOn
  <2>3. OffsetsAreSafe'
    BY <1>1, <1>3, <1>4, <2>1, <2>2, OffsetsStay, SavingIsSafe
  <2> QED BY <1>5, <1>7, <2>1, <2>3
<1>12. ASSUME NEW r \in Runner, EndFile(r)
       PROVE  /\ OffsetsAreSafe'
              /\ \A q \in Runner : pc'[q] \in {"reading", "handled"} => PassIsSafe(q)'
  <2>1. /\ pc[r] = "reading" /\ file' = file /\ Settled' = Settled /\ pc'[r] = "between"
        /\ \A q \in Runner \ {r} : Kept(q) /\ pc'[q] = pc[q]
        /\ offset' = [offset EXCEPT ![Head(todo[r])] = mark[r]]
    BY <1>1, <1>12 DEF EndFile, Update, Kept, fileVars, Settled, ReplayTypeOK
  <2>2. OffsetsAreSafe'
    BY <1>1, <1>3, <2>1, SavingIsSafe
  <2> QED BY <1>7, <2>1, <2>2
<1>13. ASSUME NEW p \in Path, NEW l \in Line, AppendLine(p, l)
       PROVE  UNCHANGED <<offset, todo, text, line, mark, pc>>
  BY <1>13 DEF AppendLine, tables, runner
<1>14. CASE UNCHANGED vars
  BY <1>6, <1>14 DEF vars, tables, runner
<1> QED BY <1>2, <1>6, <1>8, <1>9, <1>10, <1>11, <1>12, <1>13, <1>14 DEF Next, PassStep

\* No offset that a pass saves, however passes overtake each other, die or stop
\* at their limit, is behind a line neither handled nor dead-lettered.
THEOREM ReplayCorrect == Spec => []NothingSkipped
<1>1. ReplayInv => NothingSkipped
  <2> SUFFICES ASSUME ReplayInv, rewrites = 0, NEW p \in Path, NEW i \in DOMAIN file[p], Lost(p, i)
               PROVE  FALSE
    BY DEF NothingSkipped
  <2>1. i \in 1..offset[p]
    <3>1. DOMAIN file[p] = 1..Len(file[p]) /\ Len(file[p]) \in Nat /\ offset[p] \in Nat
      BY LinesAreSeq, ReplayAssumption DEF ReplayInv, ReplayTypeOK
    <3> QED BY <3>1 DEF Lost
  <2> QED BY <2>1 DEF ReplayInv, OffsetsAreSafe, Done, Lost, Settled
<1> QED BY <1>1, ReplayInvInit, ReplayInvStep, PTL DEF Spec

-----------------------------------------------------------------------------
(* One alert. *)

\* Replay, with no live tail beside it, dispatches one webhook per capture at
\* most, whatever is read again.
THEOREM ReplayAlertsCorrect ==
    ASSUME InTail = {}
    PROVE  Spec => []AlertedOnce
<1>1. Init => AlertInv
  BY DEF Init, AlertInv
<1>2. ReplayTypeOK /\ AlertInv /\ [Next]_vars => AlertInv'
  <2> SUFFICES ASSUME ReplayTypeOK, AlertInv, [Next]_vars PROVE AlertInv'
    OBVIOUS
  <2>1. ASSUME NEW r \in Runner, HandleOk(r)
        PROVE  AlertInv'
    <3> DEFINE c == text[r][NextLine(r)]
    <3>1. /\ stored' = stored \cup {c}
          /\ alerts' = [alerts EXCEPT ![c] = IF @ < 2 /\ c \notin stored THEN @ + 1 ELSE @]
      BY <2>1 DEF HandleOk, Alerted
    <3> HIDE DEF c
    <3> QED BY <3>1 DEF AlertInv, ReplayTypeOK
  <2>2. UNCHANGED <<alerts, stored>> => AlertInv'
    BY DEF AlertInv
  <2> QED BY <2>1, <2>2
          DEF Next, PassStep, vars, tables, AppendLine, Rewrite, StartPass, OpenFile, HandleFails,
              SaveAndStop, GoOn, EndFile, EndPass, Abandon
<1>3. AlertInv => AlertedOnce
  BY DEF AlertInv, AlertedOnce
<1> QED BY <1>1, <1>2, <1>3, ReplayTypeCorrect, PTL DEF Spec

=============================================================================
