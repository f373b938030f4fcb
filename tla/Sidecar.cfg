\* Feed scheduling, push connections, one life, the database file, a bucket
SPECIFICATION FairSpec
CONSTANTS
    Feed = {f1, f2}
    Threshold = 3
    Ladder <- ShortLadder
    CadenceLadder <- ShortCadence
    CadenceMax = 4
    Adaptive = TRUE
    ReadFaults = TRUE
    Source = {s1, s2}
    BackoffLadder <- ShortBackoff
    Worker = {w1, w2}
    PoolSize = 1
    MaxAlerts = 2
    MaxPatches = 1
    Row = {r1, r2}
    Script <- Scripts
    Snapshot <- OldSnapshots
    MaxBackups = 1
    MaxCrashes = 1
    Caller = {q1, q2}
    Capacity = 3
    Rate = 1
    Cost = {1, 3}
    MaxTime = 4
    Threads = {t1, t2}
    NoThread = NoThread
    Keys = {"records", "clusters"}
    Records = "records"
    Chains <- SignalChain
    Joins = {}
    Levels = 2
    TTL = 1
    MaxLate = 1
INVARIANTS
    ScheduleAgrees
    DeadSourceIsThrottled
    DownMeansDown
    AlertsAddUp
    SchemaCoversVersion
    
    BurstBounded
    SingleFlight
PROPERTIES
    LadderClimbs
    FeedsNeverSilent
    WaitEnds
    EveryRequestEnds
CHECK_DEADLOCK FALSE
