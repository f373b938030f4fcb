\* One sweep thread over midnight, on a drive and a database that heal now and then
SPECIFICATION FairSpec
CONSTANTS
    CaptureId = {c1, c2}
    MaxVersion = 3
    RotateParquet = 2
    Sweeper = {bg}
    Nobody = Nobody
    NoCapture = NoCapture
    Dir = {d1}
    Primary = d1
    MaxDay = 2
    MaxInflight = 1
    MaxRestarts = 0
    LocalCap = 1
    PerTickCap = 1
    TornWrites = FALSE
    FlakyReads = TRUE
    LossyVectors = FALSE
INVARIANTS
    StoreAgrees
PROPERTIES
    TagsSurviveReprocess
    BacklogDrains
CHECK_DEADLOCK FALSE
