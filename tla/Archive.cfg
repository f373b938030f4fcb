\* Background tick, manual sweep and two ingest threads; writes fail between lines
SPECIFICATION ArchSpec
CONSTANTS
    CaptureId = {c1, c2}
    MaxVersion = 3
    RotateParquet = 2
    Sweeper = {bg, manual}
    Nobody = Nobody
    NoCapture = NoCapture
    Dir = {d1, d2}
    Primary = d1
    MaxDay = 1
    MaxInflight = 2
    MaxRestarts = 1
    LocalCap = 1
    PerTickCap = 1
    TornWrites = FALSE
    FlakyReads = FALSE
    LossyVectors = TRUE
INVARIANTS
    NoCaptureLost
    OneLinePerFile
    SnapshotIsCurrent
PROPERTIES
    ImplementsLedger
    NewestStay
    LiveVectorKept
    StopDrainsSweeps
SYMMETRY Symmetry
VIEW HideExport
CHECK_DEADLOCK FALSE
