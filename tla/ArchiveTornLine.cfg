SPECIFICATION ArchSpec
CONSTANTS
    CaptureId = {c1, c2}
    MaxVersion = 4
    RotateParquet = 2
    Sweeper = {bg}
    Nobody = Nobody
    NoCapture = NoCapture
    Dir = {d1}
    Primary = d1
    MaxDay = 1
    MaxInflight = 1
    MaxRestarts = 0
    LocalCap = 1
    PerTickCap = 1
    TornWrites = TRUE
    FlakyReads = FALSE
    LossyVectors = TRUE
INVARIANTS
    NoCaptureLost
SYMMETRY Symmetry
VIEW HideExport
CHECK_DEADLOCK FALSE
