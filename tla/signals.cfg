SPECIFICATION Spec
CONSTANTS
    Shape <- MCShape
    MaxEach = 3
    MaxRows <- MCMaxRows
    Width = 1
    MinHistory = 2
    Baseline = 3
    Lag = 1
    MinSupport = 1
    VelocityWindow = 3
    MinBucket = 2
    ShiftThreshold = 400
    MomentumWidth = 1
    MinMentions = 2
    MaxTickers = 2
    MinPairCount = 1
    MinEdgeWeight = 2
    PairWidth = 1
    PairMentions = 2
    MaxGrid = 20
    Now = 5
    SourceDays = 4
    SourceRecords = 2
    PersistenceDays = 4
    PersistenceRecords = 2
    Lexicon <- MCLexicon
    AssetClass = {"equities", "macro", "crypto"}
    ReasonCode = {"inflation", "central_bank"}
    NegativeClass = {"celebrity"}
    ShareTicker <- MCShareTicker
    DomainPrior <- MCDomainPrior
    SourcePrior = 500
    MinText = 3
    WordLen = 100
    SymbolSpan = 2
    MaxSymbols = 3
    EvidenceTopK = 2
    Watch <- MCWatch
    Lower <- MCLower
    Spelling <- MCSpelling
    QuoteFor <- MCQuoteFor
    CoverageWindow = 3
    CoverageNow = 5
    DayHours = 2
    TimelineBucket = 3
    Today = 5
    TrendDays = 3
    PanelLimit = 3
    HeatLimit = 1
    TopScore = 4
    TopRows = 4
    TopLimit = 2
INVARIANTS
    
    MirrorNews
    

    
CHECK_DEADLOCK FALSE
