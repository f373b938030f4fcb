\* Title dedup, evictions, drained rows, faulty reads and restarts
SPECIFICATION Spec
CONSTANTS
    Item <- MCItem
    UrlOf <- MCUrlOf
    TitleOf <- MCTitleOf
    NoTitle = ""
    SeenCap = 2
    TitleCap = 1
    TitleWindow = 1
    MaxServed = 3
    MaxTime = 3
    ReadFaults = TRUE
INVARIANTS
    TitlesHaveLanded
    OneStoryPerWindow
    NoReprocess
CHECK_DEADLOCK FALSE
