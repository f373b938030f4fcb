\* The poller and two push sources on one store
SPECIFICATION IntakeFairSpec
CONSTANTS
    Item <- MCItem
    UrlOf <- MCUrlOf
    TitleOf <- MCTitleOf
    NoTitle = ""
    SeenCap = 2
    TitleCap = 1
    TitleWindow = 0
    MaxServed = 2
    MaxTime = 0
    ReadFaults = FALSE
    Source = {s1, s2}
    NoItem = NoItem
INVARIANTS
    NothingSuppressed
    OneFlightPerUrl
PROPERTIES
    ServedStoryLands
CHECK_DEADLOCK FALSE
