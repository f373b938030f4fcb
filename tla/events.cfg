SPECIFICATION Spec
CONSTANTS
    Shape <- MCShape
    Upper <- MCUpper
    NoTime = 0
    NoDomain = "none"
    Alphabet <- MCAlphabet
    Log10 <- MCLog10
    Limit = 3
    Window = 1
    Threshold = 2100
    MinSize = 2
    MinDomains = 2
    MaxRows = 4
INVARIANTS
    EventsAgree
PROPERTIES
    LateNewsOnlyExtends
CHECK_DEADLOCK FALSE
