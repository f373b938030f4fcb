SPECIFICATION FairSpec
CONSTANTS
    Path = {p1, p2}
    Capture = {c1, c2}
    Garbage = Garbage
    Runner = {r1}
    InTail = {r1}
    Limit = 1
    MaxLen = 2
    MaxRewrites = 0
PROPERTY
    EveryLineSettles
