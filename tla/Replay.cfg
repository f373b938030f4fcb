\* Two passes of replay on one file that may be replaced in place
SPECIFICATION Spec
CONSTANTS
    Path = {p1}
    Capture = {c1, c2}
    Garbage = Garbage
    Runner = {r1, r2}
    InTail = {}
    Limit = 2
    MaxLen = 2
    MaxRewrites = 1
INVARIANTS
    NothingSkipped
    
SYMMETRY Symmetry
