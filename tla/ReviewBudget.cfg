\* Two paying threads, one capture: overshoot and cache coherence
CONSTANTS
    NumWorkers = 2
    NumCaptures = 1
    MaxCost = 2
    Caps = {1, 2}
    MaxBilled = 7
SPECIFICATION Spec
INVARIANTS CacheCoversTable OvershootBounded
