\* Lead and lag over cached clusters over cached records
CONSTANTS
    t1 = t1
    t2 = t2
    Threads = {t1, t2}
    NoThread = NoThread
    Keys = {"records", "clusters", "leadlag"}
    Records = "records"
    Chains <- LeadLagChain
    Joins = {"leadlag"}
    Levels = 3
    TTL = 2
    MaxLate = 1
SPECIFICATION SteadySpec
INVARIANT StalenessBounded
SYMMETRY Requesters
