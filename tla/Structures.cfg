CONSTANTS
    Capacity = 3
    RateNum = 2
    RateDen = 3
    Sizes = {1, 2}
    BucketHorizon = 12
    MaxResets = 1
    NumBuckets = 3
    BucketSize = 2
    Values = {1, 2}
    MaxPerTick = 2
    WindowHorizon = 10
    Requests = {r1, r2, r3, r4, r5}
    Limit = 2
    Keys = {k1, k2, k3}
    Providers = {p1, p2}
    Readers = {g1}
    TTL = 1
    MaxEntries = 2
    CacheHorizon = 3
    MaxSets = 4
    NoProvider = NoProvider
    NoKey = NoKey
    t1 = t1
    t2 = t2
    t3 = t3
    Callers = {c1, c2, c3}
    Pool = {t1, t2, t3}
    Weight <- MCWeight
    MaxCount = 7
    MaxPicks = 14
SPECIFICATION Spec
INVARIANTS
    LimiterIsExact
    RateBound
    RetryWithinATick
    WindowIsAccurate
    SizeBounded
    EvenlySpread
PROPERTY
    ImplementsAffinity
CHECK_DEADLOCK FALSE
