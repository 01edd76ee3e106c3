\* One goroutine, TTL of one tick: lookups, expiry, eviction and reset in sequence.
CONSTANTS
    Threads = {t1}
    Clearers = {t1}
    Resetters = {t1}
    Keys = {k1, k2, k3}
    Specs = {s1, s2}
    MaxSize = 2
    TTL = 1
    MetricsEnabled = TRUE
    MaxTime = 3
    CounterCap = 2
    NoEntry = NoEntry
    Miss = Miss
SPECIFICATION Spec
INVARIANTS TypeOK
PROPERTIES CacheRefinement
