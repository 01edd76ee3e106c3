\* Two goroutines, TTL of one tick, room for every key so that Set never
\* evicts: the only way an entry leaves is Get's TTL Remove.
CONSTANTS
    Threads = {t1, t2}
    Clearers = {}
    Resetters = {}
    Keys = {k1, k2}
    Specs = {s1, s2}
    MaxSize = 2
    TTL = 1
    MetricsEnabled = TRUE
    MaxTime = 2
    CounterCap = 2
    NoEntry = NoEntry
    Miss = Miss
SPECIFICATION Spec
PROPERTIES CacheRefinement
