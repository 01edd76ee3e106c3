\* Two goroutines, TTL of one tick: both find the same entry expired and each
\* counts its own eviction of it.
CONSTANTS
    Threads = {t1, t2}
    Clearers = {}
    Resetters = {}
    Keys = {k1, k2}
    Specs = {s1}
    MaxSize = 2
    TTL = 1
    MetricsEnabled = TRUE
    MaxTime = 2
    CounterCap = 2
    NoEntry = NoEntry
    Miss = Miss
SPECIFICATION Spec
INVARIANTS EvictionCountExact
