\* Two goroutines on the JSON file while it is replaced atomically, at most once a second.
CONSTANTS
    Callers = {g1, g2}
    MaxCalls = 2
    Configs <- FileOnly
    Contents = {cA, cB}
    InitialFiles = {cA}
    Catalog = {"chrome_modern"}
    AtomicWrites = TRUE
    SameSecondWrites = FALSE
    MaxWrites = 2
    MaxTime = 3
    NoDeadline = NoDeadline
    Torn = Torn
    Absent = Absent
    NoKey = NoKey
    NoSpec = NoSpec
SPECIFICATION Spec
INVARIANTS FileSpecFresh
