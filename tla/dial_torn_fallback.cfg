\* One goroutine on the JSON file while os.WriteFile rewrites it, at most once a second.
CONSTANTS
    Callers = {g1}
    MaxCalls = 2
    Configs <- FileOnly
    Contents = {cA, cB}
    InitialFiles = {cA}
    Catalog = {"chrome_modern"}
    AtomicWrites = FALSE
    SameSecondWrites = FALSE
    MaxWrites = 1
    MaxTime = 2
    NoDeadline = NoDeadline
    Torn = Torn
    Absent = Absent
    NoKey = NoKey
    NoSpec = NoSpec
SPECIFICATION Spec
INVARIANTS FileSpecFresh
