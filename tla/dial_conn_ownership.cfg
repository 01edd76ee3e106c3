\* One goroutine, every ClientHello source, a file that may be missing and is rewritten non-atomically.
CONSTANTS
    Callers = {g1}
    MaxCalls = 2
    Configs <- AllSources
    Contents = {cA, cB}
    InitialFiles = {cA, Absent}
    Catalog = {"chrome_modern"}
    AtomicWrites = FALSE
    SameSecondWrites = TRUE
    MaxWrites = 1
    MaxTime = 2
    NoDeadline = NoDeadline
    Torn = Torn
    Absent = Absent
    NoKey = NoKey
    NoSpec = NoSpec
SPECIFICATION Spec
INVARIANTS TypeOK RawConnOwnership
