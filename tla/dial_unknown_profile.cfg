\* One goroutine dialing with profile names only.
CONSTANTS
    Callers = {g1}
    MaxCalls = 1
    Configs <- ProfilesOnly
    Contents = {cA, cB}
    InitialFiles = {cA}
    Catalog = {"chrome_modern"}
    AtomicWrites = TRUE
    SameSecondWrites = FALSE
    MaxWrites = 0
    MaxTime = 0
    NoDeadline = NoDeadline
    Torn = Torn
    Absent = Absent
    NoKey = NoKey
    NoSpec = NoSpec
SPECIFICATION Spec
INVARIANTS UnknownProfileRejected
