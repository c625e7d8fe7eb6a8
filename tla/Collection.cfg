SPECIFICATION Spec
CONSTANTS
    a = a
    b = b
    e1 = e1
    e2 = e2
    Collector = Collector
    None = None
    Keys <- MCKeys
    Deps <- MCDeps
    Executors <- MCExecutors
    OldRuns <- MCOldRuns
    OldCaches <- MCOldCaches
    Plan <- MCPlan
    IncludeUnreadable = FALSE
INVARIANTS
    LiveRunKept
    LiveBoxKept
    CountedGood
PROPERTIES
    ReferencedKept
    NothingTakenBlindly
CHECK_DEADLOCK FALSE
