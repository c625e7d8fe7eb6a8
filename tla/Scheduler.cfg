SPECIFICATION FairSpec
CONSTANTS
    Order <- MCOrder
    Deps <- MCDeps
    Requests <- MCRequests
    Limits <- MCLimits
    Jobs = 3
INVARIANTS
    SlotsConserved
    DependenciesFirst
    LockCoversWork
    WholeReport
PROPERTIES
    FailFastStopsScheduling
    RunEnds
