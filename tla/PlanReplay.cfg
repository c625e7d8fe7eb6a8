SPECIFICATION PlanSpec
CONSTANTS
    r1 = r1
    r2 = r2
    Runs <- TwoRuns
    None = None
    Files <- Directory
    Unsafe <- Backslashed
    Casefold <- Folded
    Canonical <- Values
    Text <- Read
    Placeholders <- Named
    Manifests <- Submitted
    MaxEvents = 2
    MaxSpot = 4
    Elsewhere <- Twins
INVARIANTS RowsAreThePlans ResumedWorkIsThePlans PlansReplay
CHECK_DEADLOCK FALSE
