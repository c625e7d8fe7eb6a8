SPECIFICATION Spec
CONSTANTS
    a = a
    b = b
    c = c
    o = o
    Lockers <- MCLockers
    Operators <- MCOperators
    Host <- MCHost
    Identified <- MCIdentified
    MaxTries = 3
    MaxCalls = 1
SYMMETRY Symmetric
INVARIANTS
    Exclusion
    SoleCustodian
    AuditFirst
PROPERTIES
    RemovalJustified
    ImplementsCrashLock
CHECK_DEADLOCK FALSE
