SPECIFICATION Spec
CONSTANTS
    a = a
    b = b
    c = c
    Writers <- MCWriters
    MaxAppends = 2
    MaxErrors = 0
    MaxForced = 0
INVARIANTS
    CrashRecoverable
CHECK_DEADLOCK FALSE
