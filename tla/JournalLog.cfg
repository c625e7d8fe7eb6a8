SPECIFICATION Spec
CONSTANTS
    a = a
    b = b
    c = c
    Writers <- MCWriters
    MaxAppends = 2
    MaxErrors = 1
    MaxForced = 1
SYMMETRY Symmetric
INVARIANTS
    AcknowledgedKept
    NumbersContinue
PROPERTIES
    OnlyUnfinishedBreaks
CHECK_DEADLOCK FALSE
