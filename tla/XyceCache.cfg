SPECIFICATION Spec
CONSTANTS
    p1 = p1
    p2 = p2
    Procs <- TwoCalls
    Executions = 2
    MaxOutside = 1
    MaxReplaced = 2
    None = None
SYMMETRY Interchangeable
INVARIANTS ExecutedOnce EvidenceBound AnswersAgree EndedClean
CHECK_DEADLOCK FALSE
