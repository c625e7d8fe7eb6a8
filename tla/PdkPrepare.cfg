SPECIFICATION FairSpec
CONSTANTS
    p1 = p1
    p2 = p2
    Preparers <- TwoPreparers
    Assets = 1
    None = None
INVARIANTS EvidenceLast FailedLeavesNothing HonestExtraction
PROPERTIES OthersKept PreparationEnds
CHECK_DEADLOCK FALSE
