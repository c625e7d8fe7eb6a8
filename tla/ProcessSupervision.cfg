SPECIFICATION FairSpec
CONSTANTS
    Readers <- BothPipes
    MaxCancels = 3
INVARIANTS NothingSurvives HonestResult
PROPERTIES CallEnds ImplementsBoundedCall
CHECK_DEADLOCK FALSE
