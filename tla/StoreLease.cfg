SPECIFICATION FairSpec
CONSTANTS
    r1 = r1
    w1 = w1
    w2 = w2
    GC = GC
    Readers <- MCReaders
    Writers <- MCWriters
    Identified <- MCIdentified
    MaxCalls = 2
    MaxFaults = 1
INVARIANTS
    ReadersExcludeWriter
PROPERTIES
    ImplementsBarrier
    ImplementsCrashLocks
    WriterProceeds
    ReaderProceeds
CHECK_DEADLOCK FALSE
