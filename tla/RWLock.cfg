SPECIFICATION FairSpec
CONSTANTS
    Threads = {t1, t2}
    NoThread = nobody
    MaxDepth = 3
    AllowUpgrade = TRUE
INVARIANTS
    MutualExclusion
    WriteCountRaceFree
    CrashIsNesting
PROPERTIES
    ImplementsRWLock
    WriterLetsGo
