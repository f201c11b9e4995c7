CONSTANTS
    t1 = t1
    t2 = t2
    t3 = t3
    NoThread = NoThread
    MaxRuns = 3
    MaxResets = 1
    Threads <- MCThreads
SPECIFICATION FairSpec
INVARIANTS
    BrokenCodeRunsOnce
