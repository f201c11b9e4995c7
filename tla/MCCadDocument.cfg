CONSTANTS
    main = main
    w1 = w1
    w2 = w2
    NoThread = NoThread
    MainThread = main
    Threads <- MCThreads
    ReentrantReleasers <- MCReentrant
SPECIFICATION FairSpec
INVARIANTS
    TypeOK
    BorrowedSourceIntact
    NoForgottenSnapshot
    OneLoadOneOutcome
    SessionAffinity
PROPERTIES
    ReleaseReturns
    AccessReturns
    LeaseSpec
