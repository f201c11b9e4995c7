CONSTANTS
    main = main
    worker = worker
    NoCaller = NoCaller
    Owner = main
    Callers <- MCCallers
    Interrupted <- MCInterrupted
    Asked <- MCAsked
SPECIFICATION FairSpec
INVARIANTS
    TypeOK
    NoResidue
    TransientInsideBorrow
    ReadsVerified
    WorkHasSource
PROPERTIES
    OutputSpec
    ForeignFileKept
    ReleaseNotStarved
    OperationEnds
