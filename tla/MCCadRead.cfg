CONSTANTS
    a = a
    b = b
    Files <- MCFiles
    MaxWrites = 2
    Interruptible = TRUE
SPECIFICATION Spec
INVARIANTS
    TypeOK
    SnapshotHasOneOwner
    DocumentStartsAsLease
    SessionNotLost
PROPERTIES
    SnapshotIsSource
CHECK_DEADLOCK FALSE
