CONSTANTS
    v = v
    w = w
    Nobody = Nobody
    Stray = Stray
    Writers <- MCWriters
    Interrupted <- MCInterrupted
    MaxTampering = 2
SPECIFICATION Spec
INVARIANTS
    CancelledAsSuch
CHECK_DEADLOCK FALSE
