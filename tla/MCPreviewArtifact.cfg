CONSTANTS
    v = v
    w = w
    Nobody = Nobody
    Stray = Stray
    Writers <- MCWriters
    Interrupted <- MCInterrupted
    MaxTampering = 2
SPECIFICATION Spec
INVARIANTS
    TypeOK
    NoResidue
    MeshesBelongToManifest
PROPERTIES
    OutputSpec
CHECK_DEADLOCK FALSE
