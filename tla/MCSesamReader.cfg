CONSTANTS
    None = None
    Fraction = Fraction
    Templates <- MCTemplates
    MaxLines = 5
SPECIFICATION Spec
INVARIANTS
    TypeOK
    StrictHoldsTogether
    OrderDoesNotMatter
    RewritingKeepsModel
CHECK_DEADLOCK FALSE
