CONSTANTS
    None = None
    Fraction = Fraction
    Templates <- MCTemplates
    MaxLines = 2
SPECIFICATION Spec
INVARIANT RoundTripKeepsElements
CHECK_DEADLOCK FALSE
