CONSTANTS
    None = None
    Fraction = Fraction
    FrdNone = FrdNone
    FrdNodes = {n1, n2}
    FrdWidth <- MCWidth
    MaxBlocks = 3
    MaxRecords = 2
    DeckNone = DeckNone
    DeckModels <- MCDeckModels
    Identifier <- MCIdentifier
    PerLine = 1
    MaxInpLines = 45
    Cuts = {0, 10}
    Folders <- MCFolders
    RecordLimit = 6
SPECIFICATION Spec
INVARIANTS
    PanelsAgree
    StressesAreOfOneCase
    FrdTablesAreRecords
    DeckSaysItsModel
CHECK_DEADLOCK FALSE
