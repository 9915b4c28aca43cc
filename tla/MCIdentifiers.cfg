SPECIFICATION Spec
CONSTANTS
    Piece <- MCPiece
    Start <- MCStart
    MaxPieces = 4
    AfterEnd <- MCAfterEnd
    DefaultServer <- MCDefaultServer
    Limit = 12
    MaxReads = 64
    None = None
CHECK_DEADLOCK FALSE
INVARIANTS
    WellFormedAccepted
    AcceptedIsIdentifier
    AddressesEnd
    UsersHaveOneName
