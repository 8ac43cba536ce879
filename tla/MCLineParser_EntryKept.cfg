CONSTANTS
    None = None
    MinHead = 2
    MaxHead = 9
    MinTld = 1
    MaxTld = 2
    MaxLabel = 4
    Piece <- MCPiece
    MaxPieces = 5
SPECIFICATION Spec
INVARIANT
    EntryKept
CHECK_DEADLOCK FALSE
