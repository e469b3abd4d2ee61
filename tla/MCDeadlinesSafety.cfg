SPECIFICATION Spec
CONSTANTS
    NumPieces = 7
    FileFirstPiece = 1
    FileLastPiece = 6
    MIN_STARTUP_PIECES_START = 1
    MIN_STARTUP_PIECES_END = 1
    PRIORITY_PIECES_COUNT_MIN = 1
    StartFraction = 200
    EndFraction = 400
    InitialHave <- MCInitialHave
    MaxSeeks = 2
INVARIANTS TypeOK FlagHasAnswer ChainAlive DeadlinesBounded
PROPERTIES StreamsFilm
CHECK_DEADLOCK FALSE
