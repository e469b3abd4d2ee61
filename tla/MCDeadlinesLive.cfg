SPECIFICATION FairSpec
CONSTANTS
    NumPieces = 9
    FileFirstPiece = 4
    FileLastPiece = 8
    MIN_STARTUP_PIECES_START = 1
    MIN_STARTUP_PIECES_END = 1
    PRIORITY_PIECES_COUNT_MIN = 1
    StartFraction = 200
    EndFraction = 400
    InitialHave <- MCInitialHave
    MaxSeeks = 2
PROPERTIES EventuallyDownloaded
CHECK_DEADLOCK FALSE
