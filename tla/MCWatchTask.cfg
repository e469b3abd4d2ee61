SPECIFICATION FairSpec
CONSTANTS
    NumPieces = 8
    FirstPiece = 2
    LastPiece = 7
    PrepareCount = 2
    MAX_ACTIVE_COUNT = 20
    InitialHave <- MCInitialHave
    MaxSeeks = 2
INVARIANTS PreparedMeansPlayable FinishedMeansDownloaded FlagHasDeadline WindowBounded
PROPERTIES EventuallyFinished StreamsFilm
CHECK_DEADLOCK FALSE
