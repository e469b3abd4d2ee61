SPECIFICATION FairSpec
CONSTANTS
    PieceLength = 2
    FileOffset = 2
    FileSize = 5
    NextFilePieces = 1
    ChunkSizes <- MCChunkSizes
    MaxOpens = 2
INVARIANTS TypeOK ReadsOnlyDownloaded
PROPERTIES AbortFreesReader ClosedFreesReader ReadEnds
CHECK_DEADLOCK FALSE
