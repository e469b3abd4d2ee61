SPECIFICATION Spec
CONSTANTS
    PieceLength = 3
    FileOffset = 5
    FileSize = 5
    NextFilePieces = 1
    ChunkSizes <- MCChunkSizes
    MaxOpens = 1
INVARIANTS RangeFullyDownloaded

CHECK_DEADLOCK FALSE
