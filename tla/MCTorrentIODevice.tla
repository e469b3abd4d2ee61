------------------------- MODULE MCTorrentIODevice -------------------------
\* A file of two and a half pieces of two bytes, with a piece behind it, read
\* in chunks of one and of two bytes.
EXTENDS TorrentIODevice

MCChunkSizes == {1, 2}
=============================================================================
