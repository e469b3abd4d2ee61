---------------------------- MODULE MCWatchTask ----------------------------
\* A film behind another file of its torrent; nothing on disk, or the
\* leftovers of an earlier session.
EXTENDS WatchTask

MCInitialHave == {{}, {1, 3}}
=============================================================================
