---------------------------- MODULE MCDeadlines ----------------------------
\* A file at the end of a torrent that holds other files before it: one piece of
\* them in the safety run, and in the liveness run so many that the file's own
\* pieces 5..7 have priority 0 and arrive only if a deadline is set on them.
EXTENDS Deadlines

\* Nothing on disk, or the leftovers of an earlier session.
MCInitialHave == {{}, {FileFirstPiece, FileFirstPiece + 3}}
=============================================================================
