------------------------------ MODULE WatchTask ------------------------------
(***************************************************************************)
(* The download order of the Android application: the loop of              *)
(* base/torrent/watch/WatchTask.java that downloads both ends of a film,   *)
(* starts the player and then downloads the rest in order, with a short    *)
(* window of deadlines in front of the first missing piece.                *)
(*                                                                         *)
(* The thread of the task runs one iteration per second under the task's   *)
(* lock; seek takes the same lock from another thread, between two         *)
(* iterations.  Pieces arrive at any time: an iteration asks libtorrent    *)
(* several times, and a step below is one such question or request.        *)
(***************************************************************************)
EXTENDS Integers, FiniteSets

CONSTANTS
    NumPieces,          \* pieces of the torrent: 0..NumPieces-1
    FirstPiece,         \* fileBoundary[FIRST_PIECE]
    LastPiece,          \* fileBoundary[LAST_PIECE]
    PrepareCount,       \* result of getPreparePieceCount
    MAX_ACTIVE_COUNT,
    InitialHave,        \* possible sets of pieces already on disk
    MaxSeeks            \* bound on the number of seeks

Pieces == 0 .. NumPieces - 1
FilePieces == FirstPiece .. LastPiece
filePieceCount == LastPiece - FirstPiece + 1

\* getPreparePieceCount throws "Small amount of pieces." for shorter files.
EnoughPieces == 2 * PrepareCount <= filePieceCount

ASSUME BoundaryAssumption ==
    /\ NumPieces \in Nat /\ FirstPiece \in Nat /\ LastPiece \in Nat
    /\ LastPiece < NumPieces
    /\ PrepareCount \in Nat \ {0} /\ MAX_ACTIVE_COUNT \in Nat \ {0}
    /\ EnoughPieces
    /\ MaxSeeks \in Nat

ASSUME HaveAssumption == InitialHave \subseteq SUBSET Pieces

VARIABLES
    have,               \* pieces libtorrent has
    critical,           \* pieces libtorrent holds a deadline for
    filePriorities,     \* pieces whose entry in filePriorities is MAXIMUM
    state,
    pc,                 \* where the task's thread is in an iteration
    count,              \* downloaded pieces counted so far
    currentPiece,
    seekEndPiece,
    prepared,           \* VIDEO_PREPARED was sent: the player runs
    from,               \* where the download in order began
    seeks               \* seeks so far

vars == << have, critical, filePriorities, state, pc, count, currentPiece,
           seekEndPiece, prepared, from, seeks >>

activePieceCount ==
    IF PrepareCount > MAX_ACTIVE_COUNT THEN MAX_ACTIVE_COUNT ELSE PrepareCount

\* currentPieceFromFileEnd
FromFileEnd == LastPiece - PrepareCount + 1

BeginPieces == FirstPiece .. FirstPiece + PrepareCount - 1
EndPieces == FromFileEnd .. LastPiece

-----------------------------------------------------------------------------
(* updateDownload and downloadedPiecesCount *)

AtLeastZero(i) == IF i < 0 THEN 0 ELSE i

\* Missing pieces from begin to the end of the file.
MissingFrom(begin) == {i \in AtLeastZero(begin) .. LastPiece : i \notin have}

\* Faulty: the loop breaks one piece too late.
ActivePiecesOneMore(begin) ==
    {i \in MissingFrom(begin) :
        Cardinality({j \in MissingFrom(begin) : j < i}) <= activePieceCount}

\* The pieces updateDownload looks after: the first activeCount missing ones.
ActivePieces(begin) ==
    {i \in MissingFrom(begin) :
        Cardinality({j \in MissingFrom(begin) : j < i}) < activePieceCount}

\* Faulty: newIndex is assigned in every round, not only in the first.
NextPieceLastActive(begin, next) ==
    IF MissingFrom(begin) = {} THEN next = LastPiece
    ELSE next \in ActivePieces(begin) /\ \A i \in ActivePieces(begin) : next >= i

\* What updateDownload returns: the first missing piece, or the last piece.
NextPiece(begin, next) ==
    IF MissingFrom(begin) = {} THEN next = LastPiece
    ELSE next \in MissingFrom(begin) /\ \A i \in MissingFrom(begin) : next <= i

\* Deadlines go to active pieces that have no MAXIMUM in the array yet.
UpdateDownload(begin, priorities, deadlines) ==
    /\ filePriorities' = priorities \cup ActivePieces(begin)
    /\ critical' = deadlines \cup (ActivePieces(begin) \ priorities)

DownloadedPiecesCount(range) == Cardinality(range \cap have)

-----------------------------------------------------------------------------
\* DOWNLOAD_STARTED was sent: the loop begins.  getFileBoundary has set every
\* entry of the array to NOT_DOWNLOADED.
Init ==
    /\ have \in InitialHave
    /\ critical = {}
    /\ filePriorities = {}
    /\ state = "PREPARING_FOR_WATCH"
    /\ pc = "lock"
    /\ count = 0
    /\ currentPiece = 0
    /\ seekEndPiece = 0
    /\ prepared = FALSE
    /\ from = FirstPiece
    /\ seeks = 0

\* A piece arrives: all pieces of the file have priority MAXIMUM in libtorrent
\* (setFilePriority); a piece in front of it gets a priority with a deadline and
\* keeps one when the deadlines are cleared.
PieceFinished(p) ==
    /\ p \in (FilePieces \cup filePriorities) \ have
    /\ have' = have \cup {p}
    /\ critical' = critical \ {p}
    /\ UNCHANGED << filePriorities, state, pc, count, currentPiece, seekEndPiece,
                    prepared, from, seeks >>

-----------------------------------------------------------------------------
(* PREPARING_FOR_WATCH *)

PrepareEnd ==
    /\ pc = "lock" /\ state = "PREPARING_FOR_WATCH"
    /\ UpdateDownload(FromFileEnd, filePriorities, critical)
    /\ pc' = "countEnd"
    /\ UNCHANGED << have, state, count, currentPiece, seekEndPiece, prepared, from, seeks >>

CountEnd ==
    /\ pc = "countEnd"
    /\ count' = DownloadedPiecesCount(EndPieces)
    /\ pc' = "begin"
    /\ UNCHANGED << have, critical, filePriorities, state, currentPiece, seekEndPiece,
                    prepared, from, seeks >>

PrepareBegin ==
    /\ pc = "begin"
    /\ UpdateDownload(FirstPiece, filePriorities, critical)
    /\ NextPiece(FirstPiece, currentPiece')
    /\ pc' = "countBegin"
    /\ UNCHANGED << have, state, count, seekEndPiece, prepared, from, seeks >>

\* Faulty: one piece may be missing.
IsPreparedOffByOne(n) == n >= 2 * PrepareCount - 1

\* count >= totalPrepareCount
IsPrepared(n) == n >= 2 * PrepareCount

\* The end of the iteration: the player is started if both ends are there.
CountBegin ==
    /\ pc = "countBegin"
    /\ count' = 0
    /\ LET ready == IsPrepared(count + DownloadedPiecesCount(BeginPieces)) IN
       /\ prepared' = ready
       /\ state' = IF ready THEN "SEQUENTIAL_DOWNLOAD" ELSE state
    /\ pc' = "lock"
    /\ UNCHANGED << have, critical, filePriorities, currentPiece, seekEndPiece, from,
                    seeks >>

-----------------------------------------------------------------------------
(* SEQUENTIAL_DOWNLOAD and BUFFERING *)

\* Faulty: waits for a piece behind the last one.
IsLastBeyond(next) == LastPiece < next

IsLast(next) == LastPiece <= next

Sequential ==
    /\ pc = "lock" /\ state = "SEQUENTIAL_DOWNLOAD"
    /\ UpdateDownload(currentPiece, filePriorities, critical)
    /\ \E next \in Pieces :
        /\ NextPiece(currentPiece, next)
        /\ currentPiece' = next
        /\ state' = IF IsLast(next) THEN "FINISHED" ELSE state
    /\ UNCHANGED << have, pc, count, seekEndPiece, prepared, from, seeks >>

IsBuffered(next) == next >= seekEndPiece

Buffering ==
    /\ pc = "lock" /\ state = "BUFFERING"
    /\ UpdateDownload(currentPiece, filePriorities, critical)
    /\ \E next \in Pieces :
        /\ NextPiece(currentPiece, next)
        /\ currentPiece' = next
        /\ state' = IF IsBuffered(next) THEN "SEQUENTIAL_DOWNLOAD" ELSE state
    /\ UNCHANGED << have, pc, count, seekEndPiece, prepared, from, seeks >>

\* An iteration of the loop; after FINISHED the thread ends.
TaskStep ==
    PrepareEnd \/ CountEnd \/ PrepareBegin \/ CountBegin \/ Sequential \/ Buffering

-----------------------------------------------------------------------------
(* seek *)

\* Faulty: the array keeps its entries.
PrioritiesNotCleared == filePriorities

\* clearPiecePriorities leaves piece 0 out.
PrioritiesCleared == filePriorities \ {i \in FilePieces : i > 0}

\* Missing pieces around the position; piece 0 is left out here too.
MissingAround(seekPiece) ==
    {i \in seekPiece - activePieceCount .. seekPiece + activePieceCount :
        i > 0 /\ i < NumPieces /\ i \notin have}

\* seek( delta ) with seekPiece = (int) (delta * filePieceCount), which the
\* code takes for a piece of the torrent.  Only a player that runs can seek.
Seek(seekPiece) ==
    /\ pc = "lock" /\ prepared /\ state # "FINISHED"
    /\ seeks < MaxSeeks
    /\ seeks' = seeks + 1
    /\ seekEndPiece' = seekPiece + activePieceCount
    /\ \E begin \in 0 .. NumPieces :
        /\ \/ /\ begin \in MissingAround(seekPiece)
              /\ \A i \in MissingAround(seekPiece) : begin <= i
              /\ state' = "BUFFERING"
           \/ /\ MissingAround(seekPiece) = {}
              /\ begin = seekPiece
              /\ state' = "SEQUENTIAL_DOWNLOAD"
        /\ UpdateDownload(begin, PrioritiesCleared, {})
        /\ NextPiece(begin, currentPiece')
        /\ from' = begin
    /\ UNCHANGED << have, pc, count, prepared >>

Next ==
    \/ \E p \in Pieces : PieceFinished(p)
    \/ TaskStep
    \/ \E seekPiece \in 0 .. filePieceCount : Seek(seekPiece)

Spec == Init /\ [][Next]_vars

\* The swarm delivers what libtorrent asks for, and the task's thread runs.
FairSpec ==
    /\ Spec
    /\ \A p \in Pieces : WF_vars(PieceFinished(p))
    /\ WF_vars(TaskStep)

-----------------------------------------------------------------------------
(* Properties *)

\* The player is started only when PrepareCount pieces are there at either end
\* of the file: the two counts are taken at different times, added up and
\* compared with one total (WatchTask.java:109-117).
PreparedMeansPlayable ==
    prepared => \A i \in 0 .. PrepareCount - 1 :
                    FirstPiece + i \in have /\ LastPiece - i \in have

\* DOWNLOAD_FINISHED means that everything from the last seek on is there.  The
\* last piece is not looked at again in order: a missing last piece ends the
\* loop as well (WatchTask.java:122, 353-358), so this rests on the preparation.
FinishedMeansDownloaded ==
    state = "FINISHED" => \A i \in from .. LastPiece : i \in have

\* An entry MAXIMUM keeps updateDownload from setting a deadline: a missing
\* piece of the file that has one has a deadline in libtorrent, so that no
\* piece loses its place in the window.  Piece 0 does lose it in a seek (WatchTask.java:393).
FlagHasDeadline ==
    \A p \in (FilePieces \cap filePriorities) \ have :
        p \in critical \/ (p = 0 /\ seeks > 0)

\* While the film plays only the window in front of the first missing piece
\* competes for bandwidth: what was asked for during the preparation or before
\* a seek is gone.
WindowBounded ==
    prepared => /\ critical \subseteq ActivePieces(currentPiece)
                /\ Cardinality(critical) <= activePieceCount

\* The task implements the promise of StreamedFile: however pieces, iterations
\* and seeks interleave, VIDEO_PREPARED is sent once and with both ends there,
\* only a seek moves the position, and FINISHED is final and true.
Film == INSTANCE StreamedFile WITH
    Needed <- BeginPieces \cup EndPieces, First <- FirstPiece, Last <- LastPiece,
    onDisk <- have, playing <- prepared, position <- from,
    complete <- (state = "FINISHED")

StreamsFilm == Film!Spec

\* The film is downloaded whatever the user does: the player starts and the loop
\* ends, after a seek in front of the file too.  Only a seek whose range ends
\* behind the last piece buffers for ever (WatchTask.java:131, 185).
EventuallyFinished ==
    <>[](prepared /\ \/ state = "FINISHED"
                     \/ state = "BUFFERING" /\ seekEndPiece > LastPiece)
=============================================================================
