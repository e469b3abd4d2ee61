------------------------------ MODULE Deadlines ------------------------------
(***************************************************************************)
(* Piece deadlines of one streamed file: struct tAux of lib/streamerok.cpp *)
(* together with the part of libtorrent it drives.                         *)
(*                                                                         *)
(* A torrent is added with priority 0 for every file.  tAux gives its own  *)
(* pieces back to libtorrent by setting deadlines: first on the startup    *)
(* pieces (both ends of the file), then on a short window that slides      *)
(* forward from fileFirstPieceForDeadlines.  The window slides only when a *)
(* read_piece_alert arrives, and every alert is the answer to an earlier   *)
(* set_piece_deadline or clear_piece_deadlines: the chain of alerts must   *)
(* never break.                                                            *)
(*                                                                         *)
(* Two threads run tAux::updateDeadlines on the same object without a      *)
(* lock: the alert thread (threadFunction, one alert at a time) and the    *)
(* torrent thread (TorrentWrapper::seek -> seekInFile).  A step below is   *)
(* one call into libtorrent or one access of the shared fields.            *)
(***************************************************************************)
EXTENDS Integers, FiniteSets

CONSTANTS
    NumPieces,                  \* pieces of the torrent: 0..NumPieces-1
    FileFirstPiece,             \* tAux::fileFirstPiece (= fileVeryFirstPiece)
    FileLastPiece,              \* tAux::fileLastPiece
    MIN_STARTUP_PIECES_START,
    MIN_STARTUP_PIECES_END,
    PRIORITY_PIECES_COUNT_MIN,
    StartFraction,              \* 200: one startup piece per 200 at the start
    EndFraction,                \* 400: one per 400 at the end
    InitialHave,                \* possible sets of pieces already on disk
    MaxSeeks                    \* bound on the number of seeks

ASSUME GeometryAssumption ==
    /\ NumPieces \in Nat /\ FileFirstPiece \in Nat /\ FileLastPiece \in Nat
    /\ FileFirstPiece <= FileLastPiece /\ FileLastPiece < NumPieces

ASSUME TuningAssumption ==
    /\ MIN_STARTUP_PIECES_START \in Nat \ {0}
    /\ MIN_STARTUP_PIECES_END \in Nat \ {0}
    /\ PRIORITY_PIECES_COUNT_MIN \in Nat \ {0}
    /\ StartFraction \in Nat \ {0} /\ EndFraction \in Nat \ {0}
    /\ MaxSeeks \in Nat

Pieces == 0 .. NumPieces - 1

ASSUME InitialHaveAssumption == InitialHave \subseteq SUBSET Pieces

VARIABLES
    have,               \* pieces libtorrent has (torrent_handle::have_piece)
    wanted,             \* pieces whose priority is not 0
    critical,           \* m_time_critical_pieces
    alerts,             \* read_piece_alerts owed: being read or in the queue
    piecesDeadlines,    \* indices whose flag in piecesDeadlines is 't'
    fileFirstPieceForDeadlines,
    fileUri,            \* fileUri has been made: the player may open the file
    pc, downloadedPieceIndex, cursor, piecesToSet,  \* per thread
    seeks               \* seeks so far

vars == << have, wanted, critical, alerts, piecesDeadlines,
           fileFirstPieceForDeadlines, fileUri, pc, downloadedPieceIndex,
           cursor, piecesToSet, seeks >>

Threads == {"alert", "torrent"}

-----------------------------------------------------------------------------
(* Geometry computed by the constructor *)

piecesCount == FileLastPiece - FileFirstPiece + 1

CeilDiv(n, d) == (n + d - 1) \div d

AtLeast(low, n) == IF n < low THEN low ELSE n

startupPiecesCountAtStart ==
    AtLeast(MIN_STARTUP_PIECES_START, CeilDiv(piecesCount, StartFraction))

startupPiecesCountAtEnd ==
    AtLeast(MIN_STARTUP_PIECES_END, CeilDiv(piecesCount, EndFraction))

\* The first startup loop stops before the last piece, the second one
\* before the first piece.
StartupBegin ==
    {i \in FileFirstPiece .. FileLastPiece - 1 :
        i < FileFirstPiece + startupPiecesCountAtStart}

StartupEnd ==
    {i \in FileFirstPiece + 1 .. FileLastPiece :
        i > FileLastPiece - startupPiecesCountAtEnd}

Startup == StartupBegin \cup StartupEnd

\* Faulty: waits for one startup piece more than got a deadline.
StartupCompleteOffByOne ==
    (Startup \cup {FileFirstPiece + startupPiecesCountAtStart}) \subseteq have

\* updateDeadlines found neither startupBegin nor startupEnd waiting.
StartupComplete == Startup \subseteq have

\* Faulty: the second loop of canGetUrl stops before the last piece.
CanGetUrlButLast ==
    /\ \A i \in FileFirstPiece .. FileFirstPiece + startupPiecesCountAtStart - 1 :
          i \in have
    /\ \A i \in FileLastPiece - startupPiecesCountAtEnd + 1 .. FileLastPiece - 1 :
          i \in have

\* canGetUrl's loops are bounded by neither end of the file.
CanGetUrl ==
    /\ \A i \in FileFirstPiece .. FileFirstPiece + startupPiecesCountAtStart - 1 :
          i \in have
    /\ \A i \in FileLastPiece - startupPiecesCountAtEnd + 1 .. FileLastPiece :
          i \in have

\* Priority 1 goes to fileFirstPiece <= i < piecesCount: the bound is a
\* count, not an index, so a file that starts late in the torrent keeps
\* priority 0 on its tail.
PrioritizedPieces == {i \in Pieces : FileFirstPiece <= i /\ i < piecesCount}

\* Missing pieces the sliding window is over; the last piece is not in it.
Missing ==
    {i \in Pieces : fileFirstPieceForDeadlines <= i /\ i < FileLastPiece} \ have

-----------------------------------------------------------------------------
\* The object as the constructor leaves it.  A deadline on a piece that is
\* already there is answered at once with an alert.
Init ==
    /\ have \in InitialHave
    /\ wanted = PrioritizedPieces \cup (Startup \ have)
    /\ critical = Startup \ have
    /\ alerts = [p \in Pieces |-> IF p \in Startup \cap have THEN 1 ELSE 0]
    /\ piecesDeadlines = Startup
    /\ fileFirstPieceForDeadlines = FileFirstPiece
    /\ fileUri = FALSE
    /\ pc = [t \in Threads |-> "idle"]
    /\ downloadedPieceIndex = [t \in Threads |-> 0]
    /\ cursor = [t \in Threads |-> 0]
    /\ piecesToSet = [t \in Threads |-> 0]
    /\ seeks = 0

-----------------------------------------------------------------------------
(* libtorrent *)

\* A piece passes its hash check.  remove_time_critical_piece(index, true)
\* drops its deadline and reads it back for the alert.
PieceFinished(p) ==
    /\ p \in wanted \ have
    /\ have' = have \cup {p}
    /\ critical' = critical \ {p}
    /\ alerts' = IF p \in critical THEN [alerts EXCEPT ![p] = @ + 1] ELSE alerts
    /\ UNCHANGED << wanted, piecesDeadlines, fileFirstPieceForDeadlines, fileUri,
                    pc, downloadedPieceIndex, cursor, piecesToSet, seeks >>

-----------------------------------------------------------------------------
(* Entries into updateDeadlines *)

\* handle_alert on a read_piece_alert.  The handler does not look at the
\* alert's error code: a cancelled deadline and a finished piece look alike.
HandleAlert(p) ==
    /\ pc["alert"] = "idle"
    /\ alerts[p] > 0
    /\ alerts' = [alerts EXCEPT ![p] = @ - 1]
    /\ downloadedPieceIndex' = [downloadedPieceIndex EXCEPT !["alert"] = p]
    /\ pc' = [pc EXCEPT !["alert"] = "startup"]
    /\ UNCHANGED << have, wanted, critical, piecesDeadlines,
                    fileFirstPieceForDeadlines, fileUri, cursor, piecesToSet, seeks >>

\* Faulty: the offset is taken as relative to the torrent.
SeekPieceInTorrent(offsetInPieces) == offsetInPieces

\* offset/pieceLength + fileVeryFirstPiece
SeekPiece(offsetInPieces) == offsetInPieces + FileFirstPiece

\* seekInFile, called once the player reads the file.  The offset may equal
\* the file's size, so the target may lie one piece past the last one.
SeekInFile(offsetInPieces) ==
    /\ pc["torrent"] = "idle"
    /\ fileUri
    /\ seeks < MaxSeeks
    /\ seeks' = seeks + 1
    /\ downloadedPieceIndex' = [downloadedPieceIndex EXCEPT !["torrent"] = 0]
    /\ fileFirstPieceForDeadlines' = SeekPiece(offsetInPieces)
    /\ pc' = [pc EXCEPT !["torrent"] = "clear"]
    /\ UNCHANGED << have, wanted, critical, alerts, piecesDeadlines, fileUri,
                    cursor, piecesToSet >>

\* getFileUrl latches the url when the startup pieces are there.
GetFileUrl ==
    /\ ~fileUri
    /\ CanGetUrl
    /\ fileUri' = TRUE
    /\ UNCHANGED << have, wanted, critical, alerts, piecesDeadlines,
                    fileFirstPieceForDeadlines, pc, downloadedPieceIndex, cursor,
                    piecesToSet, seeks >>

-----------------------------------------------------------------------------
(* Steps of updateDeadlines *)

\* clear_piece_deadlines: every pending deadline is answered with a
\* cancelled alert.
ClearPieceDeadlines(t) ==
    /\ pc[t] = "clear"
    /\ critical' = {}
    /\ alerts' = [p \in Pieces |-> IF p \in critical THEN alerts[p] + 1 ELSE alerts[p]]
    /\ pc' = [pc EXCEPT ![t] = "reset"]
    /\ UNCHANGED << have, wanted, piecesDeadlines, fileFirstPieceForDeadlines,
                    fileUri, downloadedPieceIndex, cursor, piecesToSet, seeks >>

ResetFlags(t) ==
    /\ pc[t] = "reset"
    /\ piecesDeadlines' = {}
    /\ pc' = [pc EXCEPT ![t] = "startup"]
    /\ UNCHANGED << have, wanted, critical, alerts, fileFirstPieceForDeadlines,
                    fileUri, downloadedPieceIndex, cursor, piecesToSet, seeks >>

\* Faulty: the flag is only reset for pieces that did arrive.
FlagsAfterAlertIfHave(t) ==
    piecesDeadlines \ ({downloadedPieceIndex[t]} \cap have)

\* piecesDeadlines.at( downloadedPieceIndex ) = 'f'
FlagsAfterAlert(t) == piecesDeadlines \ {downloadedPieceIndex[t]}

\* The two startup loops, the reset of the downloaded piece's flag, and the
\* start of the window loop if no startup piece is missing.
CheckStartup(t) ==
    /\ pc[t] = "startup"
    /\ piecesDeadlines' = FlagsAfterAlert(t)
    /\ downloadedPieceIndex' = [downloadedPieceIndex EXCEPT ![t] = 0]
    /\ IF StartupComplete
       THEN /\ pc' = [pc EXCEPT ![t] = "test"]
            /\ cursor' = [cursor EXCEPT ![t] = fileFirstPieceForDeadlines]
            /\ piecesToSet' = [piecesToSet EXCEPT ![t] = PRIORITY_PIECES_COUNT_MIN]
       ELSE /\ pc' = [pc EXCEPT ![t] = "idle"]
            /\ UNCHANGED << cursor, piecesToSet >>
    /\ UNCHANGED << have, wanted, critical, alerts, fileFirstPieceForDeadlines,
                    fileUri, seeks >>

\* Loop condition and have_piece( i ); the locals die with the call.
TestPiece(t) ==
    /\ pc[t] = "test"
    /\ \/ /\ cursor[t] >= FileLastPiece \/ piecesToSet[t] = 0
          /\ pc' = [pc EXCEPT ![t] = "idle"]
          /\ cursor' = [cursor EXCEPT ![t] = 0]
          /\ piecesToSet' = [piecesToSet EXCEPT ![t] = 0]
       \/ /\ cursor[t] < FileLastPiece /\ piecesToSet[t] > 0
          /\ cursor[t] \in have
          /\ cursor' = [cursor EXCEPT ![t] = @ + 1]
          /\ UNCHANGED << pc, piecesToSet >>
       \/ /\ cursor[t] < FileLastPiece /\ piecesToSet[t] > 0
          /\ cursor[t] \notin have
          /\ pc' = [pc EXCEPT ![t] = "set"]
          /\ UNCHANGED << cursor, piecesToSet >>
    /\ UNCHANGED << have, wanted, critical, alerts, piecesDeadlines,
                    fileFirstPieceForDeadlines, fileUri, downloadedPieceIndex,
                    seeks >>

\* Faulty: flagged pieces are skipped without being counted.
SlotsNotCounted(n) == n

\* A piece that already has a deadline uses up a slot of the window too.
SlotsAfterFlagged(n) == n - 1

\* Flag test and, for an 'f', set_piece_deadline.  The piece may have
\* arrived since have_piece was asked: then libtorrent answers at once.
SetPieceDeadline(t) ==
    /\ pc[t] = "set"
    /\ LET i == cursor[t] IN
       \/ /\ i \in piecesDeadlines
          /\ piecesToSet' = [piecesToSet EXCEPT ![t] = SlotsAfterFlagged(@)]
          /\ cursor' = [cursor EXCEPT ![t] = @ + 1]
          /\ pc' = [pc EXCEPT ![t] = "test"]
          /\ UNCHANGED << wanted, critical, alerts >>
       \/ /\ i \notin piecesDeadlines
          /\ IF i \in have
             THEN /\ alerts' = [alerts EXCEPT ![i] = @ + 1]
                  /\ UNCHANGED << wanted, critical >>
             ELSE /\ critical' = critical \cup {i}
                  /\ wanted' = wanted \cup {i}
                  /\ UNCHANGED alerts
          /\ pc' = [pc EXCEPT ![t] = "mark"]
          /\ UNCHANGED << cursor, piecesToSet >>
    /\ UNCHANGED << have, piecesDeadlines, fileFirstPieceForDeadlines, fileUri,
                    downloadedPieceIndex, seeks >>

\* piecesDeadlines.at( i ) = 't'
MarkPiece(t) ==
    /\ pc[t] = "mark"
    /\ piecesDeadlines' = piecesDeadlines \cup {cursor[t]}
    /\ piecesToSet' = [piecesToSet EXCEPT ![t] = @ - 1]
    /\ cursor' = [cursor EXCEPT ![t] = @ + 1]
    /\ pc' = [pc EXCEPT ![t] = "test"]
    /\ UNCHANGED << have, wanted, critical, alerts, fileFirstPieceForDeadlines,
                    fileUri, downloadedPieceIndex, seeks >>

UpdateDeadlines(t) ==
    \/ ClearPieceDeadlines(t)
    \/ ResetFlags(t)
    \/ CheckStartup(t)
    \/ TestPiece(t)
    \/ SetPieceDeadline(t)
    \/ MarkPiece(t)

Next ==
    \/ \E p \in Pieces : PieceFinished(p)
    \/ \E p \in Pieces : HandleAlert(p)
    \/ \E offset \in 0 .. piecesCount : SeekInFile(offset)
    \/ GetFileUrl
    \/ \E t \in Threads : UpdateDeadlines(t)

Spec == Init /\ [][Next]_vars

\* Every piece with a priority is eventually delivered by the swarm; both
\* threads keep running; the notify thread keeps asking for the url.
Fairness ==
    /\ \A p \in Pieces : WF_vars(PieceFinished(p))
    /\ \A p \in Pieces : WF_vars(HandleAlert(p))
    /\ \A t \in Threads : WF_vars(UpdateDeadlines(t))
    /\ WF_vars(GetFileUrl)

FairSpec == Spec /\ Fairness

-----------------------------------------------------------------------------
(* Properties *)

\* Types; no index leaves the file, so piecesDeadlines.at() never throws
\* although a seek may aim behind the last piece (streamerok.cpp:155-211).
TypeOK ==
    /\ have \subseteq Pieces
    /\ wanted \subseteq Pieces
    /\ critical \subseteq Pieces
    /\ alerts \in [Pieces -> Nat]
    /\ piecesDeadlines \subseteq 0 .. FileLastPiece
    /\ fileFirstPieceForDeadlines \in FileFirstPiece .. FileLastPiece + 1
    /\ fileUri \in BOOLEAN
    /\ pc \in [Threads -> {"idle", "clear", "reset", "startup", "test", "set", "mark"}]
    /\ downloadedPieceIndex \in [Threads -> 0 .. FileLastPiece]
    /\ cursor \in [Threads -> 0 .. FileLastPiece + 1]
    /\ piecesToSet \in [Threads -> 0 .. PRIORITY_PIECES_COUNT_MIN]
    /\ seeks \in 0 .. MaxSeeks

\* A 't' flag on a missing piece is never stale: libtorrent holds a deadline
\* for it, or owes an alert that will reset the flag.  A stale flag would
\* use up a slot of the window for ever (streamerok.cpp:209-210).
FlagHasAnswer ==
    \A p \in piecesDeadlines \ have :
        \/ p \in critical
        \/ alerts[p] > 0
        \/ pc["alert"] = "startup" /\ downloadedPieceIndex["alert"] = p

\* The alert chain never breaks: once the startup pieces are there, as long as
\* the window still misses a piece, some deadline is set, some alert is owed or
\* a thread is inside updateDeadlines.  Nothing else calls updateDeadlines.
ChainAlive ==
    (StartupComplete /\ Missing # {}) =>
        \/ critical \cap Missing # {}
        \/ \E p \in Pieces : alerts[p] > 0
        \/ \E t \in Threads : pc[t] # "idle"

\* While no seek is in progress and startup is over, at most two windows'
\* worth of deadlines compete for bandwidth: the current window and, if the
\* last seek ran into the alert thread's loop, what that loop still set for
\* the old position after clear_piece_deadlines (streamerok.cpp:165, 198-211).
DeadlinesBounded ==
    (StartupComplete /\ pc["torrent"] = "idle") =>
        Cardinality(critical) <= 2 * PRIORITY_PIECES_COUNT_MIN

\* tAux implements the promise of StreamedFile, although canGetUrl asks for
\* other pieces than the constructor does and two threads share its fields: the
\* url is handed out once, with the startup pieces there, and no thread but the
\* one that seeks moves the position.  tAux never declares a download complete.
Film == INSTANCE StreamedFile WITH
    Needed <- Startup, First <- FileFirstPiece, Last <- FileLastPiece,
    onDisk <- have, playing <- fileUri, position <- fileFirstPieceForDeadlines,
    complete <- FALSE

StreamsFilm == Film!Spec

\* The url is handed out, that is the player can start, and from the last seek
\* position on the whole file is downloaded, although most of its tail has
\* priority 0 until a deadline is set on it.
EventuallyDownloaded ==
    <>[](fileUri /\ \A p \in fileFirstPieceForDeadlines .. FileLastPiece : p \in have)
=============================================================================
