--------------------------- MODULE TorrentIODevice ---------------------------
(***************************************************************************)
(* gui/TorrentIODevice.cpp: the file the player reads while it is being    *)
(* downloaded.  The demuxer thread calls readData and is held there until  *)
(* the bytes it asks for are there; the player thread (VideoPlayer) opens, *)
(* closes and replaces the device meanwhile; the torrent thread answers    *)
(* checkDownloaded, a blocking call, with Streamerok::isRangeDownloaded.   *)
(***************************************************************************)
EXTENDS Integers

CONSTANTS
    PieceLength,
    FileOffset,     \* of the file in the torrent, in bytes
    FileSize,
    NextFilePieces, \* pieces of the torrent behind the file's last one
    ChunkSizes,     \* sizes the demuxer reads with
    MaxOpens        \* bound on the calls of open

ASSUME FileAssumption ==
    /\ PieceLength \in Nat \ {0}
    /\ FileOffset \in Nat /\ FileSize \in Nat \ {0}
    /\ NextFilePieces \in Nat
    /\ ChunkSizes \subseteq Nat \ {0}
    /\ MaxOpens \in Nat

VARIABLES
    have,           \* pieces on disk
    active,         \* activeTorrent.isValid()
    isOpen,
    opens,          \* calls of open so far
    pos,            \* file.pos()
    mutex,          \* held by readData
    abort,
    readPc,         \* where the demuxer thread is in readData
    maxSize,        \* readData's argument
    opening,        \* the call of open readData runs under
    player          \* close() in the player thread

readVars == << readPc, maxSize, opening >>
vars == << have, active, isOpen, opens, pos, mutex, abort, readVars, player >>

-----------------------------------------------------------------------------
(* Pieces and ranges *)

\* The piece a byte of the file lies in.
PieceOf(byte) == (FileOffset + byte) \div PieceLength

\* map_file( index, 0, size ).piece
fileVeryFirstPiece == FileOffset \div PieceLength

FilePieces == fileVeryFirstPiece .. PieceOf(FileSize - 1)
Pieces == 0 .. PieceOf(FileSize - 1) + NextFilePieces

\* Faulty: the range is taken to end one piece earlier.
IsRangeButLastPiece(begin, end) ==
    /\ FileSize >= begin /\ FileSize >= end
    /\ \A i \in begin \div PieceLength + fileVeryFirstPiece ..
                end \div PieceLength + fileVeryFirstPiece - 1 : i \in have

\* Faulty: asks for the piece after the range as well.
IsRangeOneMore(begin, end) ==
    /\ FileSize >= begin /\ FileSize >= end
    /\ \A i \in begin \div PieceLength + fileVeryFirstPiece ..
                end \div PieceLength + fileVeryFirstPiece + 1 : i \in have

\* Streamerok::isRangeDownloaded.  The byte at end is part of the range, and
\* where the file starts within its first piece is left out of account.
IsRangeDownloaded(begin, end) ==
    /\ FileSize >= begin /\ FileSize >= end
    /\ \A i \in begin \div PieceLength + fileVeryFirstPiece ..
                end \div PieceLength + fileVeryFirstPiece : i \in have

\* What a reader of the bytes begin .. end-1 needs.
RangeOnDisk(begin, end) == \A byte \in begin .. end - 1 : PieceOf(byte) \in have

\* onCheckDownloaded: without an active torrent the answer stays false.
CheckDownloaded(begin, end) == active /\ IsRangeDownloaded(begin, end)

-----------------------------------------------------------------------------
Init ==
    /\ have = {}
    /\ active = TRUE
    /\ isOpen = FALSE
    /\ opens = 0
    /\ pos = 0
    /\ mutex = FALSE
    /\ abort = FALSE
    /\ readPc = "idle"
    /\ maxSize = 0
    /\ opening = 0
    /\ player = "idle"

\* The torrent engine delivers a piece.
PieceFinished(p) ==
    /\ p \notin have
    /\ have' = have \cup {p}
    /\ UNCHANGED << active, isOpen, opens, pos, mutex, abort, readVars, player >>

\* TorrentWrapper::cancel.  torrentLoadCancelled, which would close the
\* device, is not emitted: activeTorrentPreloaded is never set to true.
CancelTorrent ==
    /\ active
    /\ active' = FALSE
    /\ UNCHANGED << have, isOpen, opens, pos, mutex, abort, readVars, player >>

-----------------------------------------------------------------------------
(* The demuxer thread *)

\* Only the place in readData changes.
ReaderMoves(pc) == readPc' = pc /\ UNCHANGED << maxSize, opening >>

Seek(p) ==
    /\ readPc = "idle" /\ isOpen
    /\ p # pos
    /\ pos' = p
    /\ UNCHANGED << have, active, isOpen, opens, mutex, abort, readVars, player >>

\* QIODevice::read -> readData, which returns 0 at once while abort is set.
ReadData(size) ==
    /\ readPc = "idle" /\ isOpen /\ ~abort
    /\ readPc' = "check"
    /\ maxSize' = size
    /\ opening' = opens
    /\ UNCHANGED << have, active, isOpen, opens, pos, mutex, abort, player >>

FirstCheck ==
    /\ readPc = "check"
    /\ ReaderMoves(IF CheckDownloaded(pos, pos + maxSize) THEN "read"
                   ELSE "underrun")
    /\ UNCHANGED << have, active, isOpen, opens, pos, mutex, abort, player >>

\* bufferUnderrun, seekRequest and the mutex.
BufferUnderrun ==
    /\ readPc = "underrun"
    /\ mutex' = TRUE
    /\ ReaderMoves("locked")
    /\ UNCHANGED << have, active, isOpen, opens, pos, abort, player >>

\* The loop's first test: abortWait may have come right after the lock.
EnterLoop ==
    /\ readPc = "locked"
    /\ abort' = FALSE
    /\ mutex' = ~abort
    /\ ReaderMoves(IF abort THEN "idle" ELSE "sleep")
    /\ UNCHANGED << have, active, isOpen, opens, pos, player >>

\* Faulty: the early return keeps the mutex.
WakeUpKeepsMutex ==
    /\ readPc = "sleep"
    /\ ReaderMoves(IF isOpen THEN "recheck" ELSE "idle")
    /\ UNCHANGED << have, active, isOpen, opens, pos, mutex, abort, player >>

\* Faulty: a closed device is not noticed.
WakeUpGoesOn ==
    /\ readPc = "sleep"
    /\ ReaderMoves("recheck")
    /\ UNCHANGED << have, active, isOpen, opens, pos, mutex, abort, player >>

\* After TORRENTIO_BUFFERING_CHECK_INTERVAL_MS: if the device was closed
\* readData returns 0, and abort keeps its value.
WakeUp ==
    /\ readPc = "sleep"
    /\ IF isOpen
       THEN ReaderMoves("recheck") /\ UNCHANGED mutex
       ELSE ReaderMoves("idle") /\ mutex' = FALSE
    /\ UNCHANGED << have, active, isOpen, opens, pos, abort, player >>

\* Faulty: the loop only ends with the download.
RecheckIgnoresAbort ==
    /\ readPc = "recheck"
    /\ IF CheckDownloaded(pos, pos + maxSize)
       THEN mutex' = FALSE /\ ReaderMoves("read")
       ELSE ReaderMoves("sleep") /\ UNCHANGED mutex
    /\ UNCHANGED << have, active, isOpen, opens, pos, abort, player >>

\* The check in the loop and the loop's condition; abort wins.
Recheck ==
    /\ readPc = "recheck"
    /\ LET isDownloaded == CheckDownloaded(pos, pos + maxSize) IN
       \/ /\ abort
          /\ abort' = FALSE
          /\ mutex' = FALSE
          /\ ReaderMoves("idle")
       \/ /\ ~abort /\ isDownloaded
          /\ mutex' = FALSE
          /\ ReaderMoves("read")
          /\ UNCHANGED abort
       \/ /\ ~abort /\ ~isDownloaded
          /\ ReaderMoves("sleep")
          /\ UNCHANGED << mutex, abort >>
    /\ UNCHANGED << have, active, isOpen, opens, pos, player >>

\* file.read: short at the end of the file, and an error on a closed one.
FileRead ==
    /\ readPc = "read"
    /\ pos' = IF ~isOpen THEN pos
              ELSE IF pos + maxSize <= FileSize THEN pos + maxSize
              ELSE FileSize
    /\ ReaderMoves("idle")
    /\ UNCHANGED << have, active, isOpen, opens, mutex, abort, player >>

ReaderStep ==
    FirstCheck \/ BufferUnderrun \/ EnterLoop \/ WakeUp \/ Recheck \/ FileRead

-----------------------------------------------------------------------------
(* The player thread *)

\* abortWait: tryLock fails exactly while readData waits.
AbortAfterWait == abort \/ mutex

\* close(): abortWait, ...
CloseAbort ==
    /\ player = "idle" /\ isOpen
    /\ abort' = AbortAfterWait
    /\ player' = "close"
    /\ UNCHANGED << have, active, isOpen, opens, pos, mutex, readVars >>

\* ... QIODevice::close(), ...
CloseDevice ==
    /\ player = "close"
    /\ isOpen' = FALSE
    /\ player' = "closeFile"
    /\ UNCHANGED << have, active, opens, pos, mutex, abort, readVars >>

\* ... file.close().
CloseFile ==
    /\ player = "closeFile"
    /\ pos' = 0
    /\ player' = "idle"
    /\ UNCHANGED << have, active, isOpen, opens, mutex, abort, readVars >>

CloseStep == CloseDevice \/ CloseFile

\* VideoPlayer::open on a closed device.
Open ==
    /\ player = "idle" /\ ~isOpen
    /\ opens < MaxOpens
    /\ opens' = opens + 1
    /\ isOpen' = TRUE
    /\ UNCHANGED << have, active, pos, mutex, abort, readVars, player >>

\* AVPlayer::stopped -> abortWait
Stopped ==
    /\ player = "idle"
    /\ abort' = AbortAfterWait
    /\ UNCHANGED << have, active, isOpen, opens, pos, mutex, readVars, player >>

\* resetPlayer, once the demuxer thread is gone: a new device.
ResetPlayer ==
    /\ player = "idle" /\ readPc = "idle"
    /\ isOpen' = FALSE
    /\ pos' = 0
    /\ abort' = FALSE
    /\ UNCHANGED << have, active, opens, mutex, readVars, player >>

Next ==
    \/ \E p \in Pieces : PieceFinished(p)
    \/ CancelTorrent
    \/ \E p \in 0 .. FileSize : Seek(p)
    \/ \E size \in ChunkSizes : ReadData(size)
    \/ ReaderStep
    \/ CloseAbort
    \/ CloseStep
    \/ Open
    \/ Stopped
    \/ ResetPlayer

Spec == Init /\ [][Next]_vars

\* Threads keep running; nothing makes the network deliver.
FairSpec == Spec /\ WF_vars(ReaderStep) /\ WF_vars(CloseStep)

-----------------------------------------------------------------------------
(* Properties *)

\* Types; the mutex is held exactly from readData's lock to its return or its
\* read, by which abortWait's tryLock tells a waiting reader from others.
TypeOK ==
    /\ have \subseteq Pieces
    /\ active \in BOOLEAN /\ isOpen \in BOOLEAN /\ abort \in BOOLEAN
    /\ opens \in 0 .. MaxOpens
    /\ pos \in 0 .. FileSize
    /\ readPc \in {"idle", "check", "underrun", "locked", "sleep", "recheck", "read"}
    /\ mutex \in BOOLEAN
    /\ mutex <=> readPc \in {"locked", "sleep", "recheck"}
    /\ maxSize \in ChunkSizes \cup {0}
    /\ opening \in 0 .. opens
    /\ player \in {"idle", "close", "closeFile"}

\* The file starts at a piece of its own, as the only or first file does.
Aligned == FileOffset % PieceLength = 0

\* readData hands out no byte that is not on disk yet, unless the device was
\* closed and opened again between its check and its file.read.
ReadsOnlyDownloaded ==
    (Aligned /\ readPc = "read" /\ isOpen /\ opening = opens) =>
        RangeOnDisk(pos, pos + maxSize)

\* The message at streamerok.cpp:517, "isRangeDownloaded requested range is
\* fully downloaded, return true", wherever the file lies in the torrent.
RangeFullyDownloaded ==
    \A begin \in 0 .. FileSize, end \in 0 .. FileSize :
        IsRangeDownloaded(begin, end) => RangeOnDisk(begin, end)

\* A reader that close() found waiting returns, even if the device is opened
\* again before the reader wakes up and looks at isOpen.
AbortFreesReader == (abort /\ mutex) ~> ~mutex

\* A reader that close() did not find waiting, because it had not locked the
\* mutex yet, leaves all the same and gives the mutex back, unless the device is
\* opened again.
ClosedFreesReader == (mutex /\ ~isOpen) ~> (~mutex \/ isOpen)

\* A read inside the file ends once the swarm has delivered the file, unless
\* the torrent is cancelled under it.
ReadEnds ==
    <>(FilePieces \subseteq have) =>
        ((readPc = "check" /\ pos + maxSize < FileSize) ~>
            (readPc = "idle" \/ ~active))
=============================================================================
