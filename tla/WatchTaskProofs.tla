--------------------------- MODULE WatchTaskProofs ---------------------------
(***************************************************************************)
(* What VIDEO_PREPARED and DOWNLOAD_FINISHED promise, for files, windows   *)
(* and torrents of any size and any number of seeks.                       *)
(*                                                                         *)
(* The loop ends when the first missing piece is the last one, missing or  *)
(* not.  That the last piece is there nevertheless is due to the           *)
(* preparation, an earlier phase: the invariant carries the result of its  *)
(* two counts (FullRange) through the download in order (InOrder).         *)
(*                                                                         *)
(* The window of deadlines is bounded because a piece that is one of the   *)
(* first missing ones stays one until it arrives (ActiveStays), and        *)
(* because what the preparation asked for at the end of the file has       *)
(* arrived when the player starts (WindowInv).                             *)
(***************************************************************************)
EXTENDS WatchTask, FiniteSetTheorems, TLAPS

USE DEF EnoughPieces

\* The number of downloaded pieces of a range is at most its length.
LEMMA CountBound ==
    ASSUME NEW a \in Int, NEW b \in Int, a <= b
    PROVE  /\ Cardinality((a .. b) \cap have) \in Nat
           /\ Cardinality((a .. b) \cap have) <= b - a + 1
<1>1. IsFiniteSet(a .. b) /\ Cardinality(a .. b) = b - a + 1
  BY FS_Interval
<1>2. (a .. b) \cap have \in SUBSET (a .. b)
  OBVIOUS
<1>3. /\ IsFiniteSet((a .. b) \cap have)
      /\ Cardinality((a .. b) \cap have) <= Cardinality(a .. b)
  BY <1>1, <1>2, FS_Subset
<1>4. Cardinality((a .. b) \cap have) \in Nat
  BY <1>3, FS_CardinalityType
<1> QED BY <1>1, <1>3, <1>4

\* If downloadedPiecesCount reaches the length of a range, all of it is there.
LEMMA FullRange ==
    ASSUME NEW a \in Int, NEW b \in Int, a <= b,
           Cardinality((a .. b) \cap have) >= b - a + 1
    PROVE  \A i \in a .. b : i \in have
<1>1. IsFiniteSet(a .. b) /\ Cardinality(a .. b) = b - a + 1
  BY FS_Interval
<1>2. (a .. b) \cap have \in SUBSET (a .. b)
  OBVIOUS
<1>3. Cardinality((a .. b) \cap have) \in Nat
      /\ Cardinality((a .. b) \cap have) <= b - a + 1
  BY CountBound
<1>4. Cardinality(a .. b) = Cardinality((a .. b) \cap have)
  BY <1>1, <1>3
<1>5. a .. b = (a .. b) \cap have
  BY <1>1, <1>2, <1>4, FS_Subset
<1> QED BY <1>5

\* A count never shrinks: pieces are not lost.
LEMMA CountGrows ==
    ASSUME NEW a \in Int, NEW b \in Int, have \subseteq have'
    PROVE  Cardinality((a .. b) \cap have) <= Cardinality((a .. b) \cap have')
<1>1. IsFiniteSet(a .. b)
  BY FS_Interval
<1>2. (a .. b) \cap have' \in SUBSET (a .. b)
  OBVIOUS
<1>3. IsFiniteSet((a .. b) \cap have')
  BY <1>1, <1>2, FS_Subset
<1>4. (a .. b) \cap have \in SUBSET ((a .. b) \cap have')
  OBVIOUS
<1> QED BY <1>3, <1>4, FS_Subset

\* What updateDownload returns lies in the file's reach, and nothing is missing
\* between where it started and there.
LEMMA NextPieceSound ==
    ASSUME NEW begin \in Nat, NEW next, NextPiece(begin, next)
    PROVE  /\ next \in 0 .. LastPiece
           /\ \A i \in begin .. next - 1 : i \in have
<1> USE BoundaryAssumption
<1>1. CASE MissingFrom(begin) = {}
  <2>1. next = LastPiece
    BY <1>1 DEF NextPiece
  <2>2. \A i \in begin .. LastPiece : i \in have
    BY <1>1 DEF MissingFrom, AtLeastZero
  <2> QED BY <2>1, <2>2
<1>2. CASE MissingFrom(begin) # {}
  <2>1. next \in begin .. LastPiece /\ \A i \in MissingFrom(begin) : next <= i
    BY <1>2 DEF NextPiece, MissingFrom, AtLeastZero
  <2>2. ASSUME NEW i \in begin .. next - 1 PROVE i \in have
    BY <2>1 DEF MissingFrom, AtLeastZero
  <2> QED BY <2>1, <2>2
<1> QED BY <1>1, <1>2

-----------------------------------------------------------------------------
\* The types the argument depends on.
TaskTypes ==
    /\ count \in Nat
    /\ currentPiece \in 0 .. LastPiece
    /\ from \in Nat
    /\ prepared \in BOOLEAN

\* The phases: an iteration of several steps belongs to the preparation, which
\* starts at the beginning of the file and ends with VIDEO_PREPARED.
Phases ==
    /\ prepared <=> state # "PREPARING_FOR_WATCH"
    /\ pc # "lock" => state = "PREPARING_FOR_WATCH"
    /\ ~prepared => from = FirstPiece

\* The count of the file's end, though taken earlier, is not too high.
CountSound ==
    pc \in {"begin", "countBegin"} => count <= Cardinality(EndPieces \cap have)

\* Nothing is missing between the start of the download in order and
\* currentPiece.
InOrder ==
    prepared \/ pc = "countBegin" => \A i \in from .. currentPiece - 1 : i \in have

TaskInv ==
    /\ TaskTypes /\ Phases /\ CountSound /\ InOrder
    /\ PreparedMeansPlayable /\ FinishedMeansDownloaded

\* The task begins with the preparation.
LEMMA TaskInvInit == Init => TaskInv
<1> SUFFICES ASSUME Init PROVE TaskInv
  OBVIOUS
<1>1. TaskTypes
  <2>1. count \in Nat /\ currentPiece \in 0 .. LastPiece /\ from \in Nat
    BY BoundaryAssumption DEF Init
  <2>2. prepared \in BOOLEAN
    BY DEF Init
  <2> QED BY <2>1, <2>2 DEF TaskTypes
<1>2. Phases
  BY DEF Init, Phases
<1>3. CountSound /\ InOrder
  BY DEF Init, CountSound, InOrder
<1>4. PreparedMeansPlayable /\ FinishedMeansDownloaded
  BY DEF Init, PreparedMeansPlayable, FinishedMeansDownloaded
<1> QED BY <1>1, <1>2, <1>3, <1>4 DEF TaskInv

-----------------------------------------------------------------------------
\* Steps in which no piece is lost keep what is known about pieces.
LEMMA PieceFinishedKeeps ==
    ASSUME TaskInv, NEW p \in Pieces, PieceFinished(p)
    PROVE  TaskInv'
<1> USE BoundaryAssumption
<1>1. /\ have \subseteq have'
      /\ UNCHANGED << state, pc, count, currentPiece, prepared, from >>
  BY DEF PieceFinished
<1>2. TaskTypes' /\ Phases'
  BY <1>1 DEF TaskInv, TaskTypes, Phases
<1>3. CountSound'
  <2>1. Cardinality(EndPieces \cap have) <= Cardinality(EndPieces \cap have')
    BY <1>1, CountGrows DEF EndPieces, FromFileEnd
  <2>2. /\ Cardinality(EndPieces \cap have) \in Nat
        /\ Cardinality(EndPieces \cap have') \in Nat
    <3>1. \A S : Cardinality(EndPieces \cap S) \in Nat
      <4> TAKE S
      <4>1. IsFiniteSet(EndPieces)
        BY FS_Interval DEF EndPieces, FromFileEnd
      <4>2. EndPieces \cap S \in SUBSET EndPieces
        OBVIOUS
      <4> QED BY <4>1, <4>2, FS_Subset, FS_CardinalityType
    <3> QED BY <3>1
  <2>3. EndPieces' = EndPieces
    BY DEF EndPieces, FromFileEnd
  <2> QED BY <1>1, <2>1, <2>2, <2>3 DEF TaskInv, TaskTypes, CountSound
<1>4. InOrder' /\ PreparedMeansPlayable' /\ FinishedMeansDownloaded'
  BY <1>1 DEF TaskInv, InOrder, PreparedMeansPlayable, FinishedMeansDownloaded
<1> QED BY <1>2, <1>3, <1>4 DEF TaskInv

\* The preparation: the two counts add up to 2 * PrepareCount only if each is
\* complete.
LEMMA CountBeginKeeps ==
    ASSUME TaskInv, CountBegin
    PROVE  TaskInv'
<1> USE BoundaryAssumption
<1> DEFINE c == DownloadedPiecesCount(BeginPieces)
           e == Cardinality(EndPieces \cap have)
           ready == IsPrepared(count + c)
<1>1. /\ pc = "countBegin" /\ pc' = "lock" /\ count' = 0
      /\ prepared' = ready
      /\ state' = IF ready THEN "SEQUENTIAL_DOWNLOAD" ELSE state
      /\ UNCHANGED << have, currentPiece, from >>
  BY DEF CountBegin
<1>2. state = "PREPARING_FOR_WATCH" /\ from = FirstPiece /\ count \in Nat
  BY <1>1 DEF TaskInv, Phases, TaskTypes
<1>3. ready \in BOOLEAN
  BY DEF IsPrepared
<1>4. c \in Nat /\ c <= PrepareCount
  BY CountBound DEF DownloadedPiecesCount, BeginPieces
<1>5. e \in Nat /\ e <= PrepareCount /\ count <= e
  BY <1>1, CountBound DEF EndPieces, FromFileEnd, TaskInv, CountSound
<1>6. TaskTypes' /\ Phases' /\ CountSound' /\ InOrder'
  <2>1. TaskTypes'
    BY <1>1, <1>3 DEF TaskInv, TaskTypes
  <2>2. Phases'
    BY <1>1, <1>2, <1>3, Zenon DEF Phases
  <2>3. CountSound' /\ InOrder'
    BY <1>1 DEF TaskInv, CountSound, InOrder
  <2> QED BY <2>1, <2>2, <2>3
<1>7. ready => \A i \in 0 .. PrepareCount - 1 :
                  FirstPiece + i \in have /\ LastPiece - i \in have
  <2> SUFFICES ASSUME ready, NEW i \in 0 .. PrepareCount - 1
               PROVE  FirstPiece + i \in have /\ LastPiece - i \in have
    OBVIOUS
  <2>1. c >= PrepareCount /\ e >= PrepareCount
    BY <1>2, <1>4, <1>5 DEF IsPrepared
  <2>2. \A j \in FirstPiece .. FirstPiece + PrepareCount - 1 : j \in have
    <3> DEFINE a == FirstPiece
               b == FirstPiece + PrepareCount - 1
    <3>1. a \in Int /\ b \in Int /\ a <= b /\ b - a + 1 = PrepareCount
      OBVIOUS
    <3>2. Cardinality((a .. b) \cap have) >= b - a + 1
      BY <2>1, <3>1 DEF DownloadedPiecesCount, BeginPieces
    <3> HIDE DEF a, b
    <3>3. \A j \in a .. b : j \in have
      BY <3>1, <3>2, FullRange
    <3> QED BY <3>3 DEF a, b
  <2>3. \A j \in LastPiece - PrepareCount + 1 .. LastPiece : j \in have
    <3> DEFINE a == LastPiece - PrepareCount + 1
               b == LastPiece
    <3>1. a \in Int /\ b \in Int /\ a <= b /\ b - a + 1 = PrepareCount
      OBVIOUS
    <3>2. Cardinality((a .. b) \cap have) >= b - a + 1
      BY <2>1, <3>1 DEF EndPieces, FromFileEnd
    <3> HIDE DEF a, b
    <3>3. \A j \in a .. b : j \in have
      BY <3>1, <3>2, FullRange
    <3> QED BY <3>3 DEF a, b
  <2> QED BY <2>2, <2>3
<1>8. PreparedMeansPlayable'
  BY <1>1, <1>7 DEF PreparedMeansPlayable
<1>9. FinishedMeansDownloaded'
  BY <1>1, <1>2 DEF FinishedMeansDownloaded
<1> QED BY <1>6, <1>8, <1>9 DEF TaskInv

\* The other steps of the preparation.
LEMMA PreparationKeeps ==
    ASSUME TaskInv, PrepareEnd \/ CountEnd \/ PrepareBegin
    PROVE  TaskInv'
<1> USE BoundaryAssumption
<1>1. CASE PrepareEnd
  <2>1. /\ pc = "lock" /\ state = "PREPARING_FOR_WATCH" /\ pc' = "countEnd"
        /\ UNCHANGED << have, state, count, currentPiece, prepared, from >>
    BY <1>1 DEF PrepareEnd
  <2>2. TaskTypes' /\ Phases'
    BY <2>1 DEF TaskInv, TaskTypes, Phases
  <2>3. CountSound' /\ InOrder' /\ PreparedMeansPlayable' /\ FinishedMeansDownloaded'
    BY <2>1 DEF TaskInv, CountSound, InOrder, PreparedMeansPlayable,
                FinishedMeansDownloaded
  <2> QED BY <2>2, <2>3 DEF TaskInv
<1>2. CASE CountEnd
  <2>1. /\ pc = "countEnd" /\ pc' = "begin"
        /\ count' = Cardinality(EndPieces \cap have)
        /\ UNCHANGED << have, state, currentPiece, prepared, from >>
    BY <1>2 DEF CountEnd, DownloadedPiecesCount
  <2>2. count' \in Nat
    BY <2>1, CountBound DEF EndPieces, FromFileEnd
  <2>3. TaskTypes' /\ Phases'
    BY <2>1, <2>2 DEF TaskInv, TaskTypes, Phases
  <2>4. CountSound'
    BY <2>1, <2>2 DEF CountSound, EndPieces, FromFileEnd
  <2>5. InOrder' /\ PreparedMeansPlayable' /\ FinishedMeansDownloaded'
    BY <2>1 DEF TaskInv, InOrder, PreparedMeansPlayable, FinishedMeansDownloaded
  <2> QED BY <2>3, <2>4, <2>5 DEF TaskInv
<1>3. CASE PrepareBegin
  <2>1. /\ pc = "begin" /\ pc' = "countBegin"
        /\ NextPiece(FirstPiece, currentPiece')
        /\ UNCHANGED << have, state, count, prepared, from >>
    BY <1>3 DEF PrepareBegin
  <2>2. state = "PREPARING_FOR_WATCH" /\ from = FirstPiece /\ ~prepared
    BY <2>1 DEF TaskInv, Phases
  <2>3. /\ currentPiece' \in 0 .. LastPiece
        /\ \A i \in FirstPiece .. currentPiece' - 1 : i \in have
    BY <2>1, NextPieceSound
  <2>4. TaskTypes' /\ Phases'
    BY <2>1, <2>3 DEF TaskInv, TaskTypes, Phases
  <2>5. CountSound'
    BY <2>1 DEF TaskInv, CountSound, EndPieces, FromFileEnd
  <2>6. InOrder' /\ PreparedMeansPlayable' /\ FinishedMeansDownloaded'
    BY <2>1, <2>2, <2>3 DEF InOrder, PreparedMeansPlayable, FinishedMeansDownloaded
  <2> QED BY <2>4, <2>5, <2>6 DEF TaskInv
<1> QED BY <1>1, <1>2, <1>3

\* The download in order: only pieces that are there are skipped, and the
\* preparation has brought the last one.
LEMMA InOrderKeeps ==
    ASSUME TaskInv, Sequential \/ Buffering
    PROVE  TaskInv'
<1> USE BoundaryAssumption
<1>1. PICK next \in Pieces :
        /\ NextPiece(currentPiece, next) /\ currentPiece' = next
        /\ state' = "FINISHED" => LastPiece <= next
        /\ state' \in {"FINISHED", "SEQUENTIAL_DOWNLOAD", "BUFFERING"}
  BY DEF Sequential, Buffering, IsLast
<1>2. /\ pc = "lock" /\ state # "PREPARING_FOR_WATCH"
      /\ UNCHANGED << have, pc, count, prepared, from >>
  BY DEF Sequential, Buffering
<1>3. prepared /\ currentPiece \in 0 .. LastPiece /\ from \in Nat
  BY <1>2 DEF TaskInv, Phases, TaskTypes
<1>4. next \in 0 .. LastPiece /\ \A i \in currentPiece .. next - 1 : i \in have
  BY <1>1, <1>3, NextPieceSound
<1>5. \A i \in from .. currentPiece - 1 : i \in have
  BY <1>3 DEF TaskInv, InOrder
<1>6. \A i \in from .. next - 1 : i \in have
  BY <1>3, <1>4, <1>5
<1>7. LastPiece \in have
  <2>1. 0 \in 0 .. PrepareCount - 1
    OBVIOUS
  <2>2. LastPiece - 0 \in have
    BY <1>3, <2>1 DEF TaskInv, PreparedMeansPlayable
  <2> QED BY <2>2
<1>8. TaskTypes'
  BY <1>1, <1>2, <1>4 DEF TaskInv, TaskTypes
<1>9. Phases'
  BY <1>1, <1>2, <1>3, Zenon DEF Phases
<1>10. CountSound' /\ PreparedMeansPlayable'
  BY <1>2 DEF TaskInv, CountSound, PreparedMeansPlayable
<1>11. InOrder'
  BY <1>1, <1>2, <1>6 DEF InOrder
<1>12. FinishedMeansDownloaded'
  <2> SUFFICES ASSUME state' = "FINISHED", NEW i \in from .. LastPiece
               PROVE  i \in have
    BY <1>2 DEF FinishedMeansDownloaded
  <2>1. next = LastPiece
    BY <1>1, <1>4
  <2> QED BY <1>3, <1>6, <1>7, <2>1
<1> QED BY <1>8, <1>9, <1>10, <1>11, <1>12 DEF TaskInv

\* A seek starts the download in order again somewhere else.
LEMMA SeekKeeps ==
    ASSUME TaskInv, NEW seekPiece \in 0 .. filePieceCount, Seek(seekPiece)
    PROVE  TaskInv'
<1> USE BoundaryAssumption
<1>1. PICK begin \in 0 .. NumPieces :
        /\ state' \in {"BUFFERING", "SEQUENTIAL_DOWNLOAD"}
        /\ NextPiece(begin, currentPiece') /\ from' = begin
  BY DEF Seek
<1>2. /\ pc = "lock" /\ prepared
      /\ UNCHANGED << have, pc, count, prepared >>
  BY DEF Seek
<1>3. begin \in Nat
  OBVIOUS
<1>4. currentPiece' \in 0 .. LastPiece /\ \A i \in begin .. currentPiece' - 1 : i \in have
  BY <1>1, <1>3, NextPieceSound
<1>5. TaskTypes'
  BY <1>1, <1>2, <1>3, <1>4 DEF TaskInv, TaskTypes
<1>6. Phases'
  BY <1>1, <1>2, Zenon DEF Phases
<1>7. CountSound' /\ PreparedMeansPlayable'
  BY <1>2 DEF TaskInv, CountSound, PreparedMeansPlayable
<1>8. InOrder' /\ FinishedMeansDownloaded'
  BY <1>1, <1>2, <1>4 DEF InOrder, FinishedMeansDownloaded
<1> QED BY <1>5, <1>6, <1>7, <1>8 DEF TaskInv

\* Every step preserves the invariant.
LEMMA TaskInvNext == TaskInv /\ [Next]_vars => TaskInv'
<1> SUFFICES ASSUME TaskInv, [Next]_vars PROVE TaskInv'
  OBVIOUS
<1>1. CASE \E p \in Pieces : PieceFinished(p)
  BY <1>1, PieceFinishedKeeps
<1>2. CASE TaskStep
  BY <1>2, PreparationKeeps, CountBeginKeeps, InOrderKeeps DEF TaskStep
<1>3. CASE \E seekPiece \in 0 .. filePieceCount : Seek(seekPiece)
  BY <1>3, SeekKeeps
<1>4. CASE UNCHANGED vars
  BY <1>4 DEF vars, TaskInv, TaskTypes, Phases, CountSound, InOrder, EndPieces,
              FromFileEnd, PreparedMeansPlayable, FinishedMeansDownloaded
<1> QED BY <1>1, <1>2, <1>3, <1>4 DEF Next

-----------------------------------------------------------------------------
\* VIDEO_PREPARED is sent only when both ends of the film are on disk.
THEOREM PreparedPlayable == Spec => []PreparedMeansPlayable
<1>1. TaskInv => PreparedMeansPlayable
  BY DEF TaskInv
<1> QED BY TaskInvInit, TaskInvNext, <1>1, PTL DEF Spec

\* DOWNLOAD_FINISHED is sent only when everything from the beginning, or from
\* the last seek, to the end of the film is on disk.
THEOREM FinishedDownloaded == Spec => []FinishedMeansDownloaded
<1>1. TaskInv => FinishedMeansDownloaded
  BY DEF TaskInv
<1> QED BY TaskInvInit, TaskInvNext, <1>1, PTL DEF Spec

-----------------------------------------------------------------------------
\* An entry MAXIMUM and a deadline appear and disappear together, but for
\* piece 0; seeks are counted.
FlagInv == FlagHasDeadline /\ seeks \in Nat

\* updateDownload gives a deadline to whatever it marks.
LEMMA UpdateDownloadKeeps ==
    ASSUME FlagInv, NEW begin, UpdateDownload(begin, filePriorities, critical),
           UNCHANGED << have, seeks >>
    PROVE  FlagInv'
BY DEF FlagInv, FlagHasDeadline, UpdateDownload, FilePieces

\* Every step of the task, a seek and the arrival of a piece keep the two in
\* step.
LEMMA FlagInvNext == FlagInv /\ [Next]_vars => FlagInv'
<1> SUFFICES ASSUME FlagInv, [Next]_vars PROVE FlagInv'
  OBVIOUS
<1>1. ASSUME NEW p \in Pieces, PieceFinished(p) PROVE FlagInv'
  BY <1>1 DEF PieceFinished, FlagInv, FlagHasDeadline, FilePieces
<1>2. CASE PrepareEnd
  BY <1>2, UpdateDownloadKeeps DEF PrepareEnd
<1>3. CASE CountEnd \/ CountBegin
  BY <1>3 DEF CountEnd, CountBegin, FlagInv, FlagHasDeadline, FilePieces
<1>4. CASE PrepareBegin
  BY <1>4, UpdateDownloadKeeps DEF PrepareBegin
<1>5. CASE Sequential
  BY <1>5, UpdateDownloadKeeps DEF Sequential
<1>6. CASE Buffering
  BY <1>6, UpdateDownloadKeeps DEF Buffering
<1>7. ASSUME NEW seekPiece \in 0 .. filePieceCount, Seek(seekPiece) PROVE FlagInv'
  <2>1. PICK begin \in 0 .. NumPieces : UpdateDownload(begin, PrioritiesCleared, {})
    BY <1>7 DEF Seek
  <2>2. seeks' = seeks + 1 /\ have' = have
    BY <1>7 DEF Seek
  <2>3. seeks' \in Nat /\ seeks' > 0
    BY <2>2 DEF FlagInv
  <2>4. ASSUME NEW p \in FilePieces, p \in filePriorities', p \notin have
        PROVE  p \in critical' \/ p = 0
    <3>1. p \in Nat
      BY BoundaryAssumption DEF FilePieces
    <3>2. p \in PrioritiesCleared => p = 0
      BY <3>1 DEF PrioritiesCleared
    <3> QED BY <2>1, <2>4, <3>2 DEF UpdateDownload
  <2> QED BY <2>2, <2>3, <2>4 DEF FlagInv, FlagHasDeadline, FilePieces
<1>8. CASE UNCHANGED vars
  BY <1>8 DEF vars, FlagInv, FlagHasDeadline, FilePieces
<1> QED BY <1>1, <1>2, <1>3, <1>4, <1>5, <1>6, <1>7, <1>8 DEF Next, TaskStep

\* A piece of the film that updateDownload takes for requested does have a
\* deadline, for any sequence of seeks; piece 0 is the exception.
THEOREM FlagsHaveDeadlines == Spec => []FlagHasDeadline
<1>1. Init => FlagInv
  BY DEF Init, FlagInv, FlagHasDeadline
<1>2. FlagInv => FlagHasDeadline
  BY DEF FlagInv
<1> QED BY <1>1, FlagInvNext, <1>2, PTL DEF Spec
-----------------------------------------------------------------------------
(* The task implements StreamedFile *)

\* When the player is told to start, and from then on, the pieces it needs are
\* there.
LEMMA NeededThere == TaskInv /\ prepared => BeginPieces \cup EndPieces \subseteq have
<1> USE BoundaryAssumption
<1> SUFFICES ASSUME TaskInv, prepared, NEW p \in BeginPieces \cup EndPieces
             PROVE  p \in have
  OBVIOUS
<1>1. \A i \in 0 .. PrepareCount - 1 : FirstPiece + i \in have /\ LastPiece - i \in have
  BY DEF TaskInv, PreparedMeansPlayable
<1>2. CASE p \in BeginPieces
  <2>1. p - FirstPiece \in 0 .. PrepareCount - 1 /\ FirstPiece + (p - FirstPiece) = p
    BY <1>2 DEF BeginPieces
  <2> QED BY <1>1, <2>1
<1>3. CASE p \in EndPieces
  <2>1. LastPiece - p \in 0 .. PrepareCount - 1 /\ LastPiece - (LastPiece - p) = p
    BY <1>3 DEF EndPieces, FromFileEnd
  <2> QED BY <1>1, <2>1
<1> QED BY <1>2, <1>3

\* A piece that arrives is a piece that arrives.
LEMMA PieceFinishedArrives ==
    ASSUME NEW p \in Pieces, PieceFinished(p) PROVE Film!Arrive
<1>1. p \in Pieces \ have /\ have' = have \cup {p}
  BY DEF PieceFinished
<1>2. UNCHANGED << prepared, from, state >>
  BY DEF PieceFinished
<1> QED BY <1>1, <1>2 DEF Film!Arrive

\* The preparation stutters until the iteration that starts the player.
LEMMA PreparationPlays ==
    ASSUME TaskInv, TaskInv', PrepareEnd \/ CountEnd \/ PrepareBegin \/ CountBegin
    PROVE  Film!Play \/ UNCHANGED Film!vars
<1>1. CASE PrepareEnd \/ CountEnd \/ PrepareBegin
  <2>1. UNCHANGED << have, prepared, from, state >>
    BY <1>1 DEF PrepareEnd, CountEnd, PrepareBegin
  <2> QED BY <2>1 DEF Film!vars
<1>2. CASE CountBegin
  <2>1. state = "PREPARING_FOR_WATCH" /\ prepared = FALSE
    BY <1>2 DEF CountBegin, TaskInv, Phases, TaskTypes
  <2>2. UNCHANGED << have, from >> /\ prepared' \in BOOLEAN /\ state' # "FINISHED"
    BY <1>2, <2>1 DEF CountBegin, TaskInv, TaskTypes
  <2>3. CASE prepared'
    <3>1. (BeginPieces \cup EndPieces)' = BeginPieces \cup EndPieces
      BY DEF BeginPieces, EndPieces, FromFileEnd
    <3>2. (TaskInv /\ prepared => BeginPieces \cup EndPieces \subseteq have)'
      BY NeededThere, PTL
    <3>3. BeginPieces \cup EndPieces \subseteq have
      BY <2>2, <2>3, <3>1, <3>2
    <3> QED BY <2>1, <2>2, <2>3, <3>3 DEF Film!Play
  <2>4. CASE ~prepared'
    <3>1. prepared' = prepared /\ (state' = "FINISHED") = (state = "FINISHED")
      BY <2>1, <2>2, <2>4
    <3> QED BY <2>2, <3>1 DEF Film!vars
  <2> QED BY <2>3, <2>4
<1> QED BY <1>1, <1>2

\* The download in order stutters until it completes.
LEMMA InOrderCompletes ==
    ASSUME TaskInv, TaskInv', Sequential \/ Buffering
    PROVE  Film!Complete \/ UNCHANGED Film!vars
<1>1. /\ state # "FINISHED" /\ state # "PREPARING_FOR_WATCH"
      /\ UNCHANGED << have, prepared, from >>
  BY DEF Sequential, Buffering
<1>2. prepared
  BY <1>1 DEF TaskInv, Phases
<1>3. CASE state' = "FINISHED"
  <2>1. \A p \in from .. LastPiece : p \in have
    BY <1>1, <1>3 DEF TaskInv, FinishedMeansDownloaded
  <2> QED BY <1>1, <1>2, <1>3, <2>1 DEF Film!Complete
<1>4. CASE state' # "FINISHED"
  BY <1>1, <1>4 DEF Film!vars
<1> QED BY <1>3, <1>4

\* A seek is a seek of a user who sees the film.
LEMMA SeekSeeks ==
    ASSUME NEW seekPiece \in 0 .. filePieceCount, Seek(seekPiece) PROVE Film!Seek
<1>1. /\ prepared /\ state # "FINISHED" /\ state' # "FINISHED"
      /\ UNCHANGED << have, prepared >>
  BY DEF Seek
<1>2. from' \in MissingAround(seekPiece) \/ (from' = seekPiece /\ from' \in 0 .. NumPieces)
  BY DEF Seek
<1>3. from' \in Pieces \cup {LastPiece + 1}
  BY <1>2, BoundaryAssumption DEF MissingAround, Pieces, filePieceCount, activePieceCount
<1> QED BY <1>1, <1>3 DEF Film!Seek

\* The task implements StreamedFile: every step is a step of the promise or
\* changes nothing of it, for films, windows and torrents of any size.
THEOREM TaskStreamsFilm == Spec => StreamsFilm
<1>1. Init => Film!Init
  BY HaveAssumption DEF Init, Film!Init
<1>2. TaskInv /\ TaskInv' /\ [Next]_vars => [Film!Next]_(Film!vars)
  <2> SUFFICES ASSUME TaskInv, TaskInv', [Next]_vars
               PROVE  Film!Next \/ UNCHANGED Film!vars
    OBVIOUS
  <2>1. CASE \E p \in Pieces : PieceFinished(p)
    BY <2>1, PieceFinishedArrives DEF Film!Next
  <2>2. CASE TaskStep
    BY <2>2, PreparationPlays, InOrderCompletes DEF TaskStep, Film!Next
  <2>3. CASE \E seekPiece \in 0 .. filePieceCount : Seek(seekPiece)
    BY <2>3, SeekSeeks DEF Film!Next
  <2>4. CASE UNCHANGED vars
    BY <2>4 DEF vars, Film!vars
  <2> QED BY <2>1, <2>2, <2>3, <2>4 DEF Next
<1> QED BY <1>1, <1>2, TaskInvInit, TaskInvNext, PTL DEF Spec, StreamsFilm, Film!Spec

-----------------------------------------------------------------------------
(* The window of deadlines *)

\* Missing pieces in front of a piece, which updateDownload counts.
Before(begin, i) == {j \in MissingFrom(begin) : j < i}

\* Missing pieces are numbers in a finite range.
LEMMA MissingFinite ==
    ASSUME NEW begin \in Int
    PROVE  /\ IsFiniteSet(AtLeastZero(begin) .. LastPiece)
           /\ \A i \in MissingFrom(begin) : i \in Int
<1>1. AtLeastZero(begin) \in Int /\ LastPiece \in Int
  BY BoundaryAssumption DEF AtLeastZero
<1>2. IsFiniteSet(AtLeastZero(begin) .. LastPiece)
  BY <1>1, FS_Interval
<1>3. \A i \in MissingFrom(begin) : i \in Int
  BY <1>1 DEF MissingFrom
<1> QED BY <1>2, <1>3

\* They are finitely many; of two missing pieces the later has more of them.
LEMMA BeforeGrows ==
    ASSUME NEW begin \in Int
    PROVE  /\ \A i : IsFiniteSet(Before(begin, i)) /\ Cardinality(Before(begin, i)) \in Nat
           /\ \A i, k \in MissingFrom(begin) :
                 i < k => Cardinality(Before(begin, i)) # Cardinality(Before(begin, k))
<1> USE BoundaryAssumption
<1>1. IsFiniteSet(AtLeastZero(begin) .. LastPiece)
  BY MissingFinite
<1>2. ASSUME NEW i
      PROVE  IsFiniteSet(Before(begin, i)) /\ Cardinality(Before(begin, i)) \in Nat
  <2>1. Before(begin, i) \in SUBSET (AtLeastZero(begin) .. LastPiece)
    BY DEF Before, MissingFrom
  <2> QED BY <1>1, <2>1, FS_Subset, FS_CardinalityType
<1>3. ASSUME NEW i \in MissingFrom(begin), NEW k \in MissingFrom(begin), i < k
      PROVE  Cardinality(Before(begin, i)) # Cardinality(Before(begin, k))
  <2>1. i \in Int /\ k \in Int /\ \A j \in MissingFrom(begin) : j \in Int
    BY MissingFinite
  <2>2. Before(begin, i) \in SUBSET Before(begin, k)
    <3>1. ASSUME NEW j \in MissingFrom(begin), j < i PROVE j < k
      BY <1>3, <2>1, <3>1
    <3> QED BY <3>1 DEF Before
  <2>3. i \in Before(begin, k) /\ i \notin Before(begin, i)
    BY <1>3, <2>1 DEF Before
  <2> QED BY <1>2, <2>2, <2>3, FS_Subset
<1> QED BY <1>2, <1>3

\* At most activePieceCount pieces are active: their numbers of missing
\* predecessors are different and below it.
LEMMA ActiveBounded ==
    ASSUME NEW begin \in Int
    PROVE  /\ IsFiniteSet(ActivePieces(begin))
           /\ Cardinality(ActivePieces(begin)) <= activePieceCount
<1> USE BoundaryAssumption
<1> DEFINE A == ActivePieces(begin)
           K == 0 .. activePieceCount - 1
           f == [i \in A |-> Cardinality(Before(begin, i))]
<1>1. activePieceCount \in Nat \ {0}
  BY DEF activePieceCount
<1>2. IsFiniteSet(K) /\ Cardinality(K) = activePieceCount
  BY <1>1, FS_Interval
<1>3. IsFiniteSet(A) /\ Cardinality(A) \in Nat
  <2>1. IsFiniteSet(AtLeastZero(begin) .. LastPiece)
    BY MissingFinite
  <2>2. A \in SUBSET (AtLeastZero(begin) .. LastPiece)
    BY DEF ActivePieces, MissingFrom
  <2> QED BY <2>1, <2>2, FS_Subset, FS_CardinalityType
<1>4. \A i \in A : i \in MissingFrom(begin) /\ Cardinality(Before(begin, i)) < activePieceCount
  BY DEF ActivePieces, Before
<1>5. \A i \in A : Cardinality(Before(begin, i)) \in K
  BY <1>1, <1>4, BeforeGrows
<1>6. f \in [A -> K]
  BY <1>5
<1>7. \A i, k \in A : i # k => f[i] # f[k]
  <2> SUFFICES ASSUME NEW i \in A, NEW k \in A, i # k PROVE f[i] # f[k]
    OBVIOUS
  <2>1. i \in Int /\ k \in Int
    BY <1>4, MissingFinite
  <2>2. i < k \/ k < i
    BY <2>1
  <2> QED BY <1>4, <2>2, BeforeGrows
<1>8. ~(Cardinality(K) < Cardinality(A))
  <2> HIDE DEF A, K, f
  <2> QED BY <1>2, <1>3, <1>6, <1>7, FS_PigeonHole
<1> QED BY <1>1, <1>2, <1>3, <1>8

\* An active piece stays active until it arrives.
LEMMA ActiveStays ==
    ASSUME NEW begin \in Int, have \subseteq have'
    PROVE  \A i \in ActivePieces(begin) \ have' : i \in ActivePieces(begin)'
<1> USE BoundaryAssumption
<1>1. (activePieceCount' = activePieceCount) /\ activePieceCount \in Nat
  BY DEF activePieceCount
<1>2. MissingFrom(begin)' \subseteq MissingFrom(begin)
  BY DEF MissingFrom
<1> SUFFICES ASSUME NEW i \in ActivePieces(begin), i \notin have'
             PROVE  i \in ActivePieces(begin)'
  OBVIOUS
<1> DEFINE B == Before(begin, i)
           C == {j \in MissingFrom(begin)' : j < i}
<1>3. i \in MissingFrom(begin)' /\ Cardinality(B) < activePieceCount
  BY DEF ActivePieces, MissingFrom, Before
<1>4. C \in SUBSET B
  BY <1>2 DEF Before
<1>5. IsFiniteSet(B) /\ Cardinality(B) \in Nat
  BY BeforeGrows
<1>6. IsFiniteSet(C) /\ Cardinality(C) \in Nat /\ Cardinality(C) <= Cardinality(B)
  <2> HIDE DEF B, C
  <2> QED BY <1>4, <1>5, FS_Subset, FS_CardinalityType
<1>7. Cardinality(C) < activePieceCount'
  BY <1>1, <1>3, <1>5, <1>6
<1> QED BY <1>3, <1>7 DEF ActivePieces

\* Looking from the first missing piece on shows the same pieces.
LEMMA SameActive ==
    ASSUME NEW begin \in Nat, NEW next \in 0 .. LastPiece,
           begin <= next, \A i \in begin .. next - 1 : i \in have
    PROVE  ActivePieces(begin) = ActivePieces(next)
<1>1. MissingFrom(begin) = MissingFrom(next)
  BY BoundaryAssumption DEF MissingFrom, AtLeastZero
<1> QED BY <1>1 DEF ActivePieces

\* So does what updateDownload returns, if the last piece is there.
LEMMA SameActiveNext ==
    ASSUME NEW begin \in Nat, NEW next, NextPiece(begin, next), LastPiece \in have
    PROVE  ActivePieces(begin) = ActivePieces(next)
<1> USE BoundaryAssumption
<1>1. CASE MissingFrom(begin) = {}
  <2>1. next = LastPiece
    BY <1>1 DEF NextPiece
  <2>2. MissingFrom(next) = {}
    BY <2>1 DEF MissingFrom, AtLeastZero
  <2> QED BY <1>1, <2>2 DEF ActivePieces
<1>2. CASE MissingFrom(begin) # {}
  <2>1. next \in 0 .. LastPiece /\ \A i \in begin .. next - 1 : i \in have
    BY NextPieceSound
  <2>2. begin <= next
    BY <1>2 DEF NextPiece, MissingFrom, AtLeastZero
  <2> QED BY <2>1, <2>2, SameActive
<1> QED BY <1>1, <1>2

\* Before the player starts, deadlines are for the active pieces at the
\* beginning and for the end of the file; afterwards for the active pieces only.
WindowInv ==
    /\ TaskInv
    /\ ~prepared => critical \subseteq ActivePieces(FirstPiece) \cup (EndPieces \ have)
    /\ pc = "countBegin" => FirstPiece <= currentPiece
    /\ prepared => critical \subseteq ActivePieces(currentPiece)

\* A piece arrives.
LEMMA PieceKeepsWindow ==
    ASSUME WindowInv, NEW p \in Pieces, PieceFinished(p)
    PROVE  WindowInv'
<1> USE BoundaryAssumption
<1>1. /\ have' = have \cup {p} /\ critical' = critical \ {p}
      /\ UNCHANGED << pc, currentPiece, prepared >>
  BY DEF PieceFinished
<1>2. TaskInv'
  BY PieceFinishedKeeps DEF WindowInv
<1>3. currentPiece \in Int
  BY DEF WindowInv, TaskInv, TaskTypes
<1>4. critical' \cap have' = {}
  <2>1. \A i \in critical : i \notin have
    BY DEF WindowInv, ActivePieces, MissingFrom
  <2> QED BY <1>1, <2>1
<1>5. ASSUME ~prepared'
      PROVE  critical' \subseteq ActivePieces(FirstPiece)' \cup (EndPieces' \ have')
  <2>1. critical \subseteq ActivePieces(FirstPiece) \cup (EndPieces \ have)
    BY <1>1, <1>5 DEF WindowInv
  <2>2. \A i \in ActivePieces(FirstPiece) \ have' : i \in ActivePieces(FirstPiece)'
    BY <1>1, ActiveStays
  <2>3. EndPieces' = EndPieces
    BY DEF EndPieces, FromFileEnd
  <2> QED BY <1>1, <1>4, <2>1, <2>2, <2>3
<1>6. ASSUME prepared' PROVE critical' \subseteq ActivePieces(currentPiece)'
  <2>1. critical \subseteq ActivePieces(currentPiece)
    BY <1>1, <1>6 DEF WindowInv
  <2>2. \A i \in ActivePieces(currentPiece) \ have' : i \in ActivePieces(currentPiece)'
    <3> DEFINE b == currentPiece
    <3>1. b \in Int /\ b' = b
      BY <1>1, <1>3
    <3> QED BY <1>1, <3>1, ActiveStays DEF ActivePieces, MissingFrom, AtLeastZero
  <2> QED BY <1>1, <1>4, <2>1, <2>2
<1> QED BY <1>1, <1>2, <1>5, <1>6 DEF WindowInv

\* updateDownload adds active pieces only.
LEMMA UpdateAddsActive ==
    ASSUME NEW begin, NEW priorities, NEW deadlines, UpdateDownload(begin, priorities, deadlines)
    PROVE  critical' \subseteq deadlines \cup ActivePieces(begin)
BY DEF UpdateDownload

\* The preparation asks for pieces at both ends of the file.
LEMMA PreparationKeepsWindow ==
    ASSUME WindowInv, PrepareEnd \/ CountEnd \/ PrepareBegin
    PROVE  WindowInv'
<1> USE BoundaryAssumption
<1>1. TaskInv'
  BY PreparationKeeps DEF WindowInv
<1>2. ~prepared /\ prepared' = prepared /\ have' = have
  BY DEF PrepareEnd, CountEnd, PrepareBegin, WindowInv, TaskInv, Phases
<1>3. critical \subseteq ActivePieces(FirstPiece) \cup (EndPieces \ have)
  BY <1>2 DEF WindowInv
<1>4. critical' \subseteq ActivePieces(FirstPiece) \cup (EndPieces \ have)
  <2>1. CASE PrepareEnd
    <3>1. critical' \subseteq critical \cup ActivePieces(FromFileEnd)
      BY <2>1, UpdateAddsActive DEF PrepareEnd
    <3>2. ActivePieces(FromFileEnd) \subseteq EndPieces \ have
      BY DEF ActivePieces, MissingFrom, AtLeastZero, EndPieces, FromFileEnd, filePieceCount
    <3> QED BY <1>3, <3>1, <3>2
  <2>2. CASE CountEnd
    BY <1>3, <2>2 DEF CountEnd
  <2>3. CASE PrepareBegin
    <3>1. critical' \subseteq critical \cup ActivePieces(FirstPiece)
      BY <2>3, UpdateAddsActive DEF PrepareBegin
    <3> QED BY <1>3, <3>1
  <2> QED BY <2>1, <2>2, <2>3
<1>5. /\ ActivePieces(FirstPiece)' = ActivePieces(FirstPiece)
      /\ EndPieces' = EndPieces
  BY <1>2 DEF ActivePieces, MissingFrom, AtLeastZero, activePieceCount, EndPieces, FromFileEnd
<1>6. pc' = "countBegin" => FirstPiece <= currentPiece'
  <2>1. CASE PrepareBegin
    <3>1. NextPiece(FirstPiece, currentPiece')
      BY <2>1 DEF PrepareBegin
    <3> QED BY <3>1 DEF NextPiece, MissingFrom, AtLeastZero, filePieceCount
  <2>2. CASE PrepareEnd \/ CountEnd
    BY <2>2 DEF PrepareEnd, CountEnd
  <2> QED BY <2>1, <2>2
<1> QED BY <1>1, <1>2, <1>4, <1>5, <1>6 DEF WindowInv

\* When the player starts, the end of the file is there.
LEMMA CountBeginKeepsWindow ==
    ASSUME WindowInv, CountBegin
    PROVE  WindowInv'
<1> USE BoundaryAssumption
<1>1. TaskInv'
  BY CountBeginKeeps DEF WindowInv
<1>2. /\ pc = "countBegin" /\ pc' = "lock"
      /\ UNCHANGED << have, critical, currentPiece, from >>
  BY DEF CountBegin
<1>3. ~prepared /\ from = FirstPiece /\ currentPiece \in 0 .. LastPiece
      /\ FirstPiece <= currentPiece
  BY <1>2 DEF WindowInv, TaskInv, Phases, TaskTypes
<1>4. critical \subseteq ActivePieces(FirstPiece) \cup (EndPieces \ have)
  BY <1>3 DEF WindowInv
<1>5. /\ ActivePieces(FirstPiece)' = ActivePieces(FirstPiece)
      /\ ActivePieces(currentPiece)' = ActivePieces(currentPiece)
      /\ BeginPieces' = BeginPieces /\ EndPieces' = EndPieces
  BY <1>2 DEF ActivePieces, MissingFrom, AtLeastZero, activePieceCount, BeginPieces,
     EndPieces, FromFileEnd
<1>6. ASSUME prepared' PROVE critical \subseteq ActivePieces(currentPiece)
  <2>1. (TaskInv /\ prepared => BeginPieces \cup EndPieces \subseteq have)'
    BY NeededThere, PTL
  <2>2. EndPieces \subseteq have
    BY <1>1, <1>2, <1>5, <1>6, <2>1
  <2>3. \A i \in FirstPiece .. currentPiece - 1 : i \in have
    BY <1>2, <1>3 DEF WindowInv, TaskInv, InOrder
  <2>4. ActivePieces(FirstPiece) = ActivePieces(currentPiece)
    BY <1>3, <2>3, SameActive
  <2> QED BY <1>4, <2>2, <2>4
<1> QED BY <1>1, <1>2, <1>4, <1>5, <1>6 DEF WindowInv

\* In order and after a seek, the window begins with the first missing piece.
LEMMA PlayingKeepsWindow ==
    ASSUME WindowInv,
           \/ Sequential \/ Buffering
           \/ \E seekPiece \in 0 .. filePieceCount : Seek(seekPiece)
    PROVE  WindowInv'
<1> USE BoundaryAssumption
<1>1. TaskInv'
  BY InOrderKeeps, SeekKeeps DEF WindowInv
<1>2. prepared /\ prepared' = prepared /\ have' = have /\ pc = "lock" /\ pc' = pc
  BY DEF Sequential, Buffering, Seek, WindowInv, TaskInv, Phases
<1>3. LastPiece \in have
  <2>1. LastPiece \in EndPieces
    BY DEF EndPieces, FromFileEnd
  <2> QED BY <1>2, <2>1, NeededThere DEF WindowInv
<1>4. PICK begin \in Nat : /\ critical' \subseteq ActivePieces(begin)
                           /\ NextPiece(begin, currentPiece')
  <2>1. CASE Sequential \/ Buffering
    <3>1. currentPiece \in Nat /\ critical \subseteq ActivePieces(currentPiece)
      BY <1>2 DEF WindowInv, TaskInv, TaskTypes
    <3>2. UpdateDownload(currentPiece, filePriorities, critical)
      BY <2>1 DEF Sequential, Buffering
    <3>3. NextPiece(currentPiece, currentPiece')
      BY <2>1 DEF Sequential, Buffering
    <3>4. critical' \subseteq ActivePieces(currentPiece)
      BY <3>1, <3>2, UpdateAddsActive
    <3> QED BY <3>1, <3>3, <3>4
  <2>2. CASE \E seekPiece \in 0 .. filePieceCount : Seek(seekPiece)
    <3>1. PICK begin \in 0 .. NumPieces : /\ UpdateDownload(begin, PrioritiesCleared, {})
                                          /\ NextPiece(begin, currentPiece')
      BY <2>2 DEF Seek
    <3>2. begin \in Nat /\ critical' \subseteq ActivePieces(begin)
      BY <3>1, UpdateAddsActive
    <3> QED BY <3>1, <3>2
  <2> QED BY <2>1, <2>2
<1>5. ActivePieces(begin) = ActivePieces(currentPiece')
  BY <1>3, <1>4, SameActiveNext
<1>6. ActivePieces(currentPiece)' = ActivePieces(currentPiece')
  BY <1>2 DEF ActivePieces, MissingFrom, AtLeastZero, activePieceCount
<1> QED BY <1>1, <1>2, <1>4, <1>5, <1>6 DEF WindowInv

\* While the film plays, deadlines are held for at most activePieceCount
\* pieces, the first missing ones: nothing is left of the preparation or of
\* the place a seek came from.
THEOREM WindowStaysBounded == Spec => []WindowBounded
<1> USE BoundaryAssumption
<1>1. Init => WindowInv
  <2> SUFFICES ASSUME Init PROVE WindowInv
    OBVIOUS
  <2>1. critical = {} /\ prepared = FALSE /\ pc = "lock"
    BY DEF Init
  <2> QED BY <2>1, TaskInvInit DEF WindowInv
<1>2. WindowInv /\ [Next]_vars => WindowInv'
  <2> SUFFICES ASSUME WindowInv, [Next]_vars PROVE WindowInv'
    OBVIOUS
  <2>1. CASE \E p \in Pieces : PieceFinished(p)
    BY <2>1, PieceKeepsWindow
  <2>2. CASE TaskStep
    BY <2>2, PreparationKeepsWindow, CountBeginKeepsWindow, PlayingKeepsWindow DEF TaskStep
  <2>3. CASE \E seekPiece \in 0 .. filePieceCount : Seek(seekPiece)
    BY <2>3, PlayingKeepsWindow
  <2>4. CASE UNCHANGED vars
    <3>1. TaskInv'
      BY <2>4, TaskInvNext DEF WindowInv
    <3> QED BY <2>4, <3>1 DEF vars, WindowInv, ActivePieces, MissingFrom, AtLeastZero,
               activePieceCount, EndPieces, FromFileEnd
  <2> QED BY <2>1, <2>2, <2>3, <2>4 DEF Next
<1>3. WindowInv => WindowBounded
  <2> SUFFICES ASSUME WindowInv, prepared
               PROVE  /\ critical \subseteq ActivePieces(currentPiece)
                      /\ Cardinality(critical) <= activePieceCount
    BY DEF WindowBounded
  <2>1. critical \in SUBSET ActivePieces(currentPiece) /\ currentPiece \in Int
    BY DEF WindowInv, TaskInv, TaskTypes
  <2>2. /\ IsFiniteSet(ActivePieces(currentPiece))
        /\ Cardinality(ActivePieces(currentPiece)) <= activePieceCount
    BY <2>1, ActiveBounded
  <2>3. /\ Cardinality(critical) <= Cardinality(ActivePieces(currentPiece))
        /\ Cardinality(critical) \in Nat
        /\ Cardinality(ActivePieces(currentPiece)) \in Nat
    BY <2>1, <2>2, FS_Subset, FS_CardinalityType
  <2>4. activePieceCount \in Nat
    BY DEF activePieceCount
  <2> QED BY <2>1, <2>2, <2>3, <2>4
<1> QED BY <1>1, <1>2, <1>3, PTL DEF Spec
=============================================================================
