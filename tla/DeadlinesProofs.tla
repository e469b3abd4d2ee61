--------------------------- MODULE DeadlinesProofs ---------------------------
(***************************************************************************)
(* Proofs about Deadlines, for every file geometry and any tuning.         *)
(***************************************************************************)
EXTENDS Deadlines, FiniteSetTheorems, TLAPS

LEMMA GeometryFacts ==
    /\ piecesCount \in Nat \ {0}
    /\ Startup \subseteq FileFirstPiece .. FileLastPiece
    /\ Startup \subseteq 0 .. FileLastPiece
    /\ \A i \in Int : i \in 0 .. FileLastPiece => i \in Pieces
    /\ Startup \subseteq Pieces
    /\ PrioritizedPieces \subseteq Pieces
<1>1. piecesCount \in Nat \ {0}
  BY GeometryAssumption DEF piecesCount
<1>2. Startup \subseteq FileFirstPiece .. FileLastPiece
  BY GeometryAssumption DEF Startup, StartupBegin, StartupEnd
<1>3. \A i \in Int : i \in 0 .. FileLastPiece => i \in Pieces
  BY GeometryAssumption DEF Pieces
<1>4. Startup \subseteq 0 .. FileLastPiece
  BY <1>2, GeometryAssumption
<1>5. Startup \subseteq Pieces
  BY <1>3, <1>4
<1>6. PrioritizedPieces \subseteq Pieces
  BY DEF PrioritizedPieces
<1> QED
  BY <1>1, <1>2, <1>3, <1>4, <1>5, <1>6

LEMMA AddInSet ==
    ASSUME NEW U, NEW S, S \subseteq U, NEW c, c \in U
    PROVE  S \cup {c} \subseteq U
OBVIOUS

\* An alert is only ever owed for a piece of the file, so that
\* piecesDeadlines.at( downloadedPieceIndex ) never throws.
AlertsInFile ==
    /\ critical \subseteq 0 .. FileLastPiece
    /\ \A p \in Pieces : alerts[p] > 0 => p <= FileLastPiece

\* A thread that is about to set or mark a piece has a slot left and its
\* cursor is before the last piece.
LoopOK ==
    \A t \in Threads :
        pc[t] \in {"set", "mark"} => cursor[t] < FileLastPiece /\ piecesToSet[t] > 0

TypeInv == TypeOK /\ AlertsInFile /\ LoopOK

LEMMA InitTypeInv == Init => TypeInv
<1> SUFFICES ASSUME Init PROVE TypeInv
  OBVIOUS
<1>1. have \subseteq Pieces
  BY InitialHaveAssumption DEF Init
<1>2. wanted \subseteq Pieces /\ critical \subseteq Pieces
  BY GeometryFacts DEF Init
<1>3. alerts \in [Pieces -> Nat]
  BY DEF Init
<1>4. piecesDeadlines \subseteq 0 .. FileLastPiece
  BY GeometryFacts DEF Init
<1>5. TypeOK
  <2>0. fileUri \in BOOLEAN
    BY DEF Init
  <2>1. /\ fileFirstPieceForDeadlines \in FileFirstPiece .. FileLastPiece + 1
        /\ seeks \in 0 .. MaxSeeks
    BY GeometryAssumption, TuningAssumption DEF Init
  <2>2. /\ pc \in [Threads -> {"idle", "clear", "reset", "startup", "test", "set", "mark"}]
        /\ downloadedPieceIndex \in [Threads -> 0 .. FileLastPiece]
        /\ cursor \in [Threads -> 0 .. FileLastPiece + 1]
        /\ piecesToSet \in [Threads -> 0 .. PRIORITY_PIECES_COUNT_MIN]
    BY GeometryAssumption, TuningAssumption DEF Init
  <2> QED
    BY <1>1, <1>2, <1>3, <1>4, <2>0, <2>1, <2>2 DEF TypeOK
<1>6. AlertsInFile
  <2>1. critical \subseteq 0 .. FileLastPiece
    BY GeometryFacts DEF Init
  <2>2. ASSUME NEW p \in Pieces, alerts[p] > 0 PROVE p <= FileLastPiece
    <3>1. p \in Startup
      BY <2>2 DEF Init
    <3> QED
      BY <3>1, GeometryFacts
  <2> QED
    BY <2>1, <2>2 DEF AlertsInFile
<1>7. LoopOK
  BY DEF Init, LoopOK
<1> QED
  BY <1>5, <1>6, <1>7 DEF TypeInv

LEMMA PiecesFacts == \A p : p \in Pieces <=> p \in Nat /\ p < NumPieces
BY GeometryAssumption DEF Pieces

LEMMA NextTypeInv == TypeInv /\ [Next]_vars => TypeInv'
<1> SUFFICES ASSUME TypeOK, AlertsInFile, LoopOK, [Next]_vars PROVE TypeInv'
  BY DEF TypeInv
<1> USE GeometryAssumption, TuningAssumption
<1>1. ASSUME NEW p \in Pieces, PieceFinished(p) PROVE TypeInv'
  <2>1. TypeOK'
    BY <1>1, PiecesFacts DEF PieceFinished, TypeOK, AlertsInFile, LoopOK
  <2>2. AlertsInFile'
    BY <1>1, PiecesFacts DEF PieceFinished, TypeOK, AlertsInFile, LoopOK
  <2>3. LoopOK'
    BY <1>1 DEF PieceFinished, TypeOK, LoopOK
  <2> QED
    BY <2>1, <2>2, <2>3 DEF TypeInv
<1>2. ASSUME NEW p \in Pieces, HandleAlert(p) PROVE TypeInv'
  <2>1. TypeOK'
    BY <1>2, PiecesFacts DEF Threads, HandleAlert, TypeOK, AlertsInFile, LoopOK
  <2>2. AlertsInFile'
    BY <1>2, PiecesFacts DEF Threads, HandleAlert, TypeOK, AlertsInFile, LoopOK
  <2>3. LoopOK'
    BY <1>2 DEF Threads, HandleAlert, TypeOK, LoopOK
  <2> QED
    BY <2>1, <2>2, <2>3 DEF TypeInv
<1>3. ASSUME NEW offset \in 0 .. piecesCount, SeekInFile(offset) PROVE TypeInv'
  BY <1>3 DEF Threads, SeekInFile, SeekPiece, piecesCount, TypeInv, TypeOK, AlertsInFile, LoopOK
<1>4. CASE GetFileUrl
  BY <1>4 DEF GetFileUrl, TypeInv, TypeOK, AlertsInFile, LoopOK
<1>5. ASSUME NEW t \in Threads, ClearPieceDeadlines(t) PROVE TypeInv'
  <2>1. TypeOK'
    BY <1>5, PiecesFacts DEF ClearPieceDeadlines, TypeOK, AlertsInFile, LoopOK
  <2>2. AlertsInFile'
    BY <1>5, PiecesFacts DEF ClearPieceDeadlines, TypeOK, AlertsInFile, LoopOK
  <2>3. LoopOK'
    BY <1>5 DEF ClearPieceDeadlines, TypeOK, LoopOK
  <2> QED
    BY <2>1, <2>2, <2>3 DEF TypeInv
<1>6. ASSUME NEW t \in Threads, ResetFlags(t) PROVE TypeInv'
  BY <1>6 DEF ResetFlags, TypeInv, TypeOK, AlertsInFile, LoopOK
<1>7. ASSUME NEW t \in Threads, CheckStartup(t) PROVE TypeInv'
  <2>1. TypeOK'
    <3>1. piecesDeadlines' \subseteq 0 .. FileLastPiece
      <4>1. piecesDeadlines' \subseteq piecesDeadlines
        BY <1>7 DEF CheckStartup, FlagsAfterAlert
      <4> QED
        BY <4>1 DEF TypeOK
    <3>2. CASE StartupComplete
      BY <1>7, <3>1, <3>2 DEF CheckStartup, TypeOK
    <3>3. CASE ~StartupComplete
      BY <1>7, <3>1, <3>3 DEF CheckStartup, TypeOK
    <3> QED
      BY <3>2, <3>3
  <2>2. AlertsInFile'
    BY <1>7, PiecesFacts DEF CheckStartup, FlagsAfterAlert, TypeOK, AlertsInFile, LoopOK
  <2>3. LoopOK'
    BY <1>7 DEF CheckStartup, FlagsAfterAlert, TypeOK, LoopOK
  <2> QED
    BY <2>1, <2>2, <2>3 DEF TypeInv
<1>8. ASSUME NEW t \in Threads, TestPiece(t) PROVE TypeInv'
  BY <1>8 DEF TestPiece, TypeInv, TypeOK, AlertsInFile, LoopOK
<1>9. ASSUME NEW t \in Threads, SetPieceDeadline(t) PROVE TypeInv'
  <2>0. /\ cursor[t] \in 0 .. FileLastPiece - 1 /\ cursor[t] \in Pieces
        /\ piecesToSet[t] \in 1 .. PRIORITY_PIECES_COUNT_MIN
    BY <1>9, PiecesFacts DEF SetPieceDeadline, TypeOK, LoopOK
  <2>1. CASE cursor[t] \in piecesDeadlines
    <3>1. TypeOK'
      BY <1>9, <2>0, <2>1 DEF SetPieceDeadline, SlotsAfterFlagged, TypeOK
    <3>2. AlertsInFile' /\ LoopOK'
      BY <1>9, <2>0, <2>1 DEF SetPieceDeadline, TypeOK, AlertsInFile, LoopOK
    <3> QED
      BY <3>1, <3>2 DEF TypeInv
  <2>2. CASE cursor[t] \notin piecesDeadlines /\ cursor[t] \in have
    <3>1. TypeOK'
      BY <1>9, <2>0, <2>2 DEF SetPieceDeadline, TypeOK
    <3>2. alerts' = [alerts EXCEPT ![cursor[t]] = @ + 1] /\ critical' = critical
      BY <1>9, <2>2 DEF SetPieceDeadline
    <3>3. AlertsInFile'
      BY <2>0, <3>2 DEF TypeOK, AlertsInFile
    <3>4. LoopOK'
      BY <1>9, <2>0, <2>2 DEF SetPieceDeadline, TypeOK, LoopOK
    <3> QED
      BY <3>1, <3>3, <3>4 DEF TypeInv
  <2>3. CASE cursor[t] \notin piecesDeadlines /\ cursor[t] \notin have
    <3>1. critical' = critical \cup {cursor[t]} /\ wanted' = wanted \cup {cursor[t]}
      BY <1>9, <2>3 DEF SetPieceDeadline
    <3>2. critical' \subseteq Pieces /\ wanted' \subseteq Pieces
      BY <2>0, <3>1, AddInSet DEF TypeOK
    <3>3. critical' \subseteq 0 .. FileLastPiece
      <4>1. cursor[t] \in 0 .. FileLastPiece
        BY <2>0
      <4> QED
        BY <3>1, <4>1, AddInSet DEF AlertsInFile
    <3>4. TypeOK'
      BY <1>9, <2>3, <3>2 DEF SetPieceDeadline, TypeOK
    <3>5. AlertsInFile' /\ LoopOK'
      BY <1>9, <2>0, <2>3, <3>3 DEF SetPieceDeadline, TypeOK, AlertsInFile, LoopOK
    <3> QED
      BY <3>4, <3>5 DEF TypeInv
  <2> QED
    BY <2>1, <2>2, <2>3
<1>10. ASSUME NEW t \in Threads, MarkPiece(t) PROVE TypeInv'
  <2>1. cursor[t] \in 0 .. FileLastPiece - 1 /\ piecesToSet[t] \in 1 .. PRIORITY_PIECES_COUNT_MIN
    BY <1>10 DEF MarkPiece, TypeOK, LoopOK
  <2>2. piecesDeadlines' \subseteq 0 .. FileLastPiece
    <3>1. piecesDeadlines' = piecesDeadlines \cup {cursor[t]}
      BY <1>10 DEF MarkPiece
    <3>2. piecesDeadlines \subseteq 0 .. FileLastPiece
      BY DEF TypeOK
    <3>3. cursor[t] \in 0 .. FileLastPiece
      BY <2>1
    <3>4. piecesDeadlines \cup {cursor[t]} \subseteq 0 .. FileLastPiece
      BY <3>2, <3>3, AddInSet
    <3> QED
      BY <3>1, <3>4
  <2>3. TypeOK'
    BY <1>10, <2>1, <2>2 DEF MarkPiece, TypeOK
  <2>4. AlertsInFile' /\ LoopOK'
    BY <1>10, <2>1 DEF MarkPiece, TypeOK, AlertsInFile, LoopOK
  <2> QED
    BY <2>3, <2>4 DEF TypeInv
<1>11. CASE UNCHANGED vars
  BY <1>11 DEF vars, TypeInv, TypeOK, AlertsInFile, LoopOK
<1> QED
  BY <1>1, <1>2, <1>3, <1>4, <1>5, <1>6, <1>7, <1>8, <1>9, <1>10, <1>11
  DEF Next, UpdateDeadlines

\* Whatever the file's place in the torrent and whatever the tuning
\* constants, every index the two threads use stays in range.
THEOREM TypeCorrect == Spec => []TypeOK
<1>1. Init => TypeInv
  BY InitTypeInv
<1>2. TypeInv /\ [Next]_vars => TypeInv'
  BY NextTypeInv
<1>3. TypeInv => TypeOK
  BY DEF TypeInv
<1> QED
  BY <1>1, <1>2, <1>3, PTL DEF Spec

-----------------------------------------------------------------------------
\* Only the torrent thread seeks: the shared needSeekToThisPiece is -1
\* whenever the alert thread enters updateDeadlines.
AlertNeverSeeks == pc["alert"] \notin {"clear", "reset"}

\* Between set_piece_deadline and the write of the flag the answer may
\* already be on its way: the piece arrived, or a seek cancelled the deadline
\* the alert thread had just set.
MarkHasAnswer ==
    \A t \in Threads : pc[t] = "mark" =>
        \/ cursor[t] \in have
        \/ cursor[t] \in critical
        \/ t = "alert" /\ alerts[cursor[t]] > 0

FlagInv == FlagHasAnswer /\ MarkHasAnswer /\ AlertNeverSeeks

LEMMA InitFlagInv == Init => FlagInv
<1> SUFFICES ASSUME Init PROVE FlagInv
  OBVIOUS
<1>1. FlagHasAnswer
  BY DEF Init, FlagHasAnswer
<1>2. MarkHasAnswer /\ AlertNeverSeeks
  BY DEF Init, MarkHasAnswer, AlertNeverSeeks, Threads
<1> QED
  BY <1>1, <1>2 DEF FlagInv

LEMMA NextFlagInv == TypeInv /\ FlagInv /\ [Next]_vars => FlagInv'
<1> SUFFICES ASSUME TypeInv, FlagInv, [Next]_vars PROVE FlagInv'
  OBVIOUS
<1>t. /\ TypeOK /\ LoopOK /\ \A t \in Threads : pc[t] \in {"set", "mark"} => cursor[t] \in Pieces
  BY PiecesFacts, GeometryAssumption DEF TypeInv, TypeOK, LoopOK
<1>f. FlagHasAnswer /\ MarkHasAnswer /\ AlertNeverSeeks
  BY DEF FlagInv
<1>p. \A p \in 0 .. FileLastPiece : p \in Pieces
  BY GeometryFacts
<1>s. "alert" \in Threads /\ "torrent" \in Threads
  BY DEF Threads
<1>1. ASSUME NEW p \in Pieces, PieceFinished(p) PROVE FlagInv'
  <2>1. FlagHasAnswer'
    BY <1>1, <1>t, <1>f, <1>p DEF PieceFinished, FlagHasAnswer, TypeOK
  <2>2. MarkHasAnswer'
    BY <1>1, <1>t, <1>f DEF PieceFinished, MarkHasAnswer, TypeOK
  <2>3. AlertNeverSeeks'
    BY <1>1, <1>f DEF PieceFinished, AlertNeverSeeks
  <2> QED
    BY <2>1, <2>2, <2>3 DEF FlagInv
<1>2. ASSUME NEW p \in Pieces, HandleAlert(p) PROVE FlagInv'
  <2>1. FlagHasAnswer'
    BY <1>2, <1>t, <1>f, <1>p, <1>s DEF HandleAlert, FlagHasAnswer, TypeOK
  <2>2. MarkHasAnswer'
    BY <1>2, <1>t, <1>f, <1>s DEF HandleAlert, MarkHasAnswer, TypeOK, Threads
  <2>3. AlertNeverSeeks'
    BY <1>2, <1>t, <1>s DEF HandleAlert, AlertNeverSeeks, TypeOK
  <2> QED
    BY <2>1, <2>2, <2>3 DEF FlagInv
<1>3. ASSUME NEW offset \in 0 .. piecesCount, SeekInFile(offset) PROVE FlagInv'
  BY <1>3, <1>t, <1>f
  DEF SeekInFile, FlagInv, FlagHasAnswer, MarkHasAnswer, AlertNeverSeeks, TypeOK, Threads
<1>4. CASE GetFileUrl
  BY <1>4, <1>f DEF GetFileUrl, FlagInv, FlagHasAnswer, MarkHasAnswer, AlertNeverSeeks
<1>5. ASSUME NEW t \in Threads, ClearPieceDeadlines(t) PROVE FlagInv'
  <2>0. t = "torrent"
    BY <1>5, <1>f DEF ClearPieceDeadlines, AlertNeverSeeks, Threads
  <2>1. FlagHasAnswer'
    BY <1>5, <1>t, <1>f, <1>p, <2>0 DEF ClearPieceDeadlines, FlagHasAnswer, TypeOK
  <2>2. MarkHasAnswer'
    BY <1>5, <1>t, <1>f, <2>0 DEF ClearPieceDeadlines, MarkHasAnswer, TypeOK, Threads
  <2>3. AlertNeverSeeks'
    BY <1>5, <1>t, <1>f, <2>0, <1>s DEF ClearPieceDeadlines, AlertNeverSeeks, TypeOK
  <2> QED
    BY <2>1, <2>2, <2>3 DEF FlagInv
<1>6. ASSUME NEW t \in Threads, ResetFlags(t) PROVE FlagInv'
  BY <1>6, <1>t, <1>f
  DEF ResetFlags, FlagInv, FlagHasAnswer, MarkHasAnswer, AlertNeverSeeks, TypeOK, Threads
<1>7. ASSUME NEW t \in Threads, CheckStartup(t) PROVE FlagInv'
  <2>1. FlagHasAnswer'
    BY <1>7, <1>t, <1>f DEF CheckStartup, FlagsAfterAlert, FlagHasAnswer, TypeOK, Threads
  <2>2. MarkHasAnswer' /\ AlertNeverSeeks'
    BY <1>7, <1>t, <1>f DEF CheckStartup, MarkHasAnswer, AlertNeverSeeks, TypeOK, Threads
  <2> QED
    BY <2>1, <2>2 DEF FlagInv
<1>8. ASSUME NEW t \in Threads, TestPiece(t) PROVE FlagInv'
  BY <1>8, <1>t, <1>f
  DEF TestPiece, FlagInv, FlagHasAnswer, MarkHasAnswer, AlertNeverSeeks, TypeOK, Threads
<1>9. ASSUME NEW t \in Threads, SetPieceDeadline(t) PROVE FlagInv'
  <2>1. FlagHasAnswer'
    BY <1>9, <1>t, <1>f, <1>p DEF SetPieceDeadline, FlagHasAnswer, TypeOK, Threads
  <2>2. MarkHasAnswer'
    BY <1>9, <1>t, <1>f DEF SetPieceDeadline, MarkHasAnswer, TypeOK, Threads
  <2>3. AlertNeverSeeks'
    BY <1>9, <1>t, <1>f DEF SetPieceDeadline, AlertNeverSeeks, TypeOK, Threads
  <2> QED
    BY <2>1, <2>2, <2>3 DEF FlagInv
<1>10. ASSUME NEW t \in Threads, MarkPiece(t) PROVE FlagInv'
  <2>1. FlagHasAnswer'
    BY <1>10, <1>t, <1>f DEF MarkPiece, FlagHasAnswer, MarkHasAnswer, TypeOK, Threads
  <2>2. MarkHasAnswer' /\ AlertNeverSeeks'
    BY <1>10, <1>t, <1>f DEF MarkPiece, MarkHasAnswer, AlertNeverSeeks, TypeOK, Threads
  <2> QED
    BY <2>1, <2>2 DEF FlagInv
<1>11. CASE UNCHANGED vars
  BY <1>11, <1>f DEF vars, FlagInv, FlagHasAnswer, MarkHasAnswer, AlertNeverSeeks
<1> QED
  BY <1>1, <1>2, <1>3, <1>4, <1>5, <1>6, <1>7, <1>8, <1>9, <1>10, <1>11
  DEF Next, UpdateDeadlines

\* However the two threads interleave inside updateDeadlines, a flag never
\* outlives the deadline it stands for: no slot of the window is lost.
THEOREM FlagsAnswered == Spec => []FlagHasAnswer
<1>1. Init => TypeInv /\ FlagInv
  BY InitTypeInv, InitFlagInv
<1>2. TypeInv /\ FlagInv /\ [Next]_vars => (TypeInv /\ FlagInv)'
  BY NextTypeInv, NextFlagInv
<1>3. FlagInv => FlagHasAnswer
  BY DEF FlagInv
<1> QED
  BY <1>1, <1>2, <1>3, PTL DEF Spec
-----------------------------------------------------------------------------
(* tAux implements StreamedFile *)

\* canGetUrl asks for every startup piece that the constructor asked for.
LEMMA UrlNeedsStartup == CanGetUrl => Startup \subseteq have
<1> SUFFICES ASSUME CanGetUrl, NEW p \in Startup PROVE p \in have
  OBVIOUS
<1>1. /\ startupPiecesCountAtStart \in Int /\ startupPiecesCountAtEnd \in Int
      /\ FileFirstPiece \in Nat /\ FileLastPiece \in Nat
  <2>1. piecesCount \in Nat
    BY GeometryFacts
  <2>2. \A n \in Nat, d \in Nat \ {0} : CeilDiv(n, d) \in Int
    BY DEF CeilDiv
  <2>3. CeilDiv(piecesCount, StartFraction) \in Int /\ CeilDiv(piecesCount, EndFraction) \in Int
    BY <2>1, <2>2, TuningAssumption
  <2> QED BY <2>3, GeometryAssumption, TuningAssumption
          DEF startupPiecesCountAtStart, startupPiecesCountAtEnd, AtLeast
<1>2. CASE p \in StartupBegin
  <2>1. p \in FileFirstPiece .. FileFirstPiece + startupPiecesCountAtStart - 1
    BY <1>1, <1>2 DEF StartupBegin
  <2> QED BY <2>1 DEF CanGetUrl
<1>3. CASE p \in StartupEnd
  <2>1. p \in FileLastPiece - startupPiecesCountAtEnd + 1 .. FileLastPiece
    BY <1>1, <1>3 DEF StartupEnd
  <2> QED BY <2>1 DEF CanGetUrl
<1> QED BY <1>2, <1>3 DEF Startup

\* tAux implements StreamedFile: the player gets its url once and with the
\* startup pieces there, and only seekInFile moves the position, whatever the
\* two threads inside updateDeadlines do, for every file, window and torrent.
THEOREM FileStreamsFilm == Spec => StreamsFilm
<1>1. Init => Film!Init
  BY InitialHaveAssumption DEF Init, Film!Init
<1>2. TypeInv /\ [Next]_vars => [Film!Next]_(Film!vars)
  <2> SUFFICES ASSUME TypeInv, [Next]_vars
               PROVE  Film!Next \/ UNCHANGED Film!vars
    OBVIOUS
  <2>1. ASSUME NEW p \in Pieces, PieceFinished(p) PROVE Film!Arrive
    <3>1. /\ p \in Pieces \ have /\ have' = have \cup {p}
          /\ UNCHANGED << fileUri, fileFirstPieceForDeadlines >>
      BY <2>1 DEF PieceFinished
    <3> QED BY <3>1 DEF Film!Arrive
  <2>2. ASSUME NEW p \in Pieces, HandleAlert(p) PROVE UNCHANGED Film!vars
    BY <2>2 DEF HandleAlert, Film!vars
  <2>3. ASSUME NEW offset \in 0 .. piecesCount, SeekInFile(offset) PROVE Film!Seek
    <3>1. /\ fileUri /\ UNCHANGED << have, fileUri >>
          /\ fileFirstPieceForDeadlines' = offset + FileFirstPiece
      BY <2>3 DEF SeekInFile, SeekPiece
    <3>2. offset + FileFirstPiece \in Pieces \cup {FileLastPiece + 1}
      BY GeometryAssumption DEF piecesCount, Pieces
    <3> QED BY <3>1, <3>2 DEF Film!Seek
  <2>4. CASE GetFileUrl
    <3>1. /\ ~fileUri /\ CanGetUrl /\ fileUri' = TRUE
          /\ UNCHANGED << have, fileFirstPieceForDeadlines >>
      BY <2>4 DEF GetFileUrl
    <3> QED BY <3>1, UrlNeedsStartup DEF Film!Play, Film!Next
  <2>5. ASSUME NEW t \in Threads, UpdateDeadlines(t) PROVE UNCHANGED Film!vars
    <3>1. UNCHANGED << have, fileUri, fileFirstPieceForDeadlines >>
      BY <2>5 DEF UpdateDeadlines, ClearPieceDeadlines, ResetFlags, CheckStartup,
                  TestPiece, SetPieceDeadline, MarkPiece
    <3> QED BY <3>1 DEF Film!vars
  <2>6. CASE UNCHANGED vars
    BY <2>6 DEF vars, Film!vars
  <2> QED BY <2>1, <2>2, <2>3, <2>4, <2>5, <2>6 DEF Next, Film!Next
<1> QED BY <1>1, <1>2, InitTypeInv, NextTypeInv, PTL DEF Spec, StreamsFilm, Film!Spec

-----------------------------------------------------------------------------
(* The chain of alerts *)

\* No loop runs and no deadline is cancelled before the startup pieces are
\* there: the player seeks only in a file whose url it has.
StartupWaits ==
    /\ fileUri \/ pc["torrent"] # "idle" => StartupComplete
    /\ ~StartupComplete =>
         /\ Startup \ have \subseteq critical /\ critical \subseteq Startup
         /\ pc["alert"] \in {"idle", "startup"}

\* A piece that arrived between have_piece and the test of its flag, or before
\* the other thread has written that flag, has an alert on its way.
ArrivalAnswered ==
    \A t \in Threads : (pc[t] = "set" /\ cursor[t] \in have) =>
        /\ cursor[t] \in piecesDeadlines =>
             \/ alerts[cursor[t]] > 0
             \/ pc["alert"] = "startup" /\ downloadedPieceIndex["alert"] = cursor[t]
        /\ \A u \in Threads : pc[u] = "mark" /\ cursor[u] = cursor[t] => alerts[cursor[t]] > 0

\* Thread t walks over the window and has not met a missing piece yet.
Searching(t) ==
    /\ pc[t] \in {"test", "set"}
    /\ fileFirstPieceForDeadlines <= cursor[t] /\ piecesToSet[t] > 0
    /\ \A i \in Missing : cursor[t] <= i

\* Why a missing piece of the window is not forgotten.
ChainLink ==
    (StartupComplete /\ Missing # {}) =>
        \/ critical \cap Missing # {}
        \/ \E p \in Pieces : alerts[p] > 0
        \/ \E t \in Threads : pc[t] \in {"clear", "reset", "startup"}
        \/ \E t \in Threads : Searching(t)

ChainInv == StartupWaits /\ ArrivalAnswered /\ ChainLink

\* A file of several pieces has a startup piece.
LEMMA SomeStartup == FileFirstPiece < FileLastPiece => FileFirstPiece \in Startup
<1>1. startupPiecesCountAtStart \in Int /\ startupPiecesCountAtStart > 0
  <2>1. CeilDiv(piecesCount, StartFraction) \in Int
    <3>1. \A n \in Nat, d \in Nat \ {0} : CeilDiv(n, d) \in Int
      BY DEF CeilDiv
    <3> QED
      BY <3>1, GeometryFacts, TuningAssumption
  <2> QED
    BY <2>1, TuningAssumption DEF startupPiecesCountAtStart, AtLeast
<1> QED
  BY <1>1, GeometryAssumption DEF Startup, StartupBegin

\* What is missing of the window lies between the position and the last piece.
LEMMA MissingFacts ==
    \A i : i \in Missing <=> /\ i \in Pieces /\ i \in Nat /\ i \notin have
                            /\ fileFirstPieceForDeadlines <= i /\ i < FileLastPiece
  BY PiecesFacts DEF Missing

LEMMA InitChainInv == Init => ChainInv
<1> SUFFICES ASSUME Init PROVE ChainInv
  OBVIOUS
<1>1. StartupWaits
  BY DEF Init, StartupWaits, Threads
<1>2. ArrivalAnswered
  BY DEF Init, ArrivalAnswered
<1>3. ChainLink
  <2> SUFFICES ASSUME StartupComplete, NEW i \in Missing PROVE \E p \in Pieces : alerts[p] > 0
    BY DEF ChainLink
  <2>1. FileFirstPiece < FileLastPiece
    BY MissingFacts, GeometryAssumption DEF Init
  <2>2. FileFirstPiece \in Startup \cap have /\ FileFirstPiece \in Pieces
    BY <2>1, SomeStartup, GeometryFacts DEF StartupComplete
  <2>3. alerts[FileFirstPiece] = 1
    BY <2>2 DEF Init
  <2> QED
    BY <2>2, <2>3
<1> QED
  BY <1>1, <1>2, <1>3 DEF ChainInv

LEMMA NextStartupWaits ==
    ASSUME TypeInv, AlertNeverSeeks, StartupWaits, [Next]_vars
    PROVE  StartupWaits'
<1> USE DEF StartupComplete
<1>t. /\ pc \in [Threads -> {"idle", "clear", "reset", "startup", "test", "set", "mark"}]
      /\ "alert" \in Threads /\ "torrent" \in Threads
      /\ \A t \in Threads : t = "alert" \/ t = "torrent"
  BY DEF TypeInv, TypeOK, Threads
<1>1. ASSUME NEW p \in Pieces, PieceFinished(p) PROVE StartupWaits'
  BY <1>1 DEF PieceFinished, StartupWaits
<1>2. ASSUME NEW p \in Pieces, HandleAlert(p) PROVE StartupWaits'
  BY <1>2, <1>t DEF HandleAlert, StartupWaits
<1>3. ASSUME NEW offset \in 0 .. piecesCount, SeekInFile(offset) PROVE StartupWaits'
  BY <1>3, <1>t DEF SeekInFile, StartupWaits
<1>4. CASE GetFileUrl
  BY <1>4, UrlNeedsStartup DEF GetFileUrl, StartupWaits
<1>5. ASSUME NEW t \in Threads, ClearPieceDeadlines(t) PROVE StartupWaits'
  <2>1. t = "torrent" /\ StartupComplete
    BY <1>5, <1>t DEF ClearPieceDeadlines, AlertNeverSeeks, StartupWaits
  <2> QED
    BY <1>5, <1>t, <2>1 DEF ClearPieceDeadlines, StartupWaits
<1>6. ASSUME NEW t \in Threads, ResetFlags(t) PROVE StartupWaits'
  <2>1. t = "torrent" /\ StartupComplete
    BY <1>6, <1>t DEF ResetFlags, AlertNeverSeeks, StartupWaits
  <2> QED
    BY <1>6, <1>t, <2>1 DEF ResetFlags, StartupWaits
<1>7. ASSUME NEW t \in Threads, CheckStartup(t) PROVE StartupWaits'
  BY <1>7, <1>t DEF CheckStartup, StartupWaits
<1>8. ASSUME NEW t \in Threads, TestPiece(t) PROVE StartupWaits'
  <2>1. StartupComplete
    BY <1>8, <1>t DEF TestPiece, StartupWaits
  <2> QED
    BY <1>8, <2>1 DEF TestPiece, StartupWaits
<1>9. ASSUME NEW t \in Threads, SetPieceDeadline(t) PROVE StartupWaits'
  <2>1. StartupComplete
    BY <1>9, <1>t DEF SetPieceDeadline, StartupWaits
  <2> QED
    BY <1>9, <2>1 DEF SetPieceDeadline, StartupWaits
<1>10. ASSUME NEW t \in Threads, MarkPiece(t) PROVE StartupWaits'
  <2>1. StartupComplete
    BY <1>10, <1>t DEF MarkPiece, StartupWaits
  <2> QED
    BY <1>10, <2>1 DEF MarkPiece, StartupWaits
<1>11. CASE UNCHANGED vars
  BY <1>11 DEF vars, StartupWaits
<1> QED
  BY <1>1, <1>2, <1>3, <1>4, <1>5, <1>6, <1>7, <1>8, <1>9, <1>10, <1>11
  DEF Next, UpdateDeadlines

LEMMA NextArrivalAnswered ==
    ASSUME TypeInv, FlagInv, ArrivalAnswered, [Next]_vars
    PROVE  ArrivalAnswered'
<1>t. TypeOK /\ \A t \in Threads : pc[t] \in {"set", "mark"} => cursor[t] \in Pieces
  BY PiecesFacts, GeometryAssumption DEF TypeInv, TypeOK, LoopOK
<1>f. FlagHasAnswer /\ MarkHasAnswer /\ AlertNeverSeeks
  BY DEF FlagInv
<1>1. ASSUME NEW p \in Pieces, PieceFinished(p) PROVE ArrivalAnswered'
  BY <1>1, <1>t, <1>f
     DEF PieceFinished, ArrivalAnswered, FlagHasAnswer, MarkHasAnswer, TypeOK
<1>2. ASSUME NEW p \in Pieces, HandleAlert(p) PROVE ArrivalAnswered'
  BY <1>2, <1>t DEF HandleAlert, ArrivalAnswered, TypeOK, Threads
<1>3. ASSUME NEW offset \in 0 .. piecesCount, SeekInFile(offset) PROVE ArrivalAnswered'
  BY <1>3, <1>t DEF SeekInFile, ArrivalAnswered, TypeOK, Threads
<1>4. CASE GetFileUrl
  BY <1>4 DEF GetFileUrl, ArrivalAnswered
<1>5. ASSUME NEW t \in Threads, ClearPieceDeadlines(t) PROVE ArrivalAnswered'
  <2>0. t = "torrent"
    BY <1>5, <1>f DEF ClearPieceDeadlines, AlertNeverSeeks, Threads
  <2> QED
    BY <1>5, <1>t, <2>0 DEF ClearPieceDeadlines, ArrivalAnswered, TypeOK, Threads
<1>6. ASSUME NEW t \in Threads, ResetFlags(t) PROVE ArrivalAnswered'
  BY <1>6, <1>t DEF ResetFlags, ArrivalAnswered, TypeOK, Threads
<1>7. ASSUME NEW t \in Threads, CheckStartup(t) PROVE ArrivalAnswered'
  BY <1>7, <1>t DEF CheckStartup, FlagsAfterAlert, ArrivalAnswered, TypeOK, Threads
<1>8. ASSUME NEW t \in Threads, TestPiece(t) PROVE ArrivalAnswered'
  BY <1>8, <1>t DEF TestPiece, ArrivalAnswered, TypeOK, Threads
<1>9. ASSUME NEW t \in Threads, SetPieceDeadline(t) PROVE ArrivalAnswered'
  BY <1>9, <1>t DEF SetPieceDeadline, ArrivalAnswered, TypeOK, Threads
<1>10. ASSUME NEW t \in Threads, MarkPiece(t) PROVE ArrivalAnswered'
  BY <1>10, <1>t DEF MarkPiece, ArrivalAnswered, TypeOK, Threads
<1>11. CASE UNCHANGED vars
  BY <1>11 DEF vars, ArrivalAnswered
<1> QED
  BY <1>1, <1>2, <1>3, <1>4, <1>5, <1>6, <1>7, <1>8, <1>9, <1>10, <1>11
  DEF Next, UpdateDeadlines

\* Another thread's step, and an arrival, leave a search as it is.
LEMMA SearchGoesOn ==
    ASSUME NEW t \in Threads, Searching(t),
           pc'[t] = pc[t], cursor'[t] = cursor[t], piecesToSet'[t] = piecesToSet[t],
           fileFirstPieceForDeadlines' = fileFirstPieceForDeadlines, have \subseteq have'
    PROVE  Searching(t)'
<1>1. Missing' \subseteq Missing
  BY DEF Missing
<1> QED
  BY <1>1 DEF Searching

\* Each step hands the chain on.
LEMMA NextChainLink ==
    ASSUME TypeInv, FlagInv, ChainInv, [Next]_vars
    PROVE  ChainLink'
<1>t. /\ TypeOK /\ "alert" \in Threads /\ "torrent" \in Threads
      /\ \A t \in Threads : t = "alert" \/ t = "torrent"
      /\ \A t \in Threads : pc[t] \in {"set", "mark"} =>
            /\ cursor[t] \in Pieces /\ cursor[t] < FileLastPiece
            /\ piecesToSet[t] > 0
  BY PiecesFacts, GeometryAssumption DEF TypeInv, TypeOK, LoopOK, Threads
<1>f. FlagHasAnswer /\ AlertNeverSeeks
  BY DEF FlagInv
<1>c. StartupWaits /\ ArrivalAnswered /\ ChainLink
  BY DEF ChainInv
<1> DEFINE Owed == \E p \in Pieces : alerts[p] > 0
           Entering == \E t \in Threads : pc[t] \in {"clear", "reset", "startup"}
           Walking == \E t \in Threads : Searching(t)
           Set == critical \cap Missing # {}
<1>d. Set' \/ Owed' \/ Entering' \/ Walking' => ChainLink'
  BY DEF ChainLink
<1> HIDE DEF Owed, Entering, Walking, Set
<1>1. ASSUME NEW p \in Pieces, PieceFinished(p) PROVE ChainLink'
  <2> SUFFICES ASSUME StartupComplete', Missing' # {}
               PROVE  Set' \/ Owed' \/ Entering' \/ Walking'
    BY <1>d DEF ChainLink
  <2>1. /\ have' = have \cup {p} /\ critical' = critical \ {p}
        /\ alerts' = IF p \in critical THEN [alerts EXCEPT ![p] = @ + 1] ELSE alerts
        /\ UNCHANGED << pc, cursor, piecesToSet, fileFirstPieceForDeadlines >>
    BY <1>1 DEF PieceFinished
  <2>2. CASE p \in critical
    <3>1. alerts'[p] > 0
      BY <1>t, <2>1, <2>2 DEF TypeOK
    <3> QED
      BY <3>1 DEF Owed
  <2>3. CASE p \notin critical
    <3>1. StartupComplete
      BY <1>c, <2>1, <2>3 DEF StartupWaits, StartupComplete
    <3>2. Missing' = Missing \ {p}
      BY <2>1 DEF Missing
    <3>3. Set \/ Owed \/ Entering \/ Walking
      BY <1>c, <3>1, <3>2 DEF ChainLink, Set, Owed, Entering, Walking
    <3>4. Set => Set'
      BY <2>1, <2>3, <3>2 DEF Set
    <3>5. (Owed => Owed') /\ (Entering => Entering')
      BY <2>1, <2>3 DEF Owed, Entering
    <3>6. Walking => Walking'
      BY <2>1, SearchGoesOn DEF Walking
    <3> QED
      BY <3>3, <3>4, <3>5, <3>6
  <2> QED
    BY <2>2, <2>3
<1>2. ASSUME NEW p \in Pieces, HandleAlert(p) PROVE ChainLink'
  <2>1. pc'["alert"] = "startup"
    BY <1>2, <1>t DEF HandleAlert, TypeOK
  <2> QED
    BY <1>d, <1>t, <2>1 DEF Entering
<1>3. ASSUME NEW offset \in 0 .. piecesCount, SeekInFile(offset) PROVE ChainLink'
  <2>1. pc'["torrent"] = "clear"
    BY <1>3, <1>t DEF SeekInFile, TypeOK
  <2> QED
    BY <1>d, <1>t, <2>1 DEF Entering
<1>4. CASE GetFileUrl
  BY <1>4, <1>c DEF GetFileUrl, ChainLink, StartupComplete, Missing, Searching
<1>5. ASSUME NEW t \in Threads, ClearPieceDeadlines(t) PROVE ChainLink'
  <2>1. pc'[t] = "reset"
    BY <1>5, <1>t DEF ClearPieceDeadlines, TypeOK
  <2> QED
    BY <1>d, <2>1 DEF Entering
<1>6. ASSUME NEW t \in Threads, ResetFlags(t) PROVE ChainLink'
  <2>1. pc'[t] = "startup"
    BY <1>6, <1>t DEF ResetFlags, TypeOK
  <2> QED
    BY <1>d, <2>1 DEF Entering
<1>7. ASSUME NEW t \in Threads, CheckStartup(t) PROVE ChainLink'
  <2> SUFFICES ASSUME StartupComplete PROVE Searching(t)'
    BY <1>7, <1>d DEF ChainLink, Walking, CheckStartup, StartupComplete
  <2>1. /\ pc'[t] = "test" /\ cursor'[t] = fileFirstPieceForDeadlines
        /\ piecesToSet'[t] = PRIORITY_PIECES_COUNT_MIN
        /\ UNCHANGED << fileFirstPieceForDeadlines, have >>
    BY <1>7, <1>t DEF CheckStartup, TypeOK
  <2> QED
    BY <1>t, <2>1, MissingFacts, TuningAssumption DEF Searching, Missing, TypeOK
<1>8. ASSUME NEW t \in Threads, TestPiece(t) PROVE ChainLink'
  <2> SUFFICES ASSUME StartupComplete, Missing # {}
               PROVE  Set' \/ Owed' \/ Entering' \/ Walking'
    BY <1>8, <1>d DEF ChainLink, TestPiece, StartupComplete, Missing
  <2>1. Set \/ Owed \/ Entering \/ Walking
    BY <1>c DEF ChainLink, Set, Owed, Entering, Walking
  <2>2. UNCHANGED << have, critical, alerts, fileFirstPieceForDeadlines >> /\ Missing' = Missing
    BY <1>8 DEF TestPiece, Missing
  <2>3. \A u \in Threads \ {t} : /\ pc'[u] = pc[u] /\ cursor'[u] = cursor[u]
                                /\ piecesToSet'[u] = piecesToSet[u]
    BY <1>8, <1>t DEF TestPiece, TypeOK
  <2>4. (Set => Set') /\ (Owed => Owed')
    BY <2>2 DEF Set, Owed
  <2>5. Entering => Entering'
    <3>1. pc[t] = "test"
      BY <1>8 DEF TestPiece
    <3> QED
      BY <2>3, <3>1 DEF Entering
  <2>6. ASSUME NEW u \in Threads, Searching(u) PROVE Searching(u)'
    <3>1. CASE u # t
      BY <2>2, <2>3, <2>6, <3>1, SearchGoesOn
    <3>2. CASE u = t
      <4>1. PICK i \in Missing : cursor[t] <= i /\ i < FileLastPiece /\ i \in Nat
        BY <2>6, <3>2, MissingFacts DEF Searching
      <4>2. /\ cursor[t] \in Nat /\ cursor[t] < FileLastPiece /\ piecesToSet[t] > 0
            /\ piecesToSet[t] # 0
        BY <1>t, <2>6, <3>2, <4>1, GeometryAssumption DEF Searching, TypeOK
      <4>3. CASE cursor[t] \in have
        <5>1. pc'[t] = "test" /\ cursor'[t] = cursor[t] + 1 /\ piecesToSet'[t] = piecesToSet[t]
          BY <1>8, <1>t, <4>2, <4>3, GeometryAssumption DEF TestPiece, TypeOK
        <5>2. \A j \in Missing : cursor[t] + 1 <= j
          BY <2>6, <3>2, <4>2, <4>3, MissingFacts DEF Searching
        <5>3. fileFirstPieceForDeadlines <= cursor[t] + 1
          BY <1>t, <2>6, <3>2, <4>2, GeometryAssumption DEF Searching, TypeOK
        <5> QED
          BY <2>2, <2>6, <3>2, <4>2, <5>1, <5>2, <5>3 DEF Searching
      <4>4. CASE cursor[t] \notin have
        <5>1. pc'[t] = "set" /\ cursor'[t] = cursor[t] /\ piecesToSet'[t] = piecesToSet[t]
          BY <1>8, <1>t, <4>2, <4>4, GeometryAssumption DEF TestPiece, TypeOK
        <5> QED
          BY <2>2, <2>6, <3>2, <5>1 DEF Searching
      <4> QED
        BY <4>3, <4>4
    <3> QED
      BY <3>1, <3>2
  <2> QED
    BY <2>1, <2>4, <2>5, <2>6 DEF Walking
<1>9. ASSUME NEW t \in Threads, SetPieceDeadline(t) PROVE ChainLink'
  <2> SUFFICES ASSUME StartupComplete, Missing # {}
               PROVE  Set' \/ Owed' \/ Entering' \/ Walking'
    BY <1>9, <1>d DEF ChainLink, SetPieceDeadline, StartupComplete, Missing
  <2> DEFINE i == cursor[t]
  <2>1. Set \/ Owed \/ Entering \/ Walking
    BY <1>c DEF ChainLink, Set, Owed, Entering, Walking
  <2>2. UNCHANGED << have, fileFirstPieceForDeadlines >> /\ Missing' = Missing
    BY <1>9 DEF SetPieceDeadline, Missing
  <2>3. /\ pc[t] = "set" /\ i \in Pieces /\ i < FileLastPiece
        /\ \A u \in Threads \ {t} : /\ pc'[u] = pc[u] /\ cursor'[u] = cursor[u]
                                   /\ piecesToSet'[u] = piecesToSet[u]
    BY <1>9, <1>t DEF SetPieceDeadline, TypeOK
  <2>4. critical \subseteq critical' /\ \A p \in Pieces : alerts[p] > 0 => alerts'[p] > 0
    BY <1>9, <1>t, <2>3 DEF SetPieceDeadline, TypeOK
  <2>5. (Set => Set') /\ (Owed => Owed')
    BY <2>2, <2>4 DEF Set, Owed
  <2>6. Entering => Entering'
    BY <2>3 DEF Entering
  <2>7. ASSUME NEW u \in Threads, Searching(u) PROVE Set' \/ Owed' \/ Entering' \/ Walking'
    <3>1. CASE u # t
      BY <2>2, <2>3, <2>7, <3>1, SearchGoesOn DEF Walking
    <3>2. CASE u = t
      <4>1. i \notin have => i \in Missing
        BY <2>3, <2>7, <3>2, MissingFacts, PiecesFacts DEF Searching
      <4>2. CASE i \in piecesDeadlines /\ i \in have
        <5>1. alerts[i] > 0 \/ pc["alert"] = "startup"
          BY <1>c, <2>3, <4>2 DEF ArrivalAnswered
        <5>2. Owed \/ Entering
          BY <1>t, <2>3, <5>1 DEF Owed, Entering
        <5> QED
          BY <2>5, <2>6, <5>2
      <4>3. CASE i \in piecesDeadlines /\ i \notin have
        <5>1. i \in critical \/ alerts[i] > 0 \/ pc["alert"] = "startup"
          BY <1>f, <4>3 DEF FlagHasAnswer
        <5>2. Set \/ Owed \/ Entering
          BY <1>t, <2>3, <4>1, <4>3, <5>1 DEF Set, Owed, Entering
        <5> QED
          BY <2>5, <2>6, <5>2
      <4>4. CASE i \notin piecesDeadlines /\ i \in have
        <5>1. alerts'[i] > 0
          BY <1>9, <1>t, <2>3, <4>4 DEF SetPieceDeadline, TypeOK
        <5> QED
          BY <2>3, <5>1 DEF Owed
      <4>5. CASE i \notin piecesDeadlines /\ i \notin have
        <5>1. i \in critical'
          BY <1>9, <4>5 DEF SetPieceDeadline
        <5> QED
          BY <2>2, <4>1, <4>5, <5>1 DEF Set
      <4> QED
        BY <4>2, <4>3, <4>4, <4>5
    <3> QED
      BY <3>1, <3>2
  <2> QED
    BY <2>1, <2>5, <2>6, <2>7 DEF Walking
<1>10. ASSUME NEW t \in Threads, MarkPiece(t) PROVE ChainLink'
  <2> SUFFICES ASSUME StartupComplete, Missing # {}
               PROVE  Set' \/ Owed' \/ Entering' \/ Walking'
    BY <1>10, <1>d DEF ChainLink, MarkPiece, StartupComplete, Missing
  <2>1. Set \/ Owed \/ Entering \/ Walking
    BY <1>c DEF ChainLink, Set, Owed, Entering, Walking
  <2>2. /\ UNCHANGED << have, fileFirstPieceForDeadlines, critical, alerts >>
        /\ Missing' = Missing /\ pc[t] = "mark"
    BY <1>10 DEF MarkPiece, Missing
  <2>3. \A u \in Threads \ {t} : /\ pc'[u] = pc[u] /\ cursor'[u] = cursor[u]
                                /\ piecesToSet'[u] = piecesToSet[u]
    BY <1>10, <1>t DEF MarkPiece, TypeOK
  <2>4. (Set => Set') /\ (Owed => Owed') /\ (Entering => Entering')
    BY <2>2, <2>3 DEF Set, Owed, Entering
  <2>5. Walking => Walking'
    <3> SUFFICES ASSUME NEW u \in Threads, Searching(u) PROVE Searching(u)'
      BY DEF Walking
    <3>1. u # t
      BY <2>2 DEF Searching
    <3> QED
      BY <2>2, <2>3, <3>1, SearchGoesOn
  <2> QED
    BY <2>1, <2>4, <2>5
<1>11. CASE UNCHANGED vars
  BY <1>11, <1>c DEF vars, ChainLink, StartupComplete, Missing, Searching
<1> QED
  BY <1>1, <1>2, <1>3, <1>4, <1>5, <1>6, <1>7, <1>8, <1>9, <1>10, <1>11
  DEF Next, UpdateDeadlines

\* Whatever the interleaving of the two threads, the arrivals and the seeks, the
\* chain of alerts that drives updateDeadlines never breaks.
THEOREM ChainNeverBreaks == Spec => []ChainAlive
<1> DEFINE I == TypeInv /\ FlagInv /\ ChainInv
<1>1. Init => I
  BY InitTypeInv, InitFlagInv, InitChainInv
<1>2. I /\ [Next]_vars => I'
  <2> SUFFICES ASSUME TypeInv, FlagInv, ChainInv, [Next]_vars PROVE I'
    OBVIOUS
  <2>1. StartupWaits' /\ ArrivalAnswered' /\ ChainLink'
    BY NextStartupWaits, NextArrivalAnswered, NextChainLink DEF FlagInv, ChainInv
  <2> QED
    BY <2>1, NextTypeInv, NextFlagInv DEF ChainInv
<1>3. I => ChainAlive
  <2> SUFFICES ASSUME ChainLink PROVE ChainAlive
    BY DEF ChainInv
  <2>1. \A t \in Threads : Searching(t) => pc[t] # "idle"
    BY DEF Searching
  <2> QED
    BY <2>1 DEF ChainLink, ChainAlive
<1> QED
  BY <1>1, <1>2, <1>3, PTL DEF Spec

-----------------------------------------------------------------------------
(* The number of deadlines *)

\* Missing pieces of the window in front of i, and the window itself.
Before(i) == {j \in Missing : j < i}

Window == {i \in Missing : Cardinality(Before(i)) < PRIORITY_PIECES_COUNT_MIN}

InLoop(t) == pc[t] \in {"test", "set", "mark"}

\* Thread t's loop started at the present position: what it has passed and
\* what it may still set fit into the window.
Fresh(t) ==
    /\ fileFirstPieceForDeadlines <= cursor[t]
    /\ Cardinality(Before(cursor[t])) + piecesToSet[t] <= PRIORITY_PIECES_COUNT_MIN

\* Deadlines the alert thread may still set for a position that was left.
StaleSlots ==
    IF ~InLoop("alert") \/ Fresh("alert") THEN 0
    ELSE IF pc["alert"] = "mark" THEN piecesToSet["alert"] - 1 ELSE piecesToSet["alert"]

\* Deadlines for pieces outside the window, set or still to be set.
Excess == Cardinality(critical \ Window) + StaleSlots

WindowInv ==
    /\ critical \cap have = {}
    /\ InLoop("torrent") => Fresh("torrent")
    /\ (StartupComplete /\ pc["torrent"] # "clear") =>
         Excess <= PRIORITY_PIECES_COUNT_MIN

\* Sets of missing pieces are finite.
LEMMA BeforeFinite ==
    /\ IsFiniteSet(Pieces)
    /\ IsFiniteSet(Missing)
    /\ \A i : IsFiniteSet(Before(i)) /\ Cardinality(Before(i)) \in Nat
<1>1. IsFiniteSet(Pieces)
  <2>1. 0 \in Int /\ NumPieces - 1 \in Int
    BY GeometryAssumption
  <2> QED
    BY <2>1, FS_Interval DEF Pieces
<1>2. Missing \in SUBSET Pieces /\ \A i : Before(i) \in SUBSET Pieces
  BY DEF Missing, Before
<1> QED
  BY <1>1, <1>2, FS_Subset, FS_CardinalityType

\* The window holds at most PRIORITY_PIECES_COUNT_MIN pieces: their numbers of
\* missing predecessors are different and below it.
LEMMA WindowSmall ==
    /\ IsFiniteSet(Window)
    /\ Cardinality(Window) \in Nat /\ Cardinality(Window) <= PRIORITY_PIECES_COUNT_MIN
<1> DEFINE K == 0 .. PRIORITY_PIECES_COUNT_MIN - 1
           f == [i \in Window |-> Cardinality(Before(i))]
<1>1. PRIORITY_PIECES_COUNT_MIN \in Nat \ {0}
  BY TuningAssumption
<1>2. IsFiniteSet(K) /\ Cardinality(K) = PRIORITY_PIECES_COUNT_MIN
  BY <1>1, FS_Interval
<1>3. IsFiniteSet(Window) /\ Cardinality(Window) \in Nat
  <2>1. Window \in SUBSET Missing
    BY DEF Window
  <2> QED
    BY <2>1, BeforeFinite, FS_Subset, FS_CardinalityType
<1>4. \A i \in Window : i \in Missing /\ i \in Nat /\ Cardinality(Before(i)) \in K
  BY <1>1, BeforeFinite, MissingFacts DEF Window
<1>5. f \in [Window -> K]
  BY <1>4
<1>6. ASSUME NEW i \in Window, NEW k \in Window, i < k PROVE f[i] # f[k]
  <2>1. Before(i) \in SUBSET Before(k)
    <3>1. ASSUME NEW j \in Missing, j < i PROVE j < k
      BY <1>4, <1>6, <3>1, MissingFacts
    <3> QED
      BY <3>1 DEF Before
  <2>2. i \in Before(k) /\ i \notin Before(i)
    <3>1. i \in Missing /\ i \in Nat /\ ~(i < i)
      BY <1>4
    <3> QED
      BY <1>6, <3>1 DEF Before
  <2>3. Cardinality(Before(i)) # Cardinality(Before(k))
    BY <2>1, <2>2, BeforeFinite, FS_Subset
  <2> QED
    BY <2>3
<1>7. \A i, k \in Window : i # k => f[i] # f[k]
  <2> SUFFICES ASSUME NEW i \in Window, NEW k \in Window, i # k PROVE f[i] # f[k]
    OBVIOUS
  <2>1. i < k \/ k < i
    BY <1>4
  <2> QED
    BY <1>6, <2>1
<1>8. ~(Cardinality(K) < Cardinality(Window))
  <2> HIDE DEF K, f
  <2> QED
    BY <1>2, <1>3, <1>5, <1>7, FS_PigeonHole
<1> QED
  BY <1>1, <1>2, <1>3, <1>8

\* A step of the loop passes at most one more missing piece.
LEMMA BeforeNext ==
    ASSUME NEW i \in Nat
    PROVE  /\ Cardinality(Before(i + 1)) <= Cardinality(Before(i)) + 1
           /\ i \in have => Before(i + 1) = Before(i)
<1>1. Before(i + 1) \in SUBSET (Before(i) \cup {i})
  BY MissingFacts DEF Before
<1>2. IsFiniteSet(Before(i) \cup {i}) /\ Cardinality(Before(i) \cup {i}) \in Nat
      /\ Cardinality(Before(i) \cup {i}) <= Cardinality(Before(i)) + 1
  <2>1. IsFiniteSet(Before(i)) /\ Cardinality(Before(i)) \in Nat
    BY BeforeFinite
  <2> DEFINE B == Before(i)
  <2> HIDE DEF B
  <2>2. IsFiniteSet(B) /\ Cardinality(B) \in Nat
    BY <2>1 DEF B
  <2>3. /\ IsFiniteSet(B \cup {i})
        /\ Cardinality(B \cup {i}) = IF i \in B THEN Cardinality(B) ELSE Cardinality(B) + 1
    BY <2>2, FS_AddElement
  <2> QED
    BY <2>2, <2>3 DEF B
<1>3. Cardinality(Before(i + 1)) <= Cardinality(Before(i) \cup {i})
  BY <1>1, <1>2, FS_Subset
<1>4. Cardinality(Before(i + 1)) \in Nat /\ Cardinality(Before(i)) \in Nat
  BY BeforeFinite
<1>5. i \in have => Before(i + 1) = Before(i)
  BY MissingFacts DEF Before
<1> QED
  BY <1>2, <1>3, <1>4, <1>5

\* As long as the position stays, a piece of the window leaves it only by
\* arriving, and a loop that is fresh stays fresh while it does not move.
LEMMA WindowStays ==
    ASSUME TypeOK, TypeOK', have \subseteq have',
           fileFirstPieceForDeadlines' = fileFirstPieceForDeadlines
    PROVE  /\ Window \ have' \subseteq Window'
           /\ \A i : Cardinality(Before(i)') <= Cardinality(Before(i))
           /\ \A t \in Threads :
                Fresh(t) /\ cursor'[t] = cursor[t] /\ piecesToSet'[t] = piecesToSet[t]
                    => Fresh(t)'
<1>1. Missing' \subseteq Missing /\ Missing \ have' \subseteq Missing'
  BY DEF Missing
<1>2. ASSUME NEW i
      PROVE  /\ Cardinality(Before(i)') \in Nat /\ Cardinality(Before(i)) \in Nat
             /\ Cardinality(Before(i)') <= Cardinality(Before(i))
  <2>1. Before(i)' \in SUBSET Before(i)
    BY <1>1 DEF Before
  <2>2. IsFiniteSet(Before(i)) /\ Cardinality(Before(i)) \in Nat
    BY BeforeFinite
  <2>3. IsFiniteSet(Before(i)') /\ Cardinality(Before(i)') <= Cardinality(Before(i))
    BY <2>1, <2>2, FS_Subset
  <2>4. Cardinality(Before(i)') \in Nat
    BY <2>3, FS_CardinalityType
  <2> QED
    BY <2>2, <2>3, <2>4
<1>3. Window \ have' \subseteq Window'
  <2> SUFFICES ASSUME NEW i \in Window, i \notin have' PROVE i \in Window'
    OBVIOUS
  <2>1. i \in Missing' /\ Cardinality(Before(i)) < PRIORITY_PIECES_COUNT_MIN
    BY <1>1 DEF Window
  <2>2. Cardinality(Before(i)') < PRIORITY_PIECES_COUNT_MIN
    BY <1>2, <2>1, TuningAssumption
  <2> QED
    BY <2>1, <2>2 DEF Window
<1>4. ASSUME NEW t \in Threads, Fresh(t), cursor'[t] = cursor[t],
             piecesToSet'[t] = piecesToSet[t]
      PROVE  Fresh(t)'
  <2>1. Before(cursor[t])' = {j \in Missing' : j < cursor[t]}
    BY <1>4 DEF Before
  <2>2. PICK c : c = cursor[t]
    OBVIOUS
  <2>3. Before(cursor[t])' = Before(c)'
    BY <2>1, <2>2 DEF Before
  <2>4. Cardinality(Before(cursor[t])') <= Cardinality(Before(cursor[t]))
    BY <1>2, <2>2, <2>3
  <2>5. /\ Cardinality(Before(cursor[t])') \in Nat /\ Cardinality(Before(cursor[t])) \in Nat
        /\ piecesToSet[t] \in Nat
    BY <1>2, <2>2, <2>3, TuningAssumption DEF TypeOK
  <2>6. /\ fileFirstPieceForDeadlines <= cursor[t]
        /\ Cardinality(Before(cursor[t])) + piecesToSet[t] <= PRIORITY_PIECES_COUNT_MIN
    BY <1>4 DEF Fresh
  <2>7. Cardinality(Before(cursor[t])') + piecesToSet[t] <= PRIORITY_PIECES_COUNT_MIN
    BY <2>4, <2>5, <2>6, TuningAssumption
  <2> QED
    BY <1>4, <2>6, <2>7 DEF Fresh
<1> QED
  BY <1>2, <1>3, <1>4

LEMMA ExcessFacts ==
    ASSUME TypeInv
    PROVE  /\ IsFiniteSet(critical \ Window) /\ Cardinality(critical \ Window) \in Nat
           /\ StaleSlots \in Nat /\ StaleSlots <= PRIORITY_PIECES_COUNT_MIN
           /\ Excess \in Nat
<1>1. critical \ Window \in SUBSET Pieces
  BY DEF TypeInv, TypeOK
<1>2. IsFiniteSet(critical \ Window) /\ Cardinality(critical \ Window) \in Nat
  BY <1>1, BeforeFinite, FS_Subset, FS_CardinalityType
<1>3. /\ piecesToSet["alert"] \in 0 .. PRIORITY_PIECES_COUNT_MIN
      /\ pc["alert"] = "mark" => piecesToSet["alert"] > 0
  BY DEF TypeInv, TypeOK, LoopOK, Threads
<1>4. StaleSlots \in Nat /\ StaleSlots <= PRIORITY_PIECES_COUNT_MIN
  BY <1>3, TuningAssumption DEF StaleSlots
<1> QED
  BY <1>2, <1>4 DEF Excess

SlotsOK == StaleSlots \in 0 .. PRIORITY_PIECES_COUNT_MIN /\ Excess \in Nat

LEMMA SlotsInRange == TypeInv => SlotsOK
  BY ExcessFacts, TuningAssumption DEF SlotsOK

\* No new deadline outside the window and no more stale slots: no more excess.
LEMMA ExcessShrinks ==
    ASSUME TypeInv, TypeInv', critical' \ Window' \subseteq critical \ Window,
           StaleSlots' <= StaleSlots
    PROVE  Excess' <= Excess
<1> DEFINE A == critical \ Window
           B == critical' \ Window'
<1>1. IsFiniteSet(A) /\ Cardinality(A) \in Nat /\ StaleSlots \in Nat
  BY ExcessFacts
<1>2. B \in SUBSET A
  OBVIOUS
<1> HIDE DEF A, B
<1>3. IsFiniteSet(B) /\ Cardinality(B) <= Cardinality(A)
  BY <1>1, <1>2, FS_Subset
<1>4. Cardinality(B) \in Nat
  BY <1>3, FS_CardinalityType
<1>5. SlotsOK'
  BY SlotsInRange, PTL
<1>6. Cardinality(B) + StaleSlots' <= Cardinality(A) + StaleSlots
  BY <1>1, <1>3, <1>4, <1>5, TuningAssumption DEF SlotsOK
<1> QED
  BY <1>6 DEF Excess, A, B

\* A loop that is fresh stays fresh: what it passes it pays for.
LEMMA LoopStaysFresh ==
    ASSUME TypeInv, TypeInv', NEW t \in Threads, Fresh(t),
           TestPiece(t) \/ SetPieceDeadline(t) \/ MarkPiece(t), InLoop(t)'
    PROVE  Fresh(t)'
<1> DEFINE c == cursor[t]
           n == piecesToSet[t]
           d == cursor'[t]
           m == piecesToSet'[t]
<1>1. c \in Nat /\ d \in Nat /\ n \in Nat /\ m \in Nat /\ fileFirstPieceForDeadlines \in Nat
  BY GeometryAssumption, TuningAssumption DEF TypeInv, TypeOK
<1>2. UNCHANGED << have, fileFirstPieceForDeadlines >>
  BY DEF TestPiece, SetPieceDeadline, MarkPiece, Missing
<1>3. Missing' = Missing
  BY <1>2 DEF Missing
<1>4. \/ d = c /\ m = n
      \/ d = c + 1 /\ m = n /\ c \in have
      \/ d = c + 1 /\ n > 0 /\ m = n - 1
  <2>1. CASE TestPiece(t)
    BY <2>1 DEF TestPiece, InLoop, TypeInv, TypeOK
  <2>2. CASE SetPieceDeadline(t)
    BY <2>2 DEF SetPieceDeadline, SlotsAfterFlagged, TypeInv, TypeOK, LoopOK
  <2>3. CASE MarkPiece(t)
    BY <2>3 DEF MarkPiece, TypeInv, TypeOK, LoopOK
  <2> QED
    BY <2>1, <2>2, <2>3
<1>5. Fresh(t)' = (/\ fileFirstPieceForDeadlines <= d
                  /\ Cardinality(Before(d)) + m <= PRIORITY_PIECES_COUNT_MIN)
  BY <1>2, <1>3 DEF Fresh, Before
<1>6. fileFirstPieceForDeadlines <= c /\ Cardinality(Before(c)) + n <= PRIORITY_PIECES_COUNT_MIN
  BY DEF Fresh
<1> HIDE DEF c, n, d, m
<1>7. /\ Cardinality(Before(c)) \in Nat /\ Cardinality(Before(d)) \in Nat
      /\ Cardinality(Before(c + 1)) <= Cardinality(Before(c)) + 1
      /\ c \in have => Before(c + 1) = Before(c)
  <2>1. \A i : Cardinality(Before(i)) \in Nat
    BY BeforeFinite
  <2>2. /\ Cardinality(Before(c + 1)) <= Cardinality(Before(c)) + 1
        /\ c \in have => Before(c + 1) = Before(c)
    BY <1>1, BeforeNext
  <2> QED
    BY <2>1, <2>2
<1>8. CASE d = c /\ m = n
  BY <1>5, <1>6, <1>8
<1>9. CASE d = c + 1 /\ m = n /\ c \in have
  <2>1. Before(d) = Before(c)
    BY <1>7, <1>9
  <2>2. fileFirstPieceForDeadlines <= d
    BY <1>1, <1>6, <1>9
  <2> QED
    BY <1>5, <1>6, <1>9, <2>1, <2>2
<1>10. CASE d = c + 1 /\ n > 0 /\ m = n - 1
  <2>1. Cardinality(Before(d)) + m <= Cardinality(Before(c)) + n
    BY <1>1, <1>7, <1>10
  <2>2. fileFirstPieceForDeadlines <= d
    BY <1>1, <1>6, <1>10
  <2>3. Cardinality(Before(d)) + m <= PRIORITY_PIECES_COUNT_MIN
    BY <1>1, <1>6, <1>7, <2>1, TuningAssumption
  <2> QED
    BY <1>5, <2>2, <2>3
<1> QED
  BY <1>4, <1>8, <1>9, <1>10

\* A loop that starts is fresh.
LEMMA LoopStartsFresh ==
    ASSUME TypeInv, NEW t \in Threads, CheckStartup(t), InLoop(t)'
    PROVE  Fresh(t)'
<1>1. /\ cursor'[t] = fileFirstPieceForDeadlines
      /\ piecesToSet'[t] = PRIORITY_PIECES_COUNT_MIN
      /\ UNCHANGED << have, fileFirstPieceForDeadlines >>
  BY DEF CheckStartup, TypeInv, TypeOK, InLoop
<1>2. Before(cursor[t])' = {}
  BY <1>1, MissingFacts, GeometryAssumption DEF Before, Missing, TypeInv, TypeOK
<1>3. Cardinality(Before(cursor[t])') = 0
  BY <1>2, FS_EmptySet
<1>4. fileFirstPieceForDeadlines \in Nat
  BY GeometryAssumption DEF TypeInv, TypeOK
<1> QED
  BY <1>1, <1>3, <1>4, TuningAssumption DEF Fresh

LEMMA InitWindowInv == Init => WindowInv
<1> SUFFICES ASSUME Init PROVE WindowInv
  OBVIOUS
<1>1. critical \cap have = {} /\ ~InLoop("torrent") /\ ~InLoop("alert")
  BY DEF Init, InLoop, Threads
<1>2. ASSUME StartupComplete PROVE Excess = 0
  <2>1. critical \ Window = {}
    BY <1>2 DEF Init, StartupComplete
  <2>2. StaleSlots = 0
    BY <1>1 DEF StaleSlots
  <2> QED
    BY <2>1, <2>2, FS_EmptySet DEF Excess
<1> QED
  BY <1>1, <1>2, TuningAssumption DEF WindowInv

\* Steps that change neither the window nor a deadline, and leave the alert
\* thread where it is.
LEMMA SameExcess ==
    ASSUME UNCHANGED << have, critical, fileFirstPieceForDeadlines >>,
           pc'["alert"] = pc["alert"], cursor'["alert"] = cursor["alert"],
           piecesToSet'["alert"] = piecesToSet["alert"]
    PROVE  Window' = Window /\ Excess' = Excess
<1>1. Missing' = Missing
  BY DEF Missing
<1>2. Window' = Window
  BY <1>1 DEF Window, Before
<1>3. Fresh("alert")' = Fresh("alert") /\ InLoop("alert")' = InLoop("alert")
  BY <1>1 DEF Fresh, InLoop, Before
<1>4. StaleSlots' = StaleSlots
  BY <1>3 DEF StaleSlots
<1> QED
  BY <1>2, <1>4 DEF Excess

\* A step of the torrent thread's loop, which is fresh: deadlines are set in the
\* window only.
LEMMA FreshSet ==
    ASSUME TypeInv, NEW t \in Threads, SetPieceDeadline(t), Fresh(t)
    PROVE  critical' \ Window' \subseteq critical \ Window
<1> DEFINE c == cursor[t]
<1>1. UNCHANGED << have, fileFirstPieceForDeadlines >>
  BY DEF SetPieceDeadline
<1>2. Missing' = Missing
  BY <1>1 DEF Missing
<1>3. Window' = Window
  BY <1>2 DEF Window, Before
<1>4. c \in Pieces /\ c < FileLastPiece /\ piecesToSet[t] \in Nat /\ piecesToSet[t] > 0
  BY PiecesFacts, GeometryAssumption, TuningAssumption
     DEF SetPieceDeadline, TypeInv, TypeOK, LoopOK
<1>5. ASSUME c \notin have PROVE c \in Window
  <2>1. c \in Missing
    BY <1>4, <1>5, MissingFacts, PiecesFacts DEF Fresh
  <2>2. Cardinality(Before(c)) < PRIORITY_PIECES_COUNT_MIN
    <3>1. Cardinality(Before(c)) \in Nat
      BY BeforeFinite
    <3>2. Cardinality(Before(c)) + piecesToSet[t] <= PRIORITY_PIECES_COUNT_MIN
      BY DEF Fresh
    <3> QED
      BY <1>4, <3>1, <3>2, TuningAssumption
  <2> QED
    BY <2>1, <2>2 DEF Window
<1>6. critical' = critical \/ (c \notin have /\ critical' = critical \cup {c})
  BY DEF SetPieceDeadline
<1> QED
  BY <1>3, <1>5, <1>6

\* A step of the alert thread's loop: it sets deadlines in the window, or one
\* deadline outside it for one of its slots.
LEMMA AlertLoopPays ==
    ASSUME TypeInv, TypeInv',
           TestPiece("alert") \/ SetPieceDeadline("alert") \/ MarkPiece("alert")
    PROVE  Excess' <= Excess
<1> DEFINE n == piecesToSet["alert"]
           c == cursor["alert"]
<1>1. /\ UNCHANGED << have, fileFirstPieceForDeadlines >> /\ InLoop("alert")
      /\ "alert" \in Threads
  BY DEF TestPiece, SetPieceDeadline, MarkPiece, InLoop, Threads
<1>2. Missing' = Missing
  BY <1>1 DEF Missing
<1>3. Window' = Window
  BY <1>2 DEF Window, Before
<1>4. SlotsOK /\ SlotsOK'
  BY SlotsInRange, PTL
<1>5. n \in Nat /\ (pc["alert"] \in {"set", "mark"} => n > 0)
  BY <1>1, TuningAssumption DEF TypeInv, TypeOK, LoopOK
<1>6. CASE Fresh("alert")
  <2>1. StaleSlots' = 0 /\ StaleSlots = 0
    BY <1>1, <1>6, LoopStaysFresh DEF StaleSlots
  <2>2. critical' \ Window' \subseteq critical \ Window
    <3>1. CASE SetPieceDeadline("alert")
      BY <1>1, <1>6, <3>1, FreshSet
    <3>2. CASE TestPiece("alert") \/ MarkPiece("alert")
      BY <1>3, <3>2 DEF TestPiece, MarkPiece
    <3> QED
      BY <3>1, <3>2
  <2> QED
    BY <2>1, <2>2, ExcessShrinks
<1>7. CASE ~Fresh("alert")
  <2>0. StaleSlots = IF pc["alert"] = "mark" THEN n - 1 ELSE n
    BY <1>1, <1>7 DEF StaleSlots
  <2>1. CASE TestPiece("alert")
    <3>1. /\ critical' = critical /\ StaleSlots = n
          /\ pc'["alert"] \in {"idle", "test", "set"}
          /\ InLoop("alert")' => piecesToSet'["alert"] = n
      BY <1>1, <2>0, <2>1 DEF TestPiece, InLoop, TypeInv, TypeOK
    <3>2. StaleSlots' <= StaleSlots
      BY <1>5, <3>1 DEF StaleSlots, InLoop
    <3> QED
      BY <1>3, <3>1, <3>2, ExcessShrinks
  <2>2. CASE MarkPiece("alert")
    <3>1. /\ critical' = critical /\ StaleSlots = n - 1
          /\ pc'["alert"] = "test" /\ piecesToSet'["alert"] = n - 1
      BY <1>1, <2>0, <2>2 DEF MarkPiece, TypeInv, TypeOK
    <3>2. StaleSlots' <= StaleSlots
      BY <1>5, <2>2, <3>1 DEF StaleSlots, MarkPiece
    <3> QED
      BY <1>3, <3>1, <3>2, ExcessShrinks
  <2>3. CASE SetPieceDeadline("alert")
    <3>1. StaleSlots = n /\ n > 0
      BY <1>5, <2>0, <2>3 DEF SetPieceDeadline
    <3>2. \/ pc'["alert"] = "test" /\ piecesToSet'["alert"] = n - 1
          \/ pc'["alert"] = "mark" /\ piecesToSet'["alert"] = n
      BY <1>1, <2>3 DEF SetPieceDeadline, SlotsAfterFlagged, TypeInv, TypeOK
    <3>3. StaleSlots' <= n - 1
      BY <1>5, <3>1, <3>2 DEF StaleSlots
    <3> DEFINE A == critical \ Window
               B == critical' \ Window'
    <3>4. B \in SUBSET (A \cup {c})
      BY <1>3, <2>3 DEF SetPieceDeadline
    <3>5. IsFiniteSet(A) /\ Cardinality(A) \in Nat
      BY ExcessFacts
    <3> HIDE DEF A, B
    <3>6. /\ IsFiniteSet(A \cup {c})
          /\ Cardinality(A \cup {c}) = IF c \in A THEN Cardinality(A) ELSE Cardinality(A) + 1
      BY <3>5, FS_AddElement
    <3>7. /\ Cardinality(A \cup {c}) \in Nat
          /\ Cardinality(A \cup {c}) <= Cardinality(A) + 1
      BY <3>5, <3>6
    <3>8. IsFiniteSet(B) /\ Cardinality(B) <= Cardinality(A \cup {c})
      BY <3>4, <3>6, FS_Subset
    <3>9. Cardinality(B) \in Nat
      BY <3>8, FS_CardinalityType
    <3>10. StaleSlots' \in Nat
      BY <1>4, TuningAssumption DEF SlotsOK
    <3> HIDE DEF n, c
    <3>11. Cardinality(B) + StaleSlots' <= Cardinality(A) + StaleSlots
      BY <1>5, <3>1, <3>3, <3>5, <3>7, <3>8, <3>9, <3>10
    <3> QED
      BY <3>11 DEF Excess, A, B
  <2> QED
    BY <2>1, <2>2, <2>3
<1> QED
  BY <1>6, <1>7

LEMMA NextWindowInv ==
    ASSUME TypeInv, TypeInv', AlertNeverSeeks, StartupWaits, WindowInv, [Next]_vars
    PROVE  WindowInv'
<1>t. /\ TypeOK /\ TypeOK' /\ "alert" \in Threads /\ "torrent" \in Threads
      /\ \A t \in Threads : t = "alert" \/ t = "torrent"
  BY DEF TypeInv, Threads
<1>w. /\ critical \cap have = {}
      /\ InLoop("torrent") => Fresh("torrent")
      /\ (StartupComplete /\ pc["torrent"] # "clear") => Excess <= PRIORITY_PIECES_COUNT_MIN
  BY DEF WindowInv
<1>n. PRIORITY_PIECES_COUNT_MIN \in Nat /\ Excess \in Nat /\ Excess' \in Nat
  <2>1. SlotsOK /\ SlotsOK'
    BY SlotsInRange, PTL
  <2> QED
    BY <2>1, TuningAssumption DEF SlotsOK
<1>1. ASSUME NEW p \in Pieces, PieceFinished(p) PROVE WindowInv'
  <2>1. /\ have' = have \cup {p} /\ critical' = critical \ {p}
        /\ UNCHANGED << pc, cursor, piecesToSet, fileFirstPieceForDeadlines >>
    BY <1>1 DEF PieceFinished
  <2>2. critical' \cap have' = {}
    BY <1>w, <2>1
  <2>3. /\ Window \ have' \subseteq Window'
        /\ \A t \in Threads : Fresh(t) => Fresh(t)'
    BY <1>t, <2>1, WindowStays
  <2>4. InLoop("torrent")' => Fresh("torrent")'
    BY <1>t, <1>w, <2>1, <2>3 DEF InLoop
  <2>5. ASSUME StartupComplete', pc'["torrent"] # "clear"
        PROVE  Excess' <= PRIORITY_PIECES_COUNT_MIN
    <3>1. CASE StartupComplete
      <4>1. critical' \ Window' \subseteq critical \ Window
        BY <2>1, <2>2, <2>3
      <4>2. StaleSlots' <= StaleSlots
        <5>1. Fresh("alert") => Fresh("alert")'
          BY <1>t, <2>3
        <5>2. SlotsOK
          BY SlotsInRange
        <5> QED
          BY <2>1, <5>1, <5>2, TuningAssumption DEF StaleSlots, InLoop, SlotsOK
      <4>3. Excess' <= Excess
        BY <4>1, <4>2, ExcessShrinks
      <4> QED
        BY <1>n, <1>w, <2>1, <2>5, <3>1, <4>3
    <3>2. CASE ~StartupComplete
      <4>1. critical' \ Window' = {}
        BY <2>1, <2>2, <2>5, <3>2 DEF StartupWaits, StartupComplete
      <4>2. StaleSlots' = 0
        BY <2>1, <3>2 DEF StartupWaits, StaleSlots, InLoop
      <4>3. Cardinality(critical' \ Window') = 0
        BY <4>1, FS_EmptySet
      <4>4. Excess' = 0
        BY <4>2, <4>3 DEF Excess
      <4> QED
        BY <1>n, <4>4
    <3> QED
      BY <3>1, <3>2
  <2> QED
    BY <2>2, <2>4, <2>5 DEF WindowInv
<1>2. ASSUME NEW p \in Pieces, HandleAlert(p) PROVE WindowInv'
  <2>1. /\ UNCHANGED << have, critical, fileFirstPieceForDeadlines, cursor, piecesToSet >>
        /\ pc["alert"] = "idle" /\ pc'["alert"] = "startup" /\ pc'["torrent"] = pc["torrent"]
    BY <1>2, <1>t DEF HandleAlert, TypeOK
  <2>2. Missing' = Missing
    BY <2>1 DEF Missing
  <2>3. Window' = Window /\ Fresh("torrent")' = Fresh("torrent")
    BY <2>1, <2>2 DEF Window, Fresh, Before
  <2>4. StaleSlots' = 0 /\ StaleSlots = 0
    BY <2>1 DEF StaleSlots, InLoop
  <2>5. Excess' = Excess
    BY <2>1, <2>3, <2>4 DEF Excess
  <2> QED
    BY <1>w, <2>1, <2>3, <2>5 DEF WindowInv, InLoop, StartupComplete
<1>3. ASSUME NEW offset \in 0 .. piecesCount, SeekInFile(offset) PROVE WindowInv'
  <2>1. UNCHANGED << have, critical >> /\ pc'["torrent"] = "clear"
    BY <1>3, <1>t DEF SeekInFile, TypeOK
  <2> QED
    BY <1>w, <2>1 DEF WindowInv, InLoop
<1>4. CASE GetFileUrl \/ UNCHANGED vars
  <2>1. UNCHANGED << have, critical, fileFirstPieceForDeadlines, pc, cursor, piecesToSet >>
    BY <1>4 DEF GetFileUrl, vars
  <2>2. Excess' = Excess
    BY <2>1, SameExcess
  <2>3. Fresh("torrent")' = Fresh("torrent")
    BY <2>1 DEF Fresh, Before, Missing
  <2> QED
    BY <1>w, <2>1, <2>2, <2>3 DEF WindowInv, InLoop, StartupComplete
<1>5. ASSUME NEW t \in Threads, ClearPieceDeadlines(t) PROVE WindowInv'
  <2>1. t = "torrent"
    BY <1>5, <1>t DEF ClearPieceDeadlines, AlertNeverSeeks
  <2>2. critical' = {} /\ pc'["torrent"] = "reset"
    BY <1>5, <1>t, <2>1 DEF ClearPieceDeadlines, TypeOK
  <2>3. critical' \ Window' = {}
    BY <2>2
  <2>4. Cardinality(critical' \ Window') = 0
    BY <2>3, FS_EmptySet
  <2>5. SlotsOK'
    BY SlotsInRange, PTL
  <2>6. Excess' <= PRIORITY_PIECES_COUNT_MIN
    <3>1. Excess' = 0 + StaleSlots'
      BY <2>4 DEF Excess
    <3>2. PICK x \in 0 .. PRIORITY_PIECES_COUNT_MIN : x = StaleSlots'
      BY <2>5 DEF SlotsOK
    <3>3. Excess' = 0 + x
      BY <3>1, <3>2
    <3>4. 0 + x = x /\ x <= PRIORITY_PIECES_COUNT_MIN
      BY <1>n
    <3> QED
      BY <3>3, <3>4
  <2> QED
    BY <2>2, <2>6 DEF WindowInv, InLoop
<1>6. ASSUME NEW t \in Threads, ResetFlags(t) PROVE WindowInv'
  <2>1. t = "torrent"
    BY <1>6, <1>t DEF ResetFlags, AlertNeverSeeks
  <2>2. /\ UNCHANGED << have, critical, fileFirstPieceForDeadlines, cursor, piecesToSet >>
        /\ pc'["alert"] = pc["alert"] /\ pc["torrent"] = "reset" /\ pc'["torrent"] = "startup"
    BY <1>6, <1>t, <2>1 DEF ResetFlags, TypeOK
  <2>3. Excess' = Excess
    BY <2>2, SameExcess
  <2> QED
    BY <1>w, <2>2, <2>3 DEF WindowInv, InLoop, StartupComplete
<1>7. ASSUME NEW t \in Threads, CheckStartup(t) PROVE WindowInv'
  <2>1. /\ UNCHANGED << have, critical, fileFirstPieceForDeadlines >> /\ pc[t] = "startup"
        /\ \A u \in Threads \ {t} : /\ pc'[u] = pc[u] /\ cursor'[u] = cursor[u]
                                   /\ piecesToSet'[u] = piecesToSet[u]
    BY <1>7, <1>t DEF CheckStartup, TypeOK
  <2>2. InLoop(t)' => Fresh(t)'
    BY <1>7, LoopStartsFresh
  <2>3. CASE t = "torrent"
    <3>1. Excess' = Excess
      BY <1>t, <2>1, <2>3, SameExcess
    <3> QED
      BY <1>w, <2>1, <2>2, <2>3, <3>1 DEF WindowInv, StartupComplete
  <2>4. CASE t = "alert"
    <3>1. StaleSlots' = 0 /\ StaleSlots = 0
      BY <2>1, <2>2, <2>4 DEF StaleSlots, InLoop
    <3>2. Missing' = Missing
      BY <2>1 DEF Missing
    <3>3. Window' = Window
      BY <3>2 DEF Window, Before
    <3>4. Excess' = Excess
      BY <2>1, <3>1, <3>3 DEF Excess
    <3>5. /\ pc'["torrent"] = pc["torrent"]
          /\ InLoop("torrent")' = InLoop("torrent") /\ Fresh("torrent")' = Fresh("torrent")
      BY <1>t, <2>1, <2>4, <3>2 DEF InLoop, Fresh, Before
    <3> QED
      BY <1>w, <2>1, <3>4, <3>5 DEF WindowInv, StartupComplete
  <2> QED
    BY <1>t, <2>3, <2>4
<1>8. ASSUME NEW t \in Threads, TestPiece(t) \/ SetPieceDeadline(t) \/ MarkPiece(t)
      PROVE  WindowInv'
  <2>1. /\ UNCHANGED << have, fileFirstPieceForDeadlines >> /\ InLoop(t)
        /\ \A u \in Threads \ {t} : /\ pc'[u] = pc[u] /\ cursor'[u] = cursor[u]
                                   /\ piecesToSet'[u] = piecesToSet[u]
    BY <1>8, <1>t DEF TestPiece, SetPieceDeadline, MarkPiece, InLoop, TypeOK
  <2>2. critical' \cap have' = {}
    BY <1>8, <1>w, <2>1 DEF TestPiece, SetPieceDeadline, MarkPiece
  <2>3. Missing' = Missing
    BY <2>1 DEF Missing
  <2>4. Window' = Window
    BY <2>3 DEF Window, Before
  <2>5. CASE t = "torrent"
    <3>1. pc["torrent"] # "clear" /\ Fresh("torrent")
      BY <1>w, <2>1, <2>5 DEF InLoop
    <3>2. InLoop("torrent")' => Fresh("torrent")'
      BY <1>8, <2>5, <3>1, LoopStaysFresh
    <3>3. critical' \ Window' \subseteq critical \ Window
      <4>1. CASE SetPieceDeadline(t)
        BY <2>5, <3>1, <4>1, FreshSet
      <4>2. CASE TestPiece(t) \/ MarkPiece(t)
        BY <2>4, <4>2 DEF TestPiece, MarkPiece
      <4> QED
        BY <1>8, <4>1, <4>2
    <3>4. StaleSlots' = StaleSlots
      <4>1. pc'["alert"] = pc["alert"] /\ cursor'["alert"] = cursor["alert"]
            /\ piecesToSet'["alert"] = piecesToSet["alert"]
        BY <1>t, <2>1, <2>5
      <4>2. Fresh("alert")' = Fresh("alert") /\ InLoop("alert")' = InLoop("alert")
        BY <2>1, <2>3, <4>1 DEF Fresh, Before, InLoop
      <4> QED
        BY <4>1, <4>2 DEF StaleSlots
    <3>5. StaleSlots' <= StaleSlots
      <4>1. SlotsOK
        BY SlotsInRange
      <4> QED
        BY <3>4, <4>1 DEF SlotsOK
    <3>6. Excess' <= Excess
      BY <3>3, <3>5, ExcessShrinks
    <3> QED
      BY <1>n, <1>w, <2>1, <2>2, <3>1, <3>2, <3>6 DEF WindowInv, StartupComplete
  <2>6. CASE t = "alert"
    <3>1. Excess' <= Excess
      BY <1>8, <2>6, AlertLoopPays
    <3>2. /\ pc'["torrent"] = pc["torrent"]
          /\ InLoop("torrent")' = InLoop("torrent") /\ Fresh("torrent")' = Fresh("torrent")
      BY <1>t, <2>1, <2>3, <2>6 DEF InLoop, Fresh, Before
    <3> QED
      BY <1>n, <1>w, <2>1, <2>2, <3>1, <3>2 DEF WindowInv, StartupComplete
  <2> QED
    BY <1>t, <2>5, <2>6
<1> QED
  BY <1>1, <1>2, <1>3, <1>4, <1>5, <1>6, <1>7, <1>8 DEF Next, UpdateDeadlines

\* For every window, file and number of seeks, at most two windows' worth of
\* deadlines compete for bandwidth.
THEOREM FewDeadlines == Spec => []DeadlinesBounded
<1> DEFINE I == TypeInv /\ FlagInv /\ ChainInv /\ WindowInv
<1>1. Init => I
  BY InitTypeInv, InitFlagInv, InitChainInv, InitWindowInv
<1>2. I /\ [Next]_vars => I'
  <2> SUFFICES ASSUME TypeInv, FlagInv, ChainInv, WindowInv, [Next]_vars PROVE I'
    OBVIOUS
  <2>1. StartupWaits' /\ ArrivalAnswered' /\ ChainLink'
    BY NextStartupWaits, NextArrivalAnswered, NextChainLink DEF FlagInv, ChainInv
  <2>2. TypeInv' /\ FlagInv'
    BY NextTypeInv, NextFlagInv
  <2>3. WindowInv'
    BY <2>2, NextWindowInv DEF FlagInv, ChainInv
  <2> QED
    BY <2>1, <2>2, <2>3 DEF ChainInv
<1>3. I => DeadlinesBounded
  <2> SUFFICES ASSUME TypeInv, WindowInv, StartupComplete, pc["torrent"] = "idle"
               PROVE  Cardinality(critical) <= 2 * PRIORITY_PIECES_COUNT_MIN
    BY DEF DeadlinesBounded
  <2> DEFINE A == critical \ Window
             B == critical \cap Window
  <2>1. IsFiniteSet(A) /\ Cardinality(A) \in Nat /\ StaleSlots \in Nat
    BY ExcessFacts
  <2>2. Cardinality(A) + StaleSlots <= PRIORITY_PIECES_COUNT_MIN
    BY DEF WindowInv, Excess
  <2>3. B \in SUBSET Window /\ critical = A \cup B /\ A \cap B = {}
    OBVIOUS
  <2> HIDE DEF A, B
  <2>4. IsFiniteSet(B) /\ Cardinality(B) <= Cardinality(Window)
    BY <2>3, WindowSmall, FS_Subset
  <2>5. Cardinality(B) \in Nat
    BY <2>4, FS_CardinalityType
  <2>6. Cardinality(A \cup B) = Cardinality(A) + Cardinality(B) - Cardinality(A \cap B)
    BY <2>1, <2>4, FS_Union
  <2>7. Cardinality(A \cap B) = 0
    BY <2>3, FS_EmptySet
  <2>8. Cardinality(critical) = Cardinality(A) + Cardinality(B)
    BY <2>1, <2>3, <2>5, <2>6, <2>7
  <2> QED
    BY <2>1, <2>2, <2>4, <2>5, <2>8, WindowSmall, TuningAssumption
<1> QED
  BY <1>1, <1>2, <1>3, PTL DEF Spec
=============================================================================
