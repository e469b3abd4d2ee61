------------------------ MODULE TorrentIODeviceProofs ------------------------
(***************************************************************************)
(* readData hands out only bytes that are on disk, for every piece length, *)
(* file size and chunk size, if the file starts at a piece boundary.       *)
(*                                                                         *)
(* The arithmetic is in RangeSound: in an aligned file the pieces that     *)
(* isRangeDownloaded asks for cover the bytes of the range.  The invariant *)
(* needs two facts about reopening: the count of opens never falls behind  *)
(* a reader's, and between QIODevice::close and file.close, which rewinds  *)
(* the position, the device is not open.                                   *)
(***************************************************************************)
EXTENDS TorrentIODevice, TLAPS

\* Dividing by the piece length is monotone.
LEMMA DivMonotone ==
    ASSUME NEW m \in Nat, NEW n \in Nat, NEW d \in Nat \ {0}, m <= n
    PROVE  m \div d <= n \div d
BY SMT

\* A multiple of the piece length can be divided separately.
LEMMA DivAligned ==
    ASSUME NEW m \in Nat, NEW n \in Nat, NEW d \in Nat \ {0}, m % d = 0
    PROVE  (m + n) \div d = m \div d + n \div d
BY SMT

\* Quotients are natural numbers.
LEMMA DivNat ==
    ASSUME NEW n \in Nat, NEW d \in Nat \ {0}
    PROVE  n \div d \in Nat
BY SMT

\* isRangeDownloaded is sound for aligned files.
LEMMA RangeSound ==
    ASSUME Aligned, NEW begin \in Nat, NEW end \in Nat, IsRangeDownloaded(begin, end)
    PROVE  RangeOnDisk(begin, end)
<1> SUFFICES ASSUME NEW byte \in begin .. end - 1
             PROVE  PieceOf(byte) \in have
    BY DEF RangeOnDisk
<1> DEFINE i == byte \div PieceLength + fileVeryFirstPiece
<1>1. byte \in Nat /\ begin <= byte /\ byte <= end
    OBVIOUS
<1>2. PieceLength \in Nat \ {0} /\ FileOffset \in Nat
    BY FileAssumption
<1>3. PieceOf(byte) = i
  <2>1. FileOffset % PieceLength = 0
    BY DEF Aligned
  <2>2. (FileOffset + byte) \div PieceLength
          = FileOffset \div PieceLength + byte \div PieceLength
    BY ONLY <1>1, <1>2, <2>1, DivAligned
  <2>3. FileOffset \div PieceLength \in Nat /\ byte \div PieceLength \in Nat
    BY ONLY <1>1, <1>2, DivNat
  <2> QED
    BY <2>2, <2>3 DEF PieceOf, fileVeryFirstPiece
<1>4. /\ begin \div PieceLength <= byte \div PieceLength
      /\ byte \div PieceLength <= end \div PieceLength
    BY <1>1, <1>2, DivMonotone
<1>5. /\ begin \div PieceLength \in Nat /\ byte \div PieceLength \in Nat
      /\ end \div PieceLength \in Nat /\ fileVeryFirstPiece \in Nat
    BY <1>1, <1>2, DivNat DEF fileVeryFirstPiece
<1>6. i \in begin \div PieceLength + fileVeryFirstPiece ..
            end \div PieceLength + fileVeryFirstPiece
    BY <1>4, <1>5
<1> QED
    BY <1>3, <1>6 DEF IsRangeDownloaded

\* What a reader may rely on stays true as pieces arrive.
LEMMA RangeMonotone ==
    ASSUME NEW begin, NEW end, RangeOnDisk(begin, end), have \subseteq have'
    PROVE  RangeOnDisk(begin, end)'
BY DEF RangeOnDisk, PieceOf

-----------------------------------------------------------------------------
\* The types the argument depends on.
ReadTypes ==
    /\ opens \in Nat
    /\ pos \in Nat
    /\ maxSize \in Nat
    /\ opening \in Nat

OpeningBounded == opening <= opens

ClosedBeforeRewind == player = "closeFile" => ~isOpen

ReadInv == ReadTypes /\ OpeningBounded /\ ClosedBeforeRewind /\ ReadsOnlyDownloaded

\* A new device satisfies the invariant.
LEMMA ReadInvInit == Init => ReadInv
BY FileAssumption
   DEF Init, ReadInv, ReadTypes, OpeningBounded, ClosedBeforeRewind, ReadsOnlyDownloaded

\* Every step of the three threads preserves it: only the two checks bring the
\* reader to "read", and what they found stays true.
LEMMA ReadInvNext == ReadInv /\ [Next]_vars => ReadInv'
<1> SUFFICES ASSUME ReadInv, [Next]_vars PROVE ReadInv'
    OBVIOUS
<1> USE DEF ReadInv
<1>a. FileSize \in Nat /\ ChunkSizes \subseteq Nat
    BY FileAssumption
<1>1. CASE \E p \in Pieces : PieceFinished(p)
  <2> PICK p \in Pieces : PieceFinished(p)
    BY <1>1
  <2>1. ReadTypes' /\ OpeningBounded' /\ ClosedBeforeRewind'
    BY DEF PieceFinished, readVars, ReadTypes, OpeningBounded, ClosedBeforeRewind
  <2>2. ReadsOnlyDownloaded'
    BY RangeMonotone DEF PieceFinished, readVars, ReadsOnlyDownloaded, RangeOnDisk, PieceOf
  <2> QED BY <2>1, <2>2
<1>2. CASE CancelTorrent
  BY <1>2 DEF CancelTorrent, readVars, ReadTypes, OpeningBounded, ClosedBeforeRewind,
              ReadsOnlyDownloaded, RangeOnDisk
<1>3. CASE \E p \in 0 .. FileSize : Seek(p)
  BY <1>3, <1>a DEF Seek, readVars, ReadTypes, OpeningBounded, ClosedBeforeRewind,
              ReadsOnlyDownloaded
<1>4. CASE \E size \in ChunkSizes : ReadData(size)
  BY <1>4, <1>a DEF ReadData, ReadTypes, OpeningBounded, ClosedBeforeRewind,
              ReadsOnlyDownloaded
<1>5. CASE FirstCheck
  <2>1. ReadTypes' /\ OpeningBounded' /\ ClosedBeforeRewind'
    BY <1>5 DEF FirstCheck, ReaderMoves, ReadTypes, OpeningBounded, ClosedBeforeRewind
  <2>2. ASSUME Aligned, readPc' = "read" PROVE RangeOnDisk(pos, pos + maxSize)
    <3>1. CheckDownloaded(pos, pos + maxSize)
      BY <1>5, <2>2 DEF FirstCheck, ReaderMoves
    <3>2. pos \in Nat /\ pos + maxSize \in Nat
      BY DEF ReadTypes
    <3> QED BY <2>2, <3>1, <3>2, RangeSound DEF CheckDownloaded
  <2>3. pos' = pos /\ have' = have /\ maxSize' = maxSize
    BY <1>5 DEF FirstCheck, ReaderMoves, ReadTypes
  <2>4. ReadsOnlyDownloaded'
    BY <2>2, <2>3 DEF ReadsOnlyDownloaded, RangeOnDisk, Aligned, PieceOf
  <2> QED BY <2>1, <2>4
<1>6. CASE BufferUnderrun
  BY <1>6 DEF BufferUnderrun, ReaderMoves, ReadTypes, OpeningBounded,
              ClosedBeforeRewind, ReadsOnlyDownloaded
<1>16. CASE EnterLoop
  BY <1>16 DEF EnterLoop, ReaderMoves, ReadTypes, OpeningBounded,
              ClosedBeforeRewind, ReadsOnlyDownloaded
<1>7. CASE WakeUp
  BY <1>7 DEF WakeUp, ReaderMoves, ReadTypes, OpeningBounded,
              ClosedBeforeRewind, ReadsOnlyDownloaded
<1>8. CASE Recheck
  <2>1. ReadTypes' /\ OpeningBounded' /\ ClosedBeforeRewind'
    BY <1>8 DEF Recheck, ReaderMoves, ReadTypes, OpeningBounded, ClosedBeforeRewind
  <2>2. ASSUME Aligned, readPc' = "read" PROVE RangeOnDisk(pos, pos + maxSize)
    <3>1. CheckDownloaded(pos, pos + maxSize)
      BY <1>8, <2>2 DEF Recheck, ReaderMoves, ReadTypes
    <3>2. pos \in Nat /\ pos + maxSize \in Nat
      BY DEF ReadTypes
    <3> QED BY <2>2, <3>1, <3>2, RangeSound DEF CheckDownloaded
  <2>3. pos' = pos /\ have' = have /\ maxSize' = maxSize
    BY <1>8 DEF Recheck, ReaderMoves, ReadTypes
  <2>4. ReadsOnlyDownloaded'
    BY <2>2, <2>3 DEF ReadsOnlyDownloaded, RangeOnDisk, Aligned, PieceOf
  <2> QED BY <2>1, <2>4
<1>9. CASE FileRead
  BY <1>9, <1>a DEF FileRead, ReaderMoves, ReadTypes, OpeningBounded,
              ClosedBeforeRewind, ReadsOnlyDownloaded
<1>10. CASE CloseAbort
  BY <1>10 DEF CloseAbort, readVars, ReadTypes, OpeningBounded, ClosedBeforeRewind,
              ReadsOnlyDownloaded, RangeOnDisk
<1>11. CASE CloseStep
  BY <1>11 DEF CloseStep, CloseDevice, CloseFile, readVars, ReadTypes, OpeningBounded,
              ClosedBeforeRewind, ReadsOnlyDownloaded
<1>12. CASE Open
  BY <1>12 DEF Open, readVars, ReadTypes, OpeningBounded, ClosedBeforeRewind,
              ReadsOnlyDownloaded
<1>13. CASE Stopped
  BY <1>13 DEF Stopped, readVars, ReadTypes, OpeningBounded, ClosedBeforeRewind,
              ReadsOnlyDownloaded, RangeOnDisk
<1>14. CASE ResetPlayer
  BY <1>14 DEF ResetPlayer, readVars, ReadTypes, OpeningBounded, ClosedBeforeRewind,
              ReadsOnlyDownloaded
<1>15. CASE UNCHANGED vars
  BY <1>15 DEF vars, readVars, ReadTypes, OpeningBounded, ClosedBeforeRewind,
              ReadsOnlyDownloaded, RangeOnDisk
<1> QED
  BY <1>1, <1>2, <1>3, <1>4, <1>5, <1>6, <1>7, <1>8, <1>9, <1>10, <1>11, <1>12,
     <1>13, <1>14, <1>15, <1>16 DEF Next, ReaderStep

\* readData (TorrentIODevice.cpp:58-94) reads no byte of an aligned file that
\* is not on disk, whatever the player thread does meanwhile.
THEOREM ReadsAreDownloaded == Spec => []ReadsOnlyDownloaded
<1>1. ReadInv => ReadsOnlyDownloaded
    BY DEF ReadInv
<1> QED
    BY <1>1, ReadInvInit, ReadInvNext, PTL DEF Spec

\* Every step keeps the types and the relation of the mutex to readData.
LEMMA TypeOKNext == TypeOK /\ [Next]_vars => TypeOK'
<1> SUFFICES ASSUME TypeOK, [Next]_vars PROVE TypeOK'
    OBVIOUS
<1> USE FileAssumption DEF TypeOK
<1>1. CASE \E p \in Pieces : PieceFinished(p)
  BY <1>1 DEF PieceFinished, readVars
<1>2. CASE \E p \in 0 .. FileSize : Seek(p)
  BY <1>2 DEF Seek, readVars
<1>3. CASE \E size \in ChunkSizes : ReadData(size)
  BY <1>3 DEF ReadData
<1>4. CASE FirstCheck
  <2>1. readPc' \in {"read", "underrun"}
    BY <1>4 DEF FirstCheck, ReaderMoves
  <2> QED BY <1>4, <2>1 DEF FirstCheck, ReaderMoves
<1>13. CASE BufferUnderrun
  BY <1>13 DEF BufferUnderrun, ReaderMoves
<1>5. CASE EnterLoop
  BY <1>5 DEF EnterLoop, ReaderMoves
<1>6. CASE WakeUp
  BY <1>6 DEF WakeUp, ReaderMoves
<1>7. CASE Recheck
  BY <1>7 DEF Recheck, ReaderMoves
<1>8. CASE FileRead
  BY <1>8 DEF FileRead, ReaderMoves
<1>9. CASE CancelTorrent
  BY <1>9 DEF CancelTorrent, readVars
<1>14. CASE CloseAbort \/ Stopped
  <2>1. abort' \in BOOLEAN
    BY <1>14 DEF CloseAbort, Stopped, AbortAfterWait
  <2>2. player' \in {"idle", "close"} /\ UNCHANGED << have, active, isOpen, opens, pos, mutex, readVars >>
    BY <1>14 DEF CloseAbort, Stopped
  <2> QED BY <2>1, <2>2 DEF readVars
<1>10. CASE CloseStep
  <2>1. CASE CloseDevice
    BY <2>1 DEF CloseDevice, readVars
  <2>2. CASE CloseFile
    BY <2>2 DEF CloseFile, readVars
  <2> QED BY <1>10, <2>1, <2>2 DEF CloseStep
<1>11. CASE Open
  BY <1>11 DEF Open, readVars
<1>15. CASE ResetPlayer
  <2>1. isOpen' \in BOOLEAN /\ abort' \in BOOLEAN
    BY <1>15 DEF ResetPlayer
  <2>2. pos' \in 0 .. FileSize
    BY <1>15 DEF ResetPlayer
  <2> QED BY <1>15, <2>1, <2>2 DEF ResetPlayer, readVars
<1>12. CASE UNCHANGED vars
  BY <1>12 DEF vars, readVars
<1> QED
  BY <1>1, <1>2, <1>3, <1>4, <1>5, <1>6, <1>7, <1>8, <1>9, <1>10, <1>11, <1>12,
     <1>13, <1>14, <1>15 DEF Next, ReaderStep

\* The mutex tells a waiting reader from others (TorrentIODevice.cpp:117-124) for
\* any file, any chunks and any number of openings.
THEOREM DeviceTypes == Spec => []TypeOK
<1>1. Init => TypeOK
  <2> SUFFICES ASSUME Init PROVE TypeOK
    OBVIOUS
  <2>1. /\ active \in BOOLEAN /\ isOpen \in BOOLEAN /\ abort \in BOOLEAN
        /\ mutex \in BOOLEAN
    BY DEF Init
  <2>2. opens \in 0 .. MaxOpens /\ pos \in 0 .. FileSize /\ opening \in 0 .. opens
    BY FileAssumption DEF Init
  <2> QED BY <2>1, <2>2 DEF Init, TypeOK
<1> QED
    BY <1>1, TypeOKNext, PTL DEF Spec
=============================================================================
