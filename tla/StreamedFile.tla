---------------------------- MODULE StreamedFile ----------------------------
(***************************************************************************)
(* What both applications promise of a film that is played while it is     *)
(* downloaded: pieces are never lost, the player starts only when the      *)
(* pieces it needs at both ends of the file are on disk, a position is     *)
(* only chosen by a user who sees the film, and a download is called       *)
(* complete only when everything from the position on is there, and for    *)
(* good.  Deadlines (desktop) and WatchTask (Android) implement this.      *)
(***************************************************************************)
EXTENDS Integers

CONSTANTS
    Pieces,     \* pieces of the torrent
    Needed,     \* what the player needs to start
    First, Last \* pieces of the file

VARIABLES
    onDisk,
    playing,    \* the player was told to start
    position,   \* the piece from which the file is downloaded in order
    complete    \* the download was declared finished

vars == << onDisk, playing, position, complete >>

Init ==
    /\ onDisk \subseteq Pieces
    /\ playing = FALSE
    /\ position = First
    /\ complete = FALSE

Arrive ==
    /\ \E p \in Pieces \ onDisk : onDisk' = onDisk \cup {p}
    /\ UNCHANGED << playing, position, complete >>

Play ==
    /\ ~playing /\ Needed \subseteq onDisk
    /\ playing' = TRUE
    /\ UNCHANGED << onDisk, position, complete >>

\* The position may lie one piece behind the file: a seek to its very end.
Seek ==
    /\ playing /\ ~complete
    /\ position' \in Pieces \cup {Last + 1}
    /\ UNCHANGED << onDisk, playing, complete >>

Complete ==
    /\ playing /\ ~complete
    /\ \A p \in position .. Last : p \in onDisk
    /\ complete' = TRUE
    /\ UNCHANGED << onDisk, playing, position >>

Next == Arrive \/ Play \/ Seek \/ Complete

Spec == Init /\ [][Next]_vars
=============================================================================
