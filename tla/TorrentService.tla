--------------------------- MODULE TorrentService ---------------------------
(***************************************************************************)
(* The torrents of the Android application: the table of                   *)
(* base/torrent/TorrentService.java and the loop of TorrentUtil.java that  *)
(* adds a film's torrent under one key after the other and waits for its   *)
(* metadata.  Watch tasks and AddToDownloadsThreads run this loop side by  *)
(* side, on the same keys, and without a lock.                             *)
(***************************************************************************)
EXTENDS Integers, Sequences

CONSTANTS
    Films,
    Names,      \* Names[film]: the torrent's url and magnet, in the order tried
    Tasks,      \* threads of WatchTask
    Adders,     \* threads of AddToDownloadsThread
    NoFilm, NoKey, NoTask

ASSUME ServiceAssumption ==
    /\ NoFilm \notin Films
    /\ \A film \in Films : Names[film] \in Seq({"url", "magnet"})
    /\ Tasks \cap Adders = {} /\ NoTask \notin Tasks

\* A key of the service's table; "file" is the saved metadata of a download.
Key == [film : Films, name : {"file", "url", "magnet"}]

ASSUME KeyAssumption == NoKey \notin Key

KeyOf(film, name) == [film |-> film, name |-> name]

Threads == Tasks \cup Adders

VARIABLES
    torrents,   \* keys in the table of the service
    metadata,   \* those whose metadata is there
    paused,     \* those libtorrent has paused
    watchTask,  \* the service's watch task, or NoTask
    lastTorrent,\* the preference LAST_TORRENT, or NoKey
    thread      \* state of every thread

sessionVars == << torrents, metadata, paused >>

\* A thread that does not run.  Of its fields, info stands for the argument:
\* isDownloads() of a watch, or whether the id of a download is known.
Idle == [pc |-> "idle", film |-> NoFilm, info |-> FALSE, keys |-> << >>,
         cur |-> NoKey, torrentFile |-> NoKey, torrentPaused |-> FALSE,
         interrupted |-> FALSE, reply |-> FALSE, state |-> "none"]

Started(film, info, keys) ==
    [Idle EXCEPT !.pc = "avail", !.film = film, !.info = info, !.keys = keys]

\* The keys a thread tries: the saved metadata of a download first.
KeysOf(film, saved) ==
    (IF saved THEN << KeyOf(film, "file") >> ELSE << >>)
        \o [i \in DOMAIN Names[film] |-> KeyOf(film, Names[film][i])]

\* getAvailableTorrentFile: the first key with metadata, if any.
FirstAvailable(keys, key) ==
    \E i \in DOMAIN keys :
        /\ keys[i] = key /\ key \in metadata
        /\ \A j \in 1 .. i - 1 : keys[j] \notin metadata

NoneAvailable(keys) == \A i \in DOMAIN keys : keys[i] \notin metadata

-----------------------------------------------------------------------------
(* Operations of the service *)

\* addTorrent: nothing happens if the key is there, or if libtorrent refuses it
\* or the file is gone; a file has its metadata.
AddTorrent(key) ==
    \/ /\ torrents' = torrents \cup {key}
       /\ metadata' = IF key.name = "file" THEN metadata \cup {key} ELSE metadata
       /\ UNCHANGED paused
    \/ key \notin torrents /\ UNCHANGED sessionVars

RemoveTorrent(key) ==
    /\ torrents' = torrents \ {key}
    /\ metadata' = metadata \ {key}
    /\ paused' = paused \ {key}

\* Thread.isAlive
Alive(t) == thread[t].pc # "idle"

isWatchAlive == watchTask \in Tasks /\ Alive(watchTask)

isWatchingNow(key) == isWatchAlive /\ thread[watchTask].torrentFile = key

\* pauseTorrent: a torrent that is being watched is not paused, ...
PauseTorrent(key) ==
    /\ paused' = IF isWatchingNow(key) THEN paused ELSE paused \cup ({key} \cap torrents)
    /\ UNCHANGED << torrents, metadata >>

\* ... its task notes to do so when it stops.
NotedToPause(threads, key) ==
    IF isWatchingNow(key) /\ key \in torrents
    THEN [threads EXCEPT ![watchTask].torrentPaused = TRUE] ELSE threads

\* libtorrent has got the metadata of a torrent.
MetadataArrives(key) ==
    /\ key \in torrents \ metadata
    /\ metadata' = metadata \cup {key}
    /\ UNCHANGED << torrents, paused, watchTask, lastTorrent, thread >>

-----------------------------------------------------------------------------
(* TorrentUtil.addTorrent, step by step *)

Moves(t, pc) == thread' = [thread EXCEPT ![t].pc = pc]

GetAvailable(t) ==
    /\ thread[t].pc = "avail"
    /\ \/ \E key \in Key :
            /\ FirstAvailable(thread[t].keys, key)
            /\ thread' = [thread EXCEPT ![t].pc = "got", ![t].cur = key]
       \/ NoneAvailable(thread[t].keys) /\ Moves(t, "add")
    /\ UNCHANGED << sessionVars, watchTask, lastTorrent >>

\* isTorrentAdded with the next key.
AddNext(t) ==
    /\ thread[t].pc = "add" /\ thread[t].keys # << >>
    /\ LET key == Head(thread[t].keys) IN
       /\ AddTorrent(key)
       /\ thread' = [thread EXCEPT ![t].pc = "poll", ![t].cur = key,
                                   ![t].keys = Tail(@)]
    /\ UNCHANGED << watchTask, lastTorrent >>

\* Faulty: the loop does not look at the time.
PollForever(t) ==
    /\ thread[t].pc = "poll" /\ ~thread[t].interrupted
    /\ thread[t].cur \in metadata
    /\ Moves(t, "got")
    /\ UNCHANGED << sessionVars, watchTask, lastTorrent >>

\* hasMetadata after a sleep; without it the loop goes on until its time is up.
Poll(t) ==
    /\ thread[t].pc = "poll" /\ ~thread[t].interrupted
    /\ Moves(t, IF thread[t].cur \in metadata THEN "got" ELSE "expired")
    /\ UNCHANGED << sessionVars, watchTask, lastTorrent >>

\* The time is up: the torrent is removed, whoever else waits for it.
Expired(t) ==
    /\ thread[t].pc = "expired"
    /\ RemoveTorrent(thread[t].cur)
    /\ Moves(t, "add")
    /\ UNCHANGED << watchTask, lastTorrent >>

AddTorrentStep(t) == GetAvailable(t) \/ AddNext(t) \/ Poll(t) \/ Expired(t)

\* addTorrent returns null: no key is left.
NothingAdded(t) == thread[t].pc = "add" /\ thread[t].keys = << >>
=============================================================================
