------------------------------ MODULE Downloads ------------------------------
(***************************************************************************)
(* The downloads of the Android application: the rows of the table         *)
(* Downloads, the operations of DownloadsClient on them (main thread), and *)
(* AddToDownloadsThread, which brings the torrent of a row into the        *)
(* session: for a new row, and for every row after a restart.              *)
(***************************************************************************)
EXTENDS TorrentService

VARIABLES
    rows,       \* rows[film]: state of the film's row, and whether a file for
                \* its metadata is named
    main        \* handler of DownloadsClient that the main thread is in

NoRow == [state |-> "none", saved |-> FALSE]

\* The main thread is in none.
NoHandler == [pc |-> "idle", op |-> "none", film |-> NoFilm, key |-> NoKey, saved |-> FALSE]

HasRow(film) == rows[film].state # "none"

\* Downloads.update writes every column, if the row is still there.
Updated(film, row) ==
    IF HasRow(film) THEN [rows EXCEPT ![film] = row] ELSE rows

-----------------------------------------------------------------------------
(* AddToDownloadsThread *)

\* addTorrent found nothing: the error reaches the row only if the id is known,
\* and downloadsAdd does not ask insert for it.
AddFailed(t) ==
    /\ NothingAdded(t)
    /\ rows' = IF thread[t].info
               THEN Updated(thread[t].film, [rows[thread[t].film] EXCEPT !.state = "ERROR"])
               ELSE rows
    /\ thread' = [thread EXCEPT ![t] = Idle]
    /\ UNCHANGED << sessionVars, watchTask, lastTorrent >>

\* setFilePriority finds the film in the torrent, and checking waits.
FileFound(t) ==
    /\ thread[t].pc = "got" /\ thread[t].cur \in metadata
    /\ Moves(t, "query")
    /\ UNCHANGED << sessionVars, watchTask, lastTorrent, rows >>

\* It does not, or the torrent is gone: the row is deleted, if its id is known.
FileNotFound(t) ==
    /\ thread[t].pc = "got"
    /\ rows' = IF thread[t].info THEN [rows EXCEPT ![thread[t].film] = NoRow] ELSE rows
    /\ thread' = [thread EXCEPT ![t] = Idle]
    /\ UNCHANGED << sessionVars, watchTask, lastTorrent >>

\* The query: a row that is gone leaves an empty cursor, not none.
QueryRow(t) ==
    /\ thread[t].pc = "query"
    /\ IF HasRow(thread[t].film)
       THEN thread' = [thread EXCEPT ![t].pc = "save", ![t].state = rows[thread[t].film].state]
       ELSE thread' = [thread EXCEPT ![t] = Idle]
    /\ UNCHANGED << sessionVars, watchTask, lastTorrent, rows >>

\* saveMetadata, and the update with what the query had read, if the metadata
\* could be saved now or the size of the film was not known.
SaveMetadata(t) ==
    /\ thread[t].pc = "save"
    /\ rows' \in {rows, Updated(thread[t].film, [state |-> thread[t].state, saved |-> TRUE])}
    /\ Moves(t, "pause")
    /\ UNCHANGED << sessionVars, watchTask, lastTorrent >>

\* Faulty: a row that was paused meanwhile is not looked at.
ForgetPause(t) ==
    /\ thread[t].pc = "pause"
    /\ thread' = [thread EXCEPT ![t] = Idle]
    /\ UNCHANGED << sessionVars, watchTask, lastTorrent, rows >>

\* The row was paused while the metadata was loaded.
PauseIfPaused(t) ==
    /\ thread[t].pc = "pause"
    /\ IF thread[t].state = "PAUSED"
       THEN /\ PauseTorrent(thread[t].cur)
            /\ thread' = [NotedToPause(thread, thread[t].cur) EXCEPT ![t] = Idle]
       ELSE /\ UNCHANGED sessionVars
            /\ thread' = [thread EXCEPT ![t] = Idle]
    /\ UNCHANGED << watchTask, lastTorrent, rows >>

AdderStep(t) ==
    \/ AddTorrentStep(t) /\ UNCHANGED rows
    \/ AddFailed(t) \/ FileFound(t) \/ FileNotFound(t) \/ QueryRow(t)
    \/ SaveMetadata(t) \/ PauseIfPaused(t)

-----------------------------------------------------------------------------
(* DownloadsClient, in the main thread *)

\* Faulty: the torrent that was watched stays LAST_TORRENT.
LastTorrentKept(film) == lastTorrent

\* A torrent that becomes a download is no longer the one to remove.
LastTorrentAfterAdd(film) ==
    IF lastTorrent # NoKey /\ lastTorrent.film = film THEN NoKey ELSE lastTorrent

\* downloadsAdd: a film that was watched last is taken over from the cache, and
\* the file for its metadata named, whether that can be saved or not.
DownloadsAdd(film, t) ==
    /\ ~HasRow(film) /\ ~Alive(t)
    /\ LET watched == lastTorrent # NoKey /\ lastTorrent.film = film IN
       /\ IF watched THEN RemoveTorrent(lastTorrent) ELSE UNCHANGED sessionVars
       /\ lastTorrent' = LastTorrentAfterAdd(film)
       /\ rows' = [rows EXCEPT ![film] = [state |-> "DOWNLOADING", saved |-> watched]]
       /\ thread' = [thread EXCEPT ![t] = Started(film, FALSE, KeysOf(film, watched))]
    /\ UNCHANGED << watchTask, main >>

RowKeys(film) == KeysOf(film, rows[film].saved)

\* A handler begins with what the list has read of the row, and with
\* getAvailableTorrentFile; without a torrent there is nothing to call.
HandlerBegins(op, film) ==
    /\ \/ /\ NoneAvailable(RowKeys(film))
          /\ main' = [pc |-> "write", op |-> op, film |-> film, key |-> NoKey,
                      saved |-> rows[film].saved]
       \/ \E key \in Key :
            /\ FirstAvailable(RowKeys(film), key)
            /\ main' = [pc |-> "call", op |-> op, film |-> film, key |-> key,
                        saved |-> rows[film].saved]
    /\ UNCHANGED << sessionVars, watchTask, lastTorrent, thread, rows >>

DownloadsPause(film) == rows[film].state = "DOWNLOADING" /\ HandlerBegins("pause", film)

DownloadsResume(film) == rows[film].state = "PAUSED" /\ HandlerBegins("resume", film)

DownloadsRemove(film) == HasRow(film) /\ HandlerBegins("remove", film)

\* The call of the service.  Other threads run before and after it.
HandlerCalls ==
    /\ main.pc = "call"
    /\ main' = [main EXCEPT !.pc = "write"]
    /\ \/ /\ main.op = "pause"
          /\ PauseTorrent(main.key)
          /\ thread' = NotedToPause(thread, main.key)
       \/ /\ main.op = "resume"
          /\ paused' = paused \ {main.key}
          /\ UNCHANGED << torrents, metadata, thread >>
       \/ main.op = "remove" /\ RemoveTorrent(main.key) /\ UNCHANGED thread
    /\ UNCHANGED << watchTask, lastTorrent, rows >>

\* The row, with every column as it was when the handler began.
HandlerWrites ==
    /\ main.pc = "write"
    /\ main' = NoHandler
    /\ rows' = IF main.op = "remove" THEN [rows EXCEPT ![main.film] = NoRow]
               ELSE Updated(main.film,
                      [state |-> IF main.op = "pause" THEN "PAUSED" ELSE "DOWNLOADING",
                       saved |-> main.saved])
    /\ UNCHANGED << sessionVars, watchTask, lastTorrent, thread >>

\* checkState of the list, once a second: libtorrent has the whole film.
CheckState(film) ==
    /\ rows[film].state \in {"DOWNLOADING", "PAUSED"}
    /\ ~NoneAvailable(RowKeys(film))
    /\ rows' = [rows EXCEPT ![film].state = "FINISHED"]
    /\ UNCHANGED << sessionVars, watchTask, lastTorrent, thread, main >>
=============================================================================
