------------------------------ MODULE WatchLife ------------------------------
(***************************************************************************)
(* The life of a watch task: base/torrent/watch/WatchTask.java around its  *)
(* download loop (module WatchTask), startWatch and stopWatch of the       *)
(* service, and the dialog that starts and stops a watch.  The task's      *)
(* thread loads the metadata, notes the torrent in LAST_TORRENT, checks    *)
(* the file and waits for the subtitles; the main thread may interrupt it  *)
(* at any point, and start the next task while it is still on its way out. *)
(***************************************************************************)
EXTENDS TorrentService

VARIABLES
    dialog,     \* the WatchDialog: its WatchInfo and whether it is shown
    stops       \* intents ACTION_STOP_WATCH on their way to the service

NoDialog == [shown |-> "none", film |-> NoFilm, info |-> FALSE, keys |-> << >>]

\* The thread ends.  The service may still hold the task and ask for the fields.
Ended(t) ==
    IF t = watchTask
    THEN [Idle EXCEPT !.torrentFile = thread[t].torrentFile,
                      !.torrentPaused = thread[t].torrentPaused]
    ELSE Idle

Ends(t) == thread' = [thread EXCEPT ![t] = Ended(t)]

-----------------------------------------------------------------------------
(* run(), in the task's thread *)

\* Faulty: the exception is swallowed, and the interrupt with it.
PollInterruptSwallowed(t) ==
    /\ thread[t].pc = "poll" /\ thread[t].interrupted
    /\ UNCHANGED << sessionVars, thread, watchTask, lastTorrent, dialog >>

\* The sleep in isTorrentAdded throws: its torrent is removed.
PollInterrupted(t) ==
    /\ thread[t].pc = "poll" /\ thread[t].interrupted
    /\ RemoveTorrent(thread[t].cur)
    /\ Ends(t)
    /\ UNCHANGED << watchTask, lastTorrent, dialog >>

\* The message ERROR reaches the dialog, if the task is still its own.
DialogFails(t) ==
    dialog' = IF t = watchTask /\ dialog.shown = "open"
              THEN [dialog EXCEPT !.shown = "failed"] ELSE dialog

\* "Metadata don't loaded."  There is no torrentFile to clean up.
NotLoaded(t) ==
    /\ NothingAdded(t)
    /\ Ends(t)
    /\ DialogFails(t)
    /\ UNCHANGED << sessionVars, watchTask, lastTorrent >>

\* The end of loadMetadata, which nothing interrupts.
NoteTorrent(t) ==
    /\ thread[t].pc = "got"
    /\ lastTorrent' = IF thread[t].info THEN lastTorrent ELSE thread[t].cur
    /\ Moves(t, "noted")
    /\ UNCHANGED << sessionVars, watchTask, dialog >>

SetTorrentFile(t) ==
    /\ thread[t].pc = "noted"
    /\ thread' = [thread EXCEPT ![t].pc = "file", ![t].torrentFile = thread[t].cur]
    /\ UNCHANGED << sessionVars, watchTask, lastTorrent, dialog >>

\* resumeTorrent
ResumeForWatch(t) ==
    /\ thread[t].pc = "file"
    /\ paused' = paused \ {thread[t].torrentFile}
    /\ thread' = [thread EXCEPT ![t].pc = "check", ![t].torrentPaused =
                    thread[t].torrentFile \in paused \/ ~thread[t].info]
    /\ UNCHANGED << torrents, metadata, watchTask, lastTorrent, dialog >>

\* setFilePriority, getFileBoundary and getPreparePieceCount succeed.
FileChecked(t) ==
    /\ thread[t].pc = "check"
    /\ thread[t].torrentFile \in metadata
    /\ Moves(t, "subtitles")
    /\ UNCHANGED << sessionVars, watchTask, lastTorrent, dialog >>

\* One of them throws: onTaskStopped, and a torrent that is no download goes.
FileMissing(t) ==
    /\ thread[t].pc = "check"
    /\ IF ~thread[t].info THEN RemoveTorrent(thread[t].torrentFile)
       ELSE IF thread[t].torrentPaused THEN PauseTorrent(thread[t].torrentFile)
       ELSE UNCHANGED sessionVars
    /\ thread' = [(IF thread[t].torrentPaused
                   THEN NotedToPause(thread, thread[t].torrentFile) ELSE thread)
                  EXCEPT ![t] = Ended(t)]
    /\ DialogFails(t)
    /\ UNCHANGED << watchTask, lastTorrent >>

\* loadSubtitles: the list is there already, or nobody provides one.
NoRequest(t) ==
    /\ thread[t].pc = "subtitles"
    /\ Moves(t, "loop")
    /\ UNCHANGED << sessionVars, watchTask, lastTorrent, dialog >>

RequestSubtitles(t) ==
    /\ thread[t].pc = "subtitles"
    /\ thread' = [thread EXCEPT ![t].pc = "requested", ![t].reply = TRUE]
    /\ UNCHANGED << sessionVars, watchTask, lastTorrent, dialog >>

\* The answer or an error, in another thread: notify wakes only a thread that waits.
SubtitlesAnswered(t) ==
    /\ thread[t].reply
    /\ thread' = [thread EXCEPT ![t].reply = FALSE, ![t].pc = IF @ = "wait" THEN "loop" ELSE @]
    /\ UNCHANGED << sessionVars, watchTask, lastTorrent, dialog >>

\* Thread.interrupted(), or wait() itself, sees an interrupt of before.
WaitForSubtitles(t) ==
    /\ thread[t].pc = "requested"
    /\ IF thread[t].interrupted THEN Ends(t) ELSE Moves(t, "wait")
    /\ UNCHANGED << sessionVars, watchTask, lastTorrent, dialog >>

\* The waits for subtitles and of the loop throw when they are interrupted.
WaitInterrupted(t) ==
    /\ thread[t].pc \in {"wait", "loop"} /\ thread[t].interrupted
    /\ Ends(t)
    /\ UNCHANGED << sessionVars, watchTask, lastTorrent, dialog >>

\* FINISHED: the thread ends by itself.
LoopFinished(t) ==
    /\ thread[t].pc = "loop"
    /\ Ends(t)
    /\ UNCHANGED << sessionVars, watchTask, lastTorrent, dialog >>

\* A step that a running thread takes sooner or later.
TaskStep(t) ==
    \/ AddTorrentStep(t) /\ UNCHANGED dialog
    \/ PollInterrupted(t) \/ NotLoaded(t) \/ NoteTorrent(t) \/ SetTorrentFile(t)
    \/ ResumeForWatch(t) \/ FileChecked(t) \/ FileMissing(t) \/ NoRequest(t)
    \/ RequestSubtitles(t) \/ WaitForSubtitles(t) \/ WaitInterrupted(t)

-----------------------------------------------------------------------------
(* The main thread *)

\* addWatch: the torrent of another film that was watched is removed.
AddWatch(film) ==
    /\ dialog.shown = "none"
    /\ IF lastTorrent # NoKey /\ lastTorrent.film # film
       THEN RemoveTorrent(lastTorrent) /\ lastTorrent' = NoKey
       ELSE UNCHANGED << sessionVars, lastTorrent >>
    /\ dialog' = [shown |-> "opening", film |-> film, info |-> FALSE,
                  keys |-> KeysOf(film, FALSE)]
    /\ UNCHANGED << watchTask, thread >>

\* showWatchDialog for a download.
WatchDownload(film, saved) ==
    /\ dialog.shown = "none"
    /\ dialog' = [shown |-> "opening", film |-> film, info |-> TRUE,
                  keys |-> KeysOf(film, saved)]
    /\ UNCHANGED << sessionVars, watchTask, lastTorrent, thread >>

\* Faulty: a new task although one is running.
StartWatchAlways(t) ==
    /\ dialog.shown \in {"opening", "open"}
    /\ dialog' = [dialog EXCEPT !.shown = "open"]
    /\ ~Alive(t) /\ t # watchTask
    /\ watchTask' = t
    /\ thread' = [thread EXCEPT ![t] = Started(dialog.film, dialog.info, dialog.keys)]
    /\ UNCHANGED << sessionVars, lastTorrent >>

\* onClientConnected -> startWatch, when the dialog is shown and whenever it is
\* shown again; a task that runs only gets a listener.
StartWatch(t) ==
    /\ dialog.shown \in {"opening", "open"}
    /\ dialog' = [dialog EXCEPT !.shown = "open"]
    /\ \/ isWatchAlive /\ UNCHANGED << watchTask, thread >>
       \/ /\ ~isWatchAlive /\ ~Alive(t)
          /\ watchTask' = t
          /\ thread' = [thread EXCEPT ![t] =
                            Started(dialog.film, dialog.info, dialog.keys)]
    /\ UNCHANGED << sessionVars, lastTorrent >>

\* close sends the service an intent; until that arrives another dialog may join
\* the task.
CloseDialog ==
    /\ dialog.shown \in {"open", "failed"}
    /\ dialog' = NoDialog
    /\ stops' = stops + 1
    /\ UNCHANGED << sessionVars, watchTask, lastTorrent, thread >>

\* stopWatch: interrupt with its clean-up, which finds the task still running, if
\* it is, and then pauses nothing.
StopWatch ==
    /\ stops > 0
    /\ stops' = stops - 1
    /\ IF watchTask = NoTask THEN UNCHANGED << sessionVars, thread >>
       ELSE /\ IF thread[watchTask].torrentPaused
               THEN PauseTorrent(thread[watchTask].torrentFile)
               ELSE UNCHANGED sessionVars
            /\ thread' = [thread EXCEPT ![watchTask] =
                            IF Alive(watchTask) THEN [@ EXCEPT !.interrupted = TRUE]
                            ELSE Idle]
    /\ watchTask' = NoTask
    /\ UNCHANGED << lastTorrent, dialog >>

\* onError dismisses the dialog; the service keeps the task.
DialogError ==
    /\ dialog.shown = "failed"
    /\ dialog' = NoDialog
    /\ UNCHANGED << sessionVars, watchTask, lastTorrent, thread >>
=============================================================================
