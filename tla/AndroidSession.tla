--------------------------- MODULE AndroidSession ---------------------------
(***************************************************************************)
(* The Android application as a whole: watch tasks (WatchLife), downloads  *)
(* (Downloads) and the exit or death of the process, after which only the  *)
(* rows, the saved metadata and LAST_TORRENT are left.                     *)
(***************************************************************************)
EXTENDS WatchLife, Downloads, FiniteSets

CONSTANTS
    AdderOf,        \* AdderOf[film]: threads that may add it at a time
    MaxActions      \* bound on what happens in the main window

\* A thread is made for one film.
ASSUME AdderAssumption ==
    /\ AdderOf \in [Films -> SUBSET Adders] /\ MaxActions \in Nat
    /\ \A f, g \in Films : AdderOf[f] \cap AdderOf[g] # {} => f = g

VARIABLES
    actions,        \* how much that is so far
    watched,        \* downloads that a watch task has had to do with
    abandoned,      \* new downloads whose thread gave up
    leftover,       \* downloads that began with something of an earlier one left
    crossed         \* downloads whose thread read the row during their last pause

historyVars == << watched, abandoned, leftover, crossed >>
vars == << torrents, metadata, paused, watchTask, lastTorrent, thread, dialog, stops,
           rows, main, actions, historyVars >>

Init ==
    /\ torrents = {} /\ metadata = {} /\ paused = {}
    /\ watchTask = NoTask
    /\ lastTorrent = NoKey
    /\ thread = [t \in Threads |-> Idle]
    /\ dialog = NoDialog /\ stops = 0
    /\ rows = [film \in Films |-> NoRow]
    /\ main = NoHandler
    /\ actions = 0
    /\ watched = {} /\ abandoned = {} /\ leftover = {} /\ crossed = {}

Adding(film) == \E t \in AdderOf[film] : Alive(t)

\* What the history variables remember of a step.
HasRowAfter(film) == rows'[film].state # "none"

WatchHistory ==
    watched' = {film \in Films :
                  /\ HasRowAfter(film)
                  /\ film \in watched \/ \E t \in Tasks : thread'[t].film = film}

GivesUp(film) ==
    \E t \in AdderOf[film] : thread[t].pc \in {"add", "got"} /\ thread'[t].pc = "idle"

\* The row is new, and a thread of an earlier one still runs, or its torrent or
\* that of an earlier watch is in the session.
BeginsWithLeftover(film) ==
    ~HasRow(film) /\ (Adding(film) \/ \E key \in torrents' : key.film = film)

\* downloadsPause has looked for the torrent but not written the row yet.
Crosses(film) ==
    /\ main.op = "pause" /\ main.film = film
    /\ \E t \in AdderOf[film] : thread[t].pc = "query" /\ thread'[t].pc = "save"

\* The next downloadsPause looks again.
LooksAgain(film) == main.pc = "idle" /\ main'.op = "pause" /\ main'.film = film

History ==
    /\ WatchHistory
    /\ crossed' = {film \in Films :
                      /\ HasRowAfter(film) /\ ~LooksAgain(film)
                      /\ film \in crossed \/ Crosses(film)}
    /\ abandoned' = {film \in Films :
                       HasRowAfter(film) /\ (film \in abandoned \/ GivesUp(film))}
    /\ leftover' = {film \in Films :
                      HasRowAfter(film) /\ (film \in leftover \/ BeginsWithLeftover(film))}

-----------------------------------------------------------------------------
MetadataStep ==
    /\ \E key \in Key : MetadataArrives(key)
    /\ UNCHANGED << dialog, stops, rows, main, actions, historyVars >>

WatchStep(t) ==
    TaskStep(t) /\ UNCHANGED << stops, rows, main, actions >> /\ History

AnswerStep(t) ==
    SubtitlesAnswered(t) /\ UNCHANGED << stops, rows, main, actions >> /\ History

\* Nothing makes the film arrive.
FinishStep(t) ==
    LoopFinished(t) /\ UNCHANGED << stops, rows, main, actions >> /\ History

DownloadStep(t) ==
    AdderStep(t) /\ UNCHANGED << dialog, stops, main, actions >> /\ History

\* The main thread goes on with a handler, ...
HandlerStep ==
    /\ HandlerCalls \/ HandlerWrites
    /\ UNCHANGED << dialog, stops, actions >> /\ History

\* ... or takes the next message.
MainIsFree == main.pc = "idle"

\* The list of downloads looks at its rows, under the dialog too.
ListStep ==
    /\ MainIsFree
    /\ actions < MaxActions /\ actions' = actions + 1
    /\ \E film \in Films : CheckState(film)
    /\ UNCHANGED << dialog, stops >> /\ History

\* A download is watched from the list, whatever it has got so far.
WatchFromList(film) ==
    /\ rows[film].state \in {"DOWNLOADING", "PAUSED", "FINISHED"}
    /\ WatchDownload(film, rows[film].saved)

\* What the user does in the main window; the dialog of a watch covers it.
UserStep ==
    /\ MainIsFree /\ dialog.shown = "none"
    /\ actions < MaxActions /\ actions' = actions + 1
    /\ \E film \in Films :
        \/ (AddWatch(film) \/ WatchFromList(film)) /\ UNCHANGED << rows, main >>
        \/ (\E t \in AdderOf[film] : DownloadsAdd(film, t)) /\ UNCHANGED dialog
        \/ DownloadsPause(film) /\ UNCHANGED dialog
        \/ DownloadsResume(film) /\ UNCHANGED dialog
        \/ DownloadsRemove(film) /\ UNCHANGED dialog
    /\ UNCHANGED stops /\ History

DialogStep ==
    /\ MainIsFree
    /\ \/ (\E t \in Tasks : StartWatch(t)) /\ UNCHANGED stops
       \/ DialogError /\ UNCHANGED stops
       \/ CloseDialog \/ StopWatch
    /\ UNCHANGED << rows, main, actions >> /\ History

\* initDownloads tries rows with an error again.
RowsAfterRestart ==
    [film \in Films |-> IF rows[film].state = "ERROR"
                        THEN [rows[film] EXCEPT !.state = "DOWNLOADING"] ELSE rows[film]]

\* The process ends, by the user's wish (LAST_TORRENT may be cleared) or not,
\* and initDownloads of the next one starts a thread for every row.
Restart ==
    /\ actions < MaxActions /\ actions' = actions + 1
    /\ torrents' = {} /\ metadata' = {} /\ paused' = {}
    /\ watchTask' = NoTask
    /\ lastTorrent' \in {lastTorrent, NoKey}
    /\ dialog' = NoDialog /\ stops' = 0
    /\ rows' = RowsAfterRestart /\ main' = NoHandler
    /\ \E adder \in [Films -> Adders] :
        /\ \A film \in Films : HasRow(film) => adder[film] \in AdderOf[film]
        /\ thread' = [t \in Threads |->
              IF \E film \in Films : HasRow(film) /\ adder[film] = t
              THEN LET film == CHOOSE f \in Films : HasRow(f) /\ adder[f] = t
                   IN  Started(film, TRUE, RowKeys(film))
              ELSE Idle]
    /\ WatchHistory /\ abandoned' = {} /\ leftover' = {} /\ crossed' = {}

Next ==
    \/ MetadataStep
    \/ \E t \in Tasks : WatchStep(t) \/ AnswerStep(t) \/ FinishStep(t)
    \/ \E t \in Adders : DownloadStep(t)
    \/ HandlerStep
    \/ ListStep
    \/ UserStep
    \/ DialogStep
    \/ Restart

Spec == Init /\ [][Next]_vars

\* Threads run, their sleeps end, and a request is answered or fails.
FairSpec ==
    /\ Spec
    /\ \A t \in Tasks : WF_vars(WatchStep(t))
    /\ \A t \in Tasks : WF_vars(AnswerStep(t))
    /\ \A t \in Adders : WF_vars(DownloadStep(t))

-----------------------------------------------------------------------------
(* Properties *)

\* However often the dialog connects, closes and opens again, at most one task
\* runs that was not told to stop: no task is out of reach of stopWatch.
OneWatch ==
    \A t \in Tasks : Alive(t) /\ ~thread[t].interrupted => t = watchTask

\* Films whose download the code makes no promise of.  A watch of the same film
\* removes its torrent (the key is LAST_TORRENT then, or the watch is interrupted)
\* or resumes it, and stopWatch finds the task still running and does not pause
\* it.  A new row's id is not known to its thread, so its failure is not recorded.
\* What an earlier row or watch left behind is found by another key than the
\* one the new row's thread has added, or that thread meets the earlier one.
Excepted == watched \cup abandoned \cup leftover

\* A download that is neither being added, removed nor in error has its torrent
\* in the session, after a restart and whatever else is watched or removed.
DownloadHasTorrent ==
    \A film \in Films \ Excepted :
        /\ rows[film].state \in {"DOWNLOADING", "PAUSED", "FINISHED"}
        /\ ~Adding(film) /\ ~(main.op = "remove" /\ main.film = film)
        => \E key \in metadata : key.film = film

\* A paused download that is neither resumed nor removed now does not download,
\* whether it was paused before or after its metadata came, before or after a
\* restart, and whatever its thread did between the steps of downloadsPause and
\* downloadsResume.  The exception: the thread read the row after downloadsPause
\* had looked for the torrent and before it wrote PAUSED, so neither of the two
\* pauses the torrent.
PausedIsPaused ==
    \A key \in metadata :
        /\ rows[key.film].state = "PAUSED"
        /\ ~Adding(key.film)
        /\ ~(main.op \in {"resume", "remove"} /\ main.film = key.film)
        /\ key.film \notin Excepted \cup crossed
        => key \in paused

\* A task that was told to stop ends: none of its waits swallows the interrupt.
StopEnds ==
    \A t \in Tasks : thread[t].interrupted ~> ~thread[t].interrupted

\* A watch gets to its download loop or ends, unless the subtitles were answered
\* before the task began to wait: that notify is lost.
WatchProgresses ==
    \A t \in Tasks :
        thread[t].pc = "avail" ~>
            \/ thread[t].pc \in {"loop", "idle"}
            \/ thread[t].pc = "wait" /\ ~thread[t].reply
=============================================================================
