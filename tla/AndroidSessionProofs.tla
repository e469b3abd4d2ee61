------------------------ MODULE AndroidSessionProofs ------------------------
(***************************************************************************)
(* No watch task gets out of reach of stopWatch, and downloads keep their  *)
(* torrents and their pause, for any number of films, tasks and threads    *)
(* that add downloads.                                                     *)
(*                                                                         *)
(* OneWatch is inductive once it is known that the table of threads keeps  *)
(* its shape: every step but those of the dialog and the end of the        *)
(* process leaves each task idle, or as interrupted as it was (Keeps).     *)
(* The properties of the downloads need DownloadInv, in the second half.   *)
(***************************************************************************)
EXTENDS AndroidSession, TLAPS

\* A record with the fields of a thread.
IsThread(r) ==
    r = [pc |-> r.pc, film |-> r.film, info |-> r.info, keys |-> r.keys,
         cur |-> r.cur, torrentFile |-> r.torrentFile,
         torrentPaused |-> r.torrentPaused, interrupted |-> r.interrupted,
         reply |-> r.reply, state |-> r.state]

ThreadsOK ==
    /\ thread = [t \in Threads |-> thread[t]]
    /\ \A t \in Threads : IsThread(thread[t])

\* A task that still runs ran before, and was interrupted then if it is now.
Keeps ==
    /\ ThreadsOK'
    /\ UNCHANGED watchTask
    /\ \A u \in Tasks :
        \/ thread'[u].pc = "idle"
        \/ thread[u].pc # "idle" /\ thread'[u].interrupted = thread[u].interrupted

WatchInv == ThreadsOK /\ watchTask \in Tasks \cup {NoTask} /\ OneWatch

\* Such a step loses no task.
LEMMA KeepsWatch ==
    ASSUME WatchInv, Keeps
    PROVE  WatchInv'
BY DEF WatchInv, Keeps, OneWatch, Alive

\* One thread changes.
LEMMA OneChanges ==
    ASSUME ThreadsOK, NEW t \in Threads, NEW r, IsThread(r),
           thread' = [thread EXCEPT ![t] = r]
    PROVE  ThreadsOK' /\ thread'[t] = r /\ \A u \in Threads \ {t} : thread'[u] = thread[u]
BY DEF ThreadsOK

\* ... and is idle afterwards or no more interrupted than before.
LEMMA ChangeKeeps ==
    ASSUME WatchInv, UNCHANGED watchTask,
           NEW t \in Threads, NEW r, IsThread(r),
           t \in Tasks => r.pc = "idle" \/ (/\ thread[t].pc # "idle"
                                          /\ r.interrupted = thread[t].interrupted),
           thread' = [thread EXCEPT ![t] = r]
    PROVE  Keeps
<1>1. ThreadsOK' /\ thread'[t] = r /\ \A u \in Threads \ {t} : thread'[u] = thread[u]
  BY OneChanges DEF WatchInv
<1>2. ASSUME NEW u \in Tasks
      PROVE  \/ thread'[u].pc = "idle"
             \/ thread[u].pc # "idle" /\ thread'[u].interrupted = thread[u].interrupted
  BY <1>1 DEF Threads
<1> QED
  BY <1>1, <1>2 DEF Keeps

\* A record of a thread stays one when its program counter moves.
LEMMA PcMoves ==
    ASSUME NEW r, IsThread(r), NEW x
    PROVE  /\ IsThread([r EXCEPT !.pc = x]) /\ [r EXCEPT !.pc = x].pc = x
           /\ [r EXCEPT !.pc = x].interrupted = r.interrupted
BY DEF IsThread

\* s is what the record r becomes when a thread that is not interrupted goes on.
Follows(s, r, pc) == IsThread(s) /\ s.interrupted = r.interrupted /\ s.pc = pc

\* ... or another field changes, ...
LEMMA FieldMoves ==
    ASSUME NEW r, IsThread(r), NEW x
    PROVE  /\ Follows([r EXCEPT !.cur = x], r, r.pc)
           /\ Follows([r EXCEPT !.keys = x], r, r.pc)
           /\ Follows([r EXCEPT !.film = x], r, r.pc)
           /\ Follows([r EXCEPT !.info = x], r, r.pc)
           /\ Follows([r EXCEPT !.torrentFile = x], r, r.pc)
           /\ Follows([r EXCEPT !.torrentPaused = x], r, r.pc)
           /\ Follows([r EXCEPT !.reply = x], r, r.pc)
           /\ Follows([r EXCEPT !.state = x], r, r.pc)
<1>1. Follows([r EXCEPT !.cur = x], r, r.pc)
  BY DEF IsThread, Follows
<1>2. Follows([r EXCEPT !.keys = x], r, r.pc)
  BY DEF IsThread, Follows
<1>3. Follows([r EXCEPT !.film = x], r, r.pc)
  BY DEF IsThread, Follows
<1>4. Follows([r EXCEPT !.info = x], r, r.pc)
  BY DEF IsThread, Follows
<1>5. Follows([r EXCEPT !.torrentFile = x], r, r.pc)
  BY DEF IsThread, Follows
<1>6. Follows([r EXCEPT !.torrentPaused = x], r, r.pc)
  BY DEF IsThread, Follows
<1>7. Follows([r EXCEPT !.reply = x], r, r.pc)
  BY DEF IsThread, Follows
<1>8. Follows([r EXCEPT !.state = x], r, r.pc)
  BY DEF IsThread, Follows
<1> QED
  BY <1>1, <1>2, <1>3, <1>4, <1>5, <1>6, <1>7, <1>8

\* ... or two do.
LEMMA TwoMove ==
    ASSUME NEW r, IsThread(r), NEW x, NEW y
    PROVE  /\ Follows([r EXCEPT !.pc = x, !.cur = y], r, x)
           /\ Follows([r EXCEPT !.pc = x, !.torrentFile = y], r, x)
           /\ Follows([r EXCEPT !.pc = x, !.torrentPaused = y], r, x)
           /\ Follows([r EXCEPT !.pc = x, !.reply = y], r, x)
           /\ Follows([r EXCEPT !.pc = x, !.state = y], r, x)
<1> DEFINE q == [r EXCEPT !.pc = x]
<1>1. /\ [r EXCEPT !.pc = x, !.cur = y] = [q EXCEPT !.cur = y]
      /\ [r EXCEPT !.pc = x, !.torrentFile = y] = [q EXCEPT !.torrentFile = y]
      /\ [r EXCEPT !.pc = x, !.torrentPaused = y] = [q EXCEPT !.torrentPaused = y]
      /\ [r EXCEPT !.pc = x, !.reply = y] = [q EXCEPT !.reply = y]
      /\ [r EXCEPT !.pc = x, !.state = y] = [q EXCEPT !.state = y]
  BY Zenon
<1>2. IsThread(q) /\ q.interrupted = r.interrupted /\ q.pc = x
  BY PcMoves
<1>3. /\ Follows([q EXCEPT !.cur = y], r, x)
      /\ Follows([q EXCEPT !.torrentFile = y], r, x)
      /\ Follows([q EXCEPT !.torrentPaused = y], r, x)
      /\ Follows([q EXCEPT !.reply = y], r, x)
      /\ Follows([q EXCEPT !.state = y], r, x)
  <2> HIDE DEF q
  <2>1. /\ Follows([q EXCEPT !.cur = y], q, q.pc)
        /\ Follows([q EXCEPT !.torrentFile = y], q, q.pc)
        /\ Follows([q EXCEPT !.torrentPaused = y], q, q.pc)
        /\ Follows([q EXCEPT !.reply = y], q, q.pc)
        /\ Follows([q EXCEPT !.state = y], q, q.pc)
    BY <1>2, FieldMoves
  <2>2. ASSUME NEW s, Follows(s, q, q.pc)
        PROVE  Follows(s, r, x)
    BY <1>2, <2>2 DEF Follows
  <2> QED
    BY <2>1, <2>2, Zenon
<1> HIDE DEF q
<1> QED
  BY <1>1, <1>3

\* A thread moves on.
LEMMA MoveKeeps ==
    ASSUME WatchInv, NEW t \in Threads, thread[t].pc # "idle", NEW pc, Moves(t, pc),
           UNCHANGED watchTask
    PROVE  Keeps
<1> DEFINE r == [thread[t] EXCEPT !.pc = pc]
<1>1. IsThread(thread[t])
  BY DEF WatchInv, ThreadsOK
<1>2. thread' = [thread EXCEPT ![t] = r]
  BY DEF Moves
<1>3. IsThread(r) /\ r.interrupted = thread[t].interrupted
  BY <1>1, PcMoves
<1> HIDE DEF r
<1> QED
  BY <1>2, <1>3, ChangeKeeps

\* An idle thread, and one that begins.
LEMMA IdleThread == IsThread(Idle) /\ Idle.pc = "idle"
BY DEF IsThread, Idle

LEMMA StartedThread ==
    ASSUME NEW film, NEW info, NEW keys
    PROVE  IsThread(Started(film, info, keys))
<1> DEFINE a == [Idle EXCEPT !.pc = "avail"]
           b == [a EXCEPT !.film = film]
           c == [b EXCEPT !.info = info]
           d == [c EXCEPT !.keys = keys]
<1>1. Started(film, info, keys) = d
  BY Zenon DEF Started
<1>2. IsThread(a)
  BY IdleThread, PcMoves
<1>3. IsThread(b)
  <2> HIDE DEF a
  <2> QED  BY <1>2, FieldMoves DEF Follows
<1>4. IsThread(c)
  <2> HIDE DEF b
  <2> QED  BY <1>3, FieldMoves DEF Follows
<1>5. IsThread(d)
  <2> HIDE DEF c
  <2> QED  BY <1>4, FieldMoves DEF Follows
<1> QED
  BY <1>1, <1>5

LEMMA EndedThread ==
    ASSUME NEW t
    PROVE  IsThread(Ended(t)) /\ Ended(t).pc = "idle"
BY DEF IsThread, Idle, Ended

\* A thread ends.
LEMMA EndKeeps ==
    ASSUME WatchInv, NEW t \in Tasks, Ends(t), UNCHANGED watchTask
    PROVE  Keeps
<1>1. t \in Threads
  BY DEF Threads
<1>2. thread' = [thread EXCEPT ![t] = Ended(t)]
  BY DEF Ends
<1>3. IsThread(Ended(t)) /\ Ended(t).pc = "idle"
  BY EndedThread
<1> QED
  BY <1>1, <1>2, <1>3, ChangeKeeps

\* No thread changes.
LEMMA NothingKeeps ==
    ASSUME WatchInv, UNCHANGED << thread, watchTask >>
    PROVE  Keeps
BY DEF WatchInv, Keeps, ThreadsOK

\* A note to pause is no change to whether a task runs or is interrupted.
LEMMA NotedThreads ==
    ASSUME WatchInv, NEW key, NEW th, th = NotedToPause(thread, key)
    PROVE  /\ th = [u \in Threads |-> th[u]]
           /\ \A u \in Threads : /\ IsThread(th[u])
                                 /\ th[u].pc = thread[u].pc
                                 /\ th[u].interrupted = thread[u].interrupted
<1>1. CASE th = thread
  BY <1>1 DEF WatchInv, ThreadsOK
<1>2. CASE isWatchAlive /\ th = [thread EXCEPT ![watchTask].torrentPaused = TRUE]
  <2>1. watchTask \in Threads
    BY <1>2 DEF isWatchAlive, Threads
  <2> DEFINE r == [thread[watchTask] EXCEPT !.torrentPaused = TRUE]
  <2>2. IsThread(thread[watchTask])
    BY <2>1 DEF WatchInv, ThreadsOK
  <2>3. IsThread(r) /\ r.pc = thread[watchTask].pc
          /\ r.interrupted = thread[watchTask].interrupted
    BY <2>2, FieldMoves DEF Follows
  <2>4. th = [thread EXCEPT ![watchTask] = r]
    BY <1>2
  <2> HIDE DEF r
  <2> QED
    BY <2>1, <2>3, <2>4 DEF WatchInv, ThreadsOK
<1> QED
  BY <1>1, <1>2 DEF NotedToPause, isWatchingNow

LEMMA NotedKeeps ==
    ASSUME WatchInv, NEW key, thread' = NotedToPause(thread, key), UNCHANGED watchTask
    PROVE  Keeps
<1>1. /\ thread' = [u \in Threads |-> thread'[u]]
      /\ \A u \in Threads : /\ IsThread(thread'[u])
                            /\ thread'[u].pc = thread[u].pc
                            /\ thread'[u].interrupted = thread[u].interrupted
  BY NotedThreads
<1> QED
  BY <1>1 DEF Keeps, ThreadsOK, Threads

\* ... also when a thread ends in the same step.
LEMMA NotedEndKeeps ==
    ASSUME WatchInv, NEW key, NEW t \in Threads, NEW r, IsThread(r), r.pc = "idle",
           thread' = [NotedToPause(thread, key) EXCEPT ![t] = r], UNCHANGED watchTask
    PROVE  Keeps
<1> DEFINE th == NotedToPause(thread, key)
<1>1. /\ th = [u \in Threads |-> th[u]]
      /\ \A u \in Threads : /\ IsThread(th[u])
                            /\ th[u].pc = thread[u].pc
                            /\ th[u].interrupted = thread[u].interrupted
  BY NotedThreads
<1>2. thread' = [th EXCEPT ![t] = r]
  OBVIOUS
<1> HIDE DEF th
<1> QED
  BY <1>1, <1>2 DEF Keeps, ThreadsOK, Threads

-----------------------------------------------------------------------------
(* The loop that adds a torrent, of a task or of a thread that adds a download *)

LEMMA AddTorrentKeeps ==
    ASSUME WatchInv, NEW t \in Threads, AddTorrentStep(t)
    PROVE  Keeps
<1> USE DEF WatchInv, ThreadsOK
<1>1. IsThread(thread[t])
  OBVIOUS
<1>2. CASE GetAvailable(t)
  <2>1. ASSUME NEW key, thread' = [thread EXCEPT ![t].pc = "got", ![t].cur = key]
        PROVE  Keeps
    <3> DEFINE r == [thread[t] EXCEPT !.pc = "got", !.cur = key]
    <3>1. Follows(r, thread[t], "got")
      BY <1>1, TwoMove, Zenon
    <3>2. thread' = [thread EXCEPT ![t] = r]
      BY <2>1
    <3> HIDE DEF r
    <3> QED
      BY <1>2, <3>1, <3>2, ChangeKeeps DEF GetAvailable, Follows
  <2> QED
    BY <1>2, <2>1, MoveKeeps DEF GetAvailable
<1>3. CASE AddNext(t)
  <2> DEFINE key == Head(thread[t].keys)
             keys == Tail(thread[t].keys)
             q == [thread[t] EXCEPT !.pc = "poll", !.cur = key]
             r == [thread[t] EXCEPT !.pc = "poll", !.cur = key, !.keys = Tail(@)]
  <2>1. IsThread(r) /\ r.interrupted = thread[t].interrupted
    <3>1. Follows(q, thread[t], "poll")
      BY <1>1, TwoMove, Zenon
    <3>2. r = [q EXCEPT !.keys = keys]
      BY Zenon
    <3> HIDE DEF q, r, keys
    <3> QED
      BY <3>1, <3>2, FieldMoves DEF Follows
  <2>2. thread' = [thread EXCEPT ![t] = r]
    BY <1>3 DEF AddNext
  <2> HIDE DEF r
  <2> QED
    BY <1>3, <2>1, <2>2, ChangeKeeps DEF AddNext
<1>4. CASE Poll(t)
  BY <1>4, MoveKeeps DEF Poll
<1>5. CASE Expired(t)
  BY <1>5, MoveKeeps DEF Expired
<1> QED
  BY <1>2, <1>3, <1>4, <1>5 DEF AddTorrentStep

-----------------------------------------------------------------------------
(* The steps of a task *)

LEMMA TaskKeeps ==
    ASSUME WatchInv, NEW t \in Tasks, TaskStep(t)
    PROVE  Keeps
<1>1. t \in Threads
  BY DEF Threads
<1>2. IsThread(thread[t])
  BY <1>1 DEF WatchInv, ThreadsOK
<1>3. CASE AddTorrentStep(t)
  BY <1>1, <1>3, AddTorrentKeeps
<1>4. CASE PollInterrupted(t) \/ NotLoaded(t) \/ WaitInterrupted(t)
  BY <1>4, EndKeeps DEF PollInterrupted, NotLoaded, WaitInterrupted
<1>5. CASE NoteTorrent(t) \/ FileChecked(t) \/ NoRequest(t)
  BY <1>1, <1>5, MoveKeeps DEF NoteTorrent, FileChecked, NoRequest
<1>6. CASE SetTorrentFile(t)
  <2> DEFINE r == [thread[t] EXCEPT !.pc = "file", !.torrentFile = thread[t].cur]
  <2>1. Follows(r, thread[t], "file")
    BY <1>2, TwoMove, Zenon
  <2>2. thread' = [thread EXCEPT ![t] = r]
    BY <1>1, <1>6 DEF SetTorrentFile, WatchInv, ThreadsOK
  <2> HIDE DEF r
  <2> QED
    BY <1>1, <1>6, <2>1, <2>2, ChangeKeeps DEF SetTorrentFile, Follows
<1>7. CASE ResumeForWatch(t)
  <2> DEFINE b == thread[t].torrentFile \in paused \/ ~thread[t].info
             r == [thread[t] EXCEPT !.pc = "check", !.torrentPaused = b]
  <2>1. Follows(r, thread[t], "check")
    BY <1>2, TwoMove, Zenon
  <2>2. thread' = [thread EXCEPT ![t] = r]
    BY <1>1, <1>7 DEF ResumeForWatch, WatchInv, ThreadsOK
  <2> HIDE DEF r
  <2> QED
    BY <1>1, <1>7, <2>1, <2>2, ChangeKeeps DEF ResumeForWatch, Follows
<1>8. CASE FileMissing(t)
  <2>1. IsThread(Ended(t)) /\ Ended(t).pc = "idle"
    BY EndedThread
  <2>2. CASE thread[t].torrentPaused
    BY <1>1, <1>8, <2>1, <2>2, NotedEndKeeps DEF FileMissing
  <2>3. CASE ~thread[t].torrentPaused
    BY <1>8, <2>3, EndKeeps DEF FileMissing, Ends
  <2> QED
    BY <2>2, <2>3
<1>9. CASE RequestSubtitles(t)
  <2> DEFINE r == [thread[t] EXCEPT !.pc = "requested", !.reply = TRUE]
  <2>1. Follows(r, thread[t], "requested")
    BY <1>2, TwoMove, Zenon
  <2>2. thread' = [thread EXCEPT ![t] = r]
    BY <1>1, <1>9 DEF RequestSubtitles, WatchInv, ThreadsOK
  <2> HIDE DEF r
  <2> QED
    BY <1>1, <1>9, <2>1, <2>2, ChangeKeeps DEF RequestSubtitles, Follows
<1>10. CASE WaitForSubtitles(t)
  BY <1>1, <1>10, EndKeeps, MoveKeeps DEF WaitForSubtitles
<1> QED
  BY <1>3, <1>4, <1>5, <1>6, <1>7, <1>8, <1>9, <1>10 DEF TaskStep

LEMMA AnswerKeeps ==
    ASSUME WatchInv, NEW t \in Tasks, SubtitlesAnswered(t)
    PROVE  Keeps
<1>1. t \in Threads
  BY DEF Threads
<1>2. IsThread(thread[t])
  BY <1>1 DEF WatchInv, ThreadsOK
<1> DEFINE pc == IF thread[t].pc = "wait" THEN "loop" ELSE thread[t].pc
           q == [thread[t] EXCEPT !.reply = FALSE]
           r == [thread[t] EXCEPT !.reply = FALSE, !.pc = pc]
<1>3. IsThread(r) /\ r.interrupted = thread[t].interrupted /\ r.pc = pc
  <2>1. IsThread(q) /\ q.interrupted = thread[t].interrupted
    BY <1>2, FieldMoves DEF Follows
  <2>2. r = [q EXCEPT !.pc = pc]
    BY Zenon
  <2> HIDE DEF q, r, pc
  <2> QED
    BY <2>1, <2>2, PcMoves
<1>4. thread' = [thread EXCEPT ![t] = r]
  BY <1>1, <1>2 DEF SubtitlesAnswered, WatchInv, ThreadsOK, IsThread
<1>5. pc = "idle" \/ thread[t].pc # "idle"
  OBVIOUS
<1> HIDE DEF r, pc
<1> QED
  BY <1>1, <1>3, <1>4, <1>5, ChangeKeeps DEF SubtitlesAnswered

-----------------------------------------------------------------------------
(* The steps of downloads *)

LEMMA AdderKeeps ==
    ASSUME WatchInv, NEW t \in Adders, AdderStep(t)
    PROVE  Keeps
<1>1. t \in Threads /\ t \notin Tasks
  BY ServiceAssumption DEF Threads
<1>2. IsThread(thread[t])
  BY <1>1 DEF WatchInv, ThreadsOK
<1>3. ASSUME thread' = [thread EXCEPT ![t] = Idle], UNCHANGED watchTask
      PROVE  Keeps
  BY <1>1, <1>3, ChangeKeeps, IdleThread
<1>4. CASE AddTorrentStep(t)
  BY <1>1, <1>4, AddTorrentKeeps
<1>5. CASE AddFailed(t) \/ FileNotFound(t)
  BY <1>3, <1>5 DEF AddFailed, FileNotFound
<1>6. CASE FileFound(t) \/ SaveMetadata(t)
  BY <1>1, <1>6, MoveKeeps DEF FileFound, SaveMetadata
<1>7. CASE QueryRow(t)
  <2> DEFINE x == rows[thread[t].film].state
             r == [thread[t] EXCEPT !.pc = "save", !.state = x]
  <2>1. Follows(r, thread[t], "save")
    BY <1>2, TwoMove, Zenon
  <2>2. ASSUME thread' = [thread EXCEPT ![t].pc = "save", ![t].state = x]
        PROVE  thread' = [thread EXCEPT ![t] = r]
    BY <1>1, <2>2 DEF WatchInv, ThreadsOK
  <2> HIDE DEF r
  <2> QED
    BY <1>1, <1>3, <1>7, <2>1, <2>2, ChangeKeeps DEF QueryRow, Follows
<1>8. CASE PauseIfPaused(t)
  BY <1>1, <1>3, <1>8, NotedEndKeeps, IdleThread DEF PauseIfPaused
<1> QED
  BY <1>4, <1>5, <1>6, <1>7, <1>8 DEF AdderStep

\* What the user does in the main window starts no task and stops none.
LEMMA UserKeeps ==
    ASSUME WatchInv, UserStep
    PROVE  Keeps
<1>1. PICK film \in Films :
        \/ AddWatch(film) \/ WatchFromList(film)
        \/ \E t \in AdderOf[film] : DownloadsAdd(film, t)
        \/ DownloadsPause(film) \/ DownloadsResume(film) \/ DownloadsRemove(film)
  BY DEF UserStep
<1>2. CASE AddWatch(film) \/ WatchFromList(film) \/ DownloadsPause(film)
             \/ DownloadsResume(film) \/ DownloadsRemove(film)
  BY <1>2, NothingKeeps
     DEF AddWatch, WatchFromList, WatchDownload, DownloadsPause, DownloadsResume,
         DownloadsRemove, HandlerBegins
<1>3. ASSUME NEW t \in AdderOf[film], DownloadsAdd(film, t)
      PROVE  Keeps
  <2>1. t \in Threads /\ t \notin Tasks
    BY AdderAssumption, ServiceAssumption DEF Threads
  <2>2. PICK keys : thread' = [thread EXCEPT ![t] = Started(film, FALSE, keys)]
    BY <1>3 DEF DownloadsAdd
  <2>3. UNCHANGED watchTask
    BY <1>3 DEF DownloadsAdd
  <2> QED
    BY <2>1, <2>2, <2>3, StartedThread, ChangeKeeps
<1> QED
  BY <1>1, <1>2, <1>3

\* Nor do the handlers of the downloads as they go on.
LEMMA HandlerKeeps ==
    ASSUME WatchInv, HandlerStep
    PROVE  Keeps
  BY NotedKeeps, NothingKeeps DEF HandlerStep, HandlerCalls, HandlerWrites

-----------------------------------------------------------------------------
(* The steps that start and stop a watch *)

LEMMA DialogKeeps ==
    ASSUME WatchInv, DialogStep
    PROVE  WatchInv'
<1>1. ASSUME NEW t \in Tasks, StartWatch(t)
      PROVE  WatchInv'
  <2>1. CASE UNCHANGED << watchTask, thread >>
    BY <2>1, NothingKeeps, KeepsWatch
  <2>2. CASE ~isWatchAlive /\ watchTask' = t
              /\ thread' = [thread EXCEPT ![t] =
                                Started(dialog.film, dialog.info, dialog.keys)]
    <3>1. t \in Threads
      BY DEF Threads
    <3>2. ThreadsOK' /\ \A u \in Threads \ {t} : thread'[u] = thread[u]
      BY <2>2, <3>1, StartedThread, OneChanges DEF WatchInv
    <3>3. ASSUME NEW u \in Tasks, u # t, thread[u].pc # "idle"
          PROVE  thread[u].interrupted
      BY <2>2, <3>3, ServiceAssumption DEF WatchInv, OneWatch, Alive, isWatchAlive
    <3> QED
      BY <2>2, <3>2, <3>3 DEF WatchInv, OneWatch, Alive, Threads
  <2> QED
    BY <1>1, <2>1, <2>2 DEF StartWatch
<1>2. CASE StopWatch
  <2>1. CASE watchTask = NoTask
    BY <1>2, <2>1, NothingKeeps, KeepsWatch DEF StopWatch
  <2>2. CASE watchTask # NoTask
    <3>1. watchTask \in Tasks /\ watchTask \in Threads
      BY <2>2 DEF WatchInv, Threads
    <3> DEFINE r == IF Alive(watchTask) THEN [thread[watchTask] EXCEPT !.interrupted = TRUE]
                    ELSE Idle
    <3>2. thread' = [thread EXCEPT ![watchTask] = r] /\ watchTask' = NoTask
      BY <1>2, <2>2 DEF StopWatch
    <3>3. IsThread(thread[watchTask])
      BY <3>1 DEF WatchInv, ThreadsOK
    <3>4. IsThread(r) /\ (r.pc = "idle" \/ r.interrupted)
      BY <3>3, IdleThread DEF IsThread
    <3> HIDE DEF r
    <3>5. ThreadsOK' /\ thread'[watchTask] = r
             /\ \A u \in Threads \ {watchTask} : thread'[u] = thread[u]
      BY <3>1, <3>2, <3>4, OneChanges DEF WatchInv
    <3> QED
      BY <3>1, <3>2, <3>4, <3>5 DEF WatchInv, OneWatch, Alive, Threads
  <2> QED
    BY <2>1, <2>2
<1>3. CASE DialogError \/ CloseDialog
  BY <1>3, NothingKeeps, KeepsWatch DEF DialogError, CloseDialog
<1> QED
  BY <1>1, <1>2, <1>3 DEF DialogStep

\* A new process has no task.
LEMMA RestartKeeps ==
    ASSUME Restart
    PROVE  WatchInv'
<1>1. PICK adder \in [Films -> Adders] :
        /\ \A film \in Films : HasRow(film) => adder[film] \in AdderOf[film]
        /\ thread' = [t \in Threads |->
              IF \E film \in Films : HasRow(film) /\ adder[film] = t
              THEN LET film == CHOOSE f \in Films : HasRow(f) /\ adder[f] = t
                   IN  Started(film, TRUE, RowKeys(film))
              ELSE Idle]
  BY DEF Restart
<1>2. ThreadsOK'
  BY <1>1, StartedThread, IdleThread DEF ThreadsOK
<1>3. ASSUME NEW t \in Tasks
      PROVE  thread'[t] = Idle
  BY <1>1, ServiceAssumption DEF Threads
<1> QED
  BY <1>2, <1>3, IdleThread DEF Restart, WatchInv, OneWatch, Alive

-----------------------------------------------------------------------------
LEMMA WatchStepInv == WatchInv /\ [Next]_vars => WatchInv'
<1> SUFFICES ASSUME WatchInv, [Next]_vars
             PROVE  WatchInv'
  OBVIOUS
<1>1. CASE MetadataStep
  BY <1>1, NothingKeeps, KeepsWatch DEF MetadataStep, MetadataArrives
<1>2. ASSUME NEW t \in Tasks, WatchStep(t) \/ AnswerStep(t) \/ FinishStep(t)
      PROVE  WatchInv'
  <2>1. CASE WatchStep(t)
    BY <2>1, TaskKeeps, KeepsWatch DEF WatchStep
  <2>2. CASE AnswerStep(t)
    BY <2>2, AnswerKeeps, KeepsWatch DEF AnswerStep
  <2>3. CASE FinishStep(t)
    BY <2>3, EndKeeps, KeepsWatch DEF FinishStep, LoopFinished
  <2> QED
    BY <1>2, <2>1, <2>2, <2>3
<1>3. ASSUME NEW t \in Adders, DownloadStep(t)
      PROVE  WatchInv'
  BY <1>3, AdderKeeps, KeepsWatch DEF DownloadStep
<1>4. CASE ListStep
  BY <1>4, NothingKeeps, KeepsWatch DEF ListStep, CheckState
<1>5. CASE UserStep
  BY <1>5, UserKeeps, KeepsWatch
<1>6. CASE DialogStep
  BY <1>6, DialogKeeps
<1>7. CASE Restart
  BY <1>7, RestartKeeps
<1>8. CASE HandlerStep
  BY <1>8, HandlerKeeps, KeepsWatch
<1>9. CASE UNCHANGED vars
  BY <1>9, NothingKeeps, KeepsWatch DEF vars
<1> QED
  BY <1>1, <1>2, <1>3, <1>4, <1>5, <1>6, <1>7, <1>8, <1>9 DEF Next

LEMMA InitWatch == Init => WatchInv
BY IdleThread DEF Init, WatchInv, ThreadsOK, OneWatch, Alive, Threads

\* However the threads of the tasks, those of the downloads, the dialog and the
\* end of the process interleave, a task that runs and was not told to stop is
\* the one that stopWatch of the service reaches.
THEOREM WatchReachable == Spec => []OneWatch
<1>1. WatchInv => OneWatch
  BY DEF WatchInv
<1> QED
  BY <1>1, InitWatch, WatchStepInv, PTL DEF Spec

-----------------------------------------------------------------------------
(***************************************************************************)
(* Downloads keep their torrents and their pause.  The invariant follows   *)
(* the one thread that adds a film: until it adds a key the session has no *)
(* torrent of the film, afterwards only the one under that key, and from   *)
(* its metadata on nobody removes it (Stage).  When the thread has ended,  *)
(* the film has exactly one torrent, which the row's keys lead to          *)
(* (HasOne).  All other steps concern other films (OnlyFilm).              *)
(*                                                                         *)
(* The handlers of the main thread take several steps.  One that has       *)
(* looked for the torrent writes the row as it was then, so what counts is *)
(* what row and handler both know (SavedFor).  From its call on a pause    *)
(* wants the torrent paused (Wants), and between its look and its call it  *)
(* has the right key in its hands (Calling), unless the thread read the    *)
(* row meanwhile.                                                          *)
(***************************************************************************)
KeysFor(film) == {key \in Key : key.film = film}

\* States in which a thread has a key in its hands.
Holding == {"poll", "expired", "got", "noted", "query", "save", "pause"}

AdderPcs == {"idle", "avail", "add", "poll", "expired", "got", "query", "save", "pause"}

\* A thread that runs has to do with keys of its film only.
ThreadSound(r) ==
    r.pc # "idle" =>
        /\ r.film \in Films
        /\ r.keys \in Seq(KeysFor(r.film))
        /\ r.pc \in Holding => r.cur \in KeysFor(r.film)
        /\ r.torrentFile \in KeysFor(r.film) \cup {NoKey}
        /\ r.pc \in {"file", "check"} => r.torrentFile \in KeysFor(r.film)

ThreadsSound ==
    /\ \A t \in Threads : ThreadSound(thread[t])
    /\ \A t \in Adders : /\ thread[t].pc \in AdderPcs
                         /\ Alive(t) => t \in AdderOf[thread[t].film]

IsRow(r) == r = [state |-> r.state, saved |-> r.saved] /\ r.saved \in BOOLEAN

TableOK ==
    /\ metadata \subseteq torrents /\ torrents \subseteq Key
    /\ rows = [film \in Films |-> rows[film]]
    /\ \A film \in Films : IsRow(rows[film])

IsDialog(d) == d = [shown |-> d.shown, film |-> d.film, info |-> d.info, keys |-> d.keys]

DialogOK ==
    /\ IsDialog(dialog)
    /\ dialog.shown # "none" =>
            dialog.film \in Films /\ dialog.keys \in Seq(KeysFor(dialog.film))

\* A download that a task or LAST_TORRENT refers to is known as watched.
WatchedKnown ==
    /\ \A t \in Tasks, film \in Films :
        thread[t].film = film /\ HasRow(film) => film \in watched
    /\ lastTorrent \in Key \cup {NoKey}
    /\ lastTorrent \in Key /\ HasRow(lastTorrent.film) => lastTorrent.film \in watched

\* The handler of the main thread and its key.
IsHandler(m) ==
    m = [pc |-> m.pc, op |-> m.op, film |-> m.film, key |-> m.key, saved |-> m.saved]

HandlerOK ==
    /\ IsHandler(main)
    /\ main.pc = "idle" => main.film = NoFilm /\ main.op = "none"
    /\ main.pc # "idle" =>
            /\ main.pc \in {"call", "write"} /\ main.op \in {"pause", "resume", "remove"}
            /\ main.film \in Films /\ main.saved \in BOOLEAN
    /\ main.pc = "call" => main.key \in KeysFor(main.film)

Under(film, op) == main.op = op /\ main.film = film

Plain(film) == HasRow(film) /\ film \notin Excepted /\ ~Under(film, "remove")

\* The keys under which the film may be, as a set.
NamedKeys(film, saved) ==
    {KeyOf(film, Names[film][i]) : i \in DOMAIN Names[film]}
        \cup (IF saved THEN {KeyOf(film, "file")} ELSE {})

SavedFor(film) == rows[film].saved /\ (main.film = film => main.saved)

RowKeySet(film) == NamedKeys(film, SavedFor(film))

\* The torrent has to be paused by now.
Wants(film) ==
    /\ film \notin crossed
    /\ \/ rows[film].state = "PAUSED" /\ ~Under(film, "resume")
       \/ Under(film, "pause") /\ main.pc = "write"

\* downloadsPause is about to pause the torrent it has found.
Calling(film) == film \notin crossed /\ Under(film, "pause") /\ main.pc = "call"

\* The session has no torrent of the film but this one.
OnlyTorrent(film, key) == \A k \in torrents : k.film = film => k = key

\* How far the thread r that adds the film has come.
Stage(film, r) ==
    /\ r.pc \in {"avail", "add"} => \A k \in torrents : k.film # film
    /\ r.pc \in {"avail", "add", "poll", "expired"} =>
            \A i \in DOMAIN r.keys : r.keys[i] \in RowKeySet(film)
    /\ r.pc \in Holding => r.cur \in RowKeySet(film) /\ OnlyTorrent(film, r.cur)
    /\ r.pc \in {"got", "query", "save", "pause"} => r.cur \in metadata
    /\ r.pc \in {"save", "pause"} =>
            /\ Wants(film) => r.state = "PAUSED" \/ r.cur \in paused
            /\ Calling(film) => main.key = r.cur

HasOne(film) ==
    \E key \in metadata :
        /\ key \in RowKeySet(film) /\ OnlyTorrent(film, key)
        /\ Wants(film) => key \in paused
        /\ Calling(film) => main.key = key

Settled(film) ==
    /\ \A t, u \in AdderOf[film] : Alive(t) /\ Alive(u) => t = u
    /\ \A t \in AdderOf[film] : Stage(film, thread[t])
    /\ Adding(film) \/ HasOne(film)

DownloadInv ==
    /\ WatchInv /\ ThreadsSound /\ TableOK /\ DialogOK /\ WatchedKnown /\ HandlerOK
    /\ \A film \in Films : Plain(film) => Settled(film)

-----------------------------------------------------------------------------
(* Records of threads, field by field *)

\* The fields the invariant reads.
Fields(z, pc, film, keys, cur, torrentFile, state) ==
    /\ z.pc = pc /\ z.film = film /\ z.keys = keys /\ z.cur = cur
    /\ z.torrentFile = torrentFile /\ z.state = state

\* z has them all from r but for the program counter.
At(z, r, pc) == Fields(z, pc, r.film, r.keys, r.cur, r.torrentFile, r.state)

LEMMA OneField ==
    ASSUME NEW r, IsThread(r), NEW x
    PROVE  /\ At([r EXCEPT !.pc = x], r, x)
           /\ At([r EXCEPT !.torrentPaused = x], r, r.pc)
           /\ At([r EXCEPT !.reply = x], r, r.pc)
           /\ At([r EXCEPT !.interrupted = x], r, r.pc)
           /\ Fields([r EXCEPT !.cur = x], r.pc, r.film, r.keys, x, r.torrentFile, r.state)
           /\ Fields([r EXCEPT !.keys = x], r.pc, r.film, x, r.cur, r.torrentFile, r.state)
           /\ Fields([r EXCEPT !.torrentFile = x], r.pc, r.film, r.keys, r.cur, x, r.state)
           /\ Fields([r EXCEPT !.state = x], r.pc, r.film, r.keys, r.cur, r.torrentFile, x)
<1>1. At([r EXCEPT !.pc = x], r, x)
  BY DEF IsThread, At, Fields
<1>2. At([r EXCEPT !.torrentPaused = x], r, r.pc)
  BY DEF IsThread, At, Fields
<1>3. At([r EXCEPT !.reply = x], r, r.pc)
  BY DEF IsThread, At, Fields
<1>4. At([r EXCEPT !.interrupted = x], r, r.pc)
  BY DEF IsThread, At, Fields
<1>5. Fields([r EXCEPT !.cur = x], r.pc, r.film, r.keys, x, r.torrentFile, r.state)
  BY DEF IsThread, Fields
<1>6. Fields([r EXCEPT !.keys = x], r.pc, r.film, x, r.cur, r.torrentFile, r.state)
  BY DEF IsThread, Fields
<1>7. Fields([r EXCEPT !.torrentFile = x], r.pc, r.film, r.keys, r.cur, x, r.state)
  BY DEF IsThread, Fields
<1>8. Fields([r EXCEPT !.state = x], r.pc, r.film, r.keys, r.cur, r.torrentFile, x)
  BY DEF IsThread, Fields
<1> QED
  BY <1>1, <1>2, <1>3, <1>4, <1>5, <1>6, <1>7, <1>8

\* The program counter and one more field.
LEMMA TwoFields ==
    ASSUME NEW r, IsThread(r), NEW x, NEW y
    PROVE  /\ Fields([r EXCEPT !.pc = x, !.cur = y], x, r.film, r.keys, y, r.torrentFile, r.state)
           /\ Fields([r EXCEPT !.pc = x, !.torrentFile = y],
                     x, r.film, r.keys, r.cur, y, r.state)
           /\ Fields([r EXCEPT !.pc = x, !.state = y],
                     x, r.film, r.keys, r.cur, r.torrentFile, y)
           /\ At([r EXCEPT !.pc = x, !.torrentPaused = y], r, x)
           /\ At([r EXCEPT !.pc = x, !.reply = y], r, x)
<1> DEFINE q == [r EXCEPT !.pc = x]
<1>1. /\ [r EXCEPT !.pc = x, !.cur = y] = [q EXCEPT !.cur = y]
      /\ [r EXCEPT !.pc = x, !.torrentFile = y] = [q EXCEPT !.torrentFile = y]
      /\ [r EXCEPT !.pc = x, !.state = y] = [q EXCEPT !.state = y]
      /\ [r EXCEPT !.pc = x, !.torrentPaused = y] = [q EXCEPT !.torrentPaused = y]
      /\ [r EXCEPT !.pc = x, !.reply = y] = [q EXCEPT !.reply = y]
  BY Zenon
<1>2. IsThread(q) /\ At(q, r, x)
  BY PcMoves, OneField
<1> HIDE DEF q
<1>3. /\ Fields([q EXCEPT !.cur = y], q.pc, q.film, q.keys, y, q.torrentFile, q.state)
      /\ Fields([q EXCEPT !.torrentFile = y], q.pc, q.film, q.keys, q.cur, y, q.state)
      /\ Fields([q EXCEPT !.state = y], q.pc, q.film, q.keys, q.cur, q.torrentFile, y)
      /\ At([q EXCEPT !.torrentPaused = y], q, q.pc)
      /\ At([q EXCEPT !.reply = y], q, q.pc)
  BY <1>2, OneField, Zenon
<1>4. /\ q.pc = x /\ q.film = r.film /\ q.keys = r.keys /\ q.cur = r.cur
      /\ q.torrentFile = r.torrentFile /\ q.state = r.state
  BY <1>2 DEF At, Fields
<1> QED
  BY <1>1, <1>3, <1>4, Zenon DEF At

\* AddNext changes three.
LEMMA NextKeyFields ==
    ASSUME NEW r, IsThread(r), NEW x, NEW y, NEW k
    PROVE  Fields([r EXCEPT !.pc = x, !.cur = y, !.keys = k],
                  x, r.film, k, y, r.torrentFile, r.state)
<1> DEFINE q == [r EXCEPT !.pc = x, !.cur = y]
<1>1. [r EXCEPT !.pc = x, !.cur = y, !.keys = k] = [q EXCEPT !.keys = k]
  BY Zenon
<1>2. IsThread(q)
  BY TwoMove, Zenon DEF Follows
<1>3. Fields(q, x, r.film, r.keys, y, r.torrentFile, r.state)
  BY TwoFields, Zenon
<1> HIDE DEF q
<1>4. Fields([q EXCEPT !.keys = k], q.pc, q.film, k, q.cur, q.torrentFile, q.state)
  BY <1>2, OneField, Zenon
<1>5. /\ q.pc = x /\ q.film = r.film /\ q.cur = y
      /\ q.torrentFile = r.torrentFile /\ q.state = r.state
  BY <1>3 DEF Fields
<1> QED
  BY <1>1, <1>4, <1>5, Zenon

LEMMA StartedFields ==
    ASSUME NEW film, NEW info, NEW keys
    PROVE  Fields(Started(film, info, keys), "avail", film, keys, NoKey, NoKey, "none")
<1> DEFINE a == [Idle EXCEPT !.pc = "avail"]
           b == [a EXCEPT !.film = film]
           c == [b EXCEPT !.info = info]
           d == [c EXCEPT !.keys = keys]
<1>1. Started(film, info, keys) = d
  BY Zenon DEF Started
<1>2. IsThread(a) /\ Fields(a, "avail", NoFilm, << >>, NoKey, NoKey, "none")
  <2>1. Fields(Idle, "idle", NoFilm, << >>, NoKey, NoKey, "none")
    BY DEF Idle, Fields
  <2>2. IsThread(a) /\ At(a, Idle, "avail")
    BY IdleThread, PcMoves, OneField
  <2> QED
    BY <2>1, <2>2 DEF At, Fields
<1>3. IsThread(b) /\ Fields(b, "avail", film, << >>, NoKey, NoKey, "none")
  <2> HIDE DEF a
  <2>1. IsThread(b)
    BY <1>2, FieldMoves DEF Follows
  <2>2. Fields(b, "avail", film, << >>, NoKey, NoKey, "none")
    BY <1>2 DEF IsThread, Fields
  <2> QED
    BY <2>1, <2>2
<1>4. IsThread(c) /\ Fields(c, "avail", film, << >>, NoKey, NoKey, "none")
  <2> HIDE DEF b
  <2>1. IsThread(c)
    BY <1>3, FieldMoves DEF Follows
  <2>2. Fields(c, "avail", film, << >>, NoKey, NoKey, "none")
    BY <1>3 DEF IsThread, Fields
  <2> QED
    BY <2>1, <2>2
<1>5. Fields(d, "avail", film, keys, NoKey, NoKey, "none")
  <2> HIDE DEF c
  <2> QED  BY <1>4 DEF IsThread, Fields
<1> QED
  BY <1>1, <1>5

\* What an idle thread is does not matter, but for a film it does not have.
LEMMA IdleFields ==
    /\ Idle.pc = "idle" /\ Idle.film = NoFilm
    /\ \A t : Ended(t).pc = "idle" /\ Ended(t).film = NoFilm
<1>1. Idle.pc = "idle" /\ Idle.film = NoFilm
  BY DEF Idle
<1>2. ASSUME NEW t
      PROVE  Ended(t).pc = "idle" /\ Ended(t).film = NoFilm
  BY DEF Ended, Idle
<1> QED
  BY <1>1, <1>2

-----------------------------------------------------------------------------
(* Keys and the session *)

LEMMA NamedKeysSound ==
    ASSUME NEW film \in Films, NEW saved \in BOOLEAN
    PROVE  NamedKeys(film, saved) \subseteq KeysFor(film)
BY ServiceAssumption DEF NamedKeys, KeysFor, KeyOf, Key

LEMMA HeadTail ==
    ASSUME NEW S, NEW s \in Seq(S), s # << >>
    PROVE  /\ Head(s) \in S /\ Tail(s) \in Seq(S)
           /\ \E j \in DOMAIN s : Head(s) = s[j]
           /\ \A i \in DOMAIN Tail(s) : \E j \in DOMAIN s : Tail(s)[i] = s[j]
<1>1. Len(s) \in Nat /\ Len(s) > 0 /\ DOMAIN s = 1 .. Len(s)
  OBVIOUS
<1>2. 1 \in DOMAIN s /\ Head(s) = s[1] /\ s[1] \in S
  BY <1>1
<1>3. Tail(s) \in Seq(S) /\ Len(Tail(s)) = Len(s) - 1
  BY <1>1
<1>4. ASSUME NEW i \in DOMAIN Tail(s)
      PROVE  i + 1 \in DOMAIN s /\ Tail(s)[i] = s[i + 1]
  BY <1>1, <1>3
<1> QED
  BY <1>2, <1>3, <1>4

LEMMA ConcatOf ==
    ASSUME NEW S, NEW a \in Seq(S), NEW b \in Seq(S)
    PROVE  /\ a \o b \in Seq(S)
           /\ Len(a) \in Nat /\ Len(b) \in Nat /\ Len(a \o b) = Len(a) + Len(b)
           /\ DOMAIN (a \o b) = 1 .. Len(a) + Len(b)
           /\ \A i \in 1 .. Len(a) + Len(b) :
                (a \o b)[i] = IF i <= Len(a) THEN a[i] ELSE b[i - Len(a)]
<1>1. a \o b \in Seq(S)
  OBVIOUS
<1>2. Len(a) \in Nat /\ Len(b) \in Nat /\ Len(a \o b) = Len(a) + Len(b)
  OBVIOUS
<1>3. DOMAIN (a \o b) = 1 .. Len(a) + Len(b)
  BY <1>1, <1>2
<1>4. ASSUME NEW i \in 1 .. Len(a) + Len(b)
      PROVE  (a \o b)[i] = IF i <= Len(a) THEN a[i] ELSE b[i - Len(a)]
  OBVIOUS
<1> QED
  BY <1>1, <1>2, <1>3, <1>4

\* The keys a thread tries are the named ones.
LEMMA KeysOfSound ==
    ASSUME NEW film \in Films, NEW saved \in BOOLEAN
    PROVE  /\ KeysOf(film, saved) \in Seq(KeysFor(film))
           /\ \A i \in DOMAIN KeysOf(film, saved) : KeysOf(film, saved)[i] \in NamedKeys(film, saved)
           /\ \A key \in NamedKeys(film, saved) :
                \E i \in DOMAIN KeysOf(film, saved) : KeysOf(film, saved)[i] = key
<1> DEFINE n == Names[film]
           a == IF saved THEN << KeyOf(film, "file") >> ELSE << >>
           b == [i \in DOMAIN n |-> KeyOf(film, n[i])]
<1>1. n \in Seq({"url", "magnet"})
  BY ServiceAssumption
<1>2. Len(n) \in Nat /\ DOMAIN n = 1 .. Len(n) /\ \A i \in DOMAIN n : n[i] \in {"url", "magnet"}
  BY <1>1
<1>3. b \in Seq(KeysFor(film)) /\ Len(b) = Len(n)
  <2>1. \A i \in 1 .. Len(n) : KeyOf(film, n[i]) \in KeysFor(film)
    BY <1>2 DEF KeysFor, KeyOf, Key
  <2> HIDE DEF n
  <2> QED
    BY <1>2, <2>1
<1>4. a \in Seq(KeysFor(film)) /\ Len(a) = (IF saved THEN 1 ELSE 0)
  <2>1. KeyOf(film, "file") \in KeysFor(film)
    BY DEF KeysFor, KeyOf, Key
  <2> QED
    BY <2>1
<1>5. KeysOf(film, saved) = a \o b
  BY DEF KeysOf
<1>6. \A i \in 1 .. Len(b) : b[i] = KeyOf(film, n[i])
  BY <1>2, <1>3
<1>7. saved => a[1] = KeyOf(film, "file")
  OBVIOUS
<1>8. \A key \in NamedKeys(film, saved) :
        \/ saved /\ key = KeyOf(film, "file")
        \/ \E i \in 1 .. Len(n) : key = KeyOf(film, n[i])
  BY <1>2 DEF NamedKeys
<1>9. /\ saved => KeyOf(film, "file") \in NamedKeys(film, saved)
      /\ \A i \in 1 .. Len(n) : KeyOf(film, n[i]) \in NamedKeys(film, saved)
  BY <1>2 DEF NamedKeys
<1> HIDE DEF a, b, n
<1>10. /\ a \o b \in Seq(KeysFor(film)) /\ Len(a \o b) = Len(a) + Len(b)
       /\ Len(a) \in Nat /\ Len(b) \in Nat
  BY <1>3, <1>4, ConcatOf
<1>11. DOMAIN (a \o b) = 1 .. Len(a) + Len(b)
  BY <1>3, <1>4, ConcatOf
<1>12. ASSUME NEW i \in 1 .. Len(a) + Len(b)
       PROVE  (a \o b)[i] = IF i <= Len(a) THEN a[i] ELSE b[i - Len(a)]
  BY <1>3, <1>4, <1>12, ConcatOf
<1>13. ASSUME NEW i \in DOMAIN (a \o b)
       PROVE  (a \o b)[i] \in NamedKeys(film, saved)
  <2>1. i \in 1 .. Len(a) + Len(b)
    BY <1>11, <1>13
  <2>2. CASE i <= Len(a)
    <3>1. saved /\ i = 1
      BY <1>4, <2>1, <2>2
    <3> QED
      BY <1>7, <1>9, <1>12, <2>1, <2>2, <3>1
  <2>3. CASE ~(i <= Len(a))
    <3>1. i - Len(a) \in 1 .. Len(b)
      BY <1>10, <2>1, <2>3
    <3>2. (a \o b)[i] = b[i - Len(a)]
      BY <1>12, <2>1, <2>3
    <3> QED
      BY <1>3, <1>6, <1>9, <3>1, <3>2
  <2> QED
    BY <2>2, <2>3
<1>14. ASSUME NEW key \in NamedKeys(film, saved)
       PROVE  \E i \in DOMAIN (a \o b) : (a \o b)[i] = key
  <2>1. CASE saved /\ key = KeyOf(film, "file")
    <3>1. Len(a) = 1 /\ 1 \in 1 .. Len(a) + Len(b) /\ 1 <= Len(a)
      BY <1>4, <1>10, <2>1
    <3>2. (a \o b)[1] = a[1]
      BY <1>12, <3>1
    <3> QED
      BY <1>7, <1>11, <2>1, <3>1, <3>2
  <2>2. ASSUME NEW i \in 1 .. Len(n), key = KeyOf(film, n[i])
        PROVE  \E j \in DOMAIN (a \o b) : (a \o b)[j] = key
    <3>1. i \in Int /\ i \in 1 .. Len(b)
      BY <1>3, <2>2
    <3>2. /\ Len(a) + i \in 1 .. Len(a) + Len(b) /\ ~(Len(a) + i <= Len(a))
          /\ (Len(a) + i) - Len(a) = i
      BY <1>10, <3>1
    <3>3. (a \o b)[Len(a) + i] = b[i]
      BY <1>12, <3>2
    <3> QED
      BY <1>6, <1>11, <2>2, <3>1, <3>2, <3>3
  <2> QED
    BY <1>8, <2>1, <2>2
<1> QED
  BY <1>5, <1>10, <1>13, <1>14

\* The session's part of TableOK.
SetsOK == metadata \subseteq torrents /\ torrents \subseteq Key

\* A step that takes nothing from other films and adds no torrent to them.
OnlyFilm(film) ==
    \A k \in Key : k.film # film =>
        /\ k \in torrents' => k \in torrents
        /\ k \in metadata => k \in metadata'
        /\ k \in paused => k \in paused'

\* The operations of the service concern the film of their key.
LEMMA SessionOps ==
    ASSUME SetsOK, NEW film, NEW key \in KeysFor(film)
    PROVE  /\ AddTorrent(key) => SetsOK' /\ OnlyFilm(film)
           /\ RemoveTorrent(key) => SetsOK' /\ OnlyFilm(film)
           /\ PauseTorrent(key) => SetsOK' /\ OnlyFilm(film)
           /\ UNCHANGED sessionVars => SetsOK' /\ OnlyFilm(film)
           /\ UNCHANGED << torrents, metadata >> /\ paused' = paused \ {key}
                => SetsOK' /\ OnlyFilm(film)
<1>1. AddTorrent(key) => SetsOK' /\ OnlyFilm(film)
  BY DEF AddTorrent, SetsOK, OnlyFilm, KeysFor, sessionVars
<1>2. RemoveTorrent(key) => SetsOK' /\ OnlyFilm(film)
  BY DEF RemoveTorrent, SetsOK, OnlyFilm, KeysFor
<1>3. PauseTorrent(key) => SetsOK' /\ OnlyFilm(film)
  BY DEF PauseTorrent, SetsOK, OnlyFilm, KeysFor
<1>4. UNCHANGED sessionVars => SetsOK' /\ OnlyFilm(film)
  BY DEF SetsOK, OnlyFilm, sessionVars
<1>5. UNCHANGED << torrents, metadata >> /\ paused' = paused \ {key} => SetsOK' /\ OnlyFilm(film)
  BY DEF SetsOK, OnlyFilm, KeysFor
<1> QED
  BY <1>1, <1>2, <1>3, <1>4, <1>5

-----------------------------------------------------------------------------
(* Steps that do not concern a film, and what every step keeps *)

\* A thread keeps the fields the invariant reads.
Same(t) == At(thread'[t], thread[t], thread[t].pc)

LEMMA UnchangedSame ==
    ASSUME NEW t, thread'[t] = thread[t]
    PROVE  Same(t)
BY DEF Same, At, Fields

LEMMA SameSound ==
    ASSUME NEW t, Same(t), ThreadSound(thread[t])
    PROVE  ThreadSound(thread'[t]) /\ thread'[t].pc = thread[t].pc /\ thread'[t].film = thread[t].film
BY DEF Same, At, Fields, ThreadSound

LEMMA OneThread ==
    ASSUME ThreadsSound, NEW t \in Threads, \A u \in Threads \ {t} : Same(u),
           ThreadSound(thread'[t]),
           t \in Adders => /\ thread'[t].pc \in AdderPcs
                           /\ thread'[t].pc # "idle" => t \in AdderOf[thread'[t].film]
    PROVE  ThreadsSound'
<1>1. ASSUME NEW u \in Threads \ {t}
      PROVE  ThreadSound(thread'[u]) /\ thread'[u].pc = thread[u].pc /\ thread'[u].film = thread[u].film
  BY SameSound DEF ThreadsSound
<1>2. ASSUME NEW u \in Threads
      PROVE  ThreadSound(thread'[u])
  BY <1>1
<1>3. ASSUME NEW u \in Adders
      PROVE  thread'[u].pc \in AdderPcs /\ (thread'[u].pc # "idle" => u \in AdderOf[thread'[u].film])
  <2>1. u \in Threads
    BY DEF Threads
  <2>2. CASE u = t
    BY <2>2
  <2>3. CASE u # t
    BY <1>1, <2>1, <2>3 DEF ThreadsSound, Alive
  <2> QED
    BY <2>2, <2>3
<1>4. (\A u \in Threads : ThreadSound(thread[u]))'
  BY <1>2 DEF ThreadSound
<1> QED
  BY <1>3, <1>4 DEF ThreadsSound, Alive

LEMMA NoThread ==
    ASSUME ThreadsSound, \A u \in Threads : Same(u)
    PROVE  ThreadsSound'
<1>1. ASSUME NEW u \in Threads
      PROVE  ThreadSound(thread'[u]) /\ thread'[u].pc = thread[u].pc /\ thread'[u].film = thread[u].film
  BY SameSound DEF ThreadsSound
<1>2. (\A u \in Threads : ThreadSound(thread[u]))'
  BY <1>1 DEF ThreadSound
<1> QED
  BY <1>1, <1>2 DEF ThreadsSound, Alive, Threads

\* The main thread is in no handler of the film, or in the same state of one.
MainKept(film) ==
    /\ film \in crossed => film \in crossed'
    /\ UNCHANGED main \/ (main.film # film /\ main'.film # film)

LEMMA MainStays ==
    ASSUME NEW film \in Films, HandlerOK, History \/ UNCHANGED historyVars, HasRowAfter(film),
           UNCHANGED main \/ (main.film # film /\ main'.film # film)
    PROVE  MainKept(film)
BY DEF HandlerOK, History, LooksAgain, historyVars, MainKept

LEMMA HandlerKept ==
    ASSUME HandlerOK, UNCHANGED main
    PROVE  HandlerOK'
BY DEF HandlerOK, IsHandler

\* A film that is not excepted after a step, and had its row before, was not
\* excepted before.
LEMMA PlainBefore ==
    ASSUME NEW film \in Films, HasRow(film), Plain(film)',
           History \/ UNCHANGED historyVars,
           Under(film, "remove") => Under(film, "remove")'
    PROVE  Plain(film)
BY DEF Plain, Excepted, HasRow, History, WatchHistory, HasRowAfter, historyVars

LEMMA FrameSettled ==
    ASSUME NEW film \in Films, Settled(film), SetsOK',
           rows'[film] = rows[film],
           \A k \in Key : k.film = film => /\ k \in torrents' => k \in torrents
                                           /\ k \in metadata => k \in metadata'
                                           /\ k \in paused => k \in paused',
           SetsOK, MainKept(film),
           \A t \in AdderOf[film] : Same(t)
    PROVE  Settled(film)'
<1> USE DEF SetsOK
<1>1. /\ RowKeySet(film)' = RowKeySet(film) /\ (Wants(film)' => Wants(film))
      /\ Calling(film)' => Calling(film) /\ main'.key = main.key
  BY DEF MainKept, RowKeySet, SavedFor, NamedKeys, Wants, Calling, Under
<1>2. ASSUME NEW key, OnlyTorrent(film, key)
      PROVE  OnlyTorrent(film, key)'
  BY <1>2 DEF OnlyTorrent
<1>3. ASSUME NEW key \in RowKeySet(film)
      PROVE  /\ key \in metadata => key \in metadata'
             /\ key \in paused => key \in paused'
  <2>1. key \in Key /\ key.film = film
    BY NamedKeysSound DEF RowKeySet, SavedFor, KeysFor
  <2> QED
    BY <2>1
<1>4. ASSUME NEW t \in AdderOf[film]
      PROVE  Stage(film, thread[t])'
  BY <1>1, <1>2, <1>3 DEF Settled, Stage, Same, At, Fields, Holding
<1>5. \A t \in AdderOf[film] : Alive(t)' <=> Alive(t)
  BY DEF Same, At, Fields, Alive
<1>6. HasOne(film) => HasOne(film)'
  BY <1>1, <1>2, <1>3 DEF HasOne
<1> QED
  BY <1>4, <1>5, <1>6 DEF Settled, Adding

LEMMA OthersSettled ==
    ASSUME DownloadInv, SetsOK', History \/ UNCHANGED historyVars,
           NEW g, OnlyFilm(g), NEW film \in Films, film # g,
           rows'[film] = rows[film], \A t \in AdderOf[film] : Same(t), Plain(film)',
           UNCHANGED main \/ (main.film # film /\ main'.film # film)
    PROVE  Settled(film)'
<1>1. Plain(film) /\ HasRowAfter(film)
  BY PlainBefore DEF Plain, HasRow, HasRowAfter, Under
<1>4. MainKept(film)
  BY <1>1, MainStays DEF DownloadInv
<1>2. Settled(film) /\ SetsOK
  BY <1>1 DEF DownloadInv, TableOK, SetsOK
<1>3. \A k \in Key : k.film = film => /\ k \in torrents' => k \in torrents
                                      /\ k \in metadata => k \in metadata'
                                      /\ k \in paused => k \in paused'
  BY DEF OnlyFilm
<1> QED
  BY <1>2, <1>3, <1>4, FrameSettled

\* LAST_TORRENT and the tasks, as long as no row is new.
LEMMA KnownStep ==
    ASSUME WatchedKnown, WatchHistory, \A film \in Films : HasRowAfter(film) => HasRow(film),
           \/ lastTorrent' \in {lastTorrent, NoKey}
           \/ lastTorrent' \in Key /\ \E t \in Tasks : thread'[t].film = lastTorrent'.film
    PROVE  WatchedKnown'
<1>1. \A key \in Key : key.film \in Films
  BY DEF Key
<1>2. ASSUME NEW t \in Tasks, NEW film \in Films, thread'[t].film = film, HasRow(film)'
      PROVE  film \in watched'
  BY <1>2 DEF WatchHistory, HasRow, HasRowAfter
<1>3. lastTorrent' \in Key \cup {NoKey}
  BY DEF WatchedKnown
<1>4. ASSUME lastTorrent' \in Key, HasRow(lastTorrent.film)'
      PROVE  lastTorrent'.film \in watched'
  <2>1. CASE lastTorrent' = lastTorrent
    BY <1>1, <1>4, <2>1 DEF WatchedKnown, WatchHistory, HasRow, HasRowAfter
  <2>2. CASE \E t \in Tasks : thread'[t].film = lastTorrent'.film
    BY <1>1, <1>2, <1>4, <2>2
  <2> QED
    BY <1>4, <2>1, <2>2, KeyAssumption
<1> QED
  BY <1>2, <1>3, <1>4 DEF WatchedKnown

\* The steps of TorrentUtil.addTorrent, with the fields of the thread.
LEMMA AddSteps ==
    ASSUME WatchInv, NEW t \in Threads, AddTorrentStep(t)
    PROVE  /\ \A u \in Threads \ {t} : thread'[u] = thread[u]
           /\ \/ /\ thread[t].pc = "avail" /\ UNCHANGED sessionVars
                 /\ \/ \E key \in Key :
                        /\ FirstAvailable(thread[t].keys, key)
                        /\ Fields(thread'[t], "got", thread[t].film, thread[t].keys, key,
                                  thread[t].torrentFile, thread[t].state)
                    \/ At(thread'[t], thread[t], "add")
              \/ /\ thread[t].pc = "add" /\ thread[t].keys # << >>
                 /\ AddTorrent(Head(thread[t].keys))
                 /\ Fields(thread'[t], "poll", thread[t].film, Tail(thread[t].keys),
                           Head(thread[t].keys), thread[t].torrentFile, thread[t].state)
              \/ /\ thread[t].pc = "poll" /\ UNCHANGED sessionVars
                 /\ \/ thread[t].cur \in metadata /\ At(thread'[t], thread[t], "got")
                    \/ At(thread'[t], thread[t], "expired")
              \/ /\ thread[t].pc = "expired" /\ RemoveTorrent(thread[t].cur)
                 /\ At(thread'[t], thread[t], "add")
<1>1. IsThread(thread[t]) /\ thread = [u \in Threads |-> thread[u]]
  BY DEF WatchInv, ThreadsOK
<1>2. ASSUME NEW pc, Moves(t, pc)
      PROVE  At(thread'[t], thread[t], pc) /\ \A u \in Threads \ {t} : thread'[u] = thread[u]
  <2> DEFINE r == [thread[t] EXCEPT !.pc = pc]
  <2>1. At(r, thread[t], pc)
    BY <1>1, OneField
  <2>2. thread' = [thread EXCEPT ![t] = r]
    BY <1>2 DEF Moves
  <2> HIDE DEF r
  <2> QED
    BY <1>1, <2>1, <2>2
<1>3. CASE GetAvailable(t)
  <2>1. ASSUME NEW key \in Key, thread' = [thread EXCEPT ![t].pc = "got", ![t].cur = key]
        PROVE  /\ \A u \in Threads \ {t} : thread'[u] = thread[u]
               /\ Fields(thread'[t], "got", thread[t].film, thread[t].keys, key,
                         thread[t].torrentFile, thread[t].state)
    <3> DEFINE r == [thread[t] EXCEPT !.pc = "got", !.cur = key]
    <3>1. Fields(r, "got", thread[t].film, thread[t].keys, key,
                 thread[t].torrentFile, thread[t].state)
      BY <1>1, TwoFields, Zenon
    <3>2. thread' = [thread EXCEPT ![t] = r]
      BY <1>1, <2>1
    <3> HIDE DEF r
    <3> QED
      BY <1>1, <3>1, <3>2
  <2>2. CASE \E key \in Key : /\ FirstAvailable(thread[t].keys, key)
                              /\ thread' = [thread EXCEPT ![t].pc = "got", ![t].cur = key]
    BY <1>3, <2>1, <2>2 DEF GetAvailable
  <2>3. CASE Moves(t, "add")
    BY <1>2, <1>3, <2>3 DEF GetAvailable
  <2> QED
    BY <1>3, <2>2, <2>3 DEF GetAvailable
<1>4. CASE AddNext(t)
  <2> DEFINE key == Head(thread[t].keys)
             r == [thread[t] EXCEPT !.pc = "poll", !.cur = key, !.keys = Tail(@)]
  <2>1. Fields(r, "poll", thread[t].film, Tail(thread[t].keys), key,
               thread[t].torrentFile, thread[t].state)
    BY <1>1, NextKeyFields, Zenon
  <2>2. thread' = [thread EXCEPT ![t] = r]
    BY <1>1, <1>4 DEF AddNext
  <2> HIDE DEF r
  <2> QED
    BY <1>1, <1>4, <2>1, <2>2 DEF AddNext
<1>5. CASE Poll(t)
  BY <1>2, <1>5 DEF Poll
<1>6. CASE Expired(t)
  BY <1>2, <1>6 DEF Expired
<1> QED
  BY <1>3, <1>4, <1>5, <1>6 DEF AddTorrentStep

\* ... They concern the thread's film.
LEMMA AddEffects ==
    ASSUME WatchInv, ThreadsSound, SetsOK, NEW t \in Threads, AddTorrentStep(t)
    PROVE  /\ SetsOK' /\ OnlyFilm(thread[t].film)
           /\ \A u \in Threads \ {t} : thread'[u] = thread[u]
           /\ ThreadSound(thread'[t]) /\ thread'[t].film = thread[t].film
           /\ thread'[t].pc \in {"got", "add", "poll", "expired"} /\ Alive(t)
<1> DEFINE film == thread[t].film
<1>1. /\ thread[t].pc # "idle"
      /\ \A u \in Threads \ {t} : thread'[u] = thread[u]
  BY AddSteps DEF Alive
<1>2. /\ film \in Films /\ thread[t].keys \in Seq(KeysFor(film))
      /\ thread[t].pc \in Holding => thread[t].cur \in KeysFor(film)
      /\ thread[t].torrentFile \in KeysFor(film) \cup {NoKey}
  BY <1>1 DEF ThreadsSound, ThreadSound
<1>3. CASE thread[t].pc = "avail" /\ UNCHANGED sessionVars
  <2>1. ASSUME NEW key \in Key, FirstAvailable(thread[t].keys, key)
        PROVE  key \in KeysFor(film)
    <3>1. PICK i \in DOMAIN thread[t].keys : thread[t].keys[i] = key
      BY <2>1 DEF FirstAvailable
    <3> QED
      BY <1>2, <3>1
  <2>2. SetsOK' /\ OnlyFilm(film)
    BY <1>3 DEF SetsOK, OnlyFilm, sessionVars
  <2>3. CASE At(thread'[t], thread[t], "add")
    BY <1>1, <1>2, <2>2, <2>3 DEF At, Fields, ThreadSound, Holding, Alive
  <2>4. CASE \E key \in Key :
                /\ FirstAvailable(thread[t].keys, key)
                /\ Fields(thread'[t], "got", thread[t].film, thread[t].keys, key,
                          thread[t].torrentFile, thread[t].state)
    BY <1>1, <1>2, <2>1, <2>2, <2>4 DEF Fields, ThreadSound, Alive
  <2> QED
    BY <1>3, <2>3, <2>4, AddSteps
<1>4. CASE thread[t].pc = "add"
  <2>1. /\ thread[t].keys # << >> /\ AddTorrent(Head(thread[t].keys))
        /\ Fields(thread'[t], "poll", thread[t].film, Tail(thread[t].keys),
                  Head(thread[t].keys), thread[t].torrentFile, thread[t].state)
    BY <1>4, AddSteps
  <2>2. Head(thread[t].keys) \in KeysFor(film) /\ Tail(thread[t].keys) \in Seq(KeysFor(film))
    BY <1>2, <2>1, HeadTail
  <2>3. SetsOK' /\ OnlyFilm(film)
    BY <2>1, <2>2, SessionOps
  <2> QED
    BY <1>1, <1>2, <2>1, <2>2, <2>3 DEF Fields, ThreadSound, Alive
<1>5. CASE thread[t].pc = "poll"
  <2>1. UNCHANGED sessionVars /\ (At(thread'[t], thread[t], "got") \/ At(thread'[t], thread[t], "expired"))
    BY <1>5, AddSteps
  <2>2. SetsOK' /\ OnlyFilm(film)
    BY <2>1 DEF SetsOK, OnlyFilm, sessionVars
  <2>3. thread[t].cur \in KeysFor(film)
    BY <1>2, <1>5 DEF Holding
  <2> QED
    BY <1>1, <1>2, <2>1, <2>2, <2>3 DEF At, Fields, ThreadSound, Alive
<1>6. CASE thread[t].pc = "expired"
  <2>1. RemoveTorrent(thread[t].cur) /\ At(thread'[t], thread[t], "add")
    BY <1>6, AddSteps
  <2>2. thread[t].cur \in KeysFor(film)
    BY <1>2, <1>6 DEF Holding
  <2>3. SetsOK' /\ OnlyFilm(film)
    BY <2>1, <2>2, SessionOps
  <2> QED
    BY <1>1, <1>2, <2>1, <2>3 DEF At, Fields, ThreadSound, Holding, Alive
<1> QED
  BY <1>3, <1>4, <1>5, <1>6, AddSteps

-----------------------------------------------------------------------------
(* The steps of a task *)

TaskEffect(t) ==
    /\ SetsOK' /\ OnlyFilm(thread[t].film)
    /\ \A u \in Threads \ {t} : Same(u)
    /\ ThreadSound(thread'[t])
    /\ \/ lastTorrent' = lastTorrent
       \/ lastTorrent' \in Key /\ thread'[t].film = lastTorrent'.film
    /\ DialogOK'

LEMMA NotedFields ==
    ASSUME WatchInv, NEW key, NEW th, th = NotedToPause(thread, key)
    PROVE  \A u \in Threads : At(th[u], thread[u], thread[u].pc)
<1>1. CASE th = thread
  BY <1>1 DEF At, Fields
<1>2. CASE isWatchAlive /\ th = [thread EXCEPT ![watchTask].torrentPaused = TRUE]
  <2>1. watchTask \in Threads
    BY <1>2 DEF isWatchAlive, Threads
  <2> DEFINE r == [thread[watchTask] EXCEPT !.torrentPaused = TRUE]
  <2>2. At(r, thread[watchTask], thread[watchTask].pc)
    BY <2>1, OneField DEF WatchInv, ThreadsOK
  <2>3. th = [thread EXCEPT ![watchTask] = r]
    BY <1>2
  <2> HIDE DEF r
  <2> QED
    BY <2>1, <2>2, <2>3 DEF WatchInv, ThreadsOK, At, Fields
<1> QED
  BY <1>1, <1>2 DEF NotedToPause, isWatchingNow

LEMMA DialogKept ==
    ASSUME DialogOK, NEW t, UNCHANGED dialog \/ DialogFails(t)
    PROVE  DialogOK'
<1>1. CASE dialog' = dialog
  BY <1>1 DEF DialogOK, IsDialog
<1>2. CASE dialog.shown = "open" /\ dialog' = [dialog EXCEPT !.shown = "failed"]
  <2>1. /\ IsDialog(dialog')
        /\ dialog'.film = dialog.film /\ dialog'.keys = dialog.keys
    BY <1>2 DEF DialogOK, IsDialog
  <2>2. dialog.film \in Films /\ dialog.keys \in Seq(KeysFor(dialog.film))
    BY <1>2 DEF DialogOK
  <2> QED
    BY <2>1, <2>2 DEF DialogOK, IsDialog
<1> QED
  BY <1>1, <1>2 DEF DialogFails

\* A step that leaves the session alone and moves one thread, with all fields but
\* the program counter, to a place where no key is newly required.
LEMMA MoveEffect ==
    ASSUME DownloadInv, NEW t \in Threads, thread[t].pc # "idle", NEW pc,
           UNCHANGED << sessionVars, lastTorrent, dialog >>,
           At(thread'[t], thread[t], pc),
           \A u \in Threads \ {t} : thread'[u] = thread[u],
           pc \in Holding => thread[t].pc \in Holding,
           pc \in {"file", "check"} => thread[t].pc \in {"file", "check"}
    PROVE  TaskEffect(t)
<1>1. SetsOK' /\ OnlyFilm(thread[t].film)
  BY DEF DownloadInv, TableOK, SetsOK, OnlyFilm, sessionVars
<1>2. \A u \in Threads \ {t} : Same(u)
  BY UnchangedSame
<1>3. ThreadSound(thread[t])
  BY DEF DownloadInv, ThreadsSound
<1>4. ThreadSound(thread'[t])
  BY <1>3 DEF ThreadSound, At, Fields
<1>5. DialogOK'
  BY DialogKept DEF DownloadInv
<1> QED
  BY <1>1, <1>2, <1>4, <1>5 DEF TaskEffect

\* The fields after Moves.
LEMMA MovesFields ==
    ASSUME WatchInv, NEW t \in Threads, NEW pc, Moves(t, pc)
    PROVE  At(thread'[t], thread[t], pc) /\ \A u \in Threads \ {t} : thread'[u] = thread[u]
<1> DEFINE r == [thread[t] EXCEPT !.pc = pc]
<1>1. IsThread(thread[t]) /\ thread = [u \in Threads |-> thread[u]]
  BY DEF WatchInv, ThreadsOK
<1>2. At(r, thread[t], pc)
  BY <1>1, OneField
<1>3. thread' = [thread EXCEPT ![t] = r]
  BY DEF Moves
<1> HIDE DEF r
<1> QED
  BY <1>1, <1>2, <1>3

\* A task ends and does with the torrent of its film what it may.
LEMMA EndEffect ==
    ASSUME DownloadInv, NEW t \in Threads, thread'[t].pc = "idle",
           SetsOK' /\ OnlyFilm(thread[t].film), UNCHANGED lastTorrent,
           \A u \in Threads \ {t} : Same(u),
           UNCHANGED dialog \/ DialogFails(t)
    PROVE  TaskEffect(t)
<1>1. ThreadSound(thread'[t])
  BY DEF ThreadSound
<1>2. DialogOK'
  BY DialogKept DEF DownloadInv
<1> QED
  BY <1>1, <1>2 DEF TaskEffect

LEMMA EndsFields ==
    ASSUME WatchInv, NEW t \in Threads, Ends(t)
    PROVE  thread'[t].pc = "idle" /\ \A u \in Threads \ {t} : Same(u)
<1>1. thread' = [thread EXCEPT ![t] = Ended(t)] /\ thread = [u \in Threads |-> thread[u]]
  BY DEF Ends, WatchInv, ThreadsOK
<1>2. thread'[t] = Ended(t) /\ \A u \in Threads \ {t} : thread'[u] = thread[u]
  BY <1>1
<1> QED
  BY <1>2, IdleFields, UnchangedSame

LEMMA TaskEffects ==
    ASSUME DownloadInv, NEW t \in Tasks, TaskStep(t) \/ LoopFinished(t)
    PROVE  TaskEffect(t)
<1> DEFINE film == thread[t].film
<1>1. t \in Threads /\ WatchInv /\ ThreadsSound /\ SetsOK /\ DialogOK
  BY DEF Threads, DownloadInv, TableOK, SetsOK
<1>2. IsThread(thread[t]) /\ thread = [u \in Threads |-> thread[u]] /\ ThreadSound(thread[t])
  BY <1>1 DEF WatchInv, ThreadsOK, ThreadsSound
<1>3. UNCHANGED sessionVars => SetsOK' /\ OnlyFilm(film)
  BY <1>1 DEF SetsOK, OnlyFilm, sessionVars
<1>4. CASE AddTorrentStep(t) /\ UNCHANGED dialog
  <2>1. UNCHANGED lastTorrent
    BY <1>4 DEF AddTorrentStep, GetAvailable, AddNext, Poll, Expired
  <2>2. DialogOK'
    BY <1>1, <1>4, DialogKept
  <2> QED
    BY <1>1, <1>4, <2>1, <2>2, AddEffects, UnchangedSame DEF TaskEffect
<1>5. CASE PollInterrupted(t)
  <2>1. thread[t].cur \in KeysFor(film)
    BY <1>2, <1>5 DEF PollInterrupted, ThreadSound, Holding
  <2>2. SetsOK' /\ OnlyFilm(film)
    BY <1>1, <1>5, <2>1, SessionOps DEF PollInterrupted
  <2> QED
    BY <1>1, <1>5, <2>2, EndsFields, EndEffect DEF PollInterrupted
<1>6. CASE NotLoaded(t) \/ WaitInterrupted(t) \/ LoopFinished(t)
  BY <1>1, <1>3, <1>6, EndsFields, EndEffect DEF NotLoaded, WaitInterrupted, LoopFinished
<1>7. CASE NoteTorrent(t)
  <2>1. At(thread'[t], thread[t], "noted") /\ \A u \in Threads \ {t} : thread'[u] = thread[u]
    BY <1>1, <1>7, MovesFields DEF NoteTorrent
  <2>2. film \in Films /\ thread[t].cur \in KeysFor(film)
    BY <1>2, <1>7 DEF NoteTorrent, ThreadSound, Holding
  <2>3. ThreadSound(thread'[t]) /\ thread'[t].film = film
    BY <1>2, <1>7, <2>1, <2>2 DEF NoteTorrent, ThreadSound, At, Fields
  <2>4. lastTorrent' \in {lastTorrent, thread[t].cur} /\ UNCHANGED << sessionVars, dialog >>
    BY <1>7 DEF NoteTorrent
  <2>5. DialogOK'
    BY <1>1, <2>4, DialogKept
  <2> QED
    BY <1>3, <2>1, <2>2, <2>3, <2>4, <2>5, UnchangedSame DEF TaskEffect, KeysFor
<1>8. CASE SetTorrentFile(t)
  <2> DEFINE r == [thread[t] EXCEPT !.pc = "file", !.torrentFile = thread[t].cur]
  <2>1. Fields(r, "file", film, thread[t].keys, thread[t].cur, thread[t].cur, thread[t].state)
    BY <1>2, TwoFields, Zenon
  <2>2. thread' = [thread EXCEPT ![t] = r]
    BY <1>1, <1>2, <1>8 DEF SetTorrentFile
  <2> HIDE DEF r
  <2>3. thread'[t] = r /\ \A u \in Threads \ {t} : thread'[u] = thread[u]
    BY <1>1, <1>2, <2>2
  <2>4. ThreadSound(thread'[t])
    BY <1>2, <1>8, <2>1, <2>3 DEF SetTorrentFile, ThreadSound, Fields, Holding
  <2>5. DialogOK' /\ UNCHANGED << sessionVars, lastTorrent >>
    BY <1>1, <1>8, DialogKept DEF SetTorrentFile
  <2> QED
    BY <1>3, <2>3, <2>4, <2>5, UnchangedSame DEF TaskEffect
<1>9. CASE ResumeForWatch(t)
  <2> DEFINE b == thread[t].torrentFile \in paused \/ ~thread[t].info
             r == [thread[t] EXCEPT !.pc = "check", !.torrentPaused = b]
  <2>1. At(r, thread[t], "check")
    BY <1>2, TwoFields, Zenon
  <2>2. thread' = [thread EXCEPT ![t] = r]
    BY <1>1, <1>2, <1>9 DEF ResumeForWatch
  <2> HIDE DEF r
  <2>3. thread'[t] = r /\ \A u \in Threads \ {t} : thread'[u] = thread[u]
    BY <1>1, <1>2, <2>2
  <2>4. thread[t].torrentFile \in KeysFor(film)
    BY <1>2, <1>9 DEF ResumeForWatch, ThreadSound
  <2>5. ThreadSound(thread'[t])
    BY <1>2, <1>9, <2>1, <2>3, <2>4 DEF ResumeForWatch, ThreadSound, At, Fields, Holding
  <2>6. SetsOK' /\ OnlyFilm(film)
    BY <1>1, <1>9, <2>4, SessionOps DEF ResumeForWatch
  <2>7. DialogOK' /\ UNCHANGED lastTorrent
    BY <1>1, <1>9, DialogKept DEF ResumeForWatch
  <2> QED
    BY <2>3, <2>5, <2>6, <2>7, UnchangedSame DEF TaskEffect
<1>10. CASE FileChecked(t) \/ NoRequest(t)
  <2>1. PICK pc \in {"subtitles", "loop"} : Moves(t, pc)
    BY <1>10 DEF FileChecked, NoRequest
  <2>2. thread[t].pc # "idle" /\ UNCHANGED << sessionVars, lastTorrent, dialog >>
    BY <1>10 DEF FileChecked, NoRequest
  <2> QED
    BY <1>1, <2>1, <2>2, MovesFields, MoveEffect DEF Holding
<1>11. CASE FileMissing(t)
  <2> DEFINE key == thread[t].torrentFile
             th == IF thread[t].torrentPaused THEN NotedToPause(thread, key) ELSE thread
  <2>1. key \in KeysFor(film)
    BY <1>2, <1>11 DEF FileMissing, ThreadSound
  <2>2. SetsOK' /\ OnlyFilm(film)
    BY <1>1, <1>3, <1>11, <2>1, SessionOps DEF FileMissing
  <2>3. \A u \in Threads : At(th[u], thread[u], thread[u].pc)
    <3>1. CASE thread[t].torrentPaused
      BY <1>1, <3>1, NotedFields
    <3>2. CASE ~thread[t].torrentPaused
      BY <3>2 DEF At, Fields
    <3> QED
      BY <3>1, <3>2
  <2>4. th = [u \in Threads |-> th[u]]
    BY <1>1, <1>2, NotedThreads
  <2>5. thread' = [th EXCEPT ![t] = Ended(t)]
    BY <1>11 DEF FileMissing
  <2> HIDE DEF th
  <2>6. thread'[t] = Ended(t) /\ \A u \in Threads \ {t} : thread'[u] = th[u]
    BY <1>1, <2>4, <2>5
  <2>7. \A u \in Threads \ {t} : Same(u)
    BY <2>3, <2>6 DEF Same
  <2> QED
    BY <1>1, <1>11, <2>2, <2>6, <2>7, IdleFields, EndEffect DEF FileMissing
<1>12. CASE RequestSubtitles(t)
  <2> DEFINE r == [thread[t] EXCEPT !.pc = "requested", !.reply = TRUE]
  <2>1. At(r, thread[t], "requested")
    BY <1>2, TwoFields, Zenon
  <2>2. thread' = [thread EXCEPT ![t] = r]
    BY <1>1, <1>2, <1>12 DEF RequestSubtitles
  <2> HIDE DEF r
  <2>3. thread'[t] = r /\ \A u \in Threads \ {t} : thread'[u] = thread[u]
    BY <1>1, <1>2, <2>2
  <2> QED
    BY <1>1, <1>12, <2>1, <2>3, MoveEffect DEF RequestSubtitles, Holding
<1>13. CASE WaitForSubtitles(t)
  <2>1. thread[t].pc # "idle" /\ UNCHANGED << sessionVars, lastTorrent, dialog >>
    BY <1>13 DEF WaitForSubtitles
  <2>2. CASE Ends(t)
    BY <1>1, <1>3, <2>1, <2>2, EndsFields, EndEffect
  <2>3. CASE Moves(t, "wait")
    BY <1>1, <2>1, <2>3, MovesFields, MoveEffect DEF Holding
  <2> QED
    BY <1>13, <2>2, <2>3 DEF WaitForSubtitles
<1> QED
  BY <1>4, <1>5, <1>6, <1>7, <1>8, <1>9, <1>10, <1>11, <1>12, <1>13 DEF TaskStep

LEMMA AnswerEffect ==
    ASSUME DownloadInv, NEW t \in Tasks, SubtitlesAnswered(t)
    PROVE  TaskEffect(t)
<1>1. t \in Threads /\ IsThread(thread[t]) /\ thread = [u \in Threads |-> thread[u]]
  BY DEF Threads, DownloadInv, WatchInv, ThreadsOK
<1> DEFINE pc == IF thread[t].pc = "wait" THEN "loop" ELSE thread[t].pc
           q == [thread[t] EXCEPT !.reply = FALSE]
           r == [thread[t] EXCEPT !.reply = FALSE, !.pc = pc]
<1>2. At(r, thread[t], pc)
  <2>1. IsThread(q) /\ At(q, thread[t], thread[t].pc)
    BY <1>1, FieldMoves, OneField DEF Follows
  <2>2. r = [q EXCEPT !.pc = pc]
    BY Zenon
  <2> HIDE DEF q, r, pc
  <2>3. At([q EXCEPT !.pc = pc], q, pc)
    BY <2>1, OneField
  <2> QED
    BY <2>1, <2>2, <2>3 DEF At, Fields
<1>3. thread' = [thread EXCEPT ![t] = r]
  BY <1>1 DEF SubtitlesAnswered, IsThread
<1>4. /\ pc \in Holding => thread[t].pc \in Holding
      /\ pc \in {"file", "check"} => thread[t].pc \in {"file", "check"}
      /\ pc = "idle" <=> thread[t].pc = "idle"
  BY DEF Holding
<1> HIDE DEF r, pc
<1>5. thread'[t] = r /\ \A u \in Threads \ {t} : thread'[u] = thread[u]
  BY <1>1, <1>3
<1>6. UNCHANGED << sessionVars, lastTorrent, dialog >>
  BY DEF SubtitlesAnswered
<1>7. CASE thread[t].pc # "idle"
  BY <1>1, <1>2, <1>4, <1>5, <1>6, <1>7, MoveEffect
<1>8. CASE thread[t].pc = "idle"
  <2>1. SetsOK' /\ OnlyFilm(thread[t].film)
    BY <1>6 DEF DownloadInv, TableOK, SetsOK, OnlyFilm, sessionVars
  <2>2. thread'[t].pc = "idle"
    BY <1>2, <1>4, <1>5, <1>8 DEF At, Fields
  <2> QED
    BY <1>1, <1>5, <1>6, <2>1, <2>2, UnchangedSame, EndEffect
<1> QED
  BY <1>7, <1>8

\* A task has no step that concerns a download, unless that was watched.
LEMMA TaskDownloads ==
    ASSUME DownloadInv, WatchInv', NEW t \in Tasks, TaskEffect(t), UNCHANGED << rows, main >>,
           History
    PROVE  DownloadInv'
<1> DEFINE g == thread[t].film
<1>1. t \in Threads /\ t \notin Adders
  BY ServiceAssumption DEF Threads
<1>2. ThreadsSound'
  BY <1>1, OneThread DEF TaskEffect, DownloadInv
<1>3. TableOK'
  BY DEF TaskEffect, SetsOK, TableOK, DownloadInv
<1>4. WatchedKnown'
  BY KnownStep DEF TaskEffect, DownloadInv, History, HasRowAfter, HasRow
<1>5. ASSUME NEW film \in Films, Plain(film)'
      PROVE  Settled(film)'
  <2>1. Plain(film)
    BY <1>5, PlainBefore DEF Plain, HasRow, Under
  <2>2. film # g
    BY <2>1 DEF DownloadInv, WatchedKnown, Plain, Excepted
  <2>3. \A u \in AdderOf[film] : Same(u)
    BY <1>1, AdderAssumption DEF TaskEffect, Threads
  <2> QED
    BY <1>5, <2>2, <2>3, OthersSettled DEF TaskEffect
<1> QED
  BY <1>2, <1>3, <1>4, <1>5, HandlerKept DEF DownloadInv, TaskEffect

-----------------------------------------------------------------------------
(* The steps of a thread that adds a download *)

\* Its own film: the film's other threads do not run.
LEMMA OwnSettled ==
    ASSUME DownloadInv, NEW film \in Films, Plain(film), NEW t \in AdderOf[film], Alive(t),
           \A u \in AdderOf[film] \ {t} : Same(u),
           Stage(film, thread[t])', thread'[t].pc # "idle" \/ HasOne(film)'
    PROVE  Settled(film)'
<1>1. \A u \in AdderOf[film] \ {t} : thread[u].pc = "idle"
  BY DEF DownloadInv, Settled, Alive
<1>2. \A u \in AdderOf[film] \ {t} : thread'[u].pc = "idle"
  BY <1>1 DEF Same, At, Fields
<1>3. \A u \in AdderOf[film] : Stage(film, thread[u])'
  BY <1>2 DEF Stage, Holding
<1> QED
  BY <1>2, <1>3 DEF Settled, Adding, Alive

LEMMA NotWatchingNow ==
    ASSUME DownloadInv, NEW film \in Films, Plain(film), NEW key \in KeysFor(film)
    PROVE  ~isWatchingNow(key)
<1> SUFFICES ASSUME isWatchingNow(key) PROVE FALSE
  OBVIOUS
<1>1. watchTask \in Tasks /\ thread[watchTask].pc # "idle" /\ thread[watchTask].torrentFile = key
  BY DEF isWatchingNow, isWatchAlive, Alive
<1>2. ThreadSound(thread[watchTask])
  BY <1>1 DEF DownloadInv, ThreadsSound, Threads
<1>3. key \in KeysFor(thread[watchTask].film)
  BY <1>1, <1>2, KeyAssumption DEF ThreadSound, KeysFor
<1>4. thread[watchTask].film = film
  BY <1>3 DEF KeysFor
<1> QED
  BY <1>1, <1>4 DEF DownloadInv, WatchedKnown, Plain, Excepted

AdderEffect(t) ==
    /\ SetsOK' /\ OnlyFilm(thread[t].film)
    /\ \A u \in Threads \ {t} : Same(u)
    /\ ThreadSound(thread'[t]) /\ thread'[t].pc \in AdderPcs
    /\ thread'[t].pc # "idle" => thread'[t].film = thread[t].film
    /\ Alive(t) /\ UNCHANGED lastTorrent
    /\ rows' = [film \in Films |-> rows'[film]]
    /\ \A film \in Films : IsRow(rows'[film]) /\ (HasRowAfter(film) => HasRow(film))
    /\ \A film \in Films \ {thread[t].film} : rows'[film] = rows[film]

\* Its own film during TorrentUtil.addTorrent.
LEMMA AddStage ==
    ASSUME DownloadInv, NEW film \in Films, Plain(film), NEW t \in AdderOf[film],
           thread[t].film = film, AddTorrentStep(t), UNCHANGED << rows, main >>
    PROVE  Stage(film, thread[t])' /\ thread'[t].pc # "idle"
<1>1. t \in Threads /\ WatchInv /\ ThreadsSound /\ SetsOK
  BY AdderAssumption DEF Threads, DownloadInv, TableOK, SetsOK
<1>2. Stage(film, thread[t])
  BY DEF DownloadInv, Settled
<1>3. RowKeySet(film)' = RowKeySet(film)
  BY DEF RowKeySet, SavedFor, NamedKeys
<1>4. ThreadSound(thread[t]) /\ SetsOK'
  BY <1>1, AddEffects DEF ThreadsSound
<1>5. CASE thread[t].pc = "avail"
  <2>1. \A k \in torrents : k.film # film
    BY <1>2, <1>5 DEF Stage
  <2>2. ASSUME NEW key \in Key, FirstAvailable(thread[t].keys, key)
        PROVE  FALSE
    <3>1. PICK i \in DOMAIN thread[t].keys : thread[t].keys[i] = key /\ key \in metadata
      BY <2>2 DEF FirstAvailable
    <3>2. thread[t].keys \in Seq(KeysFor(film))
      BY <1>4, <1>5 DEF ThreadSound
    <3>3. key.film = film
      BY <3>1, <3>2 DEF KeysFor
    <3> QED
      BY <1>1, <2>1, <3>1, <3>3 DEF SetsOK
  <2>3. At(thread'[t], thread[t], "add") /\ UNCHANGED sessionVars
    BY <1>1, <1>5, <2>2, AddSteps
  <2> QED
    BY <1>2, <1>3, <1>5, <2>1, <2>3 DEF Stage, At, Fields, Holding, sessionVars
<1>6. CASE thread[t].pc = "add"
  <2>1. /\ thread[t].keys # << >> /\ AddTorrent(Head(thread[t].keys))
        /\ Fields(thread'[t], "poll", thread[t].film, Tail(thread[t].keys),
                  Head(thread[t].keys), thread[t].torrentFile, thread[t].state)
    BY <1>1, <1>6, AddSteps
  <2>2. thread[t].keys \in Seq(KeysFor(film))
    BY <1>4, <1>6 DEF ThreadSound
  <2>3. /\ \E j \in DOMAIN thread[t].keys : Head(thread[t].keys) = thread[t].keys[j]
        /\ \A i \in DOMAIN Tail(thread[t].keys) :
             \E j \in DOMAIN thread[t].keys : Tail(thread[t].keys)[i] = thread[t].keys[j]
    BY <2>1, <2>2, HeadTail
  <2>4. /\ Head(thread[t].keys) \in RowKeySet(film)
        /\ \A i \in DOMAIN Tail(thread[t].keys) : Tail(thread[t].keys)[i] \in RowKeySet(film)
    BY <1>2, <1>6, <2>3 DEF Stage
  <2>5. torrents' \subseteq torrents \cup {Head(thread[t].keys)}
    BY <2>1 DEF AddTorrent, sessionVars
  <2>6. \A k \in torrents' : k.film = film => k = Head(thread[t].keys)
    BY <1>2, <1>6, <2>5 DEF Stage
  <2> QED
    BY <1>3, <2>1, <2>4, <2>6 DEF Stage, Fields, Holding, OnlyTorrent
<1>7. CASE thread[t].pc = "poll"
  <2>1. /\ UNCHANGED sessionVars
        /\ \/ thread[t].cur \in metadata /\ At(thread'[t], thread[t], "got")
           \/ At(thread'[t], thread[t], "expired")
    BY <1>1, <1>7, AddSteps
  <2> QED
    BY <1>2, <1>3, <1>7, <2>1 DEF Stage, At, Fields, Holding, OnlyTorrent, sessionVars
<1>8. CASE thread[t].pc = "expired"
  <2>1. RemoveTorrent(thread[t].cur) /\ At(thread'[t], thread[t], "add")
    BY <1>1, <1>8, AddSteps
  <2>2. \A k \in torrents' : k.film # film
    BY <1>2, <1>8, <2>1 DEF Stage, OnlyTorrent, RemoveTorrent, Holding
  <2> QED
    BY <1>2, <1>3, <1>8, <2>1, <2>2 DEF Stage, At, Fields, Holding
<1> QED
  BY <1>1, <1>5, <1>6, <1>7, <1>8, AddSteps

\* Updates of a row.
LEMMA RowFields ==
    ASSUME NEW r, IsRow(r), NEW x
    PROVE  /\ IsRow([r EXCEPT !.state = x])
           /\ [r EXCEPT !.state = x].state = x /\ [r EXCEPT !.state = x].saved = r.saved
BY DEF IsRow

LEMMA NewRow ==
    ASSUME NEW x, NEW s \in BOOLEAN
    PROVE  /\ IsRow([state |-> x, saved |-> s])
           /\ [state |-> x, saved |-> s].state = x /\ [state |-> x, saved |-> s].saved = s
BY DEF IsRow

LEMMA RowChanges ==
    ASSUME TableOK, NEW film \in Films, NEW row, IsRow(row), rows' = [rows EXCEPT ![film] = row]
    PROVE  /\ rows' = [f \in Films |-> rows'[f]] /\ \A f \in Films : IsRow(rows'[f])
           /\ rows'[film] = row /\ \A f \in Films \ {film} : rows'[f] = rows[f]
BY DEF TableOK

\* What a thread that adds may do to the rows: only to its own, and it makes none.
RowEffect(film) ==
    /\ rows' = [f \in Films |-> rows'[f]]
    /\ \A f \in Films : IsRow(rows'[f]) /\ (HasRowAfter(f) => HasRow(f))
    /\ \A f \in Films \ {film} : rows'[f] = rows[f]

LEMMA RowEffects ==
    ASSUME TableOK, NEW film \in Films, NEW row, IsRow(row),
           \/ UNCHANGED rows
           \/ rows' = Updated(film, row)
           \/ rows' = [rows EXCEPT ![film] = row] /\ (HasRow(film) \/ row.state = "none")
    PROVE  RowEffect(film)
<1>1. CASE UNCHANGED rows
  BY <1>1 DEF TableOK, RowEffect, HasRow, HasRowAfter
<1>2. CASE rows' = [rows EXCEPT ![film] = row] /\ (HasRow(film) \/ row.state = "none")
  BY <1>2, RowChanges DEF RowEffect, HasRow, HasRowAfter
<1> QED
  BY <1>1, <1>2 DEF Updated

LEMMA AdderEffects ==
    ASSUME DownloadInv, NEW t \in Adders, AdderStep(t)
    PROVE  AdderEffect(t)
<1> DEFINE film == thread[t].film
<1>1. t \in Threads /\ WatchInv /\ ThreadsSound /\ SetsOK /\ TableOK
  BY DEF Threads, DownloadInv, TableOK, SetsOK
<1>2. /\ IsThread(thread[t]) /\ thread = [u \in Threads |-> thread[u]]
      /\ ThreadSound(thread[t])
  BY <1>1 DEF WatchInv, ThreadsOK, ThreadsSound
<1>3. UNCHANGED sessionVars => SetsOK' /\ OnlyFilm(film)
  BY <1>1 DEF SetsOK, OnlyFilm, sessionVars
<1>4. Alive(t) /\ UNCHANGED lastTorrent
  BY DEF AdderStep, AddTorrentStep, GetAvailable, AddNext, Poll, Expired, AddFailed, NothingAdded,
         FileFound, FileNotFound, QueryRow, SaveMetadata, PauseIfPaused, Alive
<1>5. film \in Films /\ IsRow(rows[film])
  BY <1>1, <1>2, <1>4 DEF ThreadSound, Alive, TableOK
<1>6. UNCHANGED rows => RowEffect(film)
  BY <1>1, <1>5, RowEffects
<1>7. ASSUME thread' = [thread EXCEPT ![t] = Idle]
      PROVE  /\ \A u \in Threads \ {t} : Same(u)
             /\ ThreadSound(thread'[t]) /\ thread'[t].pc = "idle"
  <2>1. thread'[t] = Idle /\ \A u \in Threads \ {t} : thread'[u] = thread[u]
    BY <1>1, <1>2, <1>7
  <2> QED
    BY <2>1, IdleFields, UnchangedSame DEF ThreadSound
<1>8. ASSUME NEW pc \in {"query", "pause"}, Moves(t, pc), thread[t].pc \in {"got", "save"}
      PROVE  /\ \A u \in Threads \ {t} : Same(u)
             /\ ThreadSound(thread'[t]) /\ thread'[t].pc = pc /\ thread'[t].film = film
  <2>1. At(thread'[t], thread[t], pc) /\ \A u \in Threads \ {t} : thread'[u] = thread[u]
    BY <1>1, <1>8, MovesFields
  <2> QED
    BY <1>2, <1>8, <2>1, UnchangedSame DEF ThreadSound, At, Fields, Holding
<1>9. CASE AddTorrentStep(t) /\ UNCHANGED rows
  BY <1>1, <1>4, <1>6, <1>9, AddEffects, UnchangedSame DEF AdderEffect, RowEffect, AdderPcs
<1>10. CASE AddFailed(t)
  <2>1. RowEffect(film)
    <3> DEFINE row == [rows[film] EXCEPT !.state = "ERROR"]
    <3>1. IsRow(row)
      BY <1>5, RowFields
    <3>2. UNCHANGED rows \/ rows' = Updated(film, row)
      BY <1>10 DEF AddFailed
    <3> HIDE DEF row
    <3> QED
      BY <1>1, <1>5, <3>1, <3>2, RowEffects
  <2>2. thread' = [thread EXCEPT ![t] = Idle] /\ UNCHANGED sessionVars
    BY <1>10 DEF AddFailed
  <2> QED
    BY <1>3, <1>4, <1>7, <2>1, <2>2 DEF AdderEffect, RowEffect, AdderPcs
<1>11. CASE FileFound(t)
  BY <1>3, <1>4, <1>6, <1>8, <1>11 DEF FileFound, AdderEffect, RowEffect, AdderPcs
<1>12. CASE FileNotFound(t)
  <2>1. RowEffect(film)
    <3>1. IsRow(NoRow) /\ NoRow.state = "none"
      BY NewRow DEF NoRow
    <3>2. UNCHANGED rows \/ rows' = [rows EXCEPT ![film] = NoRow]
      BY <1>12 DEF FileNotFound
    <3> QED
      BY <1>1, <1>5, <3>1, <3>2, RowEffects
  <2>2. thread' = [thread EXCEPT ![t] = Idle] /\ UNCHANGED sessionVars
    BY <1>12 DEF FileNotFound
  <2> QED
    BY <1>3, <1>4, <1>7, <2>1, <2>2 DEF AdderEffect, RowEffect, AdderPcs
<1>13. CASE QueryRow(t)
  <2> DEFINE x == rows[film].state
             r == [thread[t] EXCEPT !.pc = "save", !.state = x]
  <2>1. UNCHANGED << sessionVars, rows >> /\ thread[t].pc = "query"
    BY <1>13 DEF QueryRow
  <2>2. CASE thread' = [thread EXCEPT ![t] = Idle]
    BY <1>3, <1>4, <1>6, <1>7, <2>1, <2>2 DEF AdderEffect, RowEffect, AdderPcs
  <2>3. CASE thread' = [thread EXCEPT ![t].pc = "save", ![t].state = x]
    <3>1. Fields(r, "save", film, thread[t].keys, thread[t].cur, thread[t].torrentFile, x)
      BY <1>2, TwoFields, Zenon
    <3>2. thread' = [thread EXCEPT ![t] = r]
      BY <1>1, <1>2, <2>3
    <3> HIDE DEF r
    <3>3. thread'[t] = r /\ \A u \in Threads \ {t} : thread'[u] = thread[u]
      BY <1>1, <1>2, <3>2
    <3>4. ThreadSound(thread'[t]) /\ thread'[t].pc = "save" /\ thread'[t].film = film
      BY <1>2, <2>1, <3>1, <3>3 DEF ThreadSound, Fields, Holding
    <3> QED
      BY <1>3, <1>4, <1>6, <2>1, <3>3, <3>4, UnchangedSame DEF AdderEffect, RowEffect, AdderPcs
  <2> QED
    BY <1>13, <2>2, <2>3 DEF QueryRow
<1>14. CASE SaveMetadata(t)
  <2>1. RowEffect(film)
    <3> DEFINE row == [state |-> thread[t].state, saved |-> TRUE]
    <3>1. IsRow(row)
      BY NewRow
    <3>2. UNCHANGED rows \/ rows' = Updated(film, row)
      BY <1>14 DEF SaveMetadata
    <3> HIDE DEF row
    <3> QED
      BY <1>1, <1>5, <3>1, <3>2, RowEffects
  <2>2. Moves(t, "pause") /\ thread[t].pc = "save" /\ UNCHANGED sessionVars
    BY <1>14 DEF SaveMetadata
  <2> QED
    BY <1>3, <1>4, <1>8, <2>1, <2>2 DEF AdderEffect, RowEffect, AdderPcs
<1>15. CASE PauseIfPaused(t)
  <2>1. UNCHANGED rows /\ thread[t].pc = "pause"
    BY <1>15 DEF PauseIfPaused
  <2>2. CASE thread[t].state = "PAUSED"
    <3> DEFINE th == NotedToPause(thread, thread[t].cur)
    <3>1. thread[t].cur \in KeysFor(film)
      BY <1>2, <2>1 DEF ThreadSound, Holding
    <3>2. SetsOK' /\ OnlyFilm(film)
      BY <1>1, <1>15, <2>2, <3>1, SessionOps DEF PauseIfPaused
    <3>3. /\ th = [u \in Threads |-> th[u]]
          /\ \A u \in Threads : At(th[u], thread[u], thread[u].pc)
      BY <1>1, NotedThreads, NotedFields
    <3>4. thread' = [th EXCEPT ![t] = Idle]
      BY <1>15, <2>2 DEF PauseIfPaused
    <3> HIDE DEF th
    <3>5. thread'[t] = Idle /\ \A u \in Threads \ {t} : thread'[u] = th[u]
      BY <1>1, <3>3, <3>4
    <3>6. \A u \in Threads \ {t} : Same(u)
      BY <3>3, <3>5 DEF Same
    <3>7. ThreadSound(thread'[t]) /\ thread'[t].pc = "idle"
      BY <3>5, IdleFields DEF ThreadSound
    <3> QED
      BY <1>4, <1>6, <2>1, <3>2, <3>6, <3>7 DEF AdderEffect, RowEffect, AdderPcs
  <2>3. CASE thread[t].state # "PAUSED"
    BY <1>3, <1>4, <1>6, <1>7, <1>15, <2>1, <2>3 DEF PauseIfPaused, AdderEffect, RowEffect, AdderPcs
  <2> QED
    BY <2>2, <2>3
<1> QED
  BY <1>9, <1>10, <1>11, <1>12, <1>13, <1>14, <1>15 DEF AdderStep

\* A row keeps its keys as long as it knows of a file.
LEMMA KeysGrow ==
    ASSUME NEW film, SavedFor(film) => SavedFor(film)'
    PROVE  RowKeySet(film) \subseteq RowKeySet(film)'
BY DEF RowKeySet, NamedKeys

\* Its own film: how far the thread has come, or what it leaves behind.
LEMMA AdderStage ==
    ASSUME DownloadInv, History, NEW film \in Films, NEW t \in AdderOf[film], thread[t].film = film,
           AdderStep(t), UNCHANGED main, Plain(film)'
    PROVE  Settled(film)'
<1>1. t \in Threads /\ t \in Adders /\ WatchInv /\ ThreadsSound /\ SetsOK /\ TableOK
  BY AdderAssumption DEF Threads, DownloadInv, TableOK, SetsOK
<1>2. AdderEffect(t)
  BY <1>1, AdderEffects
<1>3. HasRow(film)
  BY <1>2 DEF AdderEffect, Plain, HasRow, HasRowAfter
<1>4. Plain(film)
  BY <1>3, PlainBefore DEF Under
<1>5. Stage(film, thread[t])
  BY <1>4 DEF DownloadInv, Settled
<1>18. film \in crossed => film \in crossed'
  BY MainStays DEF DownloadInv, Plain, HasRow, HasRowAfter, MainKept
<1>6. \A u \in AdderOf[film] \ {t} : Same(u)
  BY <1>2, AdderAssumption DEF AdderEffect, Threads
<1>7. ASSUME Stage(film, thread[t])', thread'[t].pc # "idle" \/ HasOne(film)'
      PROVE  Settled(film)'
  BY <1>2, <1>4, <1>6, <1>7, OwnSettled DEF AdderEffect
<1>8. ThreadSound(thread[t])
  BY <1>1 DEF ThreadsSound
<1>9. ASSUME thread'[t].pc = "idle"
      PROVE  Stage(film, thread[t])'
  BY <1>9 DEF Stage, Holding
<1>10. ASSUME thread[t].pc \in {"add", "got"}, thread'[t].pc = "idle"
       PROVE  FALSE
  <2>1. film \in abandoned'
    BY <1>10 DEF History, GivesUp, Plain, HasRow, HasRowAfter
  <2> QED
    BY <2>1 DEF Plain, Excepted
<1>11. thread' = [thread EXCEPT ![t] = Idle] => thread'[t].pc = "idle"
  <2>1. thread = [u \in Threads |-> thread[u]]
    BY <1>1 DEF WatchInv, ThreadsOK
  <2>2. thread' = [thread EXCEPT ![t] = Idle] => thread'[t] = Idle
    BY <1>1, <2>1
  <2> QED
    BY <2>2, IdleFields
<1>12. CASE AddTorrentStep(t) /\ UNCHANGED rows
  BY <1>4, <1>7, <1>12, AddStage
<1>13. CASE AddFailed(t) \/ FileNotFound(t)
  BY <1>10, <1>11, <1>13 DEF AddFailed, FileNotFound, NothingAdded
<1>14. CASE FileFound(t)
  <2>1. At(thread'[t], thread[t], "query")
    BY <1>1, <1>14, MovesFields DEF FileFound
  <2>2. RowKeySet(film)' = RowKeySet(film) /\ UNCHANGED << sessionVars, rows >> /\ thread[t].pc = "got"
    BY <1>14 DEF FileFound, RowKeySet, SavedFor, NamedKeys
  <2>3. Stage(film, thread[t])'
    BY <1>5, <2>1, <2>2 DEF Stage, At, Fields, Holding, OnlyTorrent, sessionVars
  <2> QED
    BY <1>7, <2>1, <2>3 DEF At, Fields
<1>15. CASE QueryRow(t)
  <2> DEFINE x == rows[film].state
             r == [thread[t] EXCEPT !.pc = "save", !.state = x]
  <2>1. Fields(r, "save", film, thread[t].keys, thread[t].cur, thread[t].torrentFile, x)
    BY <1>1, TwoFields, Zenon DEF WatchInv, ThreadsOK
  <2>2. thread' = [thread EXCEPT ![t] = r]
    BY <1>1, <1>3, <1>15 DEF QueryRow, WatchInv, ThreadsOK
  <2>3. RowKeySet(film)' = RowKeySet(film) /\ UNCHANGED << sessionVars, rows >> /\ thread[t].pc = "query"
    BY <1>15 DEF QueryRow, RowKeySet, SavedFor, NamedKeys
  <2> HIDE DEF r
  <2>4. thread'[t] = r
    BY <1>1, <2>2 DEF WatchInv, ThreadsOK
  <2>6. Under(film, "pause") => film \in crossed'
    BY <2>1, <2>3, <2>4 DEF Fields, Under, History, Crosses, LooksAgain, Plain, HasRow, HasRowAfter,
                            DownloadInv, HandlerOK
  <2>7. ~Calling(film)' /\ (Wants(film)' => x = "PAUSED")
    BY <2>3, <2>6 DEF Calling, Wants, Under
  <2>5. Stage(film, thread[t])'
    BY <1>5, <2>1, <2>3, <2>4, <2>7 DEF Stage, Fields, Holding, OnlyTorrent, sessionVars
  <2> QED
    BY <1>7, <2>1, <2>4, <2>5 DEF Fields
<1>16. CASE SaveMetadata(t)
  <2>1. At(thread'[t], thread[t], "pause")
    BY <1>1, <1>16, MovesFields DEF SaveMetadata
  <2>2. UNCHANGED sessionVars /\ thread[t].pc = "save"
    BY <1>16 DEF SaveMetadata
  <2>3. \/ rows'[film] = rows[film]
        \/ rows'[film].state = thread[t].state /\ rows'[film].saved = TRUE
    <3> DEFINE row == [state |-> thread[t].state, saved |-> TRUE]
    <3>1. rows' = rows \/ rows' = [rows EXCEPT ![film] = row]
      BY <1>3, <1>16 DEF SaveMetadata, Updated
    <3>2. IsRow(row) /\ row.state = thread[t].state /\ row.saved = TRUE
      BY NewRow
    <3> HIDE DEF row
    <3> QED
      BY <1>1, <3>1, <3>2, RowChanges
  <2>4. thread[t].cur \in RowKeySet(film)'
    <3>1. SavedFor(film) => SavedFor(film)'
      BY <2>3 DEF SavedFor
    <3>2. RowKeySet(film) \subseteq RowKeySet(film)'
      BY <3>1, KeysGrow
    <3> QED
      BY <1>5, <2>2, <3>2 DEF Stage, Holding
  <2>6. /\ Calling(film)' => Calling(film) /\ main'.key = main.key
        /\ Wants(film)' => Wants(film) \/ thread[t].state = "PAUSED"
    BY <1>18, <2>3 DEF Calling, Wants, Under
  <2>5. Stage(film, thread[t])'
    BY <1>5, <2>1, <2>2, <2>3, <2>4, <2>6 DEF Stage, At, Fields, Holding, OnlyTorrent, sessionVars
  <2> QED
    BY <1>7, <2>1, <2>5 DEF At, Fields
<1>17. CASE PauseIfPaused(t)
  <2> DEFINE key == thread[t].cur
  <2>1. thread[t].pc = "pause" /\ UNCHANGED << rows, torrents, metadata >>
    BY <1>17 DEF PauseIfPaused, PauseTorrent, sessionVars
  <2>2. /\ key \in metadata /\ key \in RowKeySet(film) /\ OnlyTorrent(film, key)
        /\ Wants(film) => thread[t].state = "PAUSED" \/ key \in paused
        /\ Calling(film) => main.key = key
    BY <1>5, <2>1 DEF Stage, Holding
  <2>3. key \in KeysFor(film)
    BY <1>8, <2>1 DEF ThreadSound, Holding
  <2>4. Wants(film) => key \in paused'
    <3>1. CASE thread[t].state = "PAUSED"
      BY <1>1, <1>4, <1>17, <2>2, <2>3, <3>1, NotWatchingNow DEF PauseIfPaused, PauseTorrent, SetsOK
    <3>2. CASE thread[t].state # "PAUSED"
      BY <1>17, <2>2, <3>2 DEF PauseIfPaused, sessionVars
    <3> QED
      BY <3>1, <3>2
  <2>5. /\ RowKeySet(film)' = RowKeySet(film) /\ (Wants(film)' => Wants(film))
        /\ Calling(film)' => Calling(film) /\ main'.key = main.key
    BY <1>18, <2>1 DEF RowKeySet, SavedFor, NamedKeys, Wants, Calling, Under
  <2> HIDE DEF key
  <2>6. HasOne(film)'
    BY <2>1, <2>2, <2>4, <2>5 DEF HasOne, OnlyTorrent
  <2>7. thread'[t].pc = "idle"
    <3>1. PICK th : /\ th = [u \in Threads |-> th[u]]
                    /\ thread' = [th EXCEPT ![t] = Idle]
      BY <1>1, <1>17, NotedThreads DEF PauseIfPaused, WatchInv, ThreadsOK
    <3>2. thread'[t] = Idle
      BY <1>1, <3>1
    <3> QED
      BY <3>2, IdleFields
  <2> QED
    BY <1>7, <1>9, <2>6, <2>7
<1> QED
  BY <1>12, <1>13, <1>14, <1>15, <1>16, <1>17 DEF AdderStep

LEMMA AdderDownloads ==
    ASSUME DownloadInv, WatchInv', NEW t \in Adders, AdderStep(t), UNCHANGED << dialog, main >>, History
    PROVE  DownloadInv'
<1> DEFINE g == thread[t].film
<1>1. AdderEffect(t) /\ t \in Threads
  BY AdderEffects DEF Threads
<1>2. g \in Films /\ t \in AdderOf[g]
  BY <1>1 DEF AdderEffect, DownloadInv, ThreadsSound, ThreadSound, Alive
<1>3. ThreadsSound'
  BY <1>1, <1>2, OneThread DEF AdderEffect, DownloadInv
<1>4. TableOK' /\ SetsOK'
  BY <1>1 DEF AdderEffect, SetsOK, TableOK
<1>5. WatchedKnown'
  BY <1>1, KnownStep DEF AdderEffect, DownloadInv, History
<1>6. ASSUME NEW film \in Films, Plain(film)'
      PROVE  Settled(film)'
  <2>1. CASE film = g
    BY <1>2, <1>6, <2>1, AdderStage
  <2>2. CASE film # g
    <3>1. \A u \in AdderOf[film] : u \in Threads \ {t}
      BY <1>2, <2>2, AdderAssumption DEF Threads
    <3> QED
      BY <1>1, <1>4, <1>6, <2>2, <3>1, OthersSettled DEF AdderEffect
  <2> QED
    BY <2>1, <2>2
<1>7. DialogOK'
  BY DialogKept DEF DownloadInv
<1> QED
  BY <1>3, <1>4, <1>5, <1>6, <1>7, HandlerKept DEF DownloadInv

-----------------------------------------------------------------------------
(* The main thread *)

\* A step that takes nothing from any film and leaves the rows and the threads
\* that add alone.
LEMMA QuietStep ==
    ASSUME DownloadInv, WatchInv', History \/ UNCHANGED historyVars,
           SetsOK', OnlyFilm(NoFilm), UNCHANGED << rows, main >>, \A u \in Adders : Same(u),
           ThreadsSound', DialogOK', WatchedKnown'
    PROVE  DownloadInv'
<1>1. TableOK'
  BY DEF SetsOK, TableOK, DownloadInv
<1>2. ASSUME NEW film \in Films, Plain(film)'
      PROVE  Settled(film)'
  <2>1. film # NoFilm
    BY ServiceAssumption
  <2>2. \A u \in AdderOf[film] : Same(u)
    BY AdderAssumption
  <2> QED
    BY <1>2, <2>1, <2>2, OthersSettled
<1> QED
  BY <1>1, <1>2, HandlerKept DEF DownloadInv

\* A step that changes no more than one film's row and torrents.
LEMMA RowStep ==
    ASSUME DownloadInv, WatchInv', History, NEW g \in Films, SetsOK', OnlyFilm(g),
           \A u \in Threads : Same(u), RowEffect(g), UNCHANGED << lastTorrent, dialog >>,
           HandlerOK', {main.film, main'.film} \subseteq {g, NoFilm}, Plain(g)' => Settled(g)'
    PROVE  DownloadInv'
<1>1. ThreadsSound'
  BY NoThread DEF DownloadInv
<1>2. TableOK'
  BY DEF SetsOK, TableOK, RowEffect
<1>3. WatchedKnown'
  BY KnownStep DEF DownloadInv, RowEffect, History
<1>4. ASSUME NEW film \in Films, Plain(film)'
      PROVE  Settled(film)'
  <2>1. \A u \in AdderOf[film] : Same(u)
    BY AdderAssumption DEF Threads
  <2>2. CASE film = g
    BY <1>4, <2>2
  <2>3. CASE film # g
    BY <1>4, <2>1, <2>3, OthersSettled, ServiceAssumption DEF RowEffect
  <2> QED
    BY <2>2, <2>3
<1>5. DialogOK'
  BY DialogKept DEF DownloadInv
<1> QED
  BY <1>1, <1>2, <1>3, <1>4, <1>5 DEF DownloadInv

\* Its film: if the torrent has to be paused now, it is, and a pause has its key.
LEMMA MainSettled ==
    ASSUME NEW film \in Films, Settled(film), UNCHANGED << torrents, metadata >>,
           \A u \in AdderOf[film] : Same(u), SavedFor(film) => SavedFor(film)',
           \A key \in metadata :
              /\ key \in RowKeySet(film) /\ OnlyTorrent(film, key)
              /\ Calling(film) => main.key = key
              => /\ Calling(film)' => main'.key = key
                 /\ Wants(film)' => (Wants(film) /\ key \notin paused) \/ key \in paused'
    PROVE  Settled(film)'
<1>1. RowKeySet(film) \subseteq RowKeySet(film)'
  BY KeysGrow
<1>2. \A key : OnlyTorrent(film, key) => \A k \in torrents' : k.film = film => k = key
  BY DEF OnlyTorrent
<1>3. ASSUME NEW t \in AdderOf[film]
      PROVE  Stage(film, thread[t])'
  <2>1. Stage(film, thread[t])
    BY DEF Settled
  <2>2. CASE thread[t].pc \in {"save", "pause"}
    <3>1. /\ thread[t].cur \in metadata /\ thread[t].cur \in RowKeySet(film)
          /\ OnlyTorrent(film, thread[t].cur)
          /\ Wants(film) => thread[t].state = "PAUSED" \/ thread[t].cur \in paused
          /\ Calling(film) => main.key = thread[t].cur
      BY <2>1, <2>2 DEF Stage, Holding
    <3>2. /\ Wants(film)' => thread[t].state = "PAUSED" \/ thread[t].cur \in paused'
          /\ Calling(film)' => main'.key = thread[t].cur
      BY <3>1
    <3> QED
      BY <1>1, <1>2, <2>2, <3>1, <3>2 DEF Stage, Same, At, Fields, Holding, OnlyTorrent
  <2>3. CASE thread[t].pc \notin {"save", "pause"}
    BY <1>1, <1>2, <2>1, <2>3 DEF Stage, Same, At, Fields, Holding, OnlyTorrent
  <2> QED
    BY <2>2, <2>3
<1>4. \A t \in AdderOf[film] : Alive(t)' <=> Alive(t)
  BY DEF Same, At, Fields, Alive
<1>5. HasOne(film) => HasOne(film)'
  BY <1>1, <1>2 DEF HasOne, OnlyTorrent
<1> QED
  BY <1>3, <1>4, <1>5 DEF Settled, Adding

\* The keys of a row.
LEMMA RowKeysSound ==
    ASSUME TableOK, NEW film \in Films
    PROVE  /\ RowKeys(film) \in Seq(KeysFor(film))
           /\ \A key : FirstAvailable(RowKeys(film), key) => key \in KeysFor(film) /\ key \in metadata
           /\ NoneAvailable(RowKeys(film)) => \A key \in RowKeySet(film) : key \notin metadata
<1>1. rows[film].saved \in BOOLEAN
  BY DEF TableOK, IsRow
<1> DEFINE s == KeysOf(film, rows[film].saved)
<1>2. /\ s \in Seq(KeysFor(film))
      /\ \A key \in NamedKeys(film, rows[film].saved) : \E i \in DOMAIN s : s[i] = key
  BY <1>1, KeysOfSound
<1>3. RowKeys(film) = s /\ RowKeySet(film) \subseteq NamedKeys(film, rows[film].saved)
  BY DEF RowKeys, RowKeySet, SavedFor, NamedKeys
<1> HIDE DEF s
<1>4. ASSUME NEW key, FirstAvailable(s, key)
      PROVE  key \in KeysFor(film) /\ key \in metadata
  <2>1. PICK i \in DOMAIN s : s[i] = key /\ key \in metadata
    BY <1>4 DEF FirstAvailable
  <2> QED
    BY <1>2, <2>1
<1>5. NoneAvailable(s) => \A key \in NamedKeys(film, rows[film].saved) : key \notin metadata
  BY <1>2 DEF NoneAvailable
<1> QED
  BY <1>2, <1>3, <1>4, <1>5

\* The main thread between two handlers, and what it has of one.
LEMMA HandlerRests ==
    /\ IsHandler(NoHandler) /\ NoHandler.pc = "idle" /\ NoHandler.op = "none"
    /\ NoHandler.film = NoFilm
    /\ main' = NoHandler => HandlerOK'
<1>1. /\ IsHandler(NoHandler) /\ NoHandler.pc = "idle" /\ NoHandler.op = "none"
      /\ NoHandler.film = NoFilm
  BY DEF IsHandler, NoHandler
<1> QED
  BY <1>1 DEF HandlerOK, IsHandler

LEMMA HandlerFields ==
    ASSUME NEW pc, NEW op, NEW film, NEW key, NEW saved, NEW m,
           m = [pc |-> pc, op |-> op, film |-> film, key |-> key, saved |-> saved]
    PROVE  /\ IsHandler(m) /\ m.pc = pc /\ m.op = op /\ m.film = film /\ m.key = key
           /\ m.saved = saved
BY DEF IsHandler

\* A handler looks for the torrent: if there is one, and it is the film's only one,
\* it is the one the handler has found.
LEMMA BeginDownloads ==
    ASSUME DownloadInv, WatchInv', History, MainIsFree, NEW film \in Films,
           DownloadsPause(film) \/ DownloadsResume(film) \/ DownloadsRemove(film),
           UNCHANGED dialog
    PROVE  DownloadInv'
<1>1. TableOK /\ SetsOK /\ rows[film].saved \in BOOLEAN
  BY DEF DownloadInv, TableOK, SetsOK, IsRow
<1>2. /\ UNCHANGED << torrents, metadata, paused, lastTorrent, thread, rows >>
      /\ UNCHANGED sessionVars
  BY DEF DownloadsPause, DownloadsResume, DownloadsRemove, HandlerBegins, sessionVars
<1>3. PICK op \in {"pause", "resume", "remove"} :
        /\ HandlerBegins(op, film) /\ HasRow(film)
        /\ op = "pause" => rows[film].state = "DOWNLOADING"
  BY DEF DownloadsPause, DownloadsResume, DownloadsRemove, HasRow
<1>4. main.pc = "idle" /\ main.film = NoFilm /\ main.op = "none" /\ film # NoFilm
  BY ServiceAssumption DEF MainIsFree, DownloadInv, HandlerOK
<1>5. /\ IsHandler(main') /\ main'.op = op /\ main'.film = film
      /\ main'.saved = rows[film].saved
      /\ \/ main'.pc = "write" /\ NoneAvailable(RowKeys(film))
         \/ main'.pc = "call" /\ FirstAvailable(RowKeys(film), main'.key)
  <2>1. CASE /\ NoneAvailable(RowKeys(film))
             /\ main' = [pc |-> "write", op |-> op, film |-> film, key |-> NoKey,
                         saved |-> rows[film].saved]
    BY <2>1, HandlerFields
  <2>2. ASSUME NEW key, FirstAvailable(RowKeys(film), key),
               main' = [pc |-> "call", op |-> op, film |-> film, key |-> key,
                        saved |-> rows[film].saved]
        PROVE  /\ IsHandler(main') /\ main'.op = op /\ main'.film = film /\ main'.pc = "call"
               /\ main'.saved = rows[film].saved /\ main'.key = key
    BY <2>2, HandlerFields
  <2> QED
    BY <1>3, <2>1, <2>2 DEF HandlerBegins
<1>6. /\ main'.pc = "call" => main'.key \in KeysFor(film) /\ main'.key \in metadata
      /\ main'.pc = "write" => \A key \in RowKeySet(film) : key \notin metadata
  BY <1>1, <1>5, RowKeysSound
<1>7. HandlerOK'
  BY <1>1, <1>3, <1>5, <1>6 DEF HandlerOK, IsHandler
<1>8. \A u \in Threads : Same(u)
  BY <1>2, UnchangedSame
<1>9. SetsOK' /\ OnlyFilm(film) /\ RowEffect(film)
  BY <1>1, <1>2 DEF SetsOK, OnlyFilm, RowEffect, TableOK, HasRow, HasRowAfter
<1>10. ASSUME Plain(film)'
       PROVE  Settled(film)'
  <2>1. Plain(film)
    BY <1>3, <1>4, <1>10, PlainBefore DEF Under
  <2>2. Settled(film)
    BY <2>1 DEF DownloadInv
  <2>3. \A u \in AdderOf[film] : Same(u)
    BY <1>8, AdderAssumption DEF Threads
  <2>4. SavedFor(film) => SavedFor(film)'
    BY <1>2, <1>5 DEF SavedFor
  <2>5. op # "remove"
    BY <1>5, <1>10 DEF Plain, Under
  <2>6. ASSUME NEW key \in metadata, key \in RowKeySet(film), OnlyTorrent(film, key)
        PROVE  ~Wants(film)' /\ (Calling(film)' => main'.key = key)
    <3>1. main'.pc = "call" /\ main'.key = key
      BY <1>1, <1>5, <1>6, <2>6 DEF OnlyTorrent, KeysFor, SetsOK
    <3> QED
      BY <1>2, <1>3, <1>5, <2>5, <3>1 DEF Wants, Under
  <2> QED
    BY <1>2, <2>2, <2>3, <2>4, <2>6, MainSettled
<1> QED
  BY <1>2, <1>4, <1>5, <1>7, <1>8, <1>9, <1>10, RowStep

\* A row that is finished.
LEMMA CheckDownloads ==
    ASSUME DownloadInv, WatchInv', History, MainIsFree, NEW film \in Films, UNCHANGED dialog,
           CheckState(film)
    PROVE  DownloadInv'
<1>1. TableOK /\ SetsOK
  BY DEF DownloadInv, TableOK, SetsOK
<1> DEFINE row == [rows[film] EXCEPT !.state = "FINISHED"]
<1>2. IsRow(row) /\ row.state = "FINISHED" /\ row.saved = rows[film].saved
  BY <1>1, RowFields DEF TableOK
<1>3. /\ rows' = [rows EXCEPT ![film] = row] /\ HasRow(film)
      /\ UNCHANGED << torrents, metadata, paused, lastTorrent, thread, main >>
  BY DEF CheckState, HasRow, sessionVars
<1> HIDE DEF row
<1>4. RowEffect(film) /\ rows'[film] = row
  BY <1>1, <1>2, <1>3, RowEffects, RowChanges
<1>5. main.film = NoFilm /\ main.op = "none" /\ film # NoFilm /\ HandlerOK'
  BY <1>3, ServiceAssumption, HandlerKept DEF MainIsFree, DownloadInv, HandlerOK
<1>6. \A u \in Threads : Same(u)
  BY <1>3, UnchangedSame
<1>7. SetsOK' /\ OnlyFilm(film)
  BY <1>1, <1>3 DEF SetsOK, OnlyFilm
<1>8. ASSUME Plain(film)'
      PROVE  Settled(film)'
  <2>1. Settled(film)
    BY <1>3, <1>5, <1>8, PlainBefore DEF DownloadInv, Under
  <2>2. \A u \in AdderOf[film] : Same(u)
    BY <1>6, AdderAssumption DEF Threads
  <2>3. ~Wants(film)' /\ ~Calling(film)' /\ (SavedFor(film) => SavedFor(film)')
    BY <1>2, <1>3, <1>4, <1>5 DEF Wants, Calling, Under, SavedFor
  <2> QED
    BY <1>3, <2>1, <2>2, <2>3, MainSettled
<1> QED
  BY <1>3, <1>4, <1>5, <1>6, <1>7, <1>8, RowStep

\* The call of a handler: a pause finds the torrent it has looked for.
LEMMA CallDownloads ==
    ASSUME DownloadInv, WatchInv', History, HandlerCalls, UNCHANGED dialog,
           NEW film \in Films, film = main.film
    PROVE  DownloadInv'
<1>0. PICK k : k = main.key
  OBVIOUS
<1>1. WatchInv /\ TableOK /\ SetsOK /\ IsHandler(main)
  BY DEF DownloadInv, TableOK, SetsOK, HandlerOK
<1>2. /\ main.pc = "call" /\ k \in KeysFor(film)
      /\ main.op \in {"pause", "resume", "remove"} /\ main.saved \in BOOLEAN
      /\ UNCHANGED << lastTorrent, rows >>
  BY <1>0 DEF DownloadInv, HandlerOK, HandlerCalls
<1>3. /\ IsHandler(main') /\ main'.pc = "write" /\ main'.op = main.op /\ main'.film = film
      /\ main'.saved = main.saved
  BY <1>1 DEF HandlerCalls, IsHandler
<1>4. HandlerOK'
  BY <1>2, <1>3 DEF HandlerOK, IsHandler
<1>5. SetsOK' /\ OnlyFilm(film)
  BY <1>0, <1>1, <1>2, SessionOps DEF HandlerCalls
<1>6. RowEffect(film)
  BY <1>1, <1>2 DEF RowEffect, TableOK, HasRow, HasRowAfter
<1>7. \A u \in Threads : Same(u)
  <2>1. CASE thread' = NotedToPause(thread, k)
    BY <1>1, <2>1, NotedFields DEF Same
  <2>2. CASE UNCHANGED thread
    BY <2>2, UnchangedSame
  <2> QED
    BY <1>0, <2>1, <2>2 DEF HandlerCalls
<1>8. ASSUME Plain(film)'
      PROVE  Settled(film)'
  <2>1. Plain(film) /\ main.op # "remove"
    BY <1>2, <1>3, <1>8, PlainBefore DEF Plain, HasRow, Under
  <2>2. Settled(film)
    BY <1>2, <2>1 DEF DownloadInv
  <2>3. \A u \in AdderOf[film] : Same(u)
    BY <1>2, <1>7, AdderAssumption DEF Threads
  <2>4. SavedFor(film) => SavedFor(film)'
    BY <1>2, <1>3 DEF SavedFor
  <2>5. ~Calling(film)' /\ UNCHANGED << torrents, metadata >>
    BY <1>3, <2>1 DEF Calling, HandlerCalls, PauseTorrent
  <2>6. film \in crossed => film \in crossed'
    BY <1>2, <1>8 DEF History, LooksAgain, Plain, HasRow, HasRowAfter
  <2>7. ASSUME NEW key \in metadata, Calling(film) => k = key, Wants(film)'
        PROVE  key \in paused'
    <3>1. main.op = "pause" /\ k = key
      BY <1>0, <1>2, <1>3, <2>1, <2>6, <2>7 DEF Wants, Calling, Under
    <3> QED
      BY <1>0, <1>1, <1>2, <2>1, <3>1, NotWatchingNow DEF HandlerCalls, PauseTorrent, SetsOK
  <2> QED
    BY <1>0, <1>2, <2>2, <2>3, <2>4, <2>5, <2>7, MainSettled
<1> QED
  BY <1>2, <1>3, <1>4, <1>5, <1>6, <1>7, <1>8, RowStep

\* The end of a handler: a row is PAUSED once its torrent is.
LEMMA WriteDownloads ==
    ASSUME DownloadInv, WatchInv', History, HandlerWrites, UNCHANGED dialog,
           NEW film \in Films, film = main.film
    PROVE  DownloadInv'
<1>0. PICK state, row :
        /\ state = IF main.op = "pause" THEN "PAUSED" ELSE "DOWNLOADING"
        /\ row = IF main.op = "remove" THEN NoRow ELSE [state |-> state, saved |-> main.saved]
  OBVIOUS
<1>1. TableOK /\ SetsOK
  BY DEF DownloadInv, TableOK, SetsOK
<1>2. /\ main.pc = "write" /\ film # NoFilm
      /\ main.op \in {"pause", "resume", "remove"} /\ main.saved \in BOOLEAN
      /\ UNCHANGED << torrents, metadata, paused, lastTorrent, thread >> /\ main' = NoHandler
  BY ServiceAssumption DEF DownloadInv, HandlerOK, HandlerWrites, sessionVars
<1>3. /\ IsRow(row) /\ (main.op = "remove" => row.state = "none")
      /\ main.op # "remove" => row.state = state /\ row.saved = main.saved
  BY <1>0, <1>2, NewRow DEF NoRow
<1>4. \/ rows' = Updated(film, row) /\ main.op # "remove"
      \/ rows' = [rows EXCEPT ![film] = row] /\ main.op = "remove"
  BY <1>0 DEF HandlerWrites
<1>5. RowEffect(film)
  BY <1>1, <1>2, <1>3, <1>4, RowEffects
<1>6. HandlerOK' /\ main'.film = NoFilm /\ main'.op = "none"
  BY <1>2, HandlerRests
<1>7. \A u \in Threads : Same(u)
  BY <1>2, UnchangedSame
<1>8. SetsOK' /\ OnlyFilm(film)
  BY <1>1, <1>2 DEF SetsOK, OnlyFilm
<1>9. ASSUME Plain(film)'
      PROVE  Settled(film)'
  <2>1. HasRow(film) /\ HasRowAfter(film)
    BY <1>2, <1>5, <1>9 DEF RowEffect, Plain, HasRow, HasRowAfter
  <2>2. rows'[film] = row
    BY <1>1, <1>2, <1>3, <1>4, <2>1, RowChanges DEF Updated
  <2>3. main.op # "remove" /\ row.state = state /\ row.saved = main.saved
    BY <1>3, <2>1, <2>2 DEF HasRowAfter
  <2>4. Settled(film)
    BY <1>2, <1>9, <2>1, <2>3, PlainBefore DEF DownloadInv, Under
  <2>5. \A u \in AdderOf[film] : Same(u)
    BY <1>2, <1>7, AdderAssumption DEF Threads
  <2>6. SavedFor(film) => SavedFor(film)'
    BY <1>2, <1>6, <2>2, <2>3 DEF SavedFor
  <2>7. film \in crossed => film \in crossed'
    BY <1>2, <2>1 DEF History, LooksAgain
  <2>8. ~Calling(film)' /\ (Wants(film)' => Wants(film))
    BY <1>0, <1>2, <1>6, <2>2, <2>3, <2>7 DEF Calling, Wants, Under
  <2> QED
    BY <1>2, <2>4, <2>5, <2>6, <2>8, MainSettled
<1> QED
  BY <1>2, <1>5, <1>6, <1>7, <1>8, <1>9, RowStep

\* A new row.  If nothing of an earlier one is left, its thread begins with an
\* empty session.
LEMMA AddDownloads ==
    ASSUME DownloadInv, WatchInv', History, NEW film \in Films, NEW t \in AdderOf[film],
           DownloadsAdd(film, t), MainIsFree, UNCHANGED dialog
    PROVE  DownloadInv'
<1>1. /\ WatchInv /\ TableOK /\ SetsOK /\ ThreadsSound /\ WatchedKnown
      /\ t \in Adders /\ t \in Threads /\ thread = [u \in Threads |-> thread[u]]
  BY AdderAssumption DEF DownloadInv, TableOK, SetsOK, Threads, WatchInv, ThreadsOK
<1> DEFINE ours == lastTorrent # NoKey /\ lastTorrent.film = film
           saved == ours
           row == [state |-> "DOWNLOADING", saved |-> saved]
           r == Started(film, FALSE, KeysOf(film, saved))
<1>2. /\ ~HasRow(film) /\ ~Alive(t)
      /\ IF ours THEN RemoveTorrent(lastTorrent) ELSE UNCHANGED sessionVars
      /\ lastTorrent' = IF ours THEN NoKey ELSE lastTorrent
      /\ rows' = [rows EXCEPT ![film] = row]
      /\ thread' = [thread EXCEPT ![t] = r]
  BY DEF DownloadsAdd, LastTorrentAfterAdd
<1>19. UNCHANGED main /\ main.film = NoFilm /\ main.film # film
  BY ServiceAssumption DEF DownloadsAdd, MainIsFree, DownloadInv, HandlerOK
<1>3. saved \in BOOLEAN
  OBVIOUS
<1>4. IsRow(row) /\ row.state = "DOWNLOADING" /\ row.saved = saved
  BY <1>3, NewRow
<1>5. Fields(r, "avail", film, KeysOf(film, saved), NoKey, NoKey, "none")
  BY StartedFields
<1>6. /\ KeysOf(film, saved) \in Seq(KeysFor(film))
      /\ \A i \in DOMAIN KeysOf(film, saved) : KeysOf(film, saved)[i] \in NamedKeys(film, saved)
  BY <1>3, KeysOfSound
<1>7. ours => lastTorrent \in KeysFor(film)
  BY <1>1 DEF WatchedKnown, KeysFor
<1> HIDE DEF saved, row, r
<1>8. SetsOK' /\ OnlyFilm(film)
  <2>1. CASE ours
    BY <1>1, <1>2, <1>7, <2>1, SessionOps
  <2>2. CASE ~ours
    BY <1>1, <1>2, <2>2 DEF SetsOK, OnlyFilm, sessionVars
  <2> QED
    BY <2>1, <2>2
<1>9. /\ rows' = [f \in Films |-> rows'[f]] /\ \A f \in Films : IsRow(rows'[f])
      /\ rows'[film] = row /\ \A f \in Films \ {film} : rows'[f] = rows[f]
  BY <1>1, <1>2, <1>4, RowChanges
<1>10. thread'[t] = r /\ \A u \in Threads \ {t} : thread'[u] = thread[u]
  BY <1>1, <1>2
<1>11. \A u \in Threads \ {t} : Same(u)
  BY <1>10, UnchangedSame
<1>12. ThreadSound(thread'[t]) /\ thread'[t].pc = "avail" /\ thread'[t].film = film
  BY <1>5, <1>6, <1>10 DEF Fields, ThreadSound, Holding
<1>13. ThreadsSound'
  BY <1>1, <1>11, <1>12, OneThread DEF AdderPcs
<1>14. TableOK'
  BY <1>8, <1>9 DEF SetsOK, TableOK
<1>15. DialogOK'
  BY DialogKept DEF DownloadInv
<1>16. WatchedKnown'
  <2>1. ASSUME NEW u \in Tasks, NEW f \in Films, thread'[u].film = f, HasRow(f)'
        PROVE  f \in watched'
    BY <2>1 DEF History, WatchHistory, HasRow, HasRowAfter
  <2>2. lastTorrent' \in Key \cup {NoKey}
    BY <1>1, <1>2 DEF WatchedKnown
  <2>3. ASSUME lastTorrent' \in Key, HasRow(lastTorrent.film)'
        PROVE  lastTorrent'.film \in watched'
    <3>1. lastTorrent' = lastTorrent /\ lastTorrent.film # film
      BY <1>2, <2>3, KeyAssumption
    <3>2. lastTorrent.film \in Films /\ lastTorrent \in Key
      BY <2>3, <3>1 DEF Key
    <3>3. HasRow(lastTorrent.film)
      BY <1>9, <2>3, <3>1, <3>2 DEF HasRow
    <3>4. lastTorrent.film \in watched
      BY <1>1, <3>2, <3>3 DEF WatchedKnown
    <3> QED
      BY <2>3, <3>1, <3>2, <3>4 DEF History, WatchHistory, HasRow, HasRowAfter
  <2> QED
    BY <2>1, <2>2, <2>3 DEF WatchedKnown
<1>17. ASSUME Plain(film)'
       PROVE  Settled(film)'
  <2>1. film \notin leftover' /\ HasRowAfter(film)
    BY <1>17 DEF Plain, Excepted, HasRow, HasRowAfter
  <2>2. ~Adding(film) /\ \A k \in torrents' : k.film # film
    BY <1>2, <2>1 DEF History, BeginsWithLeftover
  <2>3. \A u \in AdderOf[film] \ {t} : thread'[u].pc = "idle"
    BY <1>10, <2>2, AdderAssumption DEF Adding, Alive, Threads
  <2>4. RowKeySet(film)' = NamedKeys(film, saved)
    BY <1>4, <1>9, <1>19 DEF RowKeySet, SavedFor, NamedKeys
  <2>5. Stage(film, thread[t])'
    BY <1>5, <1>6, <1>10, <2>2, <2>4 DEF Stage, Fields, Holding
  <2>6. \A u \in AdderOf[film] : Stage(film, thread[u])'
    BY <2>3, <2>5 DEF Stage, Holding
  <2> QED
    BY <1>12, <2>3, <2>6 DEF Settled, Adding, Alive
<1>18. ASSUME NEW f \in Films, Plain(f)'
       PROVE  Settled(f)'
  <2>1. CASE f = film
    BY <1>17, <1>18, <2>1
  <2>2. CASE f # film
    <3>1. \A u \in AdderOf[f] : u \in Threads \ {t}
      BY <2>2, AdderAssumption DEF Threads
    <3> QED
      BY <1>8, <1>9, <1>11, <1>18, <1>19, <2>2, <3>1, OthersSettled
  <2> QED
    BY <2>1, <2>2
<1> QED
  BY <1>13, <1>14, <1>15, <1>16, <1>18, <1>19, HandlerKept DEF DownloadInv

LEMMA DialogFields ==
    /\ IsDialog(NoDialog) /\ NoDialog.shown = "none"
    /\ \A x, film, info, keys :
        LET d == [shown |-> x, film |-> film, info |-> info, keys |-> keys]
        IN  IsDialog(d) /\ d.shown = x /\ d.film = film /\ d.keys = keys
<1>1. IsDialog(NoDialog) /\ NoDialog.shown = "none"
  BY DEF IsDialog, NoDialog
<1>2. ASSUME NEW x, NEW film, NEW info, NEW keys
      PROVE  LET d == [shown |-> x, film |-> film, info |-> info, keys |-> keys]
             IN  IsDialog(d) /\ d.shown = x /\ d.film = film /\ d.keys = keys
  BY DEF IsDialog
<1> QED
  BY <1>1, <1>2, Zenon

\* A step that changes neither the session nor the rows nor a thread that adds.
LEMMA StillStep ==
    ASSUME DownloadInv, WatchInv', History, UNCHANGED << sessionVars, rows, main, lastTorrent >>,
           \A u \in Adders : Same(u), ThreadsSound', DialogOK'
    PROVE  DownloadInv'
<1>1. SetsOK' /\ OnlyFilm(NoFilm)
  BY DEF DownloadInv, TableOK, SetsOK, OnlyFilm, sessionVars
<1>2. WatchedKnown'
  BY KnownStep DEF DownloadInv, History, HasRow, HasRowAfter
<1> QED
  BY <1>1, <1>2, QuietStep

\* A watch of another film removes LAST_TORRENT, which no download lives on.
LEMMA AddWatchDownloads ==
    ASSUME DownloadInv, WatchInv', History, NEW film \in Films, AddWatch(film),
           UNCHANGED << rows, main >>
    PROVE  DownloadInv'
<1>1. /\ WatchInv /\ TableOK /\ SetsOK /\ ThreadsSound /\ WatchedKnown
      /\ UNCHANGED thread
  BY DEF DownloadInv, TableOK, SetsOK, AddWatch
<1>2. \A u \in Threads : Same(u)
  BY <1>1, UnchangedSame
<1>3. ThreadsSound'
  BY <1>1, <1>2, NoThread
<1>4. \A u \in Adders : Same(u)
  BY <1>2 DEF Threads
<1>5. DialogOK'
  <2>1. KeysOf(film, FALSE) \in Seq(KeysFor(film))
    BY KeysOfSound
  <2>2. IsDialog(dialog') /\ dialog'.film = film /\ dialog'.keys = KeysOf(film, FALSE)
    BY DialogFields, Zenon DEF AddWatch
  <2>3. IsDialog(dialog)'
    BY <2>2 DEF IsDialog
  <2> QED
    BY <2>1, <2>2, <2>3 DEF DialogOK, KeysFor
<1>6. CASE UNCHANGED << sessionVars, lastTorrent >>
  BY <1>3, <1>4, <1>5, <1>6, StillStep
<1>7. CASE lastTorrent # NoKey /\ RemoveTorrent(lastTorrent) /\ lastTorrent' = NoKey
  <2> DEFINE g == lastTorrent.film
  <2>1. lastTorrent \in Key /\ g \in Films /\ lastTorrent \in KeysFor(g)
    BY <1>1, <1>7 DEF WatchedKnown, Key, KeysFor
  <2>2. SetsOK' /\ OnlyFilm(g)
    BY <1>1, <1>7, <2>1, SessionOps
  <2>3. WatchedKnown'
    BY <1>1, <1>7, KnownStep DEF History, HasRow, HasRowAfter
  <2>4. TableOK'
    BY <1>1, <2>2 DEF SetsOK, TableOK
  <2>5. ASSUME NEW f \in Films, Plain(f)'
        PROVE  Settled(f)'
    <3>1. HasRow(f)
      BY <2>5 DEF Plain, HasRow
    <3>2. Plain(f)
      BY <2>5, <3>1, PlainBefore DEF Under
    <3>3. f # g
      BY <1>1, <2>1, <3>2 DEF WatchedKnown, Plain, Excepted
    <3>4. \A u \in AdderOf[f] : Same(u)
      BY <1>4, AdderAssumption
    <3> QED
      BY <2>2, <2>5, <3>3, <3>4, OthersSettled
  <2> QED
    BY <1>3, <1>5, <2>3, <2>4, <2>5, HandlerKept DEF DownloadInv
<1> QED
  BY <1>6, <1>7 DEF AddWatch

LEMMA UserDownloads ==
    ASSUME DownloadInv, WatchInv', UserStep
    PROVE  DownloadInv'
<1>1. PICK film \in Films :
        \/ (AddWatch(film) \/ WatchFromList(film)) /\ UNCHANGED << rows, main >>
        \/ (\E t \in AdderOf[film] : DownloadsAdd(film, t)) /\ UNCHANGED dialog
        \/ DownloadsPause(film) /\ UNCHANGED dialog
        \/ DownloadsResume(film) /\ UNCHANGED dialog
        \/ DownloadsRemove(film) /\ UNCHANGED dialog
  BY DEF UserStep
<1>2. History /\ MainIsFree
  BY DEF UserStep
<1>3. CASE AddWatch(film) /\ UNCHANGED << rows, main >>
  BY <1>2, <1>3, AddWatchDownloads
<1>4. CASE WatchFromList(film) /\ UNCHANGED << rows, main >>
  <2>1. rows[film].saved \in BOOLEAN
    BY DEF DownloadInv, TableOK, IsRow
  <2>2. KeysOf(film, rows[film].saved) \in Seq(KeysFor(film))
    BY <2>1, KeysOfSound
  <2>3. /\ IsDialog(dialog') /\ dialog'.film = film
        /\ dialog'.keys = KeysOf(film, rows[film].saved)
    BY <1>4, DialogFields, Zenon DEF WatchFromList, WatchDownload
  <2>4. IsDialog(dialog)'
    BY <2>3 DEF IsDialog
  <2>5. DialogOK'
    BY <2>2, <2>3, <2>4 DEF DialogOK, KeysFor
  <2>6. UNCHANGED << sessionVars, lastTorrent, thread >>
    BY <1>4 DEF WatchFromList, WatchDownload
  <2>7. \A u \in Threads : Same(u)
    BY <2>6, UnchangedSame
  <2>8. ThreadsSound' /\ \A u \in Adders : Same(u)
    BY <2>7, NoThread DEF DownloadInv, Threads
  <2> QED
    BY <1>2, <1>4, <2>5, <2>6, <2>8, StillStep
<1>5. CASE (\E t \in AdderOf[film] : DownloadsAdd(film, t)) /\ UNCHANGED dialog
  BY <1>2, <1>5, AddDownloads
<1>6. CASE /\ DownloadsPause(film) \/ DownloadsResume(film) \/ DownloadsRemove(film)
           /\ UNCHANGED dialog
  BY <1>2, <1>6, BeginDownloads
<1> QED
  BY <1>1, <1>3, <1>4, <1>5, <1>6

LEMMA DialogCloses ==
    ASSUME dialog' = NoDialog
    PROVE  DialogOK'
<1>1. IsDialog(dialog') /\ dialog'.shown = "none"
  BY DialogFields
<1> QED
  BY <1>1 DEF DialogOK, IsDialog

LEMMA StartDownloads ==
    ASSUME DownloadInv, WatchInv', History, NEW t \in Tasks, StartWatch(t),
           UNCHANGED << rows, main >>
    PROVE  DownloadInv'
<1>1. /\ t \in Threads /\ t \notin Adders /\ ThreadsSound
      /\ thread = [u \in Threads |-> thread[u]]
  BY ServiceAssumption DEF Threads, DownloadInv, WatchInv, ThreadsOK
<1>2. dialog.film \in Films /\ dialog.keys \in Seq(KeysFor(dialog.film)) /\ IsDialog(dialog)
  BY DEF DownloadInv, DialogOK, StartWatch
<1>3. DialogOK'
  <2>1. IsDialog(dialog') /\ dialog'.film = dialog.film /\ dialog'.keys = dialog.keys
    BY <1>2 DEF IsDialog, StartWatch
  <2> QED
    BY <1>2, <2>1 DEF DialogOK, IsDialog
<1>4. UNCHANGED << sessionVars, lastTorrent >>
  BY DEF StartWatch
<1>5. CASE UNCHANGED thread
  <2>1. \A u \in Threads : Same(u)
    BY <1>5, UnchangedSame
  <2>2. ThreadsSound' /\ \A u \in Adders : Same(u)
    BY <1>1, <2>1, NoThread DEF Threads
  <2> QED
    BY <1>3, <1>4, <2>2, StillStep
<1>6. CASE thread' = [thread EXCEPT ![t] = Started(dialog.film, dialog.info, dialog.keys)]
  <2> DEFINE r == Started(dialog.film, dialog.info, dialog.keys)
  <2>1. Fields(r, "avail", dialog.film, dialog.keys, NoKey, NoKey, "none")
    BY StartedFields
  <2> HIDE DEF r
  <2>2. thread'[t] = r /\ \A u \in Threads \ {t} : thread'[u] = thread[u]
    BY <1>1, <1>6 DEF r
  <2>3. \A u \in Threads \ {t} : Same(u)
    BY <2>2, UnchangedSame
  <2>4. ThreadSound(thread'[t])
    BY <1>2, <2>1, <2>2 DEF Fields, ThreadSound, Holding
  <2>5. ThreadsSound'
    BY <1>1, <2>3, <2>4, OneThread
  <2>6. \A u \in Adders : Same(u)
    BY <1>1, <2>3 DEF Threads
  <2> QED
    BY <1>3, <1>4, <2>5, <2>6, StillStep
<1> QED
  BY <1>5, <1>6 DEF StartWatch

\* stopWatch may pause a torrent; it resumes and removes none.
LEMMA StopDownloads ==
    ASSUME DownloadInv, WatchInv', History, StopWatch, UNCHANGED << rows, main >>
    PROVE  DownloadInv'
<1>1. /\ WatchInv /\ ThreadsSound /\ SetsOK /\ DialogOK'
      /\ UNCHANGED << lastTorrent, torrents, metadata >>
      /\ watchTask \in Tasks \cup {NoTask}
  BY DialogKept DEF DownloadInv, TableOK, SetsOK, WatchInv, StopWatch, PauseTorrent, sessionVars
<1>2. paused \subseteq paused'
  BY DEF StopWatch, PauseTorrent, sessionVars
<1>3. SetsOK' /\ OnlyFilm(NoFilm)
  BY <1>1, <1>2 DEF SetsOK, OnlyFilm
<1>4. WatchedKnown'
  BY <1>1, KnownStep DEF DownloadInv, History, HasRow, HasRowAfter
<1>5. ThreadsSound' /\ \A u \in Adders : Same(u)
  <2>1. CASE UNCHANGED thread
    <3>1. \A u \in Threads : Same(u)
      BY <2>1, UnchangedSame
    <3> QED
      BY <1>1, <3>1, NoThread DEF Threads
  <2>2. CASE watchTask # NoTask
    <3> DEFINE t == watchTask
               r == IF Alive(t) THEN [thread[t] EXCEPT !.interrupted = TRUE] ELSE Idle
    <3>1. t \in Tasks /\ t \in Threads /\ t \notin Adders
      BY <1>1, <2>2, ServiceAssumption DEF Threads
    <3>2. IsThread(thread[t]) /\ thread = [u \in Threads |-> thread[u]]
      BY <1>1, <3>1 DEF WatchInv, ThreadsOK
    <3>3. thread' = [thread EXCEPT ![t] = r]
      BY <2>2 DEF StopWatch
    <3>4. thread'[t] = r /\ \A u \in Threads \ {t} : thread'[u] = thread[u]
      BY <3>1, <3>2, <3>3
    <3>5. \A u \in Threads \ {t} : Same(u)
      BY <3>4, UnchangedSame
    <3>6. ThreadSound(thread'[t])
      <4>1. CASE Alive(t)
        <5>1. Same(t)
          BY <3>2, <3>4, <4>1, OneField DEF Same
        <5> QED
          BY <1>1, <3>1, <5>1, SameSound DEF ThreadsSound
      <4>2. CASE ~Alive(t)
        BY <3>4, <4>2, IdleFields DEF ThreadSound
      <4> QED
        BY <4>1, <4>2
    <3>7. ThreadsSound'
      BY <1>1, <3>1, <3>5, <3>6, OneThread
    <3>8. \A u \in Adders : Same(u)
      BY <3>1, <3>5 DEF Threads
    <3> QED
      BY <3>7, <3>8
  <2> QED
    BY <2>1, <2>2 DEF StopWatch
<1> QED
  BY <1>1, <1>3, <1>4, <1>5, QuietStep

LEMMA DialogDownloads ==
    ASSUME DownloadInv, WatchInv', DialogStep
    PROVE  DownloadInv'
<1>1. History /\ UNCHANGED << rows, main >>
  BY DEF DialogStep
<1>2. CASE \E t \in Tasks : StartWatch(t)
  BY <1>1, <1>2, StartDownloads
<1>3. CASE StopWatch
  BY <1>1, <1>3, StopDownloads
<1>4. CASE DialogError \/ CloseDialog
  <2>1. DialogOK' /\ UNCHANGED << sessionVars, lastTorrent, thread >>
    BY <1>4, DialogCloses DEF DialogError, CloseDialog
  <2>2. \A u \in Threads : Same(u)
    BY <2>1, UnchangedSame
  <2>3. ThreadsSound' /\ \A u \in Adders : Same(u)
    BY <2>2, NoThread DEF DownloadInv, Threads
  <2> QED
    BY <1>1, <2>1, <2>3, StillStep
<1> QED
  BY <1>2, <1>3, <1>4 DEF DialogStep

-----------------------------------------------------------------------------
(* The end of the process, and the theorems *)

\* initDownloads starts one thread for every row and nothing else runs.
LEMMA RestartDownloads ==
    ASSUME DownloadInv, WatchInv', Restart
    PROVE  DownloadInv'
<1>1. /\ TableOK /\ WatchedKnown /\ WatchHistory /\ rows' = RowsAfterRestart
      /\ torrents' = {} /\ metadata' = {} /\ paused' = {}
      /\ lastTorrent' \in {lastTorrent, NoKey} /\ DialogOK'
      /\ main' = NoHandler /\ HandlerOK'
  BY DialogCloses, HandlerRests DEF DownloadInv, Restart
<1>2. PICK adder \in [Films -> Adders] :
        /\ \A film \in Films : HasRow(film) => adder[film] \in AdderOf[film]
        /\ thread' = [t \in Threads |->
              IF \E film \in Films : HasRow(film) /\ adder[film] = t
              THEN LET film == CHOOSE f \in Films : HasRow(f) /\ adder[f] = t
                   IN  Started(film, TRUE, RowKeys(film))
              ELSE Idle]
  BY DEF Restart
<1>3. ASSUME NEW film \in Films
      PROVE  /\ IsRow(rows'[film]) /\ rows'[film].saved = rows[film].saved
             /\ HasRowAfter(film) <=> HasRow(film)
  <2>1. IsRow(rows[film])
    BY <1>1 DEF TableOK
  <2>2. CASE rows[film].state = "ERROR"
    BY <1>1, <2>1, <2>2, RowFields DEF RowsAfterRestart, HasRow, HasRowAfter
  <2>3. CASE rows[film].state # "ERROR"
    BY <1>1, <2>1, <2>3 DEF RowsAfterRestart, HasRow, HasRowAfter
  <2> QED
    BY <2>2, <2>3
<1>4. TableOK'
  BY <1>1, <1>3 DEF TableOK, RowsAfterRestart
<1>5. ASSUME NEW film \in Films, HasRow(film)
      PROVE  thread'[adder[film]] = Started(film, TRUE, RowKeys(film))
  <2> DEFINE t == adder[film]
             g == CHOOSE f \in Films : HasRow(f) /\ adder[f] = t
  <2>1. t \in AdderOf[film] /\ t \in Threads
    BY <1>2, <1>5 DEF Threads
  <2>2. g \in Films /\ HasRow(g) /\ adder[g] = t
    BY <1>5
  <2>3. g = film
    BY <1>2, <2>1, <2>2, AdderAssumption
  <2>4. thread'[t] = Started(g, TRUE, RowKeys(g))
    BY <1>2, <1>5, <2>1
  <2> QED
    BY <2>3, <2>4
<1>6. ASSUME NEW t \in Threads, ~\E film \in Films : HasRow(film) /\ adder[film] = t
      PROVE  thread'[t].pc = "idle"
  BY <1>2, <1>6, IdleFields
<1>7. ASSUME NEW film \in Films, HasRow(film)
      PROVE  /\ Fields(thread'[adder[film]], "avail", film, RowKeys(film), NoKey, NoKey, "none")
             /\ RowKeys(film) \in Seq(KeysFor(film))
  <2>1. Fields(Started(film, TRUE, RowKeys(film)), "avail", film, RowKeys(film), NoKey, NoKey, "none")
    BY StartedFields, Zenon
  <2>2. RowKeys(film) \in Seq(KeysFor(film))
    BY <1>1, RowKeysSound
  <2> QED
    BY <1>5, <1>7, <2>1, <2>2
<1>8. ThreadsSound'
  <2>1. ASSUME NEW t \in Threads
        PROVE  /\ ThreadSound(thread'[t]) /\ thread'[t].pc \in AdderPcs
               /\ thread'[t].pc # "idle" => t \in AdderOf[thread'[t].film]
    <3>1. CASE \E film \in Films : HasRow(film) /\ adder[film] = t
      <4>1. PICK film \in Films : HasRow(film) /\ adder[film] = t
        BY <3>1
      <4>2. Fields(thread'[t], "avail", film, RowKeys(film), NoKey, NoKey, "none")
            /\ RowKeys(film) \in Seq(KeysFor(film))
        BY <1>7, <4>1
      <4>3. ThreadSound(thread'[t])
        BY <4>2 DEF Fields, ThreadSound, Holding
      <4> QED
        BY <1>2, <4>1, <4>2, <4>3 DEF Fields, AdderPcs
    <3>2. CASE ~\E film \in Films : HasRow(film) /\ adder[film] = t
      BY <1>6, <3>2 DEF ThreadSound, AdderPcs
    <3> QED
      BY <3>1, <3>2
  <2>2. (\A t \in Threads : ThreadSound(thread[t]))'
    BY <2>1 DEF ThreadSound
  <2> QED
    BY <2>1, <2>2 DEF ThreadsSound, Alive, Threads
<1>9. WatchedKnown'
  BY <1>1, <1>3, KnownStep
<1>10. ASSUME NEW film \in Films, Plain(film)'
       PROVE  Settled(film)'
  <2> DEFINE t == adder[film]
  <2>1. HasRow(film)
    BY <1>3, <1>10 DEF Plain, HasRow, HasRowAfter
  <2>2. t \in AdderOf[film] /\ Fields(thread'[t], "avail", film, RowKeys(film), NoKey, NoKey, "none")
    BY <1>2, <1>7, <2>1
  <2>3. ASSUME NEW u \in AdderOf[film], u # t
        PROVE  thread'[u].pc = "idle"
    <3>1. ~\E f \in Films : HasRow(f) /\ adder[f] = u
      BY <1>2, <2>3, AdderAssumption
    <3> QED
      BY <1>6, <2>3, <3>1, AdderAssumption DEF Threads
  <2>4. RowKeySet(film)' = NamedKeys(film, rows[film].saved)
    BY <1>1, <1>3, HandlerRests, ServiceAssumption DEF RowKeySet, SavedFor, NamedKeys
  <2>5. \A i \in DOMAIN RowKeys(film) : RowKeys(film)[i] \in NamedKeys(film, rows[film].saved)
    <3>1. rows[film].saved \in BOOLEAN
      BY <1>1 DEF TableOK, IsRow
    <3> QED
      BY <3>1, KeysOfSound DEF RowKeys
  <2>6. Stage(film, thread[t])'
    BY <1>1, <2>2, <2>4, <2>5 DEF Stage, Fields, Holding
  <2>7. \A u \in AdderOf[film] : Stage(film, thread[u])'
    BY <2>3, <2>6 DEF Stage, Holding
  <2> QED
    BY <2>2, <2>3, <2>7 DEF Settled, Adding, Alive, Fields
<1> QED
  BY <1>1, <1>4, <1>8, <1>9, <1>10 DEF DownloadInv

LEMMA MetadataDownloads ==
    ASSUME DownloadInv, WatchInv', MetadataStep
    PROVE  DownloadInv'
<1>1. PICK key \in Key : MetadataArrives(key)
  BY DEF MetadataStep
<1>2. /\ UNCHANGED << torrents, paused, lastTorrent, thread, dialog, rows, main, historyVars >>
      /\ metadata' = metadata \cup {key} /\ key \in torrents
  BY <1>1 DEF MetadataStep, MetadataArrives
<1>3. SetsOK' /\ OnlyFilm(NoFilm)
  BY <1>2 DEF DownloadInv, TableOK, SetsOK, OnlyFilm
<1>4. \A u \in Threads : Same(u)
  BY <1>2, UnchangedSame
<1>5. ThreadsSound' /\ \A u \in Adders : Same(u)
  BY <1>4, NoThread DEF DownloadInv, Threads
<1>6. DialogOK'
  BY <1>2, DialogKept DEF DownloadInv
<1>7. WatchedKnown'
  BY <1>2 DEF DownloadInv, WatchedKnown, HasRow, historyVars
<1> QED
  BY <1>2, <1>3, <1>5, <1>6, <1>7, QuietStep

LEMMA InitDownloads == Init => DownloadInv
<1> SUFFICES ASSUME Init PROVE DownloadInv
  OBVIOUS
<1>1. \A t \in Threads : thread[t] = Idle /\ thread[t].pc = "idle" /\ thread[t].film = NoFilm
  BY IdleFields DEF Init
<1>2. ThreadsSound
  BY <1>1 DEF ThreadsSound, ThreadSound, Alive, AdderPcs, Threads
<1>3. IsRow(NoRow) /\ NoRow.state = "none"
  BY NewRow DEF NoRow
<1>4. TableOK
  BY <1>3 DEF Init, TableOK
<1>5. DialogOK
  BY DialogFields DEF Init, DialogOK
<1>6. \A film \in Films : ~HasRow(film)
  BY <1>3 DEF Init, HasRow
<1>7. \A key \in Key : key.film \in Films
  BY DEF Key
<1>8. WatchedKnown
  BY <1>6, <1>7 DEF Init, WatchedKnown
<1>9. HandlerOK
  BY HandlerRests DEF Init, HandlerOK
<1> QED
  BY <1>2, <1>4, <1>5, <1>6, <1>8, <1>9, InitWatch DEF DownloadInv, Plain

LEMMA DownloadStepInv == DownloadInv /\ [Next]_vars => DownloadInv'
<1> SUFFICES ASSUME DownloadInv, [Next]_vars PROVE DownloadInv'
  OBVIOUS
<1>1. WatchInv'
  BY WatchStepInv DEF DownloadInv
<1>2. CASE MetadataStep
  BY <1>1, <1>2, MetadataDownloads
<1>3. ASSUME NEW t \in Tasks, WatchStep(t) \/ FinishStep(t)
      PROVE  DownloadInv'
  <2>1. TaskEffect(t) /\ History /\ UNCHANGED << rows, main >>
    BY <1>3, TaskEffects DEF WatchStep, FinishStep
  <2> QED
    BY <1>1, <2>1, TaskDownloads
<1>4. ASSUME NEW t \in Tasks, AnswerStep(t)
      PROVE  DownloadInv'
  <2>1. TaskEffect(t) /\ History /\ UNCHANGED << rows, main >>
    BY <1>4, AnswerEffect DEF AnswerStep
  <2> QED
    BY <1>1, <2>1, TaskDownloads
<1>5. ASSUME NEW t \in Adders, DownloadStep(t)
      PROVE  DownloadInv'
  BY <1>1, <1>5, AdderDownloads DEF DownloadStep
<1>6. CASE ListStep
  BY <1>1, <1>6, CheckDownloads DEF ListStep
<1>7. CASE UserStep
  BY <1>1, <1>7, UserDownloads
<1>8. CASE DialogStep
  BY <1>1, <1>8, DialogDownloads
<1>9. CASE Restart
  BY <1>1, <1>9, RestartDownloads
<1>10. CASE UNCHANGED vars
  <2>1. UNCHANGED << torrents, metadata, paused, lastTorrent, thread, dialog, rows, main,
                    historyVars >>
    BY <1>10 DEF vars
  <2>2. SetsOK' /\ OnlyFilm(NoFilm)
    BY <2>1 DEF DownloadInv, TableOK, SetsOK, OnlyFilm
  <2>3. \A u \in Threads : Same(u)
    BY <2>1, UnchangedSame
  <2>4. ThreadsSound' /\ \A u \in Adders : Same(u)
    BY <2>3, NoThread DEF DownloadInv, Threads
  <2>5. DialogOK'
    BY <2>1, DialogKept DEF DownloadInv
  <2>6. WatchedKnown'
    BY <2>1 DEF DownloadInv, WatchedKnown, HasRow, historyVars
  <2> QED
    BY <1>1, <2>1, <2>2, <2>4, <2>5, <2>6, QuietStep
<1>11. CASE HandlerStep
  <2>1. PICK film \in Films : film = main.film
    BY <1>11 DEF HandlerStep, HandlerCalls, HandlerWrites, DownloadInv, HandlerOK
  <2> QED
    BY <1>1, <1>11, <2>1, CallDownloads, WriteDownloads DEF HandlerStep
<1> QED
  BY <1>2, <1>3, <1>4, <1>5, <1>6, <1>7, <1>8, <1>9, <1>10, <1>11 DEF Next

\* Whatever is watched, removed, paused or started again in between, a row whose
\* thread has ended has its torrent in the session, unless it is one of those the
\* code makes no promise of.
THEOREM DownloadsHaveTorrents == Spec => []DownloadHasTorrent
<1>1. DownloadInv => DownloadHasTorrent
  <2> SUFFICES ASSUME DownloadInv, NEW film \in Films \ Excepted,
                      rows[film].state \in {"DOWNLOADING", "PAUSED", "FINISHED"}, ~Adding(film),
                      ~Under(film, "remove")
               PROVE  \E key \in metadata : key.film = film
    BY DEF DownloadHasTorrent, Under
  <2>1. HasOne(film) /\ rows[film].saved \in BOOLEAN
    BY DEF DownloadInv, Plain, HasRow, Settled, TableOK, IsRow
  <2>2. RowKeySet(film) \subseteq KeysFor(film)
    BY <2>1, NamedKeysSound DEF RowKeySet, SavedFor
  <2> QED
    BY <2>1, <2>2 DEF HasOne, KeysFor
<1> QED
  BY <1>1, InitDownloads, DownloadStepInv, PTL DEF Spec

\* The torrent of a row that is paused is paused once the row's thread has ended,
\* whether the user paused it before or after its metadata came or the process
\* was started again.
THEOREM PausedStayPaused == Spec => []PausedIsPaused
<1>1. DownloadInv => PausedIsPaused
  <2> SUFFICES ASSUME DownloadInv, NEW key \in metadata, rows[key.film].state = "PAUSED",
                      ~Adding(key.film), key.film \notin Excepted \cup crossed,
                      ~Under(key.film, "resume"), ~Under(key.film, "remove")
               PROVE  key \in paused
    BY DEF PausedIsPaused, Under
  <2>1. key \in torrents /\ key \in Key /\ key.film \in Films
    BY DEF DownloadInv, TableOK, Key
  <2>2. HasOne(key.film)
    BY <2>1 DEF DownloadInv, Plain, HasRow, Settled, Under
  <2>3. PICK k \in metadata : OnlyTorrent(key.film, k) /\ k \in paused
    BY <2>2 DEF HasOne, Wants
  <2> QED
    BY <2>1, <2>3 DEF OnlyTorrent
<1> QED
  BY <1>1, InitDownloads, DownloadStepInv, PTL DEF Spec
=============================================================================
