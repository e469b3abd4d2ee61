# A TLA+ verification of Popcorn Time's streaming core

Popcorn Time plays a film from a torrent while the torrent is being downloaded.
What must be right for that is scheduling and bookkeeping: which piece is asked
for next, when a reader may be given bytes, which torrents are in the session,
what happens when the user cancels, seeks or opens another film at the wrong
moment. This directory holds TLA+ models of that part, TLC runs that check
them on small instances, and TLAPS proofs of the safety properties that matter
most.

Paths below are relative to `PopcornTime_Desktop-src/` and, where they begin
with `base/`, to `PopcornTime_Android-src/base/src/main/java/se/popcorn_time/`;
Java classes named alone are found through the map in `PROJECT.json`.

## 1. Inventory

### Desktop application (C++/Qt)

| Part | State | Operations | Talks to |
|---|---|---|---|
| `tAux` (`lib/streamerok.cpp:71-300`) | flags `piecesDeadlines`, `fileFirstPieceForDeadlines`, `fileUri`, startup counts | constructor, `updateDeadlines`, `canGetUrl`, `getFileUrl` | libtorrent handle; called by the alert thread and the torrent thread |
| `Streamerok` (`lib/streamerok.cpp`, `streamerok.h`, `lib.cpp`) | `tMap`, `nextId`, the libtorrent session, `needSeekToThisPiece` | `addTorrent`, `deleteTorrent`, `getAux`, `seekInFile`, `isRangeDownloaded`, the alert loop | libtorrent; called by download, notify, torrent and GUI threads |
| `TorrentWrapper` (`gui/TorrentWrapper.cpp`) | `activeTorrent`, `activeTorrentIds` | `get`, `cancel`, `seek`, `onMetadataDownloaded`, `onTorrentMetadataError`, `onCheckDownloaded` | slots of the torrent thread; `cancel` is called directly by the GUI thread |
| `TorrentDownloadThread`, `DownloadNotifyThread`, `Requester` (`gui/TorHelpers.cpp`) | the reply, the thread's file and index, the interruption flag | fetch the torrent file, fall back to the magnet link, poll progress | broadcast signals |
| `SystemHelper` | one power assertion | `disableSleep`, `restoreSleep` | called from two threads |
| `TorrentIODevice` (`gui/TorrentIODevice.cpp`), `VideoPlayer` | file position, `abort`, mutex and condition, open mode | `readData`, `seek`, `open`, `close`, `abortWait` | demuxer thread against player thread; asks the torrent thread with a blocking call |
| `Subtitler`, `SubtitleFetcher`, the combo boxes | languages and their lists, current language and subtitle, fetchers, box entries | start and clear, select language, variant, custom or none; replies, retries | all in the GUI thread, as slots |
| `ChromeCast`, `NjsProcess` (`gui/ChromeCast.cpp`, `gui/NjsProcess.cpp`) | two child processes, the list of devices, current device, `isCasting`, `m_state` | discovery and its restarts, choosing a device, server output, `stop` with an event loop of its own | node processes over pipes; `VideoControl::castSwitch` decides whom the controls belong to |
| `HostApp`, widgets, `config`, `DropHandler`, `Common` | mostly none of their own | forwarding, layout, settings | - |

### Android application (Java)

| Part | State | Operations | Talks to |
|---|---|---|---|
| `WatchTask` (`base/torrent/watch/WatchTask.java`) | `state`, `currentPiece`, `filePriorities`, seek range | `run`, `seek`, `interrupt`, `onTaskStopped` | `TorrentService`; the player through a handler |
| `TorrentService`, `TorrentUtil` | table of torrents by key, the watch task | add, remove, pause, resume, `startWatch`, `stopWatch`; the loop that tries a film's keys | jlibtorrent; tasks, adding threads and the main thread, without a lock |
| `WatchDialog`, `DetailsVideoFragment` | the dialog and its `WatchInfo`, LAST_TORRENT | `addWatch`, connect, close, error | `TorrentService` |
| downloads (`DownloadsClient`, `AddToDownloadsThread`, `Downloads`) | the rows of the database, the saved metadata | add, pause, resume, remove; the thread that brings a row's torrent into the session | `TorrentService`; shares LAST_TORRENT with watching |
| `MainClient`, exit | what survives the process: rows, metadata files, LAST_TORRENT | `initDownloads`, `exitFromApp`, `removeLastOnExit` | all of the above |
| content, configuration, updater use cases | subscriptions and cached lists | request, refresh, choose | REST services through Rx |

### What is hard here

* **No locks.** `updateDeadlines` runs in two threads on one object;
  `TorrentWrapper::cancel` runs in the GUI thread while the slots of the torrent
  thread use the same fields; `TorrentIODevice` tells a waiting reader from a
  busy one with `tryLock`.
* **Chains of callbacks.** The window of deadlines advances only when an alert
  arrives, and an alert only comes because a deadline was set: one missing link
  and the download stands still for ever. A seek cancels deadlines, and each
  cancellation produces an alert that looks like a finished piece.
* **Waiting with time limits**: for metadata (two minutes), for the torrent file,
  for subtitles with retries; the answer may come late, never, or for somebody
  else.
* **Processes that end in between**: the Android process may die at any moment and
  is rebuilt from its rows; a node server may crash, or go on talking after it was
  killed.
* **Event loops inside slots**: `ChromeCast::stop` runs other slots, itself included,
  before it returns.
* **Piece arithmetic** at the ends of files that lie inside a torrent.
* **Shared lists**: two fetchers of one language, and the boxes that show
  positions in a list others shorten.

What makes each part correct: no piece is forgotten and the file becomes
complete (`tAux`, `WatchTask`); no torrent is in the session that nobody can stop
(`Streamerok`, `TorrentWrapper`); every request is answered and every wait ends
(`TorrentDownloadThread`, `cancel`, `readData`, the fetchers); no byte is read
that is not on disk (`TorrentIODevice`); the boxes show what is there
(`Subtitler`); no watch is out of reach, and downloads keep their torrents and
their pause over restarts (Android); what the user chose last is what is cast
(`ChromeCast`). `PROJECT.json` lists the hazards line by line, with the properties
that cover them or the reason why none does.

## 2. Modules

| Module | Models | Extends |
|---|---|---|
| `Deadlines` | `tAux` and the part of libtorrent it drives | - |
| `Streamerok` | the session, `tMap` and the blocking `addTorrent` | - |
| `TorrentWrapper` | the application's torrent engine with its threads | `Streamerok` (composition) |
| `TorrentIODevice` | reading while downloading, and the player that opens and closes | - |
| `Subtitler` | subtitles: fetchers, lists, boxes | - |
| `WatchTask` | the download loop of the Android application | - |
| `StreamedFile` | abstract: what both applications promise of a streamed film | - |
| `TorrentService` | the Android service's table and the loop that adds a torrent | - |
| `WatchLife` | a watch task around its loop, and the dialog | `TorrentService` |
| `Downloads` | rows, their operations, the adding thread | `TorrentService` |
| `AndroidSession` | the Android application: both of these, exit and death | `WatchLife`, `Downloads` (composition) |
| `ChromeCast` | casting with its node processes and `castSwitch` | - |
| `DeadlinesProofs`, `StreamerokProofs`, `TorrentIODeviceProofs`, `SubtitlerProofs`, `WatchTaskProofs`, `AndroidSessionProofs`, `ChromeCastProofs` | theorems | the module of the same name |
| `TorrentWrapperProofs` | theorems | `TorrentWrapper`, `StreamerokProofs` |
| `MC*` | constants for TLC | the module of the same name |

A definition named `...OffByOne`, `...Keeps`, `...Silently` and the like under a
comment that begins with "Faulty" is not used by the specification: it is the
mistake with which the sensitivity of a property is tested.

### Deadlines

A torrent is added with priority 0; a piece is downloaded if it has a priority
(`wanted`) or a deadline (`critical`, libtorrent's `m_time_critical_pieces`).
`alerts[p]` counts the `read_piece_alert`s libtorrent owes for piece `p`.
`piecesDeadlines` is the set of indices whose flag is `'t'`. Each thread has a
program counter in `updateDeadlines` and its locals; one step is one call into
libtorrent or one access of the shared fields: `ClearPieceDeadlines`,
`ResetFlags`, `CheckStartup`, `TestPiece`, `SetPieceDeadline`, `MarkPiece`. The
alert thread enters by `HandleAlert`, the torrent thread by `SeekInFile`.
libtorrent's own steps (`PieceFinished`, the alerts of cancelled deadlines) are
modelled from its use. `prioritize()` is compiled out and is left out. The behaviour
begins with `tAux` constructed and in `tMap`. In the code an alert that is handled
between the constructor's first `set_piece_deadline` and `tMap.insert`
(`streamerok.cpp:573`) finds no torrent and is dropped by `:889-896`: that race is
not modelled.

### Streamerok

A handle is the number of the torrent instance it refers to, so that a handle of
a removed torrent stays distinguishable from one of the same film added again.
`addTorrent` is a sequence of steps per caller: add, wait (metadata, timeout or a
handle that became invalid), select the file, enter the id into `tMap`, return. The
expiry of the time and what follows from it are steps of their own
(`MetadataTimeout`; then `KeepTimedOut` or `RemoveTimedOut`), because another caller
may come to hold the torrent between the test and `remove_torrent`. A file that
cannot be parsed is answered by -1 or -8 (`ParseFails`). Ids wrap at `INT_MAX` as in
`streamerok.h`.

### TorrentWrapper

Composes the session with the threads of the desktop application: the torrent
thread's event queue and the slot it runs, statement by statement; one download
thread per `get`; the `Requester`, which keeps one reply; the notify thread;
`cancel` in the GUI thread, statement by statement. A caller of `addTorrent` is a
`get` request. `get` runs as a slot of the torrent thread (`GetTorrent`) or, by the
overload of `hostApp.cpp:253-262`, directly in the GUI thread (`GetDirect`), beside
whatever the torrent thread does. The test of `activeTorrentIds` and the call of
`disableSleep` or `restoreSleep` after it are separate statements.
`activeTorrentIds` counts, for each id, how often the QList holds it. Two history
variables: `unheard` (requests that ended before their signals were connected) and
`crossed` (`cancel` and `onMetadataDownloaded` have overlapped).

### TorrentIODevice

`readData` is a small machine (check, sleep on the condition with its timeout,
recheck, read); `close` is three steps of the player thread (abort a waiting
reader, close the device, close the file, which rewinds the position). Bytes and
pieces are numbers, and `IsRangeDownloaded` is the arithmetic of
`streamerok.cpp:493-519`; `PieceOf` is libtorrent's true mapping of a byte to its
piece. `opening` is a history variable: under which call of `open` a read began.

### Subtitler

Every slot is one atomic action, since all of them run in the GUI thread. A film
is a number, because starting a new one lets the objects of the old one die while
their fetchers still have replies outstanding. Nested signals are part of the
action: `UpdateLanguages` includes the box's change of selection and what that
triggers. `Subtitler.h` declares `variantsSetEnabled` while
`Subtitler.cpp:298-302` defines `variantsSetVisible`; the model takes them for
one function.

### WatchTask

One iteration of the loop in state PREPARING_FOR_WATCH is four steps, because
pieces arrive between the two `updateDownload`s and the two counts; in the other
states it is one. `seek` runs between iterations since it takes the same lock.
`updateDownload` is atomic: a piece that arrives between `havePiece` and
`setPieceDeadline` gets its deadline and loses it at once, which is the same as
arriving afterwards. The application's call of `seek` is commented out at present
(`PlayerBaseActivity.onSeek`); it is modelled as part of the class's interface.
A seek may go to any position up to the very end, which is the piece behind the last
one. `from` is a history variable: where the download in order began. The `default`
branch of the switch is unreachable in the loop and is left out. What comes before
and after the loop is in `WatchLife`.

### StreamedFile

The abstract specification that `WatchTask` and `Deadlines` implement: pieces
arrive and are never lost; the player starts once, and only when what it needs at
both ends of the file is on disk; the position moves only while the film plays and
is not complete; complete means everything from the position on, for good. Each of
the two modules instantiates it as `Film`, with its own pieces, `Needed` set and
position (`fileFirstPieceForDeadlines`, or the history variable `from`), and the
property `StreamsFilm` is `Film!Spec`. On the desktop nothing declares a download
complete, so `complete` maps to FALSE there.

### TorrentService, WatchLife, Downloads, AndroidSession

A key of the service's table is a film and the name under which its torrent was
added: the saved metadata, the url or the magnet link. libtorrent would find one
torrent behind a url and a magnet of the same film; the service keeps them apart by
key, and so does the model, which treats their state in libtorrent as separate too.

`thread[t]` is the state of a thread: the program counter, the keys it has still to
try, and, for a watch task, its fields `torrentFile` and `torrentPaused`, which the
main thread reads after the thread has ended (`Ended`). The steps of
`TorrentUtil.addTorrent` (`GetAvailable`, `AddNext`, `Poll`, `Expired`) are shared by
watch tasks and adding threads. `AddTorrent` may be refused by libtorrent, and
`Poll` stands for a whole row of sleeps: it finds the metadata, or the time is up.

`WatchLife` has the rest of `run()`: metadata, LAST_TORRENT, `setFilePriority` and
the other checks of the file, the subtitle request and its wait, the loop as one
state; and of the main thread: `AddWatch`, `StartWatch` (whenever the dialog
connects), `CloseDialog`, `DialogError`. Closing the dialog sends an intent
(`WatchClient.java:22-26`), counted in `stops`; `StopWatch` is its delivery, and another
dialog may open and join the task, or start one, in between. An interrupt is a flag
which the next wait throws on. A message of the task reaches the dialog in the step
that sends it.

`Downloads` has one row per film, the operations of the main thread and
`AddToDownloadsThread`, whose query, update and pause are separate steps, because
the user may pause or remove the row between them. The handlers of the main thread
for pause, resume and remove are three steps for the same reason: `HandlerBegins`
reads the row and looks for its torrent, `HandlerCalls` is the call of the service,
`HandlerWrites` the change of the row. `main` holds what the handler has read; only
one runs at a time (`MainIsFree`), while all other threads go on. The row it begins
with is the current one: a list that shows an older cursor is not modelled. The
lookups of up to three keys in `getAvailableTorrentFile` are one step, and so is the
insertion of a row with the start of its thread (`DownloadsAdd`). `CheckState` makes
a row FINISHED. Pause, resume and remove of all rows repeat the single operations, and
`downloadsRetry` has no caller.

`AndroidSession` composes them with `Restart`: the process ends, by the user or not,
and the next one runs `initDownloads`. It keeps four history variables that name the
exceptions of its properties: `watched` (downloads a watch task has had to do with),
`abandoned` (rows of new downloads whose thread gave up), `leftover` (rows that
were added while a thread of an earlier row of the film still ran, or a torrent of an
earlier row or watch was still in the session) and `crossed` (rows whose thread
queried them after the last `downloadsPause` had looked for the torrent and before it
wrote PAUSED). A row is forgotten by all of them when it is removed, by all but
`watched` at a restart, which begins with an empty session, and by `crossed` also when
the next pause looks again.

### ChromeCast

All slots run in the GUI thread and are atomic but for `stop`, which waits for the
device in an event loop. `loops` is the stack of these loops: for each, what its
caller does after `stop` returns. `LoopQuits` ends the innermost one, by the reply
or the timer. `Restart` has three outcomes, because `waitForFinished` runs the end
of the old server inside the choice of the next device, if it comes in time.
`devs` is the list in the order of discovery. Two devices may have one name
(`NameOf`): `operator==` compares type, name and ip (`ChromeCast.h:77`), while a choice
is looked up by name and takes the first match (`ChromeCast.cpp:435-442`; `ChosenAt`).
`wanted`, `overlap` and `cut` are history variables: what the user chose last,
whether inside a `stop`, and whether a restart cut off a cast. Volume, position,
subtitles and the other commands change none of this and are left out. So is the
branch `ERR` of `parseNjsData` (`:424-429`): the node scripts print it to stderr, which
`NjsProcess` does not read. A discovery process that cannot be started at all emits no
`finished` and would not come back (`:342`, `:353`); that is not modelled, and
`DiscoveryReturns` does not claim anything of it.

## 3. Runs

All runs end within about two minutes with two workers. Deadlock is checked in
`chromecast` only: every other model has states in which nothing is left to do
(everything downloaded, all bounds used up); that what must happen does happen is
checked by the liveness properties.

| Run | Instance | Distinct states |
|---|---|---|
| `deadlines_safety` | 7 pieces, file 1..6, window 1, 2 seeks | 2,375,102 |
| `deadlines_live` | 9 pieces, file 4..8, window 1, 2 seeks | 699,725 |
| `streamerok` | 2 callers, 2 hashes (one without a file), 5 adds, ids 1..4 | 893,211 |
| `wrapper_cancel` | 2 requests of one film, 3 adds, 2 cancels | 1,704,748 |
| `wrapper_http` | 2 requests of two films, both by http, 1 cancel | 601,363 |
| `iodevice` | 5 bytes, pieces of 2, chunks of 1 and 2, 2 opens | 58,656 |
| `iodevice_offset` | file begins inside a piece; a violation | - |
| `subtitler` | 2 languages, 3 subtitles, 1 retry, 5 fetchers, 2 films | 144,916 |
| `watch` | 8 pieces, file 2..7, 2 + 2 pieces prepared, 2 seeks | 11,501 |
| `android_session` | 2 films, one of which may be a download, 1 task, 1 adding thread, 3 actions | 1,338,387 |
| `android_session_live` | the same, 2 tasks, 2 actions | 211,702 |
| `chromecast` | 3 devices, two of one name, 3 actions of the user | 257,084 |

**deadlines_safety.** `FlagHasAnswer`: a flag on a missing piece is backed by a
deadline or an alert. `ChainAlive`: while the window misses a piece, something is
under way that will call `updateDeadlines` again. `DeadlinesBounded`: at most two
windows' worth of deadlines compete. Two is sharp: a seek in the middle of the
alert thread's loop leaves the deadlines of the old position. The file is long
enough for startup pieces at both ends with a gap of four, so that a window can
lie in it, move and be left by a seek; two seeks are needed for alerts of the
first to be handled after the second. `StreamsFilm`: all of it implements
`StreamedFile`.

**deadlines_live.** `EventuallyDownloaded`: the url is handed out and the file
becomes complete from the last position on. The constructor's loop over priorities
takes the number of the file's pieces for the index of its end, so that in a file
which begins at piece 4 and has five pieces all but the startup pieces have none, and
only the deadlines of the window bring them: if the chain of alerts and deadlines breaks, as in the mutant,
they never come. Two seeks move the window across them.

**streamerok.** `NoLostTorrent`, `AddReturns`, and `ResultMeansTorrent`: the positive
number a call returns is itself the key under which `tMap` has that call's handle,
unless the torrent was removed since. With five adds each caller can time out on a
torrent the other one holds and try again. The fifth add takes id 1 again:
`AddReturns` goes past the counter's wrap, while `NoLostTorrent` and
`ResultMeansTorrent` are claimed until then only, because `insert` keeps an older
entry of the same id and the new torrent would be lost. That takes 2^31 adds in one
session.

**wrapper_cancel.** `WrapperTypeOK`, which includes the types of the session.
`EveryTorrentKnown`: for every torrent of the session that has a file to play the page
knows a number that leads to it, or a request under way has it, or it is what a
request left over that ended before its signals were connected (nobody heard it).
`AwakeOnlyForTorrents`: the power assertion is held only while a torrent the page
knows is listed, and while one is listed it is held. If `cancel` and
`onMetadataDownloaded` overlapped, the code guarantees less, and the property says
what: the -1 that `cancel` lets into the list may keep the machine awake, and a film
may be left without the assertion. `CancelWaitEnds`: the GUI thread does not wait for
ever, unless the torrent thread restarts the notify thread for another request
meanwhile, which is a hazard the property excepts and does not catch. One film
through two routes (http with a magnet link, and a local file), so that two ids of
one torrent, cancels of either and a fall-back all occur.

**wrapper_http.** `GetAnswered`: the `Requester` drops the first reply when the
second request comes, and gives the second file to both; each `get` is still
answered. A `get` whose thread answered before its signals were connected is
excepted, as a hazard says.

**iodevice.** `TypeOK` (the mutex is held exactly while a reader waits, which is what
`tryLock` is used for), `ReadsOnlyDownloaded`, `AbortFreesReader`,
`ClosedFreesReader`. The last piece is partial and a piece of another file follows
it; two opens let the device be closed and opened again under a waiting reader.
`ReadEnds`: once the file has arrived, a read that ends before the end of the file
ends. A read up to or past the end does not: the code asks for the piece of the
byte after the range.

**iodevice_offset.** The finding, see section 5.

**subtitler.** `VariantsHaveLanguage` (a null pointer otherwise), `SelectionShown`,
`QuietMeansReady`, `VariantsFreshWhenQuiet`, `FetchersEnd`. `SelectionShown`: the
subtitle in use is one of the language the box shows. The two exceptions are the
code's: going back from a custom subtitle to the language one came from returns early
(`Subtitler.cpp:243`) and leaves the custom one in use, and a language that has lost
all of its subtitles leaves the old one (`:248`). Five fetchers: one of
each language at the start, second fetchers of a language the user chooses twice,
and those of a second film, so that fetchers outlive the language they hold by a
weak pointer.

**watch.** `PreparedMeansPlayable`, `FinishedMeansDownloaded`, `FlagHasDeadline`,
`WindowBounded`, `EventuallyFinished`, `StreamsFilm`. The loop also ends when only
the last piece is missing; that it never is comes from the preparation. The film
does not begin at piece 0, so that a seek, which takes a position within the file
for a piece of the torrent, may land in front of it.

**android_session.** `DownloadHasTorrent`: a row that is neither being added or removed
nor in error has its torrent in the session. `PausedIsPaused`: the torrent of a paused
row, unless it is being resumed or removed, is paused. Both also after the process has
died at any point, and with the steps of the adding thread between those of a handler.
They except what the code does not
guarantee: a film that is also watched (the watch removes or resumes the torrent);
the row of a new download whose thread gave up (its id is not known to the
thread, so the failure is not recorded); and a row that began with something of an
earlier one left. `PausedIsPaused` also excepts a `crossed` row: `downloadsPause` finds
no torrent with metadata, the thread finds the metadata and reads the row, which is not
PAUSED yet, and then PAUSED is written, so that neither of the two pauses the torrent
(`DownloadsClient.java:68-75` against `AddToDownloadsThread.java:41-57`). `downloadsRemove` looks for a torrent that has its metadata, so it
leaves behind one that has none yet, and the thread that waits for it goes on; if
the film is added again, pause and remove look for the first key with metadata,
which may be the old one. It takes five actions to see that, more than the run has;
the proof attempt showed it, and the theorems below cover any number of actions and of
adding threads. One film can be watched and downloaded
under two keys, the other is only watched and displaces LAST_TORRENT; three actions
allow add, restart and pause, or a watch and a download. One watch task is enough
here, because a film that is watched is excepted.

**android_session_live.** `OneWatch`: however often the dialog connects and closes,
and however late the intent that stops a watch is delivered, at most one task runs
that was not told to stop, and it is the one `stopWatch` reaches; two tasks, so that
the next one can start while the one before is on its way out. `StopEnds`: an
interrupted task ends, wherever its thread is. `WatchProgresses`: a watch gets to its
loop or ends, unless the notify of the subtitle request came before the wait and was
lost.

**chromecast.** `CastHasServer`: the controls and the states of the cast follow the
server's life. `ChosenIsCast`: a server that was not told to stop plays on the device
chosen last, or on the one of the same name that stands before it in the list, because
choices go by name (`ChromeCast.cpp:439`). `StopWins`: a stop gets rid of the server.
`DiscoveryReturns`. A choice or a stop that is made inside a `stop()` is excepted
(`overlap`): the older one goes on afterwards and wins. So is a restart that cuts off a
cast: it forgets the new device, and the server is loaded without one. Three devices, a
set that is found twice under one name and a box, and three actions allow a choice, a
second one whose restart meets the old server's last output, and a nested stop.

### Bounds

`MaxSeeks`, `MaxAdds`, `MaxCancels`, `MaxOpens`, `MaxFetchers`, `MaxStarts` and
`MaxActions` bound how often the user or a caller does something; they occur in
guards of those actions only, never in a step of the program. In `AndroidSession`
`MaxActions` also counts the deaths of the process and the rows that finish. Startup counts and windows
are scaled down (1 or 2 for 3 to 20); the fractions 200 and 400 are those of the
code. The theorems hold for every value of all of them.

### Fairness

* `Deadlines`: a piece with a priority or a deadline is eventually delivered, an
  alert is eventually handled, a thread inside `updateDeadlines` goes on, and the
  notify thread polls the url. The alert thread and the notify thread are endless
  loops.
* `Streamerok`, `TorrentWrapper`: threads run and timers expire. The network owes
  nothing: neither metadata nor a reply is assumed. `addTorrent` counts its
  waiting and gives up, `getAddTorrentFile` has a timer.
* `TorrentIODevice`: the reader and a close that has begun go on; the condition
  has a timeout, so the reader wakes up by itself. That pieces arrive is a premise
  of `ReadEnds`, not of the specification.
* `Subtitler`: a request is answered, if only by an error, and a retry timer
  fires, both guaranteed by Qt.
* `WatchTask`: the pieces of the file, all of priority MAXIMUM, arrive, and the
  task's thread runs.
* `AndroidSession`: threads of tasks and of downloads run and their sleeps end; a
  subtitle request is answered or fails. Neither metadata nor the film is assumed to
  arrive.
* `ChromeCast`: a process that was killed ends, the loop of `stop` is quit by its
  timer at the latest, and the timer that starts discovery again fires. No device is
  assumed to answer.

No user action is ever assumed to happen.

## 4. Proofs

TLAPS proves the following for every value of the constants that satisfies the
named assumptions.

| Theorem | States | Assumptions |
|---|---|---|
| `DeadlinesProofs!TypeCorrect` | `Spec => []TypeOK` | `GeometryAssumption`, `TuningAssumption`, `InitialHaveAssumption` |
| `DeadlinesProofs!FlagsAnswered` | `Spec => []FlagHasAnswer` | the same |
| `DeadlinesProofs!ChainNeverBreaks` | `Spec => []ChainAlive` | the same |
| `DeadlinesProofs!FewDeadlines` | `Spec => []DeadlinesBounded` | the same |
| `DeadlinesProofs!FileStreamsFilm` | `Spec => StreamsFilm` (refinement) | the same |
| `StreamerokProofs!TorrentsReachable` | `SessionSpec => []NoLostTorrent` | `HashAssumption`, `BoundAssumption` |
| `StreamerokProofs!ResultsHold` | `SessionSpec => []ResultMeansTorrent` | the same |
| `TorrentWrapperProofs!WrapperTypes` | `WrapperSpec => []WrapperTypeOK` | these and `RequestAssumption` |
| `TorrentWrapperProofs!TorrentsKnown` | `WrapperSpec => []EveryTorrentKnown` | the same |
| `TorrentWrapperProofs!AwakeForTorrents` | `WrapperSpec => []AwakeOnlyForTorrents` | the same |
| `TorrentWrapperProofs!WrapperImplementsSession` | `WrapperSpec => SessionSpec` (refinement) | the same |
| `TorrentIODeviceProofs!DeviceTypes` | `Spec => []TypeOK` | `FileAssumption` |
| `TorrentIODeviceProofs!ReadsAreDownloaded` | `Spec => []ReadsOnlyDownloaded` | the same |
| `SubtitlerProofs!VariantsSafe` | `Spec => []VariantsHaveLanguage` | `LanguageAssumption`, `LimitAssumption` |
| `SubtitlerProofs!SelectionTrue` | `Spec => []SelectionShown` | the same |
| `SubtitlerProofs!ReadyWhenQuiet` | `Spec => []QuietMeansReady` | the same |
| `SubtitlerProofs!FreshWhenQuiet` | `Spec => []VariantsFreshWhenQuiet` | the same |
| `WatchTaskProofs!PreparedPlayable` | `Spec => []PreparedMeansPlayable` | `BoundaryAssumption` |
| `WatchTaskProofs!FinishedDownloaded` | `Spec => []FinishedMeansDownloaded` | the same |
| `WatchTaskProofs!FlagsHaveDeadlines` | `Spec => []FlagHasDeadline` | the same |
| `WatchTaskProofs!WindowStaysBounded` | `Spec => []WindowBounded` | the same |
| `WatchTaskProofs!TaskStreamsFilm` | `Spec => StreamsFilm` (refinement) | `BoundaryAssumption`, `HaveAssumption` |
| `AndroidSessionProofs!WatchReachable` | `Spec => []OneWatch` | `ServiceAssumption`, `AdderAssumption` |
| `AndroidSessionProofs!DownloadsHaveTorrents` | `Spec => []DownloadHasTorrent` | these and `KeyAssumption` |
| `AndroidSessionProofs!PausedStayPaused` | `Spec => []PausedIsPaused` | the same |
| `ChromeCastProofs!CastTypesHold` | `Spec => []TypeOK` | `DevicesAssumption` |
| `ChromeCastProofs!ControlsFollowServer` | `Spec => []CastHasServer` | the same |
| `ChromeCastProofs!LastChoiceIsCast` | `Spec => []ChosenIsCast` | the same |

The assumptions say what kind of value a constant is, and little more. Those that say
more: `INT_MAX` is greater than 2; the pieces prepared at both ends fit into the file
(`EnoughPieces` in `WatchTask`); every language comes with a list of different
subtitles, not empty, and no two languages share one (`LanguageAssumption`, which is
how `Subtitler` fills its lists); an adding thread is made for one film
(`AdderAssumption`, the constructor of `AddToDownloadsThread`); no device has the name of
the entry for the local player (`DevicesAssumption`; nothing in the code prevents it).
That a file is aligned
is no assumption but a premise of `ReadsOnlyDownloaded` itself.

**Deadlines.** `TypeOK` is not inductive: a handled alert becomes an index into
`piecesDeadlines`, and the loop's cursor must stay in the file while a piece is
set or marked. `TypeInv` adds `AlertsInFile` (alerts and deadlines concern pieces
up to `fileLastPiece` only, so `at()` never throws) and `LoopOK`. For the flags,
`FlagInv` adds `MarkHasAnswer` (the piece a thread is about to mark already has
its deadline or alert, whatever the other thread did since) and
`AlertNeverSeeks` (the alert thread never clears).

`ChainAlive` needs to know why a missing piece of the window is not forgotten.
`ChainLink` lists the reasons: a deadline on such a piece, any alert under way, a
thread that has still to walk over the window, or one that walks and has not met a
missing piece yet (`Searching`). The delicate case is a piece that arrives between
`have_piece` and the test of its flag, and so is passed over: `ArrivalAnswered` says
that its alert is on the way. `StartupWaits` keeps all this away from the startup,
in which no loop runs. `DeadlinesBounded` counts what the old position left:
`Excess` is the number of deadlines outside the window plus those the alert thread
may still set for a position that was left (`StaleSlots`). A seek turns the window of
one loop into excess, at most one window's worth, and nothing adds to it afterwards.
The counting is done with the theorems on finite sets.

**Streamerok.** `SessionInv` adds to the two properties that a handle belongs to one
hash and is older than any torrent to come (`HandlesSound`), that until the counter
comes round ids are numbers of calls, and the id a call has drawn is nobody else's and
not in `tMap` yet (`IdsFresh`), so that `insert` inserts under the number that is
returned, and that a call which has returned has an answer other than zero
(`ResultsSigned`). `ResultSound` is the second property for one call; other callers
disturb it only by removing its torrent, which makes the handle invalid.

**TorrentWrapper.** Each step of the engine is one step of the session or leaves it
alone, so `SessionInv` holds of the engine, and `WrapperImplementsSession` says so as
a refinement. `EngineInv` then follows a torrent number from `addTorrent` to the page:
the thread that called (`DlSound`), the signal on its way (`EventsSound`: a request
has at most one event in the queue), the slot that handles it (`SlotSound`). A thread
that is done was answered, or its answer is on the way, or nobody received it
(`AnswersSound`); so every id of `tMap` is announced or belongs to a request that is
not handled (`NumbersKnown`), and `EveryTorrentKnown` follows with `NoLostTorrent`.
`PowerSound` says what is listed, and that as long as `cancel` and the slot have not
overlapped each finds the list as it tested it; with it `AwakeOnlyForTorrents` is
preserved statement by statement of `cancel` against every statement of the slot.

**Subtitler.** Two fetchers of one language shorten the same list, and a box shows
positions in it. `QuietLists` (the list of a language nobody fetches begins with a
subtitle that is loaded, or is empty) and `FreshBox` (the box of a current language
nobody fetches shows the list as it is) are kept by every slot, although both are
broken while a fetcher is at work; `SubtitlerTypes` keeps the lists of different
languages apart, so that one language's fetcher cannot disturb another's.
`SelectionShown` is the conjunction of `LanguageShown` and of what `SubOwned` says when
the box shows a language. `SubOwned` is about the current language whatever the box
shows, since the user may come back from a custom subtitle to it without anything being
done.

**TorrentIODevice.** Lemma `RangeSound` is the arithmetic: in an aligned file the
pieces the code asks for cover the range. `ReadInv` adds `OpeningBounded` and
`ClosedBeforeRewind`: when `file.close` rewinds the position the device is closed
already, so a read that goes on has the position it was checked for, or belongs to
an earlier open.

**WatchTask.** `TaskInv` adds to the two properties the phases of an iteration
(`Phases`), `CountSound` (the count at the file's end, taken earlier, is still a
lower bound) and `InOrder` (everything between `from` and `currentPiece` is
there). `FullRange` turns a sum of counts into membership: two counts bounded by
`PrepareCount` that add up to twice of it are both full. `FinishedMeansDownloaded`
then follows for the last piece from the preparation and for the others from
`InOrder`. For `WindowBounded`, `WindowInv` says that deadlines belong to active pieces
or, before the player starts, to the end of the file. A missing piece that is among the
first missing ones stays among them until it arrives, and the preparation's pieces
have arrived when the player starts.

**Refinements.** Every step of `Deadlines` and of `WatchTask` is a step of `Film` or
a stutter. The types proved before give the position its range. In `Deadlines` only
`getFileUrl` plays, under `canGetUrl`, and only a seek moves the position, after the
url was handed out. In `WatchTask`, `TaskInv` shows that the end of the preparation
is a `Play` and the end of the loop a `Complete`.

**AndroidSession.** `OneWatch` is inductive once the table of threads keeps its
shape (`ThreadsOK`) and `watchTask` is a task or none. Every step except those of the
dialog and of the end of the process leaves each task idle or as interrupted as it
was before (`Keeps`); one lemma per group of actions shows this, through lemmas on
updates of a thread's record. `StartWatch` begins a task only if the service's own
one is not alive, and then every other one is interrupted already; `StopWatch`
interrupts before it forgets, however late it comes.

`DownloadInv` is about rows that are not excepted (`Plain`). It follows the one thread
that adds the film: before it adds a key the session has no torrent of the film,
afterwards only the one under that key, and from its metadata on nobody removes it;
when the thread saves the row, the state it has read or the session already says
that the row is paused (`Stage`). When the thread has ended, the film has exactly
one torrent, under a key of the row, and it is paused if it has to be (`HasOne`). When
it has to be depends on the handler that is under way (`HandlerOK` gives its shape):
`Wants` holds of a row that is PAUSED and not being resumed, and of one whose pause has
called the service and has not yet written; `Calling` says that the handler is about to
pause the torrent it found, which is then the film's only one. Because the handler
writes back the row it has read, the keys of a row are those that the row and the
handler agree on (`SavedFor`). That
other steps leave the film alone needs to know that threads, the dialog and
LAST_TORRENT refer to keys of their own film (`ThreadsSound`, `DialogOK`), and that a
film which a task or LAST_TORRENT refers to is already known as watched
(`WatchedKnown`); every step then concerns the torrents of one film only
(`OnlyFilm`).

**ChromeCast.** `CastHasServer` follows from the types and itself. `ChosenIsCast`
needs `CurrentFirst` (the current device is the first of its name in the list, for only
a choice sets it, so that it serves for every device of that name), `DeviceLoaded` (the
current device, if there is one, is the one the running server was loaded with), `StartSound` (a server that is starting will load the last
choice, unless a restart cut off a cast) and `LoopSound` (if no choice fell inside a
`stop`, there is at most one loop and it carries out the last choice).

**Only model-checked.** The liveness properties (`EventuallyDownloaded`, `AddReturns`,
`CancelWaitEnds`, `GetAnswered`, `AbortFreesReader`, `ClosedFreesReader`, `ReadEnds`,
`FetchersEnd`, `EventuallyFinished`, `StopEnds`, `WatchProgresses`, `StopWins`,
`DiscoveryReturns`): fairness and ENABLED are out of the prover's reach. Every
invariant of a passing run, and both refinements that the runs check, are theorems.

## 5. Finding

`isRangeDownloaded` (`lib/streamerok.cpp:503`) turns bytes into pieces as
`end / pieceLength + fileVeryFirstPiece`, which ignores where the file begins
inside its first piece. For a film that is not the first file of its torrent and
does not begin at a piece boundary, the last byte of a range may lie one piece
further than the code looks. `iodevice_offset` shows such a range: the code logs
that the requested range is fully downloaded and returns true while its last piece
is missing. `RangeSound` proves that aligned files are not concerned.

Other places where the code does less than one would expect, and properties
state an exception: a torrent without a playable file stays in the session
(`streamerok.cpp:559`); a reader at the very end of the file waits
(`:496`); a `get` answered before its signals are connected (`TorHelpers.cpp:97`);
buffering up to a piece behind the file does not end (`WatchTask.java:131`); piece
0 loses its deadline in a seek (`WatchTask.java:393`); a -1 that is listed as an active
torrent (`TorrentWrapper.cpp:86` against `:123`); a pause that is crossed by the query of
the adding thread (`DownloadsClient.java:68`); the second of two devices of one name,
which cannot be chosen (`ChromeCast.cpp:439`); the other exceptions of
`android_session` and `chromecast` above. They are in the list of hazards. A property
that states such an exception does not catch it: the hazard's note says so.

Places that no property reaches, because they concern values or calls the models
leave out: `canGetUrl`'s loops are not bounded by the file (`streamerok.cpp:275`) and
`isFinished` stops before the last piece (`:292`); `seekInFile` and
`isRangeDownloaded` use what `getAux` returns, 0 for an unknown id, without a test
(`:473`); `needSeekToThisPiece` belongs to the session and not to a torrent
(`:488`, `:889`); once `getNextId` has come round at INT_MAX (`streamerok.h:65`),
`insert` keeps an older entry of the same id (`:573`); which of its two signals
`cancel` emits depends on the torrent that is active, not on the one that is
cancelled (`TorrentWrapper.cpp:91`); a cast server that fails before it connects leaves
`currentDevice`, so that the same device cannot be chosen again
(`ChromeCast.cpp:359`, `:435`); the timers of 5 s after a seek of a cast (`:484`) and
of 500 ms before the local player goes on (`VideoControl.cpp:320`); a line of server
output that is split between two reads (`NjsProcess.cpp:62`).

## 6. Not modelled

Third-party code (libtorrent, boost, QtAV, quazip, libVLC, DirectX headers, the
Android libraries), which is nearly all of the repository's 2.4 million lines, except
as external actions where the application calls it. Of the application's own code:
widgets, layout and painting, on Android also activities, adapters and players;
configuration and start-up; the web server, which is compiled out; the former player
`VMediaPlayer`; the content of files and subtitles; the iOS application's own few
sources (`AppDelegate.mm`, `BackViewController.m`, `Reachability.m`: an application
shell around a web view); the Android use cases for content, configuration and
updates, each of which is one Rx subscription that is replaced when the view asks
again. Torn accesses of unlocked C++ containers are not modelled either: every access
is one step. The directory `torrent/` of the Android sources holds an older copy of
the service and of `WatchTask`, which is not modelled separately.

## 7. Plan

All components of the plan are modelled, and the safety properties of all runs are
proved. Left, in this order:

1. **Steps of liveness arguments as action properties**: what each wait's measure
   may never do (retries left, keys left, ids on their way), which is provable where
   the eventuality is not.
2. **Two torrents in `Deadlines`**: `needSeekToThisPiece` belongs to the session.
3. **The commands of a cast**: the timers after a seek and before the local player
   goes on.
