--------------------------- MODULE TorrentWrapper ---------------------------
(***************************************************************************)
(* The desktop application's torrent engine: gui/TorrentWrapper.cpp and    *)
(* the threads of gui/TorHelpers.cpp, on top of the torrent session of     *)
(* module Streamerok.  The actors are                                      *)
(*                                                                         *)
(*   the GUI thread    posts get() to the torrent thread or calls it (two  *)
(*                     overloads, hostApp.cpp:243, 260), and calls         *)
(*                     cancel() directly (hostApp.cpp:272-275);            *)
(*   the torrent       runs the slots get, onMetadataDownloaded and        *)
(*   thread            onTorrentMetadataError, one event at a time;        *)
(*   one download      fetches the torrent file through the Requester or   *)
(*   thread per get    reads it, adds it, falls back to the magnet link,   *)
(*                     and emits one of two signals;                       *)
(*   the Requester     keeps a single reply and broadcasts its result;     *)
(*   the notify        polls one torrent until it is interrupted.          *)
(*   thread                                                                *)
(*                                                                         *)
(* No lock protects the wrapper's fields, so cancel and a slot interleave  *)
(* statement by statement.  A caller of addTorrent is a get request.       *)
(***************************************************************************)
EXTENDS Streamerok, Sequences

CONSTANTS
    Want,           \* request -> info-hash of its torrent file and magnet
    Source,         \* request -> "http", "local" or "none": its url
    WithMagnet,     \* requests that have a magnet link
    MaxCancels      \* bound on the calls of cancel

Requests == Callers

ASSUME RequestAssumption ==
    /\ Want \in [Requests -> Hashes]
    /\ Source \in [Requests -> {"http", "local", "none"}]
    /\ WithMagnet \subseteq Requests
    /\ MaxCancels \in Nat

VARIABLES
    dl,                 \* TorrentDownloadThread per request
    calls,              \* getTorrentFile calls posted to the Requester
    torrentReply,       \* request whose file the Requester fetches, or NoReq
    connected,          \* requests whose signals are connected
    events,             \* event queue of the torrent thread
    slot,               \* the slot the torrent thread runs
    activeTorrent,      \* activeTorrent.index
    activeTorrentIds,   \* id -> how often the list has it
    notify,             \* the notify thread: the torrent it polls, and the
                        \* request it was started for
    interrupted,        \* requestInterruption() was called on it
    sleepDisabled,      \* SystemHelper holds the power assertion
    announced,          \* ids the web page learnt by leechingStarted
    handled,            \* requests whose answer was handled
    gui,                \* cancel() or get() in the GUI thread
    cancels,            \* calls of cancel so far
    unheard,            \* history: requests whose signal nobody received
    crossed             \* history: cancel and onMetadataDownloaded overlapped,
                        \* and no cancel has set things right since

wrapperVars == << dl, calls, torrentReply, connected, events, slot, activeTorrent,
                  activeTorrentIds, notify, interrupted, sleepDisabled, announced,
                  handled, gui, cancels, unheard, crossed >>
allVars == << sessionVars, wrapperVars >>

NoReq == "no request"
NoFile == "no file"
Empty == "empty file"
NoTorrent == -1
NotRunning == [tId |-> 0, req |-> NoReq]

DlPcs == {"none", "start", "wait", "import", "importing", "fallback", "magnet",
          "emit", "done"}
SlotPcs == {"idle", "connect", "stop", "wait", "run", "announce", "disable",
            "append"}
GuiPcs == {"idle", "connect", "stop", "wait", "remove", "restore", "enable", "delete"}

Listed(id) == activeTorrentIds[id] > 0
IsEmpty == \A id \in {NoTorrent} \cup Ids : ~Listed(id)

\* The torrent thread is in onMetadataDownloaded; the GUI thread in cancel, and
\* not past the power assertion.
SlotBusy == slot.pc \notin {"idle", "connect"}
GuiBusy == gui.pc \in {"stop", "wait", "remove", "restore", "enable"}

WrapperInit ==
    /\ SessionInit
    /\ dl = [r \in Requests |-> [pc |-> "none", file |-> NoFile, index |-> NoTorrent]]
    /\ calls = << >>
    /\ torrentReply = NoReq
    /\ connected = {}
    /\ events = << >>
    /\ slot = [pc |-> "idle", req |-> NoReq, tId |-> 0]
    /\ activeTorrent = NoTorrent
    /\ activeTorrentIds = [id \in {NoTorrent} \cup Ids |-> 0]
    /\ notify = NotRunning
    /\ interrupted = FALSE
    /\ sleepDisabled = FALSE
    /\ announced = {}
    /\ handled = {}
    /\ gui = [pc |-> "idle", index |-> NoTorrent, stopping |-> NoReq, req |-> NoReq]
    /\ cancels = 0
    /\ unheard = {}
    /\ crossed = FALSE

DlMoves(r, pc) == dl' = [dl EXCEPT ![r].pc = pc]

-----------------------------------------------------------------------------
(* TorrentDownloadThread *)

\* run(): a http url is asked of the Requester, a local file is read, and
\* without a valid url or a readable file only the magnet link is left.
DlStart(r) ==
    /\ dl[r].pc = "start"
    /\ \/ /\ Source[r] = "http"
          /\ DlMoves(r, "wait")
          /\ calls' = Append(calls, r)
       \/ /\ Source[r] = "local"
          /\ dl' = [dl EXCEPT ![r].pc = "import", ![r].file = Want[r]]
          /\ UNCHANGED calls
       \/ /\ Source[r] \in {"local", "none"}
          /\ DlMoves(r, "fallback")
          /\ UNCHANGED calls
    /\ UNCHANGED << sessionVars, torrentReply, connected, events, slot,
                    activeTorrent, activeTorrentIds, notify, interrupted,
                    sleepDisabled, announced, handled, gui, cancels, unheard,
                    crossed >>

\* loop.exec() ends with gotMetadata: an empty body stands for an error.
DlGotFile(r) ==
    /\ dl[r].pc = "wait"
    /\ dl[r].file # NoFile
    /\ DlMoves(r, IF dl[r].file = Empty THEN "fallback" ELSE "import")
    /\ UNCHANGED << sessionVars, calls, torrentReply, connected, events, slot,
                    activeTorrent, activeTorrentIds, notify, interrupted,
                    sleepDisabled, announced, handled, gui, cancels, unheard,
                    crossed >>

\* Faulty: the event loop has no timer.
DlNoTimer(r) == FALSE /\ UNCHANGED allVars

\* TORRENT_FILE_DOWNLOAD_TIMEOUT_MS passed; a file that arrives in the same
\* moment is ignored, because the timer is no longer active.
DlTimeout(r) ==
    /\ dl[r].pc = "wait"
    /\ DlMoves(r, "fallback")
    /\ UNCHANGED << sessionVars, calls, torrentReply, connected, events, slot,
                    activeTorrent, activeTorrentIds, notify, interrupted,
                    sleepDisabled, announced, handled, gui, cancels, unheard,
                    crossed >>

\* torrentAddImport of whatever file arrived, which may be another request's.
DlImport(r) ==
    /\ dl[r].pc = "import"
    /\ \/ AddTorrent(r, dl[r].file, TRUE)
       \/ AddTorrentFails(r, dl[r].file)
       \/ ParseFails(r, dl[r].file)
    /\ DlMoves(r, "importing")
    /\ UNCHANGED << calls, torrentReply, connected, events, slot, activeTorrent,
                    activeTorrentIds, notify, interrupted, sleepDisabled, announced,
                    handled, gui, cancels, unheard, crossed >>

\* Faulty: the magnet link is added even if the file was imported.
AfterImportAlways(result) == "fallback"

AfterImport(result) == IF result < 0 THEN "fallback" ELSE "emit"

DlImported(r) ==
    /\ dl[r].pc = "importing"
    /\ TakeResult(r)
    /\ dl' = [dl EXCEPT ![r].pc = AfterImport(add[r].result),
                        ![r].index = add[r].result]
    /\ UNCHANGED << calls, torrentReply, connected, events, slot, activeTorrent,
                    activeTorrentIds, notify, interrupted, sleepDisabled, announced,
                    handled, gui, cancels, unheard, crossed >>

DlAddMagnet(r) ==
    /\ dl[r].pc = "fallback"
    /\ r \in WithMagnet
    /\ \/ AddTorrent(r, Want[r], FALSE)
       \/ AddTorrentFails(r, Want[r])
       \/ ParseFails(r, Want[r])
    /\ DlMoves(r, "magnet")
    /\ UNCHANGED << calls, torrentReply, connected, events, slot, activeTorrent,
                    activeTorrentIds, notify, interrupted, sleepDisabled, announced,
                    handled, gui, cancels, unheard, crossed >>

\* The index stays negative: -30, -20 or the error of the import.
DlNoMagnet(r) ==
    /\ dl[r].pc = "fallback"
    /\ r \notin WithMagnet
    /\ DlMoves(r, "emit")
    /\ UNCHANGED << sessionVars, calls, torrentReply, connected, events, slot,
                    activeTorrent, activeTorrentIds, notify, interrupted,
                    sleepDisabled, announced, handled, gui, cancels, unheard,
                    crossed >>

DlMagnetAdded(r) ==
    /\ dl[r].pc = "magnet"
    /\ TakeResult(r)
    /\ dl' = [dl EXCEPT ![r].pc = "emit", ![r].index = add[r].result]
    /\ UNCHANGED << calls, torrentReply, connected, events, slot, activeTorrent,
                    activeTorrentIds, notify, interrupted, sleepDisabled, announced,
                    handled, gui, cancels, unheard, crossed >>

\* torrentDownloaded or getMetadataError.  The thread was started before get()
\* connected the signals (TorHelpers.cpp:97): an early one is lost.
DlEmit(r) ==
    /\ dl[r].pc = "emit"
    /\ DlMoves(r, "done")
    /\ events' = IF r \in connected
                 THEN Append(events, [kind |-> "metadata", req |-> r]) ELSE events
    /\ unheard' = IF r \in connected THEN unheard ELSE unheard \cup {r}
    /\ UNCHANGED << sessionVars, calls, torrentReply, connected, slot,
                    activeTorrent, activeTorrentIds, notify, interrupted,
                    sleepDisabled, announced, handled, gui, cancels, crossed >>

\* The steps of addTorrent in the download thread.
DlInAddTorrent(r) ==
    /\ InAddTorrent(r)
    /\ UNCHANGED wrapperVars

DlStep(r) ==
    \/ DlStart(r)
    \/ DlGotFile(r)
    \/ DlTimeout(r)
    \/ DlImport(r)
    \/ DlImported(r)
    \/ DlAddMagnet(r)
    \/ DlNoMagnet(r)
    \/ DlMagnetAdded(r)
    \/ DlEmit(r)
    \/ DlInAddTorrent(r)

-----------------------------------------------------------------------------
(* Requester *)

\* getTorrentFile: a reply that is still pending is disconnected and aborted.
GetTorrentFile ==
    /\ calls # << >>
    /\ torrentReply' = Head(calls)
    /\ calls' = Tail(calls)
    /\ UNCHANGED << sessionVars, dl, connected, events, slot, activeTorrent,
                    activeTorrentIds, notify, interrupted, sleepDisabled, announced,
                    handled, gui, cancels, unheard, crossed >>

\* onTorrentFileReqestFinished.  A file (status 200) or an error (an empty
\* body) reaches every download thread that waits; any other status reaches
\* none.  A redirection only replaces the pending reply.
OnTorrentFileReqestFinished(file) ==
    /\ torrentReply # NoReq
    /\ file \in {Want[torrentReply], Empty, NoFile}
    /\ torrentReply' = NoReq
    /\ dl' = IF file = NoFile THEN dl
             ELSE [r \in Requests |-> IF dl[r].pc = "wait"
                                      THEN [dl[r] EXCEPT !.file = file] ELSE dl[r]]
    /\ UNCHANGED << sessionVars, calls, connected, events, slot, activeTorrent,
                    activeTorrentIds, notify, interrupted, sleepDisabled, announced,
                    handled, gui, cancels, unheard, crossed >>

-----------------------------------------------------------------------------
(* Slots of the torrent thread *)

\* get() starts the download thread ...
Get ==
    /\ slot.pc = "idle"
    /\ events # << >> /\ Head(events).kind = "get"
    /\ LET r == Head(events).req IN
       /\ DlMoves(r, "start")
       /\ slot' = [slot EXCEPT !.pc = "connect", !.req = r]
    /\ events' = Tail(events)
    /\ UNCHANGED << sessionVars, calls, torrentReply, connected, activeTorrent,
                    activeTorrentIds, notify, interrupted, sleepDisabled, announced,
                    handled, gui, cancels, unheard, crossed >>

\* ... and then connects its signals.
ConnectThread ==
    /\ slot.pc = "connect"
    /\ connected' = connected \cup {slot.req}
    /\ slot' = [slot EXCEPT !.pc = "idle"]
    /\ UNCHANGED << sessionVars, dl, calls, torrentReply, events, activeTorrent,
                    activeTorrentIds, notify, interrupted, sleepDisabled, announced,
                    handled, gui, cancels, unheard, crossed >>

OnTorrentMetadataError ==
    /\ slot.pc = "idle"
    /\ events # << >> /\ Head(events).kind = "metadata"
    /\ dl[Head(events).req].index < 0
    /\ events' = Tail(events)
    /\ handled' = handled \cup {Head(events).req}
    /\ UNCHANGED << sessionVars, dl, calls, torrentReply, connected, slot,
                    activeTorrent, activeTorrentIds, notify, interrupted,
                    sleepDisabled, announced, gui, cancels, unheard, crossed >>

\* onMetadataDownloaded: first the active torrent,
OnMetadataDownloaded ==
    /\ slot.pc = "idle"
    /\ events # << >> /\ Head(events).kind = "metadata"
    /\ dl[Head(events).req].index >= 0
    /\ events' = Tail(events)
    /\ slot' = [slot EXCEPT !.pc = "stop", !.req = Head(events).req]
    /\ activeTorrent' = dl[Head(events).req].index
    /\ crossed' = (crossed \/ GuiBusy)
    /\ UNCHANGED << sessionVars, dl, calls, torrentReply, connected,
                    activeTorrentIds, notify, interrupted, sleepDisabled, announced,
                    handled, gui, cancels, unheard >>

\* then startOnTorrent(activeTorrent.index), which cancel may have reset in
\* between.  stopOnTorrent asks the notify thread to stop
SlotStop ==
    /\ slot.pc = "stop"
    /\ slot' = [slot EXCEPT !.pc = IF notify = NotRunning THEN "run" ELSE "wait",
                            !.tId = activeTorrent]
    /\ interrupted' = (interrupted \/ notify # NotRunning)
    /\ UNCHANGED << sessionVars, dl, calls, torrentReply, connected, events,
                    activeTorrent, activeTorrentIds, notify, sleepDisabled,
                    announced, handled, gui, cancels, unheard, crossed >>

\* and waits until it has,
SlotWaited ==
    /\ slot.pc = "wait"
    /\ notify = NotRunning
    /\ slot' = [slot EXCEPT !.pc = "run"]
    /\ UNCHANGED << sessionVars, dl, calls, torrentReply, connected, events,
                    activeTorrent, activeTorrentIds, notify, interrupted,
                    sleepDisabled, announced, handled, gui, cancels, unheard,
                    crossed >>

\* start() runs it again with a fresh interruption flag,
StartNotify ==
    /\ slot.pc = "run"
    /\ notify' = [tId |-> slot.tId, req |-> slot.req]
    /\ interrupted' = FALSE
    /\ slot' = [slot EXCEPT !.pc = "announce", !.tId = 0]
    /\ UNCHANGED << sessionVars, dl, calls, torrentReply, connected, events,
                    activeTorrent, activeTorrentIds, sleepDisabled, announced,
                    handled, gui, cancels, unheard, crossed >>

\* leechingStarted( tInfo.index ); and for the first torrent
Announce ==
    /\ slot.pc = "announce"
    /\ announced' = announced \cup {dl[slot.req].index}
    /\ slot' = [slot EXCEPT !.pc = IF IsEmpty THEN "disable" ELSE "append"]
    /\ UNCHANGED << sessionVars, dl, calls, torrentReply, connected, events,
                    activeTorrent, activeTorrentIds, notify, interrupted,
                    sleepDisabled, handled, gui, cancels, unheard, crossed >>

\* disableSleep(),
DisableSleep ==
    /\ slot.pc = "disable"
    /\ sleepDisabled' = TRUE
    /\ slot' = [slot EXCEPT !.pc = "append"]
    /\ UNCHANGED << sessionVars, dl, calls, torrentReply, connected, events,
                    activeTorrent, activeTorrentIds, notify, interrupted, announced,
                    handled, gui, cancels, unheard, crossed >>

\* and activeTorrent.index is listed, again read from the shared field.
AppendId ==
    /\ slot.pc = "append"
    /\ activeTorrentIds' = [activeTorrentIds EXCEPT ![activeTorrent] = @ + 1]
    /\ handled' = handled \cup {slot.req}
    /\ slot' = [slot EXCEPT !.pc = "idle"]
    /\ UNCHANGED << sessionVars, dl, calls, torrentReply, connected, events,
                    activeTorrent, notify, interrupted, sleepDisabled, announced,
                    gui, cancels, unheard, crossed >>

TorrentThreadStep ==
    \/ Get \/ ConnectThread \/ OnTorrentMetadataError \/ OnMetadataDownloaded
    \/ SlotStop \/ SlotWaited \/ StartNotify \/ Announce \/ DisableSleep
    \/ AppendId

-----------------------------------------------------------------------------
(* DownloadNotifyThread *)

\* run() sees the interruption within TORRENT_INFO_UPDATE_DELAY_MS.
NotifyExit ==
    /\ notify # NotRunning /\ interrupted
    /\ notify' = NotRunning
    /\ interrupted' = FALSE
    /\ UNCHANGED << sessionVars, dl, calls, torrentReply, connected, events, slot,
                    activeTorrent, activeTorrentIds, sleepDisabled, announced,
                    handled, gui, cancels, unheard, crossed >>

\* torrentGetInfo drops an entry whose torrent is gone.
NotifyPoll == notify # NotRunning /\ GetAux(notify.tId) /\ UNCHANGED wrapperVars

-----------------------------------------------------------------------------
(* The GUI thread *)

\* The page asks for a torrent: get() is posted.
GetTorrent(r) ==
    /\ gui.pc = "idle"
    /\ dl[r].pc = "none"
    /\ ~\E i \in 1 .. Len(events) : events[i].req = r
    /\ events' = Append(events, [kind |-> "get", req |-> r])
    /\ UNCHANGED << sessionVars, dl, calls, torrentReply, connected, slot,
                    activeTorrent, activeTorrentIds, notify, interrupted,
                    sleepDisabled, announced, handled, gui, cancels, unheard,
                    crossed >>

\* The overload that takes a url calls get() in the GUI thread: the download
\* thread is started ...
GetDirect(r) ==
    /\ gui.pc = "idle"
    /\ dl[r].pc = "none"
    /\ ~\E i \in 1 .. Len(events) : events[i].req = r
    /\ DlMoves(r, "start")
    /\ gui' = [gui EXCEPT !.pc = "connect", !.req = r]
    /\ UNCHANGED << sessionVars, calls, torrentReply, connected, events, slot,
                    activeTorrent, activeTorrentIds, notify, interrupted,
                    sleepDisabled, announced, handled, cancels, unheard, crossed >>

\* ... and its signals are connected.
GuiConnect ==
    /\ gui.pc = "connect"
    /\ connected' = connected \cup {gui.req}
    /\ gui' = [gui EXCEPT !.pc = "idle", !.req = NoReq]
    /\ UNCHANGED << sessionVars, dl, calls, torrentReply, events, slot,
                    activeTorrent, activeTorrentIds, notify, interrupted,
                    sleepDisabled, announced, handled, cancels, unheard, crossed >>

\* cancel( index ): a negative index means the active torrent.
Cancel(index) ==
    /\ gui.pc = "idle"
    /\ cancels < MaxCancels
    /\ cancels' = cancels + 1
    /\ gui' = [gui EXCEPT !.pc = "stop",
                          !.index = IF index < 0 THEN activeTorrent ELSE index]
    /\ activeTorrent' = NoTorrent
    /\ crossed' = (crossed \/ SlotBusy)
    /\ UNCHANGED << sessionVars, dl, calls, torrentReply, connected, events, slot,
                    activeTorrentIds, notify, interrupted, sleepDisabled, announced,
                    handled, unheard >>

\* Faulty: waits for the notify thread without interrupting it.
CancelStopSilently ==
    /\ gui.pc = "stop"
    /\ gui' = [gui EXCEPT !.pc = IF notify = NotRunning THEN "remove" ELSE "wait",
                          !.stopping = notify.req]
    /\ UNCHANGED << sessionVars, dl, calls, torrentReply, connected, events, slot,
                    activeTorrent, activeTorrentIds, notify, interrupted,
                    sleepDisabled, announced, handled, cancels, unheard, crossed >>

CancelStop ==
    /\ gui.pc = "stop"
    /\ gui' = [gui EXCEPT !.pc = IF notify = NotRunning THEN "remove" ELSE "wait",
                          !.stopping = notify.req]
    /\ interrupted' = (interrupted \/ notify # NotRunning)
    /\ UNCHANGED << sessionVars, dl, calls, torrentReply, connected, events, slot,
                    activeTorrent, activeTorrentIds, notify, sleepDisabled,
                    announced, handled, cancels, unheard, crossed >>

CancelWaited ==
    /\ gui.pc = "wait"
    /\ notify = NotRunning
    /\ gui' = [gui EXCEPT !.pc = "remove", !.stopping = NoReq]
    /\ UNCHANGED << sessionVars, dl, calls, torrentReply, connected, events, slot,
                    activeTorrent, activeTorrentIds, notify, interrupted,
                    sleepDisabled, announced, handled, cancels, unheard, crossed >>

\* contains and removeOne.
CancelRemove ==
    /\ gui.pc = "remove"
    /\ activeTorrentIds' =
          [activeTorrentIds EXCEPT ![gui.index] = IF Listed(gui.index) THEN @ - 1 ELSE @]
    /\ gui' = [gui EXCEPT !.pc = "restore"]
    /\ UNCHANGED << sessionVars, dl, calls, torrentReply, connected, events, slot,
                    activeTorrent, notify, interrupted, sleepDisabled, announced,
                    handled, cancels, unheard, crossed >>

\* Faulty: looks for the cancelled torrent, which has just been removed.
CancelledStillListed == Listed(gui.index)

NoTorrentLeft == IsEmpty

\* isEmpty ...
CancelTest ==
    /\ gui.pc = "restore"
    /\ gui' = [gui EXCEPT !.pc = IF NoTorrentLeft THEN "enable" ELSE "delete"]
    /\ UNCHANGED << sessionVars, dl, calls, torrentReply, connected, events, slot,
                    activeTorrent, activeTorrentIds, notify, interrupted,
                    sleepDisabled, announced, handled, cancels, unheard, crossed >>

\* ... and restoreSleep().  If no slot is under way and nothing has been listed
\* meanwhile, whatever an overlap did is undone.
RestoreSleep ==
    /\ gui.pc = "enable"
    /\ sleepDisabled' = FALSE
    /\ gui' = [gui EXCEPT !.pc = "delete"]
    /\ crossed' = (crossed /\ (SlotBusy \/ ~IsEmpty))
    /\ UNCHANGED << sessionVars, dl, calls, torrentReply, connected, events, slot,
                    activeTorrent, activeTorrentIds, notify, interrupted, announced,
                    handled, cancels, unheard >>

\* torrentStopDelete, which an unknown id does not disturb.
CancelDelete ==
    /\ gui.pc = "delete"
    /\ DeleteTorrent(gui.index) \/ (gui.index \notin DOMAIN tMap /\ UNCHANGED sessionVars)
    /\ gui' = [gui EXCEPT !.pc = "idle", !.index = NoTorrent]
    /\ UNCHANGED << dl, calls, torrentReply, connected, events, slot, activeTorrent,
                    activeTorrentIds, notify, interrupted, sleepDisabled, announced,
                    handled, cancels, unheard, crossed >>

CancelStep ==
    \/ CancelStop \/ CancelWaited \/ CancelRemove \/ CancelTest \/ RestoreSleep
    \/ CancelDelete

-----------------------------------------------------------------------------
WrapperNext ==
    \/ \E r \in Requests : GetTorrent(r) \/ GetDirect(r) \/ DlStep(r)
    \/ GetTorrentFile
    \/ \E file \in Hashes \cup {Empty, NoFile} : OnTorrentFileReqestFinished(file)
    \/ TorrentThreadStep
    \/ NotifyExit \/ NotifyPoll
    \/ \E index \in announced \cup {NoTorrent} : Cancel(index)
    \/ GuiConnect \/ CancelStep
    \/ \E x \in Hashes : ReceiveMetadata(x) /\ UNCHANGED wrapperVars

WrapperSpec == WrapperInit /\ [][WrapperNext]_allVars

\* Every thread runs.  The network owes nothing: neither a reply of the
\* Requester nor metadata is assumed to arrive.
WrapperFairSpec ==
    /\ WrapperSpec
    /\ \A r \in Requests : WF_allVars(DlStep(r))
    /\ WF_allVars(TorrentThreadStep)
    /\ WF_allVars(NotifyExit)
    /\ WF_allVars(GuiConnect \/ CancelStep)

-----------------------------------------------------------------------------
(* Properties *)

\* Types; what the wrapper takes for a torrent number is one, or -1.
WrapperTypeOK ==
    /\ SessionTypeOK
    /\ \A r \in Requests : /\ dl[r].pc \in DlPcs
                          /\ dl[r].file \in Hashes \cup {NoFile, Empty}
                          /\ dl[r].index \in -12 .. INT_MAX - 1
    /\ calls \in Seq(Requests)
    /\ torrentReply \in Requests \cup {NoReq}
    /\ connected \subseteq Requests /\ handled \subseteq Requests
    /\ events \in Seq([kind : {"get", "metadata"}, req : Requests])
    /\ slot.pc \in SlotPcs /\ slot.req \in Requests \cup {NoReq}
    /\ slot.tId \in {0, NoTorrent} \cup Ids
    /\ activeTorrent \in {NoTorrent} \cup Ids
    /\ activeTorrentIds \in [{NoTorrent} \cup Ids -> Nat]
    /\ notify.tId \in {0, NoTorrent} \cup Ids
    /\ notify.req \in Requests \cup {NoReq}
    /\ interrupted \in BOOLEAN /\ sleepDisabled \in BOOLEAN
    /\ announced \subseteq Ids
    /\ gui.pc \in GuiPcs /\ gui.index \in {NoTorrent} \cup Ids
    /\ cancels \in 0 .. MaxCancels
    /\ unheard \subseteq Requests /\ crossed \in BOOLEAN

\* r's thread runs, or its answer is in the queue or being handled.
UnderWay(r) ==
    \/ dl[r].pc \notin {"none", "done"}
    \/ \E i \in 1 .. Len(events) : events[i].req = r
    \/ SlotBusy /\ slot.req = r

\* r's thread has the torrent h: its call of addTorrent holds the handle, or the
\* number that call returned leads to it.
Has(r, h) ==
    \/ add[r].pc \in AddPcs /\ add[r].handle = h
    \/ \E id \in DOMAIN tMap :
          /\ tMap[id] = h
          /\ dl[r].index = id \/ (add[r].pc = "returned" /\ add[r].result = id)

\* A torrent that downloads can be stopped: for every torrent of the session the
\* page knows a number that leads to it, or a request under way has it, or it
\* is left over by a request that ended before get() had connected its signals
\* (TorrentWrapper.cpp:74-78).  Except, as in NoLostTorrent, torrents without
\* a file to play, which stay in the session, and numbers that come round.
EveryTorrentKnown ==
    \A x \in Hashes \ Fileless :
        (session[x] # None /\ adds < INT_MAX) =>
            \/ \E id \in announced \cap DOMAIN tMap : tMap[id] = session[x]
            \/ \E r \in Requests : /\ UnderWay(r) \/ r \in unheard
                                   /\ Has(r, session[x])

\* The computer is kept awake only while a torrent the page knows is listed,
\* whatever the order in which cancel and onMetadataDownloaded run their
\* statements (TorrentWrapper.cpp:97-98 against 122-123): the one other thing
\* that may keep it awake is the -1 that is listed if cancel resets
\* activeTorrent in the middle of the slot (:86 against :123).  And it is kept
\* awake while one is listed, unless the two overlapped.
AwakeOnlyForTorrents ==
    /\ sleepDisabled => \/ \E id \in announced : Listed(id)
                        \/ crossed /\ Listed(NoTorrent)
                        \/ slot.pc = "append" \/ gui.pc \in {"restore", "enable"}
    /\ (\E id \in announced : Listed(id)) => sleepDisabled \/ crossed

\* Every get whose signals were connected in time is answered: it ends in
\* onMetadataDownloaded or onTorrentMetadataError, although the Requester may
\* drop its reply for a newer one and the torrent may vanish meanwhile.
GetAnswered ==
    \A r \in Requests :
        (r \in connected /\ dl[r].pc # "done") ~> r \in handled

\* cancel() gets past stopOnTorrent() unless the torrent thread starts the
\* notify thread again, for another request, while the GUI thread waits.
CancelWaitEnds ==
    gui.pc = "wait" ~>
        (gui.pc # "wait" \/ notify.req \notin {NoReq, gui.stopping})
=============================================================================
