----------------------------- MODULE ChromeCast -----------------------------
(***************************************************************************)
(* Casting of the desktop application: gui/ChromeCast.cpp with its two     *)
(* node processes (gui/NjsProcess.cpp), and castSwitch of VideoControl.    *)
(*                                                                         *)
(* Everything runs in the GUI thread, but stop() waits in an event loop of *)
(* its own for the answer of the device, up to 500 ms: any slot may run in *)
(* there, stop() again included, and what was to follow the first stop()   *)
(* happens after it.  A server that is killed is still there for a while,  *)
(* and its last output is still read.                                      *)
(***************************************************************************)
EXTENDS Integers, Sequences

CONSTANTS
    Devices,        \* they differ by type, name or address
    NameOf,         \* CastDevice::name, which several devices may share
    NoDevice,       \* CastDevice(), with an empty name
    MaxActions      \* bound on what the user does

\* A device has a name (isValid), and none is called "Popcorn Time".
ASSUME DevicesAssumption ==
    /\ NoDevice \notin Devices
    /\ {"local", "none", "close", "hide"} \cap (Devices \cup {NoDevice}) = {}
    /\ DOMAIN NameOf = Devices
    /\ \A d \in Devices : NameOf[d] \notin {"local", NoDevice}

ASSUME ActionsAssumption == MaxActions \in Nat

VARIABLES
    server,         \* castProc: "off", or how far the server has got
    killed,         \* ... and kill() was called
    loaded,         \* device of the server's load command, or NoDevice
    discovery,      \* discoveryProc runs
    startPending,   \* the timer that starts it again is active
    devs,           \* in the order of discovery, as the list shows them
    currentDevice,
    isCasting,
    state,          \* m_state
    movie,          \* btnMovie runs: the button says "searching"
    popup,          \* the list of devices is shown
    shown,          \* the player is shown, and with it the button
    player,         \* VideoControl::currentPlayer
    loops,          \* what follows the stop() of every nested event loop
    actions,
    wanted,         \* history: what the user chose last
    overlap,        \* ... and that it was chosen inside a stop()
    cut             \* history: a restart has ended a cast

castVars == << currentDevice, isCasting, state, movie, player >>
discoveryVars == << discovery, startPending, devs >>
history == << wanted, overlap, cut >>
vars == << server, killed, loaded, discoveryVars, castVars, popup, shown, loops,
           actions, history >>

Init ==
    /\ server = "off" /\ killed = FALSE /\ loaded = NoDevice
    /\ discovery = TRUE /\ startPending = FALSE /\ devs = << >>
    /\ currentDevice = NoDevice /\ isCasting = FALSE /\ state = "Idle"
    /\ movie = FALSE /\ popup = FALSE /\ shown = FALSE /\ player = "local"
    /\ loops = << >> /\ actions = 0
    /\ wanted = NoDevice /\ overlap = FALSE /\ cut = FALSE

-----------------------------------------------------------------------------
(* States of the cast *)

\* handleCastingSwitch, and castSwitch of VideoControl.
HandleCastingSwitch(on) ==
    IF on = isCasting THEN UNCHANGED castVars
    ELSE /\ isCasting' = on
         /\ state' = IF ~on THEN "Idle" ELSE IF state = "Idle" THEN "Opening" ELSE state
         /\ movie' = FALSE
         /\ currentDevice' = IF on THEN currentDevice ELSE NoDevice
         /\ player' = IF on THEN "cast" ELSE "local"

\* parseMStat: BUFFERING is no state of its own before the film has started.
StateAfter(status) ==
    IF status = "Buffering" /\ state = "Opening" THEN state ELSE status

\* issueCommand sends nothing in other states.
Commands == {"Paused", "Playing"}

-----------------------------------------------------------------------------
(* What the server and the discovery report *)

\* LISTEN_URL: the film is loaded for the device of the moment.
Listening ==
    /\ server = "starting"
    /\ server' = "listening"
    /\ loaded' = currentDevice
    /\ UNCHANGED << killed, discoveryVars, castVars, popup, shown, loops, actions, history >>

\* DSTAT, once a device was loaded; an error of a command reads STOPPED too.
\* The branch for ERR never runs: the scripts print it to stderr, which
\* NjsProcess does not read.
DeviceState(connected) ==
    /\ server \in {"listening", "connected"} /\ loaded # NoDevice
    /\ server' = IF connected THEN "connected" ELSE server
    /\ HandleCastingSwitch(connected)
    /\ UNCHANGED << killed, loaded, discoveryVars, popup, shown, loops, actions, history >>

\* MSTAT of a film that was started.
MediaState(status) ==
    /\ server = "connected"
    /\ state' = StateAfter(status)
    /\ UNCHANGED << server, killed, loaded, discoveryVars, currentDevice, isCasting, movie,
                    popup, shown, player, loops, actions, history >>

\* Faulty: nobody is told.
ServerStoppedSilently ==
    /\ server # "off"
    /\ server' = "off" /\ killed' = FALSE /\ loaded' = NoDevice
    /\ UNCHANGED << castVars, discoveryVars, popup, shown, loops, actions, history >>

\* serverStopped: it was killed, or it crashed.
ServerStopped ==
    /\ server # "off"
    /\ server' = "off" /\ killed' = FALSE /\ loaded' = NoDevice
    /\ HandleCastingSwitch(FALSE)
    /\ UNCHANGED << discoveryVars, popup, shown, loops, actions, history >>

Listed == {devs[i] : i \in 1 .. Len(devs)}

\* parseDiscovery -> addDevice; devs.contains compares type, name and address.
DeviceFound(device) ==
    /\ discovery
    /\ device \notin Listed
    /\ devs' = Append(devs, device)
    /\ UNCHANGED << server, killed, loaded, discovery, startPending, castVars, popup, shown,
                    loops, actions, history >>

\* Faulty: only a discovery that crashed is started again.
RestartAfterCrash(crashed) == discovery' = ~crashed /\ startPending' = FALSE

\* startDiscovery: at once or by a timer.  The argument says "crashed" and is
\* TRUE after a normal exit; a kill by discoveryRestartTimer is a crash.
StartDiscovery(crashed) == discovery' = ~crashed /\ startPending' = crashed

DiscoveryStopped ==
    /\ discovery
    /\ \E normalExit \in BOOLEAN : StartDiscovery(normalExit)
    /\ UNCHANGED << server, killed, loaded, devs, castVars, popup, shown, loops, actions,
                    history >>

\* A process that does not start at all (no node program) is left out: it would
\* emit no finished() either.
DiscoveryStarts ==
    /\ startPending
    /\ discovery' = TRUE /\ startPending' = FALSE
    /\ UNCHANGED << server, killed, loaded, devs, castVars, popup, shown, loops, actions,
                    history >>

-----------------------------------------------------------------------------
(* stop(), and what follows it in its callers *)

\* Faulty: the command to the device is all.
KillForgotten == UNCHANGED killed

\* castProc->kill()
Kill == killed' = (server # "off")

\* The list's items are the names of the devices, and "Popcorn Time" ("local").
TextOf(item) == IF item \in Devices THEN NameOf[item] ELSE item

\* Faulty: the loop does not return at the first match.
ChosenAtLast(i, item) ==
    /\ NameOf[devs[i]] = TextOf(item)
    /\ \A j \in i + 1 .. Len(devs) : NameOf[devs[j]] # TextOf(item)

\* The loop over devs returns at the first device with the item's text.
ChosenAt(i, item) ==
    /\ NameOf[devs[i]] = TextOf(item)
    /\ \A j \in 1 .. i - 1 : NameOf[devs[j]] # TextOf(item)

\* castProc->restart() for a device.  waitForFinished runs serverStopped if the
\* old server ends in time: a cast that it had, or reports with its last output,
\* ends then, and takes the new device with it.  If it does not, start() is
\* refused.
Restart(device) ==
    \/ /\ server = "off" \/ ~isCasting
       /\ server' = "starting" /\ killed' = FALSE /\ loaded' = NoDevice
       /\ currentDevice' = device /\ movie' = TRUE /\ cut' = FALSE
       /\ UNCHANGED << isCasting, state, player >>
    \/ /\ server # "off"
       /\ isCasting \/ (server # "starting" /\ loaded # NoDevice)
       /\ server' = "starting" /\ killed' = FALSE /\ loaded' = NoDevice
       /\ isCasting' = FALSE /\ state' = "Idle" /\ player' = "local"
       /\ currentDevice' = NoDevice /\ movie' = FALSE /\ cut' = TRUE
    \/ /\ server # "off"
       /\ killed' = TRUE
       /\ currentDevice' = device /\ movie' = TRUE /\ cut' = FALSE
       /\ UNCHANGED << server, loaded, isCasting, state, player >>

\* stop() waits for the answer of the device.
Waits == isCasting /\ state \in Commands

\* Faulty: "Popcorn Time" is taken for a device.
AfterStopAlwaysRestart(next, outer) ==
    /\ loops' = outer /\ UNCHANGED shown
    /\ \/ next \in Devices \cup {"local"} /\ Restart(next)
       \/ /\ next \notin Devices \cup {"local"}
          /\ Kill /\ UNCHANGED << server, loaded, castVars, cut >>

\* The rest of onListItemClicked, of stoppingPlayback, where playbackStopped
\* stops again if the player is still shown ("close", "hide"), or nothing.
AfterStop(next, outer) ==
    \/ /\ next \in Devices
       /\ \E i \in 1 .. Len(devs) : ChosenAt(i, next) /\ Restart(devs[i])
       /\ loops' = outer /\ UNCHANGED shown
    \/ /\ next \in {"none", "local"}
       /\ Kill
       /\ currentDevice' = IF next = "local" THEN NoDevice ELSE currentDevice
       /\ loops' = outer
       /\ UNCHANGED << server, loaded, isCasting, state, movie, player, shown, cut >>
    \/ /\ next = "close"
       /\ Kill
       /\ player' = IF shown THEN "local" ELSE player
       /\ IF shown /\ Waits
          THEN loops' = Append(outer, "hide") /\ UNCHANGED shown
          ELSE loops' = outer /\ shown' = FALSE
       /\ UNCHANGED << server, loaded, isCasting, state, movie, currentDevice, cut >>
    \/ /\ next = "hide"
       /\ Kill
       /\ loops' = outer /\ shown' = FALSE
       /\ UNCHANGED << server, loaded, castVars, cut >>

Stop(next) ==
    IF Waits
    THEN /\ loops' = Append(loops, next)
         /\ UNCHANGED << server, killed, loaded, castVars, shown, cut >>
    ELSE AfterStop(next, loops)

\* The innermost loop quits, by the reply or the timer.
LoopQuits ==
    /\ loops # << >>
    /\ AfterStop(loops[Len(loops)], SubSeq(loops, 1, Len(loops) - 1))
    /\ UNCHANGED << discoveryVars, popup, actions, wanted, overlap >>

-----------------------------------------------------------------------------
(* The user *)

\* One more action of the user, who wants a device or none from now on.
Wants(device) ==
    /\ actions < MaxActions /\ actions' = actions + 1
    /\ wanted' = device
    /\ overlap' = (loops # << >>)

PlaybackStarted ==
    /\ ~shown /\ shown' = TRUE
    /\ UNCHANGED << server, killed, loaded, discoveryVars, castVars, popup, loops, actions,
                    history >>

\* buttonClicked, while nothing is cast.
PopupShown ==
    /\ shown /\ ~isCasting /\ ~popup
    /\ popup' = TRUE
    /\ UNCHANGED << server, killed, loaded, discoveryVars, castVars, shown, loops, actions,
                    history >>

PopupLeft ==
    /\ popup /\ popup' = FALSE
    /\ UNCHANGED << server, killed, loaded, discoveryVars, castVars, shown, loops, actions,
                    history >>

\* buttonClicked while casting, and the stop button of the cast.
StopClicked ==
    /\ shown
    /\ isCasting \/ player = "cast"
    /\ Wants(NoDevice)
    /\ Stop("none")
    /\ UNCHANGED << discoveryVars, popup >>

\* stoppingPlayback
PlayerClosed ==
    /\ shown
    /\ Wants(NoDevice)
    /\ Stop("close")
    /\ UNCHANGED << discoveryVars, popup >>

\* onListItemClicked; an item with the current device's name changes nothing.
ItemClicked(item) ==
    /\ popup /\ popup' = FALSE
    /\ item \in Listed \cup {"local"}
    /\ Wants(IF item = "local" THEN NoDevice ELSE item)
    /\ IF TextOf(item) = TextOf(currentDevice)
       THEN UNCHANGED << server, killed, loaded, castVars, loops, shown, cut >>
       ELSE Stop(item)
    /\ UNCHANGED discoveryVars

Next ==
    \/ Listening
    \/ \E connected \in BOOLEAN : DeviceState(connected)
    \/ \E status \in {"Buffering", "Playing", "Paused"} : MediaState(status)
    \/ ServerStopped
    \/ \E device \in Devices : DeviceFound(device)
    \/ DiscoveryStopped
    \/ DiscoveryStarts
    \/ LoopQuits
    \/ PlaybackStarted
    \/ PopupShown
    \/ PopupLeft
    \/ StopClicked
    \/ PlayerClosed
    \/ \E item \in Devices \cup {"local"} : ItemClicked(item)

Spec == Init /\ [][Next]_vars

\* A process that was killed ends, and timers fire.
FairSpec ==
    /\ Spec
    /\ WF_vars(killed /\ ServerStopped)
    /\ WF_vars(LoopQuits)
    /\ WF_vars(DiscoveryStarts)

-----------------------------------------------------------------------------
(* Properties *)

\* Types; only a process that is there was killed.
TypeOK ==
    /\ server \in {"off", "starting", "listening", "connected"}
    /\ killed \in BOOLEAN /\ (killed => server # "off")
    /\ loaded \in Devices \cup {NoDevice}
    /\ discovery \in BOOLEAN /\ startPending \in BOOLEAN
    /\ devs \in Seq(Devices)
    /\ currentDevice \in Devices \cup {NoDevice}
    /\ isCasting \in BOOLEAN
    /\ state \in {"Idle", "Opening", "Buffering", "Playing", "Paused"}
    /\ movie \in BOOLEAN /\ popup \in BOOLEAN /\ shown \in BOOLEAN
    /\ player \in {"local", "cast"}
    /\ loops \in Seq(Devices \cup {"local", "none", "close", "hide"})
    /\ wanted \in Devices \cup {NoDevice}
    /\ overlap \in BOOLEAN /\ cut \in BOOLEAN

\* A cast is never left over: while the application says it is casting, its
\* server is there, has a device and a state, and the controls belong to the
\* cast, unless the server is on its way out; when it says it is not, they
\* belong to the local player.
CastHasServer ==
    /\ isCasting => /\ server = "connected" /\ loaded # NoDevice
                    /\ state # "Idle"
                    /\ (player = "local" \/ movie) => killed
    /\ ~isCasting => player = "local"

\* Another device with the same name was discovered before this one.
TakenFor(other, device) ==
    \E i, j \in 1 .. Len(devs) :
        /\ i < j /\ devs[i] = other /\ devs[j] = device
        /\ NameOf[other] = NameOf[device]

\* A server that was not told to stop plays on the device the user chose last,
\* however choices, stops and the output of the servers before it follow each
\* other.  It may have none, if the restart ended a cast (the new device is
\* forgotten then), the other device of that name that stands before it in the
\* list, for choices go by name, and any, if the user chose inside a stop().
ChosenIsCast ==
    (/\ server \in {"listening", "connected"} /\ ~killed
     /\ loops = << >> /\ ~overlap) =>
        \/ loaded = wanted
        \/ loaded = NoDevice /\ cut
        \/ TakenFor(loaded, wanted)

\* A user who stops casting, or closes the player, gets rid of the server,
\* whether the device answers or not.  A stop inside another stop() is excepted:
\* if that one belongs to a choice, its server is started afterwards.
StopWins ==
    (wanted = NoDevice /\ ~overlap) ~> (server = "off" \/ wanted # NoDevice \/ overlap)

\* Discovery never stays away, whether its process ends, crashes or is killed.
DiscoveryReturns == []<>discovery
=============================================================================
