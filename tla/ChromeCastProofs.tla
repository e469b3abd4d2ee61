-------------------------- MODULE ChromeCastProofs --------------------------
(***************************************************************************)
(* The controls follow the server, and what the user chose last is what is *)
(* cast, for any devices and any number of choices, stops, nested event    *)
(* loops and crashes.                                                      *)
(*                                                                         *)
(* TypeOK and CastHasServer are inductive one after the other.             *)
(* ChosenIsCast is not: what a server will load is decided when it is      *)
(* started, and what follows a stop() when that stop() was called.  And a  *)
(* choice goes by name: the current device is the first of its name.       *)
(***************************************************************************)
EXTENDS ChromeCast, TLAPS

-----------------------------------------------------------------------------
(* Types *)

\* What a user leaves to be done after a stop().
After == Devices \cup {"local", "none", "close", "hide"}

\* Types of the variables that handleCastingSwitch changes.
CastTypes ==
    /\ currentDevice \in Devices \cup {NoDevice}
    /\ isCasting \in BOOLEAN
    /\ state \in {"Idle", "Opening", "Buffering", "Playing", "Paused"}
    /\ movie \in BOOLEAN
    /\ player \in {"local", "cast"}

\* Types of the variables that stop() and what follows it change.
StopTypes ==
    /\ server \in {"off", "starting", "listening", "connected"}
    /\ killed \in BOOLEAN /\ (killed => server # "off")
    /\ loaded \in Devices \cup {NoDevice}
    /\ CastTypes
    /\ shown \in BOOLEAN
    /\ loops \in Seq(After)
    /\ cut \in BOOLEAN

\* handleCastingSwitch keeps its types.
LEMMA SwitchTypes ==
    ASSUME CastTypes, NEW on \in BOOLEAN, HandleCastingSwitch(on)
    PROVE  CastTypes'
BY DEF CastTypes, HandleCastingSwitch, castVars

\* So does a restart of the server.
LEMMA RestartTypes ==
    ASSUME StopTypes, NEW device \in Devices, Restart(device),
           NEW outer \in Seq(After), loops' = outer, UNCHANGED shown
    PROVE  StopTypes'
BY DEF StopTypes, CastTypes, Restart

\* So does whatever follows a stop().
LEMMA AfterStopTypes ==
    ASSUME StopTypes, devs \in Seq(Devices), NEW next \in After, NEW outer \in Seq(After), AfterStop(next, outer)
    PROVE  StopTypes'
<1>1. ASSUME NEW i \in 1 .. Len(devs), Restart(devs[i]), loops' = outer, UNCHANGED shown
      PROVE  StopTypes'
  <2>1. devs[i] \in Devices
    OBVIOUS
  <2> QED
    BY <1>1, <2>1, RestartTypes
<1>2. CASE /\ next \in {"none", "local"} /\ Kill
           /\ currentDevice' = IF next = "local" THEN NoDevice ELSE currentDevice
           /\ loops' = outer
           /\ UNCHANGED << server, loaded, isCasting, state, movie, player, shown, cut >>
  BY <1>2 DEF StopTypes, CastTypes, Kill
<1>3. CASE /\ Kill /\ player' = IF shown THEN "local" ELSE player
           /\ IF shown /\ Waits
              THEN loops' = Append(outer, "hide") /\ UNCHANGED shown
              ELSE loops' = outer /\ shown' = FALSE
           /\ UNCHANGED << server, loaded, isCasting, state, movie, currentDevice, cut >>
  <2>1. loops' \in Seq(After)
    BY <1>3 DEF After
  <2> QED
    BY <1>3, <2>1 DEF StopTypes, CastTypes, Kill
<1>4. CASE /\ Kill /\ loops' = outer /\ shown' = FALSE
           /\ UNCHANGED << server, loaded, castVars, cut >>
  BY <1>4 DEF StopTypes, CastTypes, Kill, castVars
<1> QED
  BY <1>1, <1>2, <1>3, <1>4 DEF AfterStop

\* So does stop().
LEMMA StopKeepsTypes ==
    ASSUME StopTypes, devs \in Seq(Devices), NEW next \in After, Stop(next)
    PROVE  StopTypes'
<1>1. CASE Waits
  BY <1>1 DEF Stop, StopTypes, CastTypes, castVars, After
<1>2. CASE ~Waits
  BY <1>2, AfterStopTypes DEF Stop, StopTypes
<1> QED
  BY <1>1, <1>2

\* A step keeps the types.
LEMMA TypeStep ==
    ASSUME TypeOK, [Next]_vars
    PROVE  TypeOK'
<1> USE DEF discoveryVars, history
<1>0. StopTypes /\ CastTypes /\ devs \in Seq(Devices)
  BY DEF TypeOK, StopTypes, CastTypes, After
<1>1. CASE Listening
  BY <1>1 DEF Listening, TypeOK, castVars
<1>2. ASSUME NEW connected \in BOOLEAN, DeviceState(connected) PROVE TypeOK'
  <2>1. CastTypes'
    BY <1>0, <1>2, SwitchTypes DEF DeviceState
  <2> QED
    BY <1>2, <2>1 DEF DeviceState, TypeOK, CastTypes
<1>3. ASSUME NEW status \in {"Buffering", "Playing", "Paused"}, MediaState(status) PROVE TypeOK'
  BY <1>3 DEF MediaState, StateAfter, TypeOK
<1>4. CASE ServerStopped
  <2>1. CastTypes'
    BY <1>0, <1>4, SwitchTypes DEF ServerStopped
  <2> QED
    BY <1>4, <2>1 DEF ServerStopped, TypeOK, CastTypes
<1>5. ASSUME NEW device \in Devices, DeviceFound(device) PROVE TypeOK'
  BY <1>5 DEF DeviceFound, TypeOK, castVars
<1>6. CASE DiscoveryStopped
  BY <1>6 DEF DiscoveryStopped, StartDiscovery, TypeOK, castVars
<1>7. CASE DiscoveryStarts
  <2>1. discovery' \in BOOLEAN /\ startPending' \in BOOLEAN
    BY <1>7 DEF DiscoveryStarts
  <2>2. UNCHANGED << server, killed, loaded, devs, castVars, popup, shown, loops, history >>
    BY <1>7 DEF DiscoveryStarts
  <2> QED
    BY <2>1, <2>2 DEF TypeOK, castVars
<1>8. CASE LoopQuits
  <2>1. loops \in Seq(After) /\ loops # << >>
    BY <1>0, <1>8 DEF LoopQuits, StopTypes
  <2>2. loops[Len(loops)] \in After /\ SubSeq(loops, 1, Len(loops) - 1) \in Seq(After)
    BY <2>1
  <2>3. StopTypes'
    BY <1>0, <1>8, <2>2, AfterStopTypes DEF LoopQuits
  <2> QED
    BY <1>8, <2>3 DEF LoopQuits, TypeOK, StopTypes, CastTypes, After
<1>9. CASE PlaybackStarted \/ PopupShown \/ PopupLeft
  <2>1. shown' \in BOOLEAN /\ popup' \in BOOLEAN
    BY <1>9 DEF PlaybackStarted, PopupShown, PopupLeft, TypeOK
  <2>2. UNCHANGED << server, killed, loaded, discoveryVars, castVars, loops, history >>
    BY <1>9 DEF PlaybackStarted, PopupShown, PopupLeft
  <2> QED
    BY <2>1, <2>2 DEF TypeOK, castVars
<1>10. CASE StopClicked
  <2>1. StopTypes'
    BY <1>0, <1>10, StopKeepsTypes DEF StopClicked, After
  <2> QED
    BY <1>10, <2>1 DEF StopClicked, Wants, TypeOK, StopTypes, CastTypes, After
<1>11. CASE PlayerClosed
  <2>1. StopTypes'
    BY <1>0, <1>11, StopKeepsTypes DEF PlayerClosed, After
  <2> QED
    BY <1>11, <2>1 DEF PlayerClosed, Wants, TypeOK, StopTypes, CastTypes, After
<1>12. ASSUME NEW item \in Devices \cup {"local"}, ItemClicked(item) PROVE TypeOK'
  <2>1. StopTypes'
    <3>1. CASE TextOf(item) = TextOf(currentDevice)
      BY <1>0, <1>12, <3>1 DEF ItemClicked, StopTypes, CastTypes, castVars
    <3>2. CASE TextOf(item) # TextOf(currentDevice)
      BY <1>0, <1>12, <3>2, StopKeepsTypes DEF ItemClicked, After
    <3> QED
      BY <3>1, <3>2
  <2>2. wanted' \in Devices \cup {NoDevice}
    BY <1>12 DEF ItemClicked, Wants
  <2> QED
    BY <1>12, <2>1, <2>2 DEF ItemClicked, Wants, TypeOK, StopTypes, CastTypes, After
<1>13. CASE UNCHANGED vars
  BY <1>13 DEF vars, castVars, TypeOK
<1> QED
  BY <1>1, <1>2, <1>3, <1>4, <1>5, <1>6, <1>7, <1>8, <1>9, <1>10, <1>11, <1>12, <1>13 DEF Next

\* The types of the cast hold in every reachable state, and only a process that
\* is there was killed.
THEOREM CastTypesHold == Spec => []TypeOK
<1>1. Init => TypeOK
  <2>1. /\ << >> \in Seq(Devices \cup {"local", "none", "close", "hide"})
        /\ << >> \in Seq(Devices)
    OBVIOUS
  <2> QED
    BY <2>1 DEF Init, TypeOK
<1> QED
  BY <1>1, TypeStep, PTL DEF Spec

-----------------------------------------------------------------------------
(* The controls follow the server *)

\* What follows a stop() keeps the controls and the server together.
LEMMA AfterStopServer ==
    ASSUME StopTypes, CastHasServer, NEW next \in After, NEW outer, AfterStop(next, outer)
    PROVE  CastHasServer'
<1>1. ASSUME NEW device, Restart(device) PROVE CastHasServer'
  BY <1>1 DEF Restart, CastHasServer, StopTypes, CastTypes
<1>2. CASE /\ next \in {"none", "local"} /\ Kill
           /\ UNCHANGED << server, loaded, isCasting, state, movie, player >>
  BY <1>2 DEF Kill, CastHasServer
<1>3. CASE /\ Kill /\ player' \in {"local", player}
           /\ UNCHANGED << server, loaded, isCasting, state, movie >>
  BY <1>3 DEF Kill, CastHasServer
<1> QED
  BY <1>1, <1>2, <1>3 DEF AfterStop, castVars

\* So does stop().
LEMMA StopServer ==
    ASSUME StopTypes, CastHasServer, NEW next \in After, Stop(next)
    PROVE  CastHasServer'
<1>1. CASE Waits
  BY <1>1 DEF Stop, CastHasServer, castVars
<1>2. CASE ~Waits
  BY <1>2, AfterStopServer DEF Stop
<1> QED
  BY <1>1, <1>2

\* A step keeps the controls and the server together.
LEMMA ServerStep ==
    ASSUME TypeOK, CastHasServer, [Next]_vars
    PROVE  CastHasServer'
<1>0. StopTypes /\ CastTypes
  BY DEF TypeOK, StopTypes, CastTypes, After
<1>1. CASE Listening
  BY <1>1 DEF Listening, CastHasServer, castVars
<1>2. ASSUME NEW connected \in BOOLEAN, DeviceState(connected) PROVE CastHasServer'
  BY <1>0, <1>2 DEF DeviceState, HandleCastingSwitch, CastHasServer, CastTypes, castVars
<1>3. ASSUME NEW status \in {"Buffering", "Playing", "Paused"}, MediaState(status)
      PROVE  CastHasServer'
  BY <1>0, <1>3 DEF MediaState, StateAfter, CastHasServer, CastTypes
<1>4. CASE ServerStopped
  BY <1>0, <1>4 DEF ServerStopped, HandleCastingSwitch, CastHasServer, CastTypes, castVars
<1>5. ASSUME NEW device \in Devices, DeviceFound(device) PROVE CastHasServer'
  BY <1>5 DEF DeviceFound, CastHasServer, castVars
<1>6. CASE DiscoveryStopped \/ DiscoveryStarts
  BY <1>6 DEF DiscoveryStopped, DiscoveryStarts, CastHasServer, castVars
<1>7. CASE LoopQuits
  <2>1. loops[Len(loops)] \in After
    BY <1>0, <1>7 DEF LoopQuits, StopTypes
  <2> QED
    BY <1>0, <1>7, <2>1, AfterStopServer DEF LoopQuits
<1>8. CASE PlaybackStarted \/ PopupShown \/ PopupLeft
  BY <1>8 DEF PlaybackStarted, PopupShown, PopupLeft, CastHasServer, castVars
<1>9. CASE StopClicked \/ PlayerClosed
  BY <1>0, <1>9, StopServer DEF StopClicked, PlayerClosed, After
<1>10. ASSUME NEW item \in Devices \cup {"local"}, ItemClicked(item) PROVE CastHasServer'
  <2>1. CASE TextOf(item) = TextOf(currentDevice)
    BY <1>10, <2>1 DEF ItemClicked, CastHasServer, castVars
  <2>2. CASE TextOf(item) # TextOf(currentDevice)
    BY <1>0, <1>10, <2>2, StopServer DEF ItemClicked, After
  <2> QED
    BY <2>1, <2>2
<1>11. CASE UNCHANGED vars
  BY <1>11 DEF vars, castVars, CastHasServer
<1> QED
  BY <1>1, <1>2, <1>3, <1>4, <1>5, <1>6, <1>7, <1>8, <1>9, <1>10, <1>11 DEF Next

\* While the application says that it is casting, its server is there and the
\* controls belong to it, or it has been killed; for any devices, and however
\* choices, stops, crashes and late output of servers follow each other.
THEOREM ControlsFollowServer == Spec => []CastHasServer
<1>1. Init => CastHasServer
  BY DEF Init, CastHasServer
<1>2. TypeOK /\ CastHasServer /\ [Next]_vars => CastHasServer'
  BY ServerStep
<1> QED
  BY <1>1, <1>2, CastTypesHold, PTL DEF Spec

-----------------------------------------------------------------------------
(* The last choice is what is cast *)

\* A device that a choice of its name leads to: the first listed one.
First(device) ==
    \E i \in 1 .. Len(devs) :
        /\ devs[i] = device
        /\ \A j \in 1 .. i - 1 : NameOf[devs[j]] # NameOf[device]

\* A device that may be cast when another was chosen.
Serves(device, chosen) == device = chosen \/ TakenFor(device, chosen)

\* Only a choice from the list sets the current device.
CurrentFirst == currentDevice \in Devices => First(currentDevice)

\* A server that was not killed is loaded, or will be, with the current device,
\* if there still is one.
DeviceLoaded ==
    server \in {"listening", "connected"} /\ ~killed => currentDevice \in {loaded, NoDevice}

\* Unless it was made inside a stop(), the last choice is in the only loop.
LoopSound ==
    overlap \/ loops = << >> \/
        \E next \in After : /\ loops = << next >>
                            /\ next \in Devices => next \in Listed
                            /\ wanted = IF next \in Devices THEN next ELSE NoDevice

\* A server that is starting will load the last choice.
StartSound ==
    (server = "starting" /\ ~killed /\ loops = << >> /\ ~overlap) =>
        Serves(currentDevice, wanted) \/ (currentDevice = NoDevice /\ cut)

ChoiceInv == CurrentFirst /\ DeviceLoaded /\ LoopSound /\ StartSound /\ ChosenIsCast

\* The first device of a name serves for every listed device of that name.
LEMMA FirstServes ==
    ASSUME devs \in Seq(Devices), NEW device, First(device), NEW item \in Listed,
           NameOf[item] = NameOf[device]
    PROVE  Serves(device, item)
<1>1. PICK i \in 1 .. Len(devs) : /\ devs[i] = device
                                  /\ \A j \in 1 .. i - 1 : NameOf[devs[j]] # NameOf[device]
  BY DEF First
<1>2. PICK j \in 1 .. Len(devs) : devs[j] = item
  BY DEF Listed
<1>3. ~(j < i)
  BY <1>1, <1>2
<1>4. CASE i = j
  BY <1>1, <1>2, <1>4 DEF Serves
<1>5. CASE i < j
  BY <1>1, <1>2, <1>5 DEF Serves, TakenFor
<1> QED
  BY <1>3, <1>4, <1>5

\* A device that is found later changes nothing for the ones in the list.
LEMMA FoundLater ==
    ASSUME devs \in Seq(Devices), NEW found \in Devices, devs' = Append(devs, found)
    PROVE  /\ \A device : First(device) => First(device)'
           /\ \A device, chosen : Serves(device, chosen) => Serves(device, chosen)'
           /\ Listed \subseteq Listed'
<1>1. /\ Len(devs) \in Nat /\ Len(devs') = Len(devs) + 1
      /\ \A i \in 1 .. Len(devs) : devs'[i] = devs[i]
  OBVIOUS
<1>2. \A device : First(device) => First(device)'
  <2> SUFFICES ASSUME NEW device, First(device) PROVE First(device)'
    OBVIOUS
  <2>1. PICK i \in 1 .. Len(devs) : /\ devs[i] = device
                                    /\ \A j \in 1 .. i - 1 : NameOf[devs[j]] # NameOf[device]
    BY DEF First
  <2>2. i \in 1 .. Len(devs') /\ devs'[i] = device
    BY <1>1, <2>1
  <2>3. \A j \in 1 .. i - 1 : NameOf[devs'[j]] # NameOf[device]
    BY <1>1, <2>1
  <2> QED
    BY <2>2, <2>3 DEF First
<1>3. \A device, chosen : TakenFor(device, chosen) => TakenFor(device, chosen)'
  BY <1>1 DEF TakenFor
<1>4. Listed \subseteq Listed'
  BY <1>1 DEF Listed
<1> QED
  BY <1>2, <1>3, <1>4 DEF Serves

\* The choice of an item leads to the first device of its name.
LEMMA ChosenFirst ==
    ASSUME devs \in Seq(Devices), NEW next \in Devices, NEW i \in 1 .. Len(devs),
           ChosenAt(i, next)
    PROVE  First(devs[i]) /\ NameOf[next] = NameOf[devs[i]]
BY DEF ChosenAt, TextOf, First

\* A restart leaves the server's device and the current one together.
LEMMA RestartLoaded ==
    ASSUME NEW device \in Devices, First(device), UNCHANGED devs, Restart(device)
    PROVE  CurrentFirst' /\ DeviceLoaded'
<1>1. currentDevice' \in {device, NoDevice}
  BY DEF Restart
<1>2. CurrentFirst'
  BY <1>1, DevicesAssumption DEF CurrentFirst, First
<1>3. DeviceLoaded'
  BY DEF Restart, DeviceLoaded
<1> QED
  BY <1>2, <1>3

\* What follows the only stop(), or one that did not wait, carries out the last
\* choice.
LEMMA AfterStopChoice ==
    ASSUME StopTypes, devs \in Seq(Devices), UNCHANGED devs, CurrentFirst,
           NEW next \in After, AfterStop(next, << >>), next \in Devices => next \in Listed,
           wanted' = IF next \in Devices THEN next ELSE NoDevice
    PROVE  ChoiceInv'
<1>1. ASSUME next \in Devices, NEW i \in 1 .. Len(devs), ChosenAt(i, next),
             Restart(devs[i]), loops' = << >>
      PROVE  ChoiceInv'
  <2>1. devs[i] \in Devices /\ First(devs[i]) /\ NameOf[next] = NameOf[devs[i]]
    BY <1>1, ChosenFirst
  <2>2. CurrentFirst' /\ DeviceLoaded'
    BY <1>1, <2>1, RestartLoaded
  <2>3. Serves(devs[i], next)
    BY <1>1, <2>1, FirstServes
  <2>4. Serves(devs[i], wanted)'
    BY <1>1, <2>3 DEF Serves, TakenFor
  <2>5. StartSound'
    BY <1>1, <2>4 DEF Restart, StartSound
  <2>6. ChosenIsCast'
    BY <1>1 DEF Restart, ChosenIsCast
  <2> QED
    BY <1>1, <2>2, <2>5, <2>6 DEF ChoiceInv, LoopSound
<1>2. CASE /\ next \notin Devices /\ Kill /\ UNCHANGED server
           /\ currentDevice' \in {currentDevice, NoDevice}
           /\ loops' \in {<< >>, Append(<< >>, "hide")}
  <2>1. killed' \/ server' = "off"
    BY <1>2 DEF Kill
  <2>2. loops' = << >> \/ loops' = << "hide" >>
    BY <1>2
  <2>3. wanted' = NoDevice /\ "hide" \in After /\ "hide" \notin Devices
    BY <1>2, DevicesAssumption DEF After
  <2>4. CurrentFirst'
    BY <1>2, DevicesAssumption DEF CurrentFirst, First
  <2> QED
    BY <2>1, <2>2, <2>3, <2>4 DEF ChoiceInv, DeviceLoaded, LoopSound, StartSound, ChosenIsCast
<1> QED
  BY <1>1, <1>2, DevicesAssumption DEF AfterStop, castVars

\* Nothing that follows a stop() leaves a running server with another device.
LEMMA AfterStopLoaded ==
    ASSUME devs \in Seq(Devices), UNCHANGED devs, CurrentFirst,
           NEW next \in After, NEW outer, AfterStop(next, outer)
    PROVE  CurrentFirst' /\ DeviceLoaded'
<1>1. ASSUME next \in Devices, NEW i \in 1 .. Len(devs), ChosenAt(i, next), Restart(devs[i])
      PROVE  CurrentFirst' /\ DeviceLoaded'
  <2>1. devs[i] \in Devices /\ First(devs[i])
    BY <1>1, ChosenFirst
  <2> QED
    BY <1>1, <2>1, RestartLoaded
<1>2. CASE Kill /\ UNCHANGED server /\ currentDevice' \in {currentDevice, NoDevice}
  <2>1. DeviceLoaded'
    BY <1>2 DEF Kill, DeviceLoaded
  <2>2. CurrentFirst'
    BY <1>2, DevicesAssumption DEF CurrentFirst, First
  <2> QED
    BY <2>1, <2>2
<1> QED
  BY <1>1, <1>2 DEF AfterStop, castVars

\* A choice of the user is carried out, waits in its loop, or overlaps.
LEMMA StopChoice ==
    ASSUME StopTypes, devs \in Seq(Devices), UNCHANGED devs, CurrentFirst, DeviceLoaded,
           NEW next \in After, Stop(next), next \in Devices => next \in Listed,
           wanted' = IF next \in Devices THEN next ELSE NoDevice,
           overlap' = (loops # << >>)
    PROVE  ChoiceInv'
<1>1. CASE Waits
  <2>1. /\ loops' = Append(loops, next)
        /\ UNCHANGED << server, killed, loaded, currentDevice >>
    BY <1>1 DEF Stop, castVars
  <2>2. loops \in Seq(After)
    BY DEF StopTypes
  <2>3. loops' # << >>
    <3>1. Len(Append(loops, next)) = Len(loops) + 1 /\ Len(loops) \in Nat
      BY <2>2
    <3>2. Len(<< >>) = 0
      OBVIOUS
    <3> QED
      BY <2>1, <3>1, <3>2
  <2>4. loops = << >> => loops' = << next >>
    BY <2>1
  <2>5. CurrentFirst' /\ DeviceLoaded'
    BY <2>1 DEF CurrentFirst, DeviceLoaded, First
  <2>6. LoopSound'
    BY <2>4 DEF LoopSound, Listed
  <2> QED
    BY <2>3, <2>5, <2>6 DEF ChoiceInv, StartSound, ChosenIsCast
<1>2. CASE ~Waits /\ loops = << >>
  BY <1>2, AfterStopChoice DEF Stop
<1>3. CASE ~Waits /\ loops # << >>
  <2>1. CurrentFirst' /\ DeviceLoaded'
    BY <1>3, AfterStopLoaded DEF Stop
  <2> QED
    BY <1>3, <2>1 DEF ChoiceInv, LoopSound, StartSound, ChosenIsCast
<1> QED
  BY <1>1, <1>2, <1>3

\* A step keeps to the last choice.
LEMMA ChoiceStep ==
    ASSUME TypeOK, CastHasServer, ChoiceInv, [Next]_vars
    PROVE  ChoiceInv'
<1> USE DEF ChoiceInv
<1>0. StopTypes /\ devs \in Seq(Devices)
  BY DEF TypeOK, StopTypes, CastTypes, After
<1>a. ASSUME UNCHANGED << server, killed, loaded, loops, wanted, overlap, cut, devs,
                          currentDevice >>
      PROVE  ChoiceInv'
  BY <1>a DEF CurrentFirst, DeviceLoaded, LoopSound, StartSound, ChosenIsCast, First, Serves,
              TakenFor, Listed
<1>1. CASE Listening
  <2>1. /\ server = "starting" /\ server' = "listening" /\ loaded' = currentDevice
        /\ UNCHANGED << killed, loops, wanted, overlap, cut, devs, currentDevice >>
    BY <1>1 DEF Listening, castVars, history, discoveryVars
  <2>2. CurrentFirst' /\ LoopSound'
    BY <2>1 DEF CurrentFirst, LoopSound, First, Listed
  <2> QED
    BY <2>1, <2>2 DEF DeviceLoaded, StartSound, ChosenIsCast, Serves, TakenFor
<1>2. ASSUME NEW connected \in BOOLEAN, DeviceState(connected) PROVE ChoiceInv'
  <2>1. currentDevice' \in {currentDevice, NoDevice}
    BY <1>2 DEF DeviceState, HandleCastingSwitch, castVars
  <2>2. /\ server \in {"listening", "connected"} /\ server' \in {"listening", "connected"}
        /\ UNCHANGED << killed, loaded, loops, wanted, overlap, cut, devs >>
    BY <1>2 DEF DeviceState, history, discoveryVars
  <2>3. CurrentFirst' /\ LoopSound'
    BY <2>1, <2>2, DevicesAssumption DEF CurrentFirst, LoopSound, First, Listed
  <2> QED
    BY <2>1, <2>2, <2>3 DEF DeviceLoaded, StartSound, ChosenIsCast, TakenFor
<1>3. ASSUME NEW status \in {"Buffering", "Playing", "Paused"}, MediaState(status)
      PROVE  ChoiceInv'
  BY <1>3, <1>a DEF MediaState, history, discoveryVars
<1>4. CASE ServerStopped
  <2>1. /\ server' = "off" /\ currentDevice' \in {currentDevice, NoDevice}
        /\ UNCHANGED << loops, wanted, overlap, cut, devs >>
    BY <1>4 DEF ServerStopped, HandleCastingSwitch, castVars, history, discoveryVars
  <2>2. CurrentFirst' /\ LoopSound'
    BY <2>1, DevicesAssumption DEF CurrentFirst, LoopSound, First, Listed
  <2> QED
    BY <2>1, <2>2 DEF DeviceLoaded, StartSound, ChosenIsCast
<1>5. ASSUME NEW device \in Devices, DeviceFound(device) PROVE ChoiceInv'
  <2>1. /\ devs' = Append(devs, device)
        /\ UNCHANGED << server, killed, loaded, loops, wanted, overlap, cut, currentDevice >>
    BY <1>5 DEF DeviceFound, castVars, history
  <2>2. /\ \A d : First(d) => First(d)'
        /\ \A d, chosen : Serves(d, chosen) => Serves(d, chosen)'
        /\ Listed \subseteq Listed'
    BY <1>0, <2>1, FoundLater
  <2>3. CurrentFirst' /\ LoopSound'
    BY <2>1, <2>2 DEF CurrentFirst, LoopSound
  <2>4. Serves(currentDevice, wanted) => Serves(currentDevice, wanted)'
    BY <2>1, <2>2
  <2>5. Serves(loaded, wanted) => Serves(loaded, wanted)'
    BY <2>1, <2>2
  <2>6. DeviceLoaded' /\ StartSound'
    BY <2>1, <2>4 DEF DeviceLoaded, StartSound
  <2>7. ChosenIsCast'
    BY <2>1, <2>5 DEF ChosenIsCast, Serves
  <2> QED
    BY <2>3, <2>6, <2>7
<1>6. CASE DiscoveryStopped \/ DiscoveryStarts
  BY <1>6, <1>a DEF DiscoveryStopped, DiscoveryStarts, castVars, history
<1>7. CASE LoopQuits
  <2>1. loops \in Seq(After) /\ loops # << >>
    BY <1>0, <1>7 DEF LoopQuits, StopTypes
  <2>2. loops[Len(loops)] \in After /\ UNCHANGED << wanted, overlap, devs >>
    BY <1>7, <2>1 DEF LoopQuits, discoveryVars
  <2>3. CASE overlap
    <3>1. CurrentFirst' /\ DeviceLoaded'
      BY <1>0, <1>7, <2>2, AfterStopLoaded DEF LoopQuits
    <3> QED
      BY <2>2, <2>3, <3>1 DEF LoopSound, StartSound, ChosenIsCast
  <2>4. CASE ~overlap
    <3>1. PICK next \in After : /\ loops = << next >>
                                /\ next \in Devices => next \in Listed
                                /\ wanted = IF next \in Devices THEN next ELSE NoDevice
      BY <2>1, <2>4 DEF LoopSound
    <3>2. loops[Len(loops)] = next /\ SubSeq(loops, 1, Len(loops) - 1) = << >>
      BY <3>1
    <3>3. AfterStop(next, << >>)
      BY <1>7, <3>2 DEF LoopQuits
    <3> QED
      BY <1>0, <2>2, <3>1, <3>3, AfterStopChoice
  <2> QED
    BY <2>3, <2>4
<1>8. CASE PlaybackStarted \/ PopupShown \/ PopupLeft
  BY <1>8, <1>a DEF PlaybackStarted, PopupShown, PopupLeft, castVars, history, discoveryVars
<1>9. CASE StopClicked
  <2>1. Stop("none") /\ wanted' = NoDevice /\ overlap' = (loops # << >>) /\ UNCHANGED devs
    BY <1>9 DEF StopClicked, Wants, discoveryVars
  <2>2. "none" \in After /\ "none" \notin Devices
    BY DevicesAssumption DEF After
  <2> QED
    BY <1>0, <2>1, <2>2, StopChoice
<1>10. CASE PlayerClosed
  <2>1. Stop("close") /\ wanted' = NoDevice /\ overlap' = (loops # << >>) /\ UNCHANGED devs
    BY <1>10 DEF PlayerClosed, Wants, discoveryVars
  <2>2. "close" \in After /\ "close" \notin Devices
    BY DevicesAssumption DEF After
  <2> QED
    BY <1>0, <2>1, <2>2, StopChoice
<1>11. ASSUME NEW item \in Devices \cup {"local"}, ItemClicked(item) PROVE ChoiceInv'
  <2>1. item \in After /\ "local" \notin Devices /\ "local" # NoDevice
    BY DevicesAssumption DEF After
  <2>2. /\ wanted' = (IF item \in Devices THEN item ELSE NoDevice)
        /\ overlap' = (loops # << >>) /\ UNCHANGED devs
        /\ item \in Devices => item \in Listed
    BY <1>11, <2>1 DEF ItemClicked, Wants, discoveryVars
  <2>3. CASE TextOf(item) = TextOf(currentDevice)
    <3>1. UNCHANGED << server, killed, loaded, currentDevice, loops, cut >>
      BY <1>11, <2>3 DEF ItemClicked, castVars
    <3>2. currentDevice \in Devices \cup {NoDevice}
      BY <1>0 DEF StopTypes, CastTypes
    <3>3. item \in Devices /\ currentDevice \in Devices /\ NameOf[item] = NameOf[currentDevice]
      BY <2>1, <2>3, <3>2, DevicesAssumption DEF TextOf
    <3>4. Serves(currentDevice, item)
      BY <1>0, <2>2, <3>3, FirstServes DEF CurrentFirst
    <3>5. Serves(currentDevice, wanted)'
      BY <2>2, <3>1, <3>3, <3>4 DEF Serves, TakenFor
    <3>6. CurrentFirst' /\ DeviceLoaded'
      BY <2>2, <3>1 DEF CurrentFirst, DeviceLoaded, First
    <3>7. LoopSound' /\ StartSound'
      BY <2>2, <3>1, <3>5 DEF LoopSound, StartSound
    <3>8. ChosenIsCast'
      BY <3>1, <3>3, <3>5, DevicesAssumption DEF ChosenIsCast, DeviceLoaded, Serves
    <3> QED
      BY <3>6, <3>7, <3>8
  <2>4. CASE TextOf(item) # TextOf(currentDevice)
    <3>1. Stop(item)
      BY <1>11, <2>4 DEF ItemClicked
    <3> QED
      BY <1>0, <2>1, <2>2, <3>1, StopChoice
  <2> QED
    BY <2>3, <2>4
<1>12. CASE UNCHANGED vars
  BY <1>12, <1>a DEF vars, castVars, history, discoveryVars
<1> QED
  BY <1>1, <1>2, <1>3, <1>4, <1>5, <1>6, <1>7, <1>8, <1>9, <1>10, <1>11, <1>12 DEF Next

\* A server that was not told to stop plays on the device that was chosen last,
\* or on the one listed before it under the same name, for any number of devices,
\* names, choices, nested stops and crashes, but for the two exceptions that
\* ChosenIsCast names.
THEOREM LastChoiceIsCast == Spec => []ChosenIsCast
<1>1. Init => ChoiceInv
  BY DevicesAssumption DEF Init, ChoiceInv, CurrentFirst, DeviceLoaded, LoopSound, StartSound,
                           ChosenIsCast
<1>2. TypeOK /\ CastHasServer /\ ChoiceInv /\ [Next]_vars => ChoiceInv'
  BY ChoiceStep
<1>3. ChoiceInv => ChosenIsCast
  BY DEF ChoiceInv
<1> QED
  BY <1>1, <1>2, <1>3, CastTypesHold, ControlsFollowServer, PTL DEF Spec
=============================================================================
