------------------------ MODULE TorrentWrapperProofs ------------------------
(***************************************************************************)
(* The torrent engine as a whole, for any number of requests, torrents and *)
(* calls of cancel.                                                        *)
(*                                                                         *)
(* Every step of the engine is a step of the torrent session or leaves it  *)
(* alone, so that what StreamerokProofs shows of the session holds here    *)
(* too.  That needs part of the inductive invariant: a thread imports only *)
(* a file that arrived, and the ids that cancel and the notify thread use  *)
(* are ids.  The rest of it says who owns a torrent number on its way from *)
(* addTorrent to the page: the call that returned it (DlSound), the signal *)
(* on its way (EventsSound, AnswersSound), the slot that handles it        *)
(* (SlotSound); and what keeps the machine awake (PowerSound).             *)
(***************************************************************************)
EXTENDS TorrentWrapper, StreamerokProofs

DlStates ==
    [pc : DlPcs, file : Hashes \cup {NoFile, Empty}, index : (-12 .. -1) \cup Ids]
SlotStates ==
    [pc : SlotPcs, req : Requests \cup {NoReq}, tId : {0, NoTorrent} \cup Ids]
NotifyStates == [tId : {0, NoTorrent} \cup Ids, req : Requests \cup {NoReq}]
GuiStates ==
    [pc : GuiPcs, index : {NoTorrent} \cup Ids, stopping : Requests \cup {NoReq},
     req : Requests \cup {NoReq}]
Events == [kind : {"get", "metadata"}, req : Requests]

\* What WrapperTypeOK says, with the records' shapes.
WrapperShape ==
    /\ dl \in [Requests -> DlStates]
    /\ calls \in Seq(Requests)
    /\ torrentReply \in Requests \cup {NoReq}
    /\ connected \subseteq Requests /\ handled \subseteq Requests
    /\ events \in Seq(Events)
    /\ slot \in SlotStates
    /\ activeTorrent \in {NoTorrent} \cup Ids
    /\ activeTorrentIds \in [{NoTorrent} \cup Ids -> Nat]
    /\ notify \in NotifyStates
    /\ interrupted \in BOOLEAN /\ sleepDisabled \in BOOLEAN
    /\ announced \subseteq Ids
    /\ gui \in GuiStates
    /\ cancels \in 0 .. MaxCancels
    /\ unheard \subseteq Requests /\ crossed \in BOOLEAN

\* A thread imports a file it has; addTorrent runs only inside a thread that
\* called it; the thread has no number before that call has returned one; and
\* an answer is handled after the thread is done.
DlSound ==
    /\ \A r \in Requests : dl[r].pc = "import" => dl[r].file \in Hashes
    /\ \A r \in Requests : add[r].pc # "idle" => dl[r].pc \in {"importing", "magnet"}
    /\ \A r \in Requests : dl[r].pc \notin {"emit", "done"} => dl[r].index < 0
    /\ \A r \in handled : dl[r].pc = "done"

\* A request has at most one event in the queue: get() before its thread runs,
\* the answer after it has ended.
EventsSound ==
    /\ \A i \in 1 .. Len(events) :
          dl[events[i].req].pc = IF events[i].kind = "get" THEN "none" ELSE "done"
    /\ \A i, j \in 1 .. Len(events) : events[i].req = events[j].req => i = j

\* A thread that is done has been answered, or its answer is in the queue or
\* with the slot, or nobody received it.
AnswersSound ==
    \A r \in Requests : dl[r].pc = "done" =>
        \/ r \in handled \/ r \in unheard
        \/ \E i \in 1 .. Len(events) : events[i].req = r
        \/ SlotBusy /\ slot.req = r

\* The slot works for a thread that is done and has a torrent, and before it
\* lists the torrent the page has learnt of it.
SlotSound ==
    /\ slot.pc # "idle" => slot.req \in Requests
    /\ SlotBusy => dl[slot.req].pc = "done" /\ dl[slot.req].index \in Ids
    /\ slot.pc \in {"disable", "append"} => dl[slot.req].index \in announced
    /\ gui.pc = "connect" => gui.req \in Requests

\* Every id in tMap was announced to the page, or belongs to a request whose
\* answer is still to be handled.
NumbersKnown ==
    \A id \in DOMAIN tMap :
        \/ id \in announced
        \/ \E r \in Requests \ handled :
            dl[r].index = id \/ (add[r].pc = "returned" /\ add[r].result = id)

\* What is listed is announced, or -1.  As long as cancel and
\* onMetadataDownloaded have not overlapped, the slot finds the torrent it set
\* in activeTorrent, no -1 is listed, and each of the two finds the list as it
\* tested it.
PowerSound ==
    /\ \A id \in {NoTorrent} \cup Ids : Listed(id) => id \in announced \cup {NoTorrent}
    /\ SlotBusy => activeTorrent \in {NoTorrent, dl[slot.req].index}
    /\ ~crossed => /\ ~(SlotBusy /\ GuiBusy)
                   /\ ~Listed(NoTorrent)
                   /\ SlotBusy => activeTorrent # NoTorrent
                   /\ gui.pc = "enable" => IsEmpty
                   /\ slot.pc = "append" => sleepDisabled

PowerInv == PowerSound /\ AwakeOnlyForTorrents

EngineInv ==
    /\ WrapperShape /\ DlSound /\ EventsSound /\ AnswersSound /\ SlotSound
    /\ NumbersKnown /\ PowerInv

WrapperInv == SessionInv /\ EngineInv

-----------------------------------------------------------------------------
(* Lemmas on the data *)

\* A download thread that moves on keeps its file and its number.
LEMMA DlMovesOne ==
    ASSUME WrapperShape, NEW r \in Requests, NEW pc \in DlPcs, DlMoves(r, pc)
    PROVE  /\ dl' \in [Requests -> DlStates]
           /\ \A q \in Requests \ {r} : dl'[q] = dl[q]
           /\ dl'[r].pc = pc /\ dl'[r].file = dl[r].file /\ dl'[r].index = dl[r].index
BY DEF WrapperShape, DlStates, DlMoves

\* One that takes a result keeps its file.
LEMMA DlTakesOne ==
    ASSUME WrapperShape, NEW r \in Requests, NEW pc \in DlPcs,
           NEW n \in (-12 .. -1) \cup Ids,
           dl' = [dl EXCEPT ![r].pc = pc, ![r].index = n]
    PROVE  /\ dl' \in [Requests -> DlStates]
           /\ \A q \in Requests \ {r} : dl'[q] = dl[q]
           /\ dl'[r].pc = pc /\ dl'[r].file = dl[r].file /\ dl'[r].index = n
BY DEF WrapperShape, DlStates

\* What the event loop takes out of the queue, and what it leaves.
LEMMA TailEvents ==
    ASSUME events \in Seq(Events), events # << >>, events' = Tail(events)
    PROVE  /\ events' \in Seq(Events)
           /\ Head(events) = events[1] /\ events[1] \in Events /\ 1 \in 1 .. Len(events)
           /\ \A i \in 1 .. Len(events') :
                 i + 1 \in 1 .. Len(events) /\ events'[i] = events[i + 1]
OBVIOUS

\* What is posted comes last.
LEMMA AppendEvents ==
    ASSUME events \in Seq(Events), NEW e \in Events, events' = Append(events, e)
    PROVE  /\ events' \in Seq(Events) /\ Len(events') = Len(events) + 1
           /\ Len(events) \in Nat /\ events'[Len(events) + 1] = e
           /\ \A i \in 1 .. Len(events) : events'[i] = events[i]
OBVIOUS

\* Results of addTorrent fit the index of a thread.
LEMMA ResultRange ==
    ASSUME SessionInv, NEW r \in Requests, add[r].pc = "returned"
    PROVE  add[r].result \in (-12 .. -1) \cup Ids
BY DEF SessionInv, SessionTypeOK, AddStates, ErrorCodes, ResultsSigned, Requests

\* What waits in the queue and what the slot does concerns threads that have
\* not begun or are done; the others may go on.
LEMMA RunningThreads ==
    ASSUME WrapperInv, UNCHANGED << events, slot, announced, handled, unheard, gui >>,
           \A r \in Requests : \/ dl'[r] = dl[r]
                               \/ /\ dl[r].pc \notin {"none", "done"}
                                  /\ dl'[r].pc \notin {"none", "done"}
    PROVE  EventsSound' /\ AnswersSound' /\ SlotSound'
<1>1. EventsSound /\ AnswersSound /\ SlotSound /\ events \in Seq(Events)
  BY DEF WrapperInv, EngineInv, WrapperShape
<1>2. \A i \in 1 .. Len(events) : events[i].req \in Requests
  <2>1. \A i \in 1 .. Len(events) : events[i] \in Events
    BY <1>1
  <2> QED BY <2>1 DEF Events
<1>3. EventsSound'
  BY <1>1, <1>2 DEF EventsSound
<1>4. SlotSound'
  BY <1>1 DEF SlotSound, SlotBusy
<1>5. AnswersSound'
  BY <1>1 DEF AnswersSound, SlotBusy
<1> QED BY <1>3, <1>4, <1>5

\* The power assertion is out of reach of steps that leave cancel,
\* onMetadataDownloaded and what they use alone.
LEMMA PowerKept ==
    ASSUME WrapperInv,
           UNCHANGED << activeTorrent, activeTorrentIds, sleepDisabled, announced, crossed >>,
           slot' = slot \/ {slot.pc, slot'.pc} \subseteq {"idle", "connect"},
           gui' = gui \/ {gui.pc, gui'.pc} \subseteq {"idle", "connect"},
           \A r \in Requests : dl[r].pc = "done" => dl'[r] = dl[r]
    PROVE  PowerInv'
<1>1. PowerSound /\ AwakeOnlyForTorrents /\ SlotSound
  BY DEF WrapperInv, EngineInv, PowerInv
<1>2. \A id : Listed(id)' <=> Listed(id)
  BY DEF Listed
<1>3. IsEmpty' <=> IsEmpty
  BY <1>2 DEF IsEmpty
<1>4. /\ SlotBusy' <=> SlotBusy
      /\ SlotBusy => slot' = slot /\ dl'[slot.req] = dl[slot.req]
      /\ slot'.pc = "append" <=> slot.pc = "append"
  BY <1>1 DEF SlotBusy, SlotSound
<1>5. /\ GuiBusy' <=> GuiBusy
      /\ gui'.pc = "enable" <=> gui.pc = "enable"
      /\ gui'.pc = "restore" <=> gui.pc = "restore"
  BY DEF GuiBusy
<1>6. PowerSound'
  BY <1>1, <1>2, <1>3, <1>4, <1>5 DEF PowerSound
<1>7. AwakeOnlyForTorrents'
  BY <1>1, <1>2, <1>4, <1>5 DEF AwakeOnlyForTorrents
<1> QED BY <1>6, <1>7 DEF PowerInv

\* A torrent stays known if a returned result is kept or handed on, and a
\* number too.
LEMMA StaysKnown ==
    ASSUME WrapperInv, DOMAIN tMap' \subseteq DOMAIN tMap, announced \subseteq announced',
           handled' = handled,
           \A r \in Requests : dl[r].index \in Ids => dl'[r].index = dl[r].index,
           \A r \in Requests : add[r].pc = "returned" =>
               \/ add'[r] = add[r]
               \/ dl'[r].index = add[r].result
    PROVE  NumbersKnown'
<1>1. NumbersKnown /\ DOMAIN tMap \subseteq Ids
  BY DEF WrapperInv, EngineInv, SessionInv, SessionTypeOK
<1> SUFFICES ASSUME NEW id \in DOMAIN tMap', id \notin announced'
             PROVE  \E r \in Requests \ handled :
                       dl'[r].index = id \/ (add'[r].pc = "returned" /\ add'[r].result = id)
  BY DEF NumbersKnown
<1>2. PICK r \in Requests \ handled :
         dl[r].index = id \/ (add[r].pc = "returned" /\ add[r].result = id)
  BY <1>1 DEF NumbersKnown
<1> QED BY <1>1, <1>2

-----------------------------------------------------------------------------
LEMMA InitWrapper == WrapperInit => WrapperInv
<1> SUFFICES ASSUME WrapperInit PROVE WrapperInv
  OBVIOUS
<1>1. SessionInv
  BY InitSession DEF WrapperInit
<1>2. dl \in [Requests -> DlStates]
  <2>1. NoTorrent \in (-12 .. -1) \cup Ids
    BY DEF NoTorrent
  <2> QED BY <2>1 DEF WrapperInit, DlStates, DlPcs
<1>3. slot \in SlotStates /\ notify \in NotifyStates /\ gui \in GuiStates
  BY DEF WrapperInit, SlotStates, SlotPcs, NotifyStates, NotRunning, GuiStates, GuiPcs
<1>4. WrapperShape
  <2>1. calls \in Seq(Requests) /\ events \in Seq(Events)
    BY DEF WrapperInit
  <2>2. /\ torrentReply \in Requests \cup {NoReq}
        /\ connected \subseteq Requests /\ handled \subseteq Requests
        /\ activeTorrent \in {NoTorrent} \cup Ids
        /\ activeTorrentIds \in [{NoTorrent} \cup Ids -> Nat]
        /\ interrupted \in BOOLEAN /\ sleepDisabled \in BOOLEAN /\ announced \subseteq Ids
        /\ unheard \subseteq Requests /\ crossed \in BOOLEAN
    BY DEF WrapperInit
  <2>3. cancels \in 0 .. MaxCancels
    BY RequestAssumption DEF WrapperInit
  <2> QED BY <1>2, <1>3, <2>1, <2>2, <2>3 DEF WrapperShape
<1>5. DlSound
  BY DEF WrapperInit, SessionInit, NoCall, DlSound, NoTorrent, Requests
<1>6. EventsSound /\ AnswersSound
  BY DEF WrapperInit, EventsSound, AnswersSound
<1>7. SlotSound
  BY DEF WrapperInit, SlotSound, SlotBusy
<1>8. NumbersKnown
  BY DEF WrapperInit, SessionInit, NumbersKnown
<1>9. PowerInv
  <2>1. \A id \in {NoTorrent} \cup Ids : activeTorrentIds[id] = 0
    BY DEF WrapperInit
  <2>2. \A id \in {NoTorrent} \cup Ids : ~Listed(id)
    BY <2>1 DEF Listed
  <2> QED BY <2>2 DEF WrapperInit, PowerInv, PowerSound, AwakeOnlyForTorrents, SlotBusy, GuiBusy
<1> QED BY <1>1, <1>4, <1>5, <1>6, <1>7, <1>8, <1>9 DEF WrapperInv, EngineInv

-----------------------------------------------------------------------------
(* The engine runs on the session *)

LEMMA WrapperRefinesSession ==
    ASSUME WrapperInv, [WrapperNext]_allVars
    PROVE  [SessionNext]_sessionVars
<1>1. ASSUME NEW r \in Requests, GetTorrent(r) \/ GetDirect(r) PROVE UNCHANGED sessionVars
  BY <1>1 DEF GetTorrent, GetDirect
<1>2. ASSUME NEW r \in Requests, DlStep(r) PROVE [SessionNext]_sessionVars
  <2>1. CASE DlStart(r) \/ DlGotFile(r) \/ DlTimeout(r) \/ DlNoMagnet(r) \/ DlEmit(r)
    BY <2>1 DEF DlStart, DlGotFile, DlTimeout, DlNoMagnet, DlEmit
  <2>2. CASE DlImport(r)
    <3>1. dl[r].file \in Hashes
      BY <2>2 DEF WrapperInv, EngineInv, DlSound, DlImport
    <3> QED BY <2>2, <3>1 DEF DlImport, SessionNext, Requests
  <2>3. CASE DlAddMagnet(r)
    <3>1. Want[r] \in Hashes
      BY RequestAssumption
    <3> QED BY <2>3, <3>1 DEF DlAddMagnet, SessionNext, Requests
  <2>4. CASE DlImported(r) \/ DlMagnetAdded(r)
    BY <2>4 DEF DlImported, DlMagnetAdded, SessionNext, CallerStep, Requests
  <2>5. CASE DlInAddTorrent(r)
    BY <2>5 DEF DlInAddTorrent, SessionNext, CallerStep, Requests
  <2> QED BY <1>2, <2>1, <2>2, <2>3, <2>4, <2>5 DEF DlStep
<1>3. CASE GetTorrentFile
  BY <1>3 DEF GetTorrentFile
<1>4. ASSUME NEW file, OnTorrentFileReqestFinished(file) PROVE UNCHANGED sessionVars
  BY <1>4 DEF OnTorrentFileReqestFinished
<1>5. CASE TorrentThreadStep
  BY <1>5 DEF TorrentThreadStep, Get, ConnectThread, OnTorrentMetadataError,
     OnMetadataDownloaded, SlotStop, SlotWaited, StartNotify, Announce, DisableSleep,
     AppendId
<1>6. \A id \in DOMAIN tMap : id \in Ids
  BY DEF WrapperInv, EngineInv, SessionInv, SessionTypeOK
<1>7. CASE NotifyExit \/ NotifyPoll
  BY <1>6, <1>7 DEF NotifyExit, NotifyPoll, SessionNext, GetAux
<1>8. ASSUME NEW index, Cancel(index) PROVE UNCHANGED sessionVars
  BY <1>8 DEF Cancel
<1>9. CASE GuiConnect \/ CancelStep
  BY <1>6, <1>9 DEF GuiConnect, CancelStep, CancelStop, CancelWaited, CancelRemove,
     CancelTest, RestoreSleep, CancelDelete, SessionNext, DeleteTorrent
<1>10. ASSUME NEW x \in Hashes, ReceiveMetadata(x) PROVE SessionNext
  BY <1>10 DEF SessionNext
<1>11. CASE UNCHANGED allVars
  BY <1>11 DEF allVars
<1> QED
  BY <1>1, <1>2, <1>3, <1>4, <1>5, <1>7, <1>8, <1>9, <1>10, <1>11 DEF WrapperNext

-----------------------------------------------------------------------------
(* One lemma per group of operations: what the engine's invariant needs *)

\* Download threads outside addTorrent.
LEMMA ThreadStep ==
    ASSUME WrapperInv, NEW r \in Requests,
           DlStart(r) \/ DlGotFile(r) \/ DlTimeout(r) \/ DlNoMagnet(r)
    PROVE  EngineInv'
<1>1. /\ UNCHANGED << sessionVars, torrentReply, connected, events, slot, activeTorrent,
                      activeTorrentIds, notify, interrupted, sleepDisabled, announced,
                      handled, gui, cancels, unheard, crossed >>
      /\ calls' \in Seq(Requests)
  <2>1. calls \in Seq(Requests)
    BY DEF WrapperInv, EngineInv, WrapperShape
  <2> QED BY <2>1 DEF DlStart, DlGotFile, DlTimeout, DlNoMagnet
<1>2. WrapperShape /\ DlSound
  BY DEF WrapperInv, EngineInv
<1>3. /\ dl[r].pc \in {"start", "wait", "fallback"}
      /\ dl'[r].pc \in {"wait", "import", "fallback", "emit"}
      /\ dl' \in [Requests -> DlStates]
      /\ \A q \in Requests \ {r} : dl'[q] = dl[q]
      /\ dl'[r].index = dl[r].index
      /\ dl'[r].pc = "import" => dl'[r].file \in Hashes
  <2>1. Want[r] \in Hashes
    BY RequestAssumption
  <2>2. dl[r] \in DlStates
    BY <1>2 DEF WrapperShape
  <2>3. {"wait", "import", "fallback", "emit"} \subseteq DlPcs
    BY DEF DlPcs
  <2>4. CASE DlStart(r)
    <3>1. CASE DlMoves(r, "wait")
      BY <2>3, <2>4, <3>1, <1>2, DlMovesOne DEF DlStart
    <3>2. CASE dl' = [dl EXCEPT ![r].pc = "import", ![r].file = Want[r]]
      <4>1. "import" \in DlPcs /\ Want[r] \in Hashes \cup {NoFile, Empty}
        BY <2>1, <2>3
      <4>2. /\ dl' \in [Requests -> DlStates]
            /\ \A q \in Requests \ {r} : dl'[q] = dl[q]
            /\ dl'[r].pc = "import" /\ dl'[r].file = Want[r]
            /\ dl'[r].index = dl[r].index
        BY <3>2, <4>1, <1>2 DEF WrapperShape, DlStates
      <4> QED BY <2>1, <2>4, <4>2 DEF DlStart
    <3>3. CASE DlMoves(r, "fallback")
      BY <2>3, <2>4, <3>3, <1>2, DlMovesOne DEF DlStart
    <3> QED BY <2>4, <3>1, <3>2, <3>3 DEF DlStart
  <2>5. CASE DlGotFile(r)
    <3>1. dl[r].file \in Hashes \cup {Empty}
      BY <2>2, <2>5 DEF DlStates, DlGotFile
    <3>2. PICK pc \in {"fallback", "import"} :
             DlMoves(r, pc) /\ (pc = "import" => dl[r].file \in Hashes)
      BY <2>5, <3>1 DEF DlGotFile
    <3> QED BY <2>3, <2>5, <3>2, <1>2, DlMovesOne DEF DlGotFile
  <2>6. CASE DlTimeout(r)
    BY <2>3, <2>6, <1>2, DlMovesOne DEF DlTimeout
  <2>7. CASE DlNoMagnet(r)
    BY <2>3, <2>7, <1>2, DlMovesOne DEF DlNoMagnet
  <2> QED BY <2>4, <2>5, <2>6, <2>7
<1>4. WrapperShape'
  BY <1>1, <1>2, <1>3 DEF WrapperShape
<1>5. add' = add /\ tMap' = tMap /\ announced' = announced
  BY <1>1 DEF sessionVars
<1>6. DlSound'
  BY <1>1, <1>2, <1>3, <1>5 DEF DlSound, WrapperShape
<1>7. EventsSound' /\ AnswersSound' /\ SlotSound'
  BY <1>1, <1>3, RunningThreads
<1>8. NumbersKnown'
  BY <1>1, <1>3, <1>5, StaysKnown
<1>9. PowerInv'
  BY <1>1, <1>3, PowerKept
<1> QED BY <1>4, <1>6, <1>7, <1>8, <1>9 DEF EngineInv

\* The thread calls addTorrent.
LEMMA CallStep ==
    ASSUME WrapperInv, NEW r \in Requests, DlImport(r) \/ DlAddMagnet(r)
    PROVE  EngineInv'
<1>1. UNCHANGED << calls, torrentReply, connected, events, slot, activeTorrent,
                   activeTorrentIds, notify, interrupted, sleepDisabled, announced,
                   handled, gui, cancels, unheard, crossed >>
  BY DEF DlImport, DlAddMagnet
<1>2. WrapperShape /\ DlSound /\ SessionTypeOK
  BY DEF WrapperInv, EngineInv, SessionInv
<1>3. /\ dl[r].pc \in {"import", "fallback"} /\ dl'[r].pc \in {"importing", "magnet"}
      /\ dl' \in [Requests -> DlStates]
      /\ \A q \in Requests \ {r} : dl'[q] = dl[q]
      /\ dl'[r].index = dl[r].index
  <2>1. PICK pc \in {"importing", "magnet"} : DlMoves(r, pc)
    BY DEF DlImport, DlAddMagnet
  <2> QED BY <2>1, <1>2, DlMovesOne DEF DlPcs, DlImport, DlAddMagnet
<1>4. tMap' = tMap /\ add[r].pc = "idle" /\ \A q \in Requests \ {r} : add'[q] = add[q]
  <2>1. r \in Callers /\ add \in [Callers -> AddStates]
    BY <1>2 DEF Requests, SessionTypeOK
  <2>2. PICK x : AddTorrent(r, x, TRUE) \/ AddTorrent(r, x, FALSE)
                 \/ AddTorrentFails(r, x) \/ ParseFails(r, x)
    BY DEF DlImport, DlAddMagnet
  <2>3. PICK a : add' = [add EXCEPT ![r] = a]
    BY <2>2 DEF AddTorrent, AddTorrentFails, ParseFails
  <2> QED BY <2>1, <2>2, <2>3 DEF AddTorrent, AddTorrentFails, ParseFails, Requests
<1>5. WrapperShape'
  BY <1>1, <1>2, <1>3 DEF WrapperShape
<1>6. DlSound'
  BY <1>1, <1>2, <1>3, <1>4 DEF DlSound, WrapperShape
<1>7. EventsSound' /\ AnswersSound' /\ SlotSound'
  BY <1>1, <1>3, RunningThreads
<1>8. NumbersKnown'
  BY <1>1, <1>3, <1>4, StaysKnown
<1>9. PowerInv'
  BY <1>1, <1>3, PowerKept
<1> QED BY <1>5, <1>6, <1>7, <1>8, <1>9 DEF EngineInv

\* The thread takes the result: from then on the number is its index.
LEMMA ResultStep ==
    ASSUME WrapperInv, NEW r \in Requests, DlImported(r) \/ DlMagnetAdded(r)
    PROVE  EngineInv'
<1>1. UNCHANGED << calls, torrentReply, connected, events, slot, activeTorrent,
                   activeTorrentIds, notify, interrupted, sleepDisabled, announced,
                   handled, gui, cancels, unheard, crossed >>
  BY DEF DlImported, DlMagnetAdded
<1>2. WrapperShape /\ DlSound /\ SessionTypeOK
  BY DEF WrapperInv, EngineInv, SessionInv
<1>3. TakeResult(r) /\ dl[r].pc \in {"importing", "magnet"}
  BY DEF DlImported, DlMagnetAdded
<1>4. add[r].pc = "returned" /\ add[r].result \in (-12 .. -1) \cup Ids
  BY <1>3, ResultRange DEF TakeResult, WrapperInv
<1>5. PICK pc \in {"fallback", "emit"} :
         /\ dl' = [dl EXCEPT ![r].pc = pc, ![r].index = add[r].result]
         /\ pc = "fallback" => add[r].result < 0
  BY DEF DlImported, DlMagnetAdded, AfterImport
<1>6. /\ dl' \in [Requests -> DlStates]
      /\ \A q \in Requests \ {r} : dl'[q] = dl[q]
      /\ dl'[r].pc = pc /\ dl'[r].index = add[r].result
  BY <1>2, <1>4, <1>5, DlTakesOne DEF DlPcs
<1>7. /\ tMap' = tMap /\ add'[r].pc = "idle"
      /\ \A q \in Requests \ {r} : add'[q] = add[q]
  BY <1>2, <1>3, IdleCall, BeginsOne DEF TakeResult, NoCall, Requests
<1>8. WrapperShape'
  BY <1>1, <1>2, <1>6 DEF WrapperShape
<1>9. DlSound'
  BY <1>1, <1>2, <1>3, <1>5, <1>6, <1>7 DEF DlSound, WrapperShape
<1>10. EventsSound' /\ AnswersSound' /\ SlotSound'
  BY <1>1, <1>3, <1>6, RunningThreads
<1>11. NumbersKnown'
  <2>1. dl[r].index \notin Ids
    BY <1>2, <1>3 DEF DlSound, Ids
  <2> QED BY <1>1, <1>6, <1>7, <2>1, StaysKnown
<1>12. PowerInv'
  BY <1>1, <1>3, <1>6, PowerKept
<1> QED BY <1>8, <1>9, <1>10, <1>11, <1>12 DEF EngineInv

\* Inside addTorrent, in libtorrent, and when the notify thread's query finds
\* a torrent gone: a new entry of tMap is the result of a call.
LEMMA InnerStep ==
    ASSUME WrapperInv, UNCHANGED wrapperVars,
           \/ \E r \in Requests : InAddTorrent(r)
           \/ \E x \in Hashes : ReceiveMetadata(x)
           \/ GetAux(notify.tId)
    PROVE  EngineInv'
<1>1. /\ WrapperShape /\ DlSound /\ EventsSound /\ AnswersSound /\ SlotSound
      /\ NumbersKnown /\ SessionTypeOK
  BY DEF WrapperInv, EngineInv, SessionInv
<1>2. WrapperShape' /\ EventsSound' /\ AnswersSound' /\ SlotSound' /\ PowerInv'
  <2>1. PowerInv'
    BY PowerKept DEF wrapperVars
  <2> QED
    BY <1>1, <2>1 DEF wrapperVars, WrapperShape, EventsSound, AnswersSound, SlotSound, SlotBusy
<1>3. ASSUME NEW r \in Requests, InAddTorrent(r)
      PROVE  DlSound' /\ NumbersKnown'
  <2>1. add[r].pc \in AddPcs /\ add \in [Callers -> AddStates] /\ r \in Callers
    BY <1>1, <1>3 DEF InAddTorrent, HasMetadata, HandleLost, MetadataTimeout, RemoveTimedOut,
       SelectFile, InsertTorrent, AddPcs, SessionTypeOK, Requests
  <2>2. \A q \in Requests \ {r} : add'[q] = add[q]
    BY <1>3, <2>1 DEF InAddTorrent, HasMetadata, HandleLost, MetadataTimeout, RemoveTimedOut,
       SelectFile, InsertTorrent, Returns, Requests
  <2>3. /\ dl[r].pc \in {"importing", "magnet"} /\ r \notin handled
        /\ add[r].pc # "returned"
    BY <1>1, <2>1 DEF DlSound, AddPcs
  <2>4. DlSound'
    BY <1>1, <2>2, <2>3 DEF DlSound, wrapperVars
  <2>5. \/ tMap' = tMap
        \/ /\ DOMAIN tMap' = DOMAIN tMap \cup {add[r].id}
           /\ add'[r].pc = "returned" /\ add'[r].result = add[r].id
    BY <1>3, <2>1 DEF InAddTorrent, HasMetadata, HandleLost, MetadataTimeout, RemoveTimedOut,
       SelectFile, InsertTorrent, Inserted, Returns, AddStates
  <2>6. NumbersKnown'
    BY <1>1, <2>1, <2>2, <2>3, <2>5 DEF NumbersKnown, wrapperVars
  <2> QED BY <2>4, <2>6
<1>4. ASSUME add' = add, DOMAIN tMap' \subseteq DOMAIN tMap
      PROVE  DlSound' /\ NumbersKnown'
  BY <1>1, <1>4 DEF DlSound, NumbersKnown, wrapperVars
<1>5. ASSUME NEW x \in Hashes, ReceiveMetadata(x) PROVE DlSound' /\ NumbersKnown'
  BY <1>4, <1>5 DEF ReceiveMetadata
<1>6. ASSUME GetAux(notify.tId) PROVE DlSound' /\ NumbersKnown'
  BY <1>4, <1>6 DEF GetAux, Without
<1> QED BY <1>1, <1>2, <1>3, <1>5, <1>6 DEF EngineInv

\* The thread is done and posts its answer.
LEMMA EmitStep ==
    ASSUME WrapperInv, NEW r \in Requests, DlEmit(r)
    PROVE  EngineInv'
<1>1. /\ UNCHANGED << sessionVars, calls, torrentReply, connected, slot, activeTorrent,
                      activeTorrentIds, notify, interrupted, sleepDisabled, announced,
                      handled, gui, cancels, crossed >>
      /\ dl[r].pc = "emit" /\ DlMoves(r, "done")
      /\ \/ events' = events /\ unheard' = unheard \cup {r}
         \/ events' = Append(events, [kind |-> "metadata", req |-> r]) /\ unheard' = unheard
  BY DEF DlEmit
<1>2. WrapperShape /\ DlSound /\ EventsSound /\ SlotSound /\ AnswersSound
  BY DEF WrapperInv, EngineInv
<1>3. /\ dl' \in [Requests -> DlStates]
      /\ \A q \in Requests \ {r} : dl'[q] = dl[q]
      /\ dl'[r].pc = "done" /\ dl'[r].index = dl[r].index
  BY <1>1, <1>2, DlMovesOne DEF DlPcs
<1>4. add' = add /\ tMap' = tMap
  BY <1>1 DEF sessionVars
<1>5. \A i \in 1 .. Len(events) : events[i].req \in Requests \ {r}
  <2>1. \A i \in 1 .. Len(events) : events[i] \in Events
    BY <1>2 DEF WrapperShape
  <2> QED BY <1>1, <1>2, <2>1 DEF Events, EventsSound
<1>6. events' \in Seq(Events) /\ EventsSound' /\ AnswersSound'
  <2>1. CASE events' = events /\ unheard' = unheard \cup {r}
    <3>1. events' \in Seq(Events) /\ EventsSound'
      BY <2>1, <1>2, <1>3, <1>5 DEF EventsSound, WrapperShape
    <3>2. AnswersSound'
      BY <2>1, <1>1, <1>2, <1>3 DEF AnswersSound, SlotBusy
    <3> QED BY <3>1, <3>2
  <2>2. CASE events' = Append(events, [kind |-> "metadata", req |-> r])
    <3> DEFINE e == [kind |-> "metadata", req |-> r]
    <3>1. e \in Events /\ e.kind # "get" /\ e.req = r
      BY DEF Events
    <3>2. events \in Seq(Events) /\ events' = Append(events, e)
      BY <1>2, <2>2 DEF WrapperShape
    <3> HIDE DEF e
    <3>3. /\ events' \in Seq(Events) /\ Len(events') = Len(events) + 1
          /\ Len(events) \in Nat /\ events'[Len(events) + 1] = e
          /\ \A i \in 1 .. Len(events) : events'[i] = events[i]
      BY <3>1, <3>2, AppendEvents
    <3>4. \A i \in 1 .. Len(events') : i \in 1 .. Len(events) \/ i = Len(events) + 1
      BY <3>3
    <3>5. EventsSound'
      BY <1>2, <1>3, <1>5, <3>1, <3>3, <3>4 DEF EventsSound
    <3>6. \A i \in 1 .. Len(events) : i \in 1 .. Len(events')
      BY <3>3
    <3>7. \E i \in 1 .. Len(events') : events'[i].req = r
      BY <3>1, <3>3
    <3>8. unheard \subseteq unheard'
      BY <1>1
    <3>9. AnswersSound'
      BY <1>1, <1>2, <1>3, <3>3, <3>6, <3>7, <3>8 DEF AnswersSound, SlotBusy
    <3> QED BY <3>3, <3>5, <3>9
  <2> QED BY <1>1, <2>1, <2>2
<1>7. WrapperShape'
  <2>1. unheard' \subseteq Requests
    BY <1>1, <1>2 DEF WrapperShape
  <2> QED BY <2>1, <1>1, <1>2, <1>3, <1>6 DEF WrapperShape
<1>8. DlSound'
  BY <1>1, <1>2, <1>3, <1>4 DEF DlSound, WrapperShape
<1>9. SlotSound'
  BY <1>1, <1>2, <1>3 DEF SlotSound, SlotBusy
<1>10. NumbersKnown'
  BY <1>1, <1>3, <1>4, StaysKnown
<1>11. PowerInv'
  BY <1>1, <1>3, PowerKept
<1> QED BY <1>6, <1>7, <1>8, <1>9, <1>10, <1>11 DEF EngineInv

\* The Requester.
LEMMA RequesterStep ==
    ASSUME WrapperInv,
           \/ GetTorrentFile
           \/ \E file \in Hashes \cup {Empty, NoFile} : OnTorrentFileReqestFinished(file)
    PROVE  EngineInv'
<1>1. UNCHANGED << sessionVars, connected, events, slot, activeTorrent,
                   activeTorrentIds, notify, interrupted, sleepDisabled, announced,
                   handled, gui, cancels, unheard, crossed >>
  BY DEF GetTorrentFile, OnTorrentFileReqestFinished
<1>2. WrapperShape /\ DlSound
  BY DEF WrapperInv, EngineInv
<1>3. calls' \in Seq(Requests) /\ torrentReply' \in Requests \cup {NoReq}
  <2>1. calls \in Seq(Requests)
    BY <1>2 DEF WrapperShape
  <2>2. CASE GetTorrentFile
    BY <2>1, <2>2 DEF GetTorrentFile
  <2> QED BY <2>1, <2>2 DEF OnTorrentFileReqestFinished
<1>4. /\ dl' \in [Requests -> DlStates]
      /\ \A q \in Requests : /\ dl'[q].pc = dl[q].pc /\ dl'[q].index = dl[q].index
                             /\ dl'[q] = dl[q] \/ dl[q].pc = "wait"
  <2>1. CASE dl' = dl
    BY <2>1, <1>2 DEF WrapperShape
  <2>2. ASSUME NEW file \in Hashes \cup {Empty, NoFile},
               dl' = [q \in Requests |-> IF dl[q].pc = "wait"
                                         THEN [dl[q] EXCEPT !.file = file] ELSE dl[q]]
        PROVE  <1>4!:
    BY <2>2, <1>2 DEF WrapperShape, DlStates
  <2> QED BY <2>1, <2>2 DEF GetTorrentFile, OnTorrentFileReqestFinished
<1>5. WrapperShape'
  BY <1>1, <1>2, <1>3, <1>4 DEF WrapperShape
<1>6. add' = add /\ tMap' = tMap
  BY <1>1 DEF sessionVars
<1>7. DlSound'
  BY <1>1, <1>2, <1>4, <1>6 DEF DlSound, WrapperShape
<1>8. EventsSound' /\ AnswersSound' /\ SlotSound'
  BY <1>1, <1>4, RunningThreads
<1>9. NumbersKnown'
  BY <1>1, <1>4, <1>6, StaysKnown
<1>10. PowerInv'
  BY <1>1, <1>4, PowerKept
<1> QED BY <1>5, <1>7, <1>8, <1>9, <1>10 DEF EngineInv

\* The page asks for a torrent.
LEMMA PostStep ==
    ASSUME WrapperInv, NEW r \in Requests, GetTorrent(r)
    PROVE  EngineInv'
<1>1. /\ UNCHANGED << sessionVars, dl, calls, torrentReply, connected, slot,
                      activeTorrent, activeTorrentIds, notify, interrupted,
                      sleepDisabled, announced, handled, gui, cancels, unheard, crossed >>
      /\ dl[r].pc = "none" /\ \A i \in 1 .. Len(events) : events[i].req # r
  BY DEF GetTorrent
<1>2. WrapperShape /\ DlSound /\ EventsSound /\ SlotSound /\ AnswersSound
  BY DEF WrapperInv, EngineInv
<1>3. events' \in Seq(Events) /\ EventsSound' /\ AnswersSound'
  <2> DEFINE e == [kind |-> "get", req |-> r]
  <2>1. e \in Events /\ e.kind = "get" /\ e.req = r
    BY DEF Events
  <2>2. events \in Seq(Events) /\ events' = Append(events, e)
    BY <1>2 DEF WrapperShape, GetTorrent
  <2> HIDE DEF e
  <2>3. /\ events' \in Seq(Events) /\ Len(events') = Len(events) + 1
        /\ Len(events) \in Nat /\ events'[Len(events) + 1] = e
        /\ \A i \in 1 .. Len(events) : events'[i] = events[i]
    BY <2>1, <2>2, AppendEvents
  <2>4. \A i \in 1 .. Len(events') : i \in 1 .. Len(events) \/ i = Len(events) + 1
    BY <2>3
  <2>5. EventsSound'
    BY <1>1, <1>2, <2>1, <2>3, <2>4 DEF EventsSound
  <2>6. \A i \in 1 .. Len(events) : i \in 1 .. Len(events')
    BY <2>3
  <2>7. AnswersSound'
    BY <1>1, <1>2, <2>3, <2>6 DEF AnswersSound, SlotBusy
  <2> QED BY <2>3, <2>5, <2>7
<1>4. WrapperShape'
  BY <1>1, <1>2, <1>3 DEF WrapperShape
<1>5. add' = add /\ tMap' = tMap
  BY <1>1 DEF sessionVars
<1>6. DlSound' /\ SlotSound' /\ PowerInv'
  BY <1>1, <1>2, <1>5, PowerKept DEF DlSound, SlotSound, SlotBusy
<1>7. NumbersKnown'
  BY <1>1, <1>5, StaysKnown
<1> QED BY <1>3, <1>4, <1>6, <1>7 DEF EngineInv

\* get() starts a thread that has not run.
LEMMA GetStep ==
    ASSUME WrapperInv, Get
    PROVE  EngineInv'
<1> DEFINE r == Head(events).req
<1>1. /\ UNCHANGED << sessionVars, calls, torrentReply, connected, activeTorrent,
                      activeTorrentIds, notify, interrupted, sleepDisabled, announced,
                      handled, gui, cancels, unheard, crossed >>
      /\ slot.pc = "idle" /\ events # << >> /\ Head(events).kind = "get"
      /\ DlMoves(r, "start") /\ slot' = [slot EXCEPT !.pc = "connect", !.req = r]
      /\ events' = Tail(events)
  BY DEF Get
<1>2. WrapperShape /\ DlSound /\ EventsSound /\ AnswersSound /\ SlotSound
  BY DEF WrapperInv, EngineInv
<1>3. /\ events' \in Seq(Events)
      /\ Head(events) = events[1] /\ events[1] \in Events /\ 1 \in 1 .. Len(events)
      /\ \A i \in 1 .. Len(events') :
            i + 1 \in 1 .. Len(events) /\ events'[i] = events[i + 1]
  BY <1>1, <1>2, TailEvents DEF WrapperShape
<1>4. r \in Requests /\ r = events[1].req /\ dl[r].pc = "none"
  BY <1>1, <1>2, <1>3 DEF Events, EventsSound
<1> HIDE DEF r
<1>5. /\ dl' \in [Requests -> DlStates]
      /\ \A q \in Requests \ {r} : dl'[q] = dl[q]
      /\ dl'[r].pc = "start" /\ dl'[r].index = dl[r].index
  BY <1>1, <1>2, <1>4, DlMovesOne DEF DlPcs
<1>6. slot' \in SlotStates /\ slot'.pc = "connect" /\ slot'.req = r
  BY <1>1, <1>2, <1>4 DEF WrapperShape, SlotStates, SlotPcs
<1>7. WrapperShape'
  BY <1>1, <1>2, <1>3, <1>5, <1>6 DEF WrapperShape
<1>8. add' = add /\ tMap' = tMap
  BY <1>1 DEF sessionVars
<1>9. DlSound'
  BY <1>1, <1>2, <1>4, <1>5, <1>8 DEF DlSound, WrapperShape
<1>10. EventsSound'
  <2>1. \A i \in 1 .. Len(events) : events[i] \in Events
    BY <1>2 DEF WrapperShape
  <2>2. \A i \in 1 .. Len(events') : i + 1 # 1 /\ events'[i].req \in Requests \ {r}
    BY <1>2, <1>3, <1>4, <2>1 DEF Events, EventsSound
  <2>3. \A i, j \in 1 .. Len(events') : i + 1 = j + 1 => i = j
    OBVIOUS
  <2>4. \A i \in 1 .. Len(events') :
           dl'[events'[i].req].pc = IF events'[i].kind = "get" THEN "none" ELSE "done"
    BY <1>2, <1>3, <1>5, <2>2 DEF EventsSound
  <2>5. \A i, j \in 1 .. Len(events') : events'[i].req = events'[j].req => i = j
    BY <1>2, <1>3, <2>3 DEF EventsSound
  <2> QED BY <2>4, <2>5 DEF EventsSound
<1>11. SlotSound'
  BY <1>1, <1>2, <1>4, <1>6 DEF SlotSound, SlotBusy
<1>12. NumbersKnown'
  BY <1>1, <1>5, <1>8, StaysKnown
<1>13. PowerInv'
  BY <1>1, <1>4, <1>5, <1>6, PowerKept
<1>14. AnswersSound'
  <2>1. \A i \in 1 .. Len(events) : i = 1 \/ i - 1 \in 1 .. Len(events')
    BY <1>1, <1>2 DEF WrapperShape
  <2>2. \A i \in 1 .. Len(events) : i = 1 \/ events'[i - 1] = events[i]
    BY <1>3, <2>1
  <2>3. ~SlotBusy
    BY <1>1 DEF SlotBusy
  <2> QED BY <1>1, <1>2, <1>4, <1>5, <2>1, <2>2, <2>3 DEF AnswersSound
<1> QED BY <1>14, <1>7, <1>9, <1>10, <1>11, <1>12, <1>13 DEF EngineInv

\* The answer of a thread is taken out of the queue: an error is handled at
\* once, a torrent becomes the active one.
LEMMA AnswerStep ==
    ASSUME WrapperInv, OnTorrentMetadataError \/ OnMetadataDownloaded
    PROVE  EngineInv'
<1> DEFINE r == Head(events).req
<1>1. /\ UNCHANGED << sessionVars, dl, calls, torrentReply, connected, activeTorrentIds,
                      notify, interrupted, sleepDisabled, announced, gui, cancels, unheard >>
      /\ slot.pc = "idle" /\ events # << >> /\ Head(events).kind = "metadata"
      /\ events' = Tail(events)
  BY DEF OnTorrentMetadataError, OnMetadataDownloaded
<1>2. /\ WrapperShape /\ DlSound /\ EventsSound /\ AnswersSound /\ SlotSound
      /\ NumbersKnown /\ PowerSound /\ AwakeOnlyForTorrents
  BY DEF WrapperInv, EngineInv, PowerInv
<1>3. /\ events' \in Seq(Events)
      /\ Head(events) = events[1] /\ events[1] \in Events /\ 1 \in 1 .. Len(events)
      /\ \A i \in 1 .. Len(events') :
            i + 1 \in 1 .. Len(events) /\ events'[i] = events[i + 1]
  BY <1>1, <1>2, TailEvents DEF WrapperShape
<1>4. r \in Requests /\ r = events[1].req /\ dl[r].pc = "done" /\ dl[r].index \in (-12 .. -1) \cup Ids
  BY <1>1, <1>2, <1>3 DEF Events, EventsSound, WrapperShape, DlStates
<1>5. /\ OnTorrentMetadataError =>
            /\ dl[r].index < 0 /\ handled' = handled \cup {r}
            /\ slot' = slot /\ activeTorrent' = activeTorrent /\ crossed' = crossed
      /\ OnMetadataDownloaded =>
            /\ dl[r].index >= 0 /\ handled' = handled
            /\ slot' = [slot EXCEPT !.pc = "stop", !.req = r]
            /\ activeTorrent' = dl[r].index /\ crossed' = (crossed \/ GuiBusy)
  BY DEF OnTorrentMetadataError, OnMetadataDownloaded
<1> HIDE DEF r
<1>6. EventsSound'
  <2>1. \A i, j \in 1 .. Len(events') : i + 1 = j + 1 => i = j
    OBVIOUS
  <2> QED BY <1>1, <1>2, <1>3, <2>1 DEF EventsSound
<1>a. \A q \in Requests : (\E i \in 1 .. Len(events) : events[i].req = q) =>
         q = r \/ \E i \in 1 .. Len(events') : events'[i].req = q
  <2>1. \A i \in 1 .. Len(events) : i = 1 \/ i - 1 \in 1 .. Len(events')
    BY <1>1, <1>2 DEF WrapperShape
  <2>2. \A i \in 1 .. Len(events) : i = 1 \/ events'[i - 1] = events[i]
    BY <1>3, <2>1
  <2> QED BY <1>3, <1>4, <2>1, <2>2
<1>b. ~SlotBusy /\ r = Head(events).req
  BY <1>1 DEF SlotBusy, r
<1>7. add' = add /\ tMap' = tMap
  BY <1>1 DEF sessionVars
<1>8. CASE OnTorrentMetadataError
  <2>1. handled' \subseteq Requests
    BY <1>2, <1>4, <1>5, <1>8 DEF WrapperShape
  <2>2. WrapperShape'
    BY <1>1, <1>2, <1>3, <1>5, <1>8, <2>1 DEF WrapperShape
  <2>3. DlSound'
    BY <1>1, <1>2, <1>4, <1>5, <1>7, <1>8 DEF DlSound
  <2>4. SlotSound' /\ PowerInv' /\ AnswersSound'
    <3>1. PowerInv'
      BY <1>1, <1>5, <1>8, PowerKept
    <3>2. SlotSound'
      BY <1>1, <1>2, <1>5, <1>8 DEF SlotSound, SlotBusy
    <3>3. AnswersSound'
      BY <1>1, <1>2, <1>5, <1>8, <1>a, <1>b DEF AnswersSound
    <3> QED BY <3>1, <3>2, <3>3
  <2>5. add[r].pc # "returned" /\ dl[r].index \notin Ids
    BY <1>2, <1>4, <1>5, <1>8 DEF DlSound, Ids
  <2>6. NumbersKnown'
    <3>1. DOMAIN tMap \subseteq Ids
      BY DEF WrapperInv, SessionInv, SessionTypeOK
    <3> SUFFICES ASSUME NEW id \in DOMAIN tMap, id \notin announced
                 PROVE  \E q \in Requests \ handled' :
                           dl[q].index = id \/ (add[q].pc = "returned" /\ add[q].result = id)
      BY <1>1, <1>7 DEF NumbersKnown
    <3>2. PICK q \in Requests \ handled :
             dl[q].index = id \/ (add[q].pc = "returned" /\ add[q].result = id)
      BY <1>2 DEF NumbersKnown
    <3>3. q # r
      BY <2>5, <3>1, <3>2
    <3> QED BY <1>5, <1>8, <3>2, <3>3
  <2> QED BY <1>6, <2>2, <2>3, <2>4, <2>6 DEF EngineInv
<1>9. CASE OnMetadataDownloaded
  <2>1. dl[r].index \in Ids
    BY <1>4, <1>5, <1>9
  <2>2. slot' \in SlotStates /\ slot'.pc = "stop" /\ slot'.req = r
    BY <1>2, <1>4, <1>5, <1>9 DEF WrapperShape, SlotStates, SlotPcs
  <2>3. WrapperShape'
    BY <1>1, <1>2, <1>3, <1>5, <1>9, <2>1, <2>2 DEF WrapperShape
  <2>4. DlSound'
    BY <1>1, <1>2, <1>5, <1>7, <1>9 DEF DlSound
  <2>5. SlotSound' /\ AnswersSound'
    <3>1. SlotSound'
      BY <1>1, <1>2, <1>4, <2>1, <2>2 DEF SlotSound, SlotBusy
    <3>2. SlotBusy'
      BY <2>2 DEF SlotBusy
    <3>3. AnswersSound'
      BY <1>1, <1>2, <1>5, <1>9, <1>a, <1>b, <2>2, <3>2 DEF AnswersSound
    <3> QED BY <3>1, <3>3
  <2>6. NumbersKnown'
    BY <1>1, <1>5, <1>7, <1>9, StaysKnown
  <2>7. PowerInv'
    <3>1. \A id : Listed(id)' <=> Listed(id)
      BY <1>1 DEF Listed
    <3>2. /\ IsEmpty' <=> IsEmpty
          /\ GuiBusy' <=> GuiBusy
      BY <1>1, <3>1 DEF IsEmpty, GuiBusy
    <3>3. crossed' = (crossed \/ GuiBusy) /\ activeTorrent' = dl[r].index /\ dl' = dl
      BY <1>1, <1>5, <1>9
    <3>4. dl[r].index # NoTorrent
      BY <2>1 DEF Ids, NoTorrent
    <3>5. PowerSound'
      BY <1>1, <1>2, <2>2, <3>1, <3>2, <3>3, <3>4 DEF PowerSound
    <3>6. AwakeOnlyForTorrents'
      BY <1>1, <1>2, <2>2, <3>1, <3>3 DEF AwakeOnlyForTorrents
    <3> QED BY <3>5, <3>6 DEF PowerInv
  <2> QED BY <1>6, <2>3, <2>4, <2>5, <2>6, <2>7 DEF EngineInv
<1> QED BY <1>8, <1>9

\* get() called in the GUI thread starts a thread that has not run.
LEMMA DirectStep ==
    ASSUME WrapperInv, NEW r \in Requests, GetDirect(r)
    PROVE  EngineInv'
<1>1. /\ UNCHANGED << sessionVars, calls, torrentReply, connected, events, slot,
                      activeTorrent, activeTorrentIds, notify, interrupted,
                      sleepDisabled, announced, handled, cancels, unheard, crossed >>
      /\ dl[r].pc = "none" /\ DlMoves(r, "start") /\ gui.pc = "idle"
      /\ gui' = [gui EXCEPT !.pc = "connect", !.req = r]
      /\ \A i \in 1 .. Len(events) : events[i].req # r
  BY DEF GetDirect
<1>2. WrapperShape /\ DlSound /\ EventsSound /\ AnswersSound /\ SlotSound
  BY DEF WrapperInv, EngineInv
<1>3. /\ dl' \in [Requests -> DlStates]
      /\ \A q \in Requests \ {r} : dl'[q] = dl[q]
      /\ dl'[r].pc = "start" /\ dl'[r].index = dl[r].index
  BY <1>1, <1>2, DlMovesOne DEF DlPcs
<1>4. gui' \in GuiStates /\ gui'.pc = "connect" /\ gui'.req = r
  BY <1>1, <1>2 DEF WrapperShape, GuiStates, GuiPcs
<1>5. WrapperShape'
  BY <1>1, <1>2, <1>3, <1>4 DEF WrapperShape
<1>6. add' = add /\ tMap' = tMap
  BY <1>1 DEF sessionVars
<1>7. DlSound'
  BY <1>1, <1>2, <1>3, <1>6 DEF DlSound, WrapperShape
<1>8. EventsSound' /\ AnswersSound' /\ SlotSound'
  <2>1. \A i \in 1 .. Len(events) : events[i] \in Events
    BY <1>2 DEF WrapperShape
  <2>2. \A i \in 1 .. Len(events) : events[i].req \in Requests \ {r}
    BY <1>1, <2>1 DEF Events
  <2>3. EventsSound'
    BY <1>1, <1>2, <1>3, <2>2 DEF EventsSound
  <2>4. AnswersSound'
    BY <1>1, <1>2, <1>3 DEF AnswersSound, SlotBusy
  <2>5. SlotSound'
    BY <1>1, <1>2, <1>3, <1>4 DEF SlotSound, SlotBusy
  <2> QED BY <2>3, <2>4, <2>5
<1>9. NumbersKnown'
  BY <1>1, <1>3, <1>6, StaysKnown
<1>10. PowerInv'
  BY <1>1, <1>3, <1>4, PowerKept
<1> QED BY <1>5, <1>7, <1>8, <1>9, <1>10 DEF EngineInv

\* The slots' other statements: connecting, stopping and starting the notify
\* thread, announcing and listing the torrent.
LEMMA SlotStep ==
    ASSUME WrapperInv,
           \/ ConnectThread \/ SlotStop \/ SlotWaited \/ StartNotify
           \/ Announce \/ DisableSleep \/ AppendId
    PROVE  EngineInv'
<1>1. UNCHANGED << sessionVars, dl, calls, torrentReply, events, activeTorrent, gui,
                   cancels, unheard, crossed >>
  BY DEF ConnectThread, SlotStop, SlotWaited, StartNotify, Announce, DisableSleep, AppendId
<1>2. /\ WrapperShape /\ DlSound /\ EventsSound /\ AnswersSound /\ SlotSound
      /\ NumbersKnown /\ PowerSound /\ AwakeOnlyForTorrents
  BY DEF WrapperInv, EngineInv, PowerInv
<1>3. add' = add /\ tMap' = tMap
  BY <1>1 DEF sessionVars
<1>4. EventsSound'
  BY <1>1, <1>2 DEF EventsSound
<1>5. slot \in SlotStates /\ notify \in NotifyStates /\ activeTorrent \in {NoTorrent} \cup Ids
  BY <1>2 DEF WrapperShape
<1>6. CASE ConnectThread
  <2>1. slot.req \in Requests /\ slot.pc = "connect"
    BY <1>2, <1>6 DEF SlotSound, ConnectThread
  <2>2. slot' \in SlotStates /\ slot'.pc = "idle"
    BY <1>5, <1>6 DEF ConnectThread, SlotStates, SlotPcs
  <2>3. WrapperShape'
    BY <1>1, <1>2, <1>6, <2>1, <2>2 DEF WrapperShape, ConnectThread
  <2>4. DlSound' /\ SlotSound' /\ AnswersSound'
    BY <1>1, <1>2, <1>3, <1>6, <2>1, <2>2
    DEF DlSound, SlotSound, AnswersSound, SlotBusy, ConnectThread
  <2>5. NumbersKnown'
    BY <1>1, <1>3, <1>6, StaysKnown DEF ConnectThread
  <2>6. PowerInv'
    BY <1>1, <1>6, <2>1, <2>2, PowerKept DEF ConnectThread
  <2> QED BY <1>4, <2>3, <2>4, <2>5, <2>6 DEF EngineInv
<1>7. CASE SlotStop \/ SlotWaited \/ StartNotify
  <2>1. /\ slot' \in SlotStates /\ slot'.req = slot.req
        /\ slot.pc \in {"stop", "wait", "run"} /\ slot'.pc \in {"wait", "run", "announce"}
    <3>1. CASE SlotStop
      BY <1>5, <3>1 DEF SlotStop, SlotStates, SlotPcs
    <3>2. CASE SlotWaited
      BY <1>5, <3>2 DEF SlotWaited, SlotStates, SlotPcs
    <3>3. CASE StartNotify
      BY <1>5, <3>3 DEF StartNotify, SlotStates, SlotPcs
    <3> QED BY <1>7, <3>1, <3>2, <3>3
  <2>2. notify' \in NotifyStates /\ interrupted' \in BOOLEAN
    <3>1. CASE StartNotify
      <4>1. slot.tId \in {0, NoTorrent} \cup Ids /\ slot.req \in Requests \cup {NoReq}
        BY <1>5 DEF SlotStates
      <4> QED BY <3>1, <4>1 DEF StartNotify, NotifyStates
    <3>2. CASE SlotStop \/ SlotWaited
      BY <1>2, <3>2 DEF SlotStop, SlotWaited, WrapperShape
    <3> QED BY <1>7, <3>1, <3>2
  <2>3. UNCHANGED << connected, activeTorrentIds, sleepDisabled, announced, handled >>
    BY <1>7 DEF SlotStop, SlotWaited, StartNotify
  <2>4. WrapperShape'
    BY <1>1, <1>2, <2>1, <2>2, <2>3 DEF WrapperShape
  <2>5. SlotBusy /\ SlotBusy'
    BY <2>1 DEF SlotBusy
  <2>6. DlSound' /\ SlotSound' /\ AnswersSound'
    BY <1>1, <1>2, <1>3, <2>1, <2>3, <2>5 DEF DlSound, SlotSound, AnswersSound
  <2>7. NumbersKnown'
    BY <1>1, <1>3, <2>3, StaysKnown
  <2>8. PowerInv'
    <3>1. /\ \A id : Listed(id)' <=> Listed(id)
          /\ GuiBusy' <=> GuiBusy
      BY <1>1, <2>3 DEF Listed, GuiBusy
    <3>2. IsEmpty' <=> IsEmpty
      BY <3>1 DEF IsEmpty
    <3>3. PowerSound'
      BY <1>1, <1>2, <2>1, <2>3, <2>5, <3>1, <3>2 DEF PowerSound
    <3>4. AwakeOnlyForTorrents'
      BY <1>1, <1>2, <2>1, <2>3, <3>1 DEF AwakeOnlyForTorrents
    <3> QED BY <3>3, <3>4 DEF PowerInv
  <2> QED BY <1>4, <2>4, <2>6, <2>7, <2>8 DEF EngineInv
<1>8. CASE Announce \/ DisableSleep
  <2>1. /\ slot.pc \in {"announce", "disable"} /\ SlotBusy
        /\ slot.req \in Requests /\ dl[slot.req].pc = "done" /\ dl[slot.req].index \in Ids
    BY <1>2, <1>8 DEF SlotSound, SlotBusy, Announce, DisableSleep
  <2>2. /\ slot' \in SlotStates /\ slot'.req = slot.req /\ SlotBusy'
        /\ slot'.pc \in {"disable", "append"}
    BY <1>5, <1>8 DEF Announce, DisableSleep, SlotStates, SlotPcs, SlotBusy
  <2>3. /\ UNCHANGED << connected, activeTorrentIds, notify, interrupted, handled >>
        /\ announced' = announced \cup {dl[slot.req].index}
        /\ sleepDisabled' \in BOOLEAN /\ (sleepDisabled => sleepDisabled')
    <3>1. CASE Announce
      BY <1>2, <3>1 DEF Announce, WrapperShape
    <3>2. CASE DisableSleep
      BY <1>2, <3>2 DEF DisableSleep, SlotSound
    <3> QED BY <1>8, <3>1, <3>2
  <2>4. WrapperShape'
    BY <1>1, <1>2, <2>1, <2>2, <2>3 DEF WrapperShape
  <2>5. DlSound' /\ SlotSound' /\ AnswersSound'
    BY <1>1, <1>2, <1>3, <2>1, <2>2, <2>3 DEF DlSound, SlotSound, AnswersSound
  <2>6. NumbersKnown'
    BY <1>1, <1>3, <2>3, StaysKnown
  <2>7. PowerInv'
    <3>1. /\ \A id : Listed(id)' <=> Listed(id)
          /\ GuiBusy' <=> GuiBusy
      BY <1>1, <2>3 DEF Listed, GuiBusy
    <3>2. IsEmpty' <=> IsEmpty
      BY <3>1 DEF IsEmpty
    <3>3. slot'.pc = "append" => sleepDisabled' \/ (~IsEmpty /\ sleepDisabled' = sleepDisabled)
      BY <1>5, <1>8 DEF Announce, DisableSleep, SlotStates
    <3>4. ~crossed => \A id \in {NoTorrent} \cup Ids : Listed(id) => id \in announced
      BY <1>2 DEF PowerSound
    <3>5. slot'.pc = "append" => sleepDisabled' \/ crossed
      BY <1>2, <3>3, <3>4 DEF AwakeOnlyForTorrents, IsEmpty
    <3>6. PowerSound'
      BY <1>1, <1>2, <2>1, <2>2, <2>3, <3>1, <3>2, <3>5 DEF PowerSound
    <3>7. (\E id \in announced' : Listed(id)) => (\E id \in announced : Listed(id)) \/ crossed
                                                  \/ sleepDisabled'
      <4>1. \A id \in announced' : id \in {NoTorrent} \cup Ids
        BY <2>4 DEF WrapperShape
      <4> QED BY <3>4, <4>1
    <3>8. AwakeOnlyForTorrents'
      <4>1. slot'.pc = "disable" => sleepDisabled' = sleepDisabled /\ slot.pc # "append"
        BY <1>5, <1>8 DEF Announce, DisableSleep, SlotStates
      <4> QED
        BY <1>1, <1>2, <2>2, <2>3, <3>1, <3>7, <4>1 DEF AwakeOnlyForTorrents
    <3> QED BY <3>6, <3>8 DEF PowerInv
  <2> QED BY <1>4, <2>4, <2>5, <2>6, <2>7 DEF EngineInv
<1>9. CASE AppendId
  <2>1. /\ slot.req \in Requests /\ dl[slot.req].pc = "done"
        /\ dl[slot.req].index \in announced /\ slot.pc = "append" /\ SlotBusy
    BY <1>2, <1>9 DEF SlotSound, SlotBusy, AppendId
  <2>2. slot' \in SlotStates /\ slot'.pc = "idle" /\ ~SlotBusy'
    BY <1>5, <1>9 DEF AppendId, SlotStates, SlotPcs, SlotBusy
  <2>3. /\ UNCHANGED << connected, notify, interrupted, sleepDisabled, announced >>
        /\ activeTorrentIds' = [activeTorrentIds EXCEPT ![activeTorrent] = @ + 1]
        /\ handled' = handled \cup {slot.req}
    BY <1>9 DEF AppendId
  <2>4. /\ activeTorrentIds' \in [{NoTorrent} \cup Ids -> Nat]
        /\ \A id \in ({NoTorrent} \cup Ids) \ {activeTorrent} : Listed(id)' <=> Listed(id)
        /\ Listed(activeTorrent)'
    BY <1>1, <1>2, <1>5, <2>3 DEF WrapperShape, Listed
  <2>5. WrapperShape'
    BY <1>1, <1>2, <2>1, <2>2, <2>3, <2>4 DEF WrapperShape
  <2>6. DlSound' /\ SlotSound' /\ AnswersSound'
    BY <1>1, <1>2, <1>3, <2>1, <2>2, <2>3 DEF DlSound, SlotSound, AnswersSound
  <2>7. add[slot.req].pc # "returned"
    BY <1>2, <2>1 DEF DlSound
  <2>8. NumbersKnown'
    <3> SUFFICES ASSUME NEW id \in DOMAIN tMap, id \notin announced
                 PROVE  \E q \in Requests \ handled' :
                           dl[q].index = id \/ (add[q].pc = "returned" /\ add[q].result = id)
      BY <1>1, <1>3, <2>3 DEF NumbersKnown
    <3>1. PICK q \in Requests \ handled :
             dl[q].index = id \/ (add[q].pc = "returned" /\ add[q].result = id)
      BY <1>2 DEF NumbersKnown
    <3>2. q # slot.req
      BY <2>1, <2>7, <3>1
    <3> QED BY <2>3, <3>1, <3>2
  <2>9. PowerInv'
    <3>1. activeTorrent = NoTorrent \/ activeTorrent \in announced
      BY <1>2, <2>1 DEF PowerSound
    <3>2. ~crossed => /\ ~GuiBusy /\ activeTorrent # NoTorrent /\ sleepDisabled
                      /\ gui.pc # "enable"
      BY <1>2, <2>1 DEF PowerSound, GuiBusy
    <3>3. announced \subseteq Ids /\ NoTorrent \notin Ids
      BY <1>2 DEF WrapperShape, Ids, NoTorrent
    <3>4. PowerSound'
      BY <1>1, <1>2, <2>2, <2>3, <2>4, <3>1, <3>2 DEF PowerSound
    <3>5. AwakeOnlyForTorrents'
      BY <1>1, <1>2, <2>2, <2>3, <2>4, <3>1, <3>2 DEF AwakeOnlyForTorrents
    <3> QED BY <3>4, <3>5 DEF PowerInv
  <2> QED BY <1>4, <2>5, <2>6, <2>8, <2>9 DEF EngineInv
<1> QED BY <1>6, <1>7, <1>8, <1>9

\* cancel() in the GUI thread, the end of its get(), and the end of the notify
\* thread.
LEMMA GuiStep ==
    ASSUME WrapperInv,
           \/ NotifyExit \/ GuiConnect \/ CancelStep
           \/ \E index \in announced \cup {NoTorrent} : Cancel(index)
    PROVE  EngineInv'
<1>1. /\ UNCHANGED << dl, calls, torrentReply, events, slot, announced, handled, unheard >>
      /\ add' = add /\ DOMAIN tMap' \subseteq DOMAIN tMap
  BY DEF NotifyExit, GuiConnect, CancelStep, CancelStop, CancelWaited, CancelRemove,
     CancelTest, RestoreSleep, CancelDelete, DeleteTorrent, Without, Cancel, sessionVars
<1>2. /\ WrapperShape /\ DlSound /\ EventsSound /\ AnswersSound /\ SlotSound
      /\ PowerSound /\ AwakeOnlyForTorrents
  BY DEF WrapperInv, EngineInv, PowerInv
<1>3. DlSound' /\ EventsSound' /\ AnswersSound'
  BY <1>1, <1>2 DEF DlSound, EventsSound, AnswersSound, SlotBusy
<1>4. NumbersKnown'
  BY <1>1, StaysKnown
<1>5. gui \in GuiStates /\ notify.req \in Requests \cup {NoReq}
  BY <1>2 DEF WrapperShape, NotifyStates
<1>6. (SlotBusy' <=> SlotBusy) /\ dl' = dl /\ slot' = slot
  BY <1>1 DEF SlotBusy
<1>7. ASSUME gui'.pc # "connect" \/ gui' = gui PROVE SlotSound'
  BY <1>1, <1>2, <1>6, <1>7 DEF SlotSound
<1>8. ASSUME activeTorrentIds' = activeTorrentIds
      PROVE  (\A id : Listed(id)' <=> Listed(id)) /\ (IsEmpty' <=> IsEmpty)
  BY <1>8 DEF Listed, IsEmpty
<1>9. WrapperShape' /\ PowerInv' /\ SlotSound'
  <2>1. CASE NotifyExit
    <3>1. notify' \in NotifyStates
      BY <2>1 DEF NotifyExit, NotRunning, NotifyStates
    <3>2. PowerInv'
      BY <1>1, <2>1, PowerKept DEF NotifyExit
    <3> QED BY <1>1, <1>2, <1>7, <2>1, <3>1, <3>2 DEF NotifyExit, WrapperShape
  <2>2. ASSUME NEW index \in announced \cup {NoTorrent}, Cancel(index)
        PROVE  WrapperShape' /\ PowerInv' /\ SlotSound'
    <3>1. index \in {NoTorrent} \cup Ids /\ activeTorrent \in {NoTorrent} \cup Ids
      BY <1>2 DEF WrapperShape
    <3>2. gui' \in GuiStates /\ gui.pc = "idle" /\ gui'.pc = "stop"
      BY <1>5, <2>2, <3>1 DEF Cancel, GuiStates, GuiPcs
    <3>3. cancels' \in 0 .. MaxCancels
      <4>1. cancels \in 0 .. MaxCancels /\ cancels < MaxCancels /\ cancels' = cancels + 1
        BY <1>2, <2>2 DEF Cancel, WrapperShape
      <4> QED BY <4>1, RequestAssumption
    <3>4. /\ activeTorrent' = NoTorrent /\ crossed' = (crossed \/ SlotBusy)
          /\ UNCHANGED << connected, activeTorrentIds, notify, interrupted, sleepDisabled >>
      BY <2>2 DEF Cancel
    <3>5. WrapperShape'
      BY <1>1, <1>2, <3>2, <3>3, <3>4 DEF WrapperShape
    <3>6. PowerSound'
      BY <1>1, <1>2, <1>6, <1>8, <3>2, <3>4 DEF PowerSound
    <3>7. AwakeOnlyForTorrents'
      BY <1>1, <1>2, <1>8, <3>2, <3>4 DEF AwakeOnlyForTorrents
    <3> QED BY <1>7, <3>2, <3>5, <3>6, <3>7 DEF PowerInv
  <2>3. CASE CancelStop \/ CancelWaited
    <3>1. /\ gui' \in GuiStates /\ gui.pc \in {"stop", "wait"}
          /\ gui'.pc \in {"wait", "remove"}
      BY <1>5, <2>3 DEF CancelStop, CancelWaited, GuiStates, GuiPcs
    <3>2. UNCHANGED << connected, activeTorrent, activeTorrentIds, notify, sleepDisabled,
                       cancels, crossed >>
          /\ interrupted' \in BOOLEAN
      BY <1>2, <2>3 DEF CancelStop, CancelWaited, WrapperShape
    <3>3. GuiBusy /\ GuiBusy'
      BY <3>1 DEF GuiBusy
    <3>4. PowerSound'
      BY <1>1, <1>2, <1>6, <1>8, <3>1, <3>2, <3>3 DEF PowerSound
    <3>5. AwakeOnlyForTorrents'
      BY <1>1, <1>2, <1>8, <3>1, <3>2 DEF AwakeOnlyForTorrents
    <3> QED BY <1>1, <1>2, <1>7, <3>1, <3>2, <3>4, <3>5 DEF WrapperShape, PowerInv
  <2>4. CASE CancelRemove
    <3>1. gui' \in GuiStates /\ gui'.pc = "restore" /\ gui.pc = "remove"
      BY <1>5, <2>4 DEF CancelRemove, GuiStates, GuiPcs
    <3>2. /\ UNCHANGED << connected, activeTorrent, notify, interrupted, sleepDisabled,
                          cancels, crossed >>
          /\ activeTorrentIds' = [activeTorrentIds EXCEPT
                                    ![gui.index] = IF Listed(gui.index) THEN @ - 1 ELSE @]
      BY <2>4 DEF CancelRemove
    <3>3. gui.index \in {NoTorrent} \cup Ids
      BY <1>5 DEF GuiStates
    <3>4. /\ activeTorrentIds' \in [{NoTorrent} \cup Ids -> Nat]
          /\ \A id \in {NoTorrent} \cup Ids : Listed(id)' => Listed(id)
      BY <1>2, <3>2, <3>3 DEF WrapperShape, Listed
    <3>5. GuiBusy /\ GuiBusy' /\ NoTorrent \in {NoTorrent} \cup Ids
      BY <3>1 DEF GuiBusy
    <3>6. PowerSound'
      BY <1>1, <1>2, <1>6, <3>1, <3>2, <3>4, <3>5 DEF PowerSound
    <3>7. announced \subseteq Ids
      BY <1>2 DEF WrapperShape
    <3>8. AwakeOnlyForTorrents'
      BY <1>1, <1>2, <3>1, <3>2, <3>4, <3>7 DEF AwakeOnlyForTorrents
    <3> QED BY <1>1, <1>2, <1>7, <3>1, <3>2, <3>4, <3>6, <3>8 DEF WrapperShape, PowerInv
  <2>5. CASE CancelTest
    <3>1. /\ gui' \in GuiStates /\ gui.pc = "restore"
          /\ gui'.pc = IF IsEmpty THEN "enable" ELSE "delete"
      BY <1>5, <2>5 DEF CancelTest, NoTorrentLeft, GuiStates, GuiPcs
    <3>2. UNCHANGED << connected, activeTorrent, activeTorrentIds, notify, interrupted,
                       sleepDisabled, cancels, crossed >>
      BY <2>5 DEF CancelTest
    <3>3. GuiBusy
      BY <3>1 DEF GuiBusy
    <3>4. PowerSound'
      BY <1>1, <1>2, <1>6, <1>8, <3>1, <3>2, <3>3 DEF PowerSound
    <3>5. ~IsEmpty => \/ \E id \in announced : Listed(id)
                      \/ crossed /\ Listed(NoTorrent)
      BY <1>2 DEF PowerSound, IsEmpty
    <3>6. AwakeOnlyForTorrents'
      BY <1>1, <1>2, <1>8, <3>1, <3>2, <3>5 DEF AwakeOnlyForTorrents
    <3> QED BY <1>1, <1>2, <1>7, <3>1, <3>2, <3>4, <3>6 DEF WrapperShape, PowerInv
  <2>6. CASE RestoreSleep
    <3>1. gui' \in GuiStates /\ gui.pc = "enable" /\ gui'.pc = "delete"
      BY <1>5, <2>6 DEF RestoreSleep, GuiStates, GuiPcs
    <3>2. /\ UNCHANGED << connected, activeTorrent, activeTorrentIds, notify, interrupted,
                          cancels >>
          /\ sleepDisabled' = FALSE /\ crossed' = (crossed /\ (SlotBusy \/ ~IsEmpty))
      BY <2>6 DEF RestoreSleep
    <3>3. GuiBusy /\ ~GuiBusy' /\ (~SlotBusy => slot.pc # "append")
      BY <3>1 DEF GuiBusy, SlotBusy
    <3>4. ~crossed' => ~SlotBusy /\ IsEmpty
      BY <1>2, <3>1, <3>2, <3>3 DEF PowerSound
    <3>5. announced \subseteq Ids
      BY <1>2 DEF WrapperShape
    <3>6. PowerSound'
      BY <1>1, <1>2, <1>6, <1>8, <3>1, <3>2, <3>3, <3>4 DEF PowerSound, IsEmpty
    <3>7. AwakeOnlyForTorrents'
      BY <1>1, <1>8, <3>2, <3>4, <3>5 DEF AwakeOnlyForTorrents, IsEmpty
    <3>8. crossed' \in BOOLEAN
      BY <3>2
    <3> QED BY <1>1, <1>2, <1>7, <3>1, <3>2, <3>6, <3>7, <3>8 DEF WrapperShape, PowerInv
  <2>7. CASE CancelDelete
    <3>1. gui' \in GuiStates /\ gui.pc = "delete" /\ gui'.pc = "idle"
      BY <1>5, <2>7 DEF CancelDelete, GuiStates, GuiPcs
    <3>2. UNCHANGED << connected, activeTorrent, activeTorrentIds, notify, interrupted,
                       sleepDisabled, cancels, crossed >>
      BY <2>7 DEF CancelDelete
    <3>3. ~GuiBusy /\ ~GuiBusy'
      BY <3>1 DEF GuiBusy
    <3>4. PowerSound'
      BY <1>1, <1>2, <1>6, <1>8, <3>1, <3>2, <3>3 DEF PowerSound
    <3>5. AwakeOnlyForTorrents'
      BY <1>1, <1>2, <1>8, <3>1, <3>2 DEF AwakeOnlyForTorrents
    <3> QED BY <1>1, <1>2, <1>7, <3>1, <3>2, <3>4, <3>5 DEF WrapperShape, PowerInv
  <2>8. CASE GuiConnect
    <3>1. gui' \in GuiStates /\ gui.pc = "connect" /\ gui'.pc = "idle"
      BY <1>5, <2>8 DEF GuiConnect, GuiStates, GuiPcs
    <3>2. /\ UNCHANGED << activeTorrent, activeTorrentIds, notify, interrupted,
                          sleepDisabled, cancels, crossed >>
          /\ connected' = connected \cup {gui.req}
      BY <2>8 DEF GuiConnect
    <3>3. gui.req \in Requests
      BY <1>2, <3>1 DEF SlotSound
    <3>4. PowerInv'
      BY <1>1, <3>1, <3>2, PowerKept
    <3> QED BY <1>1, <1>2, <1>7, <3>1, <3>2, <3>3, <3>4 DEF WrapperShape
  <2> QED BY <2>1, <2>2, <2>3, <2>4, <2>5, <2>6, <2>7, <2>8 DEF CancelStep
<1> QED BY <1>3, <1>4, <1>9 DEF EngineInv

-----------------------------------------------------------------------------
(* The theorems *)

LEMMA WrapperStep == WrapperInv /\ [WrapperNext]_allVars => WrapperInv'
<1> SUFFICES ASSUME WrapperInv, [WrapperNext]_allVars PROVE WrapperInv'
  OBVIOUS
<1>1. SessionInv'
  BY WrapperRefinesSession, SessionStep DEF WrapperInv
<1> SUFFICES EngineInv'
  BY <1>1 DEF WrapperInv
<1>2. ASSUME NEW r \in Requests, GetTorrent(r) \/ GetDirect(r) PROVE EngineInv'
  BY <1>2, PostStep, DirectStep
<1>3. ASSUME NEW r \in Requests, DlStep(r) PROVE EngineInv'
  <2>1. CASE DlStart(r) \/ DlGotFile(r) \/ DlTimeout(r) \/ DlNoMagnet(r)
    BY <2>1, ThreadStep
  <2>2. CASE DlImport(r) \/ DlAddMagnet(r)
    BY <2>2, CallStep
  <2>3. CASE DlImported(r) \/ DlMagnetAdded(r)
    BY <2>3, ResultStep
  <2>4. CASE DlEmit(r)
    BY <2>4, EmitStep
  <2>5. CASE DlInAddTorrent(r)
    BY <2>5, InnerStep DEF DlInAddTorrent
  <2> QED BY <1>3, <2>1, <2>2, <2>3, <2>4, <2>5 DEF DlStep
<1>4. CASE \/ GetTorrentFile
           \/ \E file \in Hashes \cup {Empty, NoFile} : OnTorrentFileReqestFinished(file)
  BY <1>4, RequesterStep
<1>5. CASE TorrentThreadStep
  BY <1>5, GetStep, AnswerStep, SlotStep DEF TorrentThreadStep
<1>6. CASE NotifyPoll
  BY <1>6, InnerStep DEF NotifyPoll
<1>7. CASE \/ NotifyExit \/ GuiConnect \/ CancelStep
           \/ \E index \in announced \cup {NoTorrent} : Cancel(index)
  BY <1>7, GuiStep
<1>8. ASSUME NEW x \in Hashes, ReceiveMetadata(x) /\ UNCHANGED wrapperVars PROVE EngineInv'
  BY <1>8, InnerStep
<1>9. CASE UNCHANGED allVars
  <2>1. UNCHANGED << sessionVars, wrapperVars >>
    BY <1>9 DEF allVars
  <2>2. PowerInv'
    BY <2>1, PowerKept DEF wrapperVars
  <2> QED
    BY <2>1, <2>2 DEF sessionVars, wrapperVars, WrapperInv, EngineInv, WrapperShape, DlSound,
       EventsSound, AnswersSound, SlotSound, SlotBusy, NumbersKnown
<1> QED
  BY <1>2, <1>3, <1>4, <1>5, <1>6, <1>7, <1>8, <1>9 DEF WrapperNext

\* The inductive invariant holds in every state the engine reaches.
THEOREM WrapperAlways == WrapperSpec => []WrapperInv
<1> QED BY InitWrapper, WrapperStep, PTL DEF WrapperSpec

\* The engine uses the torrent session only by its operations: every behaviour
\* of it is one of Streamerok, whose theorems therefore hold of it.
THEOREM WrapperImplementsSession == WrapperSpec => SessionSpec
<1>1. WrapperInit => SessionInit
  BY DEF WrapperInit
<1>2. WrapperInv /\ [WrapperNext]_allVars => [SessionNext]_sessionVars
  BY WrapperRefinesSession
<1> QED BY <1>1, <1>2, WrapperAlways, PTL DEF WrapperSpec, SessionSpec

\* What the wrapper takes for a torrent number is one, or -1: also the index
\* that cancel reads from the shared field and the notify thread polls.
THEOREM WrapperTypes == WrapperSpec => []WrapperTypeOK
<1>1. WrapperInv => WrapperTypeOK
  <2> SUFFICES ASSUME WrapperInv PROVE WrapperTypeOK
    OBVIOUS
  <2>1. SessionTypeOK /\ WrapperShape
    BY DEF WrapperInv, EngineInv, SessionInv
  <2>2. \A r \in Requests : /\ dl[r].pc \in DlPcs
                            /\ dl[r].file \in Hashes \cup {NoFile, Empty}
                            /\ dl[r].index \in -12 .. INT_MAX - 1
    <3>1. \A r \in Requests : dl[r] \in DlStates
      BY <2>1 DEF WrapperShape
    <3>2. (-12 .. -1) \cup Ids \subseteq -12 .. INT_MAX - 1
      BY BoundAssumption DEF Ids
    <3> QED BY <3>1, <3>2 DEF DlStates
  <2>3. /\ slot.pc \in SlotPcs /\ slot.req \in Requests \cup {NoReq}
        /\ slot.tId \in {0, NoTorrent} \cup Ids
    BY <2>1 DEF WrapperShape, SlotStates
  <2>4. /\ notify.tId \in {0, NoTorrent} \cup Ids /\ notify.req \in Requests \cup {NoReq}
        /\ gui.pc \in GuiPcs /\ gui.index \in {NoTorrent} \cup Ids
    BY <2>1 DEF WrapperShape, NotifyStates, GuiStates
  <2> QED BY <2>1, <2>2, <2>3, <2>4 DEF WrapperTypeOK, WrapperShape, Events
<1> QED BY <1>1, WrapperAlways, PTL

\* Every torrent of the session that has a file to play can be stopped: the page
\* knows a number that leads to it, or a request under way has it, or its request
\* ended before get() had connected the signals.  NoLostTorrent says that a number
\* or a call leads to it, NumbersKnown and AnswersSound whose number that is.
THEOREM TorrentsKnown == WrapperSpec => []EveryTorrentKnown
<1>1. WrapperInv => EveryTorrentKnown
  <2> SUFFICES ASSUME WrapperInv, NEW x \in Hashes \ Fileless, session[x] # None,
                      adds < INT_MAX,
                      ~\E id \in announced \cap DOMAIN tMap : tMap[id] = session[x]
               PROVE  \E r \in Requests : /\ UnderWay(r) \/ r \in unheard
                                          /\ Has(r, session[x])
    BY DEF EveryTorrentKnown
  <2>1. /\ NoLostTorrent /\ DlSound /\ AnswersSound /\ NumbersKnown
        /\ DOMAIN tMap \subseteq Ids
    BY DEF WrapperInv, EngineInv, SessionInv, SessionTypeOK
  <2>2. ASSUME NEW r \in Callers, add[r].pc \in AddPcs, add[r].handle = session[x]
        PROVE  r \in Requests /\ UnderWay(r) /\ Has(r, session[x])
    BY <2>1, <2>2 DEF DlSound, UnderWay, Has, AddPcs, Requests
  <2>3. ASSUME NEW id \in DOMAIN tMap, tMap[id] = session[x]
        PROVE  \E r \in Requests : /\ UnderWay(r) \/ r \in unheard
                                   /\ Has(r, session[x])
    <3>1. PICK r \in Requests \ handled :
             dl[r].index = id \/ (add[r].pc = "returned" /\ add[r].result = id)
      BY <2>1, <2>3 DEF NumbersKnown
    <3>2. Has(r, session[x])
      BY <2>3, <3>1 DEF Has
    <3>3. dl[r].pc \in {"importing", "magnet", "emit", "done"}
      BY <2>1, <2>3, <3>1 DEF DlSound, Ids
    <3>4. UnderWay(r) \/ r \in unheard
      BY <2>1, <3>1, <3>3 DEF AnswersSound, UnderWay
    <3> QED BY <3>2, <3>4
  <2> QED BY <2>1, <2>2, <2>3 DEF NoLostTorrent
<1> QED BY <1>1, WrapperAlways, PTL

\* The computer is kept awake only for a listed torrent, or for the -1 that an
\* overlap of cancel and onMetadataDownloaded leaves; and without an overlap it
\* is kept awake for every listed torrent.
THEOREM AwakeForTorrents == WrapperSpec => []AwakeOnlyForTorrents
<1>1. WrapperInv => AwakeOnlyForTorrents
  BY DEF WrapperInv, EngineInv, PowerInv
<1> QED BY <1>1, WrapperAlways, PTL

\* Downloads of the whole engine are never lost from the session's map, and a
\* number addTorrent returned names a torrent (from the refinement).
THEOREM EngineKeepsTorrents == WrapperSpec => [](NoLostTorrent /\ ResultMeansTorrent)
<1> QED BY WrapperImplementsSession, TorrentsReachable, ResultsHold, PTL
=============================================================================
