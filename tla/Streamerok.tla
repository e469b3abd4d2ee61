----------------------------- MODULE Streamerok -----------------------------
(***************************************************************************)
(* The torrent session of lib/streamerok.cpp: class Streamerok with its    *)
(* map tMap from public ids to libtorrent handles, as the exported         *)
(* functions of lib/lib.cpp use it.                                        *)
(*                                                                         *)
(* addTorrent blocks its caller (a download thread) for up to two minutes  *)
(* while libtorrent fetches the metadata, and is interleaved with calls of *)
(* other threads.  libtorrent identifies a torrent by its info-hash: a     *)
(* second add of the same hash returns a handle of the same torrent, and a *)
(* removed torrent leaves dangling handles, for which is_valid() is false. *)
(* A handle is modelled by the number of the torrent instance it refers to.*)
(***************************************************************************)
EXTENDS Integers, FiniteSets

CONSTANTS
    Callers,        \* threads that call addTorrent
    Hashes,         \* info-hashes
    Fileless,       \* torrents without a file getFileIndex would choose
    INT_MAX,        \* ids are 1 .. INT_MAX - 1
    MaxAdds         \* bound on the number of calls of addTorrent

ASSUME HashAssumption == Hashes # {} /\ Fileless \subseteq Hashes
ASSUME BoundAssumption == INT_MAX \in Nat /\ INT_MAX > 2 /\ MaxAdds \in Nat

VARIABLES
    nextId,         \* Streamerok::nextId
    adds,           \* calls of addTorrent so far; numbers the instances
    session,        \* hash -> instance in libtorrent's session, 0 if none
    metadata,       \* instances whose metadata is known
    tMap,           \* id -> handle
    add             \* progress of addTorrent per caller

sessionVars == << nextId, adds, session, metadata, tMap, add >>

None == 0
Ids == 1 .. INT_MAX - 1
Handles == 0 .. MaxAdds

\* What addTorrent does next while it holds a handle.
AddPcs == {"metadata", "timeout", "select", "insert"}
ErrorCodes == {-12, -11, -10, -9, -8, -1}

\* result is the return value of addTorrent once pc is "returned".
AddStates ==
    [pc : AddPcs \cup {"idle", "returned"}, id : {0} \cup Ids,
     handle : Handles, hash : Hashes, result : ErrorCodes \cup {0} \cup Ids]

NoCall == [pc |-> "idle", id |-> 0, handle |-> None,
           hash |-> CHOOSE x \in Hashes : TRUE, result |-> 0]

\* torrent_handle::is_valid
IsValid(h) == h # None /\ \E x \in Hashes : session[x] = h

\* Faulty: hands out the counter before incrementing it.
NextIdPostIncrement(n) == IF n + 1 = INT_MAX THEN 0 ELSE n

\* Streamerok::getNextId
NextId(n) == (IF n + 1 = INT_MAX THEN 0 ELSE n) + 1

\* session::remove_torrent: all handles of the instance become invalid.
Removed(h) == [x \in Hashes |-> IF session[x] = h THEN None ELSE session[x]]

Without(f, id) == [i \in DOMAIN f \ {id} |-> f[i]]

SessionInit ==
    /\ nextId = 0
    /\ adds = 0
    /\ session = [x \in Hashes |-> None]
    /\ metadata = {}
    /\ tMap = [i \in {} |-> None]
    /\ add = [c \in Callers |-> NoCall]

-----------------------------------------------------------------------------
(* addTorrent *)

Returns(c, code) == add' = [add EXCEPT ![c].pc = "returned", ![c].result = code]

\* ses.add_torrent: a new instance, or the one the session already has.
\* withInfo: the caller supplies the torrent file, so metadata is there.
AddTorrent(c, x, withInfo) ==
    /\ add[c].pc = "idle"
    /\ adds < MaxAdds
    /\ adds' = adds + 1
    /\ nextId' = NextId(nextId)
    /\ LET h == IF session[x] = None THEN adds + 1 ELSE session[x] IN
       /\ session' = [session EXCEPT ![x] = h]
       /\ metadata' = IF withInfo /\ session[x] = None
                      THEN metadata \cup {h} ELSE metadata
       /\ add' = [add EXCEPT ![c] = [pc |-> "metadata", id |-> NextId(nextId),
                                     handle |-> h, hash |-> x, result |-> 0]]
    /\ UNCHANGED tMap

\* ses.add_torrent reports an error.
AddTorrentFails(c, x) ==
    /\ add[c].pc = "idle"
    /\ adds < MaxAdds
    /\ adds' = adds + 1
    /\ nextId' = NextId(nextId)
    /\ add' = [add EXCEPT ![c] = [pc |-> "returned", id |-> NextId(nextId),
                                  handle |-> None, hash |-> x, result |-> -10]]
    /\ UNCHANGED << session, metadata, tMap >>

\* The magnet link or the torrent file does not parse (-8), or the file has no
\* body (-1): addTorrent is not reached and no id is used up.
ParseFails(c, x) ==
    /\ add[c].pc = "idle"
    /\ \E code \in {-8, -1} :
          add' = [add EXCEPT ![c] = [pc |-> "returned", id |-> 0, handle |-> None,
                                     hash |-> x, result |-> code]]
    /\ UNCHANGED << nextId, adds, session, metadata, tMap >>

\* libtorrent completes the metadata of a torrent.
ReceiveMetadata(x) ==
    /\ session[x] # None /\ session[x] \notin metadata
    /\ metadata' = metadata \cup {session[x]}
    /\ UNCHANGED << nextId, adds, session, tMap, add >>

\* The polling loop ends with metadata ...
HasMetadata(c) ==
    /\ add[c].pc = "metadata"
    /\ IsValid(add[c].handle) /\ add[c].handle \in metadata
    /\ add' = [add EXCEPT ![c].pc = "select"]
    /\ UNCHANGED << nextId, adds, session, metadata, tMap >>

\* ... or because the torrent was removed meanwhile ...
HandleLost(c) ==
    /\ add[c].pc = "metadata"
    /\ ~IsValid(add[c].handle)
    /\ Returns(c, -11)
    /\ UNCHANGED << nextId, adds, session, metadata, tMap >>

\* Faulty: polls for metadata without a deadline.
MetadataNoTimeout(c) == FALSE /\ UNCHANGED sessionVars

\* ... or after METADATA_TIMEOUT_S.  A torrent removed after is_valid() has an
\* empty status and is taken for one without metadata.
MetadataTimeout(c) ==
    /\ add[c].pc = "metadata"
    /\ ~(IsValid(add[c].handle) /\ add[c].handle \in metadata)
    /\ add' = [add EXCEPT ![c].pc = "timeout"]
    /\ UNCHANGED << nextId, adds, session, metadata, tMap >>

\* Faulty: gives up without taking the torrent out of the session.
KeepTimedOut(c) ==
    /\ add[c].pc = "timeout"
    /\ Returns(c, -12)
    /\ UNCHANGED << nextId, adds, session, metadata, tMap >>

\* The torrent is removed, also under another caller that waits for the same
\* one or has just got it with the metadata that came after the test.
RemoveTimedOut(c) ==
    /\ add[c].pc = "timeout"
    /\ session' = Removed(add[c].handle)
    /\ Returns(c, -12)
    /\ UNCHANGED << nextId, adds, metadata, tMap >>

\* getFileIndex.  Without a file, deleteTorrent( index ) is called for an id
\* that is not in tMap yet and does nothing.  A removed torrent has no metadata
\* to choose from.
SelectFile(c) ==
    /\ add[c].pc = "select"
    /\ \/ /\ add[c].hash \in Fileless \/ ~IsValid(add[c].handle)
          /\ Returns(c, -9)
       \/ /\ add[c].hash \notin Fileless /\ IsValid(add[c].handle)
          /\ add' = [add EXCEPT ![c].pc = "insert"]
    /\ UNCHANGED << nextId, adds, session, metadata, tMap >>

\* map::insert leaves an entry that is there alone.
Inserted(id, h) ==
    [i \in DOMAIN tMap \cup {id} |-> IF i \in DOMAIN tMap THEN tMap[i] ELSE h]

\* Faulty: uses the counter, which other calls have moved on meanwhile.
InsertUnderCounter(c) ==
    /\ add[c].pc = "insert"
    /\ tMap' = Inserted(nextId, add[c].handle)
    /\ Returns(c, add[c].id)
    /\ UNCHANGED << nextId, adds, session, metadata >>

\* tAux is constructed and inserted under the id drawn at the beginning.
InsertTorrent(c) ==
    /\ add[c].pc = "insert"
    /\ tMap' = Inserted(add[c].id, add[c].handle)
    /\ Returns(c, add[c].id)
    /\ UNCHANGED << nextId, adds, session, metadata >>

\* The caller takes the result.
TakeResult(c) ==
    /\ add[c].pc = "returned"
    /\ add' = [add EXCEPT ![c] = NoCall]
    /\ UNCHANGED << nextId, adds, session, metadata, tMap >>

-----------------------------------------------------------------------------
(* The other operations on tMap *)

\* torrentStopDelete -> deleteTorrent for a known id.
DeleteTorrent(id) ==
    /\ id \in DOMAIN tMap
    /\ session' = Removed(tMap[id])
    /\ tMap' = Without(tMap, id)
    /\ UNCHANGED << nextId, adds, metadata, add >>

\* getAux, as every query of a torrent calls it: an entry with an invalid
\* handle is dropped on the way.
GetAux(id) ==
    /\ id \in DOMAIN tMap
    /\ ~IsValid(tMap[id])
    /\ tMap' = Without(tMap, id)
    /\ UNCHANGED << nextId, adds, session, metadata, add >>

InAddTorrent(c) ==
    \/ HasMetadata(c)
    \/ HandleLost(c)
    \/ MetadataTimeout(c)
    \/ RemoveTimedOut(c)
    \/ SelectFile(c)
    \/ InsertTorrent(c)

CallerStep(c) == InAddTorrent(c) \/ TakeResult(c)

SessionNext ==
    \/ \E c \in Callers, x \in Hashes, b \in BOOLEAN : AddTorrent(c, x, b)
    \/ \E c \in Callers, x \in Hashes : AddTorrentFails(c, x)
    \/ \E c \in Callers, x \in Hashes : ParseFails(c, x)
    \/ \E x \in Hashes : ReceiveMetadata(x)
    \/ \E c \in Callers : CallerStep(c)
    \/ \E id \in Ids : DeleteTorrent(id)
    \/ \E id \in Ids : GetAux(id)

SessionSpec == SessionInit /\ [][SessionNext]_sessionVars

\* A caller's thread runs; the clock reaches its timeout.
SessionFairSpec ==
    SessionSpec /\ \A c \in Callers : WF_sessionVars(CallerStep(c))

-----------------------------------------------------------------------------
(* Properties *)

\* Types; ids that getNextId hands out stay between 1 and INT_MAX - 1, also
\* when the counter starts again (streamerok.h:63-67).
SessionTypeOK ==
    /\ nextId \in 0 .. INT_MAX - 1
    /\ adds \in 0 .. MaxAdds
    /\ session \in [Hashes -> Handles]
    /\ metadata \subseteq Handles
    /\ DOMAIN tMap \subseteq Ids
    /\ \A id \in DOMAIN tMap : tMap[id] \in Handles \ {None}
    /\ add \in [Callers -> AddStates]

\* A torrent of the session can be reached: an id leads to it, some
\* addTorrent still holds its handle, or it is one of those for which
\* addTorrent returned -9, which stay in the session (streamerok.cpp:556-560).
\* It holds until ids come round: insert does not replace an entry whose id is
\* still in use, and the new torrent may be lost.
NoLostTorrent ==
    \A x \in Hashes \ Fileless :
        (session[x] # None /\ adds < INT_MAX) =>
            \/ \E id \in DOMAIN tMap : tMap[id] = session[x]
            \/ \E c \in Callers : add[c].pc \in AddPcs /\ add[c].handle = session[x]

\* The comment at streamerok.h:52, "returns positive integer for torrent,
\* negative for error", and what callers rely on: a positive result that was
\* just returned is the number under which tMap has the torrent this call
\* added, unless that torrent has been removed since.  Again it holds until ids
\* come round.
ResultMeansTorrent ==
    \A c \in Callers : (add[c].pc = "returned" /\ adds < INT_MAX) =>
        IF add[c].result > 0
        THEN /\ add[c].handle # None
             /\ IsValid(add[c].handle) =>
                   /\ add[c].result \in DOMAIN tMap
                   /\ tMap[add[c].result] = add[c].handle
        ELSE add[c].result \in ErrorCodes

\* Every call of addTorrent returns, whoever removes torrents meanwhile.
AddReturns ==
    \A c \in Callers : add[c].pc = "metadata" ~> add[c].pc = "returned"
=============================================================================
