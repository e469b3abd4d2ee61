-------------------------- MODULE StreamerokProofs --------------------------
(***************************************************************************)
(* What callers of addTorrent and deleteTorrent rely on, for any number of *)
(* threads, torrents and calls until the ids come round.                   *)
(*                                                                         *)
(* Neither property is inductive by itself.  SessionInv adds that a handle *)
(* is older than every torrent still to come and belongs to one hash       *)
(* (HandlesSound), and that the id a call has drawn is nobody else's and   *)
(* not in tMap yet (IdsFresh), so that insert really inserts.              *)
(***************************************************************************)
EXTENDS Streamerok, TLAPS

\* addTorrent still has to deal with its torrent.
Adding(c) == add[c].pc \in AddPcs

\* Torrents are numbered in the order of the calls; a handle leads to at most
\* one torrent, that of the hash it was asked for.
HandlesSound ==
    /\ \A x \in Hashes : session[x] <= adds
    /\ \A x, y \in Hashes : session[x] = session[y] /\ session[x] # None => x = y
    /\ \A c \in Callers : add[c].handle <= adds
    /\ \A c \in Callers : Adding(c) => add[c].handle # None /\ add[c].id \in Ids
    /\ \A c \in Callers, x \in Hashes :
          session[x] = add[c].handle /\ session[x] # None => x = add[c].hash
    /\ \A id \in DOMAIN tMap : tMap[id] <= adds

\* Until the counter comes round, ids are numbers of calls.
IdsFresh ==
    adds < INT_MAX =>
        /\ nextId = adds
        /\ \A id \in DOMAIN tMap : id <= adds
        /\ \A c \in Callers : Adding(c) => /\ add[c].id \in 1 .. adds
                                           /\ add[c].id \notin DOMAIN tMap
        /\ \A c, d \in Callers : Adding(c) /\ Adding(d) /\ add[c].id = add[d].id => c = d

\* What ResultMeansTorrent says of one call that has returned.
ResultSound(c) ==
    IF add[c].result > 0
    THEN /\ add[c].handle # None
         /\ IsValid(add[c].handle) =>
               add[c].result \in DOMAIN tMap /\ tMap[add[c].result] = add[c].handle
    ELSE add[c].result \in ErrorCodes

\* A call that has returned has an answer: zero is none.
ResultsSigned == \A c \in Callers : add[c].pc = "returned" => add[c].result # 0

SessionInv ==
    /\ SessionTypeOK /\ HandlesSound /\ IdsFresh /\ ResultsSigned
    /\ NoLostTorrent /\ ResultMeansTorrent

Codes == ErrorCodes \cup {0} \cup Ids

-----------------------------------------------------------------------------
(* Lemmas on the operators *)

\* getNextId stays in range, and counts until it comes round.
LEMMA NextIdRange ==
    ASSUME NEW n \in 0 .. INT_MAX - 1
    PROVE  /\ NextId(n) \in Ids
           /\ n + 1 < INT_MAX => NextId(n) = n + 1
BY BoundAssumption DEF NextId, Ids

\* A call that returns keeps everything but its program counter and result.
LEMMA ReturnsOne ==
    ASSUME SessionTypeOK, NEW c \in Callers, NEW code \in Codes, Returns(c, code)
    PROVE  /\ add' \in [Callers -> AddStates]
           /\ \A d \in Callers \ {c} : add'[d] = add[d]
           /\ add'[c].pc = "returned" /\ add'[c].result = code
           /\ add'[c].id = add[c].id /\ add'[c].handle = add[c].handle
           /\ add'[c].hash = add[c].hash
BY DEF SessionTypeOK, AddStates, Returns, Codes

\* So does one that goes on.
LEMMA MovesOne ==
    ASSUME SessionTypeOK, NEW c \in Callers, NEW pc \in AddPcs,
           add' = [add EXCEPT ![c].pc = pc]
    PROVE  /\ add' \in [Callers -> AddStates]
           /\ \A d \in Callers \ {c} : add'[d] = add[d]
           /\ add'[c].pc = pc /\ add'[c].result = add[c].result
           /\ add'[c].id = add[c].id /\ add'[c].handle = add[c].handle
           /\ add'[c].hash = add[c].hash
BY DEF SessionTypeOK, AddStates

\* A call that begins.
LEMMA BeginsOne ==
    ASSUME SessionTypeOK, NEW c \in Callers, NEW r \in AddStates, add' = [add EXCEPT ![c] = r]
    PROVE  /\ add' \in [Callers -> AddStates]
           /\ add'[c] = r /\ \A d \in Callers \ {c} : add'[d] = add[d]
BY DEF SessionTypeOK

\* A thread that is in no call.
LEMMA IdleCall == NoCall \in AddStates
<1>1. (CHOOSE x \in Hashes : TRUE) \in Hashes
  BY HashAssumption
<1> QED BY <1>1, BoundAssumption DEF NoCall, AddStates, Handles, None

\* Taking a torrent out of the session invalidates its handles only.
LEMMA RemovedRange ==
    ASSUME SessionTypeOK, NEW h, session' = Removed(h)
    PROVE  /\ session' \in [Hashes -> Handles]
           /\ \A x \in Hashes : session'[x] = None \/ (session'[x] = session[x] /\ session[x] # h)
BY BoundAssumption DEF SessionTypeOK, Removed, Handles, None

-----------------------------------------------------------------------------
LEMMA InitSession == SessionInit => SessionInv
<1> SUFFICES ASSUME SessionInit PROVE SessionInv
  OBVIOUS
<1>2. SessionTypeOK
  BY IdleCall, BoundAssumption DEF SessionInit, SessionTypeOK, Handles, None, Ids
<1> QED
  BY <1>2, BoundAssumption
  DEF SessionInit, SessionInv, ResultsSigned, HandlesSound, IdsFresh, NoLostTorrent,
     ResultMeansTorrent, Adding, AddPcs, NoCall, None, SessionTypeOK

-----------------------------------------------------------------------------
(* One lemma per operation *)

\* The torrent gets the session's next number, or is the one that is there;
\* either way this call now holds its handle, and the id it drew is new.
LEMMA AddTorrentStep ==
    ASSUME SessionInv, NEW c \in Callers, NEW x \in Hashes, NEW b \in BOOLEAN,
           AddTorrent(c, x, b)
    PROVE  SessionInv'
<1> DEFINE h == IF session[x] = None THEN adds + 1 ELSE session[x]
           r == [pc |-> "metadata", id |-> NextId(nextId), handle |-> h,
                 hash |-> x, result |-> 0]
<1>1. /\ add[c].pc = "idle" /\ adds < MaxAdds /\ adds' = adds + 1
      /\ nextId' = NextId(nextId) /\ session' = [session EXCEPT ![x] = h]
      /\ metadata' \in {metadata, metadata \cup {h}}
      /\ add' = [add EXCEPT ![c] = r] /\ tMap' = tMap
  BY DEF AddTorrent
<1>2. SessionTypeOK /\ HandlesSound /\ IdsFresh /\ NoLostTorrent /\ ResultMeansTorrent
  BY DEF SessionInv
<1>3. h \in Handles /\ h # None /\ h <= adds + 1 /\ adds \in Nat
  BY <1>1, <1>2, BoundAssumption DEF SessionTypeOK, HandlesSound, Handles, None
<1>4. NextId(nextId) \in Ids /\ (nextId + 1 < INT_MAX => NextId(nextId) = nextId + 1)
  BY <1>2, NextIdRange DEF SessionTypeOK
<1>5. r \in AddStates
  BY <1>3, <1>4 DEF AddStates, AddPcs
<1>6. /\ add' \in [Callers -> AddStates] /\ add'[c] = r
      /\ \A d \in Callers \ {c} : add'[d] = add[d]
  <2> HIDE DEF r
  <2> QED BY <1>1, <1>2, <1>5, BeginsOne
<1>7. /\ session' \in [Hashes -> Handles] /\ session'[x] = h
      /\ \A y \in Hashes \ {x} : session'[y] = session[y]
  BY <1>1, <1>2, <1>3 DEF SessionTypeOK
<1>8. SessionTypeOK'
  BY <1>1, <1>2, <1>3, <1>4, <1>6, <1>7, BoundAssumption DEF SessionTypeOK, Ids
<1>9. /\ add'[c].pc = "metadata" /\ add'[c].id = NextId(nextId)
      /\ add'[c].handle = h /\ add'[c].hash = x
  BY <1>6
<1>10. HandlesSound'
  <2>1. \A y \in Hashes : session[y] \in Handles /\ session[y] <= adds
    BY <1>2 DEF SessionTypeOK, HandlesSound
  <2>2. \A d \in Callers : add[d].handle \in Handles /\ add[d].handle <= adds
    BY <1>2 DEF SessionTypeOK, HandlesSound, AddStates
  <2>3. (\A y \in Hashes : session[y] <= adds)'
    BY <1>1, <1>3, <1>7, <2>1 DEF Handles
  <2>4. (\A y, z \in Hashes : session[y] = session[z] /\ session[y] # None => y = z)'
    BY <1>1, <1>2, <1>3, <1>7, <2>1 DEF HandlesSound, Handles
  <2>5. (\A d \in Callers : add[d].handle <= adds)'
    BY <1>1, <1>3, <1>6, <1>9, <2>2 DEF Handles
  <2>6. (\A d \in Callers : Adding(d) => add[d].handle # None /\ add[d].id \in Ids)'
    BY <1>2, <1>3, <1>4, <1>6, <1>9 DEF HandlesSound, Adding
  <2>7. (\A d \in Callers, y \in Hashes :
            session[y] = add[d].handle /\ session[y] # None => y = add[d].hash)'
    <3> SUFFICES ASSUME NEW d \in Callers, NEW y \in Hashes,
                        session'[y] = add'[d].handle, session'[y] # None
                 PROVE  y = add'[d].hash
      OBVIOUS
    <3>1. CASE d = c
      BY <3>1, <1>2, <1>3, <1>7, <1>9, <2>1 DEF HandlesSound, Handles
    <3>2. CASE d # c
      BY <3>2, <1>2, <1>3, <1>6, <1>7, <2>1, <2>2 DEF HandlesSound, Handles
    <3> QED BY <3>1, <3>2
  <2>8. (\A id \in DOMAIN tMap : tMap[id] <= adds)'
    BY <1>1, <1>2, <1>3 DEF HandlesSound, SessionTypeOK, Handles
  <2> QED BY <2>3, <2>4, <2>5, <2>6, <2>7, <2>8 DEF HandlesSound
<1>11. IdsFresh'
  <2> SUFFICES ASSUME adds' < INT_MAX PROVE IdsFresh'
    BY DEF IdsFresh
  <2>1. adds < INT_MAX /\ nextId = adds /\ nextId' = adds' /\ NextId(nextId) = adds + 1
    BY <1>1, <1>2, <1>3, <1>4, BoundAssumption DEF IdsFresh
  <2>2. \A d \in Callers : add[d].id \in {0} \cup Ids
    BY <1>2 DEF SessionTypeOK, AddStates
  <2>3. DOMAIN tMap \subseteq Ids /\ \A id \in DOMAIN tMap : id <= adds
    BY <1>2, <2>1 DEF SessionTypeOK, IdsFresh
  <2>4. \A d \in Callers : d # c /\ Adding(d)' =>
            Adding(d) /\ add[d].id \in 1 .. adds /\ add[d].id \notin DOMAIN tMap
    BY <1>2, <1>6, <2>1 DEF IdsFresh, Adding
  <2>5. (\A d \in Callers : Adding(d) => /\ add[d].id \in 1 .. adds
                                         /\ add[d].id \notin DOMAIN tMap)'
    BY <1>1, <1>3, <1>6, <1>9, <2>1, <2>3, <2>4 DEF Ids
  <2>6. (\A d, e \in Callers : Adding(d) /\ Adding(e) /\ add[d].id = add[e].id => d = e)'
    BY <1>2, <1>3, <1>6, <1>9, <2>1, <2>4 DEF IdsFresh
  <2> QED BY <1>1, <1>3, <2>1, <2>3, <2>5, <2>6 DEF IdsFresh, Ids
<1>12. NoLostTorrent'
  <2> SUFFICES ASSUME NEW y \in Hashes \ Fileless, session'[y] # None, adds' < INT_MAX
               PROVE  \/ \E id \in DOMAIN tMap' : tMap'[id] = session'[y]
                      \/ \E d \in Callers : add'[d].pc \in AddPcs /\ add'[d].handle = session'[y]
    BY DEF NoLostTorrent
  <2>1. CASE y = x
    BY <2>1, <1>7, <1>9 DEF AddPcs
  <2>2. CASE y # x
    <3>1. session[y] # None /\ adds < INT_MAX
      BY <2>2, <1>1, <1>3, <1>7, BoundAssumption
    <3>2. \A d \in Callers : add[d].pc \in AddPcs => d # c
      BY <1>1 DEF AddPcs
    <3> QED BY <2>2, <3>1, <3>2, <1>1, <1>2, <1>6, <1>7 DEF NoLostTorrent
  <2> QED BY <2>1, <2>2
<1>13. ResultMeansTorrent'
  <2> SUFFICES ASSUME NEW d \in Callers, add'[d].pc = "returned", adds' < INT_MAX
               PROVE  ResultSound(d)'
    BY DEF ResultMeansTorrent, ResultSound
  <2>1. d # c /\ add'[d] = add[d] /\ adds < INT_MAX
    BY <1>1, <1>3, <1>6, <1>9, BoundAssumption
  <2>2. add[d].handle \in Handles /\ add[d].handle <= adds
    BY <1>2 DEF SessionTypeOK, HandlesSound, AddStates
  <2>3. IsValid(add[d].handle)' => IsValid(add[d].handle)
    BY <1>3, <1>7, <2>1, <2>2 DEF IsValid, Handles
  <2> QED BY <1>1, <1>2, <2>1, <2>3 DEF ResultMeansTorrent, ResultSound
<1>14. ResultsSigned'
  BY <1>6, <1>9 DEF ResultsSigned, SessionInv
<1> QED BY <1>14, <1>8, <1>10, <1>11, <1>12, <1>13 DEF SessionInv

\* A call that ends where it begins: an error of add_torrent, which has used
\* up an id, or a link that does not parse, which has not.
LEMMA FailStep ==
    ASSUME SessionInv, NEW c \in Callers, NEW x \in Hashes,
           AddTorrentFails(c, x) \/ ParseFails(c, x)
    PROVE  SessionInv'
<1>1. PICK r \in AddStates :
         /\ r.pc = "returned" /\ r.handle = None /\ r.result \in {-10, -8, -1}
         /\ add' = [add EXCEPT ![c] = r]
  <2>1. NextId(nextId) \in Ids
    BY NextIdRange DEF SessionInv, SessionTypeOK
  <2>2. CASE AddTorrentFails(c, x)
    <3> DEFINE r == [pc |-> "returned", id |-> NextId(nextId), handle |-> None,
                     hash |-> x, result |-> -10]
    <3>1. r \in AddStates /\ add' = [add EXCEPT ![c] = r]
      BY <2>1, <2>2, BoundAssumption DEF AddStates, ErrorCodes, AddTorrentFails, None, Handles
    <3> QED BY <3>1
  <2>3. CASE ParseFails(c, x)
    <3>1. PICK code \in {-8, -1} :
             add' = [add EXCEPT ![c] = [pc |-> "returned", id |-> 0, handle |-> None,
                                        hash |-> x, result |-> code]]
      BY <2>3 DEF ParseFails
    <3> DEFINE r == [pc |-> "returned", id |-> 0, handle |-> None,
                     hash |-> x, result |-> code]
    <3>2. r \in AddStates
      BY BoundAssumption DEF AddStates, ErrorCodes, None, Handles
    <3> QED BY <3>1, <3>2
  <2> QED BY <2>2, <2>3
<1>2. /\ session' = session /\ metadata' = metadata /\ tMap' = tMap
      /\ add[c].pc = "idle"
      /\ \/ adds < MaxAdds /\ adds' = adds + 1 /\ nextId' = NextId(nextId)
         \/ adds' = adds /\ nextId' = nextId
  BY DEF AddTorrentFails, ParseFails
<1>3. SessionTypeOK /\ HandlesSound /\ IdsFresh /\ NoLostTorrent /\ ResultMeansTorrent
  BY DEF SessionInv
<1>4. /\ add' \in [Callers -> AddStates] /\ add'[c] = r
      /\ \A d \in Callers \ {c} : add'[d] = add[d]
  BY <1>1, <1>3, BeginsOne
<1>5. adds \in Nat /\ adds' \in 0 .. MaxAdds /\ adds' >= adds
  BY <1>2, <1>3, BoundAssumption DEF SessionTypeOK
<1>6. nextId' \in 0 .. INT_MAX - 1 /\ (IdsFresh /\ adds' < INT_MAX => nextId' = adds')
  BY <1>2, <1>3, <1>5, NextIdRange, BoundAssumption DEF SessionTypeOK, Ids, IdsFresh
<1>7. SessionTypeOK'
  BY <1>2, <1>3, <1>4, <1>5, <1>6 DEF SessionTypeOK
<1>8. HandlesSound'
  <2>1. \A y \in Hashes : session[y] \in Nat
    BY <1>3 DEF SessionTypeOK, Handles
  <2>2. \A d \in Callers : add[d].handle \in Nat
    BY <1>3 DEF SessionTypeOK, Handles, AddStates
  <2>3. \A id \in DOMAIN tMap : tMap[id] \in Nat
    BY <1>3 DEF SessionTypeOK, Handles
  <2> QED
    BY <1>1, <1>2, <1>3, <1>4, <1>5, <2>1, <2>2, <2>3 DEF HandlesSound, Adding, AddPcs, None
<1>9. IdsFresh'
  <2> SUFFICES ASSUME adds' < INT_MAX PROVE IdsFresh'
    BY DEF IdsFresh
  <2>1. adds < INT_MAX
    BY <1>5, BoundAssumption
  <2>2. \A d \in Callers : Adding(d)' => d # c /\ Adding(d) /\ add'[d].id = add[d].id
    BY <1>1, <1>4 DEF Adding, AddPcs
  <2>3. DOMAIN tMap \subseteq Nat
    BY <1>3 DEF SessionTypeOK, Ids
  <2> QED BY <1>2, <1>3, <1>5, <1>6, <2>1, <2>2, <2>3 DEF IdsFresh
<1>10. NoLostTorrent'
  <2>1. \A d \in Callers : add[d].pc \in AddPcs => d # c
    BY <1>2 DEF AddPcs
  <2>2. adds' < INT_MAX => adds < INT_MAX
    BY <1>5, BoundAssumption
  <2> QED BY <1>2, <1>3, <1>4, <2>1, <2>2 DEF NoLostTorrent
<1>11. ResultMeansTorrent'
  <2>1. adds' < INT_MAX => adds < INT_MAX
    BY <1>5, BoundAssumption
  <2>2. r.result \in ErrorCodes /\ ~(r.result > 0)
    BY <1>1 DEF ErrorCodes
  <2> QED BY <1>1, <1>2, <1>3, <1>4, <2>1, <2>2 DEF ResultMeansTorrent, IsValid
<1>12. ResultsSigned'
  BY <1>1, <1>4 DEF ResultsSigned, SessionInv
<1> QED BY <1>12, <1>7, <1>8, <1>9, <1>10, <1>11 DEF SessionInv

\* A step that adds neither a torrent nor a call nor an entry keeps handles
\* and ids sound.
LEMMA ShrinkStep ==
    ASSUME SessionInv, SessionTypeOK', adds' = adds, nextId' = nextId,
           \A x \in Hashes : session'[x] \in {None, session[x]},
           \A c \in Callers : /\ add'[c].id = add[c].id /\ add'[c].hash = add[c].hash
                              /\ add'[c].handle = add[c].handle
                              /\ Adding(c)' => Adding(c),
           DOMAIN tMap' \subseteq DOMAIN tMap,
           \A id \in DOMAIN tMap' : tMap'[id] = tMap[id]
    PROVE  HandlesSound' /\ IdsFresh'
<1>1. SessionTypeOK /\ HandlesSound /\ IdsFresh
  BY DEF SessionInv
<1>2. HandlesSound'
  BY <1>1 DEF HandlesSound, None, SessionTypeOK
<1>3. IdsFresh'
  BY <1>1 DEF IdsFresh
<1> QED BY <1>2, <1>3

\* Metadata arrives, in libtorrent.
LEMMA ReceiveStep ==
    ASSUME SessionInv, NEW x \in Hashes, ReceiveMetadata(x)
    PROVE  SessionInv'
<1>1. SessionTypeOK'
  BY DEF SessionInv, SessionTypeOK, ReceiveMetadata
<1>2. HandlesSound' /\ IdsFresh'
  BY <1>1, ShrinkStep DEF ReceiveMetadata, Adding
<1>3. NoLostTorrent' /\ ResultMeansTorrent'
  BY DEF SessionInv, ReceiveMetadata, NoLostTorrent, ResultMeansTorrent, IsValid
<1>4. ResultsSigned'
  BY DEF ReceiveMetadata, ResultsSigned, SessionInv
<1> QED BY <1>4, <1>1, <1>2, <1>3 DEF SessionInv

\* The call goes on: with the metadata, to the removal, or to the insertion.
LEMMA MoveStep ==
    ASSUME SessionInv, NEW c \in Callers,
           \/ HasMetadata(c) \/ MetadataTimeout(c)
           \/ SelectFile(c) /\ add' = [add EXCEPT ![c].pc = "insert"]
    PROVE  SessionInv'
<1>1. /\ add[c].pc \in AddPcs
      /\ \E pc \in AddPcs : add' = [add EXCEPT ![c].pc = pc]
  BY DEF HasMetadata, MetadataTimeout, SelectFile, AddPcs
<1>a. PICK pc \in AddPcs : add' = [add EXCEPT ![c].pc = pc]
  BY <1>1
<1>2. UNCHANGED << nextId, adds, session, metadata, tMap >>
  BY DEF HasMetadata, MetadataTimeout, SelectFile
<1>3. SessionTypeOK /\ NoLostTorrent /\ ResultMeansTorrent
  BY DEF SessionInv
<1>4. /\ add' \in [Callers -> AddStates]
      /\ \A d \in Callers \ {c} : add'[d] = add[d]
      /\ add'[c].pc = pc /\ add'[c].result = add[c].result
      /\ add'[c].id = add[c].id /\ add'[c].handle = add[c].handle
      /\ add'[c].hash = add[c].hash
  BY <1>a, <1>3, MovesOne
<1>5. SessionTypeOK'
  BY <1>2, <1>3, <1>4 DEF SessionTypeOK
<1>6. HandlesSound' /\ IdsFresh'
  BY <1>1, <1>2, <1>4, <1>5, ShrinkStep DEF Adding
<1>7. NoLostTorrent'
  BY <1>2, <1>3, <1>4 DEF NoLostTorrent
<1>8. pc # "returned"
  BY DEF AddPcs
<1>9. ResultMeansTorrent'
  BY <1>2, <1>3, <1>4, <1>8 DEF ResultMeansTorrent, IsValid
<1>10. ResultsSigned'
  BY <1>4, <1>8 DEF ResultsSigned, SessionInv
<1> QED BY <1>5, <1>6, <1>7, <1>9, <1>10 DEF SessionInv

\* The result is taken, and the thread is in no call any more.
LEMMA TakeStep ==
    ASSUME SessionInv, NEW c \in Callers, TakeResult(c)
    PROVE  SessionInv'
<1>1. /\ add[c].pc = "returned" /\ add' = [add EXCEPT ![c] = NoCall]
      /\ UNCHANGED << nextId, adds, session, metadata, tMap >>
  BY DEF TakeResult
<1>2. SessionTypeOK /\ HandlesSound /\ IdsFresh /\ NoLostTorrent /\ ResultMeansTorrent
  BY DEF SessionInv
<1>3. /\ add' \in [Callers -> AddStates] /\ add'[c] = NoCall
      /\ \A d \in Callers \ {c} : add'[d] = add[d]
  BY <1>1, <1>2, IdleCall, BeginsOne
<1>4. NoCall.pc = "idle" /\ NoCall.handle = None
  BY DEF NoCall
<1>5. SessionTypeOK'
  BY <1>1, <1>2, <1>3 DEF SessionTypeOK
<1>6. \A d \in Callers : Adding(d)' => d # c /\ Adding(d)
  BY <1>3, <1>4 DEF Adding, AddPcs
<1>7. HandlesSound'
  <2>1. adds >= 0
    BY <1>2 DEF SessionTypeOK
  <2> QED BY <1>1, <1>2, <1>3, <1>4, <1>6, <2>1 DEF HandlesSound, None
<1>8. IdsFresh'
  BY <1>1, <1>2, <1>3, <1>6 DEF IdsFresh
<1>9. NoLostTorrent'
  <2>1. add[c].pc \notin AddPcs
    BY <1>1 DEF AddPcs
  <2> QED BY <1>1, <1>2, <1>3, <2>1 DEF NoLostTorrent
<1>10. ResultMeansTorrent' /\ ResultsSigned'
  BY <1>1, <1>2, <1>3, <1>4 DEF ResultMeansTorrent, IsValid, ResultsSigned, SessionInv
<1> QED BY <1>5, <1>7, <1>8, <1>9, <1>10 DEF SessionInv

\* The call gives up: the torrent is gone, it is removed now, or it has no
\* file; only in the last case does it stay, and the handle's hash says so.
LEMMA GiveUpStep ==
    ASSUME SessionInv, NEW c \in Callers,
           \/ HandleLost(c) \/ RemoveTimedOut(c)
           \/ SelectFile(c) /\ Returns(c, -9)
              /\ (add[c].hash \in Fileless \/ ~IsValid(add[c].handle))
    PROVE  SessionInv'
<1>1. PICK code \in {-12, -11, -9} : Returns(c, code)
  BY DEF HandleLost, RemoveTimedOut
<1>2. /\ UNCHANGED << nextId, adds, metadata, tMap >>
      /\ session' = session \/ session' = Removed(add[c].handle)
  BY DEF HandleLost, RemoveTimedOut, SelectFile
<1>3. SessionTypeOK /\ HandlesSound /\ NoLostTorrent /\ ResultMeansTorrent
  BY DEF SessionInv
<1>4. /\ add' \in [Callers -> AddStates]
      /\ \A d \in Callers \ {c} : add'[d] = add[d]
      /\ add'[c].pc = "returned" /\ add'[c].result = code
      /\ add'[c].id = add[c].id /\ add'[c].handle = add[c].handle
      /\ add'[c].hash = add[c].hash
  BY <1>1, <1>3, ReturnsOne DEF Codes, ErrorCodes
<1>5. /\ session' \in [Hashes -> Handles]
      /\ \A x \in Hashes : session'[x] \in {None, session[x]}
  BY <1>2, <1>3, RemovedRange DEF SessionTypeOK
<1>6. \A x \in Hashes \ Fileless : session'[x] # None => session'[x] # add[c].handle
  <2>1. CASE session' = Removed(add[c].handle)
    BY <2>1, <1>3, RemovedRange
  <2>2. CASE session' = session /\ ~IsValid(add[c].handle)
    BY <2>2 DEF IsValid
  <2>3. CASE session' = session /\ add[c].hash \in Fileless
    BY <2>3, <1>3 DEF HandlesSound
  <2> QED BY <2>1, <2>2, <2>3 DEF HandleLost, RemoveTimedOut, SelectFile
<1>7. SessionTypeOK'
  BY <1>2, <1>3, <1>4, <1>5 DEF SessionTypeOK
<1>8. \A d \in Callers : Adding(d)' => d # c /\ Adding(d)
  BY <1>4 DEF Adding, AddPcs
<1>9. HandlesSound' /\ IdsFresh'
  BY <1>2, <1>4, <1>5, <1>7, <1>8, ShrinkStep
<1>10. NoLostTorrent'
  BY <1>2, <1>3, <1>4, <1>5, <1>6 DEF NoLostTorrent
<1>11. ResultMeansTorrent'
  <2>1. \A d \in Callers : IsValid(add[d].handle)' => IsValid(add[d].handle)
    BY <1>4, <1>5 DEF IsValid
  <2>2. code \in ErrorCodes /\ ~(code > 0)
    BY DEF ErrorCodes
  <2> QED BY <1>2, <1>3, <1>4, <2>1, <2>2 DEF ResultMeansTorrent
<1>12. ResultsSigned'
  BY <1>4 DEF ResultsSigned, SessionInv
<1> QED BY <1>7, <1>9, <1>10, <1>11, <1>12 DEF SessionInv

\* The torrent is entered under an id that nobody has, so insert inserts.
LEMMA InsertStep ==
    ASSUME SessionInv, NEW c \in Callers, InsertTorrent(c)
    PROVE  SessionInv'
<1>0. /\ add[c].pc = "insert" /\ Returns(c, add[c].id)
      /\ tMap' = [i \in DOMAIN tMap \cup {add[c].id} |->
                     IF i \in DOMAIN tMap THEN tMap[i] ELSE add[c].handle]
      /\ UNCHANGED << nextId, adds, session, metadata >>
  BY DEF InsertTorrent, Inserted
<1>1. SessionTypeOK /\ HandlesSound /\ IdsFresh /\ NoLostTorrent /\ ResultMeansTorrent
  BY DEF SessionInv
<1>2. /\ add' \in [Callers -> AddStates]
      /\ \A d \in Callers \ {c} : add'[d] = add[d]
      /\ add'[c].pc = "returned" /\ add'[c].result = add[c].id
      /\ add'[c].id = add[c].id /\ add'[c].handle = add[c].handle
      /\ add'[c].hash = add[c].hash
  <2>1. add[c].id \in Ids
    BY <1>0, <1>1 DEF HandlesSound, Adding, AddPcs
  <2> QED BY <1>0, <1>1, <2>1, ReturnsOne DEF Codes
<1>3. /\ Adding(c) /\ add[c].id \in Ids
      /\ add[c].handle \in Handles \ {None} /\ add[c].handle <= adds
  BY <1>0, <1>1 DEF Adding, AddPcs, HandlesSound, SessionTypeOK, AddStates
<1>4. /\ DOMAIN tMap' = DOMAIN tMap \cup {add[c].id}
      /\ \A id \in DOMAIN tMap : tMap'[id] = tMap[id]
      /\ add[c].id \notin DOMAIN tMap => tMap'[add[c].id] = add[c].handle
      /\ \A id \in DOMAIN tMap' \ DOMAIN tMap : tMap'[id] = add[c].handle
  BY <1>0
<1>5. SessionTypeOK'
  BY <1>0, <1>1, <1>2, <1>3, <1>4 DEF SessionTypeOK
<1>a. \A d \in Callers : Adding(d)' => d # c /\ Adding(d) /\ add'[d].id = add[d].id
  BY <1>2 DEF Adding, AddPcs
<1>6. HandlesSound'
  <2>1. (\A id \in DOMAIN tMap : tMap[id] <= adds)'
    BY <1>0, <1>1, <1>3, <1>4 DEF HandlesSound
  <2> QED BY <1>0, <1>1, <1>2, <1>a, <2>1 DEF HandlesSound
<1>7. IdsFresh'
  <2> SUFFICES ASSUME adds < INT_MAX PROVE IdsFresh'
    BY <1>0 DEF IdsFresh
  <2>1. add[c].id \in 1 .. adds
    BY <1>1, <1>3 DEF IdsFresh
  <2> QED BY <1>0, <1>1, <1>3, <1>4, <1>a, <2>1 DEF IdsFresh
<1>8. adds < INT_MAX => add[c].id \in DOMAIN tMap' /\ tMap'[add[c].id] = add[c].handle
  BY <1>1, <1>3, <1>4 DEF IdsFresh
<1>9. NoLostTorrent'
  <2> SUFFICES ASSUME NEW x \in Hashes \ Fileless, session[x] # None, adds < INT_MAX
               PROVE  \/ \E id \in DOMAIN tMap' : tMap'[id] = session[x]
                      \/ \E d \in Callers : add'[d].pc \in AddPcs /\ add'[d].handle = session[x]
    BY <1>0 DEF NoLostTorrent
  <2>1. CASE \E id \in DOMAIN tMap : tMap[id] = session[x]
    BY <2>1, <1>4
  <2>2. ASSUME NEW d \in Callers, add[d].pc \in AddPcs, add[d].handle = session[x]
        PROVE  \/ \E id \in DOMAIN tMap' : tMap'[id] = session[x]
               \/ \E e \in Callers : add'[e].pc \in AddPcs /\ add'[e].handle = session[x]
    <3>1. CASE d = c
      BY <2>2, <3>1, <1>8
    <3>2. CASE d # c
      BY <2>2, <3>2, <1>2
    <3> QED BY <3>1, <3>2
  <2> QED BY <2>1, <2>2, <1>1 DEF NoLostTorrent
<1>10. ResultMeansTorrent'
  <2> SUFFICES ASSUME NEW d \in Callers, add'[d].pc = "returned", adds < INT_MAX
               PROVE  ResultSound(d)'
    BY <1>0 DEF ResultMeansTorrent, ResultSound
  <2>1. CASE d = c
    <3>1. add[c].id > 0
      BY <1>3, BoundAssumption DEF Ids
    <3>2. add'[d].result = add[c].id /\ add'[d].handle = add[c].handle /\ add[c].handle # None
      BY <2>1, <1>2, <1>3
    <3> QED BY <3>1, <3>2, <1>8 DEF ResultSound
  <2>2. CASE d # c
    <3>1. add'[d] = add[d]
      BY <2>2, <1>2
    <3>2. IsValid(add[d].handle)' => IsValid(add[d].handle)
      BY <1>0, <3>1 DEF IsValid
    <3>3. ResultSound(d)
      BY <3>1, <1>1 DEF ResultMeansTorrent, ResultSound
    <3> QED BY <3>1, <3>2, <3>3, <1>4 DEF ResultSound
  <2> QED BY <2>1, <2>2
<1>11. ResultsSigned'
  BY <1>2, <1>3 DEF ResultsSigned, SessionInv, Ids
<1> QED BY <1>11, <1>5, <1>6, <1>7, <1>9, <1>10 DEF SessionInv

\* An entry is dropped with its torrent (deleteTorrent) or after it (getAux).
LEMMA DropStep ==
    ASSUME SessionInv, NEW id \in Ids, DeleteTorrent(id) \/ GetAux(id)
    PROVE  SessionInv'
<1>1. SessionTypeOK /\ NoLostTorrent /\ ResultMeansTorrent
  BY DEF SessionInv
<1>2. /\ UNCHANGED << nextId, adds, metadata, add >> /\ id \in DOMAIN tMap
      /\ DOMAIN tMap' = DOMAIN tMap \ {id}
      /\ \A i \in DOMAIN tMap \ {id} : tMap'[i] = tMap[i]
  BY DEF DeleteTorrent, GetAux, Without
<1>3. /\ session' \in [Hashes -> Handles]
      /\ \A x \in Hashes : session'[x] \in {None, session[x]}
      /\ \A x \in Hashes : session'[x] # None => session'[x] # tMap[id]
  <2>1. CASE DeleteTorrent(id)
    BY <2>1, <1>1, RemovedRange DEF DeleteTorrent
  <2>2. CASE GetAux(id)
    BY <2>2, <1>1 DEF GetAux, IsValid, SessionTypeOK
  <2> QED BY <2>1, <2>2
<1>4. SessionTypeOK'
  BY <1>1, <1>2, <1>3 DEF SessionTypeOK
<1>5. HandlesSound' /\ IdsFresh'
  BY <1>2, <1>3, <1>4, ShrinkStep DEF Adding
<1>6. NoLostTorrent'
  BY <1>1, <1>2, <1>3 DEF NoLostTorrent
<1>7. ResultMeansTorrent'
  <2>1. \A h : IsValid(h)' => IsValid(h) /\ h # tMap[id]
    BY <1>3 DEF IsValid
  <2> QED BY <1>1, <1>2, <2>1 DEF ResultMeansTorrent
<1>8. ResultsSigned'
  BY <1>2 DEF ResultsSigned, SessionInv
<1> QED BY <1>8, <1>4, <1>5, <1>6, <1>7 DEF SessionInv

-----------------------------------------------------------------------------
(* The theorems *)

LEMMA SessionStep == SessionInv /\ [SessionNext]_sessionVars => SessionInv'
<1> SUFFICES ASSUME SessionInv, [SessionNext]_sessionVars PROVE SessionInv'
  OBVIOUS
<1>1. ASSUME NEW c \in Callers, NEW x \in Hashes, NEW b \in BOOLEAN, AddTorrent(c, x, b)
      PROVE  SessionInv'
  BY <1>1, AddTorrentStep
<1>2. ASSUME NEW c \in Callers, NEW x \in Hashes, AddTorrentFails(c, x) \/ ParseFails(c, x)
      PROVE  SessionInv'
  BY <1>2, FailStep
<1>3. ASSUME NEW x \in Hashes, ReceiveMetadata(x) PROVE SessionInv'
  BY <1>3, ReceiveStep
<1>4. ASSUME NEW c \in Callers, HasMetadata(c) \/ MetadataTimeout(c) PROVE SessionInv'
  BY <1>4, MoveStep
<1>5. ASSUME NEW c \in Callers, HandleLost(c) \/ RemoveTimedOut(c) PROVE SessionInv'
  BY <1>5, GiveUpStep
<1>6. ASSUME NEW c \in Callers, SelectFile(c) PROVE SessionInv'
  <2>1. CASE Returns(c, -9) /\ (add[c].hash \in Fileless \/ ~IsValid(add[c].handle))
    BY <2>1, <1>6, GiveUpStep
  <2>2. CASE add' = [add EXCEPT ![c].pc = "insert"]
    BY <2>2, <1>6, MoveStep
  <2> QED BY <1>6, <2>1, <2>2 DEF SelectFile
<1>9. ASSUME NEW c \in Callers, InsertTorrent(c) PROVE SessionInv'
  BY <1>9, InsertStep
<1>10. ASSUME NEW c \in Callers, TakeResult(c) PROVE SessionInv'
  BY <1>10, TakeStep
<1>7. ASSUME NEW id \in Ids, DeleteTorrent(id) \/ GetAux(id) PROVE SessionInv'
  BY <1>7, DropStep
<1>8. CASE UNCHANGED sessionVars
  BY <1>8 DEF sessionVars, SessionInv, ResultsSigned, SessionTypeOK, HandlesSound, IdsFresh, Adding,
     NoLostTorrent, ResultMeansTorrent, IsValid
<1> QED
  BY <1>1, <1>2, <1>3, <1>4, <1>5, <1>6, <1>7, <1>8, <1>9, <1>10
  DEF SessionNext, CallerStep, InAddTorrent

\* The inductive invariant holds in every state the session reaches.
THEOREM SessionAlways == SessionSpec => []SessionInv
<1> QED BY InitSession, SessionStep, PTL DEF SessionSpec

\* Ids, handles and return values have their types; getNextId stays between 1
\* and INT_MAX - 1 also when it starts again (streamerok.h:63-67).
THEOREM SessionTypes == SessionSpec => []SessionTypeOK
<1>1. SessionInv => SessionTypeOK
  BY DEF SessionInv
<1> QED BY <1>1, SessionAlways, PTL

\* No torrent of the session is lost, whichever calls of addTorrent,
\* deleteTorrent and getAux run against each other.
THEOREM TorrentsReachable == SessionSpec => []NoLostTorrent
<1>1. SessionInv => NoLostTorrent
  BY DEF SessionInv
<1> QED BY <1>1, SessionAlways, PTL

\* A positive result of addTorrent is the number under which tMap has the
\* torrent that very call added, for as long as that torrent exists.
THEOREM ResultsHold == SessionSpec => []ResultMeansTorrent
<1>1. SessionInv => ResultMeansTorrent
  BY DEF SessionInv
<1> QED BY <1>1, SessionAlways, PTL
=============================================================================
