--------------------------- MODULE SubtitlerProofs ---------------------------
(***************************************************************************)
(* What the combo boxes of the subtitles show, for any number of           *)
(* languages, subtitles, fetchers and films.                               *)
(*                                                                         *)
(* Two fetchers of a language change one list, and a third party reads it. *)
(* The invariant says what holds of a language that nobody fetches any     *)
(* more (Busy): its first subtitle can be displayed (QuietLists) and, if   *)
(* it is the current one, the variants are numbered by its list            *)
(* (FreshBox), also after a custom subtitle if variants are offered again. *)
(* A second invariant (SubOwned) says whose subtitle is in use.            *)
(***************************************************************************)
EXTENDS Subtitler, FiniteSetTheorems, WellFoundedInduction, TLAPS

Own(l) == Range(ItemsOf[l])

FetcherStates ==
    [pc : {"reply", "retry", "gone"}, film : Nat, lang : Langs, fetchAll : BOOLEAN,
     currSub : Items \cup {NoSub}, retriesLeft : Int]

\* A fetcher that has not finished asks for a subtitle of its language.
FetchersOK(s) ==
    /\ s \in Seq(FetcherStates)
    /\ \A g \in 1 .. Len(s) : s[g].pc # "gone" => s[g].currSub \in Own(s[g].lang)

\* Lists hold subtitles of their own language.
ListsOK(list) ==
    /\ list \in [Langs -> Seq(Items)]
    /\ \A l \in Langs : \A i \in 1 .. Len(list[l]) : list[l][i] \in Own(l)

SubtitlerTypes ==
    /\ film \in Nat
    /\ languages \subseteq Langs
    /\ ListsOK(subs)
    /\ FetchersOK(fetchers)
    /\ currentLanguage \in Langs \cup {NoLang}
    /\ languageBox \subseteq languages
    /\ selected \in Langs \cup {Off, Custom}
    /\ selected = Off => currentLanguage = NoLang

\* A fetcher of film n's language l is at work.
Busy(s, n, l) ==
    \E g \in 1 .. Len(s) : s[g].lang = l /\ s[g].pc # "gone" /\ s[g].film = n

QuietLists ==
    \A l \in languages :
        Busy(fetchers, film, l) \/ subs[l] = << >> \/ Head(subs[l]) \in loaded

FreshBox ==
    (/\ currentLanguage # NoLang
     /\ currentSub # Custom \/ variantBox # {}
     /\ ~Busy(fetchers, film, currentLanguage))
        => variantBox = UpdateVariants(subs[currentLanguage], loaded)

\* The language the box shows is the current one, and a dropped one stays current
\* only under a custom subtitle.
LanguageShown ==
    /\ selected \in Langs => currentLanguage = selected
    /\ currentLanguage \notin languages \cup {NoLang} => selected = Custom

SubtitlerInv ==
    /\ SubtitlerTypes /\ QuietLists /\ FreshBox
    /\ VariantsHaveLanguage /\ LanguageShown

\* The subtitle used is one of the current language, whatever the box shows: the
\* user may come back from SUBTITLES_CUSTOM without useLanguage doing anything.
OwnSub(list) ==
    currentSub \in Own(currentLanguage) \cup {Custom} \/ list[currentLanguage] = << >>

SubOwned ==
    /\ variantBox \subseteq Nat \ {0}
    /\ currentLanguage # NoLang => OwnSub(subs)

-----------------------------------------------------------------------------
(* Sequences *)

\* A set of numbers that has a member has a least one.
LEMMA MinMember ==
    ASSUME NEW S \in SUBSET Nat, S # {}
    PROVE  Min(S) \in S /\ \A y \in S : Min(S) <= y
<1> DEFINE R == {p \in Nat \X Nat : p[1] < p[2]}
<1>1. IsWellFoundedOn(R, Nat)
  BY NatLessThanWellFounded DEF OpToRel
<1> HIDE DEF R
<1>2. PICK x \in S : \A y \in S : ~ (<< y, x >> \in R)
  BY <1>1, WFMin, Zenon
<1>3. ASSUME NEW y \in S PROVE x <= y
  <2>1. ~ (<< y, x >> \in R)
    BY <1>2
  <2>2. y \in Nat /\ x \in Nat
    OBVIOUS
  <2> QED
    BY <2>1, <2>2 DEF R
<1> QED
  BY <1>3 DEF Min

\* getNextSub stops only if the first subtitle can be displayed, or none is left,
\* and asks for a member of the list otherwise.
LEMMA NextSubSound ==
    ASSUME NEW list \in Seq(Items), NEW ready, NEW all \in BOOLEAN,
           Items \cap {NoSub, Custom} = {}
    PROVE  /\ GetNextSub(list, ready, all) = NoSub => list = << >> \/ Head(list) \in ready
           /\ GetNextSub(list, ready, all) # NoSub =>
                \E i \in 1 .. Len(list) : GetNextSub(list, ready, all) = list[i]
<1> DEFINE I == {i \in 1 .. Len(list) : list[i] \notin ready}
<1> DEFINE first == SelectInSeq(list, LAMBDA item : item \notin ready)
<1>1. first = IF I # {} THEN Min(I) ELSE 0
  BY DEF SelectInSeq
<1>2. I # {} => first \in I
  <2>1. I \in SUBSET Nat
    OBVIOUS
  <2> HIDE DEF I, first
  <2> QED
    BY <1>1, <2>1, MinMember
<1>3. I = {} => list = << >> \/ Head(list) \in ready
  <2> SUFFICES ASSUME I = {}, list # << >> PROVE Head(list) \in ready
    OBVIOUS
  <2>1. 1 \in 1 .. Len(list) /\ Head(list) = list[1]
    OBVIOUS
  <2> QED
    BY <2>1
<1>4. GetNextSub(list, ready, all)
        = IF first = 0 \/ (~all /\ Head(list) \in ready) THEN NoSub ELSE list[first]
  BY DEF GetNextSub
<1>5. first = 0 <=> I = {}
  BY <1>1, <1>2
<1>6. \A i \in 1 .. Len(list) : list[i] # NoSub
  OBVIOUS
<1>7. I \subseteq 1 .. Len(list)
  OBVIOUS
<1> HIDE DEF first, I
<1> QED
  BY <1>2, <1>3, <1>4, <1>5, <1>6, <1>7

\* removeOne leaves members of the list.
LEMMA RemoveFirstMembers ==
    ASSUME NEW S, NEW T, NEW s \in Seq(S), NEW e, \A i \in 1 .. Len(s) : s[i] \in T
    PROVE  /\ RemoveFirst(s, e) \in Seq(S)
           /\ \A i \in 1 .. Len(RemoveFirst(s, e)) : RemoveFirst(s, e)[i] \in T
<1> DEFINE I == {i \in 1 .. Len(s) : s[i] = e}
<1>1. CASE I = {}
  BY <1>1 DEF RemoveFirst
<1>2. CASE I # {}
  <2>1. SelectInSeq(s, LAMBDA v : v = e) = Min(I)
    BY <1>2 DEF SelectInSeq
  <2>2. Min(I) \in I
    <3>1. I \in SUBSET Nat
      OBVIOUS
    <3> HIDE DEF I
    <3> QED
      BY <1>2, <3>1, MinMember
  <2>3. PICK k \in 1 .. Len(s) : k = Min(I)
    BY <2>2
  <2>4. RemoveFirst(s, e) = SubSeq(s, 1, k - 1) \o SubSeq(s, k + 1, Len(s))
    BY <1>2, <2>1, <2>3 DEF RemoveFirst, RemoveAt
  <2> DEFINE a == SubSeq(s, 1, k - 1)
  <2> DEFINE b == SubSeq(s, k + 1, Len(s))
  <2>5. a \in Seq(S) /\ Len(a) = k - 1 /\ \A i \in 1 .. Len(a) : a[i] = s[i]
    OBVIOUS
  <2>6. b \in Seq(S) /\ Len(b) = Len(s) - k /\ \A i \in 1 .. Len(b) : b[i] = s[i + k]
    OBVIOUS
  <2>7. RemoveFirst(s, e) = a \o b
    BY <2>4
  <2> HIDE DEF a, b
  <2>8. a \o b \in Seq(S) /\ Len(a \o b) = Len(s) - 1
    <3>1. a \in Seq(S) /\ b \in Seq(S)
      BY <2>5, <2>6
    <3>2. a \o b \in Seq(S)
      BY <3>1
    <3>3. Len(a \o b) = Len(a) + Len(b)
      BY <3>1
    <3>4. Len(a) + Len(b) = Len(s) - 1
      BY <2>5, <2>6
    <3> QED
      BY <3>2, <3>3, <3>4
  <2>9. ASSUME NEW i \in 1 .. Len(a \o b) PROVE (a \o b)[i] \in T
    <3>1. CASE i < k
      <4>1. i \in 1 .. Len(a) /\ i \in 1 .. Len(s)
        BY <2>5, <2>8, <3>1
      <4>2. (a \o b)[i] = a[i]
        BY <2>5, <2>6, <4>1
      <4> QED
        BY <2>5, <4>1, <4>2
    <3>2. CASE ~(i < k)
      <4>1. i - (k - 1) \in 1 .. Len(b) /\ i - (k - 1) + k = i + 1 /\ i + 1 \in 1 .. Len(s)
        BY <2>6, <2>8, <3>2
      <4>2. (a \o b)[i] = b[i - (k - 1)]
        BY <2>5, <2>6, <2>8, <3>2
      <4>3. b[i - (k - 1)] = s[i + 1]
        BY <2>6, <4>1
      <4> QED
        BY <4>1, <4>2, <4>3
    <3> QED
      BY <3>1, <3>2
  <2> QED
    BY <2>7, <2>8, <2>9
<1> QED
  BY <1>1, <1>2

\* startSubtitles walks over every language.
LEMMA EveryLanguageListed ==
    ASSUME IsFiniteSet(Langs)
    PROVE  /\ Cardinality(Langs) \in Nat
           /\ SetToSeq(Langs) \in [1 .. Cardinality(Langs) -> Langs]
           /\ \A l \in Langs : \E i \in 1 .. Cardinality(Langs) : SetToSeq(Langs)[i] = l
<1> DEFINE n == Cardinality(Langs)
<1> DEFINE q == SetToSeq(Langs)
<1>1. n \in Nat /\ ExistsBijection(1 .. n, Langs)
  BY FS_CardinalityType
<1>2. \E b \in [1 .. n -> Langs] : IsInjective(b)
  BY <1>1 DEF ExistsBijection, Bijection, Injection
<1>3. q \in [1 .. n -> Langs] /\ IsInjective(q)
  BY <1>2 DEF SetToSeq
<1>4. q \in Injection(1 .. n, Langs)
  BY <1>3 DEF Injection
<1>5. Cardinality(1 .. n) = n
  BY <1>1, FS_Interval
<1>6. q \in Surjection(1 .. n, Langs)
  BY <1>4, <1>5, FS_Injection
<1> QED
  BY <1>1, <1>3, <1>6 DEF Surjection

-----------------------------------------------------------------------------
(* Languages and fetchers *)

\* What the assumption on the languages says of names and subtitles.
LEMMA Languages ==
    /\ NoLang \notin Langs /\ Off \notin Langs /\ Custom \notin Langs
    /\ Items \cap {NoSub, Custom} = {}
    /\ \A l \in Langs : /\ ItemsOf[l] \in Seq(Items) /\ ItemsOf[l] # << >>
                        /\ \A i \in 1 .. Len(ItemsOf[l]) : ItemsOf[l][i] \in Own(l)
                        /\ Own(l) \subseteq Items
    /\ \A l, m \in Langs : \A x \in Own(l) : x \in Own(m) => l = m
<1>1. \A l \in Langs : ItemsOf[l] \in Seq(Items) /\ ItemsOf[l] # << >>
  BY LanguageAssumption
<1>2. \A l \in Langs : \A i \in 1 .. Len(ItemsOf[l]) : ItemsOf[l][i] \in Own(l)
  BY <1>1 DEF Own, Range
<1>3. \A l \in Langs : Own(l) \subseteq Items
  BY DEF Own, Items
<1>4. \A l, m \in Langs : \A x \in Own(l) : x \in Own(m) => l = m
  BY LanguageAssumption DEF Own
<1> QED
  BY <1>1, <1>2, <1>3, <1>4, LanguageAssumption

\* Fetcher f moves on: it keeps its language and film, others are untouched.
Moves(s, t, f) ==
    /\ f \in 1 .. Len(s) /\ t \in Seq(FetcherStates) /\ Len(t) = Len(s)
    /\ t[f].lang = s[f].lang /\ t[f].film = s[f].film
    /\ t[f].pc # "gone" => t[f].currSub \in Own(t[f].lang)
    /\ s[f].pc # "gone"
    /\ \A g \in 1 .. Len(s) : g # f => t[g] = s[g]

LEMMA FetcherMoves ==
    ASSUME NEW s, NEW t, NEW f, FetchersOK(s), Moves(s, t, f)
    PROVE  /\ FetchersOK(t)
           /\ t[f].pc # "gone" => Busy(t, s[f].film, s[f].lang)
           /\ \A n, l : Busy(s, n, l) => Busy(t, n, l) \/ (n = s[f].film /\ l = s[f].lang)
           /\ \A n, l : Busy(t, n, l) => Busy(s, n, l)
<1>1. s \in Seq(FetcherStates)
  BY DEF FetchersOK
<1>2. /\ f \in 1 .. Len(s) /\ t \in Seq(FetcherStates) /\ Len(t) = Len(s)
      /\ t[f].lang = s[f].lang /\ t[f].film = s[f].film
      /\ t[f].pc # "gone" => t[f].currSub \in Own(t[f].lang)
      /\ s[f].pc # "gone"
      /\ \A g \in 1 .. Len(s) : g # f => t[g] = s[g]
  BY DEF Moves
<1>3. FetchersOK(t)
  BY <1>2 DEF FetchersOK
<1>4. t[f].pc # "gone" => Busy(t, s[f].film, s[f].lang)
  BY <1>2 DEF Busy
<1>5. ASSUME NEW n, NEW l, Busy(s, n, l), ~(n = s[f].film /\ l = s[f].lang)
      PROVE  Busy(t, n, l)
  <2>1. PICK g \in 1 .. Len(s) : s[g].lang = l /\ s[g].pc # "gone" /\ s[g].film = n
    BY <1>5 DEF Busy
  <2>2. g # f
    BY <1>5, <2>1
  <2> QED
    BY <1>2, <2>1, <2>2 DEF Busy
<1>6. ASSUME NEW n, NEW l, Busy(t, n, l) PROVE Busy(s, n, l)
  <2>1. PICK g \in 1 .. Len(t) : t[g].lang = l /\ t[g].pc # "gone" /\ t[g].film = n
    BY <1>6 DEF Busy
  <2> QED
    BY <1>2, <1>6, <2>1 DEF Busy
<1> QED
  BY <1>3, <1>4, <1>5, <1>6

\* A fetcher is created.
LEMMA FetcherStarts ==
    ASSUME NEW s, FetchersOK(s), NEW r \in FetcherStates, r.pc # "gone",
           r.currSub \in Own(r.lang)
    PROVE  /\ FetchersOK(Append(s, r))
           /\ Busy(Append(s, r), r.film, r.lang)
           /\ \A n, l : Busy(s, n, l) => Busy(Append(s, r), n, l)
<1> DEFINE t == Append(s, r)
<1>1. s \in Seq(FetcherStates)
  BY DEF FetchersOK
<1>2. /\ t \in Seq(FetcherStates) /\ Len(t) = Len(s) + 1 /\ t[Len(t)] = r
      /\ \A g \in 1 .. Len(s) : t[g] = s[g]
      /\ Len(s) \in Nat
  BY <1>1
<1> HIDE DEF t
<1>3. FetchersOK(t)
  BY <1>2 DEF FetchersOK
<1>4. Busy(t, r.film, r.lang)
  BY <1>2 DEF Busy
<1>5. ASSUME NEW n, NEW l, Busy(s, n, l) PROVE Busy(t, n, l)
  <2>1. PICK g \in 1 .. Len(s) : s[g].lang = l /\ s[g].pc # "gone" /\ s[g].film = n
    BY <1>5 DEF Busy
  <2>2. g \in 1 .. Len(t)
    BY <1>2
  <2> QED
    BY <1>2, <2>1, <2>2 DEF Busy
<1> QED
  BY <1>3, <1>4, <1>5 DEF t

\* deleteLater.
LEMMA FetcherEnds ==
    ASSUME FetchersOK(fetchers), NEW f \in 1 .. Len(fetchers), fetchers[f].pc # "gone"
    PROVE  Moves(fetchers, Gone(f), f)
<1> DEFINE x == fetchers[f]
<1> DEFINE r == [pc |-> "gone", film |-> x.film, lang |-> x.lang, fetchAll |-> x.fetchAll,
                 currSub |-> NoSub, retriesLeft |-> 0]
<1>1. fetchers \in Seq(FetcherStates) /\ x \in FetcherStates
  BY DEF FetchersOK
<1>2. [x EXCEPT !.pc = "gone", !.currSub = NoSub, !.retriesLeft = 0] = r
  <2>1. ASSUME NEW y \in FetcherStates,
               NEW z, z = [y EXCEPT !.pc = "gone", !.currSub = NoSub, !.retriesLeft = 0]
        PROVE  z = [pc |-> "gone", film |-> y.film, lang |-> y.lang,
                    fetchAll |-> y.fetchAll, currSub |-> NoSub, retriesLeft |-> 0]
    BY <2>1 DEF FetcherStates
  <2> QED
    BY <1>1, <2>1
<1>3. r \in FetcherStates /\ r.pc = "gone" /\ r.lang = x.lang /\ r.film = x.film
  <2> HIDE DEF x
  <2>1. x.film \in Nat /\ x.lang \in Langs /\ x.fetchAll \in BOOLEAN
    BY <1>1 DEF FetcherStates
  <2> QED
    BY <2>1 DEF FetcherStates
<1>4. Gone(f) = [fetchers EXCEPT ![f] = r]
  BY <1>1, <1>2 DEF Gone
<1> HIDE DEF r
<1> QED
  BY <1>1, <1>3, <1>4 DEF Moves

\* A new fetcher that asks for a subtitle of its language.
LEMMA NewFetcherOK ==
    ASSUME NEW l \in Langs, NEW item \in Own(l), NEW all \in BOOLEAN, NEW n \in Nat
    PROVE  LET r == NewFetcher(l, item, all, n) IN
           /\ r \in FetcherStates /\ r.pc # "gone" /\ r.currSub \in Own(r.lang)
           /\ r.lang = l /\ r.film = n
  BY Languages, LimitAssumption DEF NewFetcher, FetcherStates

-----------------------------------------------------------------------------
(* Handlers *)

\* The variants change only with the list or with what is loaded of it.
LEMMA SameVariants ==
    ASSUME NEW list, NEW old, NEW ready,
           \A i \in 1 .. Len(list) : list[i] \in old <=> list[i] \in ready
    PROVE  UpdateVariants(list, old) = UpdateVariants(list, ready)
<1>1. {i \in 1 .. Len(list) : list[i] \in old} = {i \in 1 .. Len(list) : list[i] \in ready}
  OBVIOUS
<1> QED
  BY <1>1 DEF UpdateVariants

\* A language that is chosen gets its variants at once, or a fetcher that will
\* number them.
LEMMA LanguageUsed ==
    ASSUME film \in Nat, film' = film, NEW lang \in Langs, NEW s, FetchersOK(s),
           NEW list, ListsOK(list), NEW ready, subs' = list, loaded' = ready,
           UseLanguage(lang, list, ready, s)
    PROVE  /\ FetchersOK(fetchers') /\ currentLanguage' = lang
           /\ \A n, l : Busy(s, n, l) => Busy(fetchers', n, l)
           /\ FreshBox'
<1>1. currentLanguage' = lang
  BY DEF UseLanguage
<1>2. list[lang] \in Seq(Items) /\ \A i \in 1 .. Len(list[lang]) : list[lang][i] \in Own(lang)
  BY DEF ListsOK
<1>3. CASE Len(list[lang]) > 1
  <2> DEFINE r == NewFetcher(lang, Head(list[lang]), TRUE, film)
  <2>1. Head(list[lang]) \in Own(lang)
    BY <1>2, <1>3
  <2>2. /\ r \in FetcherStates /\ r.pc # "gone" /\ r.currSub \in Own(r.lang)
        /\ r.lang = lang /\ r.film = film
    BY <2>1, NewFetcherOK
  <2>3. fetchers' = Append(s, r)
    BY <1>3 DEF UseLanguage
  <2> HIDE DEF r
  <2>4. /\ FetchersOK(fetchers') /\ Busy(fetchers', film, lang)
        /\ \A n, l : Busy(s, n, l) => Busy(fetchers', n, l)
    BY <2>2, <2>3, FetcherStarts
  <2> QED
    BY <1>1, <2>4 DEF FreshBox
<1>4. CASE ~(Len(list[lang]) > 1)
  <2>1. fetchers' = s /\ variantBox' = UpdateVariants(list[lang], ready)
    BY <1>4 DEF UseLanguage
  <2>2. FreshBox'
    BY <1>1, <2>1 DEF FreshBox
  <2> QED
    BY <1>1, <2>1, <2>2
<1> QED
  BY <1>3, <1>4

\* What onFinished knows of the new lists: only f's language has changed.
Fetched(f, list, ready) ==
    /\ f \in 1 .. Len(fetchers) /\ fetchers[f].pc = "reply" /\ Alive(fetchers[f])
    /\ ListsOK(list) /\ loaded \subseteq ready
    /\ \A l \in Langs \ {fetchers[f].lang} :
         /\ list[l] = subs[l]
         /\ \A i \in 1 .. Len(list[l]) : list[l][i] \in ready => list[l][i] \in loaded

LEMMA FetcherTyped ==
    ASSUME SubtitlerTypes, NEW f \in 1 .. Len(fetchers)
    PROVE  /\ FetchersOK(fetchers) /\ fetchers \in Seq(FetcherStates)
           /\ fetchers[f] \in FetcherStates /\ fetchers[f].lang \in Langs
           /\ fetchers[f].fetchAll \in BOOLEAN
<1>1. FetchersOK(fetchers)
  BY DEF SubtitlerTypes
<1>2. fetchers \in Seq(FetcherStates)
  BY <1>1 DEF FetchersOK
<1>3. fetchers[f] \in FetcherStates
  BY <1>2
<1> QED
  BY <1>1, <1>2, <1>3 DEF FetcherStates

\* A fetcher that asks for the next subtitle stays busy, and the lists of other
\* languages are as they were.
LEMMA NextAsked ==
    ASSUME SubtitlerInv, NEW f, NEW list, NEW ready, Fetched(f, list, ready),
           GetNextSub(list[fetchers[f].lang], ready, fetchers[f].fetchAll) # NoSub,
           NextRequest(f, list, ready)
    PROVE  SubtitlerInv'
<1> DEFINE lang == fetchers[f].lang
<1> DEFINE next == GetNextSub(list[lang], ready, fetchers[f].fetchAll)
<1>1. /\ f \in 1 .. Len(fetchers) /\ FetchersOK(fetchers) /\ fetchers \in Seq(FetcherStates)
      /\ fetchers[f] \in FetcherStates /\ lang \in Langs /\ fetchers[f].fetchAll \in BOOLEAN
  BY FetcherTyped DEF Fetched, SubtitlerInv
<1>2. /\ fetchers[f].pc = "reply" /\ fetchers[f].film = film
      /\ ListsOK(list) /\ loaded \subseteq ready
      /\ \A l \in Langs \ {lang} :
           /\ list[l] = subs[l]
           /\ \A i \in 1 .. Len(list[l]) : list[l][i] \in ready => list[l][i] \in loaded
  BY DEF Fetched, Alive
<1>3. next \in Own(lang)
  <2>1. list[lang] \in Seq(Items) /\ \A i \in 1 .. Len(list[lang]) : list[lang][i] \in Own(lang)
    BY <1>1, <1>2 DEF ListsOK
  <2>2. \E i \in 1 .. Len(list[lang]) : next = list[lang][i]
    BY <1>1, <2>1, NextSubSound, Languages
  <2> QED
    BY <2>1, <2>2
<1>4. /\ fetchers' = [fetchers EXCEPT ![f].currSub = next,
                        ![f].retriesLeft = SUBTITLE_DOWNLOAD_RETRIES]
      /\ subs' = list /\ loaded' = ready
      /\ UNCHANGED << film, dialog, languages, languageBox, selected, variantBox,
                      currentLanguage, currentSub >>
  BY DEF NextRequest
<1> HIDE DEF next
<1>5. Moves(fetchers, fetchers', f) /\ fetchers'[f].pc = "reply"
  <2> DEFINE x == fetchers[f]
  <2> DEFINE y == [[x EXCEPT !.currSub = next] EXCEPT !.retriesLeft = SUBTITLE_DOWNLOAD_RETRIES]
  <2>1. fetchers' = [fetchers EXCEPT ![f] = y]
    BY <1>1, <1>4
  <2>2. /\ y \in FetcherStates /\ y.pc = x.pc /\ y.lang = x.lang /\ y.film = x.film
        /\ y.currSub = next
    <3>1. next \in Items /\ SUBTITLE_DOWNLOAD_RETRIES \in Int
      BY <1>1, <1>3, Languages, LimitAssumption
    <3>2. x \in FetcherStates
      BY <1>1
    <3> HIDE DEF x
    <3> QED
      BY <3>1, <3>2 DEF FetcherStates
  <2> HIDE DEF y
  <2> QED
    BY <1>1, <1>2, <1>3, <2>1, <2>2 DEF Moves
<1>6. /\ FetchersOK(fetchers') /\ Busy(fetchers', film, lang)
      /\ \A n, l : Busy(fetchers, n, l) <=> Busy(fetchers', n, l)
  BY <1>1, <1>2, <1>5, FetcherMoves
<1>7. SubtitlerTypes'
  BY <1>2, <1>4, <1>6 DEF SubtitlerInv, SubtitlerTypes
<1>8. QuietLists'
  <2> SUFFICES ASSUME NEW l \in languages, l # lang
               PROVE  Busy(fetchers, film, l) \/ list[l] = << >> \/ Head(list[l]) \in ready
    BY <1>4, <1>6 DEF QuietLists
  <2>1. l \in Langs \ {lang}
    BY DEF SubtitlerInv, SubtitlerTypes
  <2> QED
    BY <1>2, <2>1 DEF SubtitlerInv, QuietLists
<1>9. FreshBox'
  <2> SUFFICES ASSUME currentLanguage # NoLang, currentSub # Custom \/ variantBox # {},
                      ~Busy(fetchers, film, currentLanguage)
               PROVE  variantBox = UpdateVariants(list[currentLanguage], ready)
    BY <1>4, <1>6 DEF FreshBox
  <2>1. currentLanguage \in Langs \ {lang}
    BY <1>6 DEF SubtitlerInv, SubtitlerTypes
  <2>2. variantBox = UpdateVariants(list[currentLanguage], loaded)
    BY <1>2, <2>1 DEF SubtitlerInv, FreshBox
  <2>3. UpdateVariants(list[currentLanguage], loaded) = UpdateVariants(list[currentLanguage], ready)
    <3>1. \A i \in 1 .. Len(list[currentLanguage]) :
            list[currentLanguage][i] \in loaded <=> list[currentLanguage][i] \in ready
      BY <1>2, <2>1
    <3> QED
      BY <3>1, SameVariants
  <2> QED
    BY <2>2, <2>3
<1> QED
  BY <1>4, <1>7, <1>8, <1>9 DEF SubtitlerInv, VariantsHaveLanguage, LanguageShown

\* A fetcher that finishes leaves a list that starts with a subtitle that can be
\* displayed; its finished signal numbers the variants again.
LEMMA FetchDone ==
    ASSUME SubtitlerInv, NEW f, NEW list, NEW ready, Fetched(f, list, ready),
           GetNextSub(list[fetchers[f].lang], ready, fetchers[f].fetchAll) = NoSub,
           NextRequest(f, list, ready)
    PROVE  SubtitlerInv'
<1> DEFINE lang == fetchers[f].lang
<1> DEFINE running == Gone(f)
<1>1. /\ f \in 1 .. Len(fetchers) /\ FetchersOK(fetchers) /\ fetchers \in Seq(FetcherStates)
      /\ fetchers[f] \in FetcherStates /\ lang \in Langs /\ fetchers[f].fetchAll \in BOOLEAN
  BY FetcherTyped DEF Fetched, SubtitlerInv
<1>2. /\ fetchers[f].pc = "reply" /\ fetchers[f].film = film
      /\ ListsOK(list) /\ loaded \subseteq ready
      /\ \A l \in Langs \ {lang} :
           /\ list[l] = subs[l]
           /\ \A i \in 1 .. Len(list[l]) : list[l][i] \in ready => list[l][i] \in loaded
  BY DEF Fetched, Alive
<1>3. list[lang] = << >> \/ Head(list[lang]) \in ready
  <2>1. list[lang] \in Seq(Items)
    BY <1>1, <1>2 DEF ListsOK
  <2> QED
    BY <1>1, <2>1, NextSubSound, Languages
<1>4. subs' = list /\ loaded' = ready /\ UNCHANGED << film, dialog >> /\ Finish(f, list, ready)
  BY DEF NextRequest
<1>5. /\ FetchersOK(running)
      /\ \A n, l : Busy(fetchers, n, l) => Busy(running, n, l) \/ (n = film /\ l = lang)
  BY <1>1, <1>2, FetcherEnds, FetcherMoves
<1>6. \A l \in languages :
        Busy(running, film, l) \/ list[l] = << >> \/ Head(list[l]) \in ready
  <2> SUFFICES ASSUME NEW l \in languages, l # lang
               PROVE  Busy(running, film, l) \/ list[l] = << >> \/ Head(list[l]) \in ready
    BY <1>3
  <2>1. l \in Langs \ {lang}
    BY DEF SubtitlerInv, SubtitlerTypes
  <2> QED
    BY <1>2, <1>5, <2>1 DEF SubtitlerInv, QuietLists
<1>7. film \in Nat
  BY DEF SubtitlerInv, SubtitlerTypes
<1> HIDE DEF running
<1>8. CASE fetchers[f].fetchAll
  <2>1. /\ fetchers' = running
        /\ variantBox' = IF currentLanguage = NoLang THEN {}
                         ELSE UpdateVariants(list[currentLanguage], ready)
        /\ UNCHANGED << languages, languageBox, selected, currentLanguage, currentSub >>
    BY <1>4, <1>8 DEF Finish, running
  <2>2. SubtitlerTypes'
    BY <1>2, <1>4, <1>5, <2>1 DEF SubtitlerInv, SubtitlerTypes
  <2>3. QuietLists'
    BY <1>4, <1>6, <2>1 DEF QuietLists
  <2>4. FreshBox' /\ VariantsHaveLanguage'
    BY <1>4, <2>1 DEF FreshBox, VariantsHaveLanguage
  <2>5. LanguageShown'
    BY <2>1 DEF SubtitlerInv, LanguageShown
  <2> QED
    BY <2>2, <2>3, <2>4, <2>5 DEF SubtitlerInv
<1>9. CASE ~fetchers[f].fetchAll
  <2> DEFINE rest == {l \in languages : list[l] # << >>}
  <2>1. UpdateLanguages(list, ready, running)
    BY <1>4, <1>9 DEF Finish, running
  <2>2. languages' = rest /\ languageBox' = rest
    BY <2>1 DEF UpdateLanguages
  <2>3. rest \subseteq languages /\ rest \subseteq Langs
    BY DEF SubtitlerInv, SubtitlerTypes
  <2>4. CASE currentLanguage = NoLang /\ currentSub = NoSub /\ Locale \in rest
    <3>1. selected' = Locale /\ UseLanguage(Locale, list, ready, running)
      BY <2>1, <2>4 DEF UpdateLanguages
    <3>2. Locale \in Langs /\ Locale \in rest
      BY <2>3, <2>4
    <3>3. /\ FetchersOK(fetchers') /\ currentLanguage' = Locale
          /\ \A n, l : Busy(running, n, l) => Busy(fetchers', n, l)
          /\ FreshBox'
      BY <1>2, <1>4, <1>5, <1>7, <3>1, <3>2, LanguageUsed
    <3>4. Locale # NoLang /\ Locale # Off
      BY <3>2, Languages
    <3>5. SubtitlerTypes'
      BY <1>2, <1>4, <1>7, <2>2, <2>3, <3>1, <3>2, <3>3, <3>4 DEF SubtitlerTypes
    <3>6. QuietLists'
      BY <1>4, <1>6, <2>2, <2>3, <3>3 DEF QuietLists
    <3>7. LanguageShown' /\ VariantsHaveLanguage'
      BY <2>2, <3>1, <3>2, <3>3, <3>4 DEF LanguageShown, VariantsHaveLanguage
    <3> QED
      BY <3>3, <3>5, <3>6, <3>7 DEF SubtitlerInv
  <2>5. CASE ~(currentLanguage = NoLang /\ currentSub = NoSub /\ Locale \in rest)
    <3> DEFINE now == IF SelectionLost(rest) THEN NoLang ELSE currentLanguage
    <3>1. /\ selected' = IF SelectionLost(rest) THEN Off ELSE selected
          /\ currentLanguage' = now
          /\ variantBox' = IF now # NoLang THEN UpdateVariants(list[now], ready)
                           ELSE IF SelectionLost(rest) THEN {} ELSE variantBox
          /\ fetchers' = running
          /\ UNCHANGED currentSub
      BY <2>1, <2>5 DEF UpdateLanguages
    <3>2. SubtitlerTypes'
      BY <1>2, <1>4, <1>5, <1>7, <2>2, <2>3, <3>1 DEF SubtitlerInv, SubtitlerTypes
    <3>3. QuietLists'
      BY <1>4, <1>6, <2>2, <2>3, <3>1 DEF QuietLists
    <3>4. FreshBox'
      BY <1>4, <3>1 DEF FreshBox
    <3>5. VariantsHaveLanguage'
      BY <3>1 DEF SubtitlerInv, VariantsHaveLanguage
    <3>6. LanguageShown'
      <4>1. CASE SelectionLost(rest)
        BY <3>1, <4>1, Languages DEF LanguageShown
      <4>2. CASE ~SelectionLost(rest)
        <5>1. selected \in Langs => selected \in rest /\ currentLanguage = selected
          BY <4>2 DEF SelectionLost, SubtitlerInv, LanguageShown
        <5>2. selected' = selected /\ currentLanguage' = currentLanguage
          BY <3>1, <4>2
        <5>3. selected \in Langs \/ selected = Custom \/ currentLanguage = NoLang
          BY DEF SubtitlerInv, SubtitlerTypes
        <5> QED
          BY <2>2, <5>1, <5>2, <5>3 DEF LanguageShown
      <4> QED
        BY <4>1, <4>2
    <3> QED
      BY <3>2, <3>3, <3>4, <3>5, <3>6 DEF SubtitlerInv
  <2> QED
    BY <2>4, <2>5
<1> QED
  BY <1>8, <1>9

\* The end of onFinished, in one.
LEMMA RequestKeeps ==
    ASSUME SubtitlerInv, NEW f, NEW list, NEW ready, Fetched(f, list, ready),
           NextRequest(f, list, ready)
    PROVE  SubtitlerInv'
  BY NextAsked, FetchDone

\* A subtitle is dropped: lists of other languages are as they were.
LEMMA DroppedIsFetched ==
    ASSUME SubtitlerInv, NEW f \in 1 .. Len(fetchers), fetchers[f].pc = "reply",
           Alive(fetchers[f])
    PROVE  Fetched(f, WithoutSub(f), loaded)
<1> DEFINE lang == fetchers[f].lang
<1> DEFINE s == subs[lang]
<1>1. lang \in Langs /\ ListsOK(subs)
  BY FetcherTyped DEF SubtitlerInv, SubtitlerTypes
<1>2. s \in Seq(Items) /\ \A i \in 1 .. Len(s) : s[i] \in Own(lang)
  BY <1>1 DEF ListsOK
<1> DEFINE r == RemoveFirst(s, fetchers[f].currSub)
<1>3. r \in Seq(Items) /\ \A i \in 1 .. Len(r) : r[i] \in Own(lang)
  BY <1>2, RemoveFirstMembers
<1>4. WithoutSub(f) = [subs EXCEPT ![lang] = r]
  BY DEF WithoutSub
<1> HIDE DEF r
<1>5. ListsOK(WithoutSub(f)) /\ \A l \in Langs \ {lang} : WithoutSub(f)[l] = subs[l]
  BY <1>1, <1>3, <1>4 DEF ListsOK
<1> QED
  BY <1>5 DEF Fetched

\* A subtitle is loaded: it is none of another language.
LEMMA LoadedIsFetched ==
    ASSUME SubtitlerInv, NEW f \in 1 .. Len(fetchers), fetchers[f].pc = "reply",
           Alive(fetchers[f])
    PROVE  Fetched(f, subs, loaded \cup {fetchers[f].currSub})
<1> DEFINE lang == fetchers[f].lang
<1> DEFINE x == fetchers[f].currSub
<1>1. lang \in Langs /\ ListsOK(subs) /\ FetchersOK(fetchers)
  BY FetcherTyped DEF SubtitlerInv, SubtitlerTypes
<1>2. x \in Own(lang)
  BY <1>1 DEF FetchersOK
<1>3. ASSUME NEW l \in Langs \ {lang}, NEW i \in 1 .. Len(subs[l]),
             subs[l][i] \in loaded \cup {x}
      PROVE  subs[l][i] \in loaded
  <2>1. subs[l][i] \in Own(l)
    BY <1>1 DEF ListsOK
  <2>2. subs[l][i] # x
    BY <1>1, <1>2, <2>1, Languages
  <2> QED
    BY <1>3, <2>2
<1> QED
  BY <1>1, <1>3 DEF Fetched

\* A fetcher waits, or asks again: its language stays busy.
LEMMA SameFetching ==
    ASSUME SubtitlerInv, NEW f \in 1 .. Len(fetchers),
           Moves(fetchers, fetchers', f), fetchers'[f].pc # "gone",
           UNCHANGED << film, languages, subs, loaded, currentLanguage, currentSub,
                        languageBox, selected, variantBox, dialog >>
    PROVE  SubtitlerInv'
<1>1. FetchersOK(fetchers)
  BY DEF SubtitlerInv, SubtitlerTypes
<1>2. FetchersOK(fetchers') /\ \A n, l : Busy(fetchers, n, l) <=> Busy(fetchers', n, l)
  BY <1>1, FetcherMoves
<1>3. SubtitlerTypes'
  BY <1>2 DEF SubtitlerInv, SubtitlerTypes
<1>4. QuietLists' /\ FreshBox'
  BY <1>2 DEF SubtitlerInv, QuietLists, FreshBox
<1> QED
  BY <1>3, <1>4 DEF SubtitlerInv, VariantsHaveLanguage, LanguageShown

\* Every slot of a fetcher keeps the invariant.
LEMMA FetcherKeeps ==
    ASSUME SubtitlerInv, NEW f \in 1 .. Len(fetchers), FetcherStep(f)
    PROVE  SubtitlerInv'
<1> DEFINE x == fetchers[f]
<1>1. /\ FetchersOK(fetchers) /\ fetchers \in Seq(FetcherStates) /\ x \in FetcherStates
      /\ x.lang \in Langs
  BY FetcherTyped DEF SubtitlerInv
<1>2. CASE Orphaned(f)
  <2>1. /\ x.pc # "gone" /\ fetchers' = Gone(f) /\ ~Alive(x)
        /\ UNCHANGED << film, languages, subs, loaded, currentLanguage, currentSub,
                        languageBox, selected, variantBox, dialog >>
    BY <1>2 DEF Orphaned
  <2>2. /\ FetchersOK(fetchers')
        /\ \A n, l : Busy(fetchers, n, l) => Busy(fetchers', n, l) \/ (n = x.film /\ l = x.lang)
        /\ \A n, l : Busy(fetchers', n, l) => Busy(fetchers, n, l)
    BY <1>1, <2>1, FetcherEnds, FetcherMoves
  <2>3. \A l : l \in languages \/ l = currentLanguage =>
          (Busy(fetchers, film, l) <=> Busy(fetchers', film, l))
    BY <2>1, <2>2 DEF Alive
  <2>4. SubtitlerTypes'
    BY <2>1, <2>2 DEF SubtitlerInv, SubtitlerTypes
  <2>5. QuietLists' /\ FreshBox'
    BY <2>1, <2>3 DEF SubtitlerInv, QuietLists, FreshBox
  <2> QED
    BY <2>1, <2>4, <2>5 DEF SubtitlerInv, VariantsHaveLanguage, LanguageShown
<1>3. CASE Downloaded(f)
  BY <1>3, LoadedIsFetched, RequestKeeps DEF Downloaded
<1>4. CASE BadArchive(f)
  BY <1>4, DroppedIsFetched, RequestKeeps DEF BadArchive
<1>5. CASE ReplyError(f)
  <2>1. CASE HasRetries(x.retriesLeft)
    <3>1. /\ fetchers' = [fetchers EXCEPT ![f] = [x EXCEPT !.pc = "retry"]]
          /\ x.pc = "reply"
          /\ UNCHANGED << film, languages, subs, loaded, currentLanguage, currentSub,
                          languageBox, selected, variantBox, dialog >>
      BY <1>1, <1>5, <2>1 DEF ReplyError
    <3> DEFINE y == [x EXCEPT !.pc = "retry"]
    <3>2. /\ y \in FetcherStates /\ y.pc = "retry" /\ y.lang = x.lang /\ y.film = x.film
          /\ y.currSub = x.currSub
      <4> HIDE DEF x
      <4> QED
        BY <1>1 DEF FetcherStates
    <3>3. x.currSub \in Own(x.lang)
      BY <1>1, <3>1 DEF FetchersOK
    <3> HIDE DEF y
    <3>4. fetchers' = [fetchers EXCEPT ![f] = y]
      BY <3>1 DEF y
    <3>5. Moves(fetchers, fetchers', f) /\ fetchers'[f].pc # "gone"
      BY <1>1, <3>1, <3>2, <3>3, <3>4 DEF Moves
    <3> QED
      BY <3>1, <3>5, SameFetching
  <2>2. CASE ~HasRetries(x.retriesLeft)
    BY <1>5, <2>2, DroppedIsFetched, RequestKeeps DEF ReplyError
  <2> QED
    BY <2>1, <2>2
<1>6. CASE Retry(f)
  <2> DEFINE y == [[x EXCEPT !.pc = "reply"] EXCEPT !.retriesLeft = x.retriesLeft - 1]
  <2>1. /\ fetchers' = [fetchers EXCEPT ![f] = y]
        /\ x.pc = "retry"
        /\ UNCHANGED << film, languages, subs, loaded, currentLanguage, currentSub,
                        languageBox, selected, variantBox, dialog >>
    BY <1>1, <1>6 DEF Retry, RetriesAfterRequest
  <2>2. /\ y \in FetcherStates /\ y.pc = "reply" /\ y.lang = x.lang /\ y.film = x.film
        /\ y.currSub = x.currSub
    <3> HIDE DEF x
    <3>1. x.retriesLeft - 1 \in Int
      BY <1>1 DEF FetcherStates
    <3> QED
      BY <1>1, <3>1 DEF FetcherStates
  <2>3. x.currSub \in Own(x.lang)
    BY <1>1, <2>1 DEF FetchersOK
  <2> HIDE DEF y
  <2>4. Moves(fetchers, fetchers', f) /\ fetchers'[f].pc # "gone"
    BY <1>1, <2>1, <2>2, <2>3 DEF Moves
  <2> QED
    BY <2>1, <2>4, SameFetching
<1> QED
  BY <1>2, <1>3, <1>4, <1>5, <1>6 DEF FetcherStep

\* startSubtitles: a fetcher is at work on every language of the new film.
LEMMA StartKeeps ==
    ASSUME SubtitlerInv, StartSubtitles
    PROVE  SubtitlerInv'
<1> DEFINE n == Cardinality(Langs)
<1> DEFINE new == [i \in 1 .. n |->
                     LET l == SetToSeq(Langs)[i] IN
                     NewFetcher(l, Head(ItemsOf[l]), FALSE, film + 1)]
<1>1. /\ film' = film + 1 /\ languages' = Langs /\ subs' = ItemsOf /\ loaded' = {}
      /\ currentLanguage' = NoLang /\ languageBox' = {} /\ selected' = Off /\ variantBox' = {}
      /\ fetchers' = fetchers \o new
  BY DEF StartSubtitles, Cleared
<1>2. film + 1 \in Nat /\ FetchersOK(fetchers) /\ fetchers \in Seq(FetcherStates)
  BY DEF SubtitlerInv, SubtitlerTypes, FetchersOK
<1>3. /\ n \in Nat /\ SetToSeq(Langs) \in [1 .. n -> Langs]
      /\ \A l \in Langs : \E i \in 1 .. n : SetToSeq(Langs)[i] = l
  BY EveryLanguageListed, LanguageAssumption
<1>4. ASSUME NEW i \in 1 .. n
      PROVE  /\ new[i] \in FetcherStates /\ new[i].pc # "gone"
             /\ new[i].currSub \in Own(new[i].lang)
             /\ new[i].lang = SetToSeq(Langs)[i] /\ new[i].film = film + 1
  <2> DEFINE l == SetToSeq(Langs)[i]
  <2>1. l \in Langs
    BY <1>3
  <2>2. Head(ItemsOf[l]) \in Own(l)
    BY <2>1, Languages
  <2>3. new[i] = NewFetcher(l, Head(ItemsOf[l]), FALSE, film + 1)
    OBVIOUS
  <2> DEFINE r == NewFetcher(l, Head(ItemsOf[l]), FALSE, film + 1)
  <2> HIDE DEF l, new
  <2>4. r.lang = l /\ r.film = film + 1 /\ r \in FetcherStates
        /\ r.pc # "gone" /\ r.currSub \in Own(r.lang)
    <3>1. PICK item \in Own(l) : item = Head(ItemsOf[l])
      BY <2>2
    <3>2. PICK m \in Nat : m = film + 1
      BY <1>2
    <3>3. r = NewFetcher(l, item, FALSE, m)
      BY <3>1, <3>2
    <3>4. item \in Items /\ SUBTITLE_DOWNLOAD_RETRIES \in Int
      BY <2>1, Languages, LimitAssumption
    <3>5. r = [pc |-> "reply", film |-> m, lang |-> l, fetchAll |-> FALSE, currSub |-> item,
               retriesLeft |-> SUBTITLE_DOWNLOAD_RETRIES]
      BY <3>3 DEF NewFetcher
    <3> HIDE DEF r
    <3> QED
      BY <2>1, <3>2, <3>4, <3>5 DEF FetcherStates
  <2> HIDE DEF r
  <2>5. new[i] = r
    BY <2>3 DEF r
  <2> QED
    BY <2>4, <2>5 DEF l
<1>5. new \in Seq(FetcherStates) /\ Len(new) = n
  <2>1. new \in [1 .. n -> FetcherStates]
    BY <1>4
  <2> HIDE DEF new
  <2> QED
    BY <1>3, <2>1
<1> HIDE DEF new
<1>6. fetchers' \in Seq(FetcherStates) /\ Len(fetchers') = Len(fetchers) + n
  <2>1. fetchers \o new \in Seq(FetcherStates)
    BY <1>2, <1>5
  <2>2. Len(fetchers \o new) = Len(fetchers) + Len(new)
    BY <1>2, <1>5
  <2> QED
    BY <1>1, <1>5, <2>1, <2>2
<1>7. ASSUME NEW g \in 1 .. Len(fetchers)
      PROVE  fetchers'[g] = fetchers[g]
  BY <1>1, <1>2, <1>5
<1>8. ASSUME NEW i \in 1 .. n
      PROVE  fetchers'[Len(fetchers) + i] = new[i] /\ Len(fetchers) + i \in 1 .. Len(fetchers')
  BY <1>1, <1>2, <1>3, <1>5, <1>6
<1>9. ASSUME NEW g \in 1 .. Len(fetchers'), fetchers'[g].pc # "gone"
      PROVE  fetchers'[g].currSub \in Own(fetchers'[g].lang)
  <2>1. CASE g <= Len(fetchers)
    <3>1. g \in 1 .. Len(fetchers)
      BY <1>2, <1>6, <2>1
    <3> QED
      BY <1>2, <1>7, <1>9, <3>1 DEF FetchersOK
  <2>2. CASE ~(g <= Len(fetchers))
    <3>1. PICK i \in 1 .. n : g = Len(fetchers) + i
      <4>1. g - Len(fetchers) \in 1 .. n /\ g = Len(fetchers) + (g - Len(fetchers))
        BY <1>2, <1>3, <1>6, <2>2
      <4> QED
        BY <4>1
    <3> QED
      BY <1>4, <1>8, <3>1
  <2> QED
    BY <2>1, <2>2
<1>10. FetchersOK(fetchers')
  BY <1>6, <1>9 DEF FetchersOK
<1>11. \A l \in Langs : Busy(fetchers', film', l)
  <2> SUFFICES ASSUME NEW l \in Langs PROVE Busy(fetchers', film', l)
    OBVIOUS
  <2>1. PICK i \in 1 .. n : SetToSeq(Langs)[i] = l
    BY <1>3
  <2> QED
    BY <1>1, <1>4, <1>8, <2>1 DEF Busy
<1>12. ListsOK(ItemsOf)
  BY Languages, LanguageAssumption DEF ListsOK
<1>13. SubtitlerTypes'
  BY <1>1, <1>2, <1>10, <1>12 DEF SubtitlerTypes
<1>14. QuietLists' /\ FreshBox'
  BY <1>1, <1>11 DEF QuietLists, FreshBox
<1> QED
  BY <1>1, <1>13, <1>14, Languages DEF SubtitlerInv, VariantsHaveLanguage, LanguageShown

\* The empty lists of a film that has not been started, or was cleared.
LEMMA EmptyLists == ListsOK([l \in Langs |-> << >>])
  BY DEF ListsOK

\* disableSubtitle: no language and no variants.
LEMMA DisableKeeps ==
    ASSUME SubtitlerInv, DisableSubtitle
    PROVE  SubtitlerInv'
<1>1. SubtitlerTypes'
  BY DEF SubtitlerInv, SubtitlerTypes, DisableSubtitle
<1>2. QuietLists' /\ FreshBox'
  BY DEF SubtitlerInv, QuietLists, FreshBox, DisableSubtitle
<1> QED
  BY <1>1, <1>2, Languages
     DEF SubtitlerInv, VariantsHaveLanguage, LanguageShown, DisableSubtitle, VariantsCleared

\* Every step keeps the invariant.
LEMMA SubtitlerStep == SubtitlerInv /\ [Next]_vars => SubtitlerInv'
<1> SUFFICES ASSUME SubtitlerInv, [Next]_vars PROVE SubtitlerInv'
  OBVIOUS
<1>1. CASE StartSubtitles
  BY <1>1, StartKeeps
<1>2. CASE ClearSubtitles
  <2>1. SubtitlerTypes'
    BY <1>2, EmptyLists DEF SubtitlerInv, SubtitlerTypes, ClearSubtitles, Cleared
  <2>2. QuietLists' /\ FreshBox'
    BY <1>2 DEF QuietLists, FreshBox, ClearSubtitles, Cleared
  <2> QED
    BY <1>2, <2>1, <2>2, Languages
       DEF SubtitlerInv, VariantsHaveLanguage, LanguageShown, ClearSubtitles, Cleared
<1>3. ASSUME NEW f \in 1 .. Len(fetchers), FetcherStep(f) PROVE SubtitlerInv'
  BY <1>3, FetcherKeeps
<1>4. ASSUME NEW lang \in Langs, LanguageSelected(lang) PROVE SubtitlerInv'
  <2>1. /\ lang \in languageBox /\ lang \in languages /\ selected' = lang
        /\ UNCHANGED << film, languages, subs, loaded, languageBox, dialog >>
    BY <1>4 DEF LanguageSelected, SubtitlerInv, SubtitlerTypes
  <2>2. lang # NoLang /\ lang # Off
    BY Languages
  <2>3. CASE lang # currentLanguage
    <3>1. UseLanguage(lang, subs, loaded, fetchers)
      BY <1>4, <2>1, <2>3 DEF LanguageSelected
    <3>2. film \in Nat /\ ListsOK(subs) /\ FetchersOK(fetchers)
      BY DEF SubtitlerInv, SubtitlerTypes
    <3>3. /\ FetchersOK(fetchers') /\ currentLanguage' = lang
          /\ \A m, l : Busy(fetchers, m, l) => Busy(fetchers', m, l)
          /\ FreshBox'
      BY <2>1, <3>1, <3>2, LanguageUsed
    <3>4. SubtitlerTypes'
      BY <2>1, <2>2, <3>3 DEF SubtitlerInv, SubtitlerTypes
    <3>5. QuietLists'
      BY <2>1, <3>3 DEF SubtitlerInv, QuietLists
    <3> QED
      BY <2>1, <2>2, <3>3, <3>4, <3>5 DEF SubtitlerInv, VariantsHaveLanguage, LanguageShown
  <2>4. CASE lang = currentLanguage
    <3>1. UNCHANGED << fetchers, currentLanguage, currentSub, variantBox >>
      BY <1>4, <2>4 DEF LanguageSelected
    <3>2. SubtitlerTypes'
      BY <2>1, <2>2, <2>4, <3>1 DEF SubtitlerInv, SubtitlerTypes
    <3>3. QuietLists' /\ FreshBox'
      BY <2>1, <3>1 DEF SubtitlerInv, QuietLists, FreshBox
    <3> QED
      BY <2>1, <2>4, <3>1, <3>2, <3>3 DEF SubtitlerInv, VariantsHaveLanguage, LanguageShown
  <2> QED
    BY <2>3, <2>4
<1>5. CASE OffSelected
  BY <1>5, DisableKeeps DEF OffSelected
<1>6. CASE CustomSelected
  <2>1. SubtitlerTypes'
    BY <1>6 DEF SubtitlerInv, SubtitlerTypes, CustomSelected, Off, Custom
  <2>2. QuietLists' /\ FreshBox'
    BY <1>6 DEF SubtitlerInv, QuietLists, FreshBox, CustomSelected
  <2> QED
    BY <1>6, <2>1, <2>2, Languages
       DEF SubtitlerInv, VariantsHaveLanguage, LanguageShown, CustomSelected
<1>7. CASE CustomSubtitle
  <2>1. SubtitlerTypes'
    BY <1>7 DEF SubtitlerInv, SubtitlerTypes, CustomSubtitle
  <2>2. QuietLists' /\ FreshBox'
    BY <1>7 DEF SubtitlerInv, QuietLists, FreshBox, CustomSubtitle
  <2> QED
    BY <1>7, <2>1, <2>2
       DEF SubtitlerInv, VariantsHaveLanguage, LanguageShown, CustomSubtitle
<1>8. CASE CustomFails
  BY <1>8, DisableKeeps DEF CustomFails
<1>9. ASSUME NEW v \in variantBox, VariantSelected(v) PROVE SubtitlerInv'
  <2>1. SubtitlerTypes'
    BY <1>9 DEF SubtitlerInv, SubtitlerTypes, VariantSelected
  <2>2. QuietLists' /\ FreshBox'
    BY <1>9 DEF SubtitlerInv, QuietLists, FreshBox, VariantSelected
  <2> QED
    BY <1>9, <2>1, <2>2
       DEF SubtitlerInv, VariantsHaveLanguage, LanguageShown, VariantSelected
<1>10. CASE UNCHANGED vars
  <2>1. SubtitlerTypes'
    BY <1>10 DEF SubtitlerInv, SubtitlerTypes, vars
  <2>2. QuietLists' /\ FreshBox'
    BY <1>10 DEF SubtitlerInv, QuietLists, FreshBox, vars
  <2> QED
    BY <1>10, <2>1, <2>2 DEF SubtitlerInv, VariantsHaveLanguage, LanguageShown, vars
<1> QED
  BY <1>1, <1>2, <1>3, <1>4, <1>5, <1>6, <1>7, <1>8, <1>9, <1>10 DEF Next

\* The invariant holds in every state of every behaviour.
THEOREM SubtitlerAlways == Spec => []SubtitlerInv
<1>1. Init => SubtitlerInv
  <2> SUFFICES ASSUME Init PROVE SubtitlerInv
    OBVIOUS
  <2>1. SubtitlerTypes
    BY EmptyLists DEF Init, SubtitlerTypes, FetchersOK
  <2>2. QuietLists /\ FreshBox
    BY DEF Init, QuietLists, FreshBox
  <2> QED
    BY <2>1, <2>2, Languages DEF Init, SubtitlerInv, VariantsHaveLanguage, LanguageShown
<1> QED
  BY <1>1, SubtitlerStep, PTL DEF Spec

\* updateVariants and its callers: variantSelected (Subtitler.cpp:145) never
\* dereferences a language that is not there.
THEOREM VariantsSafe == Spec => []VariantsHaveLanguage
<1>1. SubtitlerInv => VariantsHaveLanguage
  BY DEF SubtitlerInv
<1> QED
  BY <1>1, SubtitlerAlways, PTL

-----------------------------------------------------------------------------
(* The subtitle in use *)

\* Variants are numbered from one.
LEMMA VariantsNumbered ==
    ASSUME NEW list, NEW ready, Len(list) \in Nat
    PROVE  UpdateVariants(list, ready) \subseteq Nat \ {0}
  BY DEF UpdateVariants

\* useLanguage takes the first subtitle of the language.
LEMMA OwnUsed ==
    ASSUME NEW lang \in Langs, NEW list, ListsOK(list), NEW ready, NEW s, subs' = list,
           UseLanguage(lang, list, ready, s)
    PROVE  SubOwned'
<1>1. list[lang] \in Seq(Items) /\ \A i \in 1 .. Len(list[lang]) : list[lang][i] \in Own(lang)
  BY DEF ListsOK
<1>2. currentLanguage' = lang
      /\ currentSub' = IF list[lang] = << >> THEN currentSub ELSE Head(list[lang])
  BY DEF UseLanguage
<1>3. list[lang] = << >> \/ currentSub' \in Own(lang)
  <2> SUFFICES ASSUME list[lang] # << >> PROVE currentSub' \in Own(lang)
    OBVIOUS
  <2>1. 1 \in 1 .. Len(list[lang]) /\ Head(list[lang]) = list[lang][1]
    BY <1>1
  <2> QED
    BY <1>1, <1>2, <2>1
<1>4. variantBox' \subseteq Nat \ {0}
  <2>1. Len(list[lang]) \in Nat
    BY <1>1
  <2>2. UpdateVariants(list[lang], ready) \subseteq Nat \ {0}
    BY <2>1, VariantsNumbered
  <2>3. variantBox' = {} \/ variantBox' = UpdateVariants(list[lang], ready)
    BY DEF UseLanguage
  <2> QED
    BY <2>2, <2>3
<1> QED
  BY <1>2, <1>3, <1>4 DEF SubOwned, OwnSub

\* The end of onFinished: a list that was empty stays empty.
LEMMA RequestOwned ==
    ASSUME SubtitlerInv, SubOwned, NEW f, NEW list, NEW ready, ListsOK(list),
           \A l \in Langs : subs[l] = << >> => list[l] = << >>,
           NextRequest(f, list, ready)
    PROVE  SubOwned'
<1>1. subs' = list /\ currentLanguage \in Langs \cup {NoLang}
  BY DEF NextRequest, SubtitlerInv, SubtitlerTypes
<1>2. currentLanguage # NoLang => OwnSub(list)
  BY <1>1 DEF SubOwned, OwnSub
<1>3. \A l \in Langs : UpdateVariants(list[l], ready) \subseteq Nat \ {0}
  <2> SUFFICES ASSUME NEW l \in Langs PROVE UpdateVariants(list[l], ready) \subseteq Nat \ {0}
    OBVIOUS
  <2>1. Len(list[l]) \in Nat
    BY DEF ListsOK
  <2> QED
    BY <2>1, VariantsNumbered
<1> DEFINE next == GetNextSub(list[fetchers[f].lang], ready, fetchers[f].fetchAll)
<1>4. CASE next # NoSub
  <2>1. UNCHANGED << variantBox, currentLanguage, currentSub >>
    BY <1>4 DEF NextRequest
  <2> QED
    BY <1>1, <1>2, <2>1 DEF SubOwned, OwnSub
<1>5. CASE next = NoSub
  <2>1. Finish(f, list, ready)
    BY <1>5 DEF NextRequest
  <2>2. CASE fetchers[f].fetchAll
    <3>1. /\ variantBox' = IF currentLanguage = NoLang THEN {}
                           ELSE UpdateVariants(list[currentLanguage], ready)
          /\ UNCHANGED << currentLanguage, currentSub >>
      BY <2>1, <2>2 DEF Finish
    <3> QED
      BY <1>1, <1>2, <1>3, <3>1 DEF SubOwned, OwnSub
  <2>3. CASE ~fetchers[f].fetchAll
    <3> DEFINE rest == {l \in languages : list[l] # << >>}
    <3> DEFINE now == IF SelectionLost(rest) THEN NoLang ELSE currentLanguage
    <3>1. UpdateLanguages(list, ready, Gone(f))
      BY <2>1, <2>3 DEF Finish
    <3>2. CASE currentLanguage = NoLang /\ currentSub = NoSub /\ Locale \in rest
      <4>1. UseLanguage(Locale, list, ready, Gone(f)) /\ Locale \in Langs
        BY <3>1, <3>2 DEF UpdateLanguages, SubtitlerInv, SubtitlerTypes
      <4> QED
        BY <1>1, <4>1, OwnUsed
    <3>3. CASE ~(currentLanguage = NoLang /\ currentSub = NoSub /\ Locale \in rest)
      <4>1. /\ currentLanguage' = now
            /\ variantBox' = IF now # NoLang THEN UpdateVariants(list[now], ready)
                             ELSE IF SelectionLost(rest) THEN {} ELSE variantBox
            /\ UNCHANGED currentSub
        BY <3>1, <3>3 DEF UpdateLanguages
      <4>2. now = NoLang \/ (now = currentLanguage /\ now \in Langs)
        BY <1>1
      <4> HIDE DEF now, rest
      <4> QED
        BY <1>1, <1>2, <1>3, <4>1, <4>2 DEF SubOwned, OwnSub
    <3> QED
      BY <3>2, <3>3
  <2> QED
    BY <2>2, <2>3
<1> QED
  BY <1>4, <1>5

\* removeOne on an empty list.
LEMMA DropFromEmpty == ASSUME NEW e PROVE RemoveFirst(<< >>, e) = << >>
  BY DEF RemoveFirst

\* The slots of a fetcher leave a subtitle of the current language in use.
LEMMA FetcherOwned ==
    ASSUME SubtitlerInv, SubOwned, NEW f \in 1 .. Len(fetchers), FetcherStep(f)
    PROVE  SubOwned'
<1>1. ListsOK(subs)
  BY DEF SubtitlerInv, SubtitlerTypes
<1>2. ASSUME UNCHANGED << subs, currentLanguage, currentSub, variantBox >> PROVE SubOwned'
  BY <1>2 DEF SubOwned, OwnSub
<1>3. ASSUME fetchers[f].pc = "reply", Alive(fetchers[f]) , NextRequest(f, WithoutSub(f), loaded)
      PROVE  SubOwned'
  <2>1. ListsOK(WithoutSub(f))
    BY <1>3, DroppedIsFetched DEF Fetched
  <2>2. \A l \in Langs : subs[l] = << >> => WithoutSub(f)[l] = << >>
    BY <1>1, DropFromEmpty DEF WithoutSub, ListsOK
  <2> QED
    BY <1>3, <2>1, <2>2, RequestOwned
<1>4. CASE Orphaned(f)
  BY <1>2, <1>4 DEF Orphaned
<1>5. CASE Downloaded(f)
  <2>1. NextRequest(f, subs, loaded \cup {fetchers[f].currSub})
    BY <1>5 DEF Downloaded
  <2> QED
    BY <1>1, <2>1, RequestOwned
<1>6. CASE BadArchive(f)
  BY <1>3, <1>6 DEF BadArchive
<1>7. CASE ReplyError(f)
  BY <1>2, <1>3, <1>7 DEF ReplyError
<1>8. CASE Retry(f)
  BY <1>2, <1>8 DEF Retry
<1> QED
  BY <1>4, <1>5, <1>6, <1>7, <1>8 DEF FetcherStep

\* Every step leaves a subtitle of the current language in use.
LEMMA OwnedStep == SubtitlerInv /\ SubOwned /\ [Next]_vars => SubOwned'
<1> SUFFICES ASSUME SubtitlerInv, SubOwned, [Next]_vars PROVE SubOwned'
  OBVIOUS
<1>1. ListsOK(subs) /\ currentLanguage \in Langs \cup {NoLang}
  BY DEF SubtitlerInv, SubtitlerTypes
<1>2. CASE StartSubtitles \/ ClearSubtitles
  BY <1>2 DEF StartSubtitles, ClearSubtitles, Cleared, SubOwned
<1>3. ASSUME NEW f \in 1 .. Len(fetchers), FetcherStep(f) PROVE SubOwned'
  BY <1>3, FetcherOwned
<1>4. ASSUME NEW lang \in Langs, LanguageSelected(lang) PROVE SubOwned'
  <2>1. subs' = subs
    BY <1>4 DEF LanguageSelected
  <2>2. CASE UseLanguage(lang, subs, loaded, fetchers)
    BY <1>1, <2>1, <2>2, OwnUsed
  <2>3. CASE UNCHANGED << fetchers, currentLanguage, currentSub, variantBox >>
    BY <2>1, <2>3 DEF SubOwned, OwnSub
  <2> QED
    BY <1>4, <2>2, <2>3 DEF LanguageSelected
<1>5. CASE OffSelected \/ CustomFails
  BY <1>5 DEF OffSelected, CustomFails, DisableSubtitle, VariantsCleared, SubOwned
<1>6. CASE CustomSelected
  BY <1>6 DEF CustomSelected, SubOwned, OwnSub
<1>7. CASE CustomSubtitle
  BY <1>7 DEF CustomSubtitle, SubOwned, OwnSub
<1>8. ASSUME NEW v \in variantBox, VariantSelected(v) PROVE SubOwned'
  <2>1. /\ currentSub' = subs[currentLanguage][v] /\ v <= Len(subs[currentLanguage])
        /\ UNCHANGED << subs, currentLanguage, variantBox >>
    BY <1>8 DEF VariantSelected
  <2>2. currentLanguage \in Langs
    BY <1>1 DEF SubtitlerInv, VariantsHaveLanguage
  <2>3. subs[currentLanguage] \in Seq(Items)
    BY <1>1, <2>2 DEF ListsOK
  <2>4. v \in 1 .. Len(subs[currentLanguage])
    BY <2>1, <2>3 DEF SubOwned
  <2>5. currentSub' \in Own(currentLanguage)
    BY <1>1, <2>1, <2>2, <2>4 DEF ListsOK
  <2> QED
    BY <2>1, <2>5 DEF SubOwned, OwnSub
<1>9. CASE UNCHANGED vars
  BY <1>9 DEF vars, SubOwned, OwnSub
<1> QED
  BY <1>2, <1>3, <1>4, <1>5, <1>6, <1>7, <1>8, <1>9 DEF Next

\* updateLanguages, useLanguage and the box's slots: the entry shown is the
\* current language and the subtitle used one of its own, but for a custom one
\* kept by the early return of useLanguage (Subtitler.cpp:243) and for a language
\* without subtitles (:248).
THEOREM SelectionTrue == Spec => []SelectionShown
<1>1. Init => SubOwned
  BY DEF Init, SubOwned
<1>2. SubtitlerInv /\ SubOwned => SelectionShown
  <2> SUFFICES ASSUME SubtitlerInv, SubOwned PROVE SelectionShown
    OBVIOUS
  <2>1. selected \in Langs => OwnSub(subs) /\ currentLanguage = selected
    BY Languages DEF SubtitlerInv, LanguageShown, SubOwned
  <2> QED
    BY <2>1 DEF SubtitlerInv, LanguageShown, SelectionShown, OwnSub, Own
<1>3. Spec => []SubOwned
  BY <1>1, OwnedStep, SubtitlerAlways, PTL DEF Spec
<1> QED
  BY <1>2, <1>3, SubtitlerAlways, PTL

\* getNextSub, with any number of fetchers on one list: a language nobody fetches
\* any more starts with a subtitle that can be displayed.
THEOREM ReadyWhenQuiet == Spec => []QuietMeansReady
<1>1. SubtitlerInv => QuietMeansReady
  <2> SUFFICES ASSUME SubtitlerInv, NEW l \in languages,
                      ~\E f \in 1 .. Len(fetchers) :
                          fetchers[f].lang = l /\ Running(fetchers[f])
               PROVE  subs[l] = << >> \/ Head(subs[l]) \in loaded
    BY DEF QuietMeansReady
  <2>1. ~Busy(fetchers, film, l)
    BY DEF Busy, Running, Alive
  <2> QED
    BY <2>1 DEF SubtitlerInv, QuietLists
<1> QED
  BY <1>1, SubtitlerAlways, PTL

\* The finished signals: the variants are numbered by the list as it is, once
\* nobody fetches the current language any more.
THEOREM FreshWhenQuiet == Spec => []VariantsFreshWhenQuiet
<1>1. SubtitlerInv => VariantsFreshWhenQuiet
  <2> SUFFICES ASSUME SubtitlerInv, currentLanguage # NoLang, currentSub # Custom,
                      ~\E f \in 1 .. Len(fetchers) :
                          fetchers[f].lang = currentLanguage /\ Running(fetchers[f])
               PROVE  variantBox = UpdateVariants(subs[currentLanguage], loaded)
    BY DEF VariantsFreshWhenQuiet
  <2>1. ~Busy(fetchers, film, currentLanguage)
    BY DEF Busy, Running, Alive
  <2> QED
    BY <2>1 DEF SubtitlerInv, FreshBox
<1> QED
  BY <1>1, SubtitlerAlways, PTL
=============================================================================
