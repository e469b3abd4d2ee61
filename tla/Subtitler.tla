------------------------------ MODULE Subtitler ------------------------------
(***************************************************************************)
(* Subtitles of the desktop application: gui/Subtitler.cpp and the         *)
(* fetchers of gui/SubtitleFetcher.cpp.  Everything runs in the GUI        *)
(* thread, as slots: replies of the network, retry timers, the user's      *)
(* choices and new films arrive in any order.                              *)
(*                                                                         *)
(* A fetcher downloads the subtitles of one language until the first one   *)
(* can be displayed, or all of them if fetchAll is set.  It changes the    *)
(* language's list, which other fetchers and the combo boxes use as well,  *)
(* and holds the language by a weak pointer only.                          *)
(***************************************************************************)
EXTENDS Integers, Sequences, FiniteSets, SequencesExt

CONSTANTS
    Langs,                      \* languages of a film
    ItemsOf,                    \* language -> its subtitles, in order
    Locale,                     \* language of subtitles_locale, or NoLang
    NoLang,
    SUBTITLE_DOWNLOAD_RETRIES,
    MaxFetchers,                \* bound on the fetchers created
    MaxStarts                   \* bound on the calls of startSubtitles

Items == UNION {Range(ItemsOf[l]) : l \in Langs}

NoSub == "no subtitle"
Custom == "<Custom subtitles>"
Off == "<Subtitles off>"

\* A subtitle belongs to one language; no language is called like an entry of
\* the box that is none.
ASSUME LanguageAssumption ==
    /\ IsFiniteSet(Langs) /\ Langs \cap {NoLang, Off, Custom} = {}
    /\ Locale \in Langs \cup {NoLang}
    /\ ItemsOf \in [Langs -> Seq(Items)] /\ Items \cap {NoSub, Custom} = {}
    /\ \A l \in Langs : ItemsOf[l] # << >> /\ IsInjective(ItemsOf[l])
    /\ \A l, m \in Langs : Range(ItemsOf[l]) \cap Range(ItemsOf[m]) # {} => l = m

ASSUME LimitAssumption ==
    SUBTITLE_DOWNLOAD_RETRIES \in Nat /\ MaxFetchers \in Nat /\ MaxStarts \in Nat

VARIABLES
    film,           \* calls of startSubtitles: which film's objects are alive
    languages,
    subs,           \* SubtitleLanguage::subs
    loaded,         \* items for which canDisplay()
    fetchers,       \* every SubtitleFetcher created
    currentLanguage,
    currentSub,     \* an item, NoSub or Custom
    languageBox,    \* languages the user can choose
    selected,       \* current entry of m_languageBox: a language, Off or Custom
    variantBox,     \* numbers of the variants the user can choose
    dialog          \* the file dialog of customSubtitle is open

vars == << film, languages, subs, loaded, fetchers, currentLanguage, currentSub,
           languageBox, selected, variantBox, dialog >>

\* The language object a fetcher's weak pointer leads to still exists.
Alive(f) ==
    /\ f.film = film
    /\ f.lang \in languages \/ f.lang = currentLanguage

Running(f) == f.pc # "gone" /\ Alive(f)

Init ==
    /\ film = 0
    /\ languages = {}
    /\ subs = [l \in Langs |-> << >>]
    /\ loaded = {}
    /\ fetchers = << >>
    /\ currentLanguage = NoLang
    /\ currentSub = NoSub
    /\ languageBox = {}
    /\ selected = Off
    /\ variantBox = {}
    /\ dialog = FALSE

-----------------------------------------------------------------------------
(* SubtitleFetcher *)

\* The constructor asks for the first subtitle, loaded or not.
NewFetcher(lang, item, all, n) ==
    [pc |-> "reply", film |-> n, lang |-> lang, fetchAll |-> all, currSub |-> item,
     retriesLeft |-> SUBTITLE_DOWNLOAD_RETRIES]

\* Faulty: only a fetcher of all subtitles goes on after the first reply.
NextSubOfAll(list, ready, all) ==
    LET first == SelectInSeq(list, LAMBDA item : item \notin ready) IN
    IF first = 0 \/ ~all THEN NoSub ELSE list[first]

\* getNextSub: the first subtitle that is not loaded yet, if any is needed.
GetNextSub(list, ready, all) ==
    LET first == SelectInSeq(list, LAMBDA item : item \notin ready) IN
    IF first = 0 \/ (~all /\ Head(list) \in ready) THEN NoSub ELSE list[first]

\* deleteLater.
Gone(f) == [fetchers EXCEPT ![f] = [@ EXCEPT !.pc = "gone", !.currSub = NoSub,
                                             !.retriesLeft = 0]]

-----------------------------------------------------------------------------
(* Subtitler *)

\* updateVariants numbers the displayable subtitles by their place in the list;
\* the box is emptied if there is nothing to choose from.
UpdateVariants(list, ready) ==
    LET shown == {i \in 1 .. Len(list) : list[i] \in ready} IN
    IF Cardinality(shown) > 1 THEN shown ELSE {}

\* useLanguage: the first subtitle is used as it is, and the rest is fetched
\* while the box says "Updating variant list...".
UseLanguage(lang, list, ready, running) ==
    /\ currentLanguage' = lang
    /\ currentSub' = IF list[lang] = << >> THEN currentSub ELSE Head(list[lang])
    /\ IF Len(list[lang]) > 1
       THEN /\ fetchers' = Append(running, NewFetcher(lang, Head(list[lang]), TRUE, film))
            /\ variantBox' = {}
       ELSE /\ fetchers' = running
            /\ variantBox' = UpdateVariants(list[lang], ready)

\* Faulty: the selected language may vanish from the box unnoticed.
SelectionKept(rest) == FALSE

\* SubComboBox::select does not find the selected language any more and
\* activates SUBTITLES_OFF.
SelectionLost(rest) == selected \in Langs \ rest

\* updateLanguages, when a fetcher of startSubtitles has finished: languages
\* without subtitles go, the boxes are filled again, and the user's locale is
\* chosen if nothing was chosen yet.
UpdateLanguages(list, ready, running) ==
    LET rest == {l \in languages : list[l] # << >>}
        lang == IF SelectionLost(rest) THEN NoLang ELSE currentLanguage
    IN
    /\ languages' = rest
    /\ languageBox' = rest
    /\ IF currentLanguage = NoLang /\ currentSub = NoSub /\ Locale \in rest
       THEN /\ selected' = Locale
            /\ UseLanguage(Locale, list, ready, running)
       ELSE /\ selected' = IF SelectionLost(rest) THEN Off ELSE selected
            /\ currentLanguage' = lang
            /\ variantBox' = IF lang # NoLang THEN UpdateVariants(list[lang], ready)
                             ELSE IF SelectionLost(rest) THEN {} ELSE variantBox
            /\ fetchers' = running
            /\ UNCHANGED currentSub

\* Faulty: the finished signal of a fetcher of all subtitles has no receiver.
FinishSilently(f, list, ready) ==
    IF fetchers[f].fetchAll
    THEN /\ fetchers' = Gone(f)
         /\ UNCHANGED << languages, languageBox, selected, currentLanguage, currentSub,
                         variantBox >>
    ELSE UpdateLanguages(list, ready, Gone(f))

\* The fetcher found no more to do: emit finished(), deleteLater().
Finish(f, list, ready) ==
    LET running == Gone(f) IN
    IF fetchers[f].fetchAll
    THEN /\ fetchers' = running
         /\ variantBox' = IF currentLanguage = NoLang THEN {}
                          ELSE UpdateVariants(list[currentLanguage], ready)
         /\ UNCHANGED << languages, languageBox, selected, currentLanguage, currentSub >>
    ELSE UpdateLanguages(list, ready, running)

\* The end of onFinished: the next subtitle is asked for, or none is left.
NextRequest(f, list, ready) ==
    LET next == GetNextSub(list[fetchers[f].lang], ready, fetchers[f].fetchAll) IN
    /\ subs' = list
    /\ loaded' = ready
    /\ IF next = NoSub
       THEN Finish(f, list, ready)
       ELSE /\ fetchers' = [fetchers EXCEPT ![f].currSub = next,
                              ![f].retriesLeft = SUBTITLE_DOWNLOAD_RETRIES]
            /\ UNCHANGED << languages, languageBox, selected, variantBox,
                            currentLanguage, currentSub >>
    /\ UNCHANGED << film, dialog >>

WithoutSub(f) == [subs EXCEPT ![fetchers[f].lang] = RemoveFirst(@, fetchers[f].currSub)]

\* A slot of a fetcher whose language is gone deletes the fetcher.
Orphaned(f) ==
    /\ fetchers[f].pc \in {"reply", "retry"}
    /\ ~Alive(fetchers[f])
    /\ fetchers' = Gone(f)
    /\ UNCHANGED << film, languages, subs, loaded, currentLanguage, currentSub,
                    languageBox, selected, variantBox, dialog >>

\* The archive arrived and holds a subtitle.
Downloaded(f) ==
    /\ fetchers[f].pc = "reply" /\ Alive(fetchers[f])
    /\ NextRequest(f, subs, loaded \cup {fetchers[f].currSub})

\* setZipData fails: the subtitle is dropped.
BadArchive(f) ==
    /\ fetchers[f].pc = "reply" /\ Alive(fetchers[f])
    /\ NextRequest(f, WithoutSub(f), loaded)

HasRetries(n) == n > 0

\* The reply is an error: try again after SUBTITLE_DOWNLOAD_RETRY_DELAY_S, or
\* give the subtitle up.
ReplyError(f) ==
    /\ fetchers[f].pc = "reply" /\ Alive(fetchers[f])
    /\ IF HasRetries(fetchers[f].retriesLeft)
       THEN /\ fetchers' = [fetchers EXCEPT ![f].pc = "retry"]
            /\ UNCHANGED << film, languages, subs, loaded, currentLanguage, currentSub,
                            languageBox, selected, variantBox, dialog >>
       ELSE NextRequest(f, WithoutSub(f), loaded)

\* Faulty: a retry costs nothing.
RetriesKept(n) == n

\* request() counts every attempt.
RetriesAfterRequest(n) == n - 1

\* request() by the timer.
Retry(f) ==
    /\ fetchers[f].pc = "retry" /\ Alive(fetchers[f])
    /\ fetchers' = [fetchers EXCEPT ![f].pc = "reply",
                                    ![f].retriesLeft = RetriesAfterRequest(@)]
    /\ UNCHANGED << film, languages, subs, loaded, currentLanguage, currentSub,
                    languageBox, selected, variantBox, dialog >>

FetcherStep(f) ==
    Orphaned(f) \/ Downloaded(f) \/ BadArchive(f) \/ ReplyError(f) \/ Retry(f)

-----------------------------------------------------------------------------
(* What the user and the torrent engine do *)

\* Room for the fetchers a step creates, and for the one of the user's locale.
Room(n) == Len(fetchers) + n < MaxFetchers

\* The lists and boxes of clearSubtitles.
Cleared ==
    /\ currentLanguage' = NoLang
    /\ currentSub' = NoSub
    /\ languageBox' = {}
    /\ selected' = Off
    /\ variantBox' = {}
    /\ UNCHANGED dialog

\* clearSubtitles alone, when a torrent starts or the player is reset.
ClearSubtitles ==
    /\ languages' = {}
    /\ subs' = [l \in Langs |-> << >>]
    /\ loaded' = {}
    /\ Cleared
    /\ UNCHANGED << film, fetchers >>

\* startSubtitles: a fetcher is started for every language of the new film.
StartSubtitles ==
    /\ film < MaxStarts /\ Room(Cardinality(Langs))
    /\ film' = film + 1
    /\ languages' = Langs
    /\ subs' = ItemsOf
    /\ loaded' = {}
    /\ fetchers' = fetchers \o
         [i \in 1 .. Cardinality(Langs) |->
            LET l == SetToSeq(Langs)[i] IN NewFetcher(l, Head(ItemsOf[l]), FALSE, film + 1)]
    /\ Cleared

\* A modal dialog blocks the combo boxes.
LanguageSelected(lang) ==
    /\ ~dialog
    /\ lang \in languageBox
    /\ selected' = lang
    /\ \/ /\ lang \in languages \ {currentLanguage}
          /\ Room(1)
          /\ UseLanguage(lang, subs, loaded, fetchers)
       \/ /\ lang \notin languages \ {currentLanguage}
          /\ UNCHANGED << fetchers, currentLanguage, currentSub, variantBox >>
    /\ UNCHANGED << film, languages, subs, loaded, languageBox, dialog >>

\* Faulty: subtitles are switched off without updateVariants.
VariantsKept == variantBox

\* disableSubtitle ends in updateVariants, which clears the box.
VariantsCleared == {}

\* disableSubtitle leaves currentSub as it is.
DisableSubtitle ==
    /\ selected' = Off
    /\ currentLanguage' = NoLang
    /\ variantBox' = VariantsCleared
    /\ UNCHANGED << film, languages, subs, loaded, fetchers, currentSub, languageBox >>

\* The user chooses SUBTITLES_OFF.
OffSelected == ~dialog /\ DisableSubtitle /\ UNCHANGED dialog

\* The user chooses SUBTITLES_CUSTOM: other slots run while the dialog is open.
CustomSelected ==
    /\ ~dialog
    /\ selected' = Custom
    /\ dialog' = TRUE
    /\ UNCHANGED << film, languages, subs, loaded, fetchers, currentLanguage, currentSub,
                    languageBox, variantBox >>

\* customSubtitle with a file: the current language is left as it is.
CustomSubtitle ==
    /\ dialog
    /\ dialog' = FALSE
    /\ currentSub' = Custom
    /\ variantBox' = {}
    /\ UNCHANGED << film, languages, subs, loaded, fetchers, currentLanguage,
                    languageBox, selected >>

\* No file was chosen, or it cannot be read.
CustomFails == dialog /\ dialog' = FALSE /\ DisableSubtitle

\* variantSelected: the list may have become shorter since it was numbered.
VariantSelected(n) ==
    /\ ~dialog
    /\ n \in variantBox
    /\ n <= Len(subs[currentLanguage])
    /\ currentSub' = subs[currentLanguage][n]
    /\ UNCHANGED << film, languages, subs, loaded, fetchers, currentLanguage,
                    languageBox, selected, variantBox, dialog >>

Next ==
    \/ StartSubtitles
    \/ ClearSubtitles
    \/ \E f \in 1 .. Len(fetchers) : FetcherStep(f)
    \/ \E l \in Langs : LanguageSelected(l)
    \/ OffSelected
    \/ CustomSelected
    \/ CustomSubtitle
    \/ CustomFails
    \/ \E n \in variantBox : VariantSelected(n)

Spec == Init /\ [][Next]_vars

\* Every request is answered, if only by an error, and timers fire.
FairSpec ==
    Spec /\ \A f \in 1 .. MaxFetchers : WF_vars(f <= Len(fetchers) /\ FetcherStep(f))

-----------------------------------------------------------------------------
(* Properties *)

\* variantSelected dereferences currentLanguage (Subtitler.cpp:145): whenever
\* the box offers a variant, a language is selected.
VariantsHaveLanguage == variantBox # {} => currentLanguage # NoLang

\* The language the box shows is the current one and the subtitle used is one of
\* its own, except that a custom subtitle stays in use when its user goes back to
\* the language he came from (useLanguage returns early, Subtitler.cpp:243), and
\* the old subtitle when the language has lost all of its own (:248).  And a
\* current language that updateLanguages dropped stays current only while a
\* custom subtitle is chosen.
SelectionShown ==
    /\ selected \in Langs =>
          /\ currentLanguage = selected
          /\ currentSub \in Range(ItemsOf[selected]) \cup {Custom} \/ subs[selected] = << >>
    /\ currentLanguage \notin languages \cup {NoLang} => selected = Custom

\* When nobody fetches a language of the list any more, its first subtitle can
\* be displayed, whichever of its fetchers finished last and although a second
\* fetcher may have dropped the subtitle the first one had settled for.
QuietMeansReady ==
    \A l \in languages :
        (~\E f \in 1 .. Len(fetchers) : fetchers[f].lang = l /\ Running(fetchers[f]))
            => subs[l] = << >> \/ Head(subs[l]) \in loaded

\* ... and then the variant box offers exactly what can be displayed: it is not
\* left at "Updating variant list..." nor with numbers of an older list.
VariantsFreshWhenQuiet ==
    (/\ currentLanguage # NoLang /\ currentSub # Custom
     /\ ~\E f \in 1 .. Len(fetchers) :
            fetchers[f].lang = currentLanguage /\ Running(fetchers[f]))
        => variantBox = UpdateVariants(subs[currentLanguage], loaded)

\* Every fetcher ends, whatever is selected and however often requests fail.
FetchersEnd ==
    \A f \in 1 .. MaxFetchers :
        (f <= Len(fetchers)) ~> (f <= Len(fetchers) /\ fetchers[f].pc = "gone")
=============================================================================
