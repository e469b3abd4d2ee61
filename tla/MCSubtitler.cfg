SPECIFICATION FairSpec
CONSTANTS
    en = en
    fr = fr
    e1 = e1
    e2 = e2
    f1 = f1
    NoLang = NoLang
    Langs <- MCLangs
    ItemsOf <- MCItemsOf
    Locale = en
    SUBTITLE_DOWNLOAD_RETRIES = 1
    MaxFetchers = 5
    MaxStarts = 2
INVARIANTS VariantsHaveLanguage SelectionShown QuietMeansReady VariantsFreshWhenQuiet
PROPERTIES FetchersEnd
CHECK_DEADLOCK FALSE
