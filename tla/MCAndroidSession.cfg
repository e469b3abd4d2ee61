SPECIFICATION Spec
CONSTANTS
    a = a
    b = b
    w1 = w1
    w2 = w2
    da = da
    NoFilm = NoFilm
    NoKey = NoKey
    NoTask = NoTask
    Films = {a, b}
    Names <- MCNames
    Tasks = {w1}
    Adders = {da}
    AdderOf <- MCAdderOf
    MaxActions = 3
INVARIANTS DownloadHasTorrent PausedIsPaused
CHECK_DEADLOCK FALSE
