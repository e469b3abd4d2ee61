SPECIFICATION FairSpec
CONSTANTS
    a = a
    b = b
    w1 = w1
    w2 = w2
    da = da
    NoFilm = NoFilm
    NoKey = NoKey
    NoTask = NoTask
    Films = {a, b}
    Names <- MCNames
    Tasks = {w1, w2}
    Adders = {da}
    AdderOf <- MCAdderOf
    MaxActions = 2
CHECK_DEADLOCK FALSE
INVARIANT OneWatch
PROPERTIES StopEnds WatchProgresses
