SPECIFICATION WrapperFairSpec
CONSTANTS
    r1 = r1
    r2 = r2
    film = film
    other = other
    Callers <- MCRequests
    Hashes <- MCOneFilm
    Fileless <- MCFileless
    Want <- MCSameFilm
    Source <- MCMixedSource
    WithMagnet <- MCMagnet
    INT_MAX = 6
    MaxAdds = 3
    MaxCancels = 2
INVARIANTS WrapperTypeOK  AwakeOnlyForTorrents
PROPERTIES CancelWaitEnds
CHECK_DEADLOCK FALSE
