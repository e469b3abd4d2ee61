SPECIFICATION WrapperFairSpec
CONSTANTS
    r1 = r1
    r2 = r2
    film = film
    other = other
    Callers <- MCRequests
    Hashes <- MCTwoFilms
    Fileless <- MCFileless
    Want <- MCOwnFilm
    Source <- MCHttpSource
    WithMagnet <- MCNoMagnet
    INT_MAX = 6
    MaxAdds = 2
    MaxCancels = 1
PROPERTIES GetAnswered
CHECK_DEADLOCK FALSE
