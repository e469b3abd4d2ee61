SPECIFICATION SessionFairSpec
CONSTANTS
    c1 = c1
    c2 = c2
    film = film
    empty = empty
    Callers <- MCCallers
    Hashes <- MCHashes
    Fileless <- MCFileless
    INT_MAX = 5
    MaxAdds = 5
INVARIANTS NoLostTorrent ResultMeansTorrent
PROPERTIES AddReturns
CHECK_DEADLOCK FALSE
