-------------------------- MODULE MCTorrentWrapper --------------------------
\* Two requests of one film, by a http url with a magnet link to fall back to
\* and by a local torrent file; or of two films, both by http urls only.
EXTENDS TorrentWrapper, TLC

CONSTANTS r1, r2, film, other

MCRequests == {r1, r2}
MCFileless == {}

MCOneFilm == {film}
MCSameFilm == [r \in MCRequests |-> film]
MCMixedSource == (r1 :> "http") @@ (r2 :> "local")
MCMagnet == {r1}

MCTwoFilms == {film, other}
MCOwnFilm == (r1 :> film) @@ (r2 :> other)
MCHttpSource == [r \in MCRequests |-> "http"]
MCNoMagnet == {}
=============================================================================
