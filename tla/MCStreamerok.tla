---------------------------- MODULE MCStreamerok ----------------------------
\* Two download threads, a normal torrent and one without a usable file.
EXTENDS Streamerok, TLC

CONSTANTS c1, c2, film, empty

MCCallers == {c1, c2}
MCHashes == {film, empty}
MCFileless == {empty}
=============================================================================
