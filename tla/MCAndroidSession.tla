-------------------------- MODULE MCAndroidSession --------------------------
EXTENDS AndroidSession, TLC

CONSTANTS a, b, w1, w2, da

MCNames == (a :> << "url", "magnet" >>) @@ (b :> << "url" >>)
MCAdderOf == (a :> {da}) @@ (b :> {})
=============================================================================
