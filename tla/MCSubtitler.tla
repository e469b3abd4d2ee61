----------------------------- MODULE MCSubtitler -----------------------------
\* English has two variants and is the user's locale; French, if the film has
\* it, has one.
EXTENDS Subtitler, TLC

CONSTANTS en, fr, e1, e2, f1

MCLangs == {en, fr}
MCItemsOf == (en :> << e1, e2 >>) @@ (fr :> << f1 >>)
=============================================================================
