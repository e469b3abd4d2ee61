---------------------------- MODULE MCChromeCast ----------------------------
\* A television that is found twice, by Google Cast and by DLNA, and a box.
EXTENDS ChromeCast

CONSTANTS tvCast, tvDlna, box

MCNameOf == [d \in Devices |-> IF d = box THEN "Box" ELSE "TV"]
=============================================================================
