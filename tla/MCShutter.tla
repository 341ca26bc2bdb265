----------------------------- MODULE MCShutter -----------------------------
(* Values for the constants of Shutter that a .cfg cannot write.           *)
EXTENDS Shutter
ShortOnly == {1}
Tiny == {0}
=============================================================================
