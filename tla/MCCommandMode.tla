--------------------------- MODULE MCCommandMode ---------------------------
(* Instance for TLC: a frame with a handler whose data holds the start byte *)
(* and one without a handler whose data holds a return; an XBee that has    *)
(* the APN that is asked for, or another one.                               *)
EXTENDS CommandMode

MCFrames == {<<136, 126>>, <<138, 13>>}
MCNames == {<<45>>, <<104>>}
=============================================================================
