---------------------------- MODULE MCFrameRate ----------------------------
(* Pictures that come too early, too late, just in time and far too late.   *)
EXTENDS FrameRate

MCMuxers == {"gif", "image2"}
MCDurations == {0, 10}
MCSteps == {0, 3, 10, 14, 35, 70}
=============================================================================
