--------------------------- MODULE MCInputThreads ---------------------------
(* Instance of InputThreads for TLC: the video (blocking) and the palette     *)
(* picture (non-blocking, its demuxer has no AVIOContext).                    *)
EXTENDS InputThreads
MCNonBlocking == {2}
=============================================================================
