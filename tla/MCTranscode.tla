---------------------------- MODULE MCTranscode ----------------------------
(* The command that uses the palette: the video and the palette picture.    *)
EXTENDS Transcode

MCNonBlocking == {2}
=============================================================================
