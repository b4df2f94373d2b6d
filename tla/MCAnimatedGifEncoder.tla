------------------------ MODULE MCAnimatedGifEncoder ------------------------
(* Instance of AnimatedGifEncoder for TLC: two streams, two frames for each,  *)
(* two sizes, writes that throw on one of the streams.                        *)
EXTENDS AnimatedGifEncoder
=============================================================================
