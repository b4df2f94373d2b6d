----------------------------- MODULE MCRecorder -----------------------------
(* Instance of Recorder for TLC: 100 ticks become 4 and 10 become 2, which   *)
(* keeps the order 0 < 1 < MinProgress < MaxProgress < MaxProgress + 1.      *)
EXTENDS Recorder
=============================================================================
