---------------------------- MODULE LosslessFrame ----------------------------
(* What a frame's encoder and decoder promise together: pixels arrive in      *)
(* order, none lost, changed or added, and the frame is closed only when all  *)
(* have arrived.                                                              *)
EXTENDS Naturals, Sequences

VARIABLES sent, got, closed

Init == got = <<>> /\ closed = FALSE

Deliver ==
  /\ ~closed /\ Len(got) < Len(sent)
  /\ \E n \in Len(got) + 1 .. Len(sent) : got' = SubSeq(sent, 1, n)
  /\ UNCHANGED <<sent, closed>>

Close == ~closed /\ got = sent /\ closed' = TRUE /\ UNCHANGED <<sent, got>>

Next == Deliver \/ Close

Spec == Init /\ [][Next]_<<sent, got, closed>> /\ WF_<<sent, got, closed>>(Next)
=============================================================================
