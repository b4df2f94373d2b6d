----------------------------- MODULE FramePipe -----------------------------
(***************************************************************************)
(* What a run of ffmpeg.c promises about the pictures of the video: each   *)
(* one that enters the filter graph is encoded and written, in this order, *)
(* none is left behind when the run ends well, and the run ends.           *)
(***************************************************************************)
EXTENDS Naturals

VARIABLES
  taken,   (* pictures that entered the filter graph *)
  coded,   (* pictures given to the encoder *)
  saved,   (* packets written to the file *)
  ended,   (* no more pictures will enter *)
  state    (* "open", "closed" when all went well, "broken" otherwise *)

vars == <<taken, coded, saved, ended, state>>

Init == taken = 0 /\ coded = 0 /\ saved = 0 /\ ended = FALSE /\ state = "open"

Take ==
  /\ state = "open" /\ ~ended
  /\ taken' = taken + 1
  /\ UNCHANGED <<coded, saved, ended, state>>

End ==
  /\ state = "open" /\ ~ended
  /\ ended' = TRUE
  /\ UNCHANGED <<taken, coded, saved, state>>

Code ==
  /\ state = "open" /\ coded < taken
  /\ coded' = coded + 1
  /\ UNCHANGED <<taken, saved, ended, state>>

Save ==
  /\ state = "open" /\ saved < coded
  /\ saved' = saved + 1
  /\ UNCHANGED <<taken, coded, ended, state>>

Close ==
  /\ state = "open" /\ ended
  /\ coded = taken /\ saved = coded
  /\ state' = "closed"
  /\ UNCHANGED <<taken, coded, saved, ended>>

Break ==
  /\ state = "open"
  /\ state' = "broken"
  /\ UNCHANGED <<taken, coded, saved, ended>>

Next == Take \/ End \/ Code \/ Save \/ Close \/ Break

Safety == Init /\ [][Next]_vars

Spec == Safety /\ <>(state # "open")
=============================================================================
