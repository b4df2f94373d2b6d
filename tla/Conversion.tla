----------------------------- MODULE Conversion -----------------------------
(* The conversion of a video, MainActivity.convertVideoToGif and              *)
(* GifUtil.mp4ToGif: two runs of ffmpeg, the first for a palette, the second  *)
(* for the GIF, whose results nobody looks at, then a toast. Conversions are  *)
(* one at a time here; the app does not see to that.                          *)
EXTENDS FfmpegRun

CONSTANTS MaxConversions  \* bound

ASSUME ConversionAssumption ==
  /\ MaxConversions \in Nat \ {0}
  /\ Commands = {"palette", "gif"} /\ Complex = {"gif"} /\ NoFile = {"palette"}
  /\ Inputs["palette"] = 1 /\ Inputs["gif"] = 2

VARIABLES
  stage,        \* where mp4ToGif is: "main" when none runs, "toast" when it has returned
  conversion,   \* the number of the conversion
  file          \* for each command the conversion its output file is of, None or Broken

conversionVars == <<vars, stage, conversion, file>>

None == 0
Broken == -1

ConversionInit == Init /\ cmd = "gif" /\ stage = "main" /\ conversion = 0 /\ file = [c \in Commands |-> None]

convertVideoToGif ==
  /\ stage = "main" /\ conversion < MaxConversions
  /\ Enter("palette") /\ stage' = "palette" /\ conversion' = conversion + 1
  /\ UNCHANGED file

(* cmdRun returns, with a code that is ignored.                               *)
cmdRunReturns ==
  /\ Return
  /\ stage' = IF stage = "palette" THEN "second" ELSE "toast"
  /\ UNCHANGED <<conversion, file>>

secondCommand == stage = "second" /\ Enter("gif") /\ stage' = "gif" /\ UNCHANGED <<conversion, file>>

(* The second input of the second command is the palette.                     *)
RunStep ==
  /\ Step
  /\ (cmd = "gif" /\ todo = 1 /\ open_input_file) => file["palette"] # None
  /\ UNCHANGED <<stage, conversion, file>>

(* Opening the output without truncating it. *)
OutputOpensKeeping == open_output_file /\ UNCHANGED <<stage, conversion, file>>

(* Opening the output truncates it, unless the muxer opens files on its own.  *)
OutputOpens ==
  /\ open_output_file
  /\ file' = IF cmd \in NoFile THEN file ELSE [file EXCEPT ![cmd] = Broken]
  /\ UNCHANGED <<stage, conversion>>

OutputEnds ==
  /\ TranscodeEnds
  /\ file' = [file EXCEPT ![cmd] = CASE written' = "whole" -> conversion
                                     [] written' = "part" -> Broken
                                     [] written' = "no" -> @]
  /\ UNCHANGED <<stage, conversion>>

Toast == stage = "toast" /\ stage' = "main" /\ UNCHANGED <<vars, conversion, file>>

(* A new process: the conversion is lost, the files stay.                     *)
AppRestarts == Restart /\ stage' = "main" /\ UNCHANGED <<conversion, file>>

ConversionNext ==
  \/ convertVideoToGif \/ cmdRunReturns \/ secondCommand
  \/ RunStep \/ OutputOpens \/ OutputEnds \/ Toast \/ AppRestarts

(* One thread of the io scheduler runs mp4ToGif to its end and the main       *)
(* looper delivers the result. Nothing makes the user restart the app, nor    *)
(* the transcode loop meet an error.                                          *)
ConversionSpec ==
  /\ ConversionInit /\ [][ConversionNext]_conversionVars
  /\ WF_conversionVars(\/ cmdRunReturns \/ secondCommand \/ (RunStep /\ ~LoopFails)
                       \/ OutputOpens \/ OutputEnds \/ Toast)

-----------------------------------------------------------------------------
(* Every conversion ends with a toast or with the process: no error path      *)
(* leaves the run, or the second one after it, waiting.                       *)
ConversionEnds == (stage = "palette") ~> (stage = "toast" \/ pc = "crashed")

(* When the toast is shown, the file it names is not the GIF of an earlier    *)
(* conversion, whatever failed on the way.                                    *)
NoStaleGif == stage = "toast" => file["gif"] \in {Broken, conversion}
=============================================================================
