----------------------------- MODULE FfmpegRun -----------------------------
(* One run of the ffmpeg program after another in one process: jxRun of       *)
(* ffmpeg.c, the open functions of ffmpeg_opt.c and exit_program of           *)
(* cmdutils.c, over globals no run but the last statements of jxRun resets.   *)
(* exit_program cleans up and returns (its exit is commented out), so a run   *)
(* that fails goes on with freed arrays. Signals and transcode_init_done,     *)
(* which only shape messages here, are left out; so are the failures of       *)
(* option parsing: the app has two fixed command lines.                       *)
EXTENDS Integers

CONSTANTS
  Commands,
  Inputs,     \* how many input files a command names
  Complex,    \* the commands with -lavfi: their filter graph is made while options are parsed
  NoFile,     \* the commands whose muxer opens no file (AVFMT_NOFILE)
  MaxFrames   \* bound: results of decoders in one run

ASSUME RunAssumption ==
  /\ Inputs \in [Commands -> Nat \ {0}]
  /\ Complex \subseteq Commands /\ NoFile \subseteq Commands
  /\ MaxFrames \in Nat

(* The global arrays of pointers, each with its nb_ counter.                  *)
Arrays == {"filtergraphs", "input_streams", "input_files", "output_streams", "output_files"}

VARIABLES
  pc,         \* where the run is; "idle" between runs, "crashed" when the process is dead
  cmd,        \* its command
  todo,       \* input files still to open
  nb,         \* the nb_ counters
  held,       \* how many objects each array really holds (0 after av_freep of the array)
  decodeErrorStat, \* decode_error_stat: results so far, good and bad
  mainReturnCode,
  written,    \* what the run's muxer has completed: "no", "part" or "whole" of a file
  failed,     \* history: this run called exit_program on an error path
  alarm,      \* history: because of its error rate
  own         \* history: the decoder results of this run alone

globals == <<nb, held, decodeErrorStat, mainReturnCode>>
vars == <<pc, cmd, todo, globals, written, failed, alarm, own>>

Stats == [good : Nat, bad : Nat]
NoStats == [good |-> 0, bad |-> 0]
Empty == [a \in Arrays |-> 0]
AboveMaxErrorRate(s) == 2 * s.good < s.bad    \* (good + bad) * 2/3 < bad

-----------------------------------------------------------------------------
Init ==
  /\ pc = "idle" /\ cmd \in Commands /\ todo = 0
  /\ nb = Empty /\ held = Empty /\ decodeErrorStat = NoStats /\ mainReturnCode = 0
  /\ written = "no" /\ failed = FALSE /\ alarm = FALSE /\ own = NoStats

(* GROW_ARRAY and the pointer put in the new element.                         *)
Grow(arrays) ==
  /\ nb' = [a \in Arrays |-> IF a \in arrays THEN nb[a] + 1 ELSE nb[a]]
  /\ held' = [a \in Arrays |-> IF a \in arrays THEN held[a] + 1 ELSE held[a]]

(* ffmpeg_cleanup, called by exit_program, walks each array by its counter,   *)
(* frees it and leaves the counter: called twice, it reads through NULL.      *)
ffmpeg_cleanup(next) ==
  IF \A a \in Arrays : nb[a] <= held[a]
  THEN pc' = next /\ held' = Empty
  ELSE pc' = "crashed" /\ UNCHANGED held

(* A fatal error: exit_program(1), after which the code goes on and reads     *)
(* through what was freed.                                                    *)
DieOfFreedArrays ==
  /\ failed' = TRUE /\ pc' = "crashed"
  /\ UNCHANGED <<cmd, todo, globals, written, alarm, own>>

(* jxRun enters; opt_filter_complex.                                          *)
Enter(c) ==
  /\ pc = "idle"
  /\ cmd' = c /\ todo' = Inputs[c] /\ pc' = "inputs"
  /\ Grow(IF c \in Complex THEN {"filtergraphs"} ELSE {})
  /\ written' = "no" /\ failed' = FALSE /\ alarm' = FALSE /\ own' = NoStats
  /\ UNCHANGED <<decodeErrorStat, mainReturnCode>>

open_input_file ==
  /\ pc = "inputs"
  /\ todo' = todo - 1 /\ pc' = IF todo = 1 THEN "outputs" ELSE "inputs"
  /\ Grow({"input_files", "input_streams"})
  /\ UNCHANGED <<cmd, decodeErrorStat, mainReturnCode, written, failed, alarm, own>>

(* avformat_open_input fails: ic is NULL and is read after exit_program.      *)
InputFails == pc = "inputs" /\ DieOfFreedArrays

open_output_file ==
  /\ pc = "outputs" /\ pc' = "init"
  /\ Grow({"output_files", "output_streams"} \cup (IF cmd \in Complex THEN {} ELSE {"filtergraphs"}))
  /\ UNCHANGED <<cmd, todo, decodeErrorStat, mainReturnCode, written, failed, alarm, own>>

(* avio_open2 fails: the search for chapters reads input_files.               *)
OutputFails == pc = "outputs" /\ cmd \notin NoFile /\ DieOfFreedArrays

(* configure_complex_filters fails: jxRun calls exit_program and reads        *)
(* output_files.                                                              *)
FiltersFail == pc = "init" /\ cmd \in Complex /\ DieOfFreedArrays

transcode_init ==
  /\ pc = "init" /\ pc' = "loop"
  /\ UNCHANGED <<cmd, todo, globals, written, failed, alarm, own>>

(* transcode_init or init_input_threads fails, transcode returns it, and      *)
(* jxRun goes on to the error rate after exit_program.                        *)
TranscodeInitFails ==
  /\ pc = "init" /\ ffmpeg_cleanup("judge") /\ failed' = TRUE
  /\ UNCHANGED <<cmd, todo, nb, decodeErrorStat, mainReturnCode, written, alarm, own>>

check_decode_result(ok) ==
  LET Count(s) == IF ok THEN [s EXCEPT !.good = @ + 1] ELSE [s EXCEPT !.bad = @ + 1]
  IN  /\ pc = "loop" /\ own.good + own.bad < MaxFrames
      /\ decodeErrorStat' = Count(decodeErrorStat) /\ own' = Count(own)
      /\ UNCHANGED <<pc, cmd, todo, nb, held, mainReturnCode, written, failed, alarm>>

(* write_packet fails.                                                        *)
WriteFails ==
  /\ pc = "loop" /\ own.good > 0
  /\ mainReturnCode' = 1 /\ written' = "part"
  /\ UNCHANGED <<pc, cmd, todo, nb, held, decodeErrorStat, failed, alarm, own>>

(* The encoder fails, or a frame is refused by the filters: exit_program in   *)
(* the middle of the loop or of the flushing after it, which goes on with the *)
(* streams that were freed.                                                   *)
LoopFails == pc = "loop" /\ DieOfFreedArrays

(* A loop that waits for a decoded frame before it ends. *)
TranscodeEndsAfterFrame ==
  /\ pc = "loop" /\ own.good > 0 /\ pc' = "judge"
  /\ written' \in (IF written = "part" THEN {"part"} ELSE {"no", "part", "whole"})
  /\ UNCHANGED <<cmd, todo, globals, failed, alarm, own>>

(* The loop of transcode ends, at the end of the input or on a filter error,  *)
(* and the trailer is written. Neither a filter error, an output without      *)
(* packets nor a failing trailer changes what transcode returns.              *)
TranscodeEnds ==
  /\ pc = "loop" /\ pc' = "judge"
  /\ written' \in (IF written = "part" THEN {"part"} ELSE IF own.good = 0 THEN {"no"} ELSE {"no", "part", "whole"})
  /\ UNCHANGED <<cmd, todo, globals, failed, alarm, own>>

(* The test of the error rate with a maximum of 1/2. *)
JudgeHalf ==
  /\ pc = "judge"
  /\ IF decodeErrorStat.good < decodeErrorStat.bad
     THEN ffmpeg_cleanup("exit") /\ failed' = TRUE /\ alarm' = TRUE
     ELSE pc' = "exit" /\ UNCHANGED <<held, failed, alarm>>
  /\ UNCHANGED <<cmd, todo, nb, decodeErrorStat, mainReturnCode, written, own>>

(* jxRun's test of the error rate.                                            *)
Judge ==
  /\ pc = "judge"
  /\ IF AboveMaxErrorRate(decodeErrorStat)
     THEN ffmpeg_cleanup("exit") /\ failed' = TRUE /\ alarm' = TRUE
     ELSE pc' = "exit" /\ UNCHANGED <<held, failed, alarm>>
  /\ UNCHANGED <<cmd, todo, nb, decodeErrorStat, mainReturnCode, written, own>>

(* exit_program(main_return_code), which every run calls.                     *)
ExitProgram ==
  /\ pc = "exit" /\ ffmpeg_cleanup("reset")
  /\ UNCHANGED <<cmd, todo, nb, decodeErrorStat, mainReturnCode, written, failed, alarm, own>>

(* The end of jxRun without nb_filtergraphs = 0. *)
ReturnKeepsFiltergraphs ==
  /\ pc = "reset" /\ pc' = "idle"
  /\ nb' = [Empty EXCEPT !["filtergraphs"] = nb["filtergraphs"]] /\ held' = Empty
  /\ UNCHANGED <<cmd, todo, decodeErrorStat, mainReturnCode, written, failed, alarm, own>>

(* The end of jxRun: arrays and counters reset, main_return_code returned.    *)
Return ==
  /\ pc = "reset" /\ pc' = "idle"
  /\ nb' = Empty /\ held' = Empty
  /\ UNCHANGED <<cmd, todo, decodeErrorStat, mainReturnCode, written, failed, alarm, own>>

(* The user starts the app again, in a new process.                           *)
Restart ==
  /\ pc = "crashed" /\ pc' = "idle"
  /\ nb' = Empty /\ held' = Empty /\ decodeErrorStat' = NoStats /\ mainReturnCode' = 0
  /\ failed' = FALSE /\ alarm' = FALSE /\ own' = NoStats /\ written' = "no"
  /\ UNCHANGED <<cmd, todo>>

(* The steps between Enter and Return that may be taken at any time.          *)
Step ==
  \/ open_input_file \/ InputFails \/ OutputFails
  \/ FiltersFail \/ transcode_init \/ TranscodeInitFails
  \/ \E ok \in BOOLEAN : check_decode_result(ok)
  \/ WriteFails \/ LoopFails \/ Judge \/ ExitProgram

Next ==
  \/ \E c \in Commands : Enter(c)
  \/ Step \/ open_output_file \/ TranscodeEnds \/ Return \/ Restart

Spec == Init /\ [][Next]_vars

-----------------------------------------------------------------------------
TypeOK ==
  /\ pc \in {"idle", "inputs", "outputs", "init", "loop", "judge", "exit", "reset", "crashed"}
  /\ cmd \in Commands /\ todo \in Nat
  /\ nb \in [Arrays -> Nat] /\ held \in [Arrays -> Nat]
  /\ decodeErrorStat \in Stats /\ own \in Stats /\ mainReturnCode \in {0, 1}
  /\ written \in {"no", "part", "whole"} /\ failed \in BOOLEAN /\ alarm \in BOOLEAN

(* Whatever the runs before did, a run starts with empty arrays and zero      *)
(* counters: the end of jxRun undoes all that the run added.                  *)
CleanStart == pc = "idle" => nb = Empty /\ held = Empty

(* The process dies only in a run that met an error and called exit_program   *)
(* for it, never in a run after it or in one that went well, although every   *)
(* run walks the arrays by the counters of those before.                      *)
CrashOnlyAfterExit == pc = "crashed" => failed

(* A run that is stopped for its error rate has itself an error rate above    *)
(* the maximum, although decode_error_stat counts the runs before as well.    *)
NoFalseAlarm == alarm => AboveMaxErrorRate(own)

-----------------------------------------------------------------------------
(* "ratio of errors (0.0: no errors, 1.0: 100% errors) above which ffmpeg     *)
(* returns an error instead of success" (the help of max_error_rate): a run   *)
(* with more errors than that does not return 0.                              *)
ErrorRateReturned == pc = "reset" /\ AboveMaxErrorRate(own) => mainReturnCode # 0
=============================================================================
