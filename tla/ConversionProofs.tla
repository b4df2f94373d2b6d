-------------------------- MODULE ConversionProofs --------------------------
(* Proofs about Conversion and the runs of ffmpeg it is made of, for every    *)
(* set of commands and every bound. A conversion runs ffmpeg as FfmpegRun     *)
(* says, so what is proved of a run holds in it, and the GIF a toast names is *)
(* never an older one.                                                        *)
EXTENDS Conversion, TLAPS

USE RunAssumption DEF RunAssumption

(* While a run has met no error, every counter is the number of objects its   *)
(* array holds; an error is followed by the end of the process, because the   *)
(* counter of output files is not zero by then.                               *)
Counted ==
  /\ pc \in {"inputs", "outputs", "init", "loop"} => nb = held
  /\ pc \in {"judge", "exit"} /\ ~failed => nb = held
  /\ pc \in {"judge", "exit"} /\ failed => held = Empty
  /\ pc \in {"init", "loop", "judge", "exit"} => nb["output_files"] > 0
  /\ pc = "inputs" => todo > 0

(* No error path is behind a run that still goes on, except these two places. *)
FailedWhere == (failed => pc \in {"judge", "exit", "crashed"}) /\ (alarm => failed)

(* What the runs before this one counted was not above the maximum.           *)
PastBelowMax ==
  /\ own.good <= decodeErrorStat.good /\ own.bad <= decodeErrorStat.bad
  /\ pc # "crashed" => 2 * (decodeErrorStat.good - own.good) >= decodeErrorStat.bad - own.bad
  /\ pc \in {"exit", "reset", "idle"} /\ ~failed => ~AboveMaxErrorRate(decodeErrorStat)
  /\ pc \in {"inputs", "outputs", "init"} => own = NoStats

IInv == TypeOK /\ CleanStart /\ Counted /\ FailedWhere /\ CrashOnlyAfterExit /\ PastBelowMax /\ NoFalseAlarm

(* The initial state is one of a fresh process.                               *)
LEMMA InitInv == Init => IInv
<1> SUFFICES ASSUME Init PROVE IInv
  OBVIOUS
<1>1. Empty \in [Arrays -> Nat] /\ NoStats \in Stats
  BY DEF Empty, NoStats, Stats
<1>2. TypeOK /\ CleanStart
  BY <1>1 DEF Init, TypeOK, CleanStart
<1>3. Counted /\ FailedWhere /\ CrashOnlyAfterExit /\ NoFalseAlarm
  BY DEF Init, Counted, FailedWhere, CrashOnlyAfterExit, NoFalseAlarm
<1>4. PastBelowMax
  BY DEF Init, PastBelowMax, NoStats, AboveMaxErrorRate
<1> QED
  BY <1>2, <1>3, <1>4 DEF IInv

(* Every step of a run, of the caller or of the user keeps the invariant.     *)
LEMMA NextInv == IInv /\ [Next]_vars => IInv'
<1> SUFFICES ASSUME IInv, [Next]_vars PROVE IInv'
  OBVIOUS
<1> USE DEF IInv
<1>1. ASSUME NEW c \in Commands, Enter(c) PROVE IInv'
  <2>1. TypeOK'
    <3>1. nb' \in [Arrays -> Nat] /\ held' \in [Arrays -> Nat]
      BY <1>1 DEF TypeOK, Enter, Grow
    <3>2. own' \in Stats
      BY <1>1 DEF Enter, NoStats, Stats
    <3> QED
      BY <1>1, <3>1, <3>2 DEF TypeOK, Enter
  <2>2. CleanStart'
    BY <1>1 DEF TypeOK, CleanStart, Enter, Grow, Empty, NoStats
  <2>3. Counted'
    <3>1. nb' = held'
      BY <1>1 DEF CleanStart, Enter, Grow
    <3>2. pc' = "inputs" /\ todo' > 0
      BY <1>1 DEF Enter
    <3> QED
      BY <3>1, <3>2 DEF Counted
  <2>4. FailedWhere'
    BY <1>1 DEF TypeOK, FailedWhere, Counted, Arrays, Enter, Grow, Empty, NoStats
  <2>5. CrashOnlyAfterExit'
    BY <1>1 DEF TypeOK, CrashOnlyAfterExit, Counted, FailedWhere, Arrays, Enter, Grow, Empty, NoStats
  <2>6. PastBelowMax'
    BY <1>1 DEF TypeOK, Stats, PastBelowMax, AboveMaxErrorRate, FailedWhere, Counted, Arrays, Enter, Grow, Empty, NoStats
  <2>7. NoFalseAlarm'
    BY <1>1 DEF TypeOK, Stats, NoFalseAlarm, PastBelowMax, AboveMaxErrorRate, Enter, Grow, Empty, NoStats
  <2> QED
    BY <2>1, <2>2, <2>3, <2>4, <2>5, <2>6, <2>7
<1>2. ASSUME open_input_file PROVE IInv'
  <2>1. TypeOK'
    <3>1. nb' \in [Arrays -> Nat] /\ held' \in [Arrays -> Nat]
      BY <1>2 DEF TypeOK, open_input_file, Grow
    <3>2. todo' \in Nat
      BY <1>2 DEF TypeOK, Counted, open_input_file
    <3> QED
      BY <1>2, <3>1, <3>2 DEF TypeOK, open_input_file
  <2>2. CleanStart'
    BY <1>2 DEF TypeOK, CleanStart, open_input_file, Grow
  <2>3. Counted'
    BY <1>2 DEF TypeOK, Counted, FailedWhere, Arrays, open_input_file, Grow
  <2>4. FailedWhere'
    BY <1>2 DEF TypeOK, FailedWhere, Counted, Arrays, open_input_file, Grow
  <2>5. CrashOnlyAfterExit'
    BY <1>2 DEF TypeOK, CrashOnlyAfterExit, Counted, FailedWhere, Arrays, open_input_file, Grow
  <2>6. PastBelowMax'
    BY <1>2 DEF TypeOK, Stats, PastBelowMax, AboveMaxErrorRate, FailedWhere, Counted, Arrays, open_input_file, Grow
  <2>7. NoFalseAlarm'
    BY <1>2 DEF TypeOK, Stats, NoFalseAlarm, PastBelowMax, AboveMaxErrorRate, open_input_file, Grow
  <2> QED
    BY <2>1, <2>2, <2>3, <2>4, <2>5, <2>6, <2>7
<1>3. ASSUME pc \in {"inputs", "outputs", "init", "loop"}, DieOfFreedArrays PROVE IInv'
  <2>1. TypeOK'
    BY <1>3 DEF TypeOK, Arrays, Stats, DieOfFreedArrays, globals
  <2>2. CleanStart'
    BY <1>3 DEF TypeOK, CleanStart, DieOfFreedArrays, globals
  <2>3. Counted'
    BY <1>3 DEF TypeOK, Counted, FailedWhere, Arrays, DieOfFreedArrays, globals
  <2>4. FailedWhere'
    BY <1>3 DEF TypeOK, FailedWhere, Counted, Arrays, DieOfFreedArrays, globals
  <2>5. CrashOnlyAfterExit'
    BY <1>3 DEF TypeOK, CrashOnlyAfterExit, Counted, FailedWhere, Arrays, DieOfFreedArrays, globals
  <2>6. PastBelowMax'
    BY <1>3 DEF TypeOK, Stats, PastBelowMax, AboveMaxErrorRate, FailedWhere, Counted, Arrays, DieOfFreedArrays, globals
  <2>7. NoFalseAlarm'
    BY <1>3 DEF TypeOK, Stats, NoFalseAlarm, PastBelowMax, AboveMaxErrorRate, DieOfFreedArrays, globals
  <2> QED
    BY <2>1, <2>2, <2>3, <2>4, <2>5, <2>6, <2>7
<1>4. ASSUME open_output_file PROVE IInv'
  <2>1. TypeOK'
    BY <1>4 DEF TypeOK, Arrays, Stats, open_output_file, Grow
  <2>2. CleanStart'
    BY <1>4 DEF TypeOK, CleanStart, open_output_file, Grow
  <2>3. Counted'
    BY <1>4 DEF TypeOK, Counted, FailedWhere, Arrays, open_output_file, Grow
  <2>4. FailedWhere'
    BY <1>4 DEF TypeOK, FailedWhere, Counted, Arrays, open_output_file, Grow
  <2>5. CrashOnlyAfterExit'
    BY <1>4 DEF TypeOK, CrashOnlyAfterExit, Counted, FailedWhere, Arrays, open_output_file, Grow
  <2>6. PastBelowMax'
    BY <1>4 DEF TypeOK, Stats, PastBelowMax, AboveMaxErrorRate, FailedWhere, Counted, Arrays, open_output_file, Grow
  <2>7. NoFalseAlarm'
    BY <1>4 DEF TypeOK, Stats, NoFalseAlarm, PastBelowMax, AboveMaxErrorRate, open_output_file, Grow
  <2> QED
    BY <2>1, <2>2, <2>3, <2>4, <2>5, <2>6, <2>7
<1>5. ASSUME transcode_init PROVE IInv'
  <2>1. TypeOK'
    BY <1>5 DEF TypeOK, Arrays, Stats, transcode_init, globals
  <2>2. CleanStart'
    BY <1>5 DEF TypeOK, CleanStart, transcode_init, globals
  <2>3. Counted'
    BY <1>5 DEF TypeOK, Counted, FailedWhere, Arrays, transcode_init, globals
  <2>4. FailedWhere'
    BY <1>5 DEF TypeOK, FailedWhere, Counted, Arrays, transcode_init, globals
  <2>5. CrashOnlyAfterExit'
    BY <1>5 DEF TypeOK, CrashOnlyAfterExit, Counted, FailedWhere, Arrays, transcode_init, globals
  <2>6. PastBelowMax'
    BY <1>5 DEF TypeOK, Stats, PastBelowMax, AboveMaxErrorRate, FailedWhere, Counted, Arrays, transcode_init, globals
  <2>7. NoFalseAlarm'
    BY <1>5 DEF TypeOK, Stats, NoFalseAlarm, PastBelowMax, AboveMaxErrorRate, transcode_init, globals
  <2> QED
    BY <2>1, <2>2, <2>3, <2>4, <2>5, <2>6, <2>7
<1>6. ASSUME TranscodeInitFails PROVE IInv'
  <2>1. TypeOK'
    BY <1>6 DEF TypeOK, Arrays, Stats, TranscodeInitFails, ffmpeg_cleanup, Empty
  <2>2. CleanStart'
    BY <1>6 DEF TypeOK, CleanStart, TranscodeInitFails, ffmpeg_cleanup, Empty
  <2>3. Counted'
    BY <1>6 DEF TypeOK, Counted, FailedWhere, Arrays, TranscodeInitFails, ffmpeg_cleanup, Empty
  <2>4. FailedWhere'
    BY <1>6 DEF TypeOK, FailedWhere, Counted, Arrays, TranscodeInitFails, ffmpeg_cleanup, Empty
  <2>5. CrashOnlyAfterExit'
    BY <1>6 DEF TypeOK, CrashOnlyAfterExit, Counted, FailedWhere, Arrays, TranscodeInitFails, ffmpeg_cleanup, Empty
  <2>6. PastBelowMax'
    BY <1>6 DEF TypeOK, Stats, PastBelowMax, AboveMaxErrorRate, FailedWhere, Counted, Arrays, TranscodeInitFails, ffmpeg_cleanup, Empty
  <2>7. NoFalseAlarm'
    BY <1>6 DEF TypeOK, Stats, NoFalseAlarm, PastBelowMax, AboveMaxErrorRate, TranscodeInitFails, ffmpeg_cleanup, Empty
  <2> QED
    BY <2>1, <2>2, <2>3, <2>4, <2>5, <2>6, <2>7
<1>7. ASSUME NEW ok \in BOOLEAN, check_decode_result(ok) PROVE IInv'
  <2>1. TypeOK'
    BY <1>7 DEF TypeOK, Arrays, Stats, check_decode_result
  <2>2. CleanStart'
    BY <1>7 DEF TypeOK, CleanStart, check_decode_result
  <2>3. Counted'
    BY <1>7 DEF TypeOK, Counted, FailedWhere, Arrays, check_decode_result
  <2>4. FailedWhere'
    BY <1>7 DEF TypeOK, FailedWhere, Counted, Arrays, check_decode_result
  <2>5. CrashOnlyAfterExit'
    BY <1>7 DEF TypeOK, CrashOnlyAfterExit, Counted, FailedWhere, Arrays, check_decode_result
  <2>6. PastBelowMax'
    BY <1>7 DEF TypeOK, Stats, PastBelowMax, AboveMaxErrorRate, FailedWhere, Counted, Arrays, check_decode_result
  <2>7. NoFalseAlarm'
    <3>1. ~alarm
      BY <1>7 DEF FailedWhere, check_decode_result
    <3> QED
      BY <1>7, <3>1 DEF NoFalseAlarm, check_decode_result
  <2> QED
    BY <2>1, <2>2, <2>3, <2>4, <2>5, <2>6, <2>7
<1>8. ASSUME WriteFails PROVE IInv'
  <2>1. TypeOK'
    BY <1>8 DEF TypeOK, Arrays, Stats, WriteFails
  <2>2. CleanStart'
    BY <1>8 DEF TypeOK, CleanStart, WriteFails
  <2>3. Counted'
    BY <1>8 DEF TypeOK, Counted, FailedWhere, Arrays, WriteFails
  <2>4. FailedWhere'
    BY <1>8 DEF TypeOK, FailedWhere, Counted, Arrays, WriteFails
  <2>5. CrashOnlyAfterExit'
    BY <1>8 DEF TypeOK, CrashOnlyAfterExit, Counted, FailedWhere, Arrays, WriteFails
  <2>6. PastBelowMax'
    BY <1>8 DEF TypeOK, Stats, PastBelowMax, AboveMaxErrorRate, FailedWhere, Counted, Arrays, WriteFails
  <2>7. NoFalseAlarm'
    BY <1>8 DEF TypeOK, Stats, NoFalseAlarm, PastBelowMax, AboveMaxErrorRate, WriteFails
  <2> QED
    BY <2>1, <2>2, <2>3, <2>4, <2>5, <2>6, <2>7
<1>9. ASSUME TranscodeEnds PROVE IInv'
  <2>1. TypeOK'
    BY <1>9 DEF TypeOK, Arrays, Stats, TranscodeEnds, globals
  <2>2. CleanStart'
    BY <1>9 DEF TypeOK, CleanStart, TranscodeEnds, globals
  <2>3. Counted'
    BY <1>9 DEF TypeOK, Counted, FailedWhere, Arrays, TranscodeEnds, globals
  <2>4. FailedWhere'
    BY <1>9 DEF TypeOK, FailedWhere, Counted, Arrays, TranscodeEnds, globals
  <2>5. CrashOnlyAfterExit'
    BY <1>9 DEF TypeOK, CrashOnlyAfterExit, Counted, FailedWhere, Arrays, TranscodeEnds, globals
  <2>6. PastBelowMax'
    BY <1>9 DEF TypeOK, Stats, PastBelowMax, AboveMaxErrorRate, FailedWhere, Counted, Arrays, TranscodeEnds, globals
  <2>7. NoFalseAlarm'
    BY <1>9 DEF TypeOK, Stats, NoFalseAlarm, PastBelowMax, AboveMaxErrorRate, TranscodeEnds, globals
  <2> QED
    BY <2>1, <2>2, <2>3, <2>4, <2>5, <2>6, <2>7
<1>10. ASSUME Judge PROVE IInv'
  <2>1. TypeOK'
    <3>1. held' \in [Arrays -> Nat]
      BY <1>10 DEF TypeOK, Judge, ffmpeg_cleanup, Empty
    <3>2. failed' \in BOOLEAN /\ alarm' \in BOOLEAN
      BY <1>10 DEF TypeOK, Judge
    <3>3. pc' \in {"exit", "crashed"}
      BY <1>10 DEF Judge, ffmpeg_cleanup
    <3> QED
      BY <1>10, <3>1, <3>2, <3>3 DEF TypeOK, Judge
  <2>2. CleanStart'
    BY <1>10 DEF TypeOK, CleanStart, Judge, ffmpeg_cleanup, Empty
  <2>3. Counted'
    BY <1>10 DEF TypeOK, Counted, FailedWhere, Arrays, Judge, ffmpeg_cleanup, Empty
  <2>4. FailedWhere'
    BY <1>10 DEF TypeOK, FailedWhere, Counted, Arrays, Judge, ffmpeg_cleanup, Empty
  <2>5. CrashOnlyAfterExit'
    BY <1>10 DEF TypeOK, CrashOnlyAfterExit, Counted, FailedWhere, Arrays, Judge, ffmpeg_cleanup, Empty
  <2>6. PastBelowMax'
    BY <1>10 DEF TypeOK, Stats, PastBelowMax, AboveMaxErrorRate, FailedWhere, Counted, Arrays, Judge, ffmpeg_cleanup, Empty
  <2>7. NoFalseAlarm'
    <3>1. CASE AboveMaxErrorRate(decodeErrorStat)
      <4>1. AboveMaxErrorRate(own)
        BY <1>10, <3>1 DEF TypeOK, Stats, PastBelowMax, AboveMaxErrorRate, Judge
      <4> QED
        BY <1>10, <4>1 DEF NoFalseAlarm, Judge, AboveMaxErrorRate
    <3>2. CASE ~AboveMaxErrorRate(decodeErrorStat)
      BY <1>10, <3>2 DEF NoFalseAlarm, Judge, AboveMaxErrorRate
    <3> QED
      BY <3>1, <3>2
  <2> QED
    BY <2>1, <2>2, <2>3, <2>4, <2>5, <2>6, <2>7
<1>11. ASSUME ExitProgram PROVE IInv'
  <2>1. TypeOK'
    BY <1>11 DEF TypeOK, Arrays, Stats, ExitProgram, ffmpeg_cleanup, Empty
  <2>2. CleanStart'
    BY <1>11 DEF TypeOK, CleanStart, ExitProgram, ffmpeg_cleanup, Empty
  <2>3. Counted'
    BY <1>11 DEF TypeOK, Counted, FailedWhere, Arrays, ExitProgram, ffmpeg_cleanup, Empty
  <2>4. FailedWhere'
    BY <1>11 DEF TypeOK, FailedWhere, Counted, Arrays, ExitProgram, ffmpeg_cleanup, Empty
  <2>5. CrashOnlyAfterExit'
    BY <1>11 DEF TypeOK, CrashOnlyAfterExit, Counted, FailedWhere, Arrays, ExitProgram, ffmpeg_cleanup, Empty
  <2>6. PastBelowMax'
    BY <1>11 DEF TypeOK, Stats, PastBelowMax, AboveMaxErrorRate, FailedWhere, Counted, Arrays, ExitProgram, ffmpeg_cleanup, Empty
  <2>7. NoFalseAlarm'
    BY <1>11 DEF TypeOK, Stats, NoFalseAlarm, PastBelowMax, AboveMaxErrorRate, ExitProgram, ffmpeg_cleanup, Empty
  <2> QED
    BY <2>1, <2>2, <2>3, <2>4, <2>5, <2>6, <2>7
<1>12. ASSUME Return PROVE IInv'
  <2>1. TypeOK'
    BY <1>12 DEF TypeOK, Arrays, Stats, Return, Empty
  <2>2. CleanStart'
    BY <1>12 DEF TypeOK, CleanStart, Return, Empty
  <2>3. Counted'
    BY <1>12 DEF TypeOK, Counted, FailedWhere, Arrays, Return, Empty
  <2>4. FailedWhere'
    BY <1>12 DEF TypeOK, FailedWhere, Counted, Arrays, Return, Empty
  <2>5. CrashOnlyAfterExit'
    BY <1>12 DEF TypeOK, CrashOnlyAfterExit, Counted, FailedWhere, Arrays, Return, Empty
  <2>6. PastBelowMax'
    BY <1>12 DEF TypeOK, Stats, PastBelowMax, AboveMaxErrorRate, FailedWhere, Counted, Arrays, Return, Empty
  <2>7. NoFalseAlarm'
    BY <1>12 DEF TypeOK, Stats, NoFalseAlarm, PastBelowMax, AboveMaxErrorRate, Return, Empty
  <2> QED
    BY <2>1, <2>2, <2>3, <2>4, <2>5, <2>6, <2>7
<1>13. ASSUME Restart PROVE IInv'
  <2>1. TypeOK'
    BY <1>13 DEF TypeOK, Arrays, Stats, Restart, Empty, NoStats
  <2>2. CleanStart'
    BY <1>13 DEF TypeOK, CleanStart, Restart, Empty, NoStats
  <2>3. Counted'
    BY <1>13 DEF TypeOK, Counted, FailedWhere, Arrays, Restart, Empty, NoStats
  <2>4. FailedWhere'
    BY <1>13 DEF TypeOK, FailedWhere, Counted, Arrays, Restart, Empty, NoStats
  <2>5. CrashOnlyAfterExit'
    BY <1>13 DEF TypeOK, CrashOnlyAfterExit, Counted, FailedWhere, Arrays, Restart, Empty, NoStats
  <2>6. PastBelowMax'
    BY <1>13 DEF TypeOK, Stats, PastBelowMax, AboveMaxErrorRate, FailedWhere, Counted, Arrays, Restart, Empty, NoStats
  <2>7. NoFalseAlarm'
    BY <1>13 DEF TypeOK, Stats, NoFalseAlarm, PastBelowMax, AboveMaxErrorRate, Restart, Empty, NoStats
  <2> QED
    BY <2>1, <2>2, <2>3, <2>4, <2>5, <2>6, <2>7
<1>14. ASSUME UNCHANGED vars PROVE IInv'
  <2>1. TypeOK'
    BY <1>14 DEF TypeOK, Arrays, Stats, vars, globals
  <2>2. CleanStart'
    BY <1>14 DEF TypeOK, CleanStart, vars, globals
  <2>3. Counted'
    BY <1>14 DEF TypeOK, Counted, FailedWhere, Arrays, vars, globals
  <2>4. FailedWhere'
    BY <1>14 DEF TypeOK, FailedWhere, Counted, Arrays, vars, globals
  <2>5. CrashOnlyAfterExit'
    BY <1>14 DEF TypeOK, CrashOnlyAfterExit, Counted, FailedWhere, Arrays, vars, globals
  <2>6. PastBelowMax'
    BY <1>14 DEF TypeOK, Stats, PastBelowMax, AboveMaxErrorRate, FailedWhere, Counted, Arrays, vars, globals
  <2>7. NoFalseAlarm'
    BY <1>14 DEF TypeOK, Stats, NoFalseAlarm, PastBelowMax, AboveMaxErrorRate, vars, globals
  <2> QED
    BY <2>1, <2>2, <2>3, <2>4, <2>5, <2>6, <2>7
<1> QED
  BY <1>1, <1>2, <1>3, <1>4, <1>5, <1>6, <1>7, <1>8, <1>9, <1>10, <1>11, <1>12, <1>13, <1>14 DEF Next, Step, InputFails, OutputFails, FiltersFail, LoopFails

(* The inductive invariant, conjunct by conjunct above, holds of every run.    *)
THEOREM Invariance == Spec => []IInv
  BY InitInv, NextInv, PTL DEF Spec

(* The types of the globals and of the state of a run.                        *)
THEOREM TypeCorrect == Spec => []TypeOK
  BY Invariance, PTL DEF IInv

(* Every run of jxRun starts with empty arrays and zero counters.             *)
THEOREM StartsClean == Spec => []CleanStart
  BY Invariance, PTL DEF IInv

(* The process dies only of a run's own error.                                *)
THEOREM DiesOfOwnError == Spec => []CrashOnlyAfterExit
  BY Invariance, PTL DEF IInv

(* A run is stopped for its error rate only when its own rate is too high.    *)
THEOREM AlarmIsOwn == Spec => []NoFalseAlarm
  BY Invariance, PTL DEF IInv

-----------------------------------------------------------------------------
(* The conversion.                                                            *)
USE ConversionAssumption DEF ConversionAssumption

(* A conversion is steps of runs with steps between them.                     *)
LEMMA RunsSteps == ConversionInit /\ [][ConversionNext]_conversionVars => Spec
<1>1. ConversionInit => Init
  BY DEF ConversionInit
<1>2. ASSUME [ConversionNext]_conversionVars PROVE [Next]_vars
  <2>1. CASE convertVideoToGif \/ cmdRunReturns \/ secondCommand
    BY <2>1 DEF convertVideoToGif, cmdRunReturns, secondCommand, Next
  <2>2. CASE RunStep \/ OutputOpens \/ OutputEnds \/ AppRestarts
    BY <2>2 DEF RunStep, OutputOpens, OutputEnds, AppRestarts, Next
  <2>3. CASE Toast \/ UNCHANGED conversionVars
    BY <2>3 DEF Toast, conversionVars
  <2> QED
    BY <1>2, <2>1, <2>2, <2>3 DEF ConversionNext
<1> QED
  BY <1>1, <1>2, PTL DEF Spec

(* Where a run may be in each stage of mp4ToGif; from the moment its output   *)
(* is open, the second run has cut off what an earlier conversion left.       *)
Staged ==
  /\ stage \in {"main", "palette", "second", "gif", "toast"}
  /\ stage \in {"main", "second", "toast"} => pc = "idle"
  /\ stage \in {"palette", "gif"} => cmd = stage /\ pc # "idle"
  /\ file \in [Commands -> Int] /\ conversion \in Nat
  /\ stage = "gif" /\ pc \in {"init", "loop", "judge", "exit", "reset"} => file["gif"] \in {Broken, conversion}

GifInv == Staged /\ NoStaleGif

LEMMA GifInit == ConversionInit => GifInv
  BY DEF ConversionInit, Init, GifInv, Staged, NoStaleGif, None

LEMMA GifNext == GifInv /\ [ConversionNext]_conversionVars => GifInv'
<1> SUFFICES ASSUME GifInv, [ConversionNext]_conversionVars PROVE GifInv'
  OBVIOUS
<1> USE DEF GifInv, Staged, NoStaleGif
<1>1. CASE convertVideoToGif
  BY <1>1 DEF convertVideoToGif, Enter
<1>2. CASE cmdRunReturns
  BY <1>2 DEF cmdRunReturns, Return
<1>3. CASE secondCommand
  BY <1>3 DEF secondCommand, Enter
<1>4. CASE RunStep
  <2>1. UNCHANGED <<stage, conversion, file, cmd>> /\ pc # "idle" /\ pc' # "idle"
    BY <1>4 DEF RunStep, Step, open_input_file, InputFails, OutputFails, FiltersFail, LoopFails, DieOfFreedArrays, transcode_init,
                TranscodeInitFails, check_decode_result, WriteFails, Judge, ExitProgram, ffmpeg_cleanup
  <2>2. pc' \in {"init", "loop", "judge", "exit", "reset"} => pc \in {"init", "loop", "judge", "exit", "reset"}
    BY <1>4 DEF RunStep, Step, open_input_file, InputFails, OutputFails, FiltersFail, LoopFails, DieOfFreedArrays, transcode_init,
                TranscodeInitFails, check_decode_result, WriteFails, Judge, ExitProgram, ffmpeg_cleanup
  <2> QED
    BY <2>1, <2>2
<1>5. CASE OutputOpens
  BY <1>5 DEF OutputOpens, open_output_file, Broken
<1>6. CASE OutputEnds
  <2>1. pc = "loop" /\ pc' = "judge" /\ UNCHANGED <<stage, conversion, cmd>> /\ written' \in {"no", "part", "whole"}
    BY <1>6 DEF OutputEnds, TranscodeEnds
  <2>2. file' \in [Commands -> Int] /\ file'["gif"] \in {file["gif"], Broken, conversion}
    BY <1>6, <2>1 DEF OutputEnds, Broken
  <2> QED
    BY <2>1, <2>2
<1>7. CASE Toast
  BY <1>7 DEF Toast, vars
<1>8. CASE AppRestarts
  BY <1>8 DEF AppRestarts, Restart
<1>9. CASE UNCHANGED conversionVars
  BY <1>9 DEF conversionVars, vars
<1> QED
  BY <1>1, <1>2, <1>3, <1>4, <1>5, <1>6, <1>7, <1>8, <1>9 DEF ConversionNext

(* The file a toast names is not the GIF of an earlier conversion.            *)
THEOREM GifIsNew == ConversionSpec => []NoStaleGif
  BY GifInit, GifNext, PTL DEF ConversionSpec, GifInv

(* In a conversion every run starts clean, dies only of its own errors and is *)
(* stopped only for its own error rate.                                       *)
THEOREM ConversionRunsSound == ConversionSpec => [](CleanStart /\ CrashOnlyAfterExit /\ NoFalseAlarm)
  BY RunsSteps, StartsClean, DiesOfOwnError, AlarmIsOwn, PTL DEF ConversionSpec
=============================================================================
