----------------------------- MODULE FrameRate -----------------------------
(***************************************************************************)
(* do_video_out of ffmpeg.c: the pictures that come out of the filters at  *)
(* their own times become frames numbered sync_opts, some repeated and     *)
(* some dropped; the encoder's packets go through write_packet, which      *)
(* keeps their timestamps rising.                                          *)
(*                                                                         *)
(* Times are integers, in tenths of a frame of the output (enc->time_base) *)
(* where the code has doubles: it compares them with 0.5, 0.6 and 1.1.     *)
(* Neither command of GifBox has -vsync, -frames, -shortest or a -t of the *)
(* output, so max_frames and recording_time never limit anything. Encoders *)
(* return packets in order, with dts = pts.                                *)
(***************************************************************************)
EXTENDS Integers, Sequences

CONSTANTS
  Muxers,       (* muxers the output may have, of "gif" and "image2" *)
  Durations,    (* of a frame by the rate of the filter, in tenths *)
  Steps,        (* from a picture to the next, in tenths *)
  MaxPictures,  (* bound: pictures *)
  MaxDup,       (* dts_error_threshold * 30 *)
  EncDelay,     (* frames the encoder may keep back *)
  TbNum, TbDen  (* ost->st->time_base is TbDen/TbNum frames *)

ASSUME MuxersAssumption == Muxers \subseteq {"gif", "image2"}
ASSUME DurationsAssumption == Durations \subseteq 0..10
ASSUME StepsAssumption == Steps \subseteq Nat
ASSUME LimitsAssumption == {MaxPictures, EncDelay} \subseteq Nat /\ MaxDup \in Nat \ {0}
ASSUME TimeBaseAssumption == {TbNum, TbDen} \subseteq Nat \ {0}

None == 0      \* no picture
NoPts == -1    \* AV_NOPTS_VALUE

VARIABLES
  muxer, oneStream,   (* the muxer; the input file has a single stream *)
  duration,
  \* the output stream
  sync_opts,          (* number of the next frame *)
  frame_number,       (* frames sent to the encoder *)
  last_nb0_frames,    (* how often the last three calls repeated a picture *)
  last_dropped, last_frame,
  dup, drop,          (* nb_frames_dup, nb_frames_drop *)
  \* the pictures
  received, ipts,     (* how many came, and the time of the last *)
  skipped,            (* one was skipped: it would have been repeated too often *)
  \* the loop of do_video_out
  pc, next, i, nb_frames, nb0_frames,
  \* encoder and muxer
  shown, stamp,       (* picture and pts of the last frame sent *)
  inEncoder,          (* pts of the frames the encoder keeps *)
  written, last_mux_dts,
  finished            (* a write failed *)

modeVars == <<muxer, oneStream, duration>>
countVars == <<dup, drop>>
pictureVars == <<received, ipts, skipped>>
loopVars == <<next, i, nb_frames, nb0_frames>>
muxVars == <<written, last_mux_dts, finished>>
vars == <<modeVars, sync_opts, frame_number, last_nb0_frames, last_dropped, last_frame,
          countVars, pictureVars, pc, loopVars, shown, stamp, inEncoder, muxVars>>

TypeOK ==
  /\ muxer \in Muxers /\ oneStream \in BOOLEAN /\ duration \in Durations
  /\ sync_opts \in Nat /\ frame_number \in Nat
  /\ last_nb0_frames \in [1..3 -> Nat]
  /\ last_dropped \in BOOLEAN /\ last_frame \in Nat
  /\ dup \in Nat /\ drop \in Nat
  /\ received \in Nat /\ ipts \in Nat /\ skipped \in BOOLEAN
  /\ pc \in {"idle", "loop", "flush", "done"}
  /\ next \in Nat /\ i \in Nat /\ nb_frames \in Nat /\ nb0_frames \in 0..nb_frames
  /\ shown \in Nat /\ stamp \in Nat \cup {NoPts}
  /\ inEncoder \in Seq(Nat)
  /\ written \in Nat /\ last_mux_dts \in Nat \cup {NoPts} /\ finished \in BOOLEAN

Init ==
  /\ muxer \in Muxers /\ oneStream \in BOOLEAN /\ duration \in Durations
  /\ sync_opts = 0 /\ frame_number = 0
  /\ last_nb0_frames = [k \in 1..3 |-> 0]
  /\ last_dropped = FALSE /\ last_frame = None
  /\ dup = 0 /\ drop = 0
  /\ received = 0 /\ ipts = 0 /\ skipped = FALSE
  /\ pc = "idle" /\ next = None /\ i = 0 /\ nb_frames = 0 /\ nb0_frames = 0
  /\ shown = None /\ stamp = NoPts /\ inEncoder = <<>>
  /\ written = 0 /\ last_mux_dts = NoPts /\ finished = FALSE

-----------------------------------------------------------------------------
(* How often                                                               *)

\* reap_filters moves every time by 1/2^17 of a frame, upwards if it is above
\* zero and else downwards, to keep off midpoints. So x, which was computed
\* from the time t, never meets a limit: what equals it is past it for t > 0.
Past(x, limit, t) == IF t > 0 THEN x >= limit ELSE x > limit

\* lrint, lrintf: to the nearest whole number of frames. Halves, of which there
\* are none at time zero, have been moved upwards. (For a gap of more than 128
\* frames the move is lost in the float of lrintf, and halves go to even.)
Round(x) == (x + 5) \div 10

Lesser(a, b) == IF a <= b THEN a ELSE b
Greater(a, b) == IF a <= b THEN b ELSE a

\* mid_pred
Middle(a, b, c) == Greater(Lesser(a, b), Lesser(Greater(a, b), c))

\* VSYNC_AUTO: GIF has variable frame rate; a picture file has a constant one,
\* which starts late when the input is a single stream.
VideoSync ==
  IF muxer = "gif" THEN "vfr" ELSE IF oneStream THEN "vscfr" ELSE "cfr"

\* Where a picture of time t falls: how far the next frame is behind its start
\* (delta0) and its end (delta). One that began before the next frame, and
\* ends after it, is taken to begin with it.
Delta(t) == t - 10 * sync_opts + duration
Clipped(t) == ~Past(t, 10 * sync_opts, t) /\ Past(Delta(t), 0, t)
Delta0(t) == IF Clipped(t) THEN 0 ELSE t - 10 * sync_opts

\* VSYNC_VSCFR: the frames before the first picture are not made.
StartsLate(t) == VideoSync = "vscfr" /\ frame_number = 0 /\ Past(Delta0(t), 5, t)

\* The number of the next frame. With a variable rate it follows the pictures.
NextOpts(t) ==
  IF StartsLate(t) \/ (VideoSync = "vfr" /\ Past(Delta(t), 6, t))
  THEN Round(10 * sync_opts + Delta0(t))
  ELSE sync_opts

\* Altered Frames: the drift is never made up for.
FramesAlways(t) == 1

\* Frames to make of it, nb_frames.
Frames(t) ==
  IF VideoSync = "vfr"
  THEN IF Past(Delta(t), -6, t) THEN 1 ELSE 0
  ELSE LET delta == IF StartsLate(t) THEN duration ELSE Delta(t)
       IN  IF ~Past(delta, -11, t) THEN 0 ELSE IF Past(delta, 11, t) THEN Round(delta) ELSE 1

\* Those that show the picture before it, nb0_frames.
OldFrames(t) ==
  IF VideoSync # "vfr" /\ ~StartsLate(t) /\ Past(Delta(t), 11, t) /\ Past(Delta0(t), 11, t)
  THEN Lesser(Round(Delta0(t) - 6), Frames(t))
  ELSE 0

-----------------------------------------------------------------------------
(* do_video_out                                                            *)

One(b) == IF b THEN 1 ELSE 0

\* Altered Repeated: a dropped picture that is shown after all counts as a
\* repetition.
RepeatedAll(nb, nb0) == nb - One(nb > nb0)

\* Of nb frames, those that repeat a picture: the first that shows a picture
\* is no repetition.
Repeated(nb, nb0) == nb - One(nb0 > 0 /\ last_dropped) - One(nb > nb0)

\* The decision for a picture, or for None at the end: nb frames, the first
\* nb0 of them showing the picture before.
Decide(picture, nb, nb0) ==
  /\ last_nb0_frames' = [k \in 1..3 |-> IF k = 1 THEN nb0 ELSE last_nb0_frames[k - 1]]
  /\ IF Repeated(nb, nb0) > 0 /\ nb > MaxDup
     THEN \* "frame duplication too large, skipping"
          /\ drop' = drop + One(nb0 = 0 /\ last_dropped) + 1
          /\ skipped' = TRUE
          /\ pc' = IF picture = None THEN "flush" ELSE "idle"
          /\ UNCHANGED <<dup, last_dropped, loopVars>>
     ELSE /\ drop' = drop + One(nb0 = 0 /\ last_dropped)
          /\ dup' = dup + Repeated(nb, nb0)
          /\ last_dropped' = (nb = nb0 /\ picture # None)
          /\ next' = picture /\ i' = 0 /\ nb_frames' = nb /\ nb0_frames' = nb0
          /\ pc' = "loop"
          /\ UNCHANGED skipped

\* reap_filters has a picture, not earlier than the one before.
Picture(step) ==
  LET t == ipts + step
  IN  /\ pc = "idle" /\ ~finished /\ received < MaxPictures
      /\ received' = received + 1 /\ ipts' = t
      /\ sync_opts' = NextOpts(t)
      /\ Decide(received + 1, Frames(t), OldFrames(t))
      /\ UNCHANGED <<modeVars, frame_number, last_frame, shown, stamp, inEncoder, muxVars>>

\* The end of the filters: the last picture is repeated as often as usual.
Flush ==
  LET nb == Middle(last_nb0_frames[1], last_nb0_frames[2], last_nb0_frames[3])
  IN  /\ pc = "idle"
      /\ Decide(None, nb, nb)
      /\ UNCHANGED <<modeVars, sync_opts, frame_number, last_frame, received, ipts,
                     shown, stamp, inEncoder, muxVars>>

\* After a failed write the loop of transcode is left without it.
Stop ==
  /\ pc = "idle" /\ finished
  /\ pc' = "flush"
  /\ UNCHANGED <<modeVars, sync_opts, frame_number, last_nb0_frames, last_dropped,
                 last_frame, countVars, pictureVars, loopVars, shown, stamp, inEncoder, muxVars>>

InPicture == IF i < nb0_frames /\ last_frame # None THEN last_frame ELSE next

\* One turn of the loop: a frame for the encoder.
SendFrame ==
  /\ pc = "loop" /\ i < nb_frames /\ InPicture # None
  /\ Len(inEncoder) <= EncDelay
  /\ shown' = InPicture /\ stamp' = sync_opts
  /\ inEncoder' = Append(inEncoder, sync_opts)
  /\ sync_opts' = sync_opts + 1
  /\ frame_number' = frame_number + 1
  /\ i' = i + 1
  /\ UNCHANGED <<modeVars, last_nb0_frames, last_dropped, last_frame, countVars,
                 pictureVars, pc, next, nb_frames, nb0_frames, muxVars>>

\* There is nothing to show: the call returns.
NoPicture ==
  /\ pc = "loop" /\ i < nb_frames /\ InPicture = None
  /\ pc' = "flush"
  /\ UNCHANGED <<modeVars, sync_opts, frame_number, last_nb0_frames, last_dropped,
                 last_frame, countVars, pictureVars, loopVars, shown, stamp, inEncoder, muxVars>>

\* After the loop the picture is kept, for the next call to repeat.
KeepPicture ==
  /\ pc = "loop" /\ i = nb_frames
  /\ Len(inEncoder) <= EncDelay
  /\ last_frame' = next
  /\ pc' = IF next = None THEN "flush" ELSE "idle"
  /\ UNCHANGED <<modeVars, sync_opts, frame_number, last_nb0_frames, last_dropped,
                 countVars, pictureVars, loopVars, shown, stamp, inEncoder, muxVars>>

-----------------------------------------------------------------------------
(* write_packet                                                            *)

\* av_packet_rescale_ts: from frames to the clock of the file, to the nearest.
Rescale(pts) == (2 * pts * TbNum + TbDen) \div (2 * TbDen)

\* Altered MuxDts: equal timestamps are let through.
MuxDtsEqual(dts) ==
  IF muxer = "gif" /\ last_mux_dts # NoPts /\ dts < last_mux_dts
  THEN last_mux_dts
  ELSE dts

\* A timestamp that does not rise is replaced, when the format has any.
MuxDts(dts) ==
  IF muxer = "gif" /\ last_mux_dts # NoPts /\ dts < last_mux_dts + 1
  THEN last_mux_dts + 1
  ELSE dts

\* av_interleaved_write_frame may fail: every stream is finished.
WritePacket(pts) ==
  /\ last_mux_dts' = MuxDts(Rescale(pts))
  /\ written' = written + 1
  /\ finished' \in {finished, TRUE}

\* The encoder returns a packet, in do_video_out.
EncoderReturns ==
  /\ pc = "loop" /\ inEncoder # <<>>
  /\ WritePacket(Head(inEncoder))
  /\ inEncoder' = Tail(inEncoder)
  /\ UNCHANGED <<modeVars, sync_opts, frame_number, last_nb0_frames, last_dropped,
                 last_frame, countVars, pictureVars, pc, loopVars, shown, stamp>>

\* flush_encoders: the packets it still has; none is written after a failure.
FlushEncoder ==
  /\ pc = "flush" /\ inEncoder # <<>>
  /\ IF finished THEN UNCHANGED muxVars ELSE WritePacket(Head(inEncoder))
  /\ inEncoder' = Tail(inEncoder)
  /\ UNCHANGED <<modeVars, sync_opts, frame_number, last_nb0_frames, last_dropped,
                 last_frame, countVars, pictureVars, pc, loopVars, shown, stamp>>

Finish ==
  /\ pc = "flush" /\ inEncoder = <<>>
  /\ pc' = "done"
  /\ UNCHANGED <<modeVars, sync_opts, frame_number, last_nb0_frames, last_dropped,
                 last_frame, countVars, pictureVars, loopVars, shown, stamp, inEncoder, muxVars>>

-----------------------------------------------------------------------------
Next ==
  \/ \E step \in Steps : Picture(step)
  \/ Flush \/ Stop \/ SendFrame \/ NoPicture \/ KeepPicture
  \/ EncoderReturns \/ FlushEncoder \/ Finish

Spec == Init /\ [][Next]_vars

-----------------------------------------------------------------------------
(* Properties                                                              *)

\* Frames reach the encoder with rising timestamps and pictures in their
\* order, and packets reach a file that has timestamps with rising ones.
StampsRise ==
  [][/\ frame_number' > frame_number => stamp' > stamp /\ shown' >= shown
     /\ written' > written /\ muxer = "gif" => last_mux_dts' > last_mux_dts]_vars

\* What is sent to the encoder is what came, plus what was repeated, minus
\* what was dropped, be it counted yet or not.
CountsAddUp ==
  ~skipped => received + dup = frame_number + (nb_frames - i) + drop + One(last_dropped)

\* The next frame begins at most 2.1 frames after, and less than half a frame
\* before, the end of the last picture: errors do not add up over a video.
DriftBounded ==
  (pc = "idle" /\ received > 0 /\ ~skipped) =>
    10 * sync_opts - (ipts + duration) \in -4..21
=============================================================================
