----------------------------- MODULE Transcode -----------------------------
(***************************************************************************)
(* The loop of transcode() in ffmpeg.c: which input is read next, how a    *)
(* packet becomes a frame and a frame a packet, and how everything is      *)
(* drained at the end. There is one output stream, fed by one filter graph *)
(* that reads one decoded stream of each file, as in both commands of      *)
(* GifBox: the video alone (palette), or the video and the palette.        *)
(*                                                                         *)
(* Where a packet comes from is InputThreads: here a file gives a packet,  *)
(* says EAGAIN or has ended. Decoder, filter graph and encoder are         *)
(* libraries, and do what their interfaces allow. Frames are counted, not  *)
(* named: each of the stages keeps them in order. Which frames the filters *)
(* and do_video_out repeat or drop is FrameRate; exit_program is FfmpegRun.*)
(***************************************************************************)
EXTENDS Naturals, FiniteSets

CONSTANTS
  NumFiles,      (* nb_input_files *)
  NonBlocking,   (* files whose queue answers EAGAIN when it is empty *)
  MaxPackets,    (* bound: packets in a file *)
  MaxAgain,      (* bound: how often a file answers EAGAIN *)
  DecDelay,      (* frames a decoder may keep back *)
  EncDelay       (* frames the encoder may keep back *)

Files == 1..NumFiles
Video == 1

ASSUME NumFilesAssumption == NumFiles \in Nat \ {0}
ASSUME NonBlockingAssumption == NonBlocking \subseteq Files
ASSUME BoundsAssumption == {MaxPackets, MaxAgain, DecDelay, EncDelay} \subseteq Nat

VARIABLES
  \* the input files, as get_input_packet sees them
  left,         (* packets still to come *)
  again,        (* EAGAINs still to come *)
  eagain,       (* files with eagain set *)
  eof,          (* files with eof_reached set *)
  \* decoders and filter graph
  held,         (* frames in the decoder of each file *)
  failed,       (* nb_failed_requests of each buffer source *)
  closed,       (* buffer sources that were sent EOF *)
  accepted,     (* frames each input of the graph accepted *)
  cut,          (* the trim filter ended the video: its link has status EOF *)
  rejected,     (* a frame was added behind the EOF of its buffer source *)
  emitted,      (* frames that reached the buffer sink *)
  \* the output stream
  finished,     (* ENCODER_FINISHED and MUXER_FINISHED, as a set *)
  unavailable,
  reaped,       (* frames taken from the buffer sink *)
  encoded,      (* frames sent to the encoder *)
  inEncoder,    (* those not yet returned as packets *)
  written,      (* packets given to the muxer *)
  \* the main thread
  pc, ist,      (* where it is, and the input stream it works on *)
  flush,        (* the argument of reap_filters *)
  broken        (* a filter or a write failed *)

inputVars  == <<left, again, eagain, eof>>
graphVars  == <<held, failed, closed, accepted, cut, rejected, emitted>>
outputVars == <<finished, unavailable, reaped, encoded, inEncoder, written>>
controlVars == <<pc, ist, flush, broken>>
vars == <<inputVars, graphVars, outputVars, controlVars>>

\* "top": the loop; "input": process_input; "decode": its decoding loop;
\* "reap": reap_filters; "encode": the packets of one frame in do_video_out;
\* "drain": the decoders, after the loop; "flush": flush_encoders.
States == {"top", "input", "decode", "reap", "encode", "drain", "flush", "done"}

TypeOK ==
  /\ left \in [Files -> 0..MaxPackets] /\ again \in [Files -> 0..MaxAgain]
  /\ eagain \subseteq Files /\ eof \subseteq Files
  /\ held \in [Files -> Nat] /\ failed \in [Files -> Nat]
  /\ closed \subseteq Files /\ accepted \in [Files -> Nat]
  /\ cut \in BOOLEAN /\ rejected \in BOOLEAN /\ emitted \in Nat
  /\ finished \subseteq {"encoder", "muxer"} /\ unavailable \in BOOLEAN
  /\ reaped \in Nat /\ encoded \in Nat /\ inEncoder \in Nat
  /\ written \in Nat
  /\ pc \in States /\ ist \in 1..(NumFiles + 1)
  /\ flush \in BOOLEAN /\ broken \in BOOLEAN

Init ==
  /\ left \in [Files -> 0..MaxPackets]
  /\ again = [f \in Files |-> IF f \in NonBlocking THEN MaxAgain ELSE 0]
  /\ eagain = {} /\ eof = {}
  /\ held = [f \in Files |-> 0] /\ failed = [f \in Files |-> 0]
  /\ closed = {} /\ accepted = [f \in Files |-> 0]
  /\ cut = FALSE /\ rejected = FALSE /\ emitted = 0
  /\ finished = {} /\ unavailable = FALSE
  /\ reaped = 0 /\ encoded = 0 /\ inEncoder = 0 /\ written = 0
  /\ pc = "top" /\ ist = 1 /\ flush = FALSE /\ broken = FALSE

-----------------------------------------------------------------------------
(* The filter graph. paletteuse needs the palette before it can emit.      *)

\* The video will bring no more frames.
VideoEnded == Video \in closed \/ cut

\* An input the graph may ask for a frame: it is asked in vain.
Starved(f) == f \notin closed /\ ~(f = Video /\ cut)

HasPalette(acc) == \A f \in Files \ {Video} : acc[f] > 0 \/ f \in closed

\* Pushing a frame runs the filters: frames may reach the sink.
MayEmit(acc) ==
  /\ emitted' \in emitted..acc[Video]
  /\ emitted' > emitted => HasPalette(acc)

\* av_buffersrc_add_frame_flags: the counter starts again; a frame behind the
\* EOF is an error. A frame past the end of the trim filter ends its link;
\* the AVERROR_EOF of an ended link is ignored.
InjectFrame(f) ==
  /\ failed' = [failed EXCEPT ![f] = 0]
  /\ \/ /\ f \in closed
        /\ rejected' = TRUE /\ UNCHANGED <<accepted, cut, emitted>>
     \/ /\ f \notin closed /\ f = Video
        /\ cut' = TRUE /\ UNCHANGED <<accepted, rejected, emitted>>
     \/ /\ Starved(f)
        /\ accepted' = [accepted EXCEPT ![f] = @ + 1]
        /\ MayEmit(accepted')
        /\ UNCHANGED <<cut, rejected>>
  /\ UNCHANGED closed

\* Altered SendFilterEof: the filters are not told.
SendFilterEofForgotten(f) == UNCHANGED <<failed, closed>>

\* send_filter_eof: av_buffersrc_add_frame with no frame.
SendFilterEof(f) ==
  /\ failed' = [failed EXCEPT ![f] = 0]
  /\ closed' = closed \cup {f}

-----------------------------------------------------------------------------
(* transcode: the head of the loop and choose_output                       *)

\* need_output finds the only output stream finished.
LoopEnds ==
  /\ pc = "top" /\ finished # {}
  /\ pc' = "drain" /\ ist' = 1
  /\ UNCHANGED <<inputVars, graphVars, outputVars, flush, broken>>

\* choose_output has nothing, got_eagain is true: transcode_step sleeps.
ResetEagain ==
  /\ pc = "top" /\ finished = {} /\ unavailable
  /\ eagain' = {} /\ unavailable' = FALSE
  /\ UNCHANGED <<left, again, eof, graphVars, finished, reaped, encoded, inEncoder,
                 written, controlVars>>

-----------------------------------------------------------------------------
(* transcode_from_filter: avfilter_graph_request_oldest and what follows   *)

Requests == pc = "top" /\ finished = {} /\ ~unavailable

RequestFrame ==
  /\ Requests
  /\ emitted < accepted[Video] /\ HasPalette(accepted)
  /\ emitted' = emitted + 1
  /\ pc' = "reap" /\ flush' = FALSE
  /\ UNCHANGED <<inputVars, held, failed, closed, accepted, cut, rejected, outputVars, ist, broken>>

\* The graph has nothing left and gets nothing more: reap_filters(1), and
\* then close_output_stream, see ReapDone.
RequestEof ==
  /\ Requests
  /\ VideoEnded /\ emitted = accepted[Video]
  /\ pc' = "reap" /\ flush' = TRUE
  /\ UNCHANGED <<inputVars, graphVars, outputVars, ist, broken>>

\* Inputs that could be read, and would let the graph go on.
Candidates(requests) ==
  {f \in Files \ (eagain \cup eof) : requests[f] > 0}

\* The one asked most often, the first of equals.
Best(requests) ==
  CHOOSE f \in Candidates(requests) :
    \A g \in Candidates(requests) :
      requests[g] < requests[f] \/ (requests[g] = requests[f] /\ f <= g)

\* The graph asks for a frame of f: the best input is read, or none can be.
RequestAgain(f) ==
  /\ Requests /\ Starved(f)
  /\ failed' = [failed EXCEPT ![f] = @ + 1]
  /\ IF Candidates(failed') # {}
     THEN ist' = Best(failed') /\ pc' = "input" /\ UNCHANGED unavailable
     ELSE unavailable' = TRUE /\ UNCHANGED <<ist, pc>>
  /\ UNCHANGED <<inputVars, held, closed, accepted, cut, rejected, emitted, finished,
                 reaped, encoded, inEncoder, written, flush, broken>>

\* Any other error of a filter ends the loop.
RequestFails ==
  /\ Requests
  /\ broken' = TRUE
  /\ pc' = "drain" /\ ist' = 1
  /\ UNCHANGED <<inputVars, graphVars, outputVars, flush>>

-----------------------------------------------------------------------------
(* process_input                                                           *)

\* The queue of the file is empty: the output has to wait.
InputAgain ==
  /\ pc = "input" /\ again[ist] > 0
  /\ again' = [again EXCEPT ![ist] = @ - 1]
  /\ eagain' = eagain \cup {ist}
  /\ unavailable' = TRUE
  /\ pc' = "top"
  /\ UNCHANGED <<left, eof, graphVars, finished, reaped, encoded, inEncoder, written, ist, flush, broken>>

\* A packet: reset_eagain.
TakePacket ==
  /\ left[ist] > 0
  /\ left' = [left EXCEPT ![ist] = @ - 1]
  /\ eagain' = {} /\ unavailable' = FALSE

\* It belongs to a discarded stream, or the decoder has an error.
InputDropped ==
  /\ pc = "input"
  /\ TakePacket
  /\ pc' = "reap" /\ flush' = FALSE
  /\ UNCHANGED <<again, eof, graphVars, finished, reaped, encoded, inEncoder, written, ist, broken>>

\* It goes to the decoder (process_input_packet).
InputPacket ==
  /\ pc = "input"
  /\ TakePacket
  /\ held' = [held EXCEPT ![ist] = @ + 1]
  /\ pc' = "decode"
  /\ UNCHANGED <<again, eof, failed, closed, accepted, cut, rejected, emitted, finished,
                 reaped, encoded, inEncoder, written, ist, flush, broken>>

\* The decoder returns a frame: once more.
DecodeFrame ==
  /\ pc = "decode" /\ held[ist] > 0
  /\ held' = [held EXCEPT ![ist] = @ - 1]
  /\ InjectFrame(ist)
  /\ UNCHANGED <<inputVars, outputVars, controlVars>>

\* It wants a packet: on to reap_filters(0).
DecodeDone ==
  /\ pc = "decode" /\ held[ist] <= DecDelay
  /\ pc' = "reap" /\ flush' = FALSE
  /\ UNCHANGED <<inputVars, graphVars, outputVars, ist, broken>>

\* Altered DrainFrame: the EOF is sent to the filters with every frame.
DrainFrameAndEof(f) ==
  /\ held[f] > 0
  /\ held' = [held EXCEPT ![f] = @ - 1]
  /\ rejected' = (rejected \/ f \in closed)
  /\ accepted' = IF Starved(f) THEN [accepted EXCEPT ![f] = @ + 1] ELSE accepted
  /\ closed' = closed \cup {f}
  /\ failed' = [failed EXCEPT ![f] = 0]
  /\ UNCHANGED <<cut, emitted>>

\* process_input_packet with no packet: one frame for a call.
DrainFrame(f) ==
  /\ held[f] > 0
  /\ held' = [held EXCEPT ![f] = @ - 1]
  /\ InjectFrame(f)

\* The decoder is empty, or fails and is given up.
DrainEnd(f) ==
  /\ \/ held[f] = 0 /\ UNCHANGED broken
     \/ held[f] > 0 /\ broken' = TRUE
  /\ held' = [held EXCEPT ![f] = 0]
  /\ SendFilterEof(f)
  /\ UNCHANGED <<accepted, cut, rejected, emitted>>

\* The file has ended: the decoder has more, come again.
InputDrains ==
  /\ pc = "input" /\ left[ist] = 0
  /\ again' = [again EXCEPT ![ist] = 0]
  /\ DrainFrame(ist)
  /\ pc' = "reap" /\ flush' = FALSE
  /\ UNCHANGED <<left, eagain, eof, outputVars, ist, broken>>

\* The file has ended and so has the decoder: EAGAIN, without the flag.
InputEnds ==
  /\ pc = "input" /\ left[ist] = 0
  /\ again' = [again EXCEPT ![ist] = 0]
  /\ DrainEnd(ist)
  /\ eof' = eof \cup {ist}
  /\ pc' = "top"
  /\ UNCHANGED <<left, eagain, outputVars, ist, flush>>

-----------------------------------------------------------------------------
(* reap_filters and do_video_out                                           *)

\* A frame for the encoder; frames of a finished stream are dropped.
ReapFrame ==
  /\ pc = "reap" /\ reaped < emitted
  /\ reaped' = reaped + 1
  /\ IF finished = {}
     THEN /\ encoded' = encoded + 1 /\ inEncoder' = inEncoder + 1
          /\ pc' = "encode"
     ELSE UNCHANGED <<encoded, inEncoder, pc>>
  /\ UNCHANGED <<inputVars, graphVars, finished, unavailable, written, ist, flush, broken>>

\* The sink is empty. At its end do_video_out is told, which may repeat the
\* last frame (see FrameRate), and the stream is closed.
ReapDone ==
  /\ pc = "reap" /\ reaped = emitted
  /\ IF flush
     THEN finished' = finished \cup {"encoder"}
     ELSE UNCHANGED finished
  /\ flush' = FALSE
  /\ pc' = "top"
  /\ UNCHANGED <<inputVars, graphVars, unavailable, reaped, encoded, inEncoder, written, ist, broken>>

\* write_packet: av_interleaved_write_frame, and close_all_output_streams
\* when it fails.
WritePacket ==
  \/ written' = written + 1 /\ UNCHANGED <<finished, broken>>
  \/ finished' = {"encoder", "muxer"} /\ broken' = TRUE /\ UNCHANGED written

EncoderReturns ==
  /\ pc = "encode" /\ inEncoder > 0
  /\ inEncoder' = inEncoder - 1
  /\ WritePacket
  /\ UNCHANGED <<inputVars, graphVars, unavailable, reaped, encoded, pc, ist, flush>>

EncoderWants ==
  /\ pc = "encode" /\ inEncoder <= EncDelay
  /\ pc' = "reap"
  /\ UNCHANGED <<inputVars, graphVars, outputVars, ist, flush, broken>>

-----------------------------------------------------------------------------
(* transcode after its loop                                                *)

\* One call of process_input_packet for each file not read to its end. What
\* the filters get now stays there.
FlushDecoder ==
  /\ pc = "drain" /\ ist <= NumFiles
  /\ IF ist \in eof
     THEN UNCHANGED <<graphVars, broken>>
     ELSE (DrainFrame(ist) /\ UNCHANGED broken) \/ DrainEnd(ist)
  /\ ist' = ist + 1
  /\ UNCHANGED <<inputVars, outputVars, pc, flush>>

DecodersFlushed ==
  /\ pc = "drain" /\ ist > NumFiles
  /\ pc' = "flush"
  /\ UNCHANGED <<inputVars, graphVars, outputVars, ist, flush, broken>>

\* flush_encoders: a packet, dropped when the muxer has failed.
FlushEncoder ==
  /\ pc = "flush" /\ inEncoder > 0
  /\ inEncoder' = inEncoder - 1
  /\ IF "muxer" \in finished THEN UNCHANGED <<written, finished, broken>> ELSE WritePacket
  /\ UNCHANGED <<inputVars, graphVars, unavailable, reaped, encoded, pc, ist, flush>>

\* Altered WriteTrailer: the encoder is not drained before.
WriteTrailerAtOnce ==
  /\ pc = "flush"
  /\ pc' = "done"
  /\ UNCHANGED <<inputVars, graphVars, outputVars, ist, flush, broken>>

\* AVERROR_EOF: the trailer is written.
WriteTrailer ==
  /\ pc = "flush" /\ inEncoder = 0
  /\ pc' = "done"
  /\ UNCHANGED <<inputVars, graphVars, outputVars, ist, flush, broken>>

-----------------------------------------------------------------------------
Next ==
  \/ LoopEnds \/ ResetEagain
  \/ RequestFrame \/ RequestEof \/ (\E f \in Files : RequestAgain(f)) \/ RequestFails
  \/ InputAgain \/ InputDropped \/ InputPacket \/ DecodeFrame \/ DecodeDone
  \/ InputDrains \/ InputEnds
  \/ ReapFrame \/ ReapDone \/ EncoderReturns \/ EncoderWants
  \/ FlushDecoder \/ DecodersFlushed \/ FlushEncoder \/ WriteTrailer

\* The main thread runs.
Spec == Init /\ [][Next]_vars /\ WF_vars(Next)

-----------------------------------------------------------------------------
(* Properties                                                              *)

\* No frame is added behind the EOF of its filter input: decode_video would
\* take the error for a fatal one and call exit_program.
NoFrameAfterEof == ~rejected

\* The loop sleeps only while a file has no packet ready: never because the
\* graph asks for an input that has been read to its end.
WaitsOnlyForInput == unavailable => eagain # {}

\* The trim filter ended the video, or all of it went through the decoder.
VideoDone == cut \/ (left[Video] = 0 /\ held[Video] = 0)

PipeState ==
  CASE pc # "done" -> "open"
    [] pc = "done" /\ broken -> "broken"
    [] pc = "done" /\ ~broken /\ VideoDone -> "closed"
    [] pc = "done" /\ ~broken /\ ~VideoDone -> "incomplete"

\* Every frame the filters accept is encoded and written, and the run ends:
\* it ends well only when the video is done and nothing is on the way.
Pipe == INSTANCE FramePipe WITH
  taken <- accepted[Video],
  coded <- encoded,
  saved <- written,
  ended <- VideoEnded,
  state <- PipeState

ImplementsPipe == Pipe!Spec
=============================================================================
