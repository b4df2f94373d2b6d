# GifBox: a verification companion

GifBox is an Android app that turns a recorded or chosen video, or a set of
pictures, into an animated GIF. It has no documentation of its own; this
directory models its logic in TLA+, checks the models with TLC and proves some
of what they satisfy with TLAPS. Paths below are relative to the repository;
`java/` stands for `app/src/main/java/com/daixun/gifbox/` and `cpp/` for
`app/src/main/cpp/`.

## The system's parts

| Component | Where | State it keeps | Operations |
|---|---|---|---|
| Recorder | `java/VideoRecorderActivity.kt`, `util/MediaUtils.java`, `widget/VideoProgressBar.java`, `widget/SendView.java` | cancel flag, tick counter, queued tick message; ring's progress and cancel flag; camera, its lock, MediaRecorder, `isRecording`, target file | touch down/move/up, tick message, draw, back/select/close/switch clicks, surface and activity callbacks |
| GIF writer | `java/gif/AnimatedGifEncoder.java` | output stream, `started`, `sizeSet`, `firstFrame`, `closeStream`, transparency, delay, dispose | setters, start, addFrame, finish |
| LZW compressor | `java/gif/LZWEncoder.java` | hash table, next code, code width, bit accumulator, packet | encode |
| Colour quantizer | `java/gif/NeuQuant.java` | network, bias, freq, netindex | learn, unbiasnet, inxbuild, map |
| Picture editor | `java/CreateByPictureActivity.kt` | picture list, index, posted runnables, image loads | preview loop, seek, pause/resume, build the GIF |
| Conversion | `java/MainActivity.kt`, `util/GifUtil.java`, `util/FFmpegCmd.java` | scheduler threads, the two command lines, palette and output files | convertVideoToGif, mp4ToGif |
| Native run | `cpp/jx_ffmpeg_cmd_run.c`, `cpp/ffmpeg.c` (jxRun, ffmpeg_cleanup), `cpp/cmdutils.c` (exit_program) | the globals of ffmpeg.c, shared by all runs of the process | one run after (or during) another |
| Input threads | `cpp/ffmpeg.c` 3785-3918, `app/ffmpeg-3.2.8/libavutil/threadmessage.c` | per file: thread, bounded queue, two error flags | read, send, receive, shut down |
| Transcode loop | `cpp/ffmpeg.c` 2407-2544, 3608-3658, 4008-4430 | eof/eagain per input, decoders, filter graph, finished/unavailable per output | choose_output, transcode_step, transcode_from_filter, process_input, reap_filters, flush_encoders |
| Muxing | `cpp/ffmpeg.c` 645-845, 2760-2800 | last dts (and a queue before the header, which the app's commands never use) | write_packet, output_packet, check_init_output_file |
| Frame rate | `cpp/ffmpeg.c` 1010-1310 (do_video_out) | sync_opts, last frame, dup/drop counts | repeat, drop or send a frame |
| Options and filters | `cpp/ffmpeg_opt.c`, `cpp/cmdutils.c`, `cpp/ffmpeg_filter.c` | option tables, filter graphs | parse, open files, configure |
| Second entry point | `cpp/ffmpeg_thread.c` | a pthread and a callback | not compiled (commented out in CMakeLists.txt) |
| Helpers | `java/util/{CameraHelper,Utils}.java`, `java/util/{Ext,CommonExt}.kt`, `widget/AutoFitTextureView.java` | none | size selection, paths, unit conversion |
| FFmpeg libraries | `app/ffmpeg-3.2.8/` | vendored | linked as prebuilt libraries |

### How they interact

* `MainActivity` starts `VideoRecorderActivity`, which answers with the path of
  a video, and `CreateByPictureActivity`.
* `MainActivity.convertVideoToGif` runs `GifUtil.mp4ToGif` on an io scheduler
  thread. It calls `FFmpegCmd.cmdRun` twice (palette, then GIF); each call is a
  whole `jxRun`, on the calling thread, over the process's globals.
* The second command reads two files, so `jxRun` starts one thread per file and
  takes packets from their queues.
* `CreateByPictureActivity` feeds pictures to `AnimatedGifEncoder`, which calls
  `NeuQuant` for a palette and `LZWEncoder` for the pixels of each frame.

### What is hard

* Recorder: one thread, but touches, ticks, draws and life-cycle callbacks come
  in any order; the limit is detected by an equality test in `onDraw`, and ticks and
  recorder go on while a paused activity is not drawn.
* Input threads: threads asleep on a full or an empty queue when the loop ends.
* Native run: a program written to exit after one run is called again and again
  in one process, and its `exit_program` returns.
* GIF writer and LZW: a stateful encoder whose code width, table reset and packet
  boundaries must match what a decoder does, and a writer that is reused.
* Transcode loop: which input is read next is decided by what the filter graph
  asked for, a file may say EAGAIN or end, decoders, filters and the encoder keep
  frames back, and everything has to be drained in the right order at the end.
* Frame rate: drifts are compared with 0.5, 0.6 and 1.1 frames, picture after
  picture, and the errors must not add up.
* Picture editor: posted runnables, image loads in flight and the life cycle of the
  activity, next to a build on a thread of its own.
* Colour quantizer: integer arithmetic whose rounding must not drift, and a search
  that stops early on one of three components.

## The modules

```
Recorder                         one UI thread            RecorderProofs
ThreadMessageQueue <- InputThreads      n + 1 threads     InputThreadsProofs
Transcode  implements FramePipe  the main loop            TranscodeProofs
FrameRate                        pictures to packets      FrameRateProofs
FfmpegRun <- Conversion          run after run            ConversionProofs
Powers <- LZWEncoder, LZWDecoder <- GifFrame
           implements LosslessFrame  one frame            GifProofs
AnimatedGifEncoder               one object, many files   GifProofs
NeuQuant                         one picture, many colours NeuQuantProofs
PictureEditor                    one looper, one thread   PictureEditorProofs
```

Every component module has a module `MC<name>` with the values TLC needs, and a
`.cfg`. In the component modules the operators whose comment says what they
forget ("finish without started = false") are altered versions of the definition
that follows them. They are not used by the specifications; putting one in place
of its original must break the property it was written for, which shows that the
property depends on that piece of code.

### Recorder

`VideoRecorderActivity`, `MediaUtils` and `VideoProgressBar` share the UI thread,
so an action is a whole callback with everything it calls: `TouchUp` is the
`ACTION_UP` branch with `stopRecordSave`/`stopRecordUnSave` and `stopView` in it,
`Draw` is `onDraw` with the `OnProgressEndListener`. The variables are the fields
of the three classes, the number of messages 0 in the handler's queue (`ticks`),
whether a draw is pending (`dirty`), and the file on disk. `MediaRecorder` is
external: `stop()`, `prepare()`, `start()` and `unlock()` may throw where its
documentation and the catch blocks say so, and each outcome is a disjunct. A tick
cannot overtake the draw of a shown window, because `invalidate()` puts up a sync
barrier in the looper's queue; that ordering is in the guard of `Tick`, and
without it the limit would not hold.

The activity has no `onPause`, and recorder and camera are released only in
`surfaceDestroyed`. So there are three ways to leave, each an action of its own:
`OnPause` (nothing stops, the window may stay visible), `Hide` (the window is no
longer drawn, for instance because the display went off; recorder and ticks go on)
and `SurfaceDestroyed`. `OnResume` with its `setCancel(true)` may therefore meet a
running recording. In these states the limit is not kept: a tick that brings
`mProgress` to 100 while nothing is drawn is never seen, and the draw that would see it
can be swallowed by the `setCancel(true)` of `onResume`. `left` remembers that the
activity was not resumed all the time since the press, and `LimitEnforced` and
`RecordingEnds` speak of recordings with `~left` only.

The camera lock is state because `prepareRecord` needs it: `unlock()` on a camera
that is not locked throws. `pressed` stands for the finger.

### ThreadMessageQueue, InputThreads

`ThreadMessageQueue` is `libavutil/threadmessage.c`, one critical section a step.
`InputThreads` adds `input_thread` (`pc`), the main thread (`mpc`) in
`init_input_threads`, the loop of `transcode`, `get_input_packet_mt` and
`free_input_threads`. A thread in `pthread_cond_wait` is a thread in the state
`"waiting"`; the signals of the code are `WakeSender` and `WakeReceiver`, and a
wait may also end without one. `av_thread_message_queue_alloc` returns 0 when it has no
memory for the FIFO; the thread created then is `"doomed"`, and it or the main thread
ends the process at the NULL queue (`"crashed"`). A packet is its number in the file. What the
decoders and the filter graph do with it is not here: which file is read next and
when the output is finished are free choices, so what holds does not depend on them.

### Powers, LZWEncoder, LZWDecoder, GifFrame, LosslessFrame

`LZWEncoder` is the whole of `LZWEncoder.java`, one record `enc` for its fields and
the locals of `compress`; a step is a pixel, a turn of the hash probe, or the
writing of a code with all the bytes and packets that fall out of it. `LZWDecoder`
is the decoder of FFmpeg (`libavcodec/lzw.c`, `gifdec.c`), translated as a
reference that was not written by the author of the encoder. `GifFrame` sends a
frame through both, and `LosslessFrame` is what the two promise together: pixels
come out in order, unchanged, all of them. `Lossless` is that specification with
`sent <- image, got <- dec.out, closed <- dec.mode = "done"`. `WidthsAgree` is what
makes it true code by code: what the decoder has read is a beginning of what the
encoder has written, values and widths. Both, and the safety of `Lossless` on top of
them, are proved in `GifProofs`. `Powers` has the shift of one that all of
them use.

### AnimatedGifEncoder

One encoder object, any sequence of `start` (both forms), `setSize`, `setRepeat`,
`addFrame` and `finish`, with an `IOException` before any block. `files` holds
every stream the object was started on as the sequence of its blocks, so the
grammar of GIF can be stated of it. It is stated of `Clean` files: nothing threw on the
file, and it was started on a new object, after a `finish`, or when no frame was written
since. A file started over another one with frames, without a `finish`, is in the model
too, but the code gives it no screen descriptor, so nothing is claimed of it. Colours, delays and disposal codes change
values inside blocks and are left out.

### Transcode, FramePipe

`Transcode` is the loop of `transcode()` and what follows it, for one output stream
fed by one filter graph over one decoded stream of each file, which is what both
commands of the app have. `pc` is the function the main thread is in: the head of
the loop, `process_input`, its decoding loop, `reap_filters`, the packets of one
frame, the decoders after the loop, `flush_encoders`. Where a packet comes from is
`InputThreads`; here a file gives one, says EAGAIN, or has ended. Decoders, filters
and encoder are external and do what their interfaces allow: they keep frames back,
fail, or, for the trim filter, end the video early. Frames are counted.

`FramePipe` is what that loop promises: each picture that enters the filters is
encoded and written, in this order, the run ends, and it ends well only when the
video has ended and none is on the way. `Pipe` is that specification with
`taken <- accepted[Video], coded <- encoded, saved <- written, ended <- VideoEnded`.
A frame repeated or dropped on purpose is not in it; that is `FrameRate`.

### FrameRate

`do_video_out` for every picture that leaves the filters, its loop over the frames
it makes of one, and `write_packet` with its repair of timestamps. Times are whole
tenths of an output frame where the code has doubles, since it compares them with
0.5, 0.6 and 1.1. Neither command sets `-vsync`, `-frames` or a limit of the output,
so the method is the one chosen from the muxer (VFR for a GIF, and CFR, or VSCFR for a
file of one stream, for the palette picture). `reap_filters` moves each time by 1/2^17
of a frame away from zero, so that no comparison meets its limit exactly; `Past` and
`Round` decide the way the moved time does. (`lrintf` has only 24 bits: for a gap of more
than 128 frames it does not see the move, which the model leaves out.)

### NeuQuant

The whole of `NeuQuant.java`. A shift by `s` is a factor `2^s`, and every size,
prime and scale is a constant. A turn of `learn` (contest, alter, the next sample),
of the selection sort in `inxbuild`, and half a turn of the search in `map` are
steps. The pixel index counts pixels, where the code counts bytes three at a time.

### PictureEditor

`CreateByPictureActivity`: each callback of the main looper is an action
(`gifRunnable`, a load that came back or failed, the seek bar, the life cycle), and
so is each step of the io thread of `builderGif`. Glide is external: a load comes
back only while the activity is started, is cleared when it is destroyed, and
`with(activity)` throws from then on. A load that failed is kept (`broken`) and begins
again when a stopped activity starts; it then runs beside the one of `onResume`, which
`raced` remembers. What `AnimatedGifEncoder` writes is reduced to
the number of frames and the trailer, with the exceptions it swallows.

### FfmpegRun, Conversion

`FfmpegRun` is the life of `jxRun`: arrays of pointers and their counters
(`held` and `nb`), `decode_error_stat` and `main_return_code` from one run to the
next, and every place where a run of the app's two commands can fail.
`exit_program` has its `exit` commented out: it cleans up and returns, and its
caller goes on. `ffmpeg_cleanup` walks each array by its counter, so calling it
twice with a counter above zero reads through NULL; this is `"crashed"`. A read of
freed memory is undefined behaviour; the model takes the outcome the build
produces on the paths it has, the read through a pointer set to NULL by
`av_freep`. What the transcode loop does is two counters (good and bad results of
the decoder), how much of the file was written, and its fatal errors (`WriteFails`;
`LoopFails` for an encoder that fails or a frame the filters refuse, where
`exit_program` returns into the loop).

`Conversion` is `convertVideoToGif` and `mp4ToGif` around it: palette run, GIF run,
toast, and a new process after a crash. `file` says of which conversion the two
files on disk are.

## The runs

| Run | Asks | Distinct states | Shows |
|---|---|---|---|
| `recorder` | are recorder, ticks, limit and file kept in step in every order of callbacks? | 29 602 | yes; the limit, and that a recording whose ticks run ends by itself, as long as the activity stays resumed |
| `recorder_too_short` | is a too short one stopped? | violation | not when it is released before the first tick: it runs on |
| `input_threads` | do packets, errors and shut-down survive every interleaving? | 152 166 | yes: order, completeness, no use after free, no leak, no missed wake-up, termination (or the end of the process, when a queue could not be allocated) |
| `transcode` | does every frame get through the loop and its end? | 214 063 | yes, with EAGAINs, delays and failures anywhere; no frame behind an EOF, no sleep without a reason, and the loop ends |
| `frame_rate` | do counts, drift and timestamps survive any times of the pictures? | 194 931 | yes, unless a picture was skipped for being repeated too often |
| `conversion` | does a run depend on the runs before it? | 219 428 | it starts clean, dies only of its own errors, and the conversion always ends |
| `conversion_error_rate` | does a run with too many errors say so? | violation | the frames of an earlier run hide them |
| `gif_frame` | does a decoder read back what the encoder wrote? | 21 086 | yes, over table fills and clears; encoder and decoder agree on every width |
| `gif_writer` | is every file of one object a GIF? | 1 148 560 | every clean one, of one size; finished files are final, and the object closes its own files and no others |
| `gif_size_of_first_frame` | does the default size come from the first frame? | violation | not in a file started after a `finish` |
| `colour_quantizer` | is the palette learnt and searched without an error of rounding or range? | 47 860 | yes: indices in range, bias and frequency balanced, no pixel sampled twice, the nearest colour found |
| `picture_editor` | does the preview survive the life cycle, and a build the activity? | 556 459 | one chain unless a load was in flight or a failed one began again, every picture is shown, and a crash comes only after the file is complete |

### Bounds

* `recorder`: `MaxProgress` 4 and `MinProgress` 2 for 100 and 10. The code compares
  `mProgress` with 0, 10 and 100 only; what counts is that each of the ranges
  0, 1..9, 10..99, 100, 101 and beyond has a member. `ProgressCap` 7 saturates the
  counter, which nothing compares with anything there. Pauses, hidden windows, lost
  surfaces and presses are not bounded.
* `input_threads`: two files, which is what the second command has; queues of two
  so that full, half full and empty all occur; four packets so that a queue can
  overflow with a packet in hand and one taken. File 2 is non-blocking, as the
  palette picture is (its demuxer has no `pb`).
* `gif_frame`: `BITS` 4 for 12, colour depth 2 for 8, a prime table of 17 slots for
  5003, packets of 3 bytes for 254. The frames (every pattern of up to four pixels
  repeated, and then its opposite) are long enough to fill the table, clear it and
  go on; every frame of up to three pixels covers the ends of a packet.
* `gif_writer`: two files or streams of two frames each and two sizes: a first and
  a later frame, a first and a later file. One of the streams may fail: a failure
  matters through the flags it leaves for the next one.
* `conversion`: three conversions, that is six runs, with three decoder results
  each: one run to gather good results, one whose errors they hide, and one after
  a restart.
* `transcode`: two files of up to three packets, where the decoder keeps up to two
  frames back and the encoder one: packets that give no frame, frames after the last
  packet and packets after the last frame all occur. The second file may say EAGAIN
  once, as the palette may (see `input_threads`).
* `frame_rate`: four pictures, each 0, 0.3, 1, 1.4, 3.5 or 7 frames after the one
  before: early, in time, late, and late enough to be repeated more than `MaxDup` 6
  times, with and without a duration. A clock of half frames makes timestamps
  collide. The encoder keeps one frame back.
* `colour_quantizer`: four neurons, four levels of a component, scales of 4, 64 and
  8 for 16, 65536 and 1024: small enough for every picture of up to three pixels of
  six colours, with primes of which each divides some length of the longer ones.
  24 colours are looked up, with each green and with colours no neuron has.
* `picture_editor`: no, two or three pictures, up to three chains (failed loads
  counted with them), one build. The
  second chain is the case that goes wrong; the third shows that nothing changes
  then.

The runs of `recorder`, `conversion`, `transcode`, `frame_rate` and `picture_editor`
switch the deadlock check off, because the system may stop there: a finished or
crashed activity takes no more steps, and neither does a run that is done or the
last conversion of the bound.

### Fairness, and why the code gives it

* Recorder: `WF(Tick)`, `WF(Draw)`. The looper delivers a queued message, the
  choreographer draws an invalidated window. The user owes nothing.
* InputThreads: each thread runs, and a read of a file returns; the main loop runs.
  That the filter graph ends is assumed only when all inputs have, and that the
  loop is left only when the output is finished.
* GifFrame: sequential code runs to its end.
* Transcode: `WF(Next)`. The main thread runs, and every call into a library
  returns; how often a file may say EAGAIN is a bound of the model, so a file that
  never gives its next packet is not a run of it.
* PictureEditor: the looper runs a posted runnable, and an image load that may run
  ends, well or not. The user may stop anywhere; that every picture is shown is
  claimed only of a preview that is left alone.
* AnimatedGifEncoder, FfmpegRun, FrameRate, NeuQuant: none, only safety is stated.
* Conversion: the io thread of RxJava runs `mp4ToGif`, the main looper delivers the
  toast. No fairness for the user: nobody has to start a conversion or the app; nor for
  `LoopFails`: no conversion may count on an error of the loop to come to its end.

## Findings

1. `VideoRecorderActivity.kt:62`: a release before the first tick removes the ticks
   and leaves the `MediaRecorder` running; nothing stops it any more but a second
   press or the loss of the surface.
2. `AnimatedGifEncoder.java:205`: `finish` resets the object "for subsequent use"
   but not `sizeSet`, so a second file has the size of the first. The run asks it only
   where nothing threw and every file before was finished, and its trace is start,
   `addFrame`, `finish`, start, `addFrame`; were `sizeSet` reset there, the property
   would hold.
3. `ffmpeg.c:4613`: the error rate is taken over all runs of the process.

Seen while modelling, in the states of the models but against no doc or comment, so
with no run of their own:

* Recorder: when the window is not drawn (the display goes off) or the activity is
  paused and resumed during a recording, the limit can be missed for good: ticks and
  recorder go on, `mProgress` passes 100 unseen or in a draw the `setCancel(true)` of
  `onResume` swallows, and the recording never ends by itself. The comment at
  `MediaUtils.java:268` says the camera is locked or released on a pause, which the code
  does only when the surface goes. `isCancel` outlives its press; in the cancel state a recording that ended
  by itself is kept, and can be chosen; a file whose `stop()` threw is offered as a
  recording; `surfaceCreated` opens the back camera while `cameraPosition` may say
  front; `surfaceDestroyed` leaves `isRecording` TRUE, so the ticks go on; a failed
  `prepareRecord` leaves the camera unlocked.
* Input threads: `av_thread_message_queue_alloc` reports a FIFO it could not allocate as
  a success (`threadmessage.c:67-72`), after which the process ends at a NULL queue.
* GIF writer: `finish` does not close its file when the trailer throws; a `start` without
  a `finish`, after frames, makes a file without a screen descriptor; and
  `addFrame` does not write a frame when the next one is added, as its comment says,
  but at once.
* Conversion: success is announced whatever the runs returned; two conversions at a
  time would share all globals of ffmpeg.
* Picture editor: `removeCallbacks` does not stop an image load in flight, so a drag
  or a pause can double the speed of the preview, and so can a failed load that begins
  again; `onComplete` of a build throws when
  the activity is gone; a picture that cannot be loaded leaves a file without a
  trailer; the marker of the current frame is drawn on a bitmap of Glide's cache; the
  name of the file is the CPU time of a thread and starts again with the process.
* Frame rate: after one picture that would have been repeated too often, all later
  ones of a file of constant rate are skipped too, since `sync_opts` no longer moves.

## The proofs

TLC looks at the instances above; the theorems hold for every value of the
constants their assumptions allow. Each rests on an inductive invariant (`IInv`; for
one frame `WidthInv` and `LosslessInv`), of which the stated property is a part or a consequence.

* `RecorderProofs` (any limits `0 < MinProgress <= MaxProgress`): types, no leaked
  recorder, one tick chain, and the limit of a recording during which the activity
  stays resumed. The limit is not inductive: the listener
  fires on the one draw that sees exactly the limit, and a pending `setCancel(true)`
  swallows a draw. The invariant follows that draw. While the activity has not been left
  since the press its window is drawn, so a tick waits for the draw before it; a
  `setCancel(true)` always has its draw pending and is consumed by it; so when the
  counter is past the limit, a draw is pending that nothing will swallow. After a pause
  none of this holds, in the model as in the code.
* `InputThreadsProofs` (any number of files above one, any queue size, any choice of
  non-blocking files): types, order, end of file after all packets, no use after
  free (but by a thread whose queue could not be allocated), no leak, no missed wake-up. The argument counts packets: read = taken +
  queued + the one a thread holds, as long as the queue accepts packets. A thread
  sets `err_recv` when it will send no more, so an empty queue with `err_recv` set
  stays empty: then everything was taken, and the drain leaves nothing behind.
* `GifProofs`, of one frame (any code space up to 24 bits, any hash table of prime size
  that holds it, any packets a byte can count, any images): types, the sub-blocks,
  that both sides agree on every code and its width, and that together they implement
  the safety of the lossless channel. What `output` was given is followed
  through the bytes: the sub-blocks written, the packet and the bits that wait in
  `cur_accum` together are worth the sum of the codes so far, each times the power of
  two of the bits before it (`Carried`); so a flush, a full packet or a change of width
  loses nothing, and after the end code no bits wait (`Streamed`). The widths follow a
  rule that speaks only of the number of codes since the last clear (`Ruled`), and the
  slots the decoder counts follow the same rule (`Rates`), although it is one entry
  behind. The decoder stands at a byte whose unread bits are the quotient of that sum by
  the power of the bits it has taken (`Stands`), never on the terminator while a code is
  missing. The next code is then the remainder by the power of its width, and the sum
  is unique in its digits, so it is the one that was written. The three parts of the
  invariant (`StreamInv`, `ReadInv`, with the types of `FrameInv`) hold together only:
  the ranges of the decoder need nothing of the codes, its codes need both.
* `GifProofs`, from the codes to the pixels (`FrameLossless`, by `LosslessInv`): every
  code since the last clear code stands for a stretch of the image, the next one for
  the stretch behind it (`Stood`, `Spelled`). The j-th entry made since the clear is
  the text of the j-th code and the pixel behind it; the hash table holds exactly these
  pairs (`Stored`), and as a pair of prefix and pixel is read back from its key in one
  way only, a match is for the text in hand and the next pixel. The decoder's tables of
  prefixes and suffixes hold the same entries (`Kept`), so following the prefixes of a
  code spells its text (`PixelsWords`), also for the one code a decoder can meet before
  it has its entry (`SpokenText`). What is put out is therefore a beginning of the image
  that ends where a code ends (`Decoded`). The branch for a code beyond the table is
  never taken, and the end code comes only behind the last pixel.
* `GifProofs`, of the files (any sizes, files, frames and failures): types, files closed
  that the object opened and no others, finished files final; and of clean files, frames
  of one size and the grammar of a GIF (`WellFormed`). The stream
  in work is not finished and `closeStream` says whose it is; once `firstFrame` is
  FALSE its blocks have the size of the encoder, which `setSize` then refuses to
  change. `firstFrame` FALSE implies that the stream in work has a frame or was itself
  started over one that had (`FrameWritten`), which is why a stream started after a
  `finish`, or before any frame, begins with the flag TRUE, and why one started over
  frames is not clean. For the grammar
  the flag must also be right the other way round: a clean stream
  ends with its header as long as `firstFrame` is TRUE, with data when it is FALSE
  (`AtWork`), so `addFrame` writes the screen descriptor and the global table exactly
  once and the trailer of `finish` meets a block it may follow.
* `ConversionProofs` (any commands): a run starts with empty arrays, the process dies
  only in a run that failed, and the error rate stops only a run that is itself above
  it. While no error was met, counter and array agree; after one, the counter of
  output files is above zero and the arrays are empty, so the second clean-up at the
  latest ends the process, and no run ever starts after a failed one in the same
  process. Hence all earlier runs had `2 good >= bad`; if all results together have
  `2 good < bad`, then so have those of this run. A conversion is a behaviour of
  `FfmpegRun`, so this holds of it; and from the moment the second run has opened its
  output, the old GIF is cut off, so the toast never names an older one.
* `TranscodeProofs` (any number of files and packets, any delay of decoder and
  encoder, any choice of non-blocking files): types, no frame behind an EOF, no sleep
  without a reason, and that the loop implements the safety of `FramePipe`. `Closing`
  says that in the loop exactly the files read to their end have their filter input
  closed, and that the file at work is not one of them, so a drained decoder never
  meets an EOF; after the loop they are closed in their order. A request of the graph
  counts for an open input, so when no file can be read that one has EAGAIN. `Stages`
  says that `written + inEncoder <= encoded <= reaped <= emitted <= accepted`, with
  equalities where nothing failed, and `Ending` that the stream is closed only when
  all of them are equal and the video has ended, and that the main thread leaves the
  loop only then. That the input chosen exists and is a file needs that a finite set
  of files has one asked most often, which is proved from the library's
  well-foundedness of finite sets.
* `FrameRateProofs` (any pictures, durations up to a frame, thresholds and clocks): types,
  rising timestamps, counts that add up, and the drift. `Drift` follows the loop: the
  frames still to be made count as made, so the bound holds from the decision on.
  `Order` keeps what was shown last before what comes next.
* `NeuQuantProofs` (any network, picture, scale and primes): types, the balance of
  bias and frequency, and the search. The types need that a colour moves towards its
  sample and never past it (`MoveBetween`), for which a neighbour's share must be at
  most the whole (`RadPower`). The balance is exact because both sides are changed by
  the same rounded quotient, and `freq` stays below `intbias` because that is a
  multiple of `betadiv` (`OneBalance`). The search rests on `Searched`: between `j`
  and `i` nothing is nearer than `bestd`. Stopping on green is right because
  `SortedTo` makes the greens rise and no distance is below its green; `Numbered`
  turns positions of the sorted network into numbers of the palette. That no pixel is
  sampled twice needs that the four numbers are primes (`PrimeAssumption`). `Sampled`
  says that the pixel after `k` samples is `k * step` steps around the picture, so to
  meet one again the length would have to divide `d * step` for a `d` below the
  length. The least such `d` divides the length, and the quotient divides the prime
  (`PrimeSteps`): it is 1, and `d` is the length itself, or it is the prime, which
  then divides the length, and `learn` would have chosen another (`StepPrime`).
* `PictureEditorProofs` (any numbers of pictures, builds and chains): types, one chain
  unless a load was in flight when the preview stopped or a failed one began again, and that a crash comes only
  from a build whose file is complete or already lost. An activity that has not been
  resumed or is destroyed has no chain, and a paused one has one only if `raced`
  remembers it (`ChainsOfLife`), so the chain `onResume` starts is the only one; a drag
  that ends removes what is posted before it starts another. `FrameOfEach` counts for
  every build the frames behind it, so the callback of its end finds them all in the
  file.

`RecorderProofs` also shows that an offered file is not touched: the panel that
offers it covers the button and the ring.

Only model-checked: liveness (`RecordingEnds`, `Terminates`, `ConversionEnds`, the
liveness of `ImplementsPipe` and `Lossless`, `EveryPictureShown`), which needs
fairness; that the safety parts of those two refinements hold is proved, for
`FramePipe` and `LosslessFrame` alike. The violations are found by TLC.

## Not modelled

* Options and filters: two fixed command lines, parsed by tables, and one filter
  graph built from them. Their failures (input, output, filters) are actions of
  `FfmpegRun`; a syntax error cannot occur.
* Of the muxer: the queue of packets before the header and bitstream filters, which
  neither command uses.
* Of the picture editor: the choice of pictures, and the size and drawing of a frame.
* Of the GIF writer: the colours of a frame, and setters that change values in blocks.
* Signals: nothing sends one to the app's process that it would survive.
* Two conversions at once: a data race on every global.
* `ffmpeg_thread.c` is not compiled; the helpers have no state; the FFmpeg libraries
  are vendored, and only the queue and the GIF decoder are translated.

## Plan

1. `InputThreads` shown to implement the FIFO source of packets that `Transcode`
   assumes, and `FrameRate` composed with it, so that the counts of the one are those
   of the other.
2. `builderGif` composed with `AnimatedGifEncoder` instead of its reduction.
3. The colours of a frame: `analyzePixels` and `findClosest` on the palette of
   `NeuQuant`.
