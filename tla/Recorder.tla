------------------------------ MODULE Recorder ------------------------------
(***************************************************************************)
(* Press-and-hold video recording: VideoRecorderActivity.kt (touch           *)
(* handling, the 100 ms tick message, the send/back panel), MediaUtils.java *)
(* (camera and MediaRecorder life cycle) and VideoProgressBar.java (the    *)
(* ring whose onDraw reports that the time limit is reached).              *)
(*                                                                         *)
(* Everything runs on the UI thread, so one action is one whole callback.  *)
(* What interleaves is the order of callbacks: touches, clicks, the tick   *)
(* message, draws and the activity's life cycle.                           *)
(*                                                                         *)
(* The activity has no onPause, and only surfaceDestroyed releases camera  *)
(* and recorder. Being paused, not being drawn and losing the surface are  *)
(* therefore three steps: after a pause the window may stay visible, and a *)
(* window that is not drawn (the display is off) may keep its surface.     *)
(***************************************************************************)
EXTENDS Integers

CONSTANTS
  MaxProgress,   (* 100 in VideoProgressBar.onDraw: ticks until auto-stop  *)
  MinProgress,   (* 10 in btnTouch: a shorter recording is discarded       *)
  ProgressCap    (* bound on mProgress, which the code never bounds        *)

ASSUME LimitAssumption == MaxProgress \in Nat \ {0}
ASSUME MinAssumption   == MinProgress \in 1..MaxProgress
ASSUME CapAssumption   == ProgressCap \in Nat /\ ProgressCap > MaxProgress + 1

VARIABLES
  \* VideoRecorderActivity
  isCancel,      (* the finger is above the button: release discards       *)
  mProgress,     (* ticks counted since the press                          *)
  ticks,         (* messages 0 in the handler's queue                      *)
  recordShown,   (* record_layout (button, ring, switch, close) is visible *)
  sendShown,     (* the back/select panel is visible                       *)
  life,          (* "resumed", "paused" or "finished"                      *)
  visible,       (* the window is drawn and gets touches                   *)
  left,          (* history: not resumed all the time since the last press *)
  result,        (* RESULT_OK was set with the file's path                 *)
  pressed,       (* a finger holds the record button                       *)
  \* VideoProgressBar
  barCancel, barProgress,
  dirty,         (* the ring was invalidated and not drawn since           *)
  \* MediaUtils
  isRecording,
  recorder,      (* mMediaRecorder: "null" or "started"                    *)
  camera,        (* mCamera: "none", "back" or "front"                     *)
  locked,        (* this process holds the camera's lock                   *)
  cameraPosition,
  file           (* targetFile on disk: "none", "partial" or "complete"    *)

activity == <<isCancel, mProgress, ticks, recordShown, sendShown>>
screen   == <<life, visible, left, result>>
bar      == <<barCancel, barProgress, dirty>>
cam      == <<camera, locked, cameraPosition>>
media    == <<isRecording, recorder, file>>
vars     == <<activity, screen, pressed, bar, cam, media>>

-----------------------------------------------------------------------------
(* The state.                                                              *)

CountersOK ==
  /\ mProgress \in 0..ProgressCap /\ barProgress \in 0..ProgressCap
  /\ ticks \in Nat /\ cameraPosition \in 0..1

TypeOK ==
  /\ CountersOK
  /\ isCancel \in BOOLEAN /\ recordShown \in BOOLEAN /\ sendShown \in BOOLEAN
  /\ life \in {"resumed", "paused", "finished"} /\ result \in BOOLEAN
  /\ visible \in BOOLEAN /\ left \in BOOLEAN
  /\ pressed \in BOOLEAN
  /\ barCancel \in BOOLEAN /\ dirty \in BOOLEAN
  /\ isRecording \in BOOLEAN /\ recorder \in {"null", "started"}
  /\ camera \in {"none", "back", "front"} /\ locked \in BOOLEAN
  /\ file \in {"none", "partial", "complete"}

\* onCreate has run, the surface exists and its preview is on the back camera.
Init ==
  /\ isCancel = FALSE /\ mProgress = 0 /\ ticks = 0
  /\ recordShown = TRUE /\ sendShown = FALSE
  /\ life = "resumed" /\ visible = TRUE /\ left = FALSE /\ result = FALSE
  /\ pressed = FALSE
  /\ barCancel = TRUE /\ barProgress = 0 /\ dirty = TRUE
  /\ isRecording = FALSE /\ recorder = "null" /\ file = "none"
  /\ camera = "back" /\ locked = TRUE /\ cameraPosition = 1

\* The buttons of record_layout can be touched: also when the activity is only
\* paused, or when finish() has been called and the window is still there.
Touchable == visible /\ camera # "none" /\ recordShown
\* A draw pass reaches the ring: the window is shown and no parent is GONE.
RingDrawn == visible /\ recordShown

-----------------------------------------------------------------------------
(* MediaUtils                                                              *)

\* MediaRecorder.stop(): it throws when no data was received, when the camera
\* was lost, and (NullPointerException, caught too) on a null recorder.
StopSucceeds == IF recorder = "started" THEN BOOLEAN ELSE {FALSE}

\* stopRecordSave with its release dropped.
StopRecordSaveNoRelease ==
  IF isRecording
  THEN /\ isRecording' = FALSE
       /\ \E ok \in StopSucceeds : file' = IF ok THEN "complete" ELSE file
       /\ UNCHANGED recorder
  ELSE UNCHANGED media

StopRecordSave ==
  IF isRecording
  THEN /\ isRecording' = FALSE
       /\ \E ok \in StopSucceeds : file' = IF ok THEN "complete" ELSE file
       /\ recorder' = "null"
  ELSE UNCHANGED media

StopRecordUnSave ==
  IF isRecording
  THEN isRecording' = FALSE /\ recorder' = "null" /\ file' = "none"
  ELSE UNCHANGED media

\* record() while recording: a second press stops, and takes the camera back.
RecordStops ==
  /\ isRecording
  /\ \E ok \in StopSucceeds : file' = IF ok THEN "complete" ELSE "none"
  /\ recorder' = "null" /\ isRecording' = FALSE
  /\ locked' = TRUE

\* prepareRecord fails: unlock() throws when the camera is not locked, and
\* otherwise a later call throws, with the camera unlocked and the output file
\* perhaps created. The recorder is released, the camera is not locked again.
PrepareFails ==
  /\ locked' = FALSE
  /\ file' \in IF locked THEN {file, "partial"} ELSE {file}
  /\ UNCHANGED <<isRecording, recorder>>

\* MediaRecorder.start() throws, before or after it locked the camera.
StartFails ==
  /\ locked
  /\ locked' \in BOOLEAN
  /\ file' = "partial"
  /\ UNCHANGED <<isRecording, recorder>>

\* MediaRecorder.start() returns: it has locked the camera again.
StartSucceeds ==
  /\ locked
  /\ locked' = TRUE
  /\ file' = "partial"
  /\ recorder' = "started" /\ isRecording' = TRUE

Record ==
  \/ RecordStops
  \/ ~isRecording /\ (PrepareFails \/ StartFails \/ StartSucceeds)

-----------------------------------------------------------------------------
(* VideoRecorderActivity                                                   *)

\* startView that forgets removeMessages(0).
StartViewKeepsTicks == mProgress' = 0 /\ ticks' = ticks + 1

StartView == mProgress' = 0 /\ ticks' = 1

\* stopView that resets the counter to -1.
StopViewMinusOne(isSave) ==
  /\ barCancel' = TRUE /\ dirty' = TRUE
  /\ mProgress' = 0 - 1 /\ ticks' = 0
  /\ IF isSave THEN recordShown' = FALSE /\ sendShown' = TRUE
               ELSE UNCHANGED <<recordShown, sendShown>>

\* stopView that leaves the record button on the screen.
StopViewKeepsButton(isSave) ==
  /\ barCancel' = TRUE /\ dirty' = TRUE
  /\ mProgress' = 0 /\ ticks' = 0
  /\ sendShown' = (isSave \/ sendShown)
  /\ UNCHANGED recordShown

StopView(isSave) ==
  /\ barCancel' = TRUE /\ dirty' = TRUE
  /\ mProgress' = 0 /\ ticks' = 0
  /\ IF isSave THEN recordShown' = FALSE /\ sendShown' = TRUE
               ELSE UNCHANGED <<recordShown, sendShown>>

TouchDown ==
  /\ Touchable /\ ~pressed
  /\ Record /\ StartView
  /\ pressed' = TRUE /\ left' = (life # "resumed")
  /\ UNCHANGED <<isCancel, recordShown, sendShown, life, visible, result, bar, camera,
                 cameraPosition>>

TouchMove ==
  /\ Touchable /\ pressed
  /\ isCancel' \in BOOLEAN
  /\ UNCHANGED <<mProgress, ticks, recordShown, sendShown, screen, pressed, bar, cam, media>>

TouchUp ==
  /\ Touchable /\ pressed
  /\ pressed' = FALSE
  /\ \/ isCancel /\ StopRecordUnSave /\ StopView(FALSE)
     \/ ~isCancel /\ mProgress = 0 /\ StopView(FALSE) /\ UNCHANGED media
     \/ ~isCancel /\ mProgress \in 1..(MinProgress - 1)
        /\ StopRecordUnSave /\ StopView(FALSE)
     \/ ~isCancel /\ mProgress >= MinProgress
        /\ StopRecordSave /\ StopView(TRUE)
  /\ UNCHANGED <<isCancel, screen, barProgress, cam>>

\* ACTION_CANCEL (a system gesture takes the touch over): btnTouch ignores it.
TouchLost ==
  /\ Touchable /\ pressed
  /\ pressed' = FALSE
  /\ UNCHANGED <<activity, screen, bar, cam, media>>

\* mProgress never stops growing once 100 is missed; at ProgressCap, which
\* nothing compares it with, it saturates.
Bump(n) == IF n < ProgressCap THEN n + 1 ELSE n

\* handleMessage. The invalidate() of a shown window holds back the messages
\* sent after it until the draw, so a tick finds the ring drawn; in a window
\* that is not drawn the ticks go on.
Tick ==
  /\ ticks > 0
  /\ ~(RingDrawn /\ dirty)
  /\ barProgress' = mProgress /\ dirty' = TRUE
  /\ IF isRecording THEN mProgress' = Bump(mProgress) /\ UNCHANGED ticks
                    ELSE ticks' = ticks - 1 /\ UNCHANGED mProgress
  /\ UNCHANGED <<isCancel, recordShown, sendShown, screen, pressed, barCancel, cam, media>>

BackClick ==
  /\ visible /\ sendShown
  /\ sendShown' = FALSE /\ recordShown' = TRUE
  /\ file' = "none"
  /\ UNCHANGED <<isCancel, mProgress, ticks, screen, pressed, bar, cam, isRecording, recorder>>

\* finish(): the window and its surface go later, see Hide and SurfaceDestroyed.
Finish == life' = "finished" /\ left' = TRUE

SelectClick ==
  /\ visible /\ sendShown
  /\ sendShown' = FALSE /\ recordShown' = TRUE
  /\ result' = TRUE
  /\ Finish
  /\ UNCHANGED <<isCancel, mProgress, ticks, visible, pressed, bar, cam, media>>

CloseClick ==
  /\ Touchable
  /\ Finish
  /\ UNCHANGED <<activity, visible, result, pressed, bar, cam, media>>

\* switchCamera, which does not look at isRecording: a second finger can reach
\* the button while the first one records.
SwitchCamera ==
  /\ Touchable
  /\ cameraPosition' = 1 - cameraPosition
  /\ camera' = IF cameraPosition = 1 THEN "front" ELSE "back"
  /\ locked' = TRUE
  /\ UNCHANGED <<activity, screen, pressed, bar, media>>

-----------------------------------------------------------------------------
(* VideoProgressBar and the life cycle                                     *)

\* onDraw that does not clear isCancel.
DrawKeepsCancel ==
  /\ RingDrawn /\ dirty
  /\ \/ barCancel /\ dirty' = FALSE /\ UNCHANGED <<barCancel, media>>
     \/ ~barCancel /\ barProgress = MaxProgress
        /\ barCancel' = TRUE /\ dirty' = TRUE /\ StopRecordSave
     \/ ~barCancel /\ barProgress # MaxProgress
        /\ dirty' = FALSE /\ UNCHANGED <<barCancel, media>>
  /\ UNCHANGED <<activity, screen, pressed, barProgress, cam>>

\* onDraw with, at exactly the limit, the activity's OnProgressEndListener.
Draw ==
  /\ RingDrawn /\ dirty
  /\ \/ barCancel /\ barCancel' = FALSE /\ dirty' = FALSE /\ UNCHANGED media
     \/ ~barCancel /\ barProgress = MaxProgress
        /\ barCancel' = TRUE /\ dirty' = TRUE /\ StopRecordSave
     \/ ~barCancel /\ barProgress # MaxProgress
        /\ dirty' = FALSE /\ UNCHANGED <<barCancel, media>>
  /\ UNCHANGED <<activity, screen, pressed, barProgress, cam>>

\* The system pauses the activity (another one comes, the display goes off, in
\* split screen the user turns to the other half). onPause is not overridden.
OnPause ==
  /\ life = "resumed"
  /\ life' = "paused" /\ left' = TRUE
  /\ UNCHANGED <<activity, visible, result, pressed, bar, cam, media>>

OnResume ==
  /\ life = "paused"
  /\ life' = "resumed"
  /\ barCancel' = TRUE /\ dirty' = TRUE
  /\ UNCHANGED <<activity, visible, left, result, pressed, barProgress, cam, media>>

\* The window of a paused or finished activity is no longer drawn. A touch is
\* cancelled, which btnTouch ignores; nothing else of the activity is told.
Hide ==
  /\ visible /\ life # "resumed"
  /\ visible' = FALSE /\ pressed' = FALSE
  /\ UNCHANGED <<activity, life, left, result, bar, cam, media>>

Show ==
  /\ ~visible /\ life # "finished"
  /\ visible' = TRUE
  /\ UNCHANGED <<activity, life, left, result, pressed, bar, cam, media>>

\* A window that is not drawn may lose its surface (not when only the display
\* is off). Camera and recorder are released, isRecording and the ticks not.
SurfaceDestroyed ==
  /\ ~visible /\ camera # "none"
  /\ camera' = "none" /\ recorder' = "null"
  /\ UNCHANGED <<activity, screen, pressed, bar, locked, cameraPosition, isRecording, file>>

\* surfaceCreated opens the back camera, whatever cameraPosition says.
SurfaceCreated ==
  /\ visible /\ camera = "none"
  /\ camera' = "back" /\ locked' = TRUE
  /\ UNCHANGED <<activity, screen, pressed, bar, cameraPosition, media>>

Next ==
  \/ TouchDown \/ TouchMove \/ TouchUp \/ TouchLost
  \/ Tick \/ Draw
  \/ BackClick \/ SelectClick \/ CloseClick \/ SwitchCamera
  \/ OnPause \/ OnResume \/ Hide \/ Show \/ SurfaceDestroyed \/ SurfaceCreated

\* The looper delivers every queued message and the choreographer every frame;
\* nothing obliges the user to do anything.
Fairness == WF_vars(Tick) /\ WF_vars(Draw)

Spec == Init /\ [][Next]_vars /\ Fairness

-----------------------------------------------------------------------------
(* What the code keeps.                                                    *)

\* A MediaRecorder is held only while isRecording says so: every path that
\* stops a recording goes through releaseMediaRecorder, and none loses track of
\* one that runs (stopRecordSave/UnSave would then never stop it).
NoLeakedRecorder == recorder = "started" => isRecording

\* However presses, releases and lost touches follow each other, one tick chain
\* runs: two would count the limit down at double speed.
OneTickChain == ticks <= 1

\* While the tick chain of a recording runs, the recording is no longer than
\* the limit, though the listener fires only on a draw that sees exactly 100
\* and that no pending setCancel(true) swallows: as long as the activity has
\* been resumed since the press. Otherwise the limit may be missed for good:
\* the ticks of a window that is not drawn pass it, with the recorder running,
\* and the setCancel(true) of onResume may swallow the one draw that counts.
LimitEnforced == recorder = "started" /\ ticks > 0 /\ ~left => mProgress <= MaxProgress + 1

\* While the user is asked back/select, nothing rewrites or deletes the take:
\* no press reaches record(), no late tick or draw stops it again.
OfferedFileUntouched == [][sendShown /\ sendShown' => file' = file]_vars

\* A recording whose ticks are not cancelled ends by itself, at the limit,
\* even when the finger is never lifted or the touch is lost, unless the
\* activity is paused meanwhile.
RecordingEnds ==
  (recorder = "started" /\ ticks > 0 /\ ~left) ~> (recorder = "null" \/ ticks = 0 \/ left)

-----------------------------------------------------------------------------
(* What a comment says and the code does not do.                           *)

\* "时间太短不保存": releasing before MinProgress stops the recording unsaved.
TooShortNotSaved ==
  [][TouchUp /\ ~isCancel /\ mProgress < MinProgress => recorder' = "null"]_vars
=============================================================================
