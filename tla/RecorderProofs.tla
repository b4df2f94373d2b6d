--------------------------- MODULE RecorderProofs ---------------------------
(***************************************************************************)
(* Proofs about Recorder, for every MaxProgress, MinProgress, ProgressCap. *)
(*                                                                         *)
(* LimitEnforced is not inductive: the listener fires on one draw only.    *)
(* The strengthening follows that draw: a running recorder keeps its ring  *)
(* shown (RunningIsShown), and an activity that was not left is drawn      *)
(* (InFront), so a tick waits for the pending draw; a setCancel(true)      *)
(* always has its draw pending (CancelPending), so it is consumed before   *)
(* the tick that sets the ring to the limit; and once the counter is past  *)
(* the limit the draw that stops the recording is pending with nothing to  *)
(* swallow it (StopPending).                                               *)
(***************************************************************************)
EXTENDS Recorder, TLAPS

CancelPending == barCancel => dirty

RunningIsShown == recorder = "started" => isRecording /\ recordShown

InFront == ~left => life = "resumed" /\ visible

StopPending ==
  recorder = "started" /\ ticks > 0 /\ ~left =>
    /\ mProgress <= MaxProgress + 1
    /\ mProgress = MaxProgress + 1 => barProgress = MaxProgress /\ dirty /\ ~barCancel

IInv == TypeOK /\ OneTickChain /\ CancelPending /\ RunningIsShown /\ InFront /\ StopPending

USE LimitAssumption, MinAssumption, CapAssumption DEF LimitAssumption, MinAssumption, CapAssumption

-----------------------------------------------------------------------------

\* What stopRecordSave leaves: no recorder, unless it had nothing to stop.
LEMMA StopRecordSaveEffect ==
  ASSUME TypeOK, RunningIsShown, StopRecordSave
  PROVE  /\ isRecording' = FALSE /\ recorder' = "null"
         /\ file' \in {"none", "partial", "complete"}
<1>1. CASE isRecording
  BY <1>1 DEF StopRecordSave, StopSucceeds, TypeOK
<1>2. CASE ~isRecording
  BY <1>2 DEF StopRecordSave, TypeOK, RunningIsShown, media
<1>3. QED
  BY <1>1, <1>2

\* The same for stopRecordUnSave.
LEMMA StopRecordUnSaveEffect ==
  ASSUME TypeOK, RunningIsShown, StopRecordUnSave
  PROVE  /\ isRecording' = FALSE /\ recorder' = "null"
         /\ file' \in {"none", "partial", "complete"}
<1>1. CASE isRecording
  BY <1>1 DEF StopRecordUnSave, TypeOK
<1>2. CASE ~isRecording
  BY <1>2 DEF StopRecordUnSave, TypeOK, RunningIsShown, media
<1>3. QED
  BY <1>1, <1>2

\* A press keeps the types, and a recorder runs afterwards only if isRecording.
LEMMA RecordEffect ==
  ASSUME TypeOK, RunningIsShown, Record
  PROVE  /\ isRecording' \in BOOLEAN /\ recorder' \in {"null", "started"}
         /\ file' \in {"none", "partial", "complete"} /\ locked' \in BOOLEAN
         /\ recorder' = "started" => isRecording'
<1>1. CASE RecordStops
  BY <1>1 DEF RecordStops, StopSucceeds, TypeOK
<1>2. CASE ~isRecording /\ PrepareFails
  BY <1>2 DEF PrepareFails, TypeOK, RunningIsShown
<1>3. CASE ~isRecording /\ StartFails
  BY <1>3 DEF StartFails, TypeOK, RunningIsShown
<1>4. CASE ~isRecording /\ StartSucceeds
  BY <1>4 DEF StartSucceeds, TypeOK
<1>5. QED
  BY <1>1, <1>2, <1>3, <1>4 DEF Record

-----------------------------------------------------------------------------

\* The strengthened invariant holds of every behaviour of the recorder.
THEOREM RecorderInvariant == Spec => []IInv
<1>1. Init => IInv
  <2> SUFFICES ASSUME Init PROVE IInv
    OBVIOUS
  <2>1. TypeOK
    <3>1. CountersOK
      BY DEF Init, CountersOK
    <3>2. QED
      BY <3>1 DEF Init, TypeOK
  <2>2. OneTickChain
    BY DEF Init, OneTickChain
  <2>3. CancelPending
    BY DEF Init, CancelPending
  <2>4. RunningIsShown
    BY DEF Init, RunningIsShown
  <2>5. StopPending
    BY DEF Init, StopPending
  <2>6. InFront
    BY DEF Init, InFront
  <2>7. QED
    BY <2>1, <2>2, <2>3, <2>4, <2>5, <2>6 DEF IInv
<1>2. IInv /\ [Next]_vars => IInv'
  <2> SUFFICES ASSUME IInv, [Next]_vars PROVE IInv'
    OBVIOUS
  <2> USE DEF IInv
  <2>1. CASE TouchDown
    <3>1. /\ Record /\ Touchable
          /\ mProgress' = 0 /\ ticks' = 1 /\ pressed' = TRUE /\ left' = (life # "resumed")
          /\ UNCHANGED <<isCancel, recordShown, sendShown, life, visible, result,
                         barCancel, barProgress, dirty, camera, cameraPosition>>
      BY <2>1 DEF TouchDown, StartView, screen, bar
    <3>2. CountersOK'
      BY <3>1 DEF TypeOK, CountersOK
    <3>3. TypeOK'
      BY <3>1, <3>2, RecordEffect DEF TypeOK
    <3>4. RunningIsShown'
      BY <3>1, RecordEffect DEF RunningIsShown, Touchable
    <3>5. OneTickChain' /\ StopPending'
      BY <3>1 DEF OneTickChain, StopPending
    <3>6. CancelPending' /\ InFront'
      BY <3>1 DEF CancelPending, InFront, Touchable
    <3>7. QED
      BY <3>3, <3>4, <3>5, <3>6
  <2>2. CASE TouchMove
    <3>1. UNCHANGED <<mProgress, ticks, recordShown, sendShown, life, visible, left, result, pressed,
                      barCancel, barProgress, dirty, camera, locked, cameraPosition,
                      isRecording, recorder, file>>
      BY <2>2 DEF TouchMove, screen, bar, cam, media
    <3>2. isCancel' \in BOOLEAN
      BY <2>2 DEF TouchMove
    <3>3. QED
      BY <3>1, <3>2 DEF TypeOK, CountersOK, OneTickChain, CancelPending, RunningIsShown, InFront, StopPending
  <2>3. CASE TouchUp
    <3>1. /\ ticks' = 0 /\ mProgress' = 0 /\ barCancel' = TRUE /\ dirty' = TRUE
          /\ recordShown' \in BOOLEAN /\ sendShown' \in BOOLEAN
          /\ pressed' = FALSE
      BY <2>3 DEF TouchUp, StopView, TypeOK
    <3>2. UNCHANGED <<isCancel, life, visible, left, result, barProgress, camera, locked, cameraPosition>>
      BY <2>3 DEF TouchUp, screen, cam
    <3>3. /\ isRecording' \in BOOLEAN /\ recorder' \in {"null", "started"}
          /\ file' \in {"none", "partial", "complete"}
          /\ recorder' = "started" => recorder = "started" /\ isRecording' = isRecording
                                      /\ recordShown' = recordShown
      <4>1. CASE isCancel /\ StopRecordUnSave
        BY <4>1, StopRecordUnSaveEffect
      <4>2. CASE mProgress = 0 /\ StopView(FALSE) /\ UNCHANGED media
        BY <4>2 DEF media, StopView, TypeOK
      <4>3. CASE mProgress \in 1..(MinProgress - 1) /\ StopRecordUnSave
        BY <4>3, StopRecordUnSaveEffect
      <4>4. CASE mProgress >= MinProgress /\ StopRecordSave
        BY <4>4, StopRecordSaveEffect
      <4>5. QED
        BY <2>3, <4>1, <4>2, <4>3, <4>4 DEF TouchUp
    <3>4. CountersOK'
      BY <3>1, <3>2 DEF TypeOK, CountersOK
    <3>5. TypeOK'
      BY <3>1, <3>2, <3>3, <3>4 DEF TypeOK
    <3>6. RunningIsShown' /\ InFront'
      BY <3>2, <3>3 DEF RunningIsShown, InFront
    <3>7. OneTickChain' /\ StopPending'
      BY <3>1 DEF OneTickChain, StopPending
    <3>8. CancelPending'
      BY <3>1 DEF CancelPending
    <3>9. QED
      BY <3>5, <3>6, <3>7, <3>8
  <2>4. CASE TouchLost
    <3>1. pressed' \in BOOLEAN /\ UNCHANGED <<activity, screen, bar, cam, media>>
      BY <2>4 DEF TouchLost
    <3>2. QED
      BY <3>1 DEF TypeOK, CountersOK, activity, screen, bar, cam, media,
                  OneTickChain, CancelPending, RunningIsShown, InFront, StopPending
  <2>5. CASE Tick
    <3>1. /\ barProgress' = mProgress /\ dirty' = TRUE
          /\ UNCHANGED <<isCancel, recordShown, sendShown, life, visible, left, result, pressed,
                         barCancel, camera, locked, cameraPosition,
                         isRecording, recorder, file>>
      BY <2>5 DEF Tick, screen, cam, media
    <3>2. \/ isRecording /\ mProgress' = Bump(mProgress) /\ ticks' = ticks
          \/ ~isRecording /\ ticks' = ticks - 1 /\ mProgress' = mProgress
      BY <2>5 DEF Tick
    <3>3. ticks = 1 /\ mProgress' \in 0..ProgressCap /\ ticks' \in 0..1
      BY <2>5, <3>2 DEF Tick, TypeOK, CountersOK, Bump, OneTickChain
    <3>4. CountersOK'
      BY <3>1, <3>3 DEF TypeOK, CountersOK
    <3>5. TypeOK'
      BY <3>1, <3>4 DEF TypeOK
    <3>6. OneTickChain'
      BY <3>3 DEF OneTickChain
    <3>7. RunningIsShown' /\ InFront' /\ CancelPending'
      BY <3>1 DEF RunningIsShown, InFront, CancelPending
    <3>8. StopPending'
      <4>1. SUFFICES ASSUME recorder' = "started", ~left'
                     PROVE  /\ mProgress' <= MaxProgress + 1
                            /\ mProgress' = MaxProgress + 1 =>
                                 barProgress' = MaxProgress /\ dirty' /\ ~barCancel'
        BY DEF StopPending
      <4>2. isRecording /\ RingDrawn
        BY <4>1, <3>1 DEF RingDrawn, RunningIsShown, InFront
      <4>3. ~dirty /\ ~barCancel
        BY <4>2, <2>5 DEF Tick, CancelPending
      <4>4. mProgress \in 0..MaxProgress
        BY <3>1, <3>3, <4>1, <4>3 DEF TypeOK, CountersOK, StopPending
      <4>5. mProgress' = mProgress + 1
        BY <3>2, <4>2, <4>4 DEF Bump
      <4>6. mProgress' <= MaxProgress + 1 /\ (mProgress' = MaxProgress + 1 => barProgress' = MaxProgress)
        BY <3>1, <4>4, <4>5
      <4>7. QED
        BY <3>1, <4>3, <4>6
    <3>9. QED
      BY <3>5, <3>6, <3>7, <3>8
  <2>6. CASE Draw
    <3>1. UNCHANGED <<isCancel, mProgress, ticks, recordShown, sendShown, life, visible, left, result,
                      pressed, barProgress, camera, locked, cameraPosition>>
      BY <2>6 DEF Draw, activity, screen, cam
    <3>2. CountersOK' /\ OneTickChain' /\ InFront'
      BY <3>1 DEF TypeOK, CountersOK, OneTickChain, InFront
    <3>3. CASE ~(~barCancel /\ barProgress = MaxProgress)
      <4>1. barCancel' = FALSE /\ dirty' = FALSE /\ UNCHANGED <<isRecording, recorder, file>>
        BY <2>6, <3>3 DEF Draw, media, TypeOK
      <4>2. TypeOK'
        <5>1. barCancel' \in BOOLEAN /\ dirty' \in BOOLEAN
          BY <4>1
        <5>2. QED
          BY <3>1, <3>2, <4>1, <5>1 DEF TypeOK
      <4>3. RunningIsShown' /\ CancelPending'
        BY <3>1, <4>1 DEF RunningIsShown, CancelPending
      <4>4. recorder = "started" /\ ticks > 0 /\ ~left => mProgress # MaxProgress + 1
        BY <3>3 DEF StopPending
      <4>5. StopPending'
        BY <3>1, <4>1, <4>4 DEF StopPending
      <4>6. QED
        BY <3>2, <4>2, <4>3, <4>5
    <3>4. CASE ~barCancel /\ barProgress = MaxProgress
      <4>1. StopRecordSave /\ barCancel' = TRUE /\ dirty' = TRUE
        BY <2>6, <3>4 DEF Draw
      <4>2. TypeOK'
        BY <3>1, <3>2, <4>1, StopRecordSaveEffect DEF TypeOK
      <4>3. RunningIsShown' /\ CancelPending' /\ StopPending'
        BY <4>1, StopRecordSaveEffect DEF RunningIsShown, CancelPending, StopPending
      <4>4. QED
        BY <3>2, <4>2, <4>3
    <3>5. QED
      BY <3>3, <3>4
  <2>7. CASE BackClick
    <3>1. UNCHANGED <<mProgress, ticks, cameraPosition, barCancel, barProgress, dirty, isCancel,
                      life, visible, left, result, pressed, camera, locked, isRecording, recorder>>
      BY <2>7 DEF BackClick, screen, bar, cam
    <3>2. recordShown' = TRUE /\ sendShown' = FALSE /\ file' = "none"
      BY <2>7 DEF BackClick
    <3>3. CountersOK' /\ OneTickChain' /\ CancelPending' /\ InFront'
      BY <3>1 DEF TypeOK, CountersOK, OneTickChain, CancelPending, InFront
    <3>4. TypeOK'
      <4>1. recordShown' \in BOOLEAN /\ sendShown' \in BOOLEAN /\ file' \in {"none", "partial", "complete"}
        BY <3>2
      <4>2. QED
        BY <3>1, <3>3, <4>1 DEF TypeOK
    <3>5. RunningIsShown' /\ StopPending'
      BY <3>1, <3>2 DEF RunningIsShown, StopPending
    <3>6. QED
      BY <3>3, <3>4, <3>5
  <2>8. CASE SelectClick \/ CloseClick
    <3>1. UNCHANGED <<mProgress, ticks, cameraPosition, barCancel, barProgress, dirty, isCancel,
                      visible, pressed, camera, locked, isRecording, recorder, file>>
      BY <2>8 DEF SelectClick, CloseClick, Finish, activity, bar, cam, media
    <3>2. life' = "finished" /\ left' = TRUE
      BY <2>8 DEF SelectClick, CloseClick, Finish
    <3>3. /\ recordShown' \in BOOLEAN /\ sendShown' \in BOOLEAN /\ result' \in BOOLEAN
          /\ recordShown => recordShown'
      BY <2>8 DEF SelectClick, CloseClick, activity, TypeOK
    <3>4. CountersOK' /\ OneTickChain' /\ CancelPending' /\ InFront' /\ StopPending'
      BY <3>1, <3>2 DEF TypeOK, CountersOK, OneTickChain, CancelPending, InFront, StopPending
    <3>5. TypeOK'
      BY <3>1, <3>2, <3>3, <3>4 DEF TypeOK
    <3>6. RunningIsShown'
      BY <3>1, <3>3 DEF RunningIsShown
    <3>7. QED
      BY <3>4, <3>5, <3>6
  <2>9. CASE OnPause
    <3>1. UNCHANGED <<isCancel, mProgress, ticks, recordShown, sendShown, visible, result, pressed,
                      barCancel, barProgress, dirty, camera, locked, cameraPosition,
                      isRecording, recorder, file>>
      BY <2>9 DEF OnPause, activity, bar, cam, media
    <3>2. life' = "paused" /\ left' = TRUE
      BY <2>9 DEF OnPause
    <3>3. CountersOK' /\ OneTickChain' /\ CancelPending' /\ RunningIsShown' /\ InFront' /\ StopPending'
      BY <3>1, <3>2 DEF TypeOK, CountersOK, OneTickChain, CancelPending, RunningIsShown, InFront, StopPending
    <3>4. TypeOK'
      BY <3>1, <3>2, <3>3 DEF TypeOK
    <3>5. QED
      BY <3>3, <3>4
  <2>10. CASE SwitchCamera
    BY <2>10 DEF SwitchCamera, TypeOK, activity, screen, bar, media,
       CountersOK, OneTickChain, CancelPending, RunningIsShown, InFront, StopPending
  <2>11. CASE OnResume
    <3>1. UNCHANGED <<isCancel, mProgress, ticks, recordShown, sendShown, visible, left, result, pressed,
                      barProgress, camera, locked, cameraPosition, isRecording, recorder, file>>
      BY <2>11 DEF OnResume, activity, cam, media
    <3>2. life' = "resumed" /\ barCancel' = TRUE /\ dirty' = TRUE
      BY <2>11 DEF OnResume
    <3>3. left
      BY <2>11 DEF OnResume, InFront
    <3>4. CountersOK' /\ OneTickChain' /\ CancelPending' /\ RunningIsShown' /\ InFront' /\ StopPending'
      BY <3>1, <3>2, <3>3 DEF TypeOK, CountersOK, OneTickChain, CancelPending, RunningIsShown, InFront,
         StopPending
    <3>5. TypeOK'
      BY <3>1, <3>2, <3>4 DEF TypeOK
    <3>6. QED
      BY <3>4, <3>5
  <2>12. CASE Hide \/ Show
    <3>1. UNCHANGED <<isCancel, mProgress, ticks, recordShown, sendShown, life, left, result,
                      barCancel, barProgress, dirty, camera, locked, cameraPosition,
                      isRecording, recorder, file>>
      BY <2>12 DEF Hide, Show, activity, bar, cam, media
    <3>2. visible' \in BOOLEAN /\ pressed' \in BOOLEAN /\ (~left => visible')
      BY <2>12 DEF Hide, Show, InFront, TypeOK
    <3>3. CountersOK' /\ OneTickChain' /\ CancelPending' /\ RunningIsShown' /\ InFront' /\ StopPending'
      BY <3>1, <3>2 DEF TypeOK, CountersOK, OneTickChain, CancelPending, RunningIsShown, InFront, StopPending
    <3>4. TypeOK'
      BY <3>1, <3>2, <3>3 DEF TypeOK
    <3>5. QED
      BY <3>3, <3>4
  <2>13. CASE SurfaceDestroyed
    <3>1. UNCHANGED <<isCancel, mProgress, ticks, recordShown, sendShown, life, visible, left, result, pressed,
                      barCancel, barProgress, dirty, locked, cameraPosition, isRecording, file>>
      BY <2>13 DEF SurfaceDestroyed, activity, screen, bar
    <3>2. camera' = "none" /\ recorder' = "null"
      BY <2>13 DEF SurfaceDestroyed
    <3>3. CountersOK' /\ OneTickChain' /\ CancelPending' /\ RunningIsShown' /\ InFront' /\ StopPending'
      BY <3>1, <3>2 DEF TypeOK, CountersOK, OneTickChain, CancelPending, RunningIsShown, InFront, StopPending
    <3>4. TypeOK'
      BY <3>1, <3>2, <3>3 DEF TypeOK
    <3>5. QED
      BY <3>3, <3>4
  <2>14. CASE SurfaceCreated
    BY <2>14 DEF SurfaceCreated, TypeOK, activity, screen, bar, media,
       CountersOK, OneTickChain, CancelPending, RunningIsShown, InFront, StopPending
  <2>15. CASE UNCHANGED vars
    BY <2>15 DEF vars, TypeOK, activity, screen, bar, cam, media,
       CountersOK, OneTickChain, CancelPending, RunningIsShown, InFront, StopPending
  <2>16. QED
    BY <2>1, <2>2, <2>3, <2>4, <2>5, <2>6, <2>7, <2>8, <2>9, <2>10, <2>11, <2>12,
       <2>13, <2>14, <2>15 DEF Next
<1>3. QED
  BY <1>1, <1>2, PTL DEF Spec

\* Type correctness, for every value of the limits.
THEOREM RecorderTypes == Spec => []TypeOK
<1>1. IInv => TypeOK
  BY DEF IInv
<1>2. QED
  BY <1>1, RecorderInvariant, PTL

\* No callback order leaks a running MediaRecorder: isRecording always knows it.
THEOREM RecorderNotLeaked == Spec => []NoLeakedRecorder
<1>1. IInv => NoLeakedRecorder
  BY DEF IInv, RunningIsShown, NoLeakedRecorder
<1>2. QED
  BY <1>1, RecorderInvariant, PTL

\* At most one tick message is ever queued.
THEOREM RecorderOneTickChain == Spec => []OneTickChain
<1>1. IInv => OneTickChain
  BY DEF IInv
<1>2. QED
  BY <1>1, RecorderInvariant, PTL

\* No recording whose ticks run goes past the limit, whatever the limit is, as
\* long as the activity has been resumed since the press: then the window is
\* drawn, and no setCancel(true) of onResume comes between a tick and its draw.
THEOREM RecorderLimit == Spec => []LimitEnforced
<1>1. IInv => LimitEnforced
  BY DEF IInv, StopPending, LimitEnforced
<1>2. QED
  BY <1>1, RecorderInvariant, PTL

-----------------------------------------------------------------------------
(* The offered file                                                        *)

\* The send panel covers the record button.
OnePanel == sendShown => ~recordShown

LEMMA PanelStep == OnePanel /\ [Next]_vars => OnePanel'
<1> SUFFICES ASSUME OnePanel, [Next]_vars PROVE OnePanel'
  OBVIOUS
<1>1. CASE TouchUp
  <2>1. CASE StopView(TRUE)
    BY <2>1 DEF StopView, OnePanel
  <2>2. CASE StopView(FALSE)
    BY <2>2 DEF StopView, OnePanel
  <2> QED BY <1>1, <2>1, <2>2 DEF TouchUp
<1>2. CASE BackClick \/ SelectClick
  BY <1>2 DEF BackClick, SelectClick, OnePanel
<1>3. CASE UNCHANGED <<recordShown, sendShown>>
  BY <1>3 DEF OnePanel
<1>4. CASE \/ TouchDown \/ TouchMove \/ TouchLost \/ Tick \/ Draw \/ CloseClick \/ SwitchCamera
           \/ OnPause \/ OnResume \/ Hide \/ Show \/ SurfaceDestroyed \/ SurfaceCreated \/ UNCHANGED vars
  BY <1>3, <1>4 DEF TouchDown, TouchMove, TouchLost, Tick, Draw, CloseClick, SwitchCamera,
     OnPause, OnResume, Hide, Show, SurfaceDestroyed, SurfaceCreated, vars, activity
<1> QED BY <1>1, <1>2, <1>4 DEF Next

LEMMA OfferStep == OnePanel /\ [Next]_vars => (sendShown /\ sendShown' => file' = file)
<1> SUFFICES ASSUME OnePanel, [Next]_vars, sendShown, sendShown' PROVE file' = file
  OBVIOUS
<1>1. ~recordShown /\ ~Touchable /\ ~RingDrawn
  BY DEF OnePanel, Touchable, RingDrawn
<1>2. ~TouchDown /\ ~TouchUp /\ ~Draw /\ ~BackClick /\ ~SelectClick
  BY <1>1 DEF TouchDown, TouchUp, Draw, BackClick, SelectClick
<1> QED BY <1>2 DEF Next, TouchMove, TouchLost, Tick, CloseClick, SwitchCamera,
  OnPause, OnResume, Hide, Show, SurfaceDestroyed, SurfaceCreated, vars, media

\* While the user is asked back/select, nothing rewrites or deletes the take:
\* the panel covers the button, so no press reaches record(), and the ring,
\* whose draw would stop the recording again, is not drawn.
THEOREM RecorderOfferedFile == Spec => OfferedFileUntouched
<1>1. Init => OnePanel
  BY DEF Init, OnePanel
<1>2. QED
  BY <1>1, PanelStep, OfferStep, PTL DEF Spec, OfferedFileUntouched
=============================================================================
