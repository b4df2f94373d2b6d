--------------------------- MODULE PictureEditor ---------------------------
(***************************************************************************)
(* CreateByPictureActivity.kt: the chosen pictures play as a preview, one  *)
(* posted runnable and one image load after the other, while builderGif    *)
(* writes them to a file on a thread of its own.                           *)
(*                                                                         *)
(* The main looper runs one callback at a time, each an action. Glide is   *)
(* external: a load of GlideApp.with(activity) comes back later, or fails, *)
(* only while the activity is started, and is cleared when the activity is *)
(* destroyed; with(activity) throws from then on. One that failed begins   *)
(* again when a stopped activity starts. Off the main thread               *)
(* with(activity) means the application. Delays are left out: a posted     *)
(* runnable runs sooner or later. The file is AnimatedGifEncoder, of which *)
(* only what each call returns counts here, and nobody looks at that.      *)
(***************************************************************************)
EXTENDS Integers, FiniteSetsExt

CONSTANTS
  Counts,      (* lengths the list of pictures may have *)
  Builds,      (* clicks on vCreate *)
  MaxChains    (* bound: loads in flight or failed, and runnables posted *)

ASSUME CountsAssumption == Counts \subseteq Nat /\ IsFiniteSet(Counts) /\ Counts # {}
ASSUME ChainsAssumption == MaxChains \in Nat \ {0}

None == -1     \* no picture
Gif == -2      \* the finished GIF

Pictures == 0..(Max(Counts) - 1)

VARIABLES
  count,            (* mPicList.size *)
  life,             (* of the activity *)
  currentFrame, currentDrawable,
  loads,            (* loads of each picture in flight *)
  broken,           (* loads of each picture that failed, which Glide keeps *)
  posted,           (* gifRunnable in the queue of handle, how often *)
  shown,            (* in ivGifView *)
  gifLoad,          (* of the finished GIF into it: "none", "loading", "failed" *)
  raced,            (* history: a pause or a drag ended with a load in flight, *)
                    (* or a load that failed began again *)
  crashed,          (* with(activity) threw *)
  \* builderGif, for each click
  stage,            (* "none", "io", "complete", "told", "failed" *)
  opened,           (* gifEncoder.start opened the file *)
  next,             (* the picture it is at *)
  written, trailer, (* what is in the file: frames and the trailer *)
  lost              (* history: a write threw *)

previewVars == <<currentFrame, currentDrawable, loads, broken, posted, raced>>
buildVars == <<stage, opened, next, written, trailer, lost>>
vars == <<count, life, shown, gifLoad, crashed, previewVars, buildVars>>

TypeOK ==
  /\ count \in Counts
  /\ life \in {"created", "resumed", "paused", "stopped", "destroyed"}
  /\ currentFrame \in 0..count /\ (count > 0 => currentFrame < count)
  /\ currentDrawable \in Pictures \cup {None}
  /\ loads \in [Pictures -> Nat] /\ broken \in [Pictures -> Nat] /\ posted \in Nat
  /\ shown \in Pictures \cup {None, Gif}
  /\ gifLoad \in {"none", "loading", "failed"} /\ {raced, crashed} \subseteq BOOLEAN
  /\ stage \in [Builds -> {"none", "io", "complete", "told", "failed"}]
  /\ opened \in [Builds -> BOOLEAN] /\ trailer \in [Builds -> BOOLEAN] /\ lost \in [Builds -> BOOLEAN]
  /\ next \in [Builds -> 0..count] /\ written \in [Builds -> Nat] /\ \A b \in Builds : written[b] <= next[b]

Init ==
  /\ count \in Counts /\ life = "created"
  /\ currentFrame = 0 /\ currentDrawable = None
  /\ loads = [k \in Pictures |-> 0] /\ broken = loads /\ posted = 0
  /\ shown = None /\ gifLoad = "none"
  /\ raced = FALSE /\ crashed = FALSE
  /\ stage = [b \in Builds |-> "none"] /\ opened = [b \in Builds |-> FALSE]
  /\ next = [b \in Builds |-> 0] /\ written = [b \in Builds |-> 0]
  /\ trailer = [b \in Builds |-> FALSE] /\ lost = [b \in Builds |-> FALSE]

-----------------------------------------------------------------------------
(* The preview                                                             *)

Loading == \E k \in Pictures : loads[k] > 0
Broken == \E k \in Pictures : broken[k] > 0
Chains == posted + SumFunction(loads) + SumFunction(broken)

\* The activity is started: Glide's requests run.
Started == life \in {"resumed", "paused"}

\* loadFrame: whatever its argument says, it loads the current frame.
loadFrame(frame) ==
  IF life = "destroyed"
  THEN crashed' = TRUE /\ UNCHANGED loads
  ELSE loads' = [loads EXCEPT ![frame] = @ + 1] /\ UNCHANGED crashed

\* onResume, after onCreate, a pause or a stop; after a stop, onStart comes
\* first, where the loads that failed begin again. An empty list has ended the
\* activity.
onResume ==
  /\ life \in {"created", "paused", "stopped"} /\ count > 0
  /\ Chains < MaxChains
  /\ life' = "resumed"
  /\ LET begun == [k \in Pictures |-> IF life = "stopped" THEN broken[k] ELSE 0]
     IN  /\ loads' = [k \in Pictures |-> loads[k] + begun[k] + (IF k = currentFrame THEN 1 ELSE 0)]
         /\ broken' = [k \in Pictures |-> broken[k] - begun[k]]
  /\ raced' = (raced \/ (life = "stopped" /\ Broken))
  /\ gifLoad' = IF life = "stopped" /\ gifLoad = "failed" THEN "loading" ELSE gifLoad
  /\ UNCHANGED <<count, shown, crashed, currentFrame, currentDrawable, posted, buildVars>>

\* Altered onPause: the posted frame stays.
onPauseKeeps ==
  /\ life = "resumed" /\ life' = "paused"
  /\ raced' = (raced \/ Loading)
  /\ UNCHANGED <<count, shown, gifLoad, crashed, currentFrame, currentDrawable, loads,
                 broken, posted, buildVars>>

onPause ==
  /\ life = "resumed" /\ life' = "paused"
  /\ posted' = 0
  /\ raced' = (raced \/ Loading)
  /\ UNCHANGED <<count, shown, gifLoad, crashed, currentFrame, currentDrawable, loads,
                 broken, buildVars>>

\* onStop is not overridden; Glide holds its requests until onStart.
onStop ==
  /\ life = "paused" /\ life' = "stopped"
  /\ UNCHANGED <<count, shown, gifLoad, crashed, previewVars, buildVars>>

\* onDestroy; Glide has cleared its requests before.
onDestroy ==
  /\ life \in {"created", "stopped"} /\ (life = "created" => count = 0)
  /\ life' = "destroyed"
  /\ loads' = [k \in Pictures |-> 0] /\ broken' = loads' /\ gifLoad' = "none"
  /\ posted' = 0
  /\ UNCHANGED <<count, shown, crashed, currentFrame, currentDrawable, raced, buildVars>>

\* onResourceReady: a runnable is posted, at once or for a later time.
LoadReady(k) ==
  /\ Started /\ loads[k] > 0
  /\ loads' = [loads EXCEPT ![k] = @ - 1]
  /\ currentDrawable' = k
  /\ posted' = posted + 1
  /\ UNCHANGED <<count, life, shown, gifLoad, crashed, currentFrame, broken, raced, buildVars>>

\* There is no onLoadFailed; Glide keeps the load.
LoadFails(k) ==
  /\ Started /\ loads[k] > 0
  /\ loads' = [loads EXCEPT ![k] = @ - 1]
  /\ broken' = [broken EXCEPT ![k] = @ + 1]
  /\ UNCHANGED <<count, life, shown, gifLoad, crashed, currentFrame, currentDrawable, posted,
                 raced, buildVars>>

\* Altered Following: the wrap is tested before the step.
FollowingLate(frame) == IF frame = count THEN 0 ELSE frame + 1

Following(frame) == IF frame + 1 = count THEN 0 ELSE frame + 1

\* gifRunnable: the frame is shown, the next one loaded.
gifRunnable ==
  /\ posted > 0
  /\ posted' = posted - 1
  /\ shown' = currentDrawable
  /\ currentFrame' = Following(currentFrame)
  /\ loadFrame(currentFrame')
  /\ UNCHANGED <<count, life, gifLoad, currentDrawable, broken, raced, buildVars>>

\* onProgressChanged by the user, of a drag or a key.
onProgressChanged ==
  /\ life = "resumed"
  /\ currentFrame' = 0
  /\ UNCHANGED <<count, life, shown, gifLoad, crashed, currentDrawable, loads, broken,
                 posted, raced, buildVars>>

\* Altered onStopTrackingTouch: the preview is not started again.
onStopTrackingTouchOnly ==
  /\ life = "resumed"
  /\ Chains < MaxChains
  /\ posted' = 0
  /\ raced' = (raced \/ Loading)
  /\ UNCHANGED <<count, life, shown, gifLoad, crashed, currentFrame, currentDrawable, loads,
                 broken, buildVars>>

\* onStopTrackingTouch: the preview starts again, with showAsGif.
onStopTrackingTouch ==
  /\ life = "resumed"
  /\ Chains < MaxChains
  /\ posted' = 0
  /\ raced' = (raced \/ Loading)
  /\ loadFrame(currentFrame)
  /\ UNCHANGED <<count, life, shown, gifLoad, currentFrame, currentDrawable, broken, buildVars>>

-----------------------------------------------------------------------------
(* builderGif                                                              *)

\* A click on vCreate: start may not open the file.
builderGif(b) ==
  /\ life = "resumed" /\ stage[b] = "none"
  /\ stage' = [stage EXCEPT ![b] = "io"]
  /\ \E ok \in BOOLEAN : /\ opened' = [opened EXCEPT ![b] = ok]
                       /\ lost' = [lost EXCEPT ![b] = ~ok]
  /\ UNCHANGED <<count, life, shown, gifLoad, crashed, previewVars, next, written, trailer>>

\* map, on an io thread: addFrame writes the picture, or a write throws.
MapPicture(b) ==
  /\ stage[b] = "io" /\ next[b] < count
  /\ next' = [next EXCEPT ![b] = @ + 1]
  /\ \/ written' = [written EXCEPT ![b] = @ + 1] /\ opened[b] /\ UNCHANGED lost
     \/ lost' = [lost EXCEPT ![b] = TRUE] /\ UNCHANGED written
  /\ UNCHANGED <<count, life, shown, gifLoad, crashed, previewVars, stage, opened, trailer>>

\* A picture cannot be loaded: onError prints, and the file stays as it is.
MapFails(b) ==
  /\ stage[b] = "io" /\ next[b] < count
  /\ stage' = [stage EXCEPT ![b] = "failed"]
  /\ UNCHANGED <<count, life, shown, gifLoad, crashed, previewVars, opened, next, written,
                 trailer, lost>>

\* All pictures are mapped: observeOn posts onComplete.
StreamEnds(b) ==
  /\ stage[b] = "io" /\ next[b] = count
  /\ stage' = [stage EXCEPT ![b] = "complete"]
  /\ UNCHANGED <<count, life, shown, gifLoad, crashed, previewVars, opened, next, written,
                 trailer, lost>>

\* Glide.with(this).load(gifPath).into(ivGifView)
ShowGif ==
  IF life = "destroyed"
  THEN crashed' = TRUE /\ UNCHANGED gifLoad
  ELSE gifLoad' = "loading" /\ UNCHANGED crashed

\* Altered onComplete: the GIF is loaded into the view before it is finished.
onCompleteShowFirst(b) ==
  /\ stage[b] = "complete"
  /\ stage' = [stage EXCEPT ![b] = "told"]
  /\ ShowGif
  /\ IF life = "destroyed"
     THEN UNCHANGED <<trailer, lost>>
     ELSE \/ trailer' = [trailer EXCEPT ![b] = TRUE] /\ opened[b] /\ UNCHANGED lost
          \/ lost' = [lost EXCEPT ![b] = TRUE] /\ UNCHANGED trailer
  /\ UNCHANGED <<count, life, shown, previewVars, opened, next, written>>

\* onComplete: finish writes the trailer or throws inside; toast; the GIF is
\* loaded into the view.
onComplete(b) ==
  /\ stage[b] = "complete"
  /\ stage' = [stage EXCEPT ![b] = "told"]
  /\ \/ trailer' = [trailer EXCEPT ![b] = TRUE] /\ opened[b] /\ UNCHANGED lost
     \/ lost' = [lost EXCEPT ![b] = TRUE] /\ UNCHANGED trailer
  /\ ShowGif
  /\ UNCHANGED <<count, life, shown, previewVars, opened, next, written>>

\* The GIF replaces what is shown, until the next frame of the preview, or
\* cannot be loaded.
GifReady ==
  /\ gifLoad = "loading" /\ Started
  /\ \/ shown' = Gif /\ gifLoad' = "none"
     \/ gifLoad' = "failed" /\ UNCHANGED shown
  /\ UNCHANGED <<count, life, crashed, previewVars, buildVars>>

-----------------------------------------------------------------------------
Preview == gifRunnable \/ \E k \in Pictures : LoadReady(k) \/ LoadFails(k)
User == onProgressChanged \/ onStopTrackingTouch \/ \E b \in Builds : builderGif(b)
Lifecycle == onResume \/ onPause \/ onStop \/ onDestroy
Build(b) == MapPicture(b) \/ MapFails(b) \/ StreamEnds(b) \/ onComplete(b)

Next ==
  /\ ~crashed
  /\ Preview \/ User \/ Lifecycle \/ GifReady \/ \E b \in Builds : Build(b)

\* The looper runs what is posted, and a load that may run ends.
Spec ==
  /\ Init /\ [][Next]_vars
  /\ WF_vars(~crashed /\ gifRunnable)
  /\ \A k \in Pictures : WF_vars(~crashed /\ (LoadReady(k) \/ LoadFails(k)))

-----------------------------------------------------------------------------
(* Properties                                                              *)

\* The preview is one chain of loads and frames. removeCallbacks ends it, so
\* that the next one replaces it: a second chain runs beside the first only
\* after a pause or a drag that ended while an image was being loaded, or when
\* a load that had failed began again with the activity.
OneChain ==
  /\ posted <= 1
  /\ \A k \in Pictures : loads[k] > 0 =>
       posted = 0 /\ loads[k] = 1 /\ \A m \in Pictures \ {k} : loads[m] = 0
OneChainUnlessRaced == ~raced => OneChain

\* The preview never uses Glide for a destroyed activity, although runnables
\* are posted after onPause. Only onComplete of a build does, which ends the
\* process, and by then the file has all its frames and its trailer.
CrashLosesNothing ==
  crashed => \E b \in Builds :
    stage[b] = "told" /\ (lost[b] \/ (trailer[b] /\ written[b] = count))

\* A preview of one chain, whose pictures load, shows each of them again and
\* again, as soon as nobody touches the seek bar any more.
EveryPictureShown ==
  \A k \in Pictures :
    (/\ <>[](life = "resumed" /\ k < count /\ ~raced /\ ~Broken /\ ~crashed)
     /\ <>[][~onProgressChanged /\ ~onStopTrackingTouch]_vars)
    => []<>(shown = k)
=============================================================================
