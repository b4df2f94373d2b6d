------------------------ MODULE PictureEditorProofs ------------------------
(* Proofs about PictureEditor, for any lists of pictures, any number of       *)
(* builds and of chains.                                                      *)
EXTENDS PictureEditor, TLAPS

USE CountsAssumption, ChainsAssumption DEF CountsAssumption, ChainsAssumption

(* No load in flight and nothing posted.                                      *)
Quiet == posted = 0 /\ \A k \in Pictures : loads[k] = 0

(* A destroyed activity has no chain, nor one that has not been resumed; a    *)
(* pause leaves one only if a load was in flight, and that is remembered.     *)
ChainsOfLife ==
  /\ count = 0 => life \in {"created", "destroyed"}
  /\ life \in {"created", "destroyed"} => Quiet
  /\ life \in {"paused", "stopped"} /\ ~raced => Quiet

(* Until a write throws, the file has every picture the build is past.        *)
FrameOfEach ==
  \A b \in Builds :
    /\ written[b] = next[b] \/ (lost[b] /\ stage[b] # "none")
    /\ stage[b] \in {"complete", "told"} => next[b] = count

IInv == TypeOK /\ OneChainUnlessRaced /\ ChainsOfLife /\ FrameOfEach /\ CrashLosesNothing

-----------------------------------------------------------------------------
(* TypeOK in parts, by what the actions leave alone.                          *)
LifeType ==
  /\ count \in Counts /\ life \in {"created", "resumed", "paused", "stopped", "destroyed"}
  /\ gifLoad \in {"none", "loading", "failed"} /\ {raced, crashed} \subseteq BOOLEAN
ShownType == shown \in Pictures \cup {None, Gif} /\ currentDrawable \in Pictures \cup {None}
FrameType == currentFrame \in 0..count /\ (count > 0 => currentFrame < count)
ChainType == loads \in [Pictures -> Nat] /\ broken \in [Pictures -> Nat] /\ posted \in Nat
BuildType ==
  /\ stage \in [Builds -> {"none", "io", "complete", "told", "failed"}]
  /\ opened \in [Builds -> BOOLEAN] /\ trailer \in [Builds -> BOOLEAN] /\ lost \in [Builds -> BOOLEAN]
  /\ next \in [Builds -> 0..count] /\ written \in [Builds -> Nat]
  /\ \A b \in Builds : written[b] <= next[b]

LEMMA TypeParts == TypeOK <=> LifeType /\ ShownType /\ FrameType /\ ChainType /\ BuildType
  BY DEF TypeOK, LifeType, ShownType, FrameType, ChainType, BuildType

LEMMA NextTypeParts == LifeType' /\ ShownType' /\ FrameType' /\ ChainType' /\ BuildType' => TypeOK'
  BY DEF TypeOK, LifeType, ShownType, FrameType, ChainType, BuildType

(* Helpers.                                                                   *)
LEMMA Bump ==
  ASSUME NEW f \in [Pictures -> Nat], NEW k
  PROVE  /\ [f EXCEPT ![k] = @ + 1] \in [Pictures -> Nat]
         /\ \A m \in Pictures : [f EXCEPT ![k] = @ + 1][m] = IF m = k THEN f[m] + 1 ELSE f[m]
<1>1. CASE k \in Pictures
  BY <1>1
<1>2. CASE k \notin Pictures
  <2>1. [f EXCEPT ![k] = @ + 1] = f
    BY <1>2
  <2> QED
    BY <1>2, <2>1
<1> QED
  BY <1>1, <1>2

LEMMA NotLoading == ChainType /\ ~Loading => \A m \in Pictures : loads[m] = 0
  BY DEF ChainType, Loading

LEMMA InitIInv == Init => IInv
<1> SUFFICES ASSUME Init PROVE IInv
  OBVIOUS
<1>1. count \in Nat
  BY DEF Init
<1>2. TypeOK
  <2>1. LifeType
    BY DEF Init, LifeType
  <2>2. ShownType
    BY DEF Init, ShownType
  <2>3. FrameType
    BY <1>1 DEF Init, FrameType
  <2>4. ChainType
    BY DEF Init, ChainType
  <2>5. BuildType
    BY <1>1 DEF Init, BuildType
  <2> QED
    BY <2>1, <2>2, <2>3, <2>4, <2>5, TypeParts
<1>3. OneChainUnlessRaced /\ ChainsOfLife
  BY DEF Init, OneChainUnlessRaced, OneChain, ChainsOfLife, Quiet
<1>4. FrameOfEach /\ CrashLosesNothing
  BY DEF Init, FrameOfEach, CrashLosesNothing
<1> QED
  BY <1>2, <1>3, <1>4 DEF IInv

-----------------------------------------------------------------------------
(* The preview.                                                               *)

(* A quiet preview has one chain after a load was started.                    *)
LEMMA FirstLoad ==
  ASSUME Quiet, NEW k, \A m \in Pictures : loads'[m] = loads[m] + (IF m = k THEN 1 ELSE 0), posted' = 0
  PROVE  OneChain'
<1>1. \A m \in Pictures : loads'[m] = IF m = k THEN 1 ELSE 0
  BY DEF Quiet
<1> QED
  BY <1>1 DEF OneChain

(* What no step of the preview or of the life cycle touches.                  *)
LEMMA BuildsKept ==
  ASSUME BuildType, FrameOfEach, ~crashed, UNCHANGED <<count, crashed, buildVars>>
  PROVE  BuildType' /\ FrameOfEach' /\ CrashLosesNothing'
BY DEF BuildType, FrameOfEach, CrashLosesNothing, buildVars

LEMMA ResumeKeeps == IInv /\ ~crashed /\ onResume => IInv'
<1> SUFFICES ASSUME IInv, ~crashed, onResume PROVE IInv'
  OBVIOUS
<1>1. LifeType /\ ShownType /\ FrameType /\ ChainType /\ BuildType
  BY TypeParts DEF IInv
<1>2. BuildType' /\ FrameOfEach' /\ CrashLosesNothing'
  BY <1>1, BuildsKept DEF onResume, IInv
<1>3. LifeType' /\ ShownType' /\ FrameType'
  <2>1. raced' \in BOOLEAN /\ gifLoad' \in {"none", "loading", "failed"}
    BY <1>1 DEF onResume, LifeType, Broken
  <2> QED
    BY <1>1, <2>1 DEF onResume, LifeType, ShownType, FrameType
<1> DEFINE begun == [k \in Pictures |-> IF life = "stopped" THEN broken[k] ELSE 0]
<1>4. /\ loads' = [k \in Pictures |-> loads[k] + begun[k] + (IF k = currentFrame THEN 1 ELSE 0)]
      /\ broken' = [k \in Pictures |-> broken[k] - begun[k]]
      /\ raced' = (raced \/ (life = "stopped" /\ Broken)) /\ posted' = posted
  BY DEF onResume
<1>5. \A k \in Pictures : begun[k] \in 0 .. broken[k] /\ broken[k] \in Nat /\ loads[k] \in Nat
  BY <1>1 DEF ChainType
<1>6. ~raced' => ~raced /\ \A k \in Pictures : begun[k] = 0
  <2>1. ~raced' => ~raced /\ (life = "stopped" => ~Broken)
    BY <1>4
  <2>2. \A k \in Pictures : begun[k] = IF life = "stopped" THEN broken[k] ELSE 0
    OBVIOUS
  <2>3. ~Broken => \A k \in Pictures : broken[k] = 0
    BY <1>5 DEF Broken
  <2> QED
    BY <2>1, <2>2, <2>3
<1> HIDE DEF begun
<1>7. ChainType'
  <2>1. \A k \in Pictures : broken[k] - begun[k] \in Nat
    BY <1>5
  <2>2. \A k \in Pictures : loads[k] + begun[k] + (IF k = currentFrame THEN 1 ELSE 0) \in Nat
    BY <1>5
  <2>3. broken' \in [Pictures -> Nat] /\ loads' \in [Pictures -> Nat]
    BY <1>4, <2>1, <2>2
  <2> QED
    BY <1>1, <1>4, <2>3 DEF ChainType
<1>8. OneChainUnlessRaced'
  <2> SUFFICES ASSUME ~raced' PROVE OneChain'
    BY DEF OneChainUnlessRaced
  <2>1. Quiet
    BY <1>6 DEF onResume, IInv, ChainsOfLife
  <2>2. \A m \in Pictures : loads'[m] = loads[m] + (IF m = currentFrame THEN 1 ELSE 0)
    BY <1>4, <1>5, <1>6
  <2> QED
    BY <1>4, <2>1, <2>2, FirstLoad DEF Quiet
<1>9. ChainsOfLife'
  BY <1>1 DEF onResume, ChainsOfLife, LifeType
<1> QED
  BY <1>2, <1>3, <1>7, <1>8, <1>9, NextTypeParts DEF IInv

(* onPause takes the posted frame away: what may stay is a load.              *)
LEMMA PauseKeeps == IInv /\ ~crashed /\ onPause => IInv'
<1> SUFFICES ASSUME IInv, ~crashed, onPause PROVE IInv'
  OBVIOUS
<1>1. LifeType /\ ShownType /\ FrameType /\ ChainType /\ BuildType
  BY TypeParts DEF IInv
<1>2. BuildType' /\ FrameOfEach' /\ CrashLosesNothing'
  BY <1>1, BuildsKept DEF onPause, IInv
<1>3. LifeType' /\ ShownType' /\ FrameType'
  <2>1. raced' \in BOOLEAN
    BY <1>1 DEF onPause, LifeType, Loading
  <2> QED
    BY <1>1, <2>1 DEF onPause, LifeType, ShownType, FrameType
<1>4. ChainType'
  BY <1>1 DEF onPause, ChainType
<1>5. ~raced' => Quiet'
  <2>1. ~raced' => ~Loading
    BY DEF onPause
  <2> QED
    BY <1>1, <2>1, NotLoading DEF onPause, Quiet
<1>6. OneChainUnlessRaced' /\ ChainsOfLife'
  BY <1>5 DEF onPause, IInv, OneChainUnlessRaced, OneChain, ChainsOfLife, Quiet
<1> QED
  BY <1>2, <1>3, <1>4, <1>6, NextTypeParts DEF IInv

LEMMA StopKeeps == IInv /\ ~crashed /\ (onStop \/ onDestroy) => IInv'
<1> SUFFICES ASSUME IInv, ~crashed, onStop \/ onDestroy PROVE IInv'
  OBVIOUS
<1>1. LifeType /\ ShownType /\ FrameType /\ ChainType /\ BuildType
  BY TypeParts DEF IInv
<1>2. CASE onStop
  <2>1. BuildType' /\ FrameOfEach' /\ CrashLosesNothing'
    BY <1>1, <1>2, BuildsKept DEF onStop, IInv
  <2>2. LifeType' /\ ShownType' /\ FrameType' /\ ChainType'
    BY <1>1, <1>2 DEF onStop, previewVars, LifeType, ShownType, FrameType, ChainType
  <2>3. OneChainUnlessRaced' /\ ChainsOfLife'
    BY <1>2 DEF onStop, previewVars, IInv, OneChainUnlessRaced, OneChain, ChainsOfLife, Quiet
  <2> QED
    BY <2>1, <2>2, <2>3, NextTypeParts DEF IInv
<1>3. CASE onDestroy
  <2>1. BuildType' /\ FrameOfEach' /\ CrashLosesNothing'
    BY <1>1, <1>3, BuildsKept DEF onDestroy, IInv
  <2>2. LifeType' /\ ShownType' /\ FrameType' /\ ChainType'
    BY <1>1, <1>3 DEF onDestroy, LifeType, ShownType, FrameType, ChainType
  <2>3. Quiet'
    BY <1>3 DEF onDestroy, Quiet
  <2>4. OneChainUnlessRaced' /\ ChainsOfLife'
    BY <1>3, <2>3 DEF onDestroy, OneChainUnlessRaced, OneChain, ChainsOfLife, Quiet
  <2> QED
    BY <2>1, <2>2, <2>4, NextTypeParts DEF IInv
<1> QED
  BY <1>2, <1>3

(* A load that ends gives its place to the posted frame, or to nothing.       *)
LEMMA LoadKeeps == ASSUME NEW k \in Pictures PROVE IInv /\ ~crashed /\ (LoadReady(k) \/ LoadFails(k)) => IInv'
<1> SUFFICES ASSUME IInv, ~crashed, LoadReady(k) \/ LoadFails(k) PROVE IInv'
  OBVIOUS
<1>1. LifeType /\ ShownType /\ FrameType /\ ChainType /\ BuildType
  BY TypeParts DEF IInv
<1>2. BuildType' /\ FrameOfEach' /\ CrashLosesNothing'
  BY <1>1, BuildsKept DEF LoadReady, LoadFails, IInv
<1>3. LifeType' /\ ShownType' /\ FrameType'
  <2>1. currentDrawable' \in Pictures \cup {None}
    BY <1>1 DEF LoadReady, LoadFails, LifeType, ShownType
  <2> QED
    BY <1>1, <2>1 DEF LoadReady, LoadFails, LifeType, ShownType, FrameType
<1>4. /\ loads[k] > 0 /\ loads[k] \in Nat /\ DOMAIN loads = Pictures
      /\ loads' = [loads EXCEPT ![k] = loads[k] - 1] /\ posted' \in {posted, posted + 1}
  BY <1>1 DEF LoadReady, LoadFails, ChainType
<1>5. ChainType'
  <2>1. broken' \in {broken, [broken EXCEPT ![k] = broken[k] + 1]} /\ broken[k] \in Nat
    BY <1>1 DEF LoadReady, LoadFails, ChainType
  <2>2. broken' \in [Pictures -> Nat]
    BY <1>1, <2>1 DEF ChainType
  <2>3. loads' \in [Pictures -> Nat]
    BY <1>1, <1>4 DEF ChainType
  <2> QED
    BY <1>1, <1>4, <2>2, <2>3 DEF ChainType
<1>6. \A m \in Pictures : loads'[m] = IF m = k THEN loads[m] - 1 ELSE loads[m]
  BY <1>4
<1>7. OneChain => OneChain'
  BY <1>1, <1>4, <1>6 DEF OneChain, ChainType
<1>8. life \in {"resumed", "paused"} /\ life' = life /\ count' = count /\ raced' = raced
  BY DEF LoadReady, LoadFails, Started
<1>9. ~Quiet
  BY <1>4 DEF Quiet
<1>10. OneChainUnlessRaced' /\ ChainsOfLife'
  BY <1>7, <1>8, <1>9 DEF IInv, OneChainUnlessRaced, ChainsOfLife
<1> QED
  BY <1>2, <1>3, <1>5, <1>10, NextTypeParts DEF IInv

(* A destroyed activity has nothing posted, so a frame never finds it.        *)
LEMMA RunnableKeeps == IInv /\ ~crashed /\ gifRunnable => IInv'
<1> SUFFICES ASSUME IInv, ~crashed, gifRunnable PROVE IInv'
  OBVIOUS
<1>1. LifeType /\ ShownType /\ FrameType /\ ChainType /\ BuildType
  BY TypeParts DEF IInv
<1>2. life # "destroyed" /\ life # "created" /\ count # 0 /\ (~raced => life = "resumed")
  BY <1>1 DEF gifRunnable, IInv, ChainsOfLife, Quiet, LifeType
<1>3. loads' = [loads EXCEPT ![currentFrame'] = @ + 1] /\ UNCHANGED crashed
  BY <1>2 DEF gifRunnable, loadFrame
<1>4. BuildType' /\ FrameOfEach' /\ CrashLosesNothing'
  BY <1>1, <1>3, BuildsKept DEF gifRunnable, IInv
<1>5. LifeType' /\ ShownType'
  BY <1>1, <1>3 DEF gifRunnable, LifeType, ShownType
<1>6. FrameType'
  BY <1>1, <1>2 DEF gifRunnable, FrameType, Following, LifeType
<1>7. ChainType'
  BY <1>1, <1>3, Bump DEF gifRunnable, ChainType
<1>8. OneChain => OneChain'
  <2> SUFFICES ASSUME OneChain PROVE OneChain'
    OBVIOUS
  <2>1. posted = 1 /\ posted' = 0 /\ \A m \in Pictures : loads[m] = 0
    BY <1>1 DEF gifRunnable, ChainType, OneChain
  <2>2. \A m \in Pictures : loads'[m] = IF m = currentFrame' THEN 1 ELSE 0
    BY <1>1, <1>3, <2>1 DEF ChainType
  <2> QED
    BY <2>1, <2>2 DEF OneChain
<1>9. life' = life /\ count' = count /\ raced' = raced
  BY DEF gifRunnable
<1>10. OneChainUnlessRaced' /\ ChainsOfLife'
  BY <1>1, <1>2, <1>8, <1>9 DEF IInv, OneChainUnlessRaced, ChainsOfLife, LifeType
<1> QED
  BY <1>4, <1>5, <1>6, <1>7, <1>10, NextTypeParts DEF IInv

(* The seek bar is there only while the activity is resumed.                  *)
LEMMA SeekKeeps == IInv /\ ~crashed /\ (onProgressChanged \/ onStopTrackingTouch) => IInv'
<1> SUFFICES ASSUME IInv, ~crashed, onProgressChanged \/ onStopTrackingTouch PROVE IInv'
  OBVIOUS
<1>1. LifeType /\ ShownType /\ FrameType /\ ChainType /\ BuildType
  BY TypeParts DEF IInv
<1>2. CASE onProgressChanged
  <2>1. BuildType' /\ FrameOfEach' /\ CrashLosesNothing'
    BY <1>1, <1>2, BuildsKept DEF onProgressChanged, IInv
  <2>2. LifeType' /\ ShownType' /\ FrameType' /\ ChainType'
    BY <1>1, <1>2 DEF onProgressChanged, LifeType, ShownType, FrameType, ChainType
  <2>3. OneChainUnlessRaced' /\ ChainsOfLife'
    BY <1>2 DEF onProgressChanged, IInv, OneChainUnlessRaced, OneChain, ChainsOfLife, Quiet
  <2> QED
    BY <2>1, <2>2, <2>3, NextTypeParts DEF IInv
<1>3. CASE onStopTrackingTouch
  <2>1. loads' = [loads EXCEPT ![currentFrame] = @ + 1] /\ UNCHANGED crashed /\ life = "resumed"
    BY <1>3 DEF onStopTrackingTouch, loadFrame
  <2>2. BuildType' /\ FrameOfEach' /\ CrashLosesNothing'
    BY <1>1, <1>3, <2>1, BuildsKept DEF onStopTrackingTouch, IInv
  <2>3. raced' \in BOOLEAN
    BY <1>1, <1>3 DEF onStopTrackingTouch, LifeType, Loading
  <2>4. LifeType' /\ ShownType' /\ FrameType' /\ ChainType'
    <3>1. ChainType'
      BY <1>1, <1>3, <2>1, Bump DEF onStopTrackingTouch, ChainType
    <3> QED
      BY <1>1, <1>3, <2>1, <2>3, <3>1 DEF onStopTrackingTouch, LifeType, ShownType, FrameType
  <2>5. ~raced' => OneChain'
    <3> SUFFICES ASSUME ~raced' PROVE OneChain'
      OBVIOUS
    <3>1. \A m \in Pictures : loads[m] = 0
      <4>1. ~Loading
        BY <1>3 DEF onStopTrackingTouch
      <4> QED
        BY <1>1, <4>1, NotLoading
    <3>2. posted' = 0 /\ \A m \in Pictures : loads'[m] = IF m = currentFrame THEN 1 ELSE 0
      BY <1>1, <1>3, <2>1, <3>1 DEF onStopTrackingTouch, ChainType
    <3> QED
      BY <3>2 DEF OneChain
  <2>6. OneChainUnlessRaced' /\ ChainsOfLife'
    BY <1>3, <2>1, <2>5 DEF onStopTrackingTouch, IInv, OneChainUnlessRaced, ChainsOfLife
  <2> QED
    BY <2>2, <2>4, <2>6, NextTypeParts DEF IInv
<1> QED
  BY <1>2, <1>3

LEMMA GifReadyKeeps == IInv /\ ~crashed /\ (GifReady \/ UNCHANGED vars) => IInv'
<1> SUFFICES ASSUME IInv, ~crashed, GifReady \/ UNCHANGED vars PROVE IInv'
  OBVIOUS
<1>1. LifeType /\ ShownType /\ FrameType /\ ChainType /\ BuildType
  BY TypeParts DEF IInv
<1>2. UNCHANGED <<count, life, crashed, previewVars, buildVars>> /\ shown' \in {shown, Gif}
      /\ gifLoad' \in {gifLoad, "none", "failed"}
  BY DEF GifReady, vars
<1>3. BuildType' /\ FrameOfEach' /\ CrashLosesNothing'
  BY <1>1, <1>2, BuildsKept DEF IInv
<1>4. LifeType' /\ ShownType' /\ FrameType' /\ ChainType'
  BY <1>1, <1>2 DEF previewVars, LifeType, ShownType, FrameType, ChainType
<1>5. OneChainUnlessRaced' /\ ChainsOfLife'
  BY <1>2 DEF previewVars, IInv, OneChainUnlessRaced, OneChain, ChainsOfLife, Quiet
<1> QED
  BY <1>3, <1>4, <1>5, NextTypeParts DEF IInv

-----------------------------------------------------------------------------
(* The build.                                                                 *)

(* No step of a build touches the preview.                                    *)
LEMMA PreviewKept ==
  ASSUME IInv, UNCHANGED <<count, life, shown, previewVars>>,
         gifLoad' \in {"none", "loading", "failed"}, crashed' \in BOOLEAN
  PROVE  /\ LifeType' /\ ShownType' /\ FrameType' /\ ChainType'
         /\ OneChainUnlessRaced' /\ ChainsOfLife'
<1>1. LifeType /\ ShownType /\ FrameType /\ ChainType /\ BuildType
  BY TypeParts DEF IInv
<1>2. LifeType' /\ ShownType' /\ FrameType' /\ ChainType'
  BY <1>1 DEF previewVars, LifeType, ShownType, FrameType, ChainType
<1> QED
  BY <1>2 DEF previewVars, IInv, OneChainUnlessRaced, OneChain, ChainsOfLife, Quiet

LEMMA BuildKeeps ==
  ASSUME NEW b \in Builds
  PROVE  IInv /\ ~crashed /\ (builderGif(b) \/ MapPicture(b) \/ MapFails(b) \/ StreamEnds(b)) => IInv'
<1> SUFFICES ASSUME IInv, ~crashed, builderGif(b) \/ MapPicture(b) \/ MapFails(b) \/ StreamEnds(b)
             PROVE  IInv'
  OBVIOUS
<1>1. LifeType /\ ShownType /\ FrameType /\ ChainType /\ BuildType
  BY TypeParts DEF IInv
<1>2. UNCHANGED <<count, life, shown, previewVars, gifLoad, crashed, trailer>>
  BY DEF builderGif, MapPicture, MapFails, StreamEnds
<1>3. /\ LifeType' /\ ShownType' /\ FrameType' /\ ChainType'
      /\ OneChainUnlessRaced' /\ ChainsOfLife'
  BY <1>1, <1>2, PreviewKept DEF LifeType
<1>4. CrashLosesNothing'
  BY <1>2 DEF CrashLosesNothing
<1>5. CASE builderGif(b)
  <2>1. BuildType'
    BY <1>1, <1>5 DEF builderGif, BuildType
  <2>2. FrameOfEach'
    <3>1. PICK ok \in BOOLEAN : lost' = [lost EXCEPT ![b] = ~ok]
      BY <1>5 DEF builderGif
    <3>2. written[b] \in Nat /\ next[b] \in 0..count /\ stage[b] = "none"
      BY <1>1, <1>5 DEF builderGif, BuildType
    <3> QED
      BY <1>1, <1>5, <3>1, <3>2 DEF builderGif, BuildType, IInv, FrameOfEach
  <2> QED
    BY <1>3, <1>4, <2>1, <2>2, NextTypeParts DEF IInv
<1>6. CASE MapPicture(b)
  <2>1. BuildType'
    <3>1. next[b] + 1 \in 0..count
      <4>1. count \in Nat /\ next[b] \in 0..count /\ next[b] < count
        BY <1>1, <1>6 DEF MapPicture, BuildType, LifeType
      <4> QED
        BY <4>1
    <3>2. next' \in [Builds -> 0..count] /\ lost' \in [Builds -> BOOLEAN] /\ written' \in [Builds -> Nat]
      <4>1. next \in [Builds -> 0..count] /\ next' = [next EXCEPT ![b] = next[b] + 1]
        BY <1>1, <1>6 DEF MapPicture, BuildType
      <4>2. next' \in [Builds -> 0..count]
        BY <3>1, <4>1
      <4>3. lost' \in {lost, [lost EXCEPT ![b] = TRUE]} /\ lost \in [Builds -> BOOLEAN]
        BY <1>1, <1>6 DEF MapPicture, BuildType
      <4>4. written' \in {written, [written EXCEPT ![b] = @ + 1]} /\ written \in [Builds -> Nat]
        BY <1>1, <1>6 DEF MapPicture, BuildType
      <4>5. lost' \in [Builds -> BOOLEAN]
        BY <4>3
      <4>6. written' \in [Builds -> Nat]
        BY <4>4
      <4> QED
        BY <4>2, <4>5, <4>6
    <3>3. \A m \in Builds : written'[m] <= next'[m]
      BY <1>1, <1>6 DEF MapPicture, BuildType
    <3> QED
      BY <1>1, <1>6, <3>2, <3>3 DEF MapPicture, BuildType
  <2>2. FrameOfEach'
    BY <1>1, <1>6 DEF MapPicture, BuildType, IInv, FrameOfEach
  <2> QED
    BY <1>3, <1>4, <2>1, <2>2, NextTypeParts DEF IInv
<1>7. CASE MapFails(b) \/ StreamEnds(b)
  <2>1. BuildType'
    BY <1>1, <1>7 DEF MapFails, StreamEnds, BuildType
  <2>2. FrameOfEach'
    BY <1>1, <1>7 DEF MapFails, StreamEnds, BuildType, IInv, FrameOfEach
  <2> QED
    BY <1>3, <1>4, <2>1, <2>2, NextTypeParts DEF IInv
<1> QED
  BY <1>5, <1>6, <1>7

(* onComplete has finished the file when it meets a destroyed activity.       *)
LEMMA CompleteKeeps == ASSUME NEW b \in Builds PROVE IInv /\ ~crashed /\ onComplete(b) => IInv'
<1> SUFFICES ASSUME IInv, ~crashed, onComplete(b) PROVE IInv'
  OBVIOUS
<1>1. LifeType /\ ShownType /\ FrameType /\ ChainType /\ BuildType
  BY TypeParts DEF IInv
<1>2. gifLoad' \in {"none", "loading", "failed"} /\ crashed' \in BOOLEAN
  BY <1>1 DEF onComplete, ShowGif, LifeType
<1>3. /\ LifeType' /\ ShownType' /\ FrameType' /\ ChainType'
      /\ OneChainUnlessRaced' /\ ChainsOfLife'
  BY <1>2, PreviewKept DEF onComplete
<1>4. BuildType' /\ FrameOfEach'
  BY <1>1 DEF onComplete, BuildType, IInv, FrameOfEach
<1>5. stage'[b] = "told" /\ (lost'[b] \/ (trailer'[b] /\ written'[b] = count'))
  BY <1>1 DEF onComplete, BuildType, IInv, FrameOfEach
<1>6. CrashLosesNothing'
  BY <1>5 DEF CrashLosesNothing
<1> QED
  BY <1>3, <1>4, <1>6, NextTypeParts DEF IInv

-----------------------------------------------------------------------------
LEMMA StepKeeps == IInv /\ [Next]_vars => IInv'
<1> SUFFICES ASSUME IInv, [Next]_vars PROVE IInv'
  OBVIOUS
<1>1. CASE UNCHANGED vars
  BY <1>1 DEF vars, previewVars, buildVars, IInv, TypeOK, OneChainUnlessRaced, OneChain,
              ChainsOfLife, Quiet, FrameOfEach, CrashLosesNothing
<1>2. CASE Next
  <2>1. CASE Preview
    BY <1>2, <2>1, RunnableKeeps, LoadKeeps DEF Next, Preview
  <2>2. CASE User
    BY <1>2, <2>2, SeekKeeps, BuildKeeps DEF Next, User
  <2>3. CASE Lifecycle
    BY <1>2, <2>3, ResumeKeeps, PauseKeeps, StopKeeps DEF Next, Lifecycle
  <2>4. CASE GifReady
    BY <1>2, <2>4, GifReadyKeeps DEF Next
  <2>5. CASE \E b \in Builds : Build(b)
    BY <1>2, <2>5, BuildKeeps, CompleteKeeps DEF Next, Build
  <2> QED
    BY <1>2, <2>1, <2>2, <2>3, <2>4, <2>5 DEF Next
<1> QED
  BY <1>1, <1>2

THEOREM EditorInvariant == Spec => []IInv
  BY InitIInv, StepKeeps, PTL DEF Spec

(* The fields of the activity and of its builds keep their ranges; the frame  *)
(* shown next is one of the list.                                             *)
THEOREM EditorTypes == Spec => []TypeOK
<1>1. IInv => TypeOK
  BY DEF IInv
<1> QED
  BY EditorInvariant, <1>1, PTL

(* A second chain of frames runs only when a pause or a drag ended while an   *)
(* image was being loaded (removeCallbacks does not stop a load), or when a   *)
(* load that had failed began again with the activity.                        *)
THEOREM EditorOneChain == Spec => []OneChainUnlessRaced
<1>1. IInv => OneChainUnlessRaced
  BY DEF IInv
<1> QED
  BY EditorInvariant, <1>1, PTL

(* The process dies only in onComplete, whose file is complete by then or has *)
(* met an exception that AnimatedGifEncoder swallowed.                        *)
THEOREM EditorCrash == Spec => []CrashLosesNothing
<1>1. IInv => CrashLosesNothing
  BY DEF IInv
<1> QED
  BY EditorInvariant, <1>1, PTL
=============================================================================
