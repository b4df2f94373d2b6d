-------------------------- MODULE FrameRateProofs --------------------------
(***************************************************************************)
(* Proofs about FrameRate, for any number of pictures at any times, any    *)
(* frame duration up to one frame and any clock of the file.               *)
(***************************************************************************)
EXTENDS FrameRate, SequenceTheorems, TLAPS

USE MuxersAssumption DEF MuxersAssumption
USE DurationsAssumption DEF DurationsAssumption
USE StepsAssumption DEF StepsAssumption
USE LimitsAssumption DEF LimitsAssumption
USE TimeBaseAssumption DEF TimeBaseAssumption

\* The times in the output never run back: pts before the number of the next
\* frame, pictures in their order. A picture in the loop is the last received.
Order ==
  /\ stamp < sync_opts
  /\ pc = "idle" => shown <= last_frame
  /\ pc = "loop" =>
       /\ next = None => nb0_frames = nb_frames
       /\ next # None => shown <= next /\ last_frame <= next
       /\ (i <= nb0_frames /\ last_frame # None) => shown <= last_frame
  /\ {shown, last_frame, next} \subseteq 0..received

\* The loop has made all its frames before the next picture comes.
Place ==
  /\ i <= nb_frames
  /\ pc = "idle" => i = nb_frames
  /\ received = 0 => sync_opts = 0

\* Where the frames still to be made end, against the end of the picture.
Drift ==
  (pc \in {"idle", "loop"} /\ received > 0 /\ (pc = "loop" => next # None) /\ ~skipped) =>
    10 * (sync_opts + nb_frames - i) - (ipts + duration) \in -4..21

Inv == TypeOK /\ Order /\ Place /\ CountsAddUp /\ Drift

-----------------------------------------------------------------------------
\* Rounding is off by half a frame at most, and downwards by less.
LEMMA RoundNear ==
  ASSUME NEW t \in Int
  PROVE  Round(t) \in Int /\ 10 * Round(t) >= t - 4 /\ 10 * Round(t) <= t + 5
BY DEF Round

\* What is past a limit is not below it, and what is not is not above it.
LEMMA PastNear ==
  ASSUME NEW x \in Int, NEW limit \in Int, NEW t \in Nat
  PROVE  /\ Past(x, limit, t) => x >= limit
         /\ ~Past(x, limit, t) => x <= limit
BY DEF Past

\* Rounding the end of what has been made gives its number.
LEMMA RoundWhole ==
  ASSUME NEW n \in Nat
  PROVE  Round(10 * n) = n
BY DEF Round

\* Twice the halves: how often the booleans count.
LEMMA OneType ==
  ASSUME NEW b \in BOOLEAN
  PROVE  One(b) \in {0, 1} /\ (b => One(b) = 1) /\ (~b => One(b) = 0)
BY DEF One

\* What is decided for a picture of time t: the next frame does not go back,
\* and the old frames are some of the frames.
LEMMA Decision ==
  ASSUME TypeOK, Place, NEW t \in Nat, t >= ipts
  PROVE  /\ NextOpts(t) \in Nat /\ NextOpts(t) >= sync_opts
         /\ Frames(t) \in Nat /\ OldFrames(t) \in 0..Frames(t)
<1>1. duration \in 0..10 /\ sync_opts \in Nat /\ frame_number \in Nat
  BY DEF TypeOK
<1>2. Delta(t) \in Int /\ Delta0(t) \in Int
  BY <1>1 DEF Delta, Delta0
<1>3. Round(10 * sync_opts + Delta0(t)) \in Int /\ Round(Delta(t)) \in Int
      /\ Round(duration) \in Int /\ Round(Delta0(t) - 6) \in Int
  <2>1. /\ 10 * sync_opts + Delta0(t) \in Int /\ duration \in Int
        /\ Delta0(t) - 6 \in Int
    BY <1>1, <1>2
  <2> QED BY <2>1, <1>2, RoundNear
<1>4. NextOpts(t) \in Nat /\ NextOpts(t) >= sync_opts
  <2>1. CASE StartsLate(t)
    <3>1. Delta0(t) >= 5
      BY <2>1, <1>2, PastNear DEF StartsLate
    <3>2. 10 * Round(10 * sync_opts + Delta0(t)) >= 10 * sync_opts + Delta0(t) - 4
      BY <1>1, <1>2, RoundNear
    <3>3. Round(10 * sync_opts + Delta0(t)) >= sync_opts
      BY <3>1, <3>2, <1>1, <1>2, <1>3
    <3> QED BY <2>1, <3>3, <1>1, <1>3 DEF NextOpts
  <2>2. CASE ~StartsLate(t) /\ VideoSync = "vfr" /\ Past(Delta(t), 6, t)
    <3>1. Delta(t) >= 6
      BY <2>2, <1>2, PastNear
    <3>4. Delta0(t) >= 0
      BY <3>1, <1>1 DEF Delta, Delta0, Clipped, Past
    <3>2. 10 * Round(10 * sync_opts + Delta0(t)) >= 10 * sync_opts + Delta0(t) - 4
      BY <1>1, <1>2, RoundNear
    <3>3. Round(10 * sync_opts + Delta0(t)) >= sync_opts
      BY <3>4, <3>2, <1>1, <1>2, <1>3
    <3> QED BY <2>2, <3>3, <1>1, <1>3 DEF NextOpts
  <2>3. CASE ~StartsLate(t) /\ ~(VideoSync = "vfr" /\ Past(Delta(t), 6, t))
    BY <2>3, <1>1 DEF NextOpts
  <2> QED BY <2>1, <2>2, <2>3
<1>5. Frames(t) \in Nat
  <2>1. CASE VideoSync = "vfr"
    BY <2>1 DEF Frames
  <2>2. CASE VideoSync # "vfr" /\ StartsLate(t)
    BY <2>2, <1>1 DEF Frames, Past
  <2>3. CASE VideoSync # "vfr" /\ ~StartsLate(t)
    <3>1. Past(Delta(t), 11, t) => Round(Delta(t)) \in Nat
      <4>1. 10 * Round(Delta(t)) >= Delta(t) - 4
        BY <1>2, RoundNear
      <4> QED BY <4>1, <1>2, <1>3, PastNear
    <3> QED BY <2>3, <3>1, <1>2 DEF Frames
  <2> QED BY <2>1, <2>2, <2>3
<1>6. OldFrames(t) \in 0..Frames(t)
  <2>1. CASE VideoSync # "vfr" /\ ~StartsLate(t) /\ Past(Delta(t), 11, t) /\ Past(Delta0(t), 11, t)
    <3>1. 10 * Round(Delta0(t) - 6) >= Delta0(t) - 6 - 4
      BY <1>2, RoundNear
    <3>2. Round(Delta0(t) - 6) \in Nat
      BY <3>1, <2>1, <1>2, <1>3, PastNear
    <3> QED BY <2>1, <3>2, <1>5 DEF OldFrames, Lesser
  <2>2. CASE ~(VideoSync # "vfr" /\ ~StartsLate(t) /\ Past(Delta(t), 11, t) /\ Past(Delta0(t), 11, t))
    BY <2>2, <1>5 DEF OldFrames
  <2> QED BY <2>1, <2>2
<1> QED BY <1>4, <1>5, <1>6

\* Where the frames of a picture of time t will end, if the ones before it
\* ended where Drift says.
LEMMA EndOfPicture ==
  ASSUME TypeOK, Place, Drift, pc = "idle", ~skipped, NEW t \in Nat, t >= ipts
  PROVE  10 * (NextOpts(t) + Frames(t)) - (t + duration) \in -4..21
<1>1. duration \in 0..10 /\ sync_opts \in Nat /\ frame_number \in Nat /\ ipts \in Nat
      /\ received \in Nat /\ nb_frames \in Nat /\ i \in Nat
  BY DEF TypeOK
<1>2. Delta(t) \in Int /\ Delta0(t) \in Int /\ Delta(t) = t - 10 * sync_opts + duration
  BY <1>1 DEF Delta, Delta0
<1>3. -Delta(t) <= 21
  <2>1. CASE received = 0
    BY <2>1, <1>1, <1>2 DEF Place
  <2>2. CASE received > 0
    <3>1. 10 * (sync_opts + nb_frames - i) - (ipts + duration) \in -4..21 /\ i = nb_frames
      BY <2>2 DEF Drift, Place
    <3> QED BY <3>1, <1>1, <1>2
  <2> QED BY <2>1, <2>2, <1>1
<1>4. ASSUME ~Clipped(t)
      PROVE  /\ Round(10 * sync_opts + Delta0(t)) \in Int
             /\ 10 * Round(10 * sync_opts + Delta0(t)) >= t - 4
             /\ 10 * Round(10 * sync_opts + Delta0(t)) <= t + 5
  <2>1. 10 * sync_opts + Delta0(t) = t
    BY <1>4, <1>1 DEF Delta0
  <2> QED BY <2>1, RoundNear
<1>5. CASE VideoSync = "vfr"
  <2>1. ~StartsLate(t)
    BY <1>5 DEF StartsLate
  <2>2. CASE ~Past(Delta(t), -6, t)
    <3>1. Delta(t) <= -6 /\ ~Past(Delta(t), 6, t)
      BY <2>2, <1>2, PastNear DEF Past
    <3> QED BY <2>1, <2>2, <3>1, <1>5, <1>1, <1>2, <1>3 DEF NextOpts, Frames
  <2>3. CASE Past(Delta(t), -6, t) /\ ~Past(Delta(t), 6, t)
    <3>1. Delta(t) >= -6 /\ Delta(t) <= 6
      BY <2>3, <1>2, PastNear
    <3> QED BY <2>1, <2>3, <3>1, <1>5, <1>1, <1>2 DEF NextOpts, Frames
  <2>4. CASE Past(Delta(t), -6, t) /\ Past(Delta(t), 6, t) /\ Clipped(t)
    <3>1. NextOpts(t) = sync_opts
      BY <2>1, <2>4, <1>5, <1>1, RoundWhole DEF NextOpts, Delta0
    <3>2. Frames(t) = 1 /\ Delta(t) <= 10 /\ Delta(t) >= 6
      BY <2>4, <1>5, <1>1, <1>2, PastNear DEF Frames, Clipped
    <3> QED BY <3>1, <3>2, <2>4, <1>1, <1>2
  <2>5. CASE Past(Delta(t), -6, t) /\ Past(Delta(t), 6, t) /\ ~Clipped(t)
    <3>1. Frames(t) = 1 /\ NextOpts(t) = Round(10 * sync_opts + Delta0(t))
      BY <2>5, <2>1, <1>5, <1>2 DEF Frames, NextOpts
    <3> QED BY <3>1, <2>5, <1>4, <1>1
  <2> QED BY <2>2, <2>3, <2>4, <2>5, <1>2
<1>6. CASE VideoSync # "vfr" /\ StartsLate(t)
  <2>1. ~Clipped(t)
    BY <1>6, <1>1 DEF StartsLate, Delta0, Past
  <2>2. Frames(t) = 1 /\ NextOpts(t) = Round(10 * sync_opts + Delta0(t))
    BY <1>6, <1>1 DEF Frames, NextOpts, Past
  <2> QED BY <2>1, <2>2, <1>4, <1>1
<1>7. CASE VideoSync # "vfr" /\ ~StartsLate(t)
  <2>1. NextOpts(t) = sync_opts
    BY <1>7 DEF NextOpts
  <2>2. CASE ~Past(Delta(t), -11, t)
    <3>1. Delta(t) <= -11
      BY <2>2, <1>2, PastNear
    <3> QED BY <2>1, <2>2, <3>1, <1>7, <1>1, <1>2, <1>3 DEF Frames
  <2>3. CASE Past(Delta(t), 11, t)
    <3>1. Past(Delta(t), -11, t)
      BY <2>3, <1>2 DEF Past
    <3>2. Frames(t) = Round(Delta(t))
      BY <2>3, <3>1, <1>7, <1>2 DEF Frames
    <3>3. Round(Delta(t)) \in Int /\ 10 * Round(Delta(t)) >= Delta(t) - 4 /\ 10 * Round(Delta(t)) <= Delta(t) + 5
      BY <1>2, RoundNear
    <3> QED BY <3>2, <3>3, <2>1, <1>1, <1>2
  <2>4. CASE Past(Delta(t), -11, t) /\ ~Past(Delta(t), 11, t)
    <3>1. Delta(t) >= -11 /\ Delta(t) <= 11
      BY <2>4, <1>2, PastNear
    <3> QED BY <2>1, <2>4, <3>1, <1>7, <1>1, <1>2 DEF Frames
  <2> QED BY <2>2, <2>3, <2>4, <1>2
<1> QED BY <1>5, <1>6, <1>7

\* Among the frames of a picture are not more repetitions than frames, and
\* the counters balance whatever was dropped before.
Balanced(nb, nb0) ==
  /\ Repeated(nb, nb0) \in Nat
  /\ Repeated(nb, nb0) + 1 + One(last_dropped) = nb + One(nb0 = 0 /\ last_dropped) + One(nb = nb0)

LEMMA Balance ==
  ASSUME NEW nb \in Nat, NEW nb0 \in 0..nb, last_dropped \in BOOLEAN
  PROVE  Balanced(nb, nb0)
<1> USE DEF Balanced
<1>1. CASE last_dropped /\ nb0 = 0
  BY <1>1 DEF Repeated, One
<1>2. CASE last_dropped /\ nb0 > 0
  BY <1>2 DEF Repeated, One
<1>3. CASE ~last_dropped
  BY <1>3 DEF Repeated, One
<1> QED BY <1>1, <1>2, <1>3

\* A timestamp stays one on the clock of the file.
LEMMA RescaleType ==
  ASSUME NEW pts \in Nat
  PROVE  Rescale(pts) \in Nat
<1> DEFINE a == 2 * pts * TbNum + TbDen
           b == 2 * TbDen
<1>1. TbNum \in Nat /\ TbDen \in Nat /\ TbDen > 0
  OBVIOUS
<1>2. pts * TbNum \in Nat
  BY <1>1
<1>3. a \in Nat /\ b \in Nat /\ b > 0
  BY <1>1, <1>2
<1> HIDE DEF a, b
<1>4. a \div b \in Nat
  BY <1>3
<1> QED BY <1>4 DEF Rescale, a, b

-----------------------------------------------------------------------------
LEMMA InitInv == Init => Inv
<1> SUFFICES ASSUME Init PROVE Inv
  OBVIOUS
<1> USE DEF Init, None, NoPts
<1>1. TypeOK
  <2>1. inEncoder \in Seq(Nat)
    BY EmptySeq
  <2>2. last_nb0_frames \in [1..3 -> Nat]
    OBVIOUS
  <2>3. {oneStream, last_dropped, skipped, finished} \subseteq BOOLEAN
    BY Zenon
  <2>4. muxer \in Muxers /\ duration \in Durations
    OBVIOUS
  <2> QED BY <2>1, <2>2, <2>3, <2>4 DEF TypeOK
<1>2. Order /\ Place
  BY DEF Order, Place
<1>3. CountsAddUp
  BY DEF CountsAddUp, One
<1>4. Drift
  BY DEF Drift
<1> QED BY <1>1, <1>2, <1>3, <1>4 DEF Inv

\* A decision to go on, be it for a picture or at the end.
LEMMA DecideType ==
  ASSUME TypeOK, NEW picture \in Nat, NEW nb \in Nat, NEW nb0 \in 0..nb,
         Decide(picture, nb, nb0)
  PROVE  /\ last_nb0_frames' \in [1..3 -> Nat] /\ last_dropped' \in BOOLEAN
         /\ dup' \in Nat /\ drop' \in Nat /\ skipped' \in BOOLEAN
         /\ pc' \in {"idle", "loop", "flush"}
         /\ next' \in Nat /\ i' \in Nat /\ nb_frames' \in Nat /\ nb0_frames' \in 0..nb_frames'
<1>1. last_nb0_frames' \in [1..3 -> Nat]
  BY DEF Decide, TypeOK
<1>2. last_dropped \in BOOLEAN /\ skipped \in BOOLEAN /\ dup \in Nat /\ drop \in Nat
  BY DEF TypeOK
<1>3. Repeated(nb, nb0) \in Nat /\ One(nb0 = 0 /\ last_dropped) \in Nat
  <2>1. Balanced(nb, nb0)
    BY <1>2, Balance
  <2>2. One(nb0 = 0 /\ last_dropped) \in Nat
    BY DEF One
  <2> QED BY <2>1, <2>2 DEF Balanced
<1>4. CASE Repeated(nb, nb0) > 0 /\ nb > MaxDup
  <2>1. /\ drop' = drop + One(nb0 = 0 /\ last_dropped) + 1 /\ skipped' = TRUE
        /\ pc' = IF picture = None THEN "flush" ELSE "idle"
        /\ UNCHANGED <<dup, last_dropped, loopVars>>
    BY <1>4 DEF Decide
  <2>2. pc' \in {"idle", "loop", "flush"} /\ skipped' \in BOOLEAN
    BY <2>1
  <2>3. drop' \in Nat
    BY <2>1, <1>2, <1>3
  <2>4. UNCHANGED <<dup, last_dropped, next, i, nb_frames, nb0_frames>>
    BY <2>1 DEF loopVars
  <2> QED BY <2>2, <2>3, <2>4, <1>1, <1>2 DEF TypeOK
<1>5. CASE ~(Repeated(nb, nb0) > 0 /\ nb > MaxDup)
  <2>1. /\ drop' = drop + One(nb0 = 0 /\ last_dropped) /\ dup' = dup + Repeated(nb, nb0)
        /\ last_dropped' = (nb = nb0 /\ picture # None) /\ pc' = "loop"
        /\ next' = picture /\ i' = 0 /\ nb_frames' = nb /\ nb0_frames' = nb0
        /\ UNCHANGED skipped
    BY <1>5 DEF Decide
  <2>2. drop' \in Nat /\ dup' \in Nat
    BY <2>1, <1>2, <1>3
  <2>3. last_dropped' \in BOOLEAN /\ skipped' \in BOOLEAN /\ pc' \in {"idle", "loop", "flush"}
    BY <2>1, <1>2
  <2> QED BY <2>1, <2>2, <2>3, <1>1
<1> QED BY <1>4, <1>5

LEMMA TypeStep == TypeOK /\ Place /\ [Next]_vars => TypeOK'
<1> SUFFICES ASSUME TypeOK, Place, [Next]_vars PROVE TypeOK'
  OBVIOUS
<1> USE DEF modeVars, countVars, pictureVars, loopVars, muxVars
<1>1. ASSUME NEW st \in Steps, Picture(st) PROVE TypeOK'
  <2> DEFINE t == ipts + st
  <2>1. t \in Nat /\ t >= ipts
    BY DEF TypeOK
  <2>2. NextOpts(t) \in Nat /\ Frames(t) \in Nat /\ OldFrames(t) \in 0..Frames(t)
    BY <2>1, Decision
  <2>3. received + 1 \in Nat /\ Decide(received + 1, Frames(t), OldFrames(t))
    BY <1>1 DEF Picture, TypeOK
  <2>4. /\ last_nb0_frames' \in [1..3 -> Nat] /\ last_dropped' \in BOOLEAN
        /\ dup' \in Nat /\ drop' \in Nat /\ skipped' \in BOOLEAN
        /\ pc' \in {"idle", "loop", "flush"}
        /\ next' \in Nat /\ i' \in Nat /\ nb_frames' \in Nat /\ nb0_frames' \in 0..nb_frames'
    BY <2>2, <2>3, DecideType
  <2>5. sync_opts' = NextOpts(t) /\ received' = received + 1 /\ ipts' = t
    BY <1>1 DEF Picture
  <2>6. UNCHANGED <<modeVars, frame_number, last_frame, shown, stamp, inEncoder, muxVars>>
    BY <1>1 DEF Picture
  <2> HIDE DEF t
  <2> QED BY <2>1, <2>2, <2>3, <2>4, <2>5, <2>6 DEF TypeOK
<1>2. ASSUME Flush PROVE TypeOK'
  <2> DEFINE nb == Middle(last_nb0_frames[1], last_nb0_frames[2], last_nb0_frames[3])
  <2>1. nb \in Nat
    BY DEF TypeOK, Middle, Greater, Lesser
  <2>2. Decide(None, nb, nb) /\ None \in Nat
    BY <1>2 DEF Flush, None
  <2>3. UNCHANGED <<modeVars, sync_opts, frame_number, last_frame, received, ipts,
                    shown, stamp, inEncoder, muxVars>>
    BY <1>2 DEF Flush
  <2> HIDE DEF nb
  <2>4. /\ last_nb0_frames' \in [1..3 -> Nat] /\ last_dropped' \in BOOLEAN
        /\ dup' \in Nat /\ drop' \in Nat /\ skipped' \in BOOLEAN
        /\ pc' \in {"idle", "loop", "flush"}
        /\ next' \in Nat /\ i' \in Nat /\ nb_frames' \in Nat /\ nb0_frames' \in 0..nb_frames'
    BY <2>1, <2>2, DecideType
  <2> QED BY <2>3, <2>4 DEF TypeOK
<1>3. ASSUME SendFrame PROVE TypeOK'
  <2>1. inEncoder' \in Seq(Nat)
    BY <1>3, AppendProperties DEF SendFrame, TypeOK
  <2>2. InPicture \in Nat
    BY DEF InPicture, TypeOK
  <2> QED BY <1>3, <2>1, <2>2 DEF SendFrame, TypeOK
<1>4. ASSUME EncoderReturns \/ FlushEncoder PROVE TypeOK'
  <2>1. inEncoder # <<>> /\ inEncoder' = Tail(inEncoder) /\ inEncoder \in Seq(Nat)
    BY <1>4 DEF EncoderReturns, FlushEncoder, TypeOK
  <2>2. inEncoder' \in Seq(Nat) /\ Head(inEncoder) \in Nat
    BY <2>1, HeadTailProperties
  <2>3. Rescale(Head(inEncoder)) \in Nat
    BY <2>2, RescaleType
  <2>4. MuxDts(Rescale(Head(inEncoder))) \in Nat
    BY <2>3 DEF MuxDts, TypeOK, NoPts
  <2>5. (UNCHANGED muxVars) \/ WritePacket(Head(inEncoder))
    BY <1>4 DEF EncoderReturns, FlushEncoder
  <2>6. written' \in Nat /\ last_mux_dts' \in Nat \cup {NoPts} /\ finished' \in BOOLEAN
    <3>1. CASE UNCHANGED muxVars
      BY <3>1 DEF TypeOK
    <3>2. CASE WritePacket(Head(inEncoder))
      <4>1. written' \in Nat /\ last_mux_dts' \in Nat \cup {NoPts}
        BY <3>2, <2>4 DEF WritePacket, TypeOK
      <4>2. finished' \in {finished, TRUE} /\ finished \in BOOLEAN
        BY <3>2 DEF WritePacket, TypeOK
      <4> QED BY <4>1, <4>2
    <3> QED BY <3>1, <3>2, <2>5
  <2>7. UNCHANGED <<modeVars, sync_opts, frame_number, last_nb0_frames, last_dropped,
                    last_frame, countVars, pictureVars, pc, loopVars, shown, stamp>>
    BY <1>4 DEF EncoderReturns, FlushEncoder
  <2> QED BY <2>2, <2>6, <2>7 DEF TypeOK
<1>5. CASE KeepPicture
  BY <1>5 DEF KeepPicture, TypeOK
<1>6. CASE NoPicture \/ Stop \/ Finish
  BY <1>6 DEF NoPicture, Stop, Finish, TypeOK
<1>7. CASE UNCHANGED vars
  BY <1>7 DEF vars, TypeOK
<1> QED BY <1>1, <1>2, <1>3, <1>4, <1>5, <1>6, <1>7 DEF Next

\* A decision, what it does to the loop.
LEMMA DecideLoop ==
  ASSUME NEW picture, NEW nb, NEW nb0, Decide(picture, nb, nb0)
  PROVE  \/ /\ skipped' = TRUE
            /\ pc' = IF picture = None THEN "flush" ELSE "idle"
            /\ UNCHANGED <<next, i, nb_frames, nb0_frames, dup, last_dropped>>
         \/ /\ next' = picture /\ i' = 0 /\ nb_frames' = nb /\ nb0_frames' = nb0
            /\ pc' = "loop" /\ UNCHANGED skipped
            /\ last_dropped' = (nb = nb0 /\ picture # None)
            /\ dup' = dup + Repeated(nb, nb0)
            /\ drop' = drop + One(nb0 = 0 /\ last_dropped)
BY DEF Decide, loopVars

LEMMA OrderStep == TypeOK /\ Place /\ Order /\ [Next]_vars => Order'
<1> SUFFICES ASSUME TypeOK, Place, Order, [Next]_vars PROVE Order'
  OBVIOUS
<1> USE DEF modeVars, countVars, pictureVars, loopVars, muxVars
<1>0. /\ received \in Nat /\ sync_opts \in Nat /\ stamp \in Int /\ stamp < sync_opts
      /\ shown \in Nat /\ last_frame \in Nat /\ next \in Nat
      /\ shown <= received /\ last_frame <= received /\ next <= received
      /\ i \in Nat /\ nb_frames \in Nat /\ nb0_frames \in Nat /\ nb0_frames <= nb_frames
  BY DEF TypeOK, Order, NoPts
<1>1. ASSUME NEW st \in Steps, Picture(st) PROVE Order'
  <2> DEFINE t == ipts + st
  <2>1. t \in Nat /\ t >= ipts
    BY DEF TypeOK
  <2>2. NextOpts(t) \in Nat /\ NextOpts(t) >= sync_opts
    BY <2>1, Decision
  <2>3. Decide(received + 1, Frames(t), OldFrames(t)) /\ pc = "idle"
        /\ sync_opts' = NextOpts(t) /\ received' = received + 1
        /\ UNCHANGED <<last_frame, shown, stamp>>
    BY <1>1 DEF Picture
  <2> HIDE DEF t
  <2>4. stamp' < sync_opts'
    BY <1>0, <2>2, <2>3
  <2>5. shown <= last_frame /\ received + 1 # None
    BY <2>3, <1>0 DEF Order, None
  <2>6. \/ pc' = "idle" /\ next' = next
        \/ pc' = "loop" /\ next' = received + 1
    BY <2>3, <2>5, DecideLoop
  <2> QED BY <1>0, <2>3, <2>4, <2>5, <2>6 DEF Order
<1>2. ASSUME Flush PROVE Order'
  <2> DEFINE nb == Middle(last_nb0_frames[1], last_nb0_frames[2], last_nb0_frames[3])
  <2>1. Decide(None, nb, nb) /\ pc = "idle"
        /\ UNCHANGED <<sync_opts, last_frame, received, shown, stamp>>
    BY <1>2 DEF Flush
  <2> HIDE DEF nb
  <2>2. \/ pc' = "flush" /\ next' = next
        \/ pc' = "loop" /\ next' = None /\ nb0_frames' = nb /\ nb_frames' = nb
    BY <2>1, DecideLoop
  <2> QED BY <1>0, <2>1, <2>2 DEF Order, None
<1>3. ASSUME SendFrame PROVE Order'
  <2>1. pc = "loop" /\ i < nb_frames /\ InPicture # None
        /\ shown' = InPicture /\ stamp' = sync_opts /\ sync_opts' = sync_opts + 1 /\ i' = i + 1
        /\ UNCHANGED <<last_frame, received, pc, next, nb_frames, nb0_frames>>
    BY <1>3 DEF SendFrame
  <2>2. stamp' < sync_opts'
    BY <2>1, <1>0
  <2>3. CASE i < nb0_frames /\ last_frame # None
    BY <2>1, <2>2, <2>3, <1>0 DEF InPicture, Order
  <2>4. CASE ~(i < nb0_frames /\ last_frame # None)
    <3>1. InPicture = next
      BY <2>4 DEF InPicture
    <3>2. last_frame # None => ~(i' <= nb0_frames')
      BY <2>4, <2>1, <1>0
    <3> QED BY <2>1, <2>2, <3>1, <3>2, <1>0 DEF Order
  <2> QED BY <2>3, <2>4
<1>4. CASE KeepPicture
  <2>1. pc = "loop" /\ last_frame' = next /\ pc' = (IF next = None THEN "flush" ELSE "idle")
        /\ UNCHANGED <<sync_opts, received, shown, stamp, next>>
    BY <1>4 DEF KeepPicture
  <2> QED BY <2>1, <1>0 DEF Order
<1>5. CASE EncoderReturns
  BY <1>5 DEF EncoderReturns, Order
<1>6. CASE FlushEncoder
  BY <1>6 DEF FlushEncoder, Order
<1>7. CASE NoPicture \/ Stop \/ Finish
  BY <1>7 DEF NoPicture, Stop, Finish, Order
<1>8. CASE UNCHANGED vars
  BY <1>8 DEF vars, Order
<1> QED BY <1>1, <1>2, <1>3, <1>4, <1>5, <1>6, <1>7, <1>8 DEF Next

LEMMA PlaceStep == TypeOK /\ Order /\ Place /\ [Next]_vars => Place'
<1> SUFFICES ASSUME TypeOK, Order, Place, [Next]_vars PROVE Place'
  OBVIOUS
<1> USE DEF modeVars, countVars, pictureVars, loopVars, muxVars
<1>0. received \in Nat /\ i \in Nat /\ nb_frames \in Nat /\ sync_opts \in Nat
  BY DEF TypeOK
<1>1. ASSUME NEW st \in Steps, Picture(st) PROVE Place'
  <2> DEFINE t == ipts + st
  <2>1. t \in Nat /\ t >= ipts
    BY DEF TypeOK
  <2>2. Frames(t) \in Nat
    BY <2>1, Decision
  <2>3. Decide(received + 1, Frames(t), OldFrames(t)) /\ pc = "idle" /\ received' = received + 1
    BY <1>1 DEF Picture
  <2> HIDE DEF t
  <2>4. \/ UNCHANGED <<i, nb_frames>>
        \/ i' = 0 /\ nb_frames' = Frames(t) /\ pc' = "loop"
    BY <2>3, DecideLoop
  <2> QED BY <1>0, <2>2, <2>3, <2>4 DEF Place
<1>2. ASSUME Flush PROVE Place'
  <2> DEFINE nb == Middle(last_nb0_frames[1], last_nb0_frames[2], last_nb0_frames[3])
  <2>1. nb \in Nat
    BY DEF TypeOK, Middle, Greater, Lesser
  <2>2. Decide(None, nb, nb) /\ pc = "idle" /\ UNCHANGED <<sync_opts, received>>
    BY <1>2 DEF Flush
  <2> HIDE DEF nb
  <2>3. \/ UNCHANGED <<i, nb_frames>>
        \/ i' = 0 /\ nb_frames' = nb /\ pc' = "loop"
    BY <2>2, DecideLoop
  <2> QED BY <1>0, <2>1, <2>2, <2>3 DEF Place
<1>3. CASE SendFrame
  <2>1. pc = "loop" /\ i < nb_frames /\ InPicture # None /\ sync_opts' = sync_opts + 1 /\ i' = i + 1
        /\ UNCHANGED <<received, pc, nb_frames>>
    BY <1>3 DEF SendFrame
  <2>2. received # 0
    BY <2>1 DEF InPicture, Order, None
  <2> QED BY <2>1, <2>2, <1>0 DEF Place
<1>4. CASE KeepPicture
  BY <1>4, <1>0 DEF KeepPicture, Place
<1>5. CASE EncoderReturns
  BY <1>5 DEF EncoderReturns, Place
<1>6. CASE FlushEncoder
  BY <1>6 DEF FlushEncoder, Place
<1>7. CASE NoPicture \/ Stop \/ Finish
  BY <1>7 DEF NoPicture, Stop, Finish, Place
<1>8. CASE UNCHANGED vars
  BY <1>8 DEF vars, Place
<1> QED BY <1>1, <1>2, <1>3, <1>4, <1>5, <1>6, <1>7, <1>8 DEF Next

LEMMA CountsStep == TypeOK /\ Place /\ CountsAddUp /\ [Next]_vars => CountsAddUp'
<1> SUFFICES ASSUME TypeOK, Place, CountsAddUp, [Next]_vars, ~skipped' PROVE CountsAddUp'
  BY DEF CountsAddUp
<1> USE DEF modeVars, countVars, pictureVars, loopVars, muxVars
<1>0. /\ received \in Nat /\ i \in Nat /\ nb_frames \in Nat /\ dup \in Nat /\ drop \in Nat
      /\ frame_number \in Nat /\ last_dropped \in BOOLEAN
  BY DEF TypeOK
<1>1. One(last_dropped) \in Nat
  BY DEF One
<1>2. ASSUME NEW st \in Steps, Picture(st) PROVE CountsAddUp'
  <2> DEFINE t == ipts + st
             nb == Frames(t)
             nb0 == OldFrames(t)
  <2>1. t \in Nat /\ t >= ipts
    BY DEF TypeOK
  <2>2. nb \in Nat /\ nb0 \in 0..nb
    BY <2>1, Decision
  <2>3. Decide(received + 1, nb, nb0) /\ pc = "idle" /\ received' = received + 1
        /\ frame_number' = frame_number
    BY <1>2 DEF Picture
  <2> HIDE DEF t, nb, nb0
  <2>4. received + 1 # None
    BY <1>0 DEF None
  <2>5. /\ i' = 0 /\ nb_frames' = nb /\ dup' = dup + Repeated(nb, nb0)
        /\ drop' = drop + One(nb0 = 0 /\ last_dropped)
        /\ last_dropped' = (nb = nb0 /\ received + 1 # None) /\ skipped' = skipped
    <3> DEFINE picture == received + 1
    <3>1. Decide(picture, nb, nb0)
      BY <2>3
    <3> HIDE DEF picture
    <3>2. /\ i' = 0 /\ nb_frames' = nb /\ dup' = dup + Repeated(nb, nb0)
          /\ drop' = drop + One(nb0 = 0 /\ last_dropped)
          /\ last_dropped' = (nb = nb0 /\ picture # None) /\ skipped' = skipped
      <4>1. CASE Repeated(nb, nb0) > 0 /\ nb > MaxDup
        BY <3>1, <4>1 DEF Decide
      <4>2. CASE ~(Repeated(nb, nb0) > 0 /\ nb > MaxDup)
        BY <3>1, <4>2 DEF Decide
      <4> QED BY <4>1, <4>2
    <3> QED BY <3>2 DEF picture
  <2>6. One(last_dropped') = One(nb = nb0)
    BY <2>4, <2>5 DEF One
  <2>7. /\ Repeated(nb, nb0) \in Nat
        /\ Repeated(nb, nb0) + 1 + One(last_dropped) = nb + One(nb0 = 0 /\ last_dropped) + One(nb = nb0)
    <3>1. last_dropped \in BOOLEAN
      BY DEF TypeOK
    <3>2. Balanced(nb, nb0)
      BY <3>1, <2>2, Balance
    <3> QED BY <3>2 DEF Balanced
  <2>8. i = nb_frames /\ received + dup = frame_number + (nb_frames - i) + drop + One(last_dropped)
    BY <2>3, <2>5 DEF CountsAddUp, Place
  <2>9. One(nb0 = 0 /\ last_dropped) \in Nat /\ One(nb = nb0) \in Nat
    BY DEF One
  <2>10. received' + dup' = frame_number' + (nb_frames' - i') + drop' + One(last_dropped')
    BY <1>0, <1>1, <2>2, <2>3, <2>5, <2>6, <2>7, <2>8, <2>9
  <2> QED BY <2>10 DEF CountsAddUp
<1>3. ASSUME Flush PROVE CountsAddUp'
  <2> DEFINE nb == Middle(last_nb0_frames[1], last_nb0_frames[2], last_nb0_frames[3])
  <2>1. nb \in Nat /\ nb \in 0..nb
    BY DEF TypeOK, Middle, Greater, Lesser
  <2>2. Decide(None, nb, nb) /\ pc = "idle" /\ UNCHANGED <<received, frame_number>>
    BY <1>3 DEF Flush
  <2> HIDE DEF nb
  <2>3. /\ i' = 0 /\ nb_frames' = nb /\ dup' = dup + Repeated(nb, nb)
        /\ drop' = drop + One(nb = 0 /\ last_dropped)
        /\ last_dropped' = (nb = nb /\ None # None) /\ skipped' = skipped
    BY <2>2, DecideLoop
  <2>4. One(last_dropped') = 0 /\ One(nb = nb) = 1
    BY <2>3 DEF One
  <2>5. /\ Repeated(nb, nb) \in Nat
        /\ Repeated(nb, nb) + 1 + One(last_dropped) = nb + One(nb = 0 /\ last_dropped) + One(nb = nb)
    BY <1>0, <2>1, Balance DEF Balanced
  <2>6. i = nb_frames /\ received + dup = frame_number + (nb_frames - i) + drop + One(last_dropped)
    BY <2>2, <2>3 DEF CountsAddUp, Place
  <2>7. One(nb = 0 /\ last_dropped) \in Nat
    BY DEF One
  <2>8. received' + dup' = frame_number' + (nb_frames' - i') + drop' + One(last_dropped')
    BY <1>0, <1>1, <2>1, <2>2, <2>3, <2>4, <2>5, <2>6, <2>7
  <2> QED BY <2>8 DEF CountsAddUp
<1>4. CASE SendFrame
  <2>1. /\ frame_number' = frame_number + 1 /\ i' = i + 1
        /\ UNCHANGED <<received, dup, drop, last_dropped, nb_frames, skipped>>
    BY <1>4 DEF SendFrame
  <2>2. received + dup = frame_number + (nb_frames - i) + drop + One(last_dropped)
    BY <2>1 DEF CountsAddUp
  <2>3. One(last_dropped') = One(last_dropped)
    BY <2>1
  <2>4. received' + dup' = frame_number' + (nb_frames' - i') + drop' + One(last_dropped')
    BY <1>0, <1>1, <2>1, <2>2, <2>3
  <2> QED BY <2>4 DEF CountsAddUp
<1>5. CASE KeepPicture \/ EncoderReturns \/ FlushEncoder \/ NoPicture \/ Stop \/ Finish \/ UNCHANGED vars
  <2>1. UNCHANGED <<received, dup, frame_number, nb_frames, i, drop, last_dropped, skipped>>
    BY <1>5 DEF KeepPicture, EncoderReturns, FlushEncoder, NoPicture, Stop, Finish, vars
  <2> QED BY <2>1 DEF CountsAddUp
<1> QED BY <1>2, <1>3, <1>4, <1>5 DEF Next

LEMMA DriftStep == TypeOK /\ Place /\ Order /\ Drift /\ [Next]_vars => Drift'
<1> SUFFICES ASSUME TypeOK, Place, Order, Drift, [Next]_vars PROVE Drift'
  OBVIOUS
<1> USE DEF modeVars, countVars, pictureVars, loopVars, muxVars
<1>0. /\ received \in Nat /\ i \in Nat /\ nb_frames \in Nat /\ sync_opts \in Nat
      /\ ipts \in Nat /\ duration \in Nat
  BY DEF TypeOK
<1>1. ASSUME NEW st \in Steps, Picture(st), ~skipped' PROVE Drift'
  <2> DEFINE t == ipts + st
  <2>1. t \in Nat /\ t >= ipts
    BY DEF TypeOK
  <2>2. NextOpts(t) \in Nat /\ Frames(t) \in Nat
    BY <2>1, Decision
  <2>3. Decide(received + 1, Frames(t), OldFrames(t)) /\ pc = "idle" /\ sync_opts' = NextOpts(t)
        /\ ipts' = t /\ duration' = duration
    BY <1>1 DEF Picture
  <2>4. i' = 0 /\ nb_frames' = Frames(t) /\ skipped' = skipped
    BY <1>1, <2>3, DecideLoop
  <2>5. 10 * (NextOpts(t) + Frames(t)) - (t + duration) \in -4..21
    BY <1>1, <2>1, <2>3, <2>4, EndOfPicture
  <2> HIDE DEF t
  <2>6. 10 * (sync_opts' + nb_frames' - i') - (ipts' + duration') \in -4..21
    BY <2>1, <2>2, <2>3, <2>4, <2>5, <1>0
  <2> QED BY <2>6 DEF Drift
<1>2. ASSUME Flush PROVE Drift'
  <2> DEFINE nb == Middle(last_nb0_frames[1], last_nb0_frames[2], last_nb0_frames[3])
  <2>1. Decide(None, nb, nb)
    BY <1>2 DEF Flush
  <2> HIDE DEF nb
  <2>2. pc' = "flush" \/ (pc' = "loop" /\ next' = None)
    BY <2>1, DecideLoop
  <2> QED BY <2>2 DEF Drift
<1>3. CASE SendFrame
  <2>1. /\ pc = "loop" /\ sync_opts' = sync_opts + 1 /\ i' = i + 1
        /\ UNCHANGED <<duration, received, ipts, skipped, pc, next, nb_frames>>
    BY <1>3 DEF SendFrame
  <2>2. 10 * (sync_opts' + nb_frames' - i') - (ipts' + duration')
          = 10 * (sync_opts + nb_frames - i) - (ipts + duration)
    BY <2>1, <1>0
  <2> QED BY <2>1, <2>2 DEF Drift
<1>4. CASE KeepPicture
  <2>1. /\ pc = "loop" /\ pc' = (IF next = None THEN "flush" ELSE "idle")
        /\ UNCHANGED <<duration, received, ipts, skipped, next, sync_opts, i, nb_frames>>
    BY <1>4 DEF KeepPicture
  <2>2. 10 * (sync_opts' + nb_frames' - i') - (ipts' + duration')
          = 10 * (sync_opts + nb_frames - i) - (ipts + duration)
    BY <2>1
  <2> QED BY <2>1, <2>2 DEF Drift
<1>5. CASE NoPicture \/ Stop \/ Finish
  <2>1. pc' \in {"flush", "done"}
    BY <1>5 DEF NoPicture, Stop, Finish
  <2> QED BY <2>1 DEF Drift
<1>6. CASE EncoderReturns \/ FlushEncoder \/ UNCHANGED vars
  <2>1. UNCHANGED <<duration, received, ipts, skipped, pc, next, sync_opts, i, nb_frames>>
    BY <1>6 DEF EncoderReturns, FlushEncoder, vars
  <2>2. 10 * (sync_opts' + nb_frames' - i') - (ipts' + duration')
          = 10 * (sync_opts + nb_frames - i) - (ipts + duration)
    BY <2>1
  <2> QED BY <2>1, <2>2 DEF Drift
<1>7. ASSUME skipped' PROVE Drift'
  BY <1>7 DEF Drift
<1> QED BY <1>1, <1>2, <1>3, <1>4, <1>5, <1>6, <1>7 DEF Next

\* A step that sends or writes a frame goes forward.
LEMMA RiseStep ==
  TypeOK /\ Order /\ [Next]_vars =>
    /\ frame_number' > frame_number => stamp' > stamp /\ shown' >= shown
    /\ written' > written /\ muxer = "gif" => last_mux_dts' > last_mux_dts
<1> SUFFICES ASSUME TypeOK, Order, [Next]_vars
             PROVE  /\ frame_number' > frame_number => stamp' > stamp /\ shown' >= shown
                    /\ written' > written /\ muxer = "gif" => last_mux_dts' > last_mux_dts
  OBVIOUS
<1> USE DEF modeVars, countVars, pictureVars, loopVars, muxVars
<1>0. /\ frame_number \in Nat /\ written \in Nat /\ last_mux_dts \in Int /\ last_mux_dts >= -1
      /\ shown \in Nat /\ last_frame \in Nat /\ next \in Nat /\ i \in Nat /\ nb0_frames \in Nat
      /\ nb_frames \in Nat /\ stamp \in Int /\ sync_opts \in Nat
  BY DEF TypeOK, NoPts
<1>1. CASE SendFrame
  <2>1. /\ pc = "loop" /\ i < nb_frames /\ InPicture # None
        /\ shown' = InPicture /\ stamp' = sync_opts /\ written' = written
    BY <1>1 DEF SendFrame
  <2>2. InPicture >= shown
    BY <2>1, <1>0 DEF InPicture, Order
  <2> QED BY <2>1, <2>2, <1>0 DEF Order
<1>2. CASE EncoderReturns \/ FlushEncoder
  <2>1. frame_number' = frame_number /\ inEncoder # <<>>
    BY <1>2 DEF EncoderReturns, FlushEncoder
  <2>2. CASE UNCHANGED muxVars
    BY <2>1, <2>2, <1>0
  <2>3. CASE WritePacket(Head(inEncoder))
    <3>1. Head(inEncoder) \in Nat
      BY <2>1, HeadTailProperties DEF TypeOK
    <3>2. Rescale(Head(inEncoder)) \in Nat
      BY <3>1, RescaleType
    <3>3. muxer = "gif" => MuxDts(Rescale(Head(inEncoder))) > last_mux_dts
      BY <3>2, <1>0 DEF MuxDts, NoPts
    <3>4. last_mux_dts' = MuxDts(Rescale(Head(inEncoder)))
      BY <2>3 DEF WritePacket
    <3> QED BY <2>1, <3>3, <3>4, <1>0
  <2> QED BY <1>2, <2>2, <2>3 DEF EncoderReturns, FlushEncoder
<1>3. CASE (\E st \in Steps : Picture(st)) \/ Flush
  <2>1. UNCHANGED <<frame_number, written>>
    BY <1>3 DEF Picture, Flush
  <2> QED BY <2>1, <1>0
<1>4. CASE KeepPicture \/ NoPicture \/ Stop \/ Finish \/ UNCHANGED vars
  <2>1. UNCHANGED <<frame_number, written>>
    BY <1>4 DEF KeepPicture, NoPicture, Stop, Finish, vars
  <2> QED BY <2>1, <1>0
<1> QED BY <1>1, <1>2, <1>3, <1>4 DEF Next

LEMMA Invariance == Spec => []Inv
<1>1. Inv /\ [Next]_vars => Inv'
  BY TypeStep, OrderStep, PlaceStep, CountsStep, DriftStep DEF Inv
<1> QED BY InitInv, <1>1, PTL DEF Spec

-----------------------------------------------------------------------------
\* Counts, numbers and timestamps stay in their ranges; of the frames made of
\* a picture never more repeat the one before than there are.
THEOREM FrameRateTypes == Spec => []TypeOK
BY Invariance, PTL DEF Inv

\* Whatever the times of the pictures and the clock of the file: frames are
\* sent with rising timestamps and written with rising ones.
THEOREM FrameStampsRise == Spec => StampsRise
<1>1. Inv /\ [Next]_vars =>
        [/\ frame_number' > frame_number => stamp' > stamp /\ shown' >= shown
         /\ written' > written /\ muxer = "gif" => last_mux_dts' > last_mux_dts]_vars
  BY RiseStep DEF Inv
<1> QED BY <1>1, Invariance, PTL DEF Spec, StampsRise

\* Every picture is sent, or counted as dropped, and every frame more is
\* counted as a repetition.
THEOREM FrameCountsAddUp == Spec => []CountsAddUp
BY Invariance, PTL DEF Inv

\* After any number of pictures the output is at most 2.1 frames ahead of, and
\* less than half a frame behind, the end of the last one.
THEOREM FrameDriftBounded == Spec => []DriftBounded
<1>1. Inv => DriftBounded
  <2> SUFFICES ASSUME Inv, pc = "idle", received > 0, ~skipped
               PROVE  10 * sync_opts - (ipts + duration) \in -4..21
    BY DEF DriftBounded
  <2>1. 10 * (sync_opts + nb_frames - i) - (ipts + duration) \in -4..21 /\ i = nb_frames
    BY DEF Inv, Drift, Place
  <2>2. sync_opts \in Nat /\ nb_frames \in Nat
    BY DEF Inv, TypeOK
  <2> QED BY <2>1, <2>2
<1> QED BY <1>1, Invariance, PTL
=============================================================================
