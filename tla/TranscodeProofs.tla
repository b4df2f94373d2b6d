-------------------------- MODULE TranscodeProofs --------------------------
(***************************************************************************)
(* Proofs about Transcode, for any number of files and packets and any     *)
(* delay of decoder and encoder: what holds in every state of the loop,    *)
(* and that the loop implements the safety of FramePipe.                   *)
(***************************************************************************)
EXTENDS Transcode, FiniteSetTheorems, WellFoundedInduction, TLAPS

-----------------------------------------------------------------------------
(* The choice of an input                                                  *)

\* A set of natural numbers has a least element.
LEMMA LeastNumber ==
  ASSUME NEW S \in SUBSET Nat, S # {}
  PROVE  \E m \in S : \A s \in S : m <= s
<1> DEFINE Upto(s) == 0..s
           T == {Upto(s) : s \in S}
<1>1. T \subseteq FiniteSubsetsOf(Nat) /\ T # {}
  <2>1. \A s \in S : Upto(s) \in SUBSET Nat /\ IsFiniteSet(Upto(s))
    BY FS_Interval
  <2> QED BY <2>1 DEF FiniteSubsetsOf
<1>2. PICK x \in T : \A y \in T : <<y, x>> \notin StrictSubsetOrdering(Nat)
  <2> HIDE DEF T
  <2> QED BY <1>1, WFMin, FS_StrictSubsetOrderingWellFounded
<1>3. PICK m \in S : x = Upto(m)
  BY <1>2
<1>4. ASSUME NEW s \in S, s < m
      PROVE  FALSE
  <2>1. Upto(s) \in T /\ Upto(s) \subseteq Upto(m) /\ m \in Upto(m) /\ m \notin Upto(s)
    BY <1>4
  <2>2. <<Upto(s), x>> \in StrictSubsetOrdering(Nat)
    BY <2>1, <1>3 DEF StrictSubsetOrdering
  <2> QED BY <2>1, <2>2, <1>2
<1> QED BY <1>4

\* One of some files is asked most often, and there is a first one of them.
LEMMA MostAsked ==
  ASSUME NEW C \in SUBSET Files, C # {}, NEW asked \in [Files -> Nat]
  PROVE  \E f \in C : \A g \in C : asked[g] < asked[f] \/ (asked[g] = asked[f] /\ f <= g)
<1> DEFINE Upto(n) == {g \in C : g <= n}
           Beats(f, g) == asked[g] < asked[f] \/ (asked[g] = asked[f] /\ f <= g)
           Has(n) == \E f \in Upto(n) : \A g \in Upto(n) : Beats(f, g)
           Bad == {n \in Files : Upto(n) # {} /\ ~Has(n)}
<1>0. NumFiles \in Nat \ {0} /\ NumFiles \in Files /\ C = Upto(NumFiles)
  <2>1. NumFiles \in Nat \ {0} /\ NumFiles \in Files
    BY NumFilesAssumption DEF Files
  <2>2. \A g \in C : g <= NumFiles
    BY DEF Files
  <2>3. C = Upto(NumFiles)
    BY <2>2
  <2> QED BY <2>1, <2>3
<1>1. CASE Bad = {}
  <2>1. Has(NumFiles)
    <3> HIDE DEF Upto, Has
    <3> QED BY <1>0, <1>1
  <2> QED BY <1>0, <2>1
<1>2. CASE Bad # {}
  <2>1. PICK n \in Bad : \A m \in Bad : n <= m
    <3>1. Bad \in SUBSET Nat
      BY DEF Files
    <3> HIDE DEF Bad
    <3> QED BY <1>2, <3>1, LeastNumber
  <2>2. n \in Files /\ Upto(n) # {} /\ ~Has(n)
    BY <2>1
  <2>3. CASE Upto(n - 1) = {}
    <3>1. \A g \in Upto(n) : g = n
      BY <2>2, <2>3 DEF Files
    <3>2. Has(n)
      BY <2>2, <3>1 DEF Files
    <3> QED BY <2>2, <3>2
  <2>4. CASE Upto(n - 1) # {}
    <3>1. n - 1 \in Files /\ ~(n <= n - 1)
      <4>1. PICK g \in C : g <= n - 1
        BY <2>4
      <4>2. g \in Nat /\ g >= 1 /\ n \in Nat /\ n <= NumFiles
        BY <2>2 DEF Files
      <4> QED BY <4>1, <4>2, <1>0 DEF Files
    <3>2. Has(n - 1)
      <4>1. n - 1 \notin Bad
        <5> HIDE DEF Bad
        <5> QED BY <2>1, <3>1
      <4> HIDE DEF Has, Upto
      <4> QED BY <4>1, <3>1, <2>4
    <3>3. PICK f \in Upto(n - 1) : \A g \in Upto(n - 1) : Beats(f, g)
      BY <3>2
    <3>4. \A g \in Upto(n) : g \in Upto(n - 1) \/ (g = n /\ n \in C)
      BY <2>2 DEF Files
    <3>5. f \in Upto(n) /\ f < n /\ f \in Files
      BY <2>2 DEF Files
    <3>6. CASE n \notin C \/ Beats(f, n)
      <4>1. \A g \in Upto(n) : Beats(f, g)
        <5> HIDE DEF Beats, Upto
        <5> QED BY <3>3, <3>4, <3>6
      <4> QED BY <2>2, <3>5, <4>1
    <3>7. CASE n \in C /\ ~Beats(f, n)
      <4>0. /\ asked[f] \in Nat /\ asked[n] \in Nat /\ f \in Nat /\ n \in Nat /\ n \in C
            /\ ~(asked[n] < asked[f] \/ (asked[n] = asked[f] /\ f <= n))
        <5>1. asked[f] \in Nat /\ asked[n] \in Nat
          <6> HIDE DEF Beats, Upto, Has, Bad
          <6> QED BY <2>2, <3>5
        <5>2. f \in Nat /\ n \in Nat
          BY <2>2, <3>5 DEF Files
        <5> QED BY <5>1, <5>2, <3>7
      <4>1. asked[f] < asked[n]
        BY <4>0, <3>5
      <4>2. \A g \in Upto(n - 1) : asked[g] <= asked[f]
        BY <3>3, <3>5
      <4>3. \A g \in Upto(n) : Beats(n, g)
        <5>1. ASSUME NEW g \in Upto(n)
              PROVE  Beats(n, g)
          <6>1. CASE g = n
            BY <2>2, <6>1 DEF Files
          <6>2. CASE g \in Upto(n - 1)
            <7>1. asked[g] \in Nat /\ asked[g] <= asked[f]
              BY <4>2, <6>2
            <7> QED BY <4>0, <4>1, <7>1
          <6> QED BY <3>4, <6>1, <6>2
        <5> QED BY <5>1
      <4>4. n \in Upto(n)
        BY <2>2, <3>7 DEF Files
      <4> QED BY <2>2, <4>3, <4>4
    <3> QED BY <3>6, <3>7
  <2> QED BY <2>3, <2>4
<1> QED BY <1>1, <1>2

\* The input that is read is one that could be.
LEMMA BestIsCandidate ==
  ASSUME NEW asked \in [Files -> Nat], Candidates(asked) # {}
  PROVE  Best(asked) \in Candidates(asked)
<1>1. Candidates(asked) \in SUBSET Files
  BY DEF Candidates
<1>2. \E f \in Candidates(asked) : \A g \in Candidates(asked) :
        asked[g] < asked[f] \/ (asked[g] = asked[f] /\ f <= g)
  <2> HIDE DEF Candidates
  <2> QED BY <1>1, MostAsked
<1> QED BY <1>2 DEF Best

-----------------------------------------------------------------------------
(* The invariant                                                           *)

Loop == {"top", "input", "decode", "reap", "encode"}

\* In the loop exactly the files read to their end are closed, and the file
\* at work is not one of them. After it the files are closed in their order.
Closing ==
  /\ pc \in Loop => closed = eof
  /\ pc \in {"input", "decode"} => ist \in Files \ eof
  /\ pc = "drain" => \A f \in closed : f \in eof \/ f < ist

\* Frames go from stage to stage, and none is lost unless something failed.
Stages ==
  /\ written + inEncoder <= encoded
  /\ encoded <= reaped /\ reaped <= emitted /\ emitted <= accepted[Video]
  /\ finished = {} => encoded = reaped
  /\ ~broken => written + inEncoder = encoded

\* The stream is closed only when the video has ended and nothing is left in
\* the filters, the main thread leaves the loop only then, and the video ends
\* only when its file and its decoder are empty or it was cut.
Ending ==
  /\ flush => pc \in {"reap", "encode"} /\ VideoEnded /\ emitted = accepted[Video]
  /\ ~broken /\ finished # {} => VideoEnded /\ encoded = accepted[Video]
  /\ ~broken /\ pc \in {"drain", "flush", "done"} => finished # {}
  /\ ~broken /\ VideoEnded => VideoDone
  /\ "muxer" \in finished => broken
  /\ ~broken /\ pc = "done" => inEncoder = 0

IInv == TypeOK /\ Closing /\ NoFrameAfterEof /\ WaitsOnlyForInput /\ Stages /\ Ending

LEMMA VideoFile == Video \in Files /\ NumFiles \in Nat
BY NumFilesAssumption DEF Files, Video

LEMMA InitIInv == Init => IInv
<1> SUFFICES ASSUME Init PROVE IInv
  OBVIOUS
<1>1. TypeOK
  <2>1. again \in [Files -> 0..MaxAgain]
    BY BoundsAssumption DEF Init
  <2>2. 1 \in 1..(NumFiles + 1)
    BY VideoFile
  <2> QED BY <2>1, <2>2 DEF Init, TypeOK, States
<1>2. Closing /\ NoFrameAfterEof /\ WaitsOnlyForInput
  BY DEF Init, Closing, NoFrameAfterEof, WaitsOnlyForInput
<1>3. Stages /\ Ending
  BY VideoFile DEF Init, Stages, Ending, VideoEnded
<1> QED BY <1>1, <1>2, <1>3 DEF IInv

-----------------------------------------------------------------------------
(* Types                                                                   *)

\* The types of the three groups of variables the graph's operators change.
GraphType ==
  /\ held \in [Files -> Nat] /\ failed \in [Files -> Nat]
  /\ closed \subseteq Files /\ accepted \in [Files -> Nat]
  /\ cut \in BOOLEAN /\ rejected \in BOOLEAN /\ emitted \in Nat
InputType ==
  /\ left \in [Files -> 0..MaxPackets] /\ again \in [Files -> 0..MaxAgain]
  /\ eagain \subseteq Files /\ eof \subseteq Files
OutputType ==
  /\ finished \subseteq {"encoder", "muxer"} /\ unavailable \in BOOLEAN
  /\ reaped \in Nat /\ encoded \in Nat /\ inEncoder \in Nat
  /\ written \in Nat
ControlType ==
  /\ pc \in States /\ ist \in 1..(NumFiles + 1)
  /\ flush \in BOOLEAN /\ broken \in BOOLEAN

LEMMA TypeParts == TypeOK <=> GraphType /\ InputType /\ OutputType /\ ControlType
BY DEF TypeOK, GraphType, InputType, OutputType, ControlType
LEMMA NextTypeParts == GraphType' /\ InputType' /\ OutputType' /\ ControlType' => TypeOK'
BY DEF TypeOK, GraphType, InputType, OutputType, ControlType

\* What DrainFrame, and DecodeFrame with it, does to the graph.
LEMMA DrainFrameFacts ==
  ASSUME GraphType, emitted <= accepted[Video], NEW f \in Files, f \notin closed, DrainFrame(f)
  PROVE  /\ GraphType'
         /\ UNCHANGED <<closed, rejected>>
         /\ emitted' >= emitted /\ emitted' <= accepted'[Video]
         /\ cut => cut'
         /\ VideoEnded => emitted' \in emitted..accepted[Video] /\ accepted'[Video] = accepted[Video] /\ UNCHANGED cut
         /\ held[f] > 0 /\ held' = [held EXCEPT ![f] = @ - 1]
         /\ \/ UNCHANGED <<accepted, emitted>> /\ cut'
            \/ UNCHANGED cut /\ accepted'[Video] \in {accepted[Video], accepted[Video] + 1}
<1>1. /\ held[f] > 0 /\ held' = [held EXCEPT ![f] = @ - 1] /\ failed' = [failed EXCEPT ![f] = 0]
      /\ UNCHANGED closed
  BY DEF DrainFrame, InjectFrame
<1>2. held' \in [Files -> Nat] /\ failed' \in [Files -> Nat]
  BY <1>1 DEF GraphType
<1>3. accepted[Video] \in Nat /\ emitted \in Nat
  BY VideoFile DEF GraphType
<1>4. CASE f = Video /\ cut' = TRUE /\ UNCHANGED <<accepted, rejected, emitted>>
  <2>1. cut \in BOOLEAN /\ (VideoEnded => cut)
    BY <1>4 DEF GraphType, VideoEnded
  <2>2. GraphType'
    BY <1>1, <1>2, <1>4 DEF GraphType
  <2>3. emitted' \in emitted..accepted[Video] /\ emitted' >= emitted /\ emitted' <= accepted'[Video]
    BY <1>3, <1>4
  <2>4. cut' /\ (VideoEnded => UNCHANGED cut)
    BY <2>1, <1>4
  <2> QED BY <1>1, <1>4, <2>2, <2>3, <2>4
<1>5. CASE /\ Starved(f)
           /\ accepted' = [accepted EXCEPT ![f] = @ + 1]
           /\ MayEmit(accepted')
           /\ UNCHANGED <<cut, rejected>>
  <2>1. accepted' \in [Files -> Nat]
    BY <1>5 DEF GraphType
  <2>2. accepted'[Video] \in Nat /\ emitted' \in emitted..accepted'[Video]
    BY <1>5, <2>1, VideoFile DEF MayEmit
  <2>3. accepted'[Video] = IF f = Video THEN accepted[Video] + 1 ELSE accepted[Video]
    BY <1>5, VideoFile DEF GraphType
  <2>4. VideoEnded => f # Video
    BY <1>5 DEF Starved, VideoEnded
  <2>5. VideoEnded => accepted'[Video] = accepted[Video]
    BY <2>3, <2>4
  <2>6. accepted'[Video] \in {accepted[Video], accepted[Video] + 1}
    BY <2>3
  <2> QED BY <1>1, <1>2, <1>3, <1>5, <2>1, <2>2, <2>5, <2>6 DEF GraphType
<1>6. \/ f = Video /\ cut' = TRUE /\ UNCHANGED <<accepted, rejected, emitted>>
      \/ /\ Starved(f)
         /\ accepted' = [accepted EXCEPT ![f] = @ + 1]
         /\ MayEmit(accepted')
         /\ UNCHANGED <<cut, rejected>>
  BY DEF DrainFrame, InjectFrame
<1> QED BY <1>4, <1>5, <1>6

\* And what DrainEnd does.
LEMMA DrainEndFacts ==
  ASSUME GraphType, broken \in BOOLEAN, NEW f \in Files, DrainEnd(f)
  PROVE  /\ GraphType'
         /\ broken' \in BOOLEAN /\ (broken => broken')
         /\ closed' = closed \cup {f} /\ held' = [held EXCEPT ![f] = 0]
         /\ UNCHANGED <<accepted, cut, rejected, emitted>>
BY DEF DrainEnd, SendFilterEof, GraphType

-----------------------------------------------------------------------------
(* Steps that leave the graph alone                                        *)

LEMMA LoopEndsStep == IInv /\ LoopEnds => IInv'
<1> SUFFICES ASSUME IInv, LoopEnds PROVE IInv'
  OBVIOUS
<1>1. TypeOK'
  BY VideoFile DEF IInv, TypeOK, States, LoopEnds, inputVars, graphVars, outputVars, controlVars
<1>2. Closing'
  BY VideoFile DEF IInv, TypeOK, Closing, Loop, LoopEnds, inputVars, graphVars, outputVars, controlVars
<1>3. NoFrameAfterEof' /\ WaitsOnlyForInput'
  BY DEF IInv, NoFrameAfterEof, WaitsOnlyForInput, LoopEnds, inputVars, graphVars, outputVars, controlVars
<1>4. Stages'
  BY VideoFile DEF IInv, TypeOK, Stages, LoopEnds, inputVars, graphVars, outputVars, controlVars
<1>5. Ending'
  BY VideoFile DEF IInv, TypeOK, Stages, Ending, VideoEnded, VideoDone, LoopEnds, inputVars, graphVars, outputVars, controlVars
<1> QED BY <1>1, <1>2, <1>3, <1>4, <1>5 DEF IInv

LEMMA ResetEagainStep == IInv /\ ResetEagain => IInv'
<1> SUFFICES ASSUME IInv, ResetEagain PROVE IInv'
  OBVIOUS
<1>1. TypeOK'
  BY VideoFile DEF IInv, TypeOK, States, ResetEagain, inputVars, graphVars, outputVars, controlVars
<1>2. Closing'
  BY VideoFile DEF IInv, TypeOK, Closing, Loop, ResetEagain, inputVars, graphVars, outputVars, controlVars
<1>3. NoFrameAfterEof' /\ WaitsOnlyForInput'
  BY DEF IInv, NoFrameAfterEof, WaitsOnlyForInput, ResetEagain, inputVars, graphVars, outputVars, controlVars
<1>4. Stages'
  BY VideoFile DEF IInv, TypeOK, Stages, ResetEagain, inputVars, graphVars, outputVars, controlVars
<1>5. Ending'
  BY VideoFile DEF IInv, TypeOK, Stages, Ending, VideoEnded, VideoDone, ResetEagain, inputVars, graphVars, outputVars, controlVars
<1> QED BY <1>1, <1>2, <1>3, <1>4, <1>5 DEF IInv

LEMMA RequestFrameStep == IInv /\ RequestFrame => IInv'
<1> SUFFICES ASSUME IInv, RequestFrame PROVE IInv'
  OBVIOUS
<1>1. TypeOK'
  <2>1. GraphType /\ InputType /\ OutputType /\ ControlType
    BY TypeParts DEF IInv
  <2>2. GraphType'
    BY <2>1 DEF GraphType, RequestFrame, Requests, graphVars
  <2>3. InputType'
    BY <2>1 DEF InputType, RequestFrame, Requests, inputVars
  <2>4. OutputType' /\ ControlType'
    BY <2>1 DEF OutputType, ControlType, States, RequestFrame, Requests, outputVars, controlVars
  <2> QED BY <2>2, <2>3, <2>4, NextTypeParts
<1>2. Closing'
  BY VideoFile DEF IInv, TypeOK, Closing, Loop, RequestFrame, Requests, inputVars, graphVars, outputVars, controlVars
<1>3. NoFrameAfterEof' /\ WaitsOnlyForInput'
  BY DEF IInv, NoFrameAfterEof, WaitsOnlyForInput, RequestFrame, Requests, inputVars, graphVars, outputVars, controlVars
<1>4. Stages'
  BY VideoFile DEF IInv, TypeOK, Stages, RequestFrame, Requests, inputVars, graphVars, outputVars, controlVars
<1>5. Ending'
  BY VideoFile DEF IInv, TypeOK, Stages, Ending, VideoEnded, VideoDone, RequestFrame, Requests, inputVars, graphVars, outputVars, controlVars
<1> QED BY <1>1, <1>2, <1>3, <1>4, <1>5 DEF IInv

LEMMA RequestEofStep == IInv /\ RequestEof => IInv'
<1> SUFFICES ASSUME IInv, RequestEof PROVE IInv'
  OBVIOUS
<1>1. TypeOK'
  BY VideoFile DEF IInv, TypeOK, States, RequestEof, Requests, inputVars, graphVars, outputVars, controlVars
<1>2. Closing'
  BY VideoFile DEF IInv, TypeOK, Closing, Loop, RequestEof, Requests, inputVars, graphVars, outputVars, controlVars
<1>3. NoFrameAfterEof' /\ WaitsOnlyForInput'
  BY DEF IInv, NoFrameAfterEof, WaitsOnlyForInput, RequestEof, Requests, inputVars, graphVars, outputVars, controlVars
<1>4. Stages'
  BY VideoFile DEF IInv, TypeOK, Stages, RequestEof, Requests, inputVars, graphVars, outputVars, controlVars
<1>5. Ending'
  BY VideoFile DEF IInv, TypeOK, Stages, Ending, VideoEnded, VideoDone, RequestEof, Requests, inputVars, graphVars, outputVars, controlVars
<1> QED BY <1>1, <1>2, <1>3, <1>4, <1>5 DEF IInv

LEMMA RequestFailsStep == IInv /\ RequestFails => IInv'
<1> SUFFICES ASSUME IInv, RequestFails PROVE IInv'
  OBVIOUS
<1>1. TypeOK'
  BY VideoFile DEF IInv, TypeOK, States, RequestFails, Requests, inputVars, graphVars, outputVars, controlVars
<1>2. Closing'
  BY VideoFile DEF IInv, TypeOK, Closing, Loop, RequestFails, Requests, inputVars, graphVars, outputVars, controlVars
<1>3. NoFrameAfterEof' /\ WaitsOnlyForInput'
  BY DEF IInv, NoFrameAfterEof, WaitsOnlyForInput, RequestFails, Requests, inputVars, graphVars, outputVars, controlVars
<1>4. Stages'
  BY VideoFile DEF IInv, TypeOK, Stages, RequestFails, Requests, inputVars, graphVars, outputVars, controlVars
<1>5. Ending'
  BY VideoFile DEF IInv, TypeOK, Stages, Ending, VideoEnded, VideoDone, RequestFails, Requests, inputVars, graphVars, outputVars, controlVars
<1> QED BY <1>1, <1>2, <1>3, <1>4, <1>5 DEF IInv

LEMMA InputAgainStep == IInv /\ InputAgain => IInv'
<1> SUFFICES ASSUME IInv, InputAgain PROVE IInv'
  OBVIOUS
<1>1. TypeOK'
  <2>1. GraphType /\ InputType /\ OutputType /\ ControlType
    BY TypeParts DEF IInv
  <2>2. GraphType'
    BY <2>1 DEF GraphType, InputAgain, graphVars
  <2>3. InputType'
    <3>1. again' = [again EXCEPT ![ist] = @ - 1] /\ again[ist] > 0 /\ eagain' = eagain \cup {ist}
          /\ UNCHANGED <<left, eof>> /\ ist \in Files
      BY DEF InputAgain, IInv, Closing
    <3>2. again' \in [Files -> 0..MaxAgain]
      BY <2>1, <3>1, BoundsAssumption DEF InputType
    <3> QED BY <2>1, <3>1, <3>2 DEF InputType
  <2>4. OutputType' /\ ControlType'
    BY <2>1 DEF OutputType, ControlType, States, InputAgain, outputVars, controlVars
  <2> QED BY <2>2, <2>3, <2>4, NextTypeParts
<1>2. Closing'
  BY VideoFile DEF IInv, TypeOK, Closing, Loop, InputAgain, inputVars, graphVars, outputVars, controlVars
<1>3. NoFrameAfterEof' /\ WaitsOnlyForInput'
  BY DEF IInv, NoFrameAfterEof, WaitsOnlyForInput, InputAgain, inputVars, graphVars, outputVars, controlVars
<1>4. Stages'
  BY VideoFile DEF IInv, TypeOK, Stages, InputAgain, inputVars, graphVars, outputVars, controlVars
<1>5. Ending'
  BY VideoFile DEF IInv, TypeOK, Stages, Ending, VideoEnded, VideoDone, InputAgain, inputVars, graphVars, outputVars, controlVars
<1> QED BY <1>1, <1>2, <1>3, <1>4, <1>5 DEF IInv

LEMMA InputDroppedStep == IInv /\ InputDropped => IInv'
<1> SUFFICES ASSUME IInv, InputDropped PROVE IInv'
  OBVIOUS
<1>1. TypeOK'
  <2>1. GraphType /\ InputType /\ OutputType /\ ControlType
    BY TypeParts DEF IInv
  <2>2. GraphType'
    BY <2>1 DEF GraphType, InputDropped, TakePacket, graphVars
  <2>3. InputType'
    <3>1. left' = [left EXCEPT ![ist] = @ - 1] /\ left[ist] > 0 /\ eagain' = {}
          /\ UNCHANGED <<again, eof>> /\ ist \in Files
      BY DEF InputDropped, TakePacket, IInv, Closing
    <3>2. left' \in [Files -> 0..MaxPackets]
      BY <2>1, <3>1, BoundsAssumption DEF InputType
    <3> QED BY <2>1, <3>1, <3>2 DEF InputType
  <2>4. OutputType' /\ ControlType'
    BY <2>1 DEF OutputType, ControlType, States, InputDropped, TakePacket, outputVars, controlVars
  <2> QED BY <2>2, <2>3, <2>4, NextTypeParts
<1>2. Closing'
  BY VideoFile DEF IInv, TypeOK, Closing, Loop, InputDropped, TakePacket, inputVars, graphVars, outputVars, controlVars
<1>3. NoFrameAfterEof' /\ WaitsOnlyForInput'
  BY DEF IInv, NoFrameAfterEof, WaitsOnlyForInput, InputDropped, TakePacket, inputVars, graphVars, outputVars, controlVars
<1>4. Stages'
  BY VideoFile DEF IInv, TypeOK, Stages, InputDropped, TakePacket, inputVars, graphVars, outputVars, controlVars
<1>5. Ending'
  BY VideoFile DEF IInv, TypeOK, Stages, Ending, VideoEnded, VideoDone, InputDropped, TakePacket, inputVars, graphVars, outputVars, controlVars
<1> QED BY <1>1, <1>2, <1>3, <1>4, <1>5 DEF IInv

LEMMA InputPacketStep == IInv /\ InputPacket => IInv'
<1> SUFFICES ASSUME IInv, InputPacket PROVE IInv'
  OBVIOUS
<1>1. TypeOK'
  <2>1. GraphType /\ InputType /\ OutputType /\ ControlType
    BY TypeParts DEF IInv
  <2>2. GraphType'
    <3>1. held' = [held EXCEPT ![ist] = @ + 1] /\ ist \in Files
          /\ UNCHANGED <<failed, closed, accepted, cut, rejected, emitted>>
      BY DEF InputPacket, IInv, Closing
    <3> QED BY <2>1, <3>1 DEF GraphType
  <2>3. InputType'
    <3>1. left' = [left EXCEPT ![ist] = @ - 1] /\ left[ist] > 0 /\ eagain' = {}
          /\ UNCHANGED <<again, eof>> /\ ist \in Files
      BY DEF InputPacket, TakePacket, IInv, Closing
    <3>2. left' \in [Files -> 0..MaxPackets]
      BY <2>1, <3>1, BoundsAssumption DEF InputType
    <3> QED BY <2>1, <3>1, <3>2 DEF InputType
  <2>4. OutputType' /\ ControlType'
    BY <2>1 DEF OutputType, ControlType, States, InputPacket, TakePacket, outputVars, controlVars
  <2> QED BY <2>2, <2>3, <2>4, NextTypeParts
<1>2. Closing'
  BY VideoFile DEF IInv, TypeOK, Closing, Loop, InputPacket, TakePacket, inputVars, graphVars, outputVars, controlVars
<1>3. NoFrameAfterEof' /\ WaitsOnlyForInput'
  BY DEF IInv, NoFrameAfterEof, WaitsOnlyForInput, InputPacket, TakePacket, inputVars, graphVars, outputVars, controlVars
<1>4. Stages'
  BY VideoFile DEF IInv, TypeOK, Stages, InputPacket, TakePacket, inputVars, graphVars, outputVars, controlVars
<1>5. Ending'
  BY VideoFile DEF IInv, TypeOK, Stages, Ending, VideoEnded, VideoDone, InputPacket, TakePacket, inputVars, graphVars, outputVars, controlVars
<1> QED BY <1>1, <1>2, <1>3, <1>4, <1>5 DEF IInv

LEMMA DecodeDoneStep == IInv /\ DecodeDone => IInv'
<1> SUFFICES ASSUME IInv, DecodeDone PROVE IInv'
  OBVIOUS
<1>1. TypeOK'
  BY VideoFile DEF IInv, TypeOK, States, DecodeDone, inputVars, graphVars, outputVars, controlVars
<1>2. Closing'
  BY VideoFile DEF IInv, TypeOK, Closing, Loop, DecodeDone, inputVars, graphVars, outputVars, controlVars
<1>3. NoFrameAfterEof' /\ WaitsOnlyForInput'
  BY DEF IInv, NoFrameAfterEof, WaitsOnlyForInput, DecodeDone, inputVars, graphVars, outputVars, controlVars
<1>4. Stages'
  BY VideoFile DEF IInv, TypeOK, Stages, DecodeDone, inputVars, graphVars, outputVars, controlVars
<1>5. Ending'
  BY VideoFile DEF IInv, TypeOK, Stages, Ending, VideoEnded, VideoDone, DecodeDone, inputVars, graphVars, outputVars, controlVars
<1> QED BY <1>1, <1>2, <1>3, <1>4, <1>5 DEF IInv

LEMMA ReapFrameStep == IInv /\ ReapFrame => IInv'
<1> SUFFICES ASSUME IInv, ReapFrame PROVE IInv'
  OBVIOUS
<1>1. TypeOK'
  BY VideoFile DEF IInv, TypeOK, States, ReapFrame, inputVars, graphVars, outputVars, controlVars
<1>2. Closing'
  BY VideoFile DEF IInv, TypeOK, Closing, Loop, ReapFrame, inputVars, graphVars, outputVars, controlVars
<1>3. NoFrameAfterEof' /\ WaitsOnlyForInput'
  BY DEF IInv, NoFrameAfterEof, WaitsOnlyForInput, ReapFrame, inputVars, graphVars, outputVars, controlVars
<1>4. Stages'
  BY VideoFile DEF IInv, TypeOK, Stages, ReapFrame, inputVars, graphVars, outputVars, controlVars
<1>5. Ending'
  BY VideoFile DEF IInv, TypeOK, Stages, Ending, VideoEnded, VideoDone, ReapFrame, inputVars, graphVars, outputVars, controlVars
<1> QED BY <1>1, <1>2, <1>3, <1>4, <1>5 DEF IInv

LEMMA ReapDoneStep == IInv /\ ReapDone => IInv'
<1> SUFFICES ASSUME IInv, ReapDone PROVE IInv'
  OBVIOUS
<1>1. TypeOK'
  BY VideoFile DEF IInv, TypeOK, States, ReapDone, inputVars, graphVars, outputVars, controlVars
<1>2. Closing'
  BY VideoFile DEF IInv, TypeOK, Closing, Loop, ReapDone, inputVars, graphVars, outputVars, controlVars
<1>3. NoFrameAfterEof' /\ WaitsOnlyForInput'
  BY DEF IInv, NoFrameAfterEof, WaitsOnlyForInput, ReapDone, inputVars, graphVars, outputVars, controlVars
<1>4. Stages'
  BY VideoFile DEF IInv, TypeOK, Stages, ReapDone, inputVars, graphVars, outputVars, controlVars
<1>5. Ending'
  BY VideoFile DEF IInv, TypeOK, Stages, Ending, VideoEnded, VideoDone, ReapDone, inputVars, graphVars, outputVars, controlVars
<1> QED BY <1>1, <1>2, <1>3, <1>4, <1>5 DEF IInv

LEMMA EncoderReturnsStep == IInv /\ EncoderReturns => IInv'
<1> SUFFICES ASSUME IInv, EncoderReturns PROVE IInv'
  OBVIOUS
<1>1. TypeOK'
  <2>1. GraphType /\ InputType /\ OutputType /\ ControlType
    BY TypeParts DEF IInv
  <2>2. GraphType'
    BY <2>1 DEF GraphType, EncoderReturns, WritePacket, graphVars
  <2>3. InputType'
    BY <2>1 DEF InputType, EncoderReturns, WritePacket, inputVars
  <2>4. OutputType' /\ ControlType'
    <3>1. /\ finished' \in {finished, {"encoder", "muxer"}} /\ broken' \in {broken, TRUE}
          /\ UNCHANGED <<unavailable, reaped, encoded, pc, ist, flush>>
      BY DEF EncoderReturns, WritePacket
    <3>2. inEncoder' \in Nat /\ written' \in Nat
      BY <2>1 DEF OutputType, EncoderReturns, WritePacket
    <3> QED BY <2>1, <3>1, <3>2 DEF OutputType, ControlType
  <2> QED BY <2>2, <2>3, <2>4, NextTypeParts
<1>2. Closing'
  BY VideoFile DEF IInv, TypeOK, Closing, Loop, EncoderReturns, WritePacket, inputVars, graphVars, outputVars, controlVars
<1>3. NoFrameAfterEof' /\ WaitsOnlyForInput'
  BY DEF IInv, NoFrameAfterEof, WaitsOnlyForInput, EncoderReturns, WritePacket, inputVars, graphVars, outputVars, controlVars
<1>4. Stages'
  BY VideoFile DEF IInv, TypeOK, Stages, EncoderReturns, WritePacket, inputVars, graphVars, outputVars, controlVars
<1>5. Ending'
  BY VideoFile DEF IInv, TypeOK, Stages, Ending, VideoEnded, VideoDone, EncoderReturns, WritePacket, inputVars, graphVars, outputVars, controlVars
<1> QED BY <1>1, <1>2, <1>3, <1>4, <1>5 DEF IInv

LEMMA EncoderWantsStep == IInv /\ EncoderWants => IInv'
<1> SUFFICES ASSUME IInv, EncoderWants PROVE IInv'
  OBVIOUS
<1>1. TypeOK'
  BY VideoFile DEF IInv, TypeOK, States, EncoderWants, inputVars, graphVars, outputVars, controlVars
<1>2. Closing'
  BY VideoFile DEF IInv, TypeOK, Closing, Loop, EncoderWants, inputVars, graphVars, outputVars, controlVars
<1>3. NoFrameAfterEof' /\ WaitsOnlyForInput'
  BY DEF IInv, NoFrameAfterEof, WaitsOnlyForInput, EncoderWants, inputVars, graphVars, outputVars, controlVars
<1>4. Stages'
  BY VideoFile DEF IInv, TypeOK, Stages, EncoderWants, inputVars, graphVars, outputVars, controlVars
<1>5. Ending'
  BY VideoFile DEF IInv, TypeOK, Stages, Ending, VideoEnded, VideoDone, EncoderWants, inputVars, graphVars, outputVars, controlVars
<1> QED BY <1>1, <1>2, <1>3, <1>4, <1>5 DEF IInv

LEMMA DecodersFlushedStep == IInv /\ DecodersFlushed => IInv'
<1> SUFFICES ASSUME IInv, DecodersFlushed PROVE IInv'
  OBVIOUS
<1>1. TypeOK'
  BY VideoFile DEF IInv, TypeOK, States, DecodersFlushed, inputVars, graphVars, outputVars, controlVars
<1>2. Closing'
  BY VideoFile DEF IInv, TypeOK, Closing, Loop, DecodersFlushed, inputVars, graphVars, outputVars, controlVars
<1>3. NoFrameAfterEof' /\ WaitsOnlyForInput'
  BY DEF IInv, NoFrameAfterEof, WaitsOnlyForInput, DecodersFlushed, inputVars, graphVars, outputVars, controlVars
<1>4. Stages'
  BY VideoFile DEF IInv, TypeOK, Stages, DecodersFlushed, inputVars, graphVars, outputVars, controlVars
<1>5. Ending'
  BY VideoFile DEF IInv, TypeOK, Stages, Ending, VideoEnded, VideoDone, DecodersFlushed, inputVars, graphVars, outputVars, controlVars
<1> QED BY <1>1, <1>2, <1>3, <1>4, <1>5 DEF IInv

LEMMA FlushEncoderStep == IInv /\ FlushEncoder => IInv'
<1> SUFFICES ASSUME IInv, FlushEncoder PROVE IInv'
  OBVIOUS
<1>1. TypeOK'
  <2>1. GraphType /\ InputType /\ OutputType /\ ControlType
    BY TypeParts DEF IInv
  <2>2. GraphType'
    BY <2>1 DEF GraphType, FlushEncoder, WritePacket, graphVars
  <2>3. InputType'
    BY <2>1 DEF InputType, FlushEncoder, WritePacket, inputVars
  <2>4. OutputType' /\ ControlType'
    <3>1. /\ finished' \in {finished, {"encoder", "muxer"}} /\ broken' \in {broken, TRUE}
          /\ UNCHANGED <<unavailable, reaped, encoded, pc, ist, flush>>
      BY DEF FlushEncoder, WritePacket
    <3>2. inEncoder' \in Nat /\ written' \in Nat
      BY <2>1 DEF OutputType, FlushEncoder, WritePacket
    <3> QED BY <2>1, <3>1, <3>2 DEF OutputType, ControlType
  <2> QED BY <2>2, <2>3, <2>4, NextTypeParts
<1>2. Closing'
  BY VideoFile DEF IInv, TypeOK, Closing, Loop, FlushEncoder, WritePacket, inputVars, graphVars, outputVars, controlVars
<1>3. NoFrameAfterEof' /\ WaitsOnlyForInput'
  BY DEF IInv, NoFrameAfterEof, WaitsOnlyForInput, FlushEncoder, WritePacket, inputVars, graphVars, outputVars, controlVars
<1>4. Stages'
  <2>1. /\ inEncoder \in Nat /\ written \in Nat /\ encoded \in Nat /\ inEncoder > 0 /\ inEncoder' = inEncoder - 1
        /\ UNCHANGED <<encoded, reaped, emitted, accepted>>
    BY DEF IInv, TypeOK, FlushEncoder, inputVars, graphVars
  <2>2. finished' = {} => finished = {}
    BY DEF FlushEncoder, WritePacket
  <2>3. CASE UNCHANGED written /\ broken'
    BY <2>1, <2>2, <2>3 DEF IInv, Stages
  <2>4. CASE written' = written + 1 /\ UNCHANGED broken
    BY <2>1, <2>2, <2>4 DEF IInv, Stages
  <2>5. "muxer" \in finished => broken
    BY DEF IInv, Ending
  <2> QED BY <2>3, <2>4, <2>5 DEF FlushEncoder, WritePacket
<1>5. Ending'
  BY VideoFile DEF IInv, TypeOK, Stages, Ending, VideoEnded, VideoDone, FlushEncoder, WritePacket, inputVars, graphVars, outputVars, controlVars
<1> QED BY <1>1, <1>2, <1>3, <1>4, <1>5 DEF IInv

LEMMA WriteTrailerStep == IInv /\ WriteTrailer => IInv'
<1> SUFFICES ASSUME IInv, WriteTrailer PROVE IInv'
  OBVIOUS
<1>1. TypeOK'
  BY VideoFile DEF IInv, TypeOK, States, WriteTrailer, inputVars, graphVars, outputVars, controlVars
<1>2. Closing'
  BY VideoFile DEF IInv, TypeOK, Closing, Loop, WriteTrailer, inputVars, graphVars, outputVars, controlVars
<1>3. NoFrameAfterEof' /\ WaitsOnlyForInput'
  BY DEF IInv, NoFrameAfterEof, WaitsOnlyForInput, WriteTrailer, inputVars, graphVars, outputVars, controlVars
<1>4. Stages'
  BY VideoFile DEF IInv, TypeOK, Stages, WriteTrailer, inputVars, graphVars, outputVars, controlVars
<1>5. Ending'
  BY VideoFile DEF IInv, TypeOK, Stages, Ending, VideoEnded, VideoDone, WriteTrailer, inputVars, graphVars, outputVars, controlVars
<1> QED BY <1>1, <1>2, <1>3, <1>4, <1>5 DEF IInv

-----------------------------------------------------------------------------
(* Steps of the graph                                                      *)

\* What the invariant says before a step of the graph.
LEMMA Before ==
  ASSUME IInv
  PROVE  /\ GraphType /\ InputType /\ OutputType /\ ControlType
         /\ emitted <= accepted[Video] /\ accepted[Video] \in Nat
BY TypeParts, VideoFile DEF IInv, Stages, GraphType

\* The graph asks in vain: if no file can be read, one of them had no packet.
LEMMA RequestAgainStep ==
  ASSUME IInv, NEW f \in Files, RequestAgain(f)
  PROVE  IInv'
<1>1. /\ pc = "top" /\ finished = {} /\ f \notin closed /\ failed' = [failed EXCEPT ![f] = @ + 1]
      /\ UNCHANGED <<inputVars, held, closed, accepted, cut, rejected, emitted, finished,
                     reaped, encoded, inEncoder, written, flush, broken>>
  BY DEF RequestAgain, Requests, Starved
<1>2. failed' \in [Files -> Nat] /\ failed'[f] > 0
  BY <1>1, Before DEF GraphType
<1>3. CASE Candidates(failed') # {} /\ ist' = Best(failed') /\ pc' = "input" /\ UNCHANGED unavailable
  <2>1. ist' \in Candidates(failed')
    BY <1>2, <1>3, BestIsCandidate
  <2>2. ist' \in Files \ eof
    BY <2>1 DEF Candidates
  <2>3. TypeOK'
    <3>1. GraphType' /\ InputType'
      BY <1>1, <1>2, Before DEF GraphType, InputType, inputVars
    <3>2. ist' \in 1..(NumFiles + 1)
      BY <2>2, VideoFile DEF Files
    <3>3. OutputType' /\ ControlType'
      BY <1>1, <1>3, <3>2, Before DEF OutputType, ControlType, States
    <3> QED BY <3>1, <3>3, NextTypeParts
  <2>4. Closing'
    BY <1>1, <1>3, <2>2 DEF IInv, Closing, Loop, inputVars
  <2>5. NoFrameAfterEof' /\ WaitsOnlyForInput' /\ Stages'
    BY <1>1, <1>3 DEF IInv, NoFrameAfterEof, WaitsOnlyForInput, Stages, inputVars
  <2>6. Ending'
    BY <1>1, <1>3 DEF IInv, Ending, VideoEnded, VideoDone, inputVars
  <2> QED BY <2>3, <2>4, <2>5, <2>6 DEF IInv
<1>4. CASE Candidates(failed') = {} /\ unavailable' = TRUE /\ UNCHANGED <<ist, pc>>
  <2>1. f \in eagain
    <3>1. f \notin eof
      BY <1>1 DEF IInv, Closing, Loop
    <3> QED BY <1>2, <1>4, <3>1 DEF Candidates
  <2>2. TypeOK'
    <3>1. GraphType' /\ InputType'
      BY <1>1, <1>2, Before DEF GraphType, InputType, inputVars
    <3>2. OutputType' /\ ControlType'
      BY <1>1, <1>4, Before DEF OutputType, ControlType
    <3> QED BY <3>1, <3>2, NextTypeParts
  <2>3. Closing' /\ Stages'
    BY <1>1, <1>4 DEF IInv, Closing, Stages, inputVars
  <2>4. NoFrameAfterEof' /\ WaitsOnlyForInput'
    BY <1>1, <2>1 DEF IInv, NoFrameAfterEof, WaitsOnlyForInput, inputVars
  <2>5. Ending'
    BY <1>1, <1>4 DEF IInv, Ending, VideoEnded, VideoDone, inputVars
  <2> QED BY <2>2, <2>3, <2>4, <2>5 DEF IInv
<1> QED BY <1>3, <1>4 DEF RequestAgain

\* What an injected frame and a closed source leave of the invariant.
LEMMA FrameKeeps ==
  ASSUME IInv, NEW f \in Files, f \notin closed, DrainFrame(f),
         UNCHANGED <<left, finished, reaped, encoded, inEncoder, written, broken>>
  PROVE  /\ GraphType' /\ NoFrameAfterEof' /\ Stages' /\ UNCHANGED closed
         /\ ~broken /\ finished # {} => VideoEnded' /\ encoded' = accepted'[Video]
         /\ ~broken /\ VideoEnded' => VideoDone'
<1>1. /\ GraphType'
      /\ UNCHANGED <<closed, rejected>>
      /\ emitted' >= emitted /\ emitted' <= accepted'[Video]
      /\ cut => cut'
      /\ VideoEnded => emitted' \in emitted..accepted[Video] /\ accepted'[Video] = accepted[Video] /\ UNCHANGED cut
      /\ held[f] > 0 /\ held' = [held EXCEPT ![f] = @ - 1]
  BY Before, DrainFrameFacts
<1>2. NoFrameAfterEof'
  BY <1>1 DEF IInv, NoFrameAfterEof
<1>3. Stages'
  <2>1. /\ emitted \in Nat /\ reaped \in Nat /\ emitted' \in Nat
        /\ written' + inEncoder' <= encoded' /\ encoded' <= reaped' /\ reaped <= emitted /\ UNCHANGED reaped
        /\ finished' = {} => encoded' = reaped'
        /\ ~broken' => written' + inEncoder' = encoded'
    BY <1>1, Before DEF IInv, Stages, GraphType, OutputType
  <2> QED BY <1>1, <2>1 DEF Stages
<1>4. ~broken /\ finished # {} => VideoEnded' /\ encoded' = accepted'[Video]
  BY <1>1 DEF IInv, Ending, VideoEnded
<1>5. ASSUME ~broken, VideoEnded' PROVE VideoDone'
  <2>1. CASE cut'
    BY <2>1 DEF VideoDone
  <2>2. CASE ~cut'
    <3>1. Video \in closed /\ ~cut
      BY <1>1, <1>5, <2>2 DEF VideoEnded
    <3>2. left[Video] = 0 /\ held[Video] = 0
      BY <1>5, <3>1 DEF IInv, Ending, VideoEnded, VideoDone
    <3>3. held'[Video] = 0
      BY <1>1, <3>1, <3>2, VideoFile, Before DEF GraphType
    <3> QED BY <3>2, <3>3 DEF VideoDone
  <2> QED BY <2>1, <2>2
<1> QED BY <1>1, <1>2, <1>3, <1>4, <1>5

LEMMA EndKeeps ==
  ASSUME IInv, NEW f \in Files, DrainEnd(f),
         UNCHANGED <<left, finished, reaped, encoded, inEncoder, written>>,
         VideoDone \/ left[f] = 0
  PROVE  /\ GraphType' /\ NoFrameAfterEof' /\ Stages' /\ closed' = closed \cup {f}
         /\ broken' \in BOOLEAN /\ (broken => broken')
         /\ ~broken' /\ finished # {} => VideoEnded' /\ encoded' = accepted'[Video]
         /\ ~broken' /\ VideoEnded' => VideoDone'
<1>1. /\ GraphType'
      /\ broken' \in BOOLEAN /\ (broken => broken')
      /\ closed' = closed \cup {f} /\ held' = [held EXCEPT ![f] = 0]
      /\ UNCHANGED <<accepted, cut, rejected, emitted>>
  BY Before, DrainEndFacts DEF ControlType
<1>2. NoFrameAfterEof'
  BY <1>1 DEF IInv, NoFrameAfterEof
<1>3. Stages'
  BY <1>1 DEF IInv, Stages
<1>4. ~broken' /\ finished # {} => VideoEnded' /\ encoded' = accepted'[Video]
  BY <1>1 DEF IInv, Ending, VideoEnded
<1>5. ASSUME ~broken', VideoEnded' PROVE VideoDone'
  <2>1. CASE cut
    BY <1>1, <2>1 DEF VideoDone
  <2>2. CASE ~cut /\ VideoDone
    <3>1. left[Video] = 0 /\ held[Video] = 0
      BY <2>2 DEF VideoDone
    <3>2. held'[Video] = 0
      BY <1>1, <3>1, VideoFile, Before DEF GraphType
    <3> QED BY <3>1, <3>2 DEF VideoDone
  <2>3. CASE ~cut /\ ~VideoDone
    <3>1. ~VideoEnded
      BY <1>1, <1>5, <2>3 DEF IInv, Ending
    <3>2. f = Video
      BY <1>1, <1>5, <2>3, <3>1 DEF VideoEnded
    <3>3. left'[Video] = 0 /\ held'[Video] = 0
      BY <1>1, <2>3, <3>2, VideoFile, Before DEF GraphType
    <3> QED BY <3>3 DEF VideoDone
  <2> QED BY <2>1, <2>2, <2>3
<1> QED BY <1>1, <1>2, <1>3, <1>4, <1>5

LEMMA DecodeFrameStep == IInv /\ DecodeFrame => IInv'
<1> SUFFICES ASSUME IInv, DecodeFrame PROVE IInv'
  OBVIOUS
<1>1. pc = "decode" /\ ist \in Files /\ ist \notin closed /\ DrainFrame(ist)
      /\ UNCHANGED <<inputVars, outputVars, controlVars>>
  BY DEF DecodeFrame, DrainFrame, IInv, Closing, Loop
<1>2. /\ GraphType' /\ NoFrameAfterEof' /\ Stages' /\ UNCHANGED closed
      /\ ~broken /\ finished # {} => VideoEnded' /\ encoded' = accepted'[Video]
      /\ ~broken /\ VideoEnded' => VideoDone'
  BY <1>1, FrameKeeps DEF inputVars, outputVars, controlVars
<1>3. TypeOK'
  BY <1>1, <1>2, Before, NextTypeParts
     DEF InputType, OutputType, ControlType, inputVars, outputVars, controlVars
<1>4. Closing' /\ WaitsOnlyForInput'
  BY <1>1, <1>2 DEF IInv, Closing, WaitsOnlyForInput, inputVars, outputVars, controlVars
<1>5. Ending'
  BY <1>1, <1>2 DEF IInv, Ending, inputVars, outputVars, controlVars
<1> QED BY <1>2, <1>3, <1>4, <1>5 DEF IInv

LEMMA InputDrainsStep == IInv /\ InputDrains => IInv'
<1> SUFFICES ASSUME IInv, InputDrains PROVE IInv'
  OBVIOUS
<1>1. /\ pc = "input" /\ pc' = "reap" /\ flush' = FALSE /\ ist \in Files /\ ist \notin closed /\ DrainFrame(ist)
      /\ again' = [again EXCEPT ![ist] = 0]
      /\ UNCHANGED <<left, eagain, eof, outputVars, ist, broken>>
  BY DEF InputDrains, IInv, Closing, Loop
<1>2. /\ GraphType' /\ NoFrameAfterEof' /\ Stages' /\ UNCHANGED closed
      /\ ~broken /\ finished # {} => VideoEnded' /\ encoded' = accepted'[Video]
      /\ ~broken /\ VideoEnded' => VideoDone'
  BY <1>1, FrameKeeps DEF outputVars
<1>3. TypeOK'
  <2>1. InputType'
    BY <1>1, Before, BoundsAssumption DEF InputType
  <2>2. OutputType' /\ ControlType'
    BY <1>1, Before DEF OutputType, ControlType, States, outputVars
  <2> QED BY <1>2, <2>1, <2>2, NextTypeParts
<1>4. Closing' /\ WaitsOnlyForInput'
  BY <1>1, <1>2 DEF IInv, Closing, Loop, WaitsOnlyForInput, outputVars
<1>5. Ending'
  BY <1>1, <1>2 DEF IInv, Ending, outputVars
<1> QED BY <1>2, <1>3, <1>4, <1>5 DEF IInv

LEMMA InputEndsStep == IInv /\ InputEnds => IInv'
<1> SUFFICES ASSUME IInv, InputEnds PROVE IInv'
  OBVIOUS
<1>1. /\ pc = "input" /\ pc' = "top" /\ ist \in Files /\ left[ist] = 0 /\ DrainEnd(ist)
      /\ again' = [again EXCEPT ![ist] = 0] /\ eof' = eof \cup {ist}
      /\ UNCHANGED <<left, eagain, outputVars, ist, flush>>
  BY DEF InputEnds, IInv, Closing
<1>2. /\ GraphType' /\ NoFrameAfterEof' /\ Stages' /\ closed' = closed \cup {ist}
      /\ broken' \in BOOLEAN /\ (broken => broken')
      /\ ~broken' /\ finished # {} => VideoEnded' /\ encoded' = accepted'[Video]
      /\ ~broken' /\ VideoEnded' => VideoDone'
  BY <1>1, EndKeeps DEF outputVars
<1>3. TypeOK'
  <2>1. InputType'
    BY <1>1, Before, BoundsAssumption DEF InputType
  <2>2. OutputType' /\ ControlType'
    BY <1>1, <1>2, Before DEF OutputType, ControlType, States, outputVars
  <2> QED BY <1>2, <2>1, <2>2, NextTypeParts
<1>4. Closing' /\ WaitsOnlyForInput'
  BY <1>1, <1>2 DEF IInv, Closing, Loop, WaitsOnlyForInput, outputVars
<1>5. Ending'
  BY <1>1, <1>2 DEF IInv, Ending, outputVars
<1> QED BY <1>2, <1>3, <1>4, <1>5 DEF IInv

LEMMA FlushDecoderStep == IInv /\ FlushDecoder => IInv'
<1> SUFFICES ASSUME IInv, FlushDecoder PROVE IInv'
  OBVIOUS
<1>1. /\ pc = "drain" /\ ist \in Files /\ ist' = ist + 1
      /\ UNCHANGED <<inputVars, outputVars, pc, flush>>
  BY Before DEF FlushDecoder, Files, ControlType
<1>2. \A f \in closed : f \in eof \/ f < ist
  BY <1>1 DEF IInv, Closing
<1>3. ~broken => finished # {} /\ VideoEnded /\ VideoDone
  BY <1>1 DEF IInv, Ending
<1>4. InputType' /\ OutputType'
  BY <1>1, Before DEF InputType, OutputType, inputVars, outputVars
<1>5. ist' \in 1..(NumFiles + 1) /\ \A f \in Files : f < ist \/ f = ist => f < ist'
  BY <1>1, VideoFile DEF Files
<1>6. CASE UNCHANGED <<graphVars, broken>>
  <2>1. TypeOK'
    BY <1>1, <1>4, <1>5, <1>6, Before, NextTypeParts DEF GraphType, ControlType, graphVars
  <2>2. Closing'
    BY <1>1, <1>2, <1>5, <1>6, Before DEF Closing, Loop, GraphType, graphVars, inputVars
  <2>3. NoFrameAfterEof' /\ WaitsOnlyForInput' /\ Stages'
    BY <1>1, <1>6 DEF IInv, NoFrameAfterEof, WaitsOnlyForInput, Stages, graphVars, inputVars, outputVars
  <2>4. Ending'
    BY <1>1, <1>6 DEF IInv, Ending, VideoEnded, VideoDone, graphVars, inputVars, outputVars
  <2> QED BY <2>1, <2>2, <2>3, <2>4 DEF IInv
<1>7. CASE ist \notin eof /\ DrainFrame(ist) /\ UNCHANGED broken
  <2>1. ist \notin closed
    BY <1>1, <1>2, <1>7 DEF Files
  <2>2. /\ GraphType' /\ NoFrameAfterEof' /\ Stages' /\ UNCHANGED closed
        /\ ~broken /\ finished # {} => VideoEnded' /\ encoded' = accepted'[Video]
        /\ ~broken /\ VideoEnded' => VideoDone'
    BY <1>1, <1>7, <2>1, FrameKeeps DEF inputVars, outputVars
  <2>3. TypeOK'
    BY <1>1, <1>4, <1>5, <1>7, <2>2, Before, NextTypeParts DEF ControlType
  <2>4. Closing'
    BY <1>1, <1>2, <1>5, <2>2, Before DEF Closing, Loop, GraphType, inputVars
  <2>5. WaitsOnlyForInput'
    BY <1>1 DEF IInv, WaitsOnlyForInput, inputVars, outputVars
  <2>6. Ending'
    BY <1>1, <1>7, <2>2 DEF IInv, Ending, outputVars
  <2> QED BY <2>2, <2>3, <2>4, <2>5, <2>6 DEF IInv
<1>8. CASE ist \notin eof /\ DrainEnd(ist)
  <2>1. CASE ~broken
    <3>1. /\ GraphType' /\ NoFrameAfterEof' /\ Stages' /\ closed' = closed \cup {ist}
          /\ broken' \in BOOLEAN /\ (broken => broken')
          /\ ~broken' /\ finished # {} => VideoEnded' /\ encoded' = accepted'[Video]
          /\ ~broken' /\ VideoEnded' => VideoDone'
      BY <1>1, <1>3, <1>8, <2>1, EndKeeps DEF inputVars, outputVars
    <3>2. TypeOK'
      BY <1>1, <1>4, <1>5, <3>1, Before, NextTypeParts DEF ControlType
    <3>3. Closing'
      BY <1>1, <1>2, <1>5, <3>1, Before DEF Closing, Loop, GraphType, inputVars
    <3>4. WaitsOnlyForInput'
      BY <1>1 DEF IInv, WaitsOnlyForInput, inputVars, outputVars
    <3>5. Ending'
      BY <1>1, <2>1, <3>1 DEF IInv, Ending, outputVars
    <3> QED BY <3>1, <3>2, <3>3, <3>4, <3>5 DEF IInv
  <2>2. CASE broken
    <3>1. /\ GraphType' /\ broken' \in BOOLEAN /\ broken'
          /\ closed' = closed \cup {ist}
          /\ UNCHANGED <<accepted, cut, rejected, emitted>>
      BY <1>1, <1>8, <2>2, Before, DrainEndFacts DEF ControlType
    <3>2. TypeOK'
      BY <1>1, <1>4, <1>5, <3>1, Before, NextTypeParts DEF ControlType
    <3>3. Closing'
      BY <1>1, <1>2, <1>5, <3>1, Before DEF Closing, Loop, GraphType, inputVars
    <3>4. NoFrameAfterEof' /\ WaitsOnlyForInput' /\ Stages'
      BY <1>1, <3>1 DEF IInv, NoFrameAfterEof, WaitsOnlyForInput, Stages, inputVars, outputVars
    <3>5. Ending'
      BY <1>1, <3>1 DEF IInv, Ending
    <3> QED BY <3>2, <3>3, <3>4, <3>5 DEF IInv
  <2> QED BY <2>1, <2>2
<1> QED BY <1>6, <1>7, <1>8 DEF FlushDecoder

-----------------------------------------------------------------------------
(* The results                                                             *)

LEMMA StutterKeeps == IInv /\ UNCHANGED vars => IInv'
<1> SUFFICES ASSUME IInv, UNCHANGED vars PROVE IInv'
  OBVIOUS
<1>1. TypeOK'
  BY DEF IInv, TypeOK, vars, inputVars, graphVars, outputVars, controlVars
<1>2. Closing' /\ NoFrameAfterEof' /\ WaitsOnlyForInput' /\ Stages'
  BY DEF IInv, Closing, NoFrameAfterEof, WaitsOnlyForInput, Stages,
         vars, inputVars, graphVars, outputVars, controlVars
<1>3. Ending'
  BY DEF IInv, Ending, VideoEnded, VideoDone, vars, inputVars, graphVars, outputVars, controlVars
<1> QED BY <1>1, <1>2, <1>3 DEF IInv

LEMMA NextKeeps == IInv /\ [Next]_vars => IInv'
BY StutterKeeps, LoopEndsStep, ResetEagainStep, RequestFrameStep, RequestEofStep, RequestAgainStep,
   RequestFailsStep, InputAgainStep, InputDroppedStep, InputPacketStep, DecodeFrameStep,
   DecodeDoneStep, InputDrainsStep, InputEndsStep, ReapFrameStep, ReapDoneStep,
   EncoderReturnsStep, EncoderWantsStep, FlushDecoderStep, DecodersFlushedStep,
   FlushEncoderStep, WriteTrailerStep
   DEF Next

\* The inductive invariant holds in every state of the loop and its end.
THEOREM TranscodeInvariant == Spec => []IInv
BY InitIInv, NextKeeps, PTL DEF Spec

\* Every variable of the loop has its type, for any number of files.
THEOREM TranscodeTypes == Spec => []TypeOK
<1>1. IInv => TypeOK
  BY DEF IInv
<1> QED BY <1>1, TranscodeInvariant, PTL

\* No decoder gives a frame to a filter input that was told it would get no
\* more, which is the exit_program of decode_video.
THEOREM TranscodeNoFrameAfterEof == Spec => []NoFrameAfterEof
<1>1. IInv => NoFrameAfterEof
  BY DEF IInv
<1> QED BY <1>1, TranscodeInvariant, PTL

\* transcode_step sleeps only when a file had no packet ready.
THEOREM TranscodeWaits == Spec => []WaitsOnlyForInput
<1>1. IInv => WaitsOnlyForInput
  BY DEF IInv
<1> QED BY <1>1, TranscodeInvariant, PTL

-----------------------------------------------------------------------------
(* The loop implements the safety of FramePipe                             *)

LEMMA OpenState == pc # "done" => PipeState = "open"
BY DEF PipeState

\* A step that changes nothing FramePipe sees.
LEMMA Unseen ==
  ASSUME pc # "done", pc' # "done", UNCHANGED <<accepted, encoded, written>>, VideoEnded' = VideoEnded
  PROVE  UNCHANGED Pipe!vars
<1>1. PipeState = "open" /\ PipeState' = "open"
  BY OpenState DEF PipeState
<1> QED BY <1>1 DEF Pipe!vars

\* The video may end in a step, or have ended.
LEMMA MayEnd ==
  ASSUME pc # "done", pc' # "done", UNCHANGED <<accepted, encoded, written>>,
         VideoEnded \in BOOLEAN, VideoEnded' \in BOOLEAN, VideoEnded => VideoEnded'
  PROVE  [Pipe!Next]_Pipe!vars
<1>1. PipeState = "open" /\ PipeState' = "open"
  BY OpenState DEF PipeState
<1>2. CASE VideoEnded' = VideoEnded
  BY <1>2, Unseen
<1>3. CASE ~VideoEnded /\ VideoEnded' = TRUE
  BY <1>1, <1>3 DEF Pipe!Next, Pipe!End
<1> QED BY <1>2, <1>3

\* A frame of the video, or of another file, enters the filters.
LEMMA FrameImplements ==
  ASSUME IInv, NEW f \in Files, f \notin closed, DrainFrame(f), pc # "done", pc' # "done",
         UNCHANGED <<encoded, written>>
  PROVE  [Pipe!Next]_Pipe!vars
<1>1. PipeState = "open" /\ PipeState' = "open"
  BY OpenState DEF PipeState
<1>2. UNCHANGED closed
  BY DEF DrainFrame, InjectFrame
<1>3. CASE f = Video /\ cut' = TRUE /\ UNCHANGED <<accepted, rejected, emitted>>
  <2>1. VideoEnded' /\ VideoEnded \in BOOLEAN /\ VideoEnded' \in BOOLEAN
    BY <1>3 DEF VideoEnded
  <2> QED BY <1>3, <2>1, MayEnd
<1>4. CASE Starved(f) /\ accepted' = [accepted EXCEPT ![f] = @ + 1] /\ UNCHANGED <<cut, rejected>>
  <2>1. VideoEnded' = VideoEnded
    BY <1>2, <1>4 DEF VideoEnded
  <2>2. CASE f = Video
    <3>1. ~VideoEnded
      BY <1>4, <2>2 DEF Starved, VideoEnded
    <3>2. accepted'[Video] = accepted[Video] + 1
      BY <1>4, <2>2, Before DEF GraphType
    <3> QED BY <1>1, <2>1, <3>1, <3>2 DEF Pipe!Next, Pipe!Take
  <2>3. CASE f # Video
    <3>1. accepted'[Video] = accepted[Video]
      BY <1>4, <2>3, Before, VideoFile DEF GraphType
    <3> QED BY <1>1, <2>1, <3>1 DEF Pipe!vars
  <2> QED BY <2>2, <2>3
<1> QED BY <1>3, <1>4 DEF DrainFrame, InjectFrame

LEMMA PacketImplements ==
  ASSUME IInv, pc # "done", inEncoder > 0, WritePacket, UNCHANGED <<accepted, encoded, pc>>,
         VideoEnded' = VideoEnded
  PROVE  [Pipe!Next]_Pipe!vars
<1>1. PipeState = "open" /\ PipeState' = "open"
  BY OpenState DEF PipeState
<1>2. CASE written' = written + 1
  <2>1. written < encoded
    BY DEF IInv, TypeOK, Stages
  <2> QED BY <1>1, <1>2, <2>1 DEF Pipe!Next, Pipe!Save
<1>3. CASE UNCHANGED written
  BY <1>3, Unseen
<1> QED BY <1>2, <1>3 DEF WritePacket

LEMMA StepImplements == IInv /\ [Next]_vars => [Pipe!Next]_Pipe!vars
<1> SUFFICES ASSUME IInv, [Next]_vars PROVE [Pipe!Next]_Pipe!vars
  OBVIOUS
<1> USE DEF inputVars, graphVars, outputVars, controlVars
<1>1. CASE \/ LoopEnds \/ ResetEagain \/ RequestFrame \/ RequestEof \/ (\E f \in Files : RequestAgain(f))
           \/ RequestFails \/ InputAgain \/ InputDropped \/ InputPacket \/ DecodeDone \/ ReapDone
           \/ EncoderWants \/ DecodersFlushed
  <2>1. pc # "done" /\ pc' # "done"
    BY <1>1 DEF LoopEnds, ResetEagain, RequestFrame, RequestEof, RequestAgain, RequestFails, InputAgain,
                InputDropped, InputPacket, DecodeDone, ReapDone, EncoderWants, DecodersFlushed, Requests
  <2>2. UNCHANGED <<accepted, encoded, written, closed, cut>>
    BY <1>1 DEF LoopEnds, ResetEagain, RequestFrame, RequestEof, RequestAgain, RequestFails, InputAgain,
                InputDropped, InputPacket, DecodeDone, ReapDone, EncoderWants, DecodersFlushed, Requests
  <2> QED BY <2>1, <2>2, Unseen DEF VideoEnded
<1>2. CASE DecodeFrame
  <2>1. pc = "decode" /\ pc' = "decode" /\ ist \in Files \ closed /\ DrainFrame(ist) /\ UNCHANGED <<encoded, written>>
    BY <1>2 DEF DecodeFrame, DrainFrame, IInv, Closing, Loop
  <2> QED BY <2>1, FrameImplements
<1>3. CASE InputDrains
  <2>1. pc = "input" /\ pc' = "reap" /\ ist \in Files \ closed /\ DrainFrame(ist) /\ UNCHANGED <<encoded, written>>
    BY <1>3 DEF InputDrains, IInv, Closing, Loop
  <2> QED BY <2>1, FrameImplements
<1>4. CASE InputEnds
  <2>1. pc = "input" /\ pc' = "top" /\ closed \subseteq closed' /\ UNCHANGED <<accepted, encoded, written, cut>>
    BY <1>4 DEF InputEnds, DrainEnd, SendFilterEof
  <2>2. VideoEnded \in BOOLEAN /\ VideoEnded' \in BOOLEAN /\ (VideoEnded => VideoEnded')
    BY <2>1 DEF VideoEnded
  <2> QED BY <2>1, <2>2, MayEnd
<1>5. CASE ReapFrame
  <2>1. CASE finished = {}
    <3>1. pc # "done" /\ pc' # "done" /\ encoded' = encoded + 1 /\ UNCHANGED <<accepted, written, closed, cut>>
      BY <1>5, <2>1 DEF ReapFrame
    <3>2. encoded < accepted[Video]
      BY <1>5, <2>1, Before DEF ReapFrame, IInv, TypeOK, Stages
    <3>3. VideoEnded' = VideoEnded /\ PipeState = "open" /\ PipeState' = "open"
      BY <3>1, OpenState DEF VideoEnded, PipeState
    <3> QED BY <3>1, <3>2, <3>3 DEF Pipe!Next, Pipe!Code
  <2>2. CASE finished # {}
    <3>1. pc # "done" /\ pc' # "done" /\ UNCHANGED <<accepted, encoded, written, closed, cut>>
      BY <1>5, <2>2 DEF ReapFrame
    <3> QED BY <3>1, Unseen DEF VideoEnded
  <2> QED BY <2>1, <2>2
<1>6. CASE EncoderReturns \/ (FlushEncoder /\ "muxer" \notin finished)
  <2>1. pc # "done" /\ inEncoder > 0 /\ WritePacket /\ UNCHANGED <<accepted, encoded, pc, closed, cut>>
    BY <1>6 DEF EncoderReturns, FlushEncoder
  <2> QED BY <2>1, PacketImplements DEF VideoEnded
<1>7. CASE FlushEncoder /\ "muxer" \in finished
  <2>1. pc # "done" /\ pc' # "done" /\ UNCHANGED <<accepted, encoded, written, closed, cut>>
    BY <1>7 DEF FlushEncoder
  <2> QED BY <2>1, Unseen DEF VideoEnded
<1>8. CASE FlushDecoder
  <2>1. pc = "drain" /\ pc' = "drain" /\ ist \in Files /\ UNCHANGED <<encoded, written>>
    BY <1>8, Before DEF FlushDecoder, Files, ControlType
  <2>2. CASE UNCHANGED <<held, failed, closed, accepted, cut, rejected, emitted>>
    BY <2>1, <2>2, Unseen DEF VideoEnded
  <2>3. CASE ist \notin eof /\ DrainFrame(ist)
    <3>1. ist \notin closed
      BY <2>1, <2>3 DEF IInv, Closing, Files
    <3> QED BY <2>1, <2>3, <3>1, FrameImplements
  <2>4. CASE DrainEnd(ist)
    <3>1. closed \subseteq closed' /\ UNCHANGED <<accepted, cut>>
      BY <2>4 DEF DrainEnd, SendFilterEof
    <3>2. VideoEnded \in BOOLEAN /\ VideoEnded' \in BOOLEAN /\ (VideoEnded => VideoEnded')
      BY <3>1 DEF VideoEnded
    <3> QED BY <2>1, <3>1, <3>2, MayEnd
  <2> QED BY <1>8, <2>2, <2>3, <2>4 DEF FlushDecoder
<1>9. CASE WriteTrailer
  <2>1. pc = "flush" /\ pc' = "done" /\ inEncoder = 0
        /\ UNCHANGED <<accepted, encoded, written, closed, cut, broken, left, held>>
    BY <1>9 DEF WriteTrailer
  <2>2. PipeState = "open" /\ VideoEnded' = VideoEnded
    BY <2>1, OpenState DEF VideoEnded
  <2>3. CASE broken
    <3>1. PipeState' = "broken"
      BY <2>1, <2>3 DEF PipeState
    <3> QED BY <2>1, <2>2, <3>1 DEF Pipe!Next, Pipe!Break
  <2>4. CASE ~broken
    <3>1. VideoEnded /\ VideoDone /\ encoded = accepted[Video] /\ written = encoded
      BY <2>1, <2>4 DEF IInv, TypeOK, Stages, Ending
    <3>2. PipeState' = "closed"
      BY <2>1, <2>4, <3>1 DEF PipeState, VideoDone
    <3> QED BY <2>1, <2>2, <3>1, <3>2 DEF Pipe!Next, Pipe!Close
  <2> QED BY <2>3, <2>4
<1>10. CASE UNCHANGED vars
  BY <1>10 DEF vars, Pipe!vars, PipeState, VideoEnded, VideoDone
<1> QED BY <1>1, <1>2, <1>3, <1>4, <1>5, <1>6, <1>7, <1>8, <1>9, <1>10 DEF Next

\* What a run promises about its pictures: each that enters the filters is
\* encoded and written, and it ends well only when none is left anywhere.
THEOREM TranscodeImplementsPipe == Spec => Pipe!Safety
<1>1. Init => Pipe!Init
  <2> SUFFICES ASSUME Init PROVE Pipe!Init
    OBVIOUS
  <2>1. PipeState = "open"
    BY OpenState DEF Init
  <2> QED BY <2>1, VideoFile DEF Init, Pipe!Init, VideoEnded
<1> QED BY <1>1, StepImplements, TranscodeInvariant, PTL DEF Spec, Pipe!Safety
=============================================================================
