------------------------- MODULE AnimatedGifEncoder -------------------------
(* The GIF writer, java/gif/AnimatedGifEncoder.java: one object, used for one *)
(* file after another, whose flags decide which blocks a frame is made of.    *)
(* A file is the sequence of its blocks; a block is written whole, or the     *)
(* write throws an IOException before it.                                     *)
EXTENDS Integers, SequencesExt, FiniteSetsExt

CONSTANTS
  Sizes,        \* the sizes a picture or a call of setSize may have
  MaxFiles,     \* bound: files and streams the object is started on
  MaxFrames,    \* bound: calls of addFrame on one stream
  MaxFailed     \* bound: streams on which a write throws

ASSUME EncoderAssumption ==
  /\ Sizes # {}
  /\ MaxFiles \in Nat \ {0} /\ MaxFrames \in Nat \ {0} /\ MaxFailed \in Nat

None == 0
NoSize == "unset"

VARIABLES
  started, firstFrame, closeStream, sizeSet, size, repeat,   \* fields
  out,        \* the stream written to, None for null
  files,      \* every stream so far, in the order start met them
  sizeChosen  \* history: the caller has called setSize

vars == <<started, firstFrame, closeStream, sizeSet, size, repeat, out, files, sizeChosen>>

Block(kind) == [kind |-> kind, size |-> NoSize]
Blocks == [kind : {"header", "lsd", "netscape", "gct", "lct", "gce", "descriptor", "data", "trailer"},
           size : Sizes \cup {NoSize}]

HasFrame(f) == \E i \in DOMAIN f.blocks : f.blocks[i].kind = "data"

(* A stream: what is in it, whether the encoder opened it (and so closes it), *)
(* whether it is closed, and history: a write threw; the encoder was started  *)
(* on it after it wrote frames that no finish followed; finish was called;    *)
(* calls of addFrame; the size of the first picture.                          *)
NewFile(named) == [blocks |-> <<>>, named |-> named, closed |-> FALSE, failed |-> FALSE,
                   restarted |-> out # None /\ (HasFrame(files[out]) \/ files[out].restarted),
                   finished |-> FALSE, calls |-> 0, first |-> NoSize]
File == [blocks : Seq(Blocks), named : BOOLEAN, closed : BOOLEAN, failed : BOOLEAN,
         restarted : BOOLEAN, finished : BOOLEAN, calls : 0 .. MaxFrames, first : Sizes \cup {NoSize}]

(* Bound: one more stream may fail, or this one has.                          *)
MayThrow(k) == k \in {i \in DOMAIN files : files[i].failed}
               \/ Quantify(DOMAIN files, LAMBDA i : files[i].failed) < MaxFailed

-----------------------------------------------------------------------------
Init ==
  /\ started = FALSE /\ firstFrame = TRUE /\ closeStream = FALSE
  /\ sizeSet = FALSE /\ size \in Sizes /\ repeat = -1
  /\ out = None /\ files = <<>> /\ sizeChosen = FALSE

SetRepeat ==
  /\ repeat' = 0
  /\ UNCHANGED <<started, firstFrame, closeStream, sizeSet, size, out, files, sizeChosen>>

(* setSize without its first test: the size changes between two frames.       *)
SetSizeAnyTime(s) ==
  /\ size' = s /\ sizeSet' = TRUE /\ sizeChosen' = TRUE
  /\ UNCHANGED <<started, firstFrame, closeStream, repeat, out, files>>

SetSize(s) ==
  /\ ~(started /\ ~firstFrame)
  /\ size' = s /\ sizeSet' = TRUE /\ sizeChosen' = TRUE
  /\ UNCHANGED <<started, firstFrame, closeStream, repeat, out, files>>

(* The part of start(OutputStream) both forms of start share: a stream, the   *)
(* header on it or an exception.                                              *)
StartOn(named, ok) ==
  LET f == [NewFile(named) EXCEPT !.blocks = IF ok THEN <<Block("header")>> ELSE <<>>, !.failed = ~ok]
  IN  /\ Len(files) < MaxFiles /\ (~ok => MayThrow(None))
      /\ files' = Append(files, f) /\ out' = Len(files) + 1
      /\ started' = ok
      /\ UNCHANGED <<firstFrame, sizeSet, size, repeat, sizeChosen>>

(* start(OutputStream) that forgets closeStream = false. *)
StartStreamKeepsClose(ok) == StartOn(FALSE, ok) /\ UNCHANGED closeStream

StartStream(ok) == closeStream' = FALSE /\ StartOn(FALSE, ok)
StartFile(ok) == closeStream' = TRUE /\ StartOn(TRUE, ok)

(* start(String) on a file that cannot be opened.                             *)
StartNoFile ==
  /\ started' = FALSE
  /\ UNCHANGED <<firstFrame, closeStream, sizeSet, size, repeat, out, files, sizeChosen>>

(* The blocks of one frame.                                                   *)
FrameBlocks(s) ==
  (IF firstFrame
   THEN <<[Block("lsd") EXCEPT !.size = s], Block("gct")>> \o
        (IF repeat >= 0 THEN <<Block("netscape")>> ELSE <<>>)
   ELSE <<>>)
  \o <<Block("gce"), [Block("descriptor") EXCEPT !.size = s]>>
  \o (IF firstFrame THEN <<>> ELSE <<Block("lct")>>)
  \o <<Block("data")>>

(* addFrame of a picture of a size; n blocks are written, all of them or up   *)
(* to the write that throws.                                                  *)
AddFrame(im) ==
  LET s == IF sizeSet THEN size ELSE im
      blocks == FrameBlocks(s)
  IN  /\ started /\ files[out].calls < MaxFrames
      /\ sizeSet' = TRUE /\ size' = s
      /\ \E n \in 0 .. Len(blocks) :
           /\ n < Len(blocks) => MayThrow(out)
           /\ firstFrame' = (firstFrame /\ n < Len(blocks))
           /\ files' = [files EXCEPT
                ![out].blocks = @ \o SubSeq(blocks, 1, n), ![out].failed = @ \/ n < Len(blocks),
                ![out].calls = @ + 1, ![out].first = IF @ = NoSize THEN im ELSE @]
      /\ UNCHANGED <<started, closeStream, repeat, out, sizeChosen>>

(* finish without firstFrame = true. *)
ResetKeepsFrame ==
  /\ started' = FALSE /\ closeStream' = FALSE /\ out' = None
  /\ UNCHANGED <<firstFrame, sizeSet, size, repeat, sizeChosen>>

(* finish without started = false and out = null. *)
ResetKeepsStarted ==
  /\ firstFrame' = TRUE /\ closeStream' = FALSE
  /\ UNCHANGED <<started, out, sizeSet, size, repeat, sizeChosen>>

(* The fields finish resets; width, height, sizeSet and repeat stay.          *)
Reset ==
  /\ started' = FALSE /\ firstFrame' = TRUE /\ closeStream' = FALSE /\ out' = None
  /\ UNCHANGED <<sizeSet, size, repeat, sizeChosen>>

(* finish: the trailer, a flush and, for a file of its own, the close; an     *)
(* exception skips the rest, then the fields are reset all the same.          *)
Finish ==
  /\ started /\ Reset
  /\ \E at \in {"trailer", "flush", "end"} :
       /\ at # "end" => MayThrow(out)
       /\ files' = [files EXCEPT
         ![out].blocks = IF at = "trailer" THEN @ ELSE Append(@, Block("trailer")),
         ![out].failed = @ \/ at # "end", ![out].finished = TRUE,
         ![out].closed = closeStream /\ at = "end"]

Next ==
  \/ SetRepeat
  \/ \E s \in Sizes : SetSize(s)
  \/ \E ok \in BOOLEAN : StartStream(ok)
  \/ \E ok \in BOOLEAN : StartFile(ok)
  \/ StartNoFile
  \/ \E im \in Sizes : AddFrame(im)
  \/ Finish

Spec == Init /\ [][Next]_vars

-----------------------------------------------------------------------------
TypeOK ==
  /\ {started, firstFrame, closeStream, sizeSet, sizeChosen} \subseteq BOOLEAN
  /\ size \in Sizes /\ repeat \in {-1, 0}
  /\ out \in 0 .. Len(files) /\ files \in Seq(File) /\ Len(files) <= MaxFiles
  /\ started => out # None

(* A file on which nothing threw, started on a new object, after a finish, or *)
(* when no frame was written since. A file started over one with frames is    *)
(* not: its frames go on from that one's, without the screen descriptor.      *)
Clean(f) == ~f.failed /\ ~f.restarted

(* The grammar of GIF89a, by which block may come next: a header, the screen  *)
(* descriptor and the global table before the first frame, nothing after the  *)
(* trailer; and a local table in every frame but the first.                   *)
MayFollow == {
  <<"header", "lsd">>, <<"lsd", "gct">>, <<"gct", "netscape">>, <<"gct", "gce">>, <<"netscape", "gce">>,
  <<"gce", "descriptor">>, <<"descriptor", "data">>, <<"descriptor", "lct">>, <<"lct", "data">>,
  <<"data", "gce">>, <<"data", "trailer">>, <<"header", "trailer">>}
Grammatical(b) ==
  /\ b # <<>> /\ b[1].kind = "header"
  /\ \A i \in 2 .. Len(b) : <<b[i - 1].kind, b[i].kind>> \in MayFollow
  /\ \A i \in 2 .. Len(b) : b[i].kind = "data" =>
       (b[i - 1].kind = "lct" <=> \E j \in 1 .. i - 1 : b[j].kind = "data")

(* Every clean file, the first or a later one of the same object, is a        *)
(* well-formed GIF, whole when it is finished: the firstFrame flag is TRUE    *)
(* for exactly one frame of each.                                             *)
WellFormed == \A k \in DOMAIN files : Clean(files[k]) =>
  /\ Grammatical(files[k].blocks)
  /\ Last(files[k].blocks).kind \in IF files[k].finished THEN {"trailer"} ELSE {"header", "data"}

(* All frames of a clean file have the size its screen descriptor gives,      *)
(* although setSize may be called at any time.                                *)
OneSize == \A k \in DOMAIN files : Clean(files[k]) =>
  \A i, j \in DOMAIN files[k].blocks :
    {files[k].blocks[i].kind, files[k].blocks[j].kind} \subseteq {"lsd", "descriptor"} =>
      files[k].blocks[i].size = files[k].blocks[j].size

(* A stream the caller gave is never closed, and a file the object opened     *)
(* itself is closed once it is finished and nothing threw on it, although     *)
(* both forms of start share closeStream and may follow each other.           *)
ClosesItsOwn == \A k \in DOMAIN files :
  /\ files[k].closed => files[k].named
  /\ files[k].named /\ files[k].finished /\ ~files[k].failed => files[k].closed

(* A finished file or stream is not touched again, whatever is called on the  *)
(* object afterwards (finish clears started and out).                         *)
FinishedIsFinal == [][\A k \in DOMAIN files : files[k].finished => files'[k] = files[k]]_vars

(* "The default size is the size of the first frame added if this method is   *)
(* not invoked" (setSize): when the caller never chose a size, a file has the *)
(* size of its first picture. Asked where nothing ever threw and every file   *)
(* before was finished, of an object ready "for subsequent use" (finish).     *)
SizeOfFirstFrame == \A k \in DOMAIN files :
  (\A j \in 1 .. k : ~files[j].failed /\ (j < k => files[j].finished)) /\ ~sizeChosen =>
    \A i \in DOMAIN files[k].blocks :
      files[k].blocks[i].kind = "lsd" => files[k].blocks[i].size = files[k].first
=============================================================================
