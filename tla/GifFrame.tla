------------------------------ MODULE GifFrame ------------------------------
(* One frame on its way through a GIF file: LZWEncoder writes its pixels, a   *)
(* decoder reads them back from the bytes.                                    *)
EXTENDS LZWEncoder, SequencesExt

VARIABLES gb, dec

D == INSTANCE LZWDecoder WITH MAXBITS <- BITS

frameVars == <<image, enc, codes, gb, dec>>

FrameInit ==
  /\ EncoderInit
  /\ gb = <<>>
  /\ dec = [D!DecoderInit(initCodeSize) EXCEPT !.mode = "closed"]

(* gif_read_image: the code size, then the decoder on the bytes that follow. *)
Open ==
  /\ enc.pc = "done" /\ dec.mode = "closed"
  /\ gb' = Tail(enc.outs)
  /\ dec' = D!DecoderInit(Head(enc.outs))
  /\ UNCHANGED <<image, enc, codes>>

Encode == EncoderNext /\ UNCHANGED <<gb, dec>>
Decode ==
  /\ D!DecodeCode(Len(image)) \/ D!Complete(Len(image))
  /\ UNCHANGED <<image, enc, codes>>

Done == dec.mode = "done" /\ UNCHANGED frameVars

FrameNext == Encode \/ Open \/ Decode \/ Done

(* Both are sequential code that runs to its end.                             *)
FrameSpec ==
  /\ FrameInit /\ [][FrameNext]_frameVars
  /\ WF_frameVars(Encode) /\ WF_frameVars(Open) /\ WF_frameVars(Decode)

-----------------------------------------------------------------------------
FrameTypeOK ==
  /\ EncoderTypeOK
  /\ dec.mode \in {"closed", "decode", "done"}
  /\ dec.bbits \in 0 .. 7 /\ dec.cursize \in initCodeSize + 1 .. BITS

(* The two sides agree on where a code starts, how wide it is and what it is, *)
(* although each changes width on a count of its own: what lzw_get_code has   *)
(* read is the beginning of what output has written, and it never takes the   *)
(* terminator for a sub-block.                                                *)
WidthsAgree == IsPrefix(dec.read, codes) /\ dec.bs \in 0 .. PACKET

(* The sub-blocks are well formed: a reader that goes from length byte to     *)
(* length byte meets the first zero at the end of the frame, where encode     *)
(* wrote the terminator, and no sub-block is empty or longer than a packet.   *)
BlocksWellFormed == enc.pc = "done" =>
  LET lengthByte[k \in Nat] ==
        IF k = 0 THEN 2
        ELSE LET p == lengthByte[k - 1]
             IN  IF p \in 1 .. Len(enc.outs) /\ enc.outs[p] \in 1 .. PACKET THEN p + enc.outs[p] + 1 ELSE p
  IN  lengthByte[Len(enc.outs)] = Len(enc.outs) /\ enc.outs[Len(enc.outs)] = 0

(* What a viewer sees is what was encoded, pixel by pixel and to the end: the *)
(* two together implement a lossless channel.                                 *)
Channel == INSTANCE LosslessFrame WITH sent <- image, got <- dec.out, closed <- dec.mode = "done"
Lossless == Channel!Spec
=============================================================================
