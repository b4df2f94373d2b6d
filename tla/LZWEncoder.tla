----------------------------- MODULE LZWEncoder -----------------------------
(* The compressor of java/gif/LZWEncoder.java: the pixels of one frame become *)
(* a stream of variable-width codes, packed in bytes, packed in sub-blocks.   *)
(* The whole object is one record, enc; an operator takes the record before a *)
(* method runs and returns the record after it.                               *)
EXTENDS Powers, Sequences

CONSTANTS
  BITS,         \* width of the longest code (12 in the code)
  HSIZE,        \* slots of the hash table (5003)
  HSHIFT,       \* left shift of the pixel in the hash (compress computes 4 from 5003)
  PACKET,       \* bytes that fill a sub-block (254)
  Depth,        \* the colour depth the encoder is given (8)
  Images        \* the frames to encode: non-empty sequences of pixels

maxmaxcode == Pow2[BITS]
initCodeSize == IF Depth < 2 THEN 2 ELSE Depth
ClearCode == Pow2[initCodeSize]
EOFCode == ClearCode + 1
Pixel == 0 .. Pow2[Depth] - 1

(* The hash of a pixel and a code stays inside the table, the table is larger *)
(* than the code space and its size is prime, so that a probe visits it all.  *)
(* What waits in cur_accum fits an int, and the length of a packet a byte.    *)
ASSUME SizesAssumption ==
  /\ {BITS, HSIZE, PACKET, Depth} \subseteq Nat \ {0} /\ HSHIFT \in Nat
  /\ initCodeSize + 1 < BITS /\ BITS + 7 < 32 /\ PACKET < 256
  /\ Pow2[Depth + HSHIFT] <= maxmaxcode /\ maxmaxcode <= HSIZE
  /\ \A d \in 2 .. HSIZE - 1 : HSIZE % d # 0
ASSUME ImagesAssumption == \A m \in Images : m \in Seq(Pixel) /\ m # <<>>

VARIABLES
  image,     \* pixAry, fixed
  enc,       \* the fields of the encoder and the locals of compress
  codes      \* history: every code given to output, with the width it was written in

MAXCODE(n) == Pow2[n] - 1
Slot == 0 .. HSIZE - 1
Xor(a, b) ==
  LET low[k \in Nat] ==
        IF k = 0 THEN 0
        ELSE low[k - 1] + IF (a \div Pow2[k - 1]) % 2 = (b \div Pow2[k - 1]) % 2 THEN 0 ELSE Pow2[k - 1]
  IN  low[BITS]

-----------------------------------------------------------------------------
(* Bytes.                                                                     *)
(* A flush that writes its packet even when it is empty. *)
FlushEmpty(e) == [e EXCEPT !.outs = (@ \o <<Len(e.accum)>>) \o e.accum, !.accum = <<>>]

flush_char(e) == IF e.accum = <<>> THEN e ELSE
  [e EXCEPT !.outs = (@ \o <<Len(e.accum)>>) \o e.accum, !.accum = <<>>]

char_out(e, byte) ==
  LET f == [e EXCEPT !.accum = Append(@, byte)]
  IN  IF Len(f.accum) >= PACKET THEN flush_char(f) ELSE f

LowBytes(e, bits, n) ==
  LET after[k \in Nat] ==
        IF k = 0 THEN e ELSE char_out(after[k - 1], (bits \div Pow2[8 * (k - 1)]) % 256)
  IN  after[n]

(* A width for the next code: back to the first one after a clear, else one   *)
(* bit more when the next entry would not fit.                                *)
WidenAt(e, limit) ==
  IF e.clear_flg
  THEN [e EXCEPT !.n_bits = initCodeSize + 1, !.maxcode = MAXCODE(initCodeSize + 1), !.clear_flg = FALSE]
  ELSE IF e.free_ent > limit
  THEN [e EXCEPT !.n_bits = @ + 1, !.maxcode = IF e.n_bits + 1 = BITS THEN maxmaxcode ELSE MAXCODE(e.n_bits + 1)]
  ELSE e

(* A width chosen one entry too early, and one too late. *)
WidenEarly(e) == WidenAt(e, e.maxcode - 1)
WidenLate(e) == WidenAt(e, e.maxcode + 1)

Widen(e) == WidenAt(e, e.maxcode)

(* The code behind the bits that wait, and whole bytes out.                   *)
Pack(e, code) ==
  LET acc == (e.cur_accum % Pow2[e.cur_bits]) + code * Pow2[e.cur_bits]
      n == e.cur_bits + e.n_bits
  IN  [LowBytes(e, acc, n \div 8) EXCEPT
         !.cur_accum = acc \div Pow2[8 * (n \div 8)], !.cur_bits = n % 8]

Output(e, code) ==
  LET next == Widen(Pack(e, code))
      rest == [char_out(next, next.cur_accum % 256) EXCEPT !.cur_bits = @ - 8]
  IN  IF code # EOFCode THEN next
      ELSE flush_char(IF next.cur_bits > 0 THEN rest ELSE next)

-----------------------------------------------------------------------------
EmptyTable == [s \in Slot |-> -1]

(* cl_block without its cl_hash: old entries survive the clear. *)
ClearBlockKeepsHash(e) == [e EXCEPT !.free_ent = ClearCode + 2, !.clear_flg = TRUE]

(* cl_hash and the start of cl_block; its output follows in Emit.             *)
ClearBlock(e) == [e EXCEPT !.htab = EmptyTable, !.free_ent = ClearCode + 2, !.clear_flg = TRUE]

(* The object as its constructor leaves it. *)
EncoderInit ==
  /\ image \in Images
  /\ codes = <<>>
  /\ enc = [pc |-> "start", outs |-> <<>>, accum |-> <<>>, cur_accum |-> 0, cur_bits |-> 0,
            n_bits |-> 0, maxcode |-> 0, clear_flg |-> FALSE, free_ent |-> 0,
            htab |-> [s \in Slot |-> 0], codetab |-> [s \in Slot |-> 0],
            curPixel |-> 0, ent |-> 0, c |-> 0, i |-> 0, disp |-> 0]

Written(e, code) == Append(codes, [code |-> code, width |-> e.n_bits])

(* encode and compress up to the loop: the prologue and the first clear code. *)
Prologue ==
  LET e == [enc EXCEPT !.pc = "pixel", !.outs = <<initCodeSize>>, !.htab = EmptyTable,
              !.n_bits = initCodeSize + 1, !.maxcode = MAXCODE(initCodeSize + 1),
              !.free_ent = ClearCode + 2, !.ent = image[1], !.curPixel = 1]
  IN  /\ enc.pc = "start"
      /\ enc' = Output(e, ClearCode)
      /\ codes' = Written(e, ClearCode)

fcode(e) == e.c * Pow2[BITS] + e.ent

(* A pair found in the table: the match grows by the pixel. *)
Match(e, s) == [e EXCEPT !.pc = "pixel", !.ent = e.codetab[s]]

(* nextPixel and the first look into the table. *)
NextPixel ==
  LET c == image[enc.curPixel + 1]
      s == Xor(c * Pow2[HSHIFT], enc.ent)
      e == [enc EXCEPT !.curPixel = @ + 1, !.c = c, !.i = s]
  IN  /\ enc.pc = "pixel" /\ enc.curPixel < Len(image)
      /\ enc' = IF e.htab[s] = fcode(e) THEN Match(e, s)
                ELSE [e EXCEPT !.pc = IF e.htab[s] >= 0 THEN "probe" ELSE "emit",
                               !.disp = IF s = 0 THEN 1 ELSE HSIZE - s]
      /\ UNCHANGED codes

(* One turn of the secondary probe. *)
Probe ==
  LET back == enc.i - enc.disp
      s == IF back < 0 THEN back + HSIZE ELSE back
      e == [enc EXCEPT !.i = s]
  IN  /\ enc.pc = "probe"
      /\ enc' = IF e.htab[s] = fcode(e) THEN Match(e, s)
                ELSE [e EXCEPT !.pc = IF e.htab[s] >= 0 THEN "probe" ELSE "emit"]
      /\ UNCHANGED codes

(* The pair is new: its prefix is written and the pair enters the table, or   *)
(* the full table is cleared and the clear code follows.                      *)
Emit ==
  LET e == [Output(enc, enc.ent) EXCEPT !.pc = "pixel", !.ent = enc.c]
      cleared == ClearBlock(e)
  IN  /\ enc.pc = "emit"
      /\ \/ /\ e.free_ent < maxmaxcode
            /\ enc' = [e EXCEPT !.codetab[enc.i] = e.free_ent, !.free_ent = @ + 1, !.htab[enc.i] = fcode(enc)]
            /\ codes' = Written(enc, enc.ent)
         \/ /\ e.free_ent >= maxmaxcode
            /\ enc' = Output(cleared, ClearCode)
            /\ codes' = Append(Written(enc, enc.ent), [code |-> ClearCode, width |-> cleared.n_bits])

(* The last match, the end code, and the block terminator of encode. *)
Epilogue ==
  LET e == Output(enc, enc.ent)
      f == Output(e, EOFCode)
  IN  /\ enc.pc = "pixel" /\ enc.curPixel = Len(image)
      /\ enc' = [f EXCEPT !.pc = "done", !.outs = Append(@, 0)]
      /\ codes' = Append(Written(enc, enc.ent), [code |-> EOFCode, width |-> e.n_bits])

EncoderNext == (Prologue \/ NextPixel \/ Probe \/ Emit \/ Epilogue) /\ UNCHANGED image

-----------------------------------------------------------------------------
(* The fields keep their ranges: the counters of bits and bytes stay below a  *)
(* byte and a packet, the next code never passes maxmaxcode ("should NEVER    *)
(* generate this code"), and every code fits the width it is written in.      *)
EncoderTypeOK ==
  /\ image \in Images
  /\ enc.pc \in {"start", "pixel", "probe", "emit", "done"}
  /\ enc.cur_bits \in -7 .. 7 /\ enc.cur_accum \in 0 .. 255
  /\ Len(enc.accum) < PACKET /\ \A k \in DOMAIN enc.accum : enc.accum[k] \in 0 .. 255
  /\ \A k \in DOMAIN enc.outs : enc.outs[k] \in 0 .. 255
  /\ enc.pc # "start" => /\ enc.n_bits \in initCodeSize + 1 .. BITS
                         /\ enc.free_ent \in ClearCode + 2 .. maxmaxcode
  /\ {enc.i, enc.disp} \subseteq 0 .. HSIZE /\ enc.i < HSIZE
  /\ \A k \in DOMAIN codes : codes[k].code < maxmaxcode /\ codes[k].code < Pow2[codes[k].width]
=============================================================================
