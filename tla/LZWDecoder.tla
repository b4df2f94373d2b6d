----------------------------- MODULE LZWDecoder -----------------------------
(* The decompressor of libavcodec/lzw.c in GIF mode, as gifdec.c drives it on *)
(* the bytes of one frame. The stack of pixels of ff_lzw_decode is popped in  *)
(* the step that fills it: gifdec asks for one line at a time and the stack   *)
(* waits between two calls, which leaves the order of the pixels as it is.    *)
EXTENDS Powers, Sequences

CONSTANT MAXBITS   \* LZW_MAXBITS (12)

VARIABLES
  gb,     \* the bytes after the initial code size, as the reader holds them
  dec     \* LZWState, the pixels put out and the codes read (history)

Byte(p) == IF p <= Len(gb) THEN gb[p] ELSE 0

(* A byte of data, stepping over the length byte of a sub-block.              *)
GetByte(d) ==
  LET e == IF d.bs = 0 THEN [d EXCEPT !.bs = Byte(d.pos), !.pos = @ + 1] ELSE d
  IN  [e EXCEPT !.bbuf = @ + Byte(e.pos) * Pow2[e.bbits], !.bbits = @ + 8,
                !.pos = @ + 1, !.bs = @ - 1]

lzw_get_code(d) ==
  LET missing == IF d.bbits >= d.cursize THEN 0 ELSE (d.cursize - d.bbits + 7) \div 8
      fetched[k \in Nat] == IF k = 0 THEN d ELSE GetByte(fetched[k - 1])
      e == fetched[missing]
  IN  [e EXCEPT !.code = e.bbuf % Pow2[d.cursize], !.bbuf = @ \div Pow2[d.cursize],
                !.bbits = @ - d.cursize,
                !.read = Append(@, [code |-> e.bbuf % Pow2[d.cursize], width |-> d.cursize])]

(* ff_lzw_decode_init. *)
DecoderInit(csize) ==
  [mode |-> "decode", pos |-> 1, bs |-> 0, bbuf |-> 0, bbits |-> 0, codesize |-> csize,
   cursize |-> csize + 1, top_slot |-> Pow2[csize + 1],
   newcodes |-> Pow2[csize] + 2, slot |-> Pow2[csize] + 2, fc |-> -1, oc |-> -1, code |-> 0,
   suffix |-> [s \in 0 .. Pow2[MAXBITS] - 1 |-> 0], prefix |-> [s \in 0 .. Pow2[MAXBITS] - 1 |-> 0],
   out |-> <<>>, read |-> <<>>]

(* The pixels a code stands for; a prefix is always an older code.            *)
Pixels(d) ==
  LET px[c \in 0 .. d.slot - 1] ==
        IF c < d.newcodes THEN <<c>> ELSE Append(px[d.prefix[c]], d.suffix[c])
  IN  px

ResetTable(d) ==
  [d EXCEPT !.cursize = d.codesize + 1, !.slot = d.newcodes, !.top_slot = Pow2[d.codesize + 1],
            !.fc = -1, !.oc = -1]

(* The entry a code adds: the previous code followed by the first pixel of    *)
(* this one; then the width grows when the table reaches its top.             *)
AddEntry(d, first) ==
  LET e == IF d.slot < d.top_slot /\ d.oc >= 0
           THEN [d EXCEPT !.suffix[d.slot] = first, !.prefix[d.slot] = d.oc, !.slot = @ + 1] ELSE d
      f == [e EXCEPT !.fc = first, !.oc = d.code]
  IN  IF f.slot >= f.top_slot /\ f.cursize < MAXBITS
      THEN [f EXCEPT !.top_slot = 2 * @, !.cursize = @ + 1] ELSE f

(* One turn of the loop of ff_lzw_decode: a code is read, and it ends the     *)
(* data, clears the table, or puts out pixels.                                *)
DecodeCode(size) ==
  LET d == lzw_get_code(dec)
      c == d.code
      px == Pixels(d)
      pixels == IF c = d.slot /\ d.fc >= 0 THEN Append(px[d.oc], d.fc) ELSE px[c]
      end == d.newcodes - 1
      clear == d.newcodes - 2
  IN  /\ dec.mode = "decode" /\ Len(dec.out) < size
      /\ \/ c = clear /\ dec' = ResetTable(d)
         \/ c = end /\ dec' = [d EXCEPT !.mode = "done"]
         \/ /\ c \notin {clear, end}
            /\ c > d.slot \/ (c = d.slot /\ d.fc < 0)
            /\ dec' = [d EXCEPT !.mode = "done"]
         \/ /\ c \notin {clear, end}
            /\ c < d.slot \/ (c = d.slot /\ d.fc >= 0)
            /\ dec' = [AddEntry(d, pixels[1]) EXCEPT !.out = @ \o pixels]
      /\ UNCHANGED gb

(* The frame is complete: gifdec stops asking. *)
Complete(size) ==
  /\ dec.mode = "decode" /\ Len(dec.out) >= size
  /\ dec' = [dec EXCEPT !.mode = "done"]
  /\ UNCHANGED gb
=============================================================================
