----------------------------- MODULE MCGifFrame -----------------------------
(* Instance of GifFrame for TLC: a code space of 16, of which ten are for     *)
(* entries. A frame repeats a pattern of four colours for Turn pixels, long   *)
(* enough to fill the table, then the same pattern in the opposite colours,   *)
(* so that new pairs follow the clear; and every frame of up to three pixels. *)
EXTENDS GifFrame
CONSTANTS N, Turn, Period
MCImages == { [k \in 1 .. N |-> LET c == p[((k - 1) % Len(p)) + 1] IN IF k <= Turn THEN c ELSE Pow2[Depth] - 1 - c] :
                p \in UNION { [1 .. n -> Pixel] : n \in 1 .. Period } }
            \cup UNION { [1 .. n -> Pixel] : n \in 1 .. 3 }
=============================================================================
