----------------------------- MODULE MCNeuQuant -----------------------------
(* Four neurons, all pictures of up to three pixels of six colours, and      *)
(* longer ones whose lengths have each of the primes for a factor.           *)
EXTENDS NeuQuant, SequencesExt

Colours == {[b |-> 0, g |-> 0, r |-> 0], [b |-> 3, g |-> 0, r |-> 1], [b |-> 0, g |-> 1, r |-> 3],
            [b |-> 2, g |-> 2, r |-> 2], [b |-> 1, g |-> 3, r |-> 0], [b |-> 3, g |-> 3, r |-> 3]}
Striped(n) == [k \in 1..n |-> IF k % 2 = 0 THEN [b |-> 1, g |-> 3, r |-> 0]
                              ELSE IF k % 3 = 0 THEN [b |-> 3, g |-> 0, r |-> 1]
                              ELSE [b |-> 2, g |-> 2, r |-> 2]]
MCPictures == UNION {[1..n -> Colours] : n \in 1..3} \cup {Striped(n) : n \in {4, 7, 11, 12, 15, 20, 70}}
MCQueries == [b : {0, 2}, g : 0..3, r : {0, 1, 3}]
MCSamplings == {1, 2}
=============================================================================
