---------------------------- MODULE MCConversion ----------------------------
(* Instance of Conversion for TLC: three conversions, so that a run follows   *)
(* one that masks its errors and a restart, with three decoder results each.  *)
EXTENDS Conversion

MCInputs == [palette |-> 1, gif |-> 2]
=============================================================================
