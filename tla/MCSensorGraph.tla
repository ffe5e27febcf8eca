--------------------------- MODULE MCSensorGraph ---------------------------
(* Model-checking instance of SensorGraph. *)
EXTENDS SensorGraph, TLC

\* Sessions are only counted.
SessionSymmetry == Permutations(Sessions)
=============================================================================
