--------------------------- MODULE MCSampleStream ---------------------------
(* Model-checking instance of SampleStream. *)
EXTENDS SampleStream

CONSTANTS s1, s2

\* The first session takes every sample, the second every other one.
MCRatio == [s \in {s1, s2} |-> IF s = s1 THEN 1 ELSE 2]
=============================================================================
