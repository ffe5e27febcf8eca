--------------------------- MODULE MCHybrisManager --------------------------
(* Model-checking instance of HybrisManager, and thereby of HybrisAdaptor. *)
EXTENDS HybrisManager

CONSTANTS u1, u2, s1, s2, p, q, r
=============================================================================
