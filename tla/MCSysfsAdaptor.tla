--------------------------- MODULE MCSysfsAdaptor ---------------------------
(* Model-checking instance of SysfsAdaptor. *)
EXTENDS SysfsAdaptor

CONSTANTS u1, u2, s1, s2
=============================================================================
