--------------------------- MODULE MCControlPlane ---------------------------
(* Model-checking instance of ControlPlane: all three key pairs, as a save *)
(* can be torn between any two items; the clocks count some 30 s a tick.   *)
EXTENDS ControlPlane
=============================================================================
