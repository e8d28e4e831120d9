---------------------------- MODULE MCDerpClient ----------------------------
(* Model-checking instance of DerpClient: the clock wraps after nine ticks,  *)
(* three more than the longest backoff, so that a deadline of the backoff   *)
(* may lie before the wrap, behind it, or be left over from before it.      *)
EXTENDS DerpClient
=============================================================================
