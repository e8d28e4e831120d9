--------------------------- MODULE MCTs2021Channel ----------------------------
(* Two connections, a server key that changes once, four records to send on*)
(* nonces for three, and two records to receive.                           *)
EXTENDS Ts2021Channel
=============================================================================
