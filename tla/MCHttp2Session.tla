--------------------------- MODULE MCHttp2Session ---------------------------
(* Model-checking instance of Http2Session: the response to the            *)
(* registration, the first map and one or two updates, each of one or two  *)
(* frames, in records of any size.                                         *)
EXTENDS Http2Session
=============================================================================
