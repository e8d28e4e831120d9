------------------------------- MODULE MCPaths -------------------------------
(* Model-checking instance of Paths: a peer that moves between a network   *)
(* of its own and this node's, and one that only the relay reaches.        *)
EXTENDS Paths

CONSTANTS p1, p2, home, lan

TwoPeers == <<p1, p2>>
=============================================================================
