---------------------------- MODULE MCWgManager ----------------------------
(* Model-checking instance of WgManager.                                    *)
EXTENDS WgManager, TLC

CONSTANTS p1, p2, p3

OnePeer    == {p1}
ThreePeers == {p1, p2, p3}

OneInOrder   == p1 :> 1
ThreeInOrder == p1 :> 1 @@ p2 :> 2 @@ p3 :> 3
=============================================================================
