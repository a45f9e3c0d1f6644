----------------------------- MODULE MCBridgeTx -----------------------------
(* An instance of BridgeTx for TLC: four messages, three of them to peers    *)
(* out of range, on a queue of two.                                          *)
EXTENDS BridgeTx, TLC

CONSTANTS near, too, far, big

FourMsgs == {near, too, far, big}
Lengths == near :> 1 @@ too :> 1 @@ far :> 1 @@ big :> 3
OutOfRange == {too, far, big}
=============================================================================
