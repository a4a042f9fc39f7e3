--------------------------- MODULE MCWaitingPods ---------------------------
(* Instances of WaitingPods for TLC.                                       *)
EXTENDS WaitingPods

CONSTANTS u1, c1, c2, k1, k2
=============================================================================
