------------------------- MODULE MCSchedulingQueue -------------------------
(* Instances of SchedulingQueue for TLC.                                   *)
EXTENDS SchedulingQueue, TLC

CONSTANTS p1, p2, p3, n1, n2

PodAndNodeSymmetry == Permutations(Pods) \cup Permutations(Nodes)
=============================================================================
