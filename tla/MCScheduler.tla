---------------------------- MODULE MCScheduler ----------------------------
(* Instances of Scheduler for TLC.                                         *)
EXTENDS Scheduler, TLC

CONSTANTS p1, p2, n1, n2, s1

NodeSymmetry == Permutations(Nodes)
=============================================================================
