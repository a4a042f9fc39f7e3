-------------------------- MODULE MCSchedulerCache --------------------------
(* Small instances of SchedulerCache for TLC. *)
EXTENDS SchedulerCache, TLC

CONSTANTS p1, p2, n1, n2

\* Nodes are interchangeable; pods are not when only some have affinity.
NodeSymmetry == Permutations(Nodes)
=============================================================================
