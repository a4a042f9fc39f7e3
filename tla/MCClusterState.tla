--------------------------- MODULE MCClusterState ---------------------------
(* Instances of ClusterState for TLC.                                      *)
EXTENDS ClusterState, TLC

CONSTANTS p1, p2, n1, l1, l2, v1, s1, s2, a1, a2, a3

\* s2 also matches what s1 does.
MCMatches == {<<s1, l1>>, <<s2, l1>>, <<s2, l2>>}

Symmetry == Permutations(Aggs)
=============================================================================
