--------------------------- MODULE MCRecommender ---------------------------
(* Instances of Recommender for TLC.                                       *)
EXTENDS Recommender

CONSTANTS v1, v2, c1, c2, c3

MCVpaOf1 == c1 :> v1

MCVpaOf == c1 :> v1 @@ c2 :> v1 @@ c3 :> v2
=============================================================================
