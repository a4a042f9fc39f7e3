---------------------------- MODULE MCHistogram ----------------------------
(* A small instance of the histograms and the estimators for TLC.          *)
EXTENDS Estimators, TLC

Symmetry == Permutations(Histograms)

MCLower == <<1, 2>>
MCTarget == <<9, 10>>
MCUpper == <<19, 20>>
MCPercentiles == {MCLower, MCTarget, MCUpper}
MCMargin == <<3, 20>>
MCMultiplier == <<1, 10>>
=============================================================================
