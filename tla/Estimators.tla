----------------------------- MODULE Estimators -----------------------------
(***************************************************************************)
(* The recommendation for a container: the estimators of logic/estimator.go*)
(* and how logic/recommender.go stacks them into the target, the lower and *)
(* the upper bound.                                                        *)
(*                                                                         *)
(* Amounts are whole, as ResourceAmount is, and cut off at MaxAmount.  A   *)
(* confidence is a pair of a number of samples and a life span, both in    *)
(* days; the estimate of a resource is a function of the histogram.        *)
(***************************************************************************)
EXTENDS Histogram

CONSTANTS
    Target,         \* percentile of the target, a pair as in Percentiles
    LowerBound,     \* percentile of the lower bound
    UpperBound,     \* percentile of the upper bound
    Margin,         \* safetyMarginFraction, a pair
    Multiplier,     \* multiplier of the lower bound's confidence, a pair
    MinAmount,      \* pod-recommendation-min of the resource
    MaxAmount,      \* MaxResourceAmount
    Containers,     \* containers of the pod, among which MinAmount is divided
    MaxDays         \* bound: days of history

ASSUME EstimatorAssumption ==
    /\ {Target, LowerBound, UpperBound} \subseteq Percentiles
    /\ LowerBound[1] * Target[2] <= Target[1] * LowerBound[2]
    /\ Target[1] * UpperBound[2] <= UpperBound[1] * Target[2]
ASSUME AmountAssumption ==
    /\ {Margin[1], Multiplier[1], Multiplier[2], MinAmount, MaxAmount, MaxDays} \subseteq Nat
    /\ {Margin[2], Containers} \subseteq Nat \ {0}

\* The amounts are far below the cut-off: a percentile with its margin is (1e12 bytes
\* and 1e6 millicores are in the last buckets, MaxResourceAmount is 1e14), and so is
\* the minimum.
ASSUME CutOffAssumption ==
    LET last == GetBucketStart(Last)
    IN  /\ last + (last * Margin[1]) \div Margin[2] <= MaxAmount
        /\ MinAmount \div Containers <= MaxAmount

-----------------------------------------------------------------------------

\* resourceAmountFromFloat of a non-negative number, the pair n / d: it is cut off and
\* loses its fraction.  n / 0 is infinite, and 0 / 0 is no number, which converts to
\* the smallest integer or to zero, depending on the processor.
resourceAmountFromFloat(n, d) ==
    IF d = 0 THEN IF n = 0 THEN - MaxAmount - 1 ELSE MaxAmount
    ELSE Min({n \div d, MaxAmount})

\* ScaleResource by the factor n / d.
ScaleResource(amount, n, d) == resourceAmountFromFloat(amount * n, d)

\* Days of history: the shorter of the life span and the number of samples.
getConfidence(c) == Min({c.lifespan, c.samples})

\* percentileEstimator.
PercentileEstimation(h, p) == resourceAmountFromFloat(Percentile(h, p), 1)

\* marginEstimator.
WithMargin(amount) == amount + ScaleResource(amount, Margin[1], Margin[2])

\* Mutant: the multiplier of the upper bound has the exponent of the lower one.
UpperBoundNarrowed(amount, confidence) ==
    ScaleResource(amount, confidence * confidence, (1 + confidence) * (1 + confidence))

\* confidenceMultiplier of the upper bound: 1 + 1 / confidence.
ConfidentUpperBound(amount, confidence) ==
    ScaleResource(amount, confidence + 1, confidence)

\* confidenceMultiplier of the lower bound: (1 + Multiplier / confidence) ^ -2.
ConfidentLowerBound(amount, confidence) ==
    LET n == confidence * Multiplier[2]
        d == n + Multiplier[1]
    IN  ScaleResource(amount, n * n, d * d)

\* minResourcesEstimator, with the pod's minimum divided among its containers.
WithMinResources(amount) ==
    Max({amount, ScaleResource(MinAmount, 1, Containers)})

\* estimateContainerResources by the recommender that CreatePodResourceRecommender
\* makes.  A resource that is not controlled is
\* left out of all three alike.
GetRecommendedPodResources(h, c) ==
    [target |-> WithMinResources(WithMargin(PercentileEstimation(h, Target))),
     lower  |-> WithMinResources(ConfidentLowerBound(
                    WithMargin(PercentileEstimation(h, LowerBound)), getConfidence(c))),
     upper  |-> WithMinResources(ConfidentUpperBound(
                    WithMargin(PercentileEstimation(h, UpperBound)), getConfidence(c)))]

-----------------------------------------------------------------------------
(* Properties.                                                             *)

\* The recommendations of a container are ordered and at least the minimum, for
\* every history, those restored from a checkpoint and those that decayed to nothing
\* included, and every confidence, none included: lower bound, target, upper bound.
\* The Updater that reads them evicts a pod outside the bounds.
BoundsOrdered ==
    \A x \in Histograms, c \in [lifespan : 0 .. MaxDays, samples : 0 .. MaxDays] :
       LET r == GetRecommendedPodResources(hist[x], c)
       IN  MinAmount \div Containers <= r.lower /\ r.lower <= r.target /\ r.target <= r.upper
=============================================================================
