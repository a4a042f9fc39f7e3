CONSTANTS
    Histograms = {h1, h2}
    FirstBucketSize = 1
    Ratio = 2
    MaxValue = 3
    Epsilon = 1
    MaxDecayExponent = 1
    MaxCheckpointWeight = 12
    Percentiles <- MCPercentiles
    Values = {0, 1, 3}
    Weights = {3}
    MaxTime = 2
    MaxSteps = 5
    Target <- MCTarget
    LowerBound <- MCLower
    UpperBound <- MCUpper
    Margin <- MCMargin
    Multiplier <- MCMultiplier
    MinAmount = 2
    MaxAmount = 8
    Containers = 2
    MaxDays = 1
SYMMETRY Symmetry
SPECIFICATION Spec
CHECK_DEADLOCK FALSE
INVARIANTS PercentileExact BoundsExact BoundsOrdered
