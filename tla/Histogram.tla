----------------------------- MODULE Histogram -----------------------------
(***************************************************************************)
(* The decaying histograms of recommender/util: histogram.go,              *)
(* decaying_histogram.go and the exponential buckets of                    *)
(* histogram_options.go.                                                   *)
(*                                                                         *)
(* Two histograms take samples, give some back, are merged and are written *)
(* to a checkpoint and restored from it.  Beside each is the bag of the    *)
(* samples that it stands for.                                             *)
(*                                                                         *)
(* Weights are rational: a histogram has whole weights and the unit they   *)
(* are counted in.  Times are multiples of the half-life, so that all      *)
(* decay factors are powers of two; the rounding of floating point is left *)
(* out.                                                                    *)
(***************************************************************************)
EXTENDS Integers, FiniteSets, FiniteSetsExt, Bags

CONSTANTS
    Histograms,         \* two histograms
    FirstBucketSize,    \* size of the first bucket
    Ratio,              \* how much larger than the one before it a bucket is
    MaxValue,           \* the value that the last bucket starts at or above
    Epsilon,            \* the weight below which a bucket counts as empty
    MaxDecayExponent,   \* half-lives after which the reference time is moved
    MaxCheckpointWeight,\* the weight of the heaviest bucket in a checkpoint
    Percentiles,        \* percentiles asked for, as pairs: <<9, 10>> is 0.9
    Values,             \* bound: values of samples
    Weights,            \* bound: weights of samples, before decay
    MaxTime,            \* bound: times of samples
    MaxSteps            \* bound: operations

ASSUME OptionsAssumption ==
    /\ {FirstBucketSize, MaxValue, Epsilon, MaxDecayExponent, MaxCheckpointWeight}
          \subseteq Nat \ {0}
    /\ Ratio \in Nat \ {0, 1}
ASSUME SamplesAssumption ==
    /\ Cardinality(Histograms) = 2
    /\ Values \subseteq Nat /\ IsFiniteSet(Values)
    /\ Weights \subseteq Nat \ {0} /\ IsFiniteSet(Weights)
    /\ {MaxTime, MaxSteps} \subseteq Nat
ASSUME PercentilesAssumption ==
    \A p \in Percentiles : p[2] \in Nat \ {0} /\ p[1] \in 1 .. p[2]

VARIABLES
    hist,       \* hist[x]: the histogram x
    samples,    \* history: samples[x]: the samples in x
    kept,       \* history: kept[x]: the samples in x that came from a checkpoint
    rounds,     \* history: rounds[x]: how often their weights were rounded
    lossy,      \* history: the histograms that had weights below Epsilon
    steps       \* history: the number of operations

vars == <<hist, samples, kept, rounds, lossy, steps>>

-----------------------------------------------------------------------------
(* Buckets: exponentialHistogramOptions.                                   *)

\* math.Pow of whole numbers, as a recursive function so that its laws can be proved.
Power(base, exponent) ==
    LET power[n \in Nat] == IF n = 0 THEN 1 ELSE base * power[n - 1]
    IN  power[exponent]

\* NewExponentialHistogramOptions: the first power of Ratio that reaches the last
\* bucket's start, and one bucket more.
NumBuckets ==
    1 + Min({n \in 0 .. MaxValue :
                FirstBucketSize * (Power(Ratio, n) - 1) >= MaxValue * (Ratio - 1)})

Buckets == 0 .. NumBuckets - 1

Last == NumBuckets - 1

GetBucketStart(b) == (FirstBucketSize * (Power(Ratio, b) - 1)) \div (Ratio - 1)

\* The whole part of the logarithm, at most the last bucket.
FindBucket(value) ==
    IF value < FirstBucketSize THEN 0
    ELSE Max({b \in Buckets :
                Power(Ratio, b) * FirstBucketSize <= value * (Ratio - 1) + FirstBucketSize})

-----------------------------------------------------------------------------
(* Histograms.                                                             *)

\* weight[b]: the weight in bucket b, in units of 1 / unit; reference: the
\* referenceTimestamp, at first so early that the first sample moves it.
NewHistogram ==
    [weight |-> [b \in Buckets |-> 0], total |-> 0, unit |-> 1,
     min |-> Last, max |-> 0, reference |-> - MaxDecayExponent - 1]

NonEmpty(h, b) == h.weight[b] >= Epsilon * h.unit

IsEmpty(h) == ~ NonEmpty(h, h.min)

\* The same weights, counted in units k times as small.
Refined(h, k) ==
    [h EXCEPT !.weight = [b \in Buckets |-> k * @[b]], !.total = k * @, !.unit = k * @]

\* The same weights in the largest unit.
Reduced(h) ==
    LET d == Max({n \in 1 .. h.unit :
                     /\ h.unit % n = 0 /\ h.total % n = 0
                     /\ \A b \in Buckets : h.weight[b] % n = 0})
    IN  [h EXCEPT !.weight = [b \in Buckets |-> @[b] \div d],
                  !.total = @ \div d, !.unit = @ \div d]

\* updateMinAndMaxBucket.
WithBounds(h) ==
    [h EXCEPT !.min = Min({b \in h.min .. Last : NonEmpty(h, b)} \cup {Last}),
              !.max = Max({b \in 0 .. h.max : NonEmpty(h, b)} \cup {0})]

\* scale by 2^-k: only what is between min and max is scaled.
Scaled(h, k) ==
    WithBounds([h EXCEPT
        !.weight = [b \in Buckets |-> IF b \in h.min .. h.max THEN @[b] ELSE Power(2, k) * @[b]],
        !.unit = Power(2, k) * @])

shiftReferenceTimestamp(h, time) ==
    [Scaled(h, time - h.reference) EXCEPT !.reference = time]

\* decayFactor: first it moves the reference time if the exponent is too large.
Renormalized(h, time) ==
    IF time > h.reference + MaxDecayExponent THEN shiftReferenceTimestamp(h, time) ELSE h

\* The histogram in a unit in which the sample's decayed weight is whole, and that
\* weight.
Prepared(h, time) ==
    IF time < h.reference THEN Refined(h, Power(2, h.reference - time)) ELSE h

Decayed(h, weight, time) ==
    IF time < h.reference THEN (weight * h.unit) \div Power(2, h.reference - time)
    ELSE weight * h.unit * Power(2, time - h.reference)

\* Mutant: the first non-empty bucket is not moved.
AddedAbove(g, b, w) ==
    LET h == [g EXCEPT !.weight[b] = @ + w, !.total = @ + w]
    IN  [h EXCEPT !.max = IF b > @ /\ NonEmpty(h, b) THEN b ELSE @]

Added(g, b, w) ==
    LET h == [g EXCEPT !.weight[b] = @ + w, !.total = @ + w]
    IN  [h EXCEPT !.min = IF b < @ /\ NonEmpty(h, b) THEN b ELSE @,
                  !.max = IF b > @ /\ NonEmpty(h, b) THEN b ELSE @]

\* AddSample of a decaying histogram.
HistAddSample(h, value, weight, time) ==
    LET g == Prepared(Renormalized(h, time), time)
    IN  Reduced(Added(g, FindBucket(value), Decayed(g, weight, time)))

\* safeSubtract.
SafeSubtract(h, value, sub) ==
    IF value - sub < Epsilon * h.unit THEN 0 ELSE value - sub

\* SubtractSample of a decaying histogram.
HistSubtractSample(h, value, weight, time) ==
    LET g == Prepared(Renormalized(h, time), time)
        b == FindBucket(value)
        w == Decayed(g, weight, time)
    IN  Reduced(WithBounds([g EXCEPT !.total = SafeSubtract(g, @, w),
                                     !.weight[b] = SafeSubtract(g, @, w)]))

\* Merge moves the older reference time to the younger one, in h or in o.
Aligned(h, o) ==
    IF h.reference < o.reference THEN shiftReferenceTimestamp(h, o.reference) ELSE h

HistMerge(a, b) ==
    LET h == Refined(Aligned(a, b), Aligned(b, a).unit)
        o == Refined(Aligned(b, a), Aligned(a, b).unit)
    IN  Reduced([h EXCEPT
            !.weight = [i \in Buckets |-> @[i] + IF i \in o.min .. o.max THEN o.weight[i] ELSE 0],
            !.total = @ + o.total,
            !.min = Min({@, o.min}),
            !.max = Max({@, o.max})])

SumOver(f, S) == MapThenSumSet(LAMBDA i : f[i], S)

\* The bucket that Percentile stops at.
PercentileBucket(h, p) ==
    Min({b \in h.min .. h.max - 1 : SumOver(h.weight, h.min .. b) * p[2] >= p[1] * h.total}
            \cup {Max({h.min, h.max})})

Percentile(h, p) ==
    LET b == PercentileBucket(h, p)
    IN  IF IsEmpty(h) THEN 0
        ELSE GetBucketStart(IF b < Last THEN b + 1 ELSE b)

-----------------------------------------------------------------------------
(* Checkpoints.                                                            *)

\* The rounded weight in a checkpoint whose heaviest bucket weighs max.  If that is
\* nothing, the ratio is no number, which converts to zero.
Rounded(w, max) ==
    IF max = 0 THEN 0 ELSE (2 * w * MaxCheckpointWeight + max) \div (2 * max)

\* SaveToCheckpoint.  The total keeps its precision; small weights are left out.
HistSaveToCheckpoint(h) ==
    LET max == Max({h.weight[b] : b \in h.min .. h.max} \cup {0})
        B   == {b \in h.min .. h.max : Rounded(h.weight[b], max) > 0}
    IN  [weights |-> [b \in B |-> Rounded(h.weight[b], max)],
         total |-> h.total, unit |-> h.unit, reference |-> h.reference]

\* Mutant: the restored weights are the rounded ones.
RestoredAsWritten(c) ==
    LET B == DOMAIN c.weights
    IN  [NewHistogram EXCEPT
            !.weight = [b \in Buckets |-> IF b \in B THEN c.weights[b] ELSE 0],
            !.total = SumOver(c.weights, B), !.reference = c.reference,
            !.min = Min(B \cup {Last}), !.max = Max(B \cup {0})]

\* LoadFromCheckpoint into a new histogram.
HistLoadFromCheckpoint(c) ==
    LET B   == DOMAIN c.weights
        sum == SumOver(c.weights, B)
    IN  IF sum = 0 THEN [NewHistogram EXCEPT !.reference = c.reference]
        ELSE Reduced([weight |-> [b \in Buckets |-> IF b \in B THEN c.weights[b] * c.total ELSE 0],
                      total |-> c.total * sum, unit |-> c.unit * sum,
                      min |-> Min(B \cup {Last}), max |-> Max(B \cup {0}),
                      reference |-> c.reference])

-----------------------------------------------------------------------------

Other(x) == CHOOSE y \in Histograms : y # x

Init ==
    /\ hist = [x \in Histograms |-> NewHistogram]
    /\ samples = [x \in Histograms |-> EmptyBag]
    /\ kept = [x \in Histograms |-> EmptyBag]
    /\ rounds = [x \in Histograms |-> 0]
    /\ lossy = {}
    /\ steps = 0

NumSamples(x) == BagCardinality(samples[x]) + BagCardinality(kept[x])

\* A weight that is there and below Epsilon.
Faint(h) == \E b \in Buckets : h.weight[b] > 0 /\ ~ NonEmpty(h, b)

AddSample(x, value, weight, time) ==
    /\ hist' = [hist EXCEPT ![x] = HistAddSample(@, value, weight, time)]
    /\ samples' = [samples EXCEPT ![x] = @ (+) SetToBag({<<value, weight, time>>})]
    /\ lossy' = IF Faint(hist'[x]) \/ Faint(Renormalized(hist[x], time))
                THEN lossy \cup {x} ELSE lossy
    /\ UNCHANGED <<kept, rounds>>

\* Of a sample that was added and did not come from a checkpoint.
SubtractSample(x, s) ==
    LET g == Prepared(Renormalized(hist[x], s[3]), s[3])
        left == g.weight[FindBucket(s[1])] - Decayed(g, s[2], s[3])
    IN  /\ s \in DOMAIN samples[x]
        /\ hist' = [hist EXCEPT ![x] = HistSubtractSample(@, s[1], s[2], s[3])]
        /\ samples' = [samples EXCEPT ![x] = @ (-) SetToBag({s})]
        /\ lossy' = IF Faint(g) \/ left \in 1 .. Epsilon * g.unit - 1
                    THEN lossy \cup {x} ELSE lossy
        /\ UNCHANGED <<kept, rounds>>

\* Merge also moves the reference time of the histogram that is merged.
Merge(x) ==
    LET y == Other(x)
    IN  /\ NumSamples(y) > 0
        /\ hist' = [hist EXCEPT ![x] = HistMerge(hist[x], hist[y]),
                                ![y] = Reduced(Aligned(hist[y], hist[x]))]
        /\ samples' = [samples EXCEPT ![x] = @ (+) samples[y]]
        /\ kept' = [kept EXCEPT ![x] = @ (+) kept[y]]
        /\ rounds' = [rounds EXCEPT ![x] = Max({@, rounds[y]})]
        /\ lossy' = {z \in Histograms :
              \/ z \in lossy \/ Faint(hist'[z])
              \/ z = x /\ (y \in lossy \/ Faint(hist'[y]) \/ Faint(Aligned(hist[x], hist[y])))}

\* The recommender stops and restarts: a new histogram is restored from what
\* SaveToCheckpoint returns for the other one.
Checkpoint(x) ==
    LET y == Other(x)
    IN  /\ NumSamples(y) > 0
        /\ hist[x] = NewHistogram
        /\ hist' = [hist EXCEPT ![x] = HistLoadFromCheckpoint(HistSaveToCheckpoint(hist[y]))]
        /\ kept' = [kept EXCEPT ![x] = samples[y] (+) kept[y]]
        /\ rounds' = [rounds EXCEPT ![x] = rounds[y] + 1]
        /\ lossy' = IF y \in lossy \/ Faint(hist'[x]) THEN lossy \cup {x} ELSE lossy
        /\ UNCHANGED samples

Next ==
    /\ steps < MaxSteps
    /\ steps' = steps + 1
    /\ \E x \in Histograms :
          \/ \E v \in Values, w \in Weights, t \in 0 .. MaxTime : AddSample(x, v, w, t)
          \/ \E s \in DOMAIN samples[x] : SubtractSample(x, s)
          \/ Merge(x)
          \/ Checkpoint(x)

Spec == Init /\ [][Next]_vars

-----------------------------------------------------------------------------
(* Properties.                                                             *)

\* What the samples in x with a value below v weigh, when each half-life doubles
\* the weight of a sample.
WeightBelow(x, v) ==
    LET B == samples[x] (+) kept[x]
    IN  SumOver([s \in DOMAIN B |-> B[s] * s[2] * Power(2, s[3])], {s \in DOMAIN B : s[1] < v})

\* However samples were added, taken back, decayed, merged, saved and restored, a
\* percentile that the estimators ask for is that of the samples, to the resolution
\* of the buckets: at least the fraction p of their weight is below it (unless it is
\* the start of the last bucket), and less than p is below any lower bucket
\* boundary.  Each time weights went through the whole numbers of a checkpoint, p
\* is off by at most NumBuckets / MaxCheckpointWeight.  A histogram that has had
\* weights below Epsilon is left out.
PercentileExact ==
    \A x \in Histograms \ lossy : \A p \in Percentiles :
       LET v     == Percentile(hist[x], p)
           total == WeightBelow(x, Max(Values) + 1)
           slack == rounds[x] * NumBuckets * p[2]
           M     == MaxCheckpointWeight
       IN  IF total = 0 THEN v = 0
           ELSE /\ \/ v = GetBucketStart(Last)
                   \/ WeightBelow(x, v) * p[2] * M >= (p[1] * M - slack) * total
                /\ \A b \in Buckets : GetBucketStart(b) < v =>
                      WeightBelow(x, GetBucketStart(b)) * p[2] * M
                          < (p[1] * M + slack) * total

\* The bounds between which Percentile, Merge, scale and SaveToCheckpoint look at
\* buckets are the first and the last bucket that is not empty, as the comments on
\* minBucket and maxBucket say, whatever decay, subtraction and merges made of the
\* weights.  A histogram with something restored is left out: LoadFromCheckpoint
\* takes over every bucket of the checkpoint.
BoundsExact ==
    \A x \in Histograms : rounds[x] = 0 =>
       LET S == {b \in Buckets : NonEmpty(hist[x], b)}
       IN  /\ hist[x].min = Min(S \cup {Last})
           /\ hist[x].max = Max(S \cup {0})
=============================================================================
