---------------------------- MODULE NodePlugins ----------------------------
(***************************************************************************)
(* The plugins that judge a node by itself: resources, ports, volumes,     *)
(* name, labels and schedulability as filters; resources, images, taints,  *)
(* node affinity and selector spreading as scores.                         *)
(*                                                                         *)
(* info is the part of a NodeInfo that AddPod and RemovePod keep: the      *)
(* pods, what they request, and the host ports they use.  A request is a   *)
(* function from the resources a container names to amounts.               *)
(***************************************************************************)
EXTENDS PluginTypes

CONSTANTS
    Native,         \* cpu, memory and ephemeral storage
    Scalar,         \* the extended resources
    DefaultRequest, \* what a container that names no cpu or memory is scored with
    Weights,        \* resource weights of the allocation scores
    Shape,          \* RequestedToCapacityRatio: a sequence of [utilization, score]
    ImageSizes,     \* size of each image
    MinThreshold, MaxContainerThreshold    \* of the image locality score

Resources == Native \cup Scalar

Asked(request, r) == IF r \in DOMAIN request THEN request[r] ELSE 0

SumOver(seq, Op(_)) == FoldLeft(LAMBDA total, x : total + Op(x), 0, seq)
MaxOver(seq, start, Op(_)) == FoldLeft(LAMBDA top, x : IF Op(x) > top THEN Op(x) ELSE top, start, seq)

\* Containers run together, init containers one after the other, the overhead is
\* added: computePodResourceRequest, and calculateResource of NodeInfo.
computePodResourceRequest(p) ==
    [r \in Resources |->
        MaxOver(PodSpec[p].inits, SumOver(PodSpec[p].containers, LAMBDA c : Asked(c, r)), LAMBDA c : Asked(c, r))
        + Asked(PodSpec[p].overhead, r)]

GetNonzeroRequestForResource(request, r) ==
    IF r \in DOMAIN DefaultRequest /\ r \notin DOMAIN request THEN DefaultRequest[r] ELSE Asked(request, r)

\* The same with the default amounts, for scores only.
calculatePodResourceRequest(p, r) ==
    MaxOver(PodSpec[p].inits,
            SumOver(PodSpec[p].containers, LAMBDA c : GetNonzeroRequestForResource(c, r)),
            LAMBDA c : GetNonzeroRequestForResource(c, r))
    + Asked(PodSpec[p].overhead, r)

PodRequest == [p \in Pods |-> computePodResourceRequest(p)]
NonZeroRequest == [p \in Pods |-> [r \in Resources |-> calculatePodResourceRequest(p, r)]]

\* The quantities of a node and of a pod are not negative: the API server refuses others.
ASSUME AmountsAssumption ==
    /\ \A n \in Nodes : Alloc[n]["pods"] \in Nat /\ \A r \in Resources : Alloc[n][r] \in Nat
    /\ \A p \in Pods, r \in Resources : PodRequest[p][r] \in Nat /\ NonZeroRequest[p][r] \in Nat

\* Weights are positive and a shape is a function of the utilization, between 0 and 100:
\* ValidateRequestedToCapacityRatioArgs; the other scorers weigh cpu and memory by one.
ASSUME ScorersAssumption ==
    /\ {"cpu", "memory"} \subseteq Native
    /\ IsFiniteSet(DOMAIN Weights) /\ DOMAIN Weights \subseteq Resources /\ DOMAIN Weights # {}
    /\ Weights = [r \in DOMAIN Weights |-> Weights[r]] /\ \A r \in DOMAIN Weights : Weights[r] \in Nat \ {0}
    /\ Len(Shape) \in Nat \ {0}
    /\ \A i \in 1 .. Len(Shape) :
          /\ Shape[i].utilization \in 0 .. 100 /\ Shape[i].score \in 0 .. MaxNodeScore
          /\ \A k \in 1 .. Len(Shape) : i < k => Shape[i].utilization < Shape[k].utilization

\* A pod has a container, and so an image; sizes, taints and weights are not negative.
ASSUME ImagesAssumption ==
    /\ MinThreshold \in Nat /\ MaxContainerThreshold \in Nat /\ MinThreshold < MaxContainerThreshold
    /\ \A p \in Pods :
          /\ Len(PodSpec[p].images) \in Nat \ {0} /\ DOMAIN PodSpec[p].images = 1 .. Len(PodSpec[p].images)
          /\ \A image \in Range(PodSpec[p].images) : ImageSizes[image] \in Nat
          /\ PodSpec[p].preferredNodeWeight \in Nat
    /\ \A n \in Nodes : NodeSpec[n].preferTaints \in Nat
-----------------------------------------------------------------------------
(* The NodeInfo of a dry run *)

Plus(f, g, sign) == [r \in DOMAIN f |-> f[r] + sign * g[r]]

\* updateUsedPorts: HostPortInfo is a set of (ip, port), so a port two pods use is
\* free as soon as one of them goes.
updateUsedPorts(used, p, add) == IF add THEN used \cup PodSpec[p].ports ELSE used \ PodSpec[p].ports

AddPod(info, p) ==
    [pods |-> info.pods \cup {p},
     requested |-> Plus(info.requested, PodRequest[p], 1),
     nonZero |-> Plus(info.nonZero, NonZeroRequest[p], 1),
     ports |-> updateUsedPorts(info.ports, p, TRUE)]

RemovePod(info, p) ==
    [pods |-> info.pods \ {p},
     requested |-> Plus(info.requested, PodRequest[p], -1),
     nonZero |-> Plus(info.nonZero, NonZeroRequest[p], -1),
     ports |-> updateUsedPorts(info.ports, p, FALSE)]

EmptyInfo == [pods |-> {}, requested |-> [r \in Resources |-> 0],
              nonZero |-> [r \in Resources |-> 0], ports |-> {}]

\* NewNodeInfo of the pods: what adding them one by one amounts to.
NodeInfoOf(pods) ==
    [pods |-> pods,
     requested |-> [r \in Resources |-> MapThenSumSet(LAMBDA p : PodRequest[p][r], pods)],
     nonZero |-> [r \in Resources |-> MapThenSumSet(LAMBDA p : NonZeroRequest[p][r], pods)],
     ports |-> UNION {PodSpec[p].ports : p \in pods}]
-----------------------------------------------------------------------------
(* Filters *)

\* fitsRequest: a pod that asks for nothing only needs a place; otherwise the native
\* resources are all compared, the extended ones when the pod asks for them.
fitsRequest(request, n, info) ==
    LET Enough(r) == request[r] + info.requested[r] <= Alloc[n][r]
    IN  /\ Cardinality(info.pods) + 1 <= Alloc[n]["pods"]
        /\ (\E r \in Resources : request[r] # 0) =>
                /\ \A r \in Native : Enough(r)
                /\ \A r \in Scalar : request[r] # 0 => Enough(r)

\* CheckConflict: 0.0.0.0 conflicts with every address.
CheckConflict(used, want) ==
    \E u \in used : u.port = want.port /\ (want.ip = "0.0.0.0" \/ u.ip \in {"0.0.0.0", want.ip})

fitsPorts(p, info) == \A want \in PodSpec[p].ports : ~CheckConflict(info.ports, want)

\* isVolumeConflict: the same disk, unless both read only and the kind allows it;
\* RBD images are the same when a monitor, the pool and the image are.
isVolumeConflict(v, p) ==
    \E e \in PodSpec[p].volumes :
        /\ e.kind = v.kind /\ e.id = v.id
        /\ v.kind = "rbd" => e.monitors \cap v.monitors # {}
        /\ v.kind = "aws" \/ ~(v.readOnly /\ e.readOnly)

fitsVolumes(p, info) == \A v \in PodSpec[p].volumes, q \in info.pods : ~isVolumeConflict(v, q)

\* The filters in the order of the default provider; the first that fails decides.
\* TaintToleration looks at an empty taint and passes every node.
NodeFilter(p, n, info) ==
    LET chain == <<<<~NodeSpec[n].unschedulable, "UnschedulableAndUnresolvable">>,
                   <<fitsRequest(PodRequest[p], n, info), "Unschedulable">>,
                   <<PodSpec[p].nodeName \in {None, n}, "UnschedulableAndUnresolvable">>,
                   <<fitsPorts(p, info), "Unschedulable">>,
                   <<PodMatchesNodeSelectorAndAffinityTerms(p, n), "UnschedulableAndUnresolvable">>,
                   <<fitsVolumes(p, info), "Unschedulable">>>>
        failed == SelectInSeq(chain, LAMBDA link : ~link[1])
    IN  IF failed = 0 THEN "Success" ELSE chain[failed][2]
-----------------------------------------------------------------------------
(* Scores *)

\* calculateResourceAllocatableRequest: cpu and memory with the default amounts.
Wanted(p, info, r) ==
    NonZeroRequest[p][r] + IF r \in DOMAIN DefaultRequest THEN info.nonZero[r] ELSE info.requested[r]

leastRequestedScore(requested, capacity) ==
    IF capacity = 0 \/ requested > capacity THEN 0
    ELSE ((capacity - requested) * MaxNodeScore) \div capacity

mostRequestedScore(requested, capacity) ==
    IF capacity = 0 \/ requested > capacity THEN 0
    ELSE (requested * MaxNodeScore) \div capacity

\* The mean of the scores of the resources by their weights.
WeightedMean(score) ==
    SumFunction([r \in DOMAIN Weights |-> Weights[r] * score[r]]) \div SumFunction(Weights)

leastResourceScorer(p, n, info) ==
    WeightedMean([r \in DOMAIN Weights |-> leastRequestedScore(Wanted(p, info, r), Alloc[n][r])])

mostResourceScorer(p, n, info) ==
    WeightedMean([r \in DOMAIN Weights |-> mostRequestedScore(Wanted(p, info, r), Alloc[n][r])])

\* balancedResourceScorer: 100 * (1 - |cpu fraction - memory fraction|), no volumes.
balancedResourceScorer(p, n, info) ==
    LET cpu == Wanted(p, info, "cpu")
        memory == Wanted(p, info, "memory")
        cpuCap == Alloc[n]["cpu"]
        memCap == Alloc[n]["memory"]
        diff == IF cpu * memCap > memory * cpuCap THEN cpu * memCap - memory * cpuCap
                ELSE memory * cpuCap - cpu * memCap
    IN  IF cpuCap = 0 \/ memCap = 0 \/ cpu >= cpuCap \/ memory >= memCap THEN 0
        ELSE (MaxNodeScore * (cpuCap * memCap - diff)) \div (cpuCap * memCap)

\* Go divides towards zero.
Quotient(a, b) == IF a < 0 THEN -((-a) \div b) ELSE a \div b

\* buildBrokenLinearFunction: linear between the points of the shape, flat outside.
BrokenLinear(u) ==
    LET i == SelectInSeq(Shape, LAMBDA point : u <= point.utilization)
        before == Shape[i - 1]
    IN  IF i = 0 THEN Shape[Len(Shape)].score
        ELSE IF i = 1 THEN Shape[1].score
        ELSE before.score + Quotient((Shape[i].score - before.score) * (u - before.utilization),
                                     Shape[i].utilization - before.utilization)

\* Only resources that score something weigh; the mean is rounded.
RequestedToCapacityRatio(p, n, info) ==
    LET Score(r) == LET capacity == Alloc[n][r]
                        requested == Wanted(p, info, r)
                    IN  BrokenLinear(IF capacity = 0 \/ requested > capacity THEN 100
                                     ELSE 100 - ((capacity - requested) * 100) \div capacity)
        scored == {r \in DOMAIN Weights : Score(r) > 0}
        weight == SumFunction([r \in scored |-> Weights[r]])
    IN  IF weight = 0 THEN 0
        ELSE (2 * SumFunction([r \in scored |-> Weights[r] * Score(r)]) + weight) \div (2 * weight)

\* sumImageScores and calculatePriority: the size of each image the node has, times
\* the share of nodes that have it, between the two thresholds.
ImageScore(p, n) ==
    LET Spread(i) == Cardinality({m \in Nodes : i \in NodeSpec[m].images})
        Scaled(i) == IF i \in NodeSpec[n].images THEN (ImageSizes[i] * Spread(i)) \div Cardinality(Nodes) ELSE 0
        sum == SumFunction([k \in DOMAIN PodSpec[p].images |-> Scaled(PodSpec[p].images[k])])
        top == MaxContainerThreshold * Len(PodSpec[p].images)
        cut == IF sum < MinThreshold THEN MinThreshold ELSE IF sum > top THEN top ELSE sum
    IN  Quotient(MaxNodeScore * (cut - MinThreshold), top - MinThreshold)

\* TaintToleration counts every PreferNoSchedule taint, tolerated or not.
TaintScore(n) == NodeSpec[n].preferTaints

\* NodeAffinity adds the weights of all preferred terms without matching them.
NodeAffinityScore(p) == PodSpec[p].preferredNodeWeight

\* countMatchingPods of the SelectorSpread plugin.
SelectorSpreadCount(p, at, n) ==
    IF DefaultSelector(p) = {} THEN 0
    ELSE CountPodsMatchSelector(PodsOn(at, n), DefaultSelector(p), PodSpec[p].ns)

\* NormalizeScore: the fewer, the higher.  GetZoneKey names no zone, so zones do
\* not count; a pod with spread constraints of its own is not scored.
SelectorSpreadNormalized(p, at, feasible) ==
    LET count == [n \in feasible |-> SelectorSpreadCount(p, at, n)]
        most == Max({count[n] : n \in feasible})
    IN  [n \in feasible |->
            IF PodSpec[p].constraints # <<>> THEN 0
            ELSE IF most = 0 THEN MaxNodeScore
            ELSE (MaxNodeScore * (most - count[n])) \div most]
=============================================================================
