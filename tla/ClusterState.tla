---------------------------- MODULE ClusterState ----------------------------
(***************************************************************************)
(* The recommender's model of the cluster: ClusterState of                 *)
(* recommender/model/cluster.go with the PodStates, ContainerStates, Vpas  *)
(* and AggregateContainerStates it links.                                  *)
(*                                                                         *)
(* An aggregation collects the samples of all containers with one name in  *)
(* pods with one label set, its key.  It is reached by reference from the  *)
(* map of aggregations, from every VPA whose selector matches its key, and *)
(* from a container: a new container has a proxy, which looks its key up   *)
(* in the map and makes a missing aggregation; after a change of its pod's *)
(* labels it has the aggregation itself.                                   *)
(*                                                                         *)
(* All pods and VPAs are of one namespace.  Of the samples there remains   *)
(* whether an aggregation has CPU samples, how old the last one is, and    *)
(* the memory peaks that a container's current window has put into it.     *)
(***************************************************************************)
EXTENDS Integers, FiniteSets

CONSTANTS
    Pods,           \* pod IDs
    Containers,     \* container names
    LabelSets,      \* label sets of pods
    Vpas,           \* VPA IDs
    Selectors,      \* pod selectors of VPAs
    Matches,        \* the pairs of a selector and a label set it matches
    Aggs,           \* bound: references of aggregations in use at once
    Metered,        \* bound: the pods with memory samples
    MaxUsage,       \* bound: memory usage
    None,           \* nil
    Proxy           \* a ContainerStateAggregatorProxy

VARIABLES
    pods,           \* pods[p]: label set and whether the phase is not final
    containers,     \* containers[x]: the container's aggregator and memory window
    store,          \* the aggregations and the links to them
    selector,       \* selector[v]: the VPA's PodSelector, None if there is no VPA
    podCount,       \* podCount[v]: the VPA's PodCount
    moved           \* history: containers whose current window began on another
                    \*   aggregation than the one they now write to

vars == <<pods, containers, store, selector, podCount, moved>>

ASSUME NoneAssumption == None \notin LabelSets \cup Selectors \cup Aggs
ASSUME ProxyAssumption == Proxy \notin Aggs \cup {None}
ASSUME MatchesAssumption == Matches \subseteq Selectors \X LabelSets
ASSUME PodsAssumption == IsFiniteSet(Pods)
ASSUME MeteredAssumption == Metered \subseteq Pods
ASSUME MaxUsageAssumption == MaxUsage \in Nat

-----------------------------------------------------------------------------

ContainerIDs == Pods \X Containers

\* MakeAggregateStateKey.
Keys == Containers \X LabelSets

Usages == 0 .. MaxUsage

PodState == [labels : LabelSets \cup {None}, running : BOOLEAN]

\* opened: WindowEnd is set; peak: GetMaxMemoryPeak.
ContainerState == [aggregator : Aggs \cup {Proxy, None}, opened : BOOLEAN,
                   peak : Usages]

\* age: without CPU samples (isEmpty), with a recent one, or isExpired; peaks[x][u]:
\* how often the peak u of x's current window was added, less how often it was
\* subtracted.
AggregateContainerState ==
    [age : {"empty", "recent", "expired"}, isUnderVPA : BOOLEAN,
     peaks : [ContainerIDs -> [Usages -> Int]]]

\* map: aggregateStateMap; uses[v]: the VPA's aggregateContainerStates.
Store == [map : [Keys -> Aggs \cup {None}],
          uses : [Vpas -> [Keys -> Aggs \cup {None}]],
          aggs : [Aggs -> AggregateContainerState]]

TypeOK ==
    /\ pods \in [Pods -> PodState]
    /\ containers \in [ContainerIDs -> ContainerState]
    /\ store \in Store
    /\ selector \in [Vpas -> Selectors \cup {None}]
    /\ podCount \in [Vpas -> Int]
    /\ moved \subseteq ContainerIDs

NewAggregateContainerState ==
    [age |-> "empty", isUnderVPA |-> FALSE,
     peaks |-> [x \in ContainerIDs |-> [u \in Usages |-> 0]]]

NoPod == [labels |-> None, running |-> FALSE]

NoContainer == [aggregator |-> None, opened |-> FALSE, peak |-> 0]

Init ==
    /\ pods = [p \in Pods |-> NoPod]
    /\ containers = [x \in ContainerIDs |-> NoContainer]
    /\ store = [map |-> [k \in Keys |-> None],
                uses |-> [v \in Vpas |-> [k \in Keys |-> None]],
                aggs |-> [a \in Aggs |-> NewAggregateContainerState]]
    /\ selector = [v \in Vpas |-> None]
    /\ podCount = [v \in Vpas |-> 0]
    /\ moved = {}

-----------------------------------------------------------------------------

PodExists(p) == pods[p].labels # None

Exists(x) == containers[x].aggregator # None

\* matchesAggregation and PodLabelsMatchVPA, for a VPA with selector s.
Selects(s, l) == <<s, l>> \in Matches

Key(x) == <<x[2], pods[x[1]].labels>>

Referenced(st, cs) ==
    {st.map[k] : k \in Keys} \cup {cs[x].aggregator : x \in ContainerIDs}
        \cup UNION {{st.uses[v][k] : k \in Keys} : v \in Vpas}

\* An aggregation that nothing refers to is gone and its reference free.
Reclaimed(st, cs) ==
    [st EXCEPT !.aggs = [a \in Aggs |->
        IF a \in Referenced(st, cs) THEN st.aggs[a] ELSE NewAggregateContainerState]]

\* The ways to make the missing aggregations of the keys K.
Allocations(K) ==
    {f \in [{k \in K : store.map[k] = None} -> Aggs \ Referenced(store, containers)] :
        \A j, k \in DOMAIN f : f[j] = f[k] => j = k}

\* findOrCreateAggregateContainerState of the keys whose aggregations f makes.
Created(f) ==
    [map  |-> [k \in Keys |-> IF k \in DOMAIN f THEN f[k] ELSE store.map[k]],
     uses |-> [v \in Vpas |-> [k \in Keys |->
                  IF /\ k \in DOMAIN f
                     /\ store.uses[v][k] = None
                     /\ Selects(selector[v], k[2])
                  THEN f[k] ELSE store.uses[v][k]]],
     aggs |-> [a \in Aggs |->
                  IF \E k \in DOMAIN f : f[k] = a
                  THEN [NewAggregateContainerState EXCEPT !.isUnderVPA =
                           \E k \in DOMAIN f, v \in Vpas :
                               /\ f[k] = a
                               /\ store.uses[v][k] = None
                               /\ Selects(selector[v], k[2])]
                  ELSE store.aggs[a]]]

\* Mutant: the aggregation stays autoscaled.
StillAutoscaled(st, A) == st

\* MarkNotAutoscaled of the aggregations A.
NotAutoscaled(st, A) ==
    [st EXCEPT !.aggs = [a \in Aggs |->
        IF a \in A THEN [st.aggs[a] EXCEPT !.isUnderVPA = FALSE] ELSE st.aggs[a]]]

\* Nothing of x's window is in an aggregation any more: the window is over, or x is
\* gone, and its peak is history.
Forgotten(st, X) ==
    [st EXCEPT !.aggs = [a \in Aggs |->
        [st.aggs[a] EXCEPT !.peaks = [x \in ContainerIDs |->
            IF x \in X THEN [u \in Usages |-> 0] ELSE st.aggs[a].peaks[x]]]]]

-----------------------------------------------------------------------------
(* Pods and containers.                                                    *)

\* removePodFromItsVpa with the labels l, addPodToItsVpa with the labels m.
Recounted(l, m) ==
    [v \in Vpas |-> podCount[v] - (IF Selects(selector[v], l) THEN 1 ELSE 0)
                                + (IF Selects(selector[v], m) THEN 1 ELSE 0)]

\* Mutant: the links are set before the labels.
OldKey(x, l) == Key(x)

\* The key of x once its pod has the labels l.
NewKey(x, l) == <<x[2], l>>

AddOrUpdatePod(p, l, running) ==
    LET X == {x \in {p} \X Containers : Exists(x)}
    IN  /\ pods[p] # [labels |-> l, running |-> running]
        /\ pods' = [pods EXCEPT ![p] = [labels |-> l, running |-> running]]
        /\ IF pods[p].labels = l
           THEN UNCHANGED <<containers, store, podCount, moved>>
           ELSE /\ podCount' = Recounted(pods[p].labels, l)
                /\ \E f \in Allocations({NewKey(x, l) : x \in X}) :
                      /\ containers' = [x \in ContainerIDs |->
                            IF x \in X
                            THEN [containers[x] EXCEPT !.aggregator =
                                     Created(f).map[NewKey(x, l)]]
                            ELSE containers[x]]
                      /\ store' = Reclaimed(Created(f), containers')
                /\ moved' = moved \cup {x \in X : containers[x].opened}
        /\ UNCHANGED selector

DeletePod(p) ==
    LET X == {p} \X Containers
    IN  /\ PodExists(p)
        /\ pods' = [pods EXCEPT ![p] = NoPod]
        /\ containers' = [x \in ContainerIDs |->
              IF x \in X THEN NoContainer ELSE containers[x]]
        /\ store' = Reclaimed(Forgotten(store, X), containers')
        /\ podCount' = Recounted(pods[p].labels, None)
        /\ moved' = moved \ X
        /\ UNCHANGED selector

AddOrUpdateContainer(x) ==
    /\ PodExists(x[1])
    /\ ~ Exists(x)
    /\ \E f \in Allocations({Key(x)}) : store' = Created(f)
    /\ containers' = [containers EXCEPT ![x].aggregator = Proxy]
    /\ UNCHANGED <<pods, selector, podCount, moved>>

-----------------------------------------------------------------------------
(* Samples.                                                                *)

\* The aggregation that x's aggregator stands for, made by f if it is missing.
Aggregator(x, f) ==
    IF containers[x].aggregator = Proxy
    THEN Created(f).map[Key(x)]
    ELSE containers[x].aggregator

AggregatorAllocations(x) ==
    Allocations(IF containers[x].aggregator = Proxy THEN {Key(x)} ELSE {})

AddCPUSample(x) ==
    /\ Exists(x)
    /\ \E f \in AggregatorAllocations(x) :
          store' = [Created(f) EXCEPT !.aggs[Aggregator(x, f)].age = "recent"]
    /\ UNCHANGED <<pods, containers, selector, podCount, moved>>

\* Mutant: the old peak stays.
PeakAdded(st, a, x, old, new) == [st EXCEPT !.aggs[a].peaks[x][new] = @ + 1]

\* SubtractSample of the old peak, AddSample of the new one.
PeakReplaced(st, a, x, old, new) ==
    LET peaks == st.aggs[a].peaks[x]
    IN  [st EXCEPT !.aggs[a].peaks[x] = [peaks EXCEPT ![old] = @ - 1, ![new] = @ + 1]]

\* addMemorySample of a sample in the current window, from the metrics or from
\* RecordOOM.  The quality metrics ask the aggregator also if the peak stays.
AddMemorySample(x, usage) ==
    LET peak == containers[x].peak
    IN  /\ Exists(x)
        /\ containers[x].opened
        /\ \E f \in AggregatorAllocations(x) :
              store' = IF peak # 0 /\ usage > peak
                       THEN PeakReplaced(Created(f), Aggregator(x, f), x, peak, usage)
                       ELSE Created(f)
        /\ containers' = [containers EXCEPT ![x].peak =
              IF @ # 0 /\ usage > @ THEN usage ELSE @]
        /\ UNCHANGED <<pods, selector, podCount, moved>>

\* addMemorySample of the first sample, or of one past WindowEnd.
AddMemorySampleInNewWindow(x, usage) ==
    /\ Exists(x)
    /\ \E f \in AggregatorAllocations(x) :
          store' = [Forgotten(Created(f), {x}) EXCEPT
                       !.aggs[Aggregator(x, f)].peaks[x][usage] = @ + 1]
    /\ containers' = [containers EXCEPT ![x].opened = TRUE, ![x].peak = usage]
    /\ moved' = moved \ {x}
    /\ UNCHANGED <<pods, selector, podCount>>

-----------------------------------------------------------------------------
(* VPAs.                                                                   *)

Used(v) == {store.uses[v][k] : k \in Keys} \ {None}

\* The store without the VPA v.
Unlinked(v) ==
    [NotAutoscaled(store, Used(v)) EXCEPT !.uses[v] = [k \in Keys |-> None]]

\* NewVpa, and UseAggregationIfMatching of every aggregation.
Linked(st, v, s) ==
    LET K == {k \in Keys : st.map[k] # None /\ Selects(s, k[2])}
    IN  [map  |-> st.map,
         uses |-> [st.uses EXCEPT ![v] =
                      [k \in Keys |-> IF k \in K THEN st.map[k] ELSE None]],
         aggs |-> [a \in Aggs |->
                      IF \E k \in K : st.map[k] = a
                      THEN [st.aggs[a] EXCEPT !.isUnderVPA = TRUE]
                      ELSE st.aggs[a]]]

\* A VPA that exists with another selector is deleted and made anew.
AddOrUpdateVpa(v, s) ==
    /\ selector[v] # s
    /\ selector' = [selector EXCEPT ![v] = s]
    /\ store' = Linked(IF selector[v] = None THEN store ELSE Unlinked(v), v, s)
    /\ podCount' = [podCount EXCEPT ![v] =
          Cardinality({p \in Pods : Selects(s, pods[p].labels)})]
    /\ UNCHANGED <<pods, containers, moved>>

DeleteVpa(v) ==
    /\ selector[v] # None
    /\ selector' = [selector EXCEPT ![v] = None]
    /\ store' = Unlinked(v)
    /\ podCount' = [podCount EXCEPT ![v] = 0]
    /\ UNCHANGED <<pods, containers, moved>>

-----------------------------------------------------------------------------
(* Garbage collection.                                                     *)

getActiveAggregateStateKeys ==
    {Key(x) : x \in {y \in ContainerIDs : Exists(y) /\ pods[y[1]].running}}

Obsolete(k) ==
    LET a == store.map[k]
    IN  /\ a # None
        /\ \/ k \notin getActiveAggregateStateKeys /\ store.aggs[a].age = "empty"
           \/ store.aggs[a].age = "expired"

GarbageCollectAggregateCollectionStates ==
    LET K == {k \in Keys : Obsolete(k)}
        A == UNION {{store.uses[v][k] : k \in K} : v \in Vpas}
        st == [map  |-> [k \in Keys |-> IF k \in K THEN None ELSE store.map[k]],
               uses |-> [v \in Vpas |-> [k \in Keys |->
                            IF k \in K THEN None ELSE store.uses[v][k]]],
               aggs |-> NotAutoscaled(store, A).aggs]
    IN  /\ K # {}
        /\ store' = Reclaimed(st, containers)
        /\ moved' = moved \cup
              {x \in ContainerIDs : /\ containers[x].aggregator = Proxy
                                    /\ containers[x].opened
                                    /\ Key(x) \in K}
        /\ UNCHANGED <<pods, containers, selector, podCount>>

\* The last sample, or the creation if there is none, has become too old.
Expire(k) ==
    /\ store.map[k] # None
    /\ store.aggs[store.map[k]].age # "expired"
    /\ store' = [store EXCEPT !.aggs[store.map[k]].age = "expired"]
    /\ UNCHANGED <<pods, containers, selector, podCount, moved>>

-----------------------------------------------------------------------------

Next ==
    \/ \E p \in Pods, l \in LabelSets, running \in BOOLEAN : AddOrUpdatePod(p, l, running)
    \/ \E p \in Pods : DeletePod(p)
    \/ \E x \in ContainerIDs : AddOrUpdateContainer(x) \/ AddCPUSample(x)
    \/ \E x \in Metered \X Containers, usage \in Usages :
          AddMemorySample(x, usage) \/ AddMemorySampleInNewWindow(x, usage)
    \/ \E v \in Vpas, s \in Selectors : AddOrUpdateVpa(v, s)
    \/ \E v \in Vpas : DeleteVpa(v)
    \/ GarbageCollectAggregateCollectionStates
    \/ \E k \in Keys : Expire(k)

Spec == Init /\ [][Next]_vars

-----------------------------------------------------------------------------
(* Properties.                                                             *)

\* PodCount, kept by increments over label changes, deletions and selector
\* changes, is the number of matching pods: UpdateVPAs logs it as an error if they
\* "disagree".
PodCountExact ==
    \A v \in Vpas :
        selector[v] # None =>
            podCount[v] = Cardinality({p \in Pods : Selects(selector[v], pods[p].labels)})

\* A VPA reads, of all aggregations in the map, the ones its selector matches:
\* whichever came first, and whatever was collected and made again meanwhile.
VpaReadsMap ==
    \A v \in Vpas, k \in Keys :
        store.uses[v][k] = IF Selects(selector[v], k[2]) THEN store.map[k] ELSE None

\* An aggregation that counts as autoscaled is read by a VPA, also one that is no
\* longer in the map.
AutoscaledIsRead ==
    \A a \in Aggs : store.aggs[a].isUnderVPA => \E v \in Vpas : a \in Used(v)

\* What a VPA knows of the cluster is what there is: its pods, its aggregations, and
\* of the aggregations, whether a VPA reads them.
VpaBooksExact == PodCountExact /\ VpaReadsMap /\ AutoscaledIsRead

\* A container that holds an aggregation itself writes into the one its VPAs read
\* or into one that nobody reads, never into that of other labels or containers.
NoStrayWrite ==
    \A x \in ContainerIDs, k \in Keys :
        Exists(x) /\ store.map[k] # None /\ containers[x].aggregator = store.map[k]
            => k = Key(x)

\* What a container writes to has its current window's peak, once, and no other
\* aggregation has any, unless the container was moved within the window.
OnePeakPerWindow ==
    \A x \in ContainerIDs, a \in Aggs :
        containers[x].opened /\ x \notin moved =>
            store.aggs[a].peaks[x] = [u \in Usages |->
                IF /\ u = containers[x].peak
                   /\ \/ containers[x].aggregator = a
                      \/ containers[x].aggregator = Proxy /\ store.map[Key(x)] = a
                THEN 1 ELSE 0]

=============================================================================
