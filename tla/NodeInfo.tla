------------------------------ MODULE NodeInfo ------------------------------
(***************************************************************************)
(* NodeInfo of framework/v1alpha1/types.go: what the scheduler aggregates  *)
(* about one node.                                                         *)
(*                                                                         *)
(* A pod's requests are abstracted to the pod itself: pods[p] is how many  *)
(* times p stands in the slice Pods, which is also how many times its      *)
(* requests are summed in Requested and NonZeroRequested, because AddPod   *)
(* and RemovePod change the three together.                                *)
(***************************************************************************)
EXTENDS Integers

CONSTANTS
    Pods,           \* pod keys (UIDs)
    AffinityPods,   \* the pods that declare inter-pod (anti-)affinity
    Images,         \* names of container images a node may report
    NoNode,         \* the nil *v1.Node
    NoItem          \* no NodeInfo at all: an absent key of a map of NodeInfo

ASSUME AffinityAssumption == AffinityPods \subseteq Pods
ASSUME NoNodeAssumption == \A obj \in SUBSET Images : obj # NoNode

\* A *v1.Node is abstracted to the images its status reports.
NodeObject == SUBSET Images

NodeInfoType ==
    [node : {NoNode} \cup NodeObject, pods : [Pods -> Nat], gen : Nat]

ASSUME NoItemAssumption == NoItem \notin NodeInfoType

NewNodeInfo(gen) ==
    [node |-> NoNode, pods |-> [p \in Pods |-> 0], gen |-> gen]

\* gen is the value nextGeneration() returns.
InfoAddPod(info, p, gen) ==
    [node |-> info.node, pods |-> [info.pods EXCEPT ![p] = @ + 1], gen |-> gen]

\* RemovePod drops one entry of the pod; it fails when there is none.
InfoHasPod(info, p) == info.pods[p] > 0

\* Mutant: the generation is not taken.
InfoRemovePodSameGen(info, p, gen) == [info EXCEPT !.pods[p] = @ - 1]

InfoRemovePod(info, p, gen) ==
    [node |-> info.node, pods |-> [info.pods EXCEPT ![p] = @ - 1], gen |-> gen]

SetNode(info, obj, gen) == [info EXCEPT !.node = obj, !.gen = gen]

RemoveNodeObject(info, gen) == [info EXCEPT !.node = NoNode, !.gen = gen]

\* len(Pods) = 0
NoPods(info) == \A p \in Pods : info.pods[p] = 0

\* len(PodsWithAffinity) > 0
HasPodsWithAffinity(info) == \E p \in AffinityPods : info.pods[p] > 0
=============================================================================
