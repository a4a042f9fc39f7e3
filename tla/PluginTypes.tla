---------------------------- MODULE PluginTypes ----------------------------
(***************************************************************************)
(* Pods and nodes as the filter and score plugins see them, and the        *)
(* matching rules the plugins share.                                       *)
(*                                                                         *)
(* A node is its labels, its allocatable resources and its image and taint *)
(* lists.  A pod is a record of the parts of its spec the plugins read; a  *)
(* set of labels stands for the label map of a pod and for a selector: the *)
(* selector matches the pods that carry all of its labels.  A topology     *)
(* pair is <<key, value>>.                                                 *)
(***************************************************************************)
EXTENDS Integers, Sequences, SequencesExt

CONSTANTS
    Nodes,              \* the nodes of the snapshot
    Pods,               \* the pods: placed ones, nominated ones, the incoming one
    None,               \* no node, or no pod
    Labels,             \* Labels[n]: a function from label keys to values
    Alloc,              \* Alloc[n]: allocatable [pods, and one amount per resource]
    NodeSpec,           \* NodeSpec[n]: [unschedulable, preferTaints, images]
    PodSpec,             \* PodSpec[p]: what the pod asks for
    Owners,             \* services and controllers: [ns, selector]
    DefaultConstraints, \* the spread plugin's default constraints, a sequence
    Hostname            \* the label key of the host name

\* No label is empty: the plugins read a label that is missing as the empty string, and
\* the spread plugin takes that for a critical path that is not set.
ASSUME LabelsAssumption ==
    /\ IsFiniteSet(Nodes)
    /\ \A n \in Nodes : DOMAIN Labels[n] # {} /\ \A key \in DOMAIN Labels[n] : Labels[n][key] # None
ASSUME PodsAssumption == IsFiniteSet(Pods)

HasKey(n, key) == key \in DOMAIN Labels[n]
PairOf(n, key) == <<key, Labels[n][key]>>
PairsOf(n) == {PairOf(n, key) : key \in DOMAIN Labels[n]}

Matches(selector, p) == selector \subseteq PodSpec[p].labels

\* The pods of the snapshot's NodeInfo n, at being the placement.
PodsOn(at, n) == {p \in Pods : at[p] = n}

\* nodeSelector pairs must all be there.  The required node affinity terms are
\* matched by nodeMatchesNodeSelectorTerms, which matches no node.
PodMatchesNodeSelectorAndAffinityTerms(p, n) ==
    /\ PodSpec[p].nodeSelector \subseteq PairsOf(n)
    /\ ~PodSpec[p].requiredNodeTerms

\* DefaultSelector: everything the services and controllers that select the pod
\* ask for, together; empty when none selects it.
DefaultSelector(p) ==
    UNION {o.selector : o \in {x \in Owners : x.ns = PodSpec[p].ns /\ Matches(x.selector, p)}}

\* countPodsMatchSelector: terminating pods and other namespaces are passed over.
CountPodsMatchSelector(pods, selector, ns) ==
    Quantify(pods, LAMBDA q : /\ ~PodSpec[q].terminating
                              /\ PodSpec[q].ns = ns
                              /\ Matches(selector, q))

MaxNodeScore == 100

\* DefaultNormalizeScore: the largest score becomes the largest priority.
DefaultNormalizeScore(scores, reverse) ==
    LET maxCount == Max({scores[n] : n \in DOMAIN scores} \cup {0})
        Part(n) == (MaxNodeScore * scores[n]) \div maxCount
    IN  [n \in DOMAIN scores |->
            IF maxCount = 0 THEN IF reverse THEN MaxNodeScore ELSE scores[n]
            ELSE IF reverse THEN MaxNodeScore - Part(n) ELSE Part(n)]
=============================================================================
