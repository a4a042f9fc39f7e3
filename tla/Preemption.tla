----------------------------- MODULE Preemption -----------------------------
(***************************************************************************)
(* One scheduling cycle of a pod through the default plugins: pre-filter,  *)
(* filter with nominated pods, scores, and, when no node fits, the default *)
(* preemption with its dry run on every node where it may help.            *)
(*                                                                         *)
(* A dry run changes copies of the NodeInfo and of the pre-filter states   *)
(* one pod at a time.  The dry runs of different nodes run in parallel on  *)
(* copies of their own, so they are taken one after the other here.        *)
(*                                                                         *)
(* GetPodPriority is a stub that answers 0 for every pod.  Its callers are *)
(* written for any priorities, and so is this module: Priority is a        *)
(* constant.  With the stub no node has potential victims, and every dry   *)
(* run ends at CheckEmptied.                                               *)
(***************************************************************************)
EXTENDS PodTopologySpread, InterPodAffinity, NodePlugins

CONSTANTS
    Priority,      \* Priority[p]: see above
    StartTime,     \* StartTime[p]: when the pod started
    Incoming,      \* the pods a cycle may be about
    Placeable,     \* Placeable[p]: the nodes where the snapshot may have the pod
    Nominable      \* the pods that may be nominated to a node

ASSUME PriorityAssumption == Priority \in [Pods -> Int] /\ StartTime \in [Pods -> Int]
ASSUME CycleAssumption == Incoming \subseteq Pods /\ None \notin Nodes

VARIABLES
    phase,       \* where the cycle is
    pod,         \* the pod being scheduled
    at,          \* the snapshot: the node of each placed pod
    nominated,   \* the node each pending pod is nominated to
    state,       \* the cycle state: [spread, affinity]
    statuses,    \* NodeToStatusMap: the code of each filtered node
    scores,      \* per plugin, the normalised score of each feasible node
    todo,        \* the nodes whose dry run is still to come
    node,        \* the node of the dry run under way
    info,        \* its copy of the NodeInfo
    copy,        \* its copy of the cycle state
    potential,   \* the pods taken off and not yet decided on
    victims,     \* those that cannot be put back
    candidates,  \* the victims of each node whose dry run succeeded
    result       \* the nominated node, or None
vars == <<phase, pod, at, nominated, state, statuses, scores, todo, node, info, copy,
          potential, victims, candidates, result>>

dryRun == <<node, info, copy, potential, victims>>

NoState == [spread |-> EmptySpread, affinity |-> [existing |-> EmptyMap, affinity |-> EmptyMap, anti |-> EmptyMap]]

\* The ways to give the pods of a set a node or none, and the others none.
Extended(ps) ==
    {[p \in Pods |-> IF p \in ps THEN f[p] ELSE None] : f \in [ps -> Nodes \cup {None}]}

Init ==
    /\ phase = "prefilter"
    /\ pod \in Incoming
    /\ at \in Extended({p \in Pods : Placeable[p] # {}})
    /\ \A p \in Pods : at[p] \in Placeable[p] \cup {None}
    /\ at[pod] = None
    /\ nominated \in Extended(Nominable)
    /\ \A p \in Pods : nominated[p] # None => at[p] = None
    /\ state = NoState /\ copy = NoState
    /\ statuses = <<>> /\ scores = <<>> /\ candidates = <<>>
    /\ todo = {} /\ node = None /\ info = EmptyInfo
    /\ potential = {} /\ victims = {} /\ result = None
-----------------------------------------------------------------------------
(* Filters *)

StateWithPod(s, q, n, delta) ==
    [spread |-> SpreadUpdateWithPod(s.spread, q, pod, n, delta),
     affinity |-> AffinityUpdateWithPod(s.affinity, q, pod, n, delta)]

\* The nominated pods that count on node n: not the pod itself, and not lower ones.
NominatedHere(n) ==
    {q \in Pods \ {pod} : nominated[q] = n /\ Priority[q] >= Priority[pod]}

FirstFailed(code, next) == IF code = "Success" THEN next ELSE code

\* RunFilterPlugins: the first filter that fails decides.
RunFilters(n, i, s) ==
    FirstFailed(NodeFilter(pod, n, i),
                FirstFailed(SpreadFilter(s.spread, pod, n), AffinityFilter(s.affinity, pod, n)))

\* addNominatedPods: the states of the two plugins do not depend on each other.
WithNominated(n, s) ==
    [spread |-> FoldSet(LAMBDA q, t : SpreadUpdateWithPod(t, q, pod, n, 1), s.spread, NominatedHere(n)),
     affinity |-> FoldSet(LAMBDA q, t : AffinityUpdateWithPod(t, q, pod, n, 1), s.affinity, NominatedHere(n))]
InfoWithNominated(n, i) == FoldSet(LAMBDA q, j : AddPod(j, q), i, NominatedHere(n))

\* PodPassesFiltersOnNode: with the nominated pods first, then without them.
Verdict(n, i, s) ==
    FirstFailed(RunFilters(n, InfoWithNominated(n, i), WithNominated(n, s)), RunFilters(n, i, s))

AddingPanics(n, s) == \E q \in NominatedHere(n) : SpreadPanics(s.spread, q, pod, n)

PreFilter ==
    /\ phase = "prefilter"
    /\ \E spread \in calPreFilterState(pod, at) :
            state' = [spread |-> spread, affinity |-> AffinityPreFilter(pod, at)]
    /\ phase' = "filter"
    /\ UNCHANGED <<pod, at, nominated, statuses, scores, todo, dryRun, candidates, result>>

Filter ==
    /\ phase = "filter"
    /\ \A n \in Nodes : ~AddingPanics(n, state)
    /\ statuses' = [n \in Nodes |-> Verdict(n, NodeInfoOf(PodsOn(at, n)), state)]
    /\ phase' = IF \E n \in Nodes : statuses'[n] = "Success" THEN "score" ELSE "postfilter"
    /\ UNCHANGED <<pod, at, nominated, state, scores, todo, dryRun, candidates, result>>

\* The nil dereference in updateWithPod ends the process.
FilterPanics ==
    /\ phase = "filter"
    /\ \E n \in Nodes : AddingPanics(n, state)
    /\ phase' = "panicked"
    /\ UNCHANGED <<pod, at, nominated, state, statuses, scores, todo, dryRun, candidates, result>>
-----------------------------------------------------------------------------
(* Scores: prioritizeNodes runs every score plugin on the feasible nodes *)

PluginScores(feasible) ==
    LET Of(n) == NodeInfoOf(PodsOn(at, n))
    IN  [balanced |-> [n \in feasible |-> balancedResourceScorer(pod, n, Of(n))],
         least |-> [n \in feasible |-> leastResourceScorer(pod, n, Of(n))],
         most |-> [n \in feasible |-> mostResourceScorer(pod, n, Of(n))],
         ratio |-> [n \in feasible |-> RequestedToCapacityRatio(pod, n, Of(n))],
         image |-> [n \in feasible |-> ImageScore(pod, n)],
         nodeAffinity |-> DefaultNormalizeScore([n \in feasible |-> NodeAffinityScore(pod)], FALSE),
         taint |-> DefaultNormalizeScore([n \in feasible |-> TaintScore(n)], TRUE),
         affinity |-> AffinityNormalized(pod, at, feasible),
         spread |-> SpreadNormalized(pod, at, feasible),
         selector |-> SelectorSpreadNormalized(pod, at, feasible)]

Score ==
    /\ phase = "score"
    /\ scores' = PluginScores({n \in Nodes : statuses[n] = "Success"})
    /\ phase' = "done"
    /\ UNCHANGED <<pod, at, nominated, state, statuses, todo, dryRun, candidates, result>>
-----------------------------------------------------------------------------
(* Default preemption *)

\* PodEligibleToPreemptOthers: not while lower pods are terminating on the node the
\* pod is nominated to, unless that node is out of the question by now.
PodEligibleToPreemptOthers ==
    LET n == nominated[pod]
    IN  /\ PodSpec[pod].preempts
        /\ n # None /\ statuses[n] # "UnschedulableAndUnresolvable" =>
                ~\E q \in PodsOn(at, n) : PodSpec[q].terminating /\ Priority[q] < Priority[pod]

nodesWherePreemptionMightHelp == {n \in Nodes : statuses[n] # "UnschedulableAndUnresolvable"}

\* The pod is read again first; when that fails, or the pod is not eligible, the
\* cycle ends without a nomination.
NotEligible ==
    /\ phase = "postfilter"
    /\ phase' = "done"
    /\ UNCHANGED <<pod, at, nominated, state, statuses, scores, todo, dryRun, candidates, result>>

\* Where no node may help, the pod's nomination is cleared (or the patch fails).
NoPotentialNodes ==
    /\ phase = "postfilter" /\ PodEligibleToPreemptOthers
    /\ nodesWherePreemptionMightHelp = {}
    /\ nominated' \in {nominated, [nominated EXCEPT ![pod] = None]}
    /\ phase' = "done"
    /\ UNCHANGED <<pod, at, state, statuses, scores, todo, dryRun, candidates, result>>

FindCandidates ==
    /\ phase = "postfilter" /\ PodEligibleToPreemptOthers
    /\ nodesWherePreemptionMightHelp # {}
    /\ todo' = nodesWherePreemptionMightHelp
    /\ phase' = "nodes"
    /\ UNCHANGED <<pod, at, nominated, state, statuses, scores, dryRun, candidates, result>>

\* dryRunPreemption clones the NodeInfo and the cycle state.
StartNode(n) ==
    /\ phase = "nodes" /\ n \in todo
    /\ todo' = todo \ {n}
    /\ node' = n
    /\ info' = NodeInfoOf(PodsOn(at, n))
    /\ copy' = state
    /\ potential' = {} /\ victims' = {}
    /\ phase' = "takeoff"
    /\ UNCHANGED <<pod, at, nominated, state, statuses, scores, candidates, result>>

LowerPods == {q \in info.pods : Priority[q] < Priority[pod]}

\* removePod changes the NodeInfo and the pre-filter states.
TakeOff(q) ==
    /\ phase = "takeoff" /\ q \in LowerPods
    /\ ~SpreadPanics(copy.spread, q, pod, node)
    /\ info' = RemovePod(info, q)
    /\ copy' = StateWithPod(copy, q, node, -1)
    /\ potential' = potential \cup {q}
    /\ UNCHANGED <<phase, pod, at, nominated, state, statuses, scores, todo, node, victims, candidates, result>>

TakeOffPanics(q) ==
    /\ phase = "takeoff" /\ q \in LowerPods
    /\ SpreadPanics(copy.spread, q, pod, node)
    /\ phase' = "panicked"
    /\ UNCHANGED <<pod, at, nominated, state, statuses, scores, todo, dryRun, candidates, result>>

Fits(i, s) == Verdict(node, i, s) = "Success"

\* Nothing to take off, or the pod does not fit even so: the node is no candidate.
CheckEmptied ==
    /\ phase = "takeoff" /\ LowerPods = {}
    /\ phase' = IF potential # {} /\ Fits(info, copy) THEN "reprieve" ELSE "nodes"
    /\ UNCHANGED <<pod, at, nominated, state, statuses, scores, todo, dryRun, candidates, result>>

\* Mutant: ties are broken the other way, and so are priorities.
LessImportantPod(q, r) ==
    Priority[q] < Priority[r] \/ (Priority[q] = Priority[r] /\ StartTime[q] > StartTime[r])

MoreImportantPod(q, r) ==
    Priority[q] > Priority[r] \/ (Priority[q] = Priority[r] /\ StartTime[q] < StartTime[r])

\* Mutant: a pod that cannot stay is not taken off again.
ReprieveStays(q) ==
    /\ phase = "reprieve"
    /\ q \in potential /\ \A r \in potential : ~MoreImportantPod(r, q)
    /\ potential' = potential \ {q}
    /\ info' = AddPod(info, q)
    /\ copy' = StateWithPod(copy, q, node, 1)
    /\ victims' = IF Fits(info', copy') THEN victims ELSE victims \cup {q}
    /\ UNCHANGED <<phase, pod, at, nominated, state, statuses, scores, todo, node, candidates, result>>

\* reprievePod, the most important pod first (no disruption budgets are listed).  A
\* pod without which the incoming pod fits and with which it does not is a victim.
Reprieve(q) ==
    /\ phase = "reprieve"
    /\ q \in potential /\ \A r \in potential : ~MoreImportantPod(r, q)
    /\ potential' = potential \ {q}
    /\ IF Fits(AddPod(info, q), StateWithPod(copy, q, node, 1))
       THEN /\ info' = AddPod(info, q)
            /\ copy' = StateWithPod(copy, q, node, 1)
            /\ UNCHANGED victims
       ELSE /\ victims' = victims \cup {q}
            /\ info' = RemovePod(AddPod(info, q), q)
            /\ copy' = StateWithPod(StateWithPod(copy, q, node, 1), q, node, -1)
    /\ UNCHANGED <<phase, pod, at, nominated, state, statuses, scores, todo, node, candidates, result>>

EndNode ==
    /\ phase = "reprieve" /\ potential = {}
    /\ candidates' = [n \in DOMAIN candidates \cup {node} |->
                        IF n = node THEN victims ELSE candidates[n]]
    /\ phase' = "nodes"
    /\ UNCHANGED <<pod, at, nominated, state, statuses, scores, todo, dryRun, result>>

Least(nodes, Cost(_)) == {n \in nodes : \A m \in nodes : Cost(n) <= Cost(m)}

\* Priorities are shifted before they are added up, so that none is negative: by
\* MaxInt32 + 1 in the code, where a priority is an int32.
PriorityOffset == 10

ASSUME OffsetAssumption == \A p \in Pods : Priority[p] + PriorityOffset >= 0

\* Mutant: priorities are added up as they are.
PlainPriorities(vs) == MapThenSumSet(LAMBDA q : Priority[q], vs)

SumPriorities(vs) == MapThenSumSet(LAMBDA q : Priority[q] + PriorityOffset, vs)

HighestPriority(vs) == Max({Priority[q] : q \in vs})

GetEarliestPodStartTime(vs) == Min({StartTime[q] : q \in {r \in vs : Priority[r] = HighestPriority(vs)}})

\* The nodes left after each criterion; the last ones tie.
pickOneNodeForPreemption ==
    LET byHighest == Least(DOMAIN candidates, LAMBDA n : HighestPriority(candidates[n]))
        bySum == Least(byHighest, LAMBDA n : SumPriorities(candidates[n]))
        byCount == Least(bySum, LAMBDA n : Cardinality(candidates[n]))
    IN  Least(byCount, LAMBDA n : -GetEarliestPodStartTime(candidates[n]))

NoCandidate ==
    /\ phase = "nodes" /\ todo = {} /\ candidates = <<>>
    /\ phase' = "done"
    /\ UNCHANGED <<pod, at, nominated, state, statuses, scores, todo, dryRun, candidates, result>>

SelectCandidate ==
    /\ phase = "nodes" /\ todo = {} /\ candidates # <<>>
    /\ \E n \in IF Cardinality(DOMAIN candidates) = 1 THEN DOMAIN candidates ELSE pickOneNodeForPreemption :
            /\ node' = n
            /\ victims' = candidates[n]
    /\ phase' = "prepare"
    /\ UNCHANGED <<pod, at, nominated, state, statuses, scores, todo, info, copy, potential, candidates, result>>

\* PrepareCandidate deletes the victims one by one; at stays the snapshot.
DeleteVictim(q) ==
    /\ phase = "prepare" /\ q \in victims
    /\ victims' = victims \ {q}
    /\ UNCHANGED <<phase, pod, at, nominated, state, statuses, scores, todo, node, info, copy,
                   potential, candidates, result>>

\* A delete that fails ends the preemption without a nomination.
DeleteFails ==
    /\ phase = "prepare" /\ victims # {}
    /\ phase' = "done"
    /\ UNCHANGED <<pod, at, nominated, state, statuses, scores, todo, dryRun, candidates, result>>

\* The nominations of lower pods to the node are cleared, where the patch succeeds.
Nominate ==
    /\ phase = "prepare" /\ victims = {}
    /\ \E cleared \in SUBSET {q \in Pods : nominated[q] = node /\ Priority[q] < Priority[pod]} :
            nominated' = [q \in Pods |-> IF q \in cleared THEN None ELSE nominated[q]]
    /\ result' = node
    /\ phase' = "done"
    /\ UNCHANGED <<pod, at, state, statuses, scores, todo, dryRun, candidates>>

Next ==
    \/ PreFilter \/ Filter \/ FilterPanics \/ Score
    \/ NotEligible \/ NoPotentialNodes \/ FindCandidates
    \/ \E n \in Nodes : StartNode(n)
    \/ \E q \in Pods : TakeOff(q) \/ TakeOffPanics(q)
    \/ CheckEmptied
    \/ \E q \in Pods : Reprieve(q)
    \/ EndNode \/ NoCandidate \/ SelectCandidate
    \/ \E q \in Pods : DeleteVictim(q)
    \/ DeleteFails \/ Nominate

Spec == Init /\ [][Next]_vars
-----------------------------------------------------------------------------
(* Properties *)

\* The placement in which node n has exactly the given pods.
Placing(n, pods) == [q \in Pods |-> IF q \in pods THEN n ELSE IF at[q] = n THEN None ELSE at[q]]

\* What a dry run holds, for the node it is about: the one under way, and the ones
\* of the filter step with their nominated pods.
DryRuns ==
    IF phase \in {"takeoff", "reprieve"} THEN {[node |-> node, pods |-> info.pods, state |-> copy]}
    ELSE IF phase = "filter"
    THEN {[node |-> n, pods |-> PodsOn(at, n) \cup NominatedHere(n), state |-> WithNominated(n, state)] :
            n \in {m \in Nodes : ~AddingPanics(m, state)}}
    ELSE {}

\* Terminating pods are left out of the counts but not of the updates.
Changed(d) == (PodsOn(at, d.node) \ d.pods) \cup (d.pods \ PodsOn(at, d.node))

\* Spreading after the changes of a dry run: updateWithPod keeps two critical paths
\* and not the whole list of minima, yet Filter accepts the node exactly when it would
\* with the pods counted again, unless a terminating pod was added or taken off.  (A
\* node without one of the keys is refused either way, but for another reason: it is
\* in the counts and updateWithPod passes over it.)
SpreadDryRunExact ==
    \A d \in DryRuns :
        (\A q \in Changed(d) : ~PodSpec[q].terminating) =>
            \A fresh \in calPreFilterState(pod, Placing(d.node, d.pods)) :
                SpreadFilter(d.state.spread, pod, d.node) = "Success"
                    <=> SpreadFilter(fresh, pod, d.node) = "Success"

\* The three affinity maps after the changes of a dry run are the maps computed
\* afresh, down to the absence of zero entries that the first-pod rule relies on.
AffinityDryRunExact ==
    \A d \in DryRuns : d.state.affinity = AffinityPreFilter(pod, Placing(d.node, d.pods))

\* AddPod and RemovePod of the PreFilter extensions keep both plugins' states what
\* PreFilter would compute for the pods that are left.
DryRunExact == SpreadDryRunExact /\ AffinityDryRunExact

\* The pod passes the filters on node n when it has the given pods: counted afresh.
FitsAfresh(n, pods) ==
    \E spread \in calPreFilterState(pod, Placing(n, pods)) :
        Verdict(n, NodeInfoOf(pods),
                [spread |-> spread, affinity |-> AffinityPreFilter(pod, Placing(n, pods))]) = "Success"

\* Two pods of the node use the same port: see updateUsedPorts.
SharesPort(n) ==
    \E p, q \in PodsOn(at, n) : p # q /\ PodSpec[p].ports \cap PodSpec[q].ports # {}

\* selectVictimsOnNode: once the victims are gone the pod fits, none of them could
\* stay, and none has as high a priority as the pod.
VictimsJustified ==
    \A n \in DOMAIN candidates :
        LET kept == PodsOn(at, n) \ candidates[n]
        IN  (~SharesPort(n) /\ \A q \in PodsOn(at, n) : ~PodSpec[q].terminating) =>
                /\ FitsAfresh(n, kept)
                /\ \A q \in candidates[n] : /\ ~FitsAfresh(n, kept \cup {q})
                                             /\ Priority[q] < Priority[pod]

\* "A higher-priority pod is never preempted when a lower-priority pod could be":
\* no victim could have stayed at the price of lower pods alone.
MoreImportantSpared ==
    \A n \in DOMAIN candidates :
        (~SharesPort(n) /\ \A q \in PodsOn(at, n) : ~PodSpec[q].terminating) =>
            \A q \in candidates[n] :
                ~FitsAfresh(n, {q} \cup {r \in PodsOn(at, n) \ candidates[n] : Priority[r] >= Priority[q]})

\* The pods of a set with a given priority, and that one set asks for part of
\* another's priorities only.
CountOf(vs, k) == Cardinality({q \in vs : Priority[q] = k})
Levels == {Priority[q] : q \in Pods}
Fewer(vs, ws) ==
    /\ \A k \in Levels : CountOf(vs, k) <= CountOf(ws, k)
    /\ \E k \in Levels : CountOf(vs, k) < CountOf(ws, k)

\* pickOneNodeForPreemption: the node that is nominated has no higher victim than
\* another candidate, and no other candidate asks for part of its victims'
\* priorities only.
BestCandidate ==
    result # None =>
        \A n \in DOMAIN candidates \ {result} :
            /\ HighestPriority(candidates[result]) <= HighestPriority(candidates[n])
            /\ ~Fewer(candidates[n], candidates[result])

\* RunScorePlugins refuses a score outside 0..100 and fails the cycle: no plugin
\* gives one, and spreading prefers the node with fewer matching pods.
ScoresInRange ==
    \A plugin \in DOMAIN scores : \A n \in DOMAIN scores[plugin] :
        /\ scores[plugin][n] \in 0 .. MaxNodeScore
        /\ plugin = "spread" => \A m \in DOMAIN scores[plugin] :
               LET feasible == DOMAIN scores[plugin]
                   scored == feasible \ IgnoredNodes(pod, feasible)
               IN  {m, n} \subseteq scored
                   /\ SpreadScore(pod, at, feasible, n) < SpreadScore(pod, at, feasible, m)
                   => scores[plugin][n] >= scores[plugin][m]
=============================================================================
