-------------------------- MODULE GenericScheduler --------------------------
(***************************************************************************)
(* The scheduling algorithm of scheduler/core/generic_scheduler.go and the *)
(* plugins that run around it in scheduleOne of scheduler/scheduler.go.    *)
(*                                                                         *)
(* Schedule runs in one goroutine.  Its filters run on the nodes of the    *)
(* snapshot in parallel: workers share a counter of feasible nodes, an     *)
(* array with a slot for each of the nodes wanted, a map of statuses, an   *)
(* error channel for one error and a context that stops the search.        *)
(* Binding cycles of earlier pods run meanwhile in goroutines of their     *)
(* own.                                                                    *)
(*                                                                         *)
(* A node is its place in the snapshot's list.  What plugins and extenders *)
(* answer is chosen freely.  The module Scheduler has the queue, the cache *)
(* and the API server around this algorithm; here their part is a pod that *)
(* may be scheduled again after it failed.                                 *)
(***************************************************************************)
EXTENDS Framework, Integers

CONSTANTS
    Pods,
    Requests,       \* Requests[p]: the extended resources the pod asks for
    SchedulerName,  \* SchedulerName[p]: the profile the pod asks for
    Extenders,      \* the configured extenders, a sequence
    ConfigSets,     \* bound: the lists of profiles the scheduler is started with
    NodeCounts,     \* bound: the lengths of the snapshot's list
    Workers,        \* the goroutines of parallelize.Until
    MinFeasibleNodesToFind,
    MinFeasibleNodesPercentageToFind,
    PercentageOfNodesToScore,
    RunAllFilters,  \* the option runAllFilters
    Claims,         \* bound: the volumes of a pod that use a claim
    FilterCodes,    \* bound: the codes filter plugins answer
    Scores,         \* bound: normalised scores of score plugins
    ExtenderScores, \* bound: scores extenders give
    None

ASSUME NumbersAssumption ==
    /\ {MinFeasibleNodesToFind, MinFeasibleNodesPercentageToFind} \subseteq Nat \ {0}
    /\ MinFeasibleNodesPercentageToFind <= 100
    /\ IsFiniteSet(Workers) /\ Workers # {}
    /\ NodeCounts \subseteq Nat /\ PercentageOfNodesToScore \in Int
    /\ RunAllFilters \in BOOLEAN

ASSUME NoneAssumption == None \notin Nat

\* A config.Plugins has a list of plugins for every extension point.
ASSUME ConfigAssumption ==
    \A cfgs \in ConfigSets : \A i \in DOMAIN cfgs :
        /\ DOMAIN cfgs[i].enabled = Range(ExtensionPoints)
        /\ \A e \in Range(ExtensionPoints) : cfgs[i].enabled[e] \in Seq(STRING)

\* Weights and scores are int64.
ASSUME ExtenderAssumption ==
    /\ DOMAIN Extenders = 1 .. Len(Extenders) /\ Len(Extenders) \in Nat
    /\ \A i \in DOMAIN Extenders : Extenders[i].weight \in Int
    /\ ExtenderScores \subseteq Int /\ Scores \subseteq Int

Parallelism == Cardinality(Workers)

VARIABLES
    profiles,   \* the profiles by scheduler name, set when the scheduler starts
    nextStartNodeIndex,
    step,       \* where Schedule and scheduleOne are
    cycle,      \* the pod of the cycle, its profile, the nodes, the nodes wanted
    search,     \* what the workers share
    worker,     \* the workers of parallelize.Until
    feasible,   \* the feasible nodes
    host,       \* the suggested host
    binding,    \* binding[p]: where the pod is in its life
    reserved    \* reserved[p]: the Reserve plugins called and not yet undone

\* What the properties are about: the nodes examined that fit with and without
\* the pods nominated to them, those whose filters returned an error,
\* what the extenders refused, and the scores.
VARIABLES fitting, erring, refused, total

searchVars == <<search, worker, fitting, erring>>
vars == <<profiles, nextStartNodeIndex, step, cycle, feasible, host, binding,
          reserved, refused, total, searchVars>>

Profile == profiles[cycle.prof]

-----------------------------------------------------------------------------
(* Pure parts of the algorithm.                                            *)

\* A volume that uses a claim: the claim must exist, stay, and be the pod's
\* own when the volume is ephemeral.
podPassesBasicChecks(claims) ==
    \A v \in claims : v.found /\ ~ v.deleted /\ (v.ephemeral => v.controlled)

numFeasibleNodesToFind(numAllNodes) ==
    LET adaptive == 50 - numAllNodes \div 125
        percentage == IF PercentageOfNodesToScore > 0
                      THEN PercentageOfNodesToScore
                      ELSE Max({adaptive, MinFeasibleNodesPercentageToFind})
    IN  IF numAllNodes < MinFeasibleNodesToFind \/ PercentageOfNodesToScore >= 100
        THEN numAllNodes
        ELSE Max({(numAllNodes * percentage) \div 100, MinFeasibleNodesToFind})

\* parallelize.chunkSizeFor: the root of n, at most n / parallelism + 1.
chunkSizeFor(n) ==
    Max({1} \cup {s \in 1 .. n : s * s <= n /\ s <= n \div Parallelism + 1})

\* A node's verdict v: whether pods are nominated to it (addNominatedPods finds
\* one to add), what AddPod of the PreFilter extensions answers for them, and
\* what the filters answer with and without them.
PodPassesFiltersOnNode(v) ==
    LET first == Merge(RunFilterPlugins(v.with, RunAllFilters))
        second == Merge(RunFilterPlugins(v.without, RunAllFilters))
    IN  CASE ~ v.nominated -> second
          [] v.nominated /\ RunPlugins(v.addPod) # "Success" -> "Error"
          [] v.nominated /\ RunPlugins(v.addPod) = "Success" /\ first # "Success" -> first
          [] OTHER -> second

Verdicts(c) ==
    [nominated : BOOLEAN, addPod : [1 .. 1 -> {"Success", "Error"}],
     with : Answers(c, "filter", FilterCodes), without : Answers(c, "filter", FilterCodes)]

\* What may happen on a node: the code returned, and whether the node really
\* suits the pod in both cases.
Outcomes(c) ==
    {[code |-> PodPassesFiltersOnNode(v),
      fits |-> /\ Range(v.without) \subseteq {"Success"}
               /\ v.nominated => Range(v.with) \subseteq {"Success"}] : v \in Verdicts(c)}

\* selectHost: reservoir sampling over the nodes of the highest score.
selectHost(scores) == {n \in DOMAIN scores : \A m \in DOMAIN scores : scores[m] <= scores[n]}

\* The score of a node without plugins and extenders is one; otherwise the
\* plugins' scores and, scaled, what the interested extenders add.
NodeScore(c, requests, scores, answers, n) ==
    IF Extenders = <<>> /\ ~ HasPlugins(c, "score")
    THEN 1
    ELSE RunScorePlugins(c, scores, n)
         + (MaxNodeScore \div MaxExtenderPriority)
           * SumOf([i \in {j \in DOMAIN Extenders : IsInterested(Extenders[j], requests)} |->
                       ExtenderPrioritize(Extenders[i], answers[i], n)])

-----------------------------------------------------------------------------
(* The start of a cycle.                                                   *)

NoCycle == [pod |-> None, prof |-> None, n |-> 0, wanted |-> 0, extender |-> 0]
NoSearch == [next |-> 0, len |-> 0, slots |-> <<>>, stop |-> FALSE, err |-> FALSE,
             statuses |-> {}]
Idle == [at |-> "done", piece |-> 0, end |-> 0, length |-> 0]

Init ==
    /\ \E cfgs \in ConfigSets :
           /\ NewMap(cfgs)
           /\ profiles = [name \in {cfgs[i].name : i \in DOMAIN cfgs} |->
                             CHOOSE c \in Range(cfgs) : c.name = name]
    /\ nextStartNodeIndex = 0
    /\ step = "idle" /\ cycle = NoCycle
    /\ search = NoSearch /\ worker = [w \in Workers |-> Idle]
    /\ feasible = {} /\ host = None
    /\ binding = [p \in Pods |-> [at |-> "pending", prof |-> None]]
    /\ reserved = [p \in Pods |-> {}]
    /\ fitting = {} /\ erring = {} /\ refused = {} /\ total = <<>>

\* Schedule returns: its locals are gone.
ForgetSearch ==
    /\ search' = NoSearch /\ worker' = [w \in Workers |-> Idle] /\ feasible' = {}
    /\ fitting' = {} /\ erring' = {} /\ refused' = {} /\ total' = <<>>

\* The end of a cycle without a host: the pod will be tried again.
EndCycle == step' = "idle" /\ cycle' = NoCycle /\ host' = None /\ ForgetSearch

\* Schedule up to the PreFilter plugins.  numNodesToFind is computed from the
\* snapshot's list.
StartCycle(p) ==
    /\ step = "idle" /\ binding[p].at = "pending" /\ SchedulerName[p] \in DOMAIN profiles
    /\ \E claims \in SUBSET Claims, n \in NodeCounts :
           /\ podPassesBasicChecks(claims) /\ n > 0
           /\ cycle' = [pod |-> p, prof |-> SchedulerName[p], n |-> n,
                        wanted |-> numFeasibleNodesToFind(n), extender |-> 1]
           /\ step' = "preFilter"
    /\ UNCHANGED <<profiles, nextStartNodeIndex, feasible, host, binding, reserved,
                   refused, total, searchVars>>

\* A claim is missing, the snapshot fails, or there is no node.
NoCycleStarts(p) ==
    /\ step = "idle" /\ binding[p].at = "pending" /\ SchedulerName[p] \in DOMAIN profiles
    /\ \E claims \in SUBSET Claims, n \in NodeCounts, updated \in BOOLEAN :
           ~ podPassesBasicChecks(claims) \/ ~ updated \/ n = 0
    /\ UNCHANGED vars

\* Without filter plugins the next nodes of the list are taken as they are.
TakeWithoutFilters ==
    /\ search' = [search EXCEPT
           !.slots = [i \in 1 .. cycle.wanted |-> (nextStartNodeIndex + i - 1) % cycle.n],
           !.len = cycle.wanted]
    /\ nextStartNodeIndex' = (nextStartNodeIndex + cycle.wanted) % cycle.n
    /\ feasible' = Range(search'.slots)
    /\ fitting' = 0 .. cycle.n - 1
    /\ step' = "extend"
    /\ UNCHANGED <<worker, erring>>

StartFilters ==
    /\ search' = [search EXCEPT !.slots = [i \in 1 .. cycle.wanted |-> None]]
    /\ worker' = [w \in Workers |-> [Idle EXCEPT !.at = "ready"]]
    /\ step' = "filter"
    /\ UNCHANGED <<nextStartNodeIndex, feasible, fitting, erring>>

PreFilter ==
    /\ step = "preFilter"
    /\ \E results \in Answers(Profile, "preFilter", FilterCodes) :
           RunPreFilterPlugins(results) = "Success"
    /\ IF HasPlugins(Profile, "filter") THEN StartFilters ELSE TakeWithoutFilters
    /\ UNCHANGED <<profiles, cycle, host, binding, reserved, refused, total>>

\* Every node gets the status of the PreFilter plugins.
PreFilterUnschedulable ==
    /\ step = "preFilter"
    /\ \E results \in Answers(Profile, "preFilter", FilterCodes) :
           IsUnschedulable(RunPreFilterPlugins(results))
    /\ search' = [search EXCEPT !.statuses = 0 .. cycle.n - 1]
    /\ step' = "fitError"
    /\ UNCHANGED <<profiles, nextStartNodeIndex, cycle, feasible, host, binding, reserved,
                   refused, total, worker, fitting, erring>>

PreFilterError ==
    /\ step = "preFilter"
    /\ \E results \in Answers(Profile, "preFilter", FilterCodes) :
           RunPreFilterPlugins(results) = "Error"
    /\ EndCycle
    /\ UNCHANGED <<profiles, nextStartNodeIndex, binding, reserved>>

-----------------------------------------------------------------------------
(* The parallel filters: parallelize.Until and checkNode.                  *)

OutsideSearch == <<profiles, nextStartNodeIndex, step, cycle, feasible, host, binding,
                   reserved, refused, total>>

\* ParallelizeUntil: a worker takes the next chunk of nodes, or ends.
TakeChunk(w) ==
    /\ step = "filter" /\ worker[w].at = "ready"
    /\ LET end == Min({search.next + chunkSizeFor(cycle.n), cycle.n})
       IN  IF search.next < cycle.n
           THEN /\ worker' = [worker EXCEPT ![w] =
                       [Idle EXCEPT !.at = "piece", !.piece = search.next, !.end = end]]
                /\ search' = [search EXCEPT !.next = end]
           ELSE worker' = [worker EXCEPT ![w] = Idle] /\ UNCHANGED search
    /\ UNCHANGED <<OutsideSearch, fitting, erring>>

\* Before each node it looks whether the search has been stopped.
CheckStop(w) ==
    /\ step = "filter" /\ worker[w].at = "piece"
    /\ worker' = [worker EXCEPT ![w] =
           IF search.stop THEN Idle ELSE [@ EXCEPT !.at = "checkNode"]]
    /\ UNCHANGED <<OutsideSearch, search, fitting, erring>>

\* The worker goes on to the next node of its chunk.
NextPiece(w) ==
    IF worker[w].piece + 1 < worker[w].end
    THEN [worker EXCEPT ![w].at = "piece", ![w].piece = @ + 1]
    ELSE [worker EXCEPT ![w] = [Idle EXCEPT !.at = "ready"]]

NodeOf(w) == (nextStartNodeIndex + worker[w].piece) % cycle.n

\* What checkNode does with the filters' answer: a feasible node is counted, a
\* status is stored under the lock, an error is sent (the channel keeps one)
\* and stops the search.
CheckNodeResult(w, outcome) ==
    CASE outcome.code = "Success" ->
             /\ search' = [search EXCEPT !.len = @ + 1]
             /\ worker' = [worker EXCEPT ![w].at = "found", ![w].length = search.len + 1]
      [] IsUnschedulable(outcome.code) ->
             /\ search' = [search EXCEPT !.statuses = @ \cup {NodeOf(w)}]
             /\ worker' = NextPiece(w)
      [] OTHER ->
             /\ search' = [search EXCEPT !.err = TRUE, !.stop = TRUE]
             /\ worker' = NextPiece(w)

CheckNode(w) ==
    /\ step = "filter" /\ worker[w].at = "checkNode"
    /\ \E outcome \in Outcomes(Profile) :
           /\ CheckNodeResult(w, outcome)
           /\ fitting' = IF outcome.fits /\ outcome.code # "Error" THEN fitting \cup {NodeOf(w)} ELSE fitting
           /\ erring' = IF outcome.code = "Error" THEN erring \cup {NodeOf(w)} ELSE erring
    /\ UNCHANGED OutsideSearch

\* Mutant: the slot is the value the counter has now.
PlacedAtCounter(w) ==
    IF worker[w].length > cycle.wanted
    THEN [search EXCEPT !.stop = TRUE, !.len = @ - 1]
    ELSE [search EXCEPT !.slots[search.len] = NodeOf(w)]

\* The node's slot is the value the counter had when it was counted; a node
\* over the limit stops the search and is uncounted.
Placed(w) ==
    IF worker[w].length > cycle.wanted
    THEN [search EXCEPT !.stop = TRUE, !.len = @ - 1]
    ELSE [search EXCEPT !.slots[worker[w].length] = NodeOf(w)]

PlaceNode(w) ==
    /\ step = "filter" /\ worker[w].at = "found"
    /\ search' = Placed(w) /\ worker' = NextPiece(w)
    /\ UNCHANGED <<OutsideSearch, fitting, erring>>

\* Mutant: the error counts only when no node was found.
SearchFailedEmpty == search.err /\ search.len = 0

\* The error channel holds an error (errCh.ReceiveError).
SearchFailed == search.err

\* parallelize.Until has returned.
SearchEnds ==
    /\ step = "filter" /\ \A w \in Workers : worker[w].at = "done"
    /\ nextStartNodeIndex' =
           (nextStartNodeIndex + search.len + Cardinality(search.statuses)) % cycle.n
    /\ IF SearchFailed
       THEN EndCycle
       ELSE /\ feasible' = {search.slots[i] : i \in 1 .. search.len}
            /\ step' = "extend"
            /\ UNCHANGED <<cycle, host, refused, total, searchVars>>
    /\ UNCHANGED <<profiles, binding, reserved>>

-----------------------------------------------------------------------------
(* findNodesThatPassExtenders, one extender after the other.               *)

AfterSearch == <<profiles, nextStartNodeIndex, binding, reserved, worker, fitting,
                 erring>>

Extending == step = "extend" /\ cycle.extender <= Len(Extenders) /\ feasible # {}

TheExtender == Extenders[cycle.extender]

PassExtender == cycle' = [cycle EXCEPT !.extender = @ + 1]

SkipExtender ==
    /\ Extending /\ ~ IsInterested(TheExtender, Requests[cycle.pod])
    /\ PassExtender
    /\ UNCHANGED <<AfterSearch, step, search, feasible, host, refused, total>>

\* Mutant: an extender that cannot be reached lets nothing through.
FilterByReachable(answer) == [ExtenderFilter(TheExtender, feasible, answer) EXCEPT !.err = FALSE]

\* What the extender at hand makes of its answer.
FilterByExtender(answer) == ExtenderFilter(TheExtender, feasible, answer)

RunExtender(answer) ==
    /\ ~ FilterByExtender(answer).err
    /\ feasible' = FilterByExtender(answer).nodes
    /\ refused' = IF answer.kind = "unreachable" THEN refused
                  ELSE refused \cup (feasible \ feasible')
    /\ search' = [search EXCEPT !.statuses = @ \cup (answer.failed \ feasible')]
    /\ PassExtender
    /\ UNCHANGED <<AfterSearch, step, host, total>>

\* An error of an ignorable extender is ignored, any other ends the cycle.
ExtenderFails(answer) ==
    /\ FilterByExtender(answer).err
    /\ IF TheExtender.ignorable
       THEN /\ PassExtender
            /\ UNCHANGED <<AfterSearch, step, search, feasible, host, refused, total>>
       ELSE EndCycle /\ UNCHANGED <<profiles, nextStartNodeIndex, binding, reserved>>

ExtenderAnswers ==
    /\ Extending /\ IsInterested(TheExtender, Requests[cycle.pod])
    /\ \E answer \in FilterAnswers(feasible) : RunExtender(answer) \/ ExtenderFails(answer)

\* Back in Schedule: no node, one node, or scores to compare.
ExtendersPassed ==
    /\ step = "extend" /\ (cycle.extender > Len(Extenders) \/ feasible = {})
    /\ step' = CASE feasible = {} -> "fitError"
                 [] Cardinality(feasible) = 1 -> "reserve"
                 [] OTHER -> "score"
    /\ host' = IF Cardinality(feasible) = 1 THEN CHOOSE n \in feasible : TRUE ELSE host
    /\ UNCHANGED <<AfterSearch, cycle, search, feasible, refused, total>>

\* The PostFilter plugins of scheduleOne.  The node they may nominate the pod
\* to goes to the queue (module Scheduler).
PostFilter ==
    /\ step = "fitError"
    /\ HasPlugins(Profile, "postFilter") =>
           \E results \in Answers(Profile, "postFilter", FilterCodes) :
               RunPostFilterPlugins(results) \in Codes
    /\ EndCycle
    /\ UNCHANGED <<profiles, nextStartNodeIndex, binding, reserved>>

-----------------------------------------------------------------------------
(* prioritizeNodes.  The workers of RunScorePlugins write a slot each and  *)
(* the extenders' goroutines add under a lock, and both are waited for:    *)
(* their order makes no difference.                                        *)

PluginScores == [1 .. Len(Profile.enabled["score"]) -> [feasible -> Scores]]

PriorityAnswers ==
    [DOMAIN Extenders -> [kind : {"unreachable"}, score : {<<>>}]
                         \cup [kind : {"scores"}, score : [feasible -> ExtenderScores]]]

\* For the properties: a node's scores by the weights of the configuration.
ConfiguredScore(scores, answers, n) ==
    LET c == Profile
        plugins == SumOf([i \in DOMAIN scores |->
                             scores[i][n] * Max({1, c.weight[c.enabled["score"][i]]})])
        asked == {i \in DOMAIN Extenders :
                     /\ IsInterested(Extenders[i], Requests[cycle.pod])
                     /\ Extenders[i].prioritizeVerb /\ answers[i].kind = "scores"}
        extenders == SumOf([i \in asked |-> Extenders[i].weight * answers[i].score[n]])
    IN  [plugins |-> plugins,
         all |-> plugins + (MaxNodeScore \div MaxExtenderPriority) * extenders]

\* Mutant: the extenders' part is left out.
HostByPlugins(scores, answers) ==
    selectHost([n \in feasible |-> RunScorePlugins(Profile, scores, n)])

\* The nodes selectHost may choose.
HostsFor(scores, answers) ==
    selectHost([n \in feasible |->
                   NodeScore(Profile, Requests[cycle.pod], scores, answers, n)])

PrioritizeNodes ==
    /\ step = "score"
    /\ \E results \in Answers(Profile, "preScore", FilterCodes) : RunPlugins(results) = "Success"
    /\ \E scores \in PluginScores, answers \in PriorityAnswers :
           /\ ~ ScoresInvalid(scores)
           /\ host' \in HostsFor(scores, answers)
           /\ total' = [n \in feasible |-> ConfiguredScore(scores, answers, n)]
    /\ step' = "reserve"
    /\ UNCHANGED <<AfterSearch, cycle, search, feasible, refused>>

\* A PreScore plugin fails, a score plugin fails or is out of range.
PrioritizeFails ==
    /\ step = "score" /\ (HasPlugins(Profile, "preScore") \/ HasPlugins(Profile, "score"))
    /\ \/ \E results \in Answers(Profile, "preScore", FilterCodes) : RunPlugins(results) = "Error"
       \/ \E scores \in PluginScores : ScoresInvalid(scores)
    /\ EndCycle
    /\ UNCHANGED <<profiles, nextStartNodeIndex, binding, reserved>>

-----------------------------------------------------------------------------
(* The rest of scheduleOne: Reserve and Permit plugins in the loop, the    *)
(* binding cycle in a goroutine.                                           *)

HandOver(p, at) == binding' = [binding EXCEPT ![p] = [at |-> at, prof |-> cycle.prof]]

Reserve ==
    /\ step = "reserve"
    /\ \E results \in Answers(Profile, "reserve", {"Success", "Error"}) :
           /\ reserved' = [reserved EXCEPT ![cycle.pod] = Reserved(results)]
           /\ step' = IF RunPlugins(results) = "Success" THEN "permit" ELSE "unreserve"
    /\ ForgetSearch
    /\ UNCHANGED <<profiles, nextStartNodeIndex, cycle, host, binding>>

Permit ==
    /\ step = "permit"
    /\ \E results \in Answers(Profile, "permit", {"Success", "Wait", "Unschedulable", "Error"}) :
           IF RunPermitPlugins(results) \in {"Success", "Wait"}
           THEN EndCycle /\ HandOver(cycle.pod, "waitOnPermit")
           ELSE /\ step' = "unreserve"
                /\ UNCHANGED <<cycle, feasible, host, refused, total, searchVars, binding>>
    /\ UNCHANGED <<profiles, nextStartNodeIndex, reserved>>

\* RunReservePluginsUnreserve: all of them, the last one first.
Unreserve(p) == reserved' = [reserved EXCEPT ![p] = {}]

UnreserveInCycle ==
    /\ step = "unreserve"
    /\ Unreserve(cycle.pod) /\ EndCycle
    /\ UNCHANGED <<profiles, nextStartNodeIndex, binding>>

OutsideBinding == <<profiles, nextStartNodeIndex, step, cycle, feasible, host, refused,
                    total, searchVars>>

BindingAt(p, at) == binding' = [binding EXCEPT ![p].at = at]

WaitOnPermit(p) ==
    /\ binding[p].at = "waitOnPermit"
    /\ \E allowed \in BOOLEAN : BindingAt(p, IF allowed THEN "preBind" ELSE "unreserve")
    /\ UNCHANGED <<OutsideBinding, reserved>>

PreBind(p) ==
    /\ binding[p].at = "preBind"
    /\ \E results \in Answers(profiles[binding[p].prof], "preBind", {"Success", "Error"}) :
           BindingAt(p, IF RunPlugins(results) = "Success" THEN "bind" ELSE "unreserve")
    /\ UNCHANGED <<OutsideBinding, reserved>>

\* extendersBinding: the first interested extender that binds, if there is one.
Binders(p) ==
    {i \in DOMAIN Extenders : IsBinder(Extenders[i]) /\ IsInterested(Extenders[i], Requests[p])}

\* bind: the extender's answer, or the bind plugins' one.
BindResults(p) ==
    IF Binders(p) # {}
    THEN {"Success", "Error"}
    ELSE {RunBindPlugins(results) :
              results \in Answers(profiles[binding[p].prof], "bind", {"Success", "Error", "Skip"})}

Bind(p) ==
    /\ binding[p].at = "bind"
    /\ \E code \in BindResults(p) :
           BindingAt(p, IF code = "Success" THEN "bound" ELSE "unreserve")
    /\ UNCHANGED <<OutsideBinding, reserved>>

\* Mutant: the reservation is kept.
KeepReservation(p) ==
    binding[p].at = "unreserve" /\ BindingAt(p, "pending") /\ UNCHANGED <<OutsideBinding, reserved>>

UnreserveInBinding(p) ==
    /\ binding[p].at = "unreserve"
    /\ Unreserve(p) /\ BindingAt(p, "pending")
    /\ UNCHANGED OutsideBinding

Search(w) == TakeChunk(w) \/ CheckStop(w) \/ CheckNode(w) \/ PlaceNode(w)

ScheduleOne ==
    \/ \E p \in Pods : StartCycle(p) \/ NoCycleStarts(p)
    \/ PreFilter \/ PreFilterUnschedulable \/ PreFilterError
    \/ SearchEnds
    \/ SkipExtender \/ ExtenderAnswers \/ ExtendersPassed
    \/ PostFilter
    \/ PrioritizeNodes \/ PrioritizeFails
    \/ Reserve \/ Permit \/ UnreserveInCycle

BindingCycle(p) == WaitOnPermit(p) \/ PreBind(p) \/ Bind(p) \/ UnreserveInBinding(p)

Next ==
    \/ ScheduleOne
    \/ \E w \in Workers : Search(w)
    \/ \E p \in Pods : BindingCycle(p)

Spec == Init /\ [][Next]_vars

-----------------------------------------------------------------------------
(* Properties.                                                             *)

Nodes == 0 .. cycle.n - 1

\* The search is exact (findNodesThatPassFilters): every slot below the final
\* count holds a node of its own, which fits with and without the pods
\* nominated to it, no more nodes are found than wanted, and when fewer are
\* found every node of the snapshot has been examined.
SearchExact ==
    step = "extend" /\ cycle.extender = 1 =>
        /\ search.len <= cycle.wanted
        /\ {search.slots[i] : i \in 1 .. search.len} \subseteq fitting
        /\ Cardinality(feasible) = search.len
        /\ search.len < cycle.wanted => search.statuses = Nodes \ fitting

\* An error of a node's filters, of any worker, ends the cycle: whatever else
\* is found, the pod is neither scheduled nor reported unschedulable.
NoErrorLost == step \notin {"idle", "filter"} => erring = {}

\* A pod is reported unschedulable (FitError) only when the PreFilter plugins
\* refuse it, or each node was refused by its filters or an extender, or the
\* extenders refused all the nodes the search was limited to.
NoFalseUnschedulable ==
    step = "fitError" =>
        /\ feasible = {}
        /\ fitting \cap {search.slots[i] : i \in 1 .. search.len} \subseteq refused
        /\ search.len < cycle.wanted => fitting \subseteq refused
        /\ refused # {} \/ search.len = 0

\* The suggested host suits the pod with and without the nominated pods, and no
\* interested extender refused it.
HostFits == step = "reserve" => host \in fitting \ refused

\* No other candidate has a higher score by the configured weights, which stays
\* within the bound NewFramework checks for the plugins.
HostBest ==
    step = "reserve" => \A n \in DOMAIN total :
        total[n].all <= total[host].all /\ total[n].plugins <= MaxTotalScore

\* The host that selectHost suggests is one that fits and has the best score.
HostJustified == HostFits /\ HostBest

\* The Reserve plugins' state follows the pod: whatever stage of the cycle
\* fails, a pod that is back in the queue has no reservation, and a pod that is
\* being bound or is bound has all of its profile's.
ReservationsMatch ==
    \A p \in Pods :
        /\ binding[p].at = "pending" /\ cycle.pod # p => reserved[p] = {}
        /\ binding[p].at \in {"waitOnPermit", "preBind", "bind", "bound"} =>
               reserved[p] = DOMAIN profiles[binding[p].prof].enabled["reserve"]
=============================================================================
