----------------------------- MODULE Framework -----------------------------
(***************************************************************************)
(* The plugin runners of scheduler/framework/runtime/framework.go and the  *)
(* HTTP extenders of scheduler/core/extender.go, as operators.             *)
(*                                                                         *)
(* What a plugin answers is outside this code: a runner takes a sequence   *)
(* with the status code each configured plugin would return, in the order  *)
(* of the configuration, and decides which of them run and what comes of   *)
(* it.  Messages and metrics are left out.                                 *)
(***************************************************************************)
EXTENDS Naturals, SequencesExt

CONSTANTS
    Registry,       \* Registry[name]: the extension points the plugin implements
    MaxNodeScore,   \* framework.MaxNodeScore
    MaxTotalScore,  \* framework.MaxTotalScore, MaxInt64 in the code
    MaxExtenderPriority

ASSUME ScoreAssumption ==
    {MaxNodeScore, MaxTotalScore, MaxExtenderPriority} \subseteq Nat \ {0}

\* The sum of a function's values.
SumOf(f) == FoldFunction(+, 0, f)

-----------------------------------------------------------------------------
(* Statuses.                                                               *)

Codes == {"Success", "Error", "Unschedulable", "UnschedulableAndUnresolvable",
          "Wait", "Skip"}

IsUnschedulable(code) == code \in {"Unschedulable", "UnschedulableAndUnresolvable"}

\* PluginToStatus.Merge: Error, UnschedulableAndUnresolvable, Unschedulable.
Merge(codes) ==
    CASE codes = {} -> "Success"
      [] "Error" \in codes -> "Error"
      [] "UnschedulableAndUnresolvable" \in codes -> "UnschedulableAndUnresolvable"
      [] "Unschedulable" \in codes -> "Unschedulable"
      [] OTHER -> CHOOSE code \in codes : TRUE

-----------------------------------------------------------------------------
(* The configuration of a profile: its name, for each extension point the  *)
(* plugins enabled there, and the weights given where "score" enables them.*)

\* The order of getExtensionPoints.
ExtensionPoints == <<"preFilter", "filter", "postFilter", "reserve", "preScore",
                     "score", "preBind", "bind", "postBind", "permit", "queueSort">>

\* pluginsNeeded: a name enabled twice keeps the entry of the last extension
\* point, and only the entry of "score" has a weight.
pluginsNeeded(c) ==
    LET points(name) == {i \in DOMAIN ExtensionPoints :
                             name \in Range(c.enabled[ExtensionPoints[i]])}
    IN  [name \in UNION {Range(c.enabled[e]) : e \in DOMAIN c.enabled} |->
             IF ExtensionPoints[Max(points(name))] = "score" THEN c.weight[name] ELSE 0]

\* pluginNameToWeightMap: a plugin without a weight has weight 1.
PluginWeight(c, name) ==
    IF pluginsNeeded(c)[name] = 0 THEN 1 ELSE pluginsNeeded(c)[name]

\* Whether NewFramework accepts the configuration.
NewFramework(c) ==
    /\ \A e \in DOMAIN c.enabled :
           /\ \A name \in Range(c.enabled[e]) :
                  name \in DOMAIN Registry /\ e \in Registry[name]
           /\ IsInjective(c.enabled[e])
    /\ SumOf([name \in DOMAIN pluginsNeeded(c) |-> PluginWeight(c, name) * MaxNodeScore])
           <= MaxTotalScore
    /\ Len(c.enabled["queueSort"]) = 1
    /\ Len(c.enabled["bind"]) >= 1

\* NewMap: whether a list of profiles makes a scheduler.
NewMap(cfgs) ==
    /\ \A i \in DOMAIN cfgs : cfgs[i].enabled["queueSort"] = cfgs[1].enabled["queueSort"]
    /\ \A i, j \in DOMAIN cfgs : cfgs[i].name = cfgs[j].name => i = j
    /\ \A i \in DOMAIN cfgs : NewFramework(cfgs[i])

HasPlugins(c, point) == c.enabled[point] # <<>>

\* The answers plugins of an extension point may give.
Answers(c, point, codes) == [1 .. Len(c.enabled[point]) -> codes]

-----------------------------------------------------------------------------
(* The runners.                                                            *)

\* The first plugin that does not succeed, 0 when all do.
FirstFailure(results) == SelectInSeq(results, LAMBDA code : code # "Success")

\* RunPreScorePlugins, RunPreBindPlugins, RunReservePluginsReserve and the
\* PreFilter extensions: whatever else a plugin returns becomes an error.
RunPlugins(results) == IF FirstFailure(results) = 0 THEN "Success" ELSE "Error"

RunPreFilterPlugins(results) ==
    LET failure == FirstFailure(results)
    IN  CASE failure = 0 -> "Success"
          [] failure > 0 /\ IsUnschedulable(results[failure]) -> results[failure]
          [] OTHER -> "Error"

\* The statuses of the plugins that fail, or of the first one only.
RunFilterPlugins(results, runAllFilters) ==
    LET failure == FirstFailure(results)
        failed == Range(results) \ {"Success"}
    IN  CASE failure = 0 -> {}
          [] failure > 0 /\ runAllFilters ->
                 IF \A code \in failed : IsUnschedulable(code) THEN failed ELSE {"Error"}
          [] OTHER ->
                 IF IsUnschedulable(results[failure]) THEN {results[failure]} ELSE {"Error"}

\* Until the first success or error.
RunPostFilterPlugins(results) ==
    LET last == SelectInSeq(results, LAMBDA code : ~ IsUnschedulable(code))
    IN  CASE last = 0 -> Merge(Range(results))
          [] last > 0 /\ results[last] = "Success" -> "Success"
          [] OTHER -> "Error"

\* RunReservePluginsReserve: the plugins that have been called, the one that
\* failed included.
Reserved(results) ==
    IF FirstFailure(results) = 0 THEN DOMAIN results ELSE 1 .. FirstFailure(results)

\* Until the first plugin that does not skip.
RunBindPlugins(results) ==
    LET last == SelectInSeq(results, LAMBDA code : code # "Skip")
    IN  CASE last = 0 -> "Skip"
          [] last > 0 /\ results[last] = "Success" -> "Success"
          [] OTHER -> "Error"

\* RunPermitPlugins: "Wait" when one asks to wait and none refuses.
RunPermitPlugins(results) ==
    LET last == SelectInSeq(results, LAMBDA code : code \notin {"Success", "Wait"})
    IN  CASE last > 0 /\ IsUnschedulable(results[last]) -> results[last]
          [] last > 0 /\ ~ IsUnschedulable(results[last]) -> "Error"
          [] OTHER -> IF "Wait" \in Range(results) THEN "Wait" ELSE "Success"

\* RunScorePlugins with the normalised scores, scores[i][n] of plugin i: a
\* score out of range fails the cycle, the others are weighted.  The sum over
\* the plugins is prioritizeNodes'.
ScoresInvalid(scores) ==
    \E i \in DOMAIN scores : \E n \in DOMAIN scores[i] : scores[i][n] \notin 0 .. MaxNodeScore

RunScorePlugins(c, scores, n) ==
    SumOf([i \in DOMAIN scores |-> scores[i][n] * PluginWeight(c, c.enabled["score"][i])])

-----------------------------------------------------------------------------
(* HTTPExtender.  An extender is a record of its configuration; its answer *)
(* to a call is "unreachable" (send fails, or the answer names an error),  *)
(* or a set of nodes, by name or as whole objects, or nothing.             *)

IsInterested(e, requests) == e.managed = {} \/ e.managed \cap requests # {}

\* The refused nodes are in the map of failed nodes, or are just left out; a
\* list of names may hold one the extender was not asked about.
FilterAnswers(nodes) ==
    [kind : {"unreachable", "nothing"}, nodes : {{}}, failed : {{}}]
        \cup [kind : {"names", "objects"}, nodes : SUBSET nodes, failed : {{}, nodes}]
        \cup [kind : {"names"}, nodes : {nodes \cup {Max(nodes) + 1}}, failed : {{}}]

\* Filter(pod, nodes): "err", or the nodes kept.
ExtenderFilter(e, nodes, answer) ==
    CASE ~ e.filterVerb -> [err |-> FALSE, nodes |-> nodes]
      [] e.filterVerb /\ answer.kind = "unreachable" -> [err |-> TRUE, nodes |-> {}]
      [] e.filterVerb /\ answer.kind = "names" /\ e.nodeCacheCapable ->
             IF answer.nodes \subseteq nodes
             THEN [err |-> FALSE, nodes |-> answer.nodes]
             ELSE [err |-> TRUE, nodes |-> {}]
      [] e.filterVerb /\ answer.kind = "objects" -> [err |-> FALSE, nodes |-> answer.nodes]
      [] OTHER -> [err |-> FALSE, nodes |-> {}]

\* Prioritize: what the extender adds to the score of a node, before scaling.
\* An error adds nothing.
ExtenderPrioritize(e, answer, n) ==
    IF e.prioritizeVerb /\ answer.kind # "unreachable" THEN answer.score[n] * e.weight ELSE 0

IsBinder(e) == e.bindVerb
=============================================================================
