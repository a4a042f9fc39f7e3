------------------------- MODULE PodTopologySpread -------------------------
(***************************************************************************)
(* The PodTopologySpread plugin: hard constraints filter, soft ones score. *)
(*                                                                         *)
(* The pre-filter state holds the number of matching pods per topology     *)
(* pair and, per key, two critical paths: the pairs with the smallest      *)
(* numbers.  The dry runs of preemption and of nominated pods change the   *)
(* state one pod at a time instead of counting again.                      *)
(***************************************************************************)
EXTENDS PluginTypes

CONSTANT Logarithm      \* Logarithm[x]: the natural logarithm of x, in thousandths

MaxInt32 == 2147483647

filterTopologySpreadConstraints(cs, action) == SelectSeq(cs, LAMBDA c : c.action = action)

\* The plugin's default constraints, with the selector of the services and
\* controllers that select the pod; none when none does.
defaultConstraints(p, action) ==
    LET selector == DefaultSelector(p)
    IN  IF selector = {} THEN <<>>
        ELSE [i \in DOMAIN filterTopologySpreadConstraints(DefaultConstraints, action) |->
                [filterTopologySpreadConstraints(DefaultConstraints, action)[i]
                    EXCEPT !.selector = selector]]

\* A pod without constraints of its own takes the defaults.
Constraints(p, action) ==
    IF PodSpec[p].constraints # <<>>
    THEN filterTopologySpreadConstraints(PodSpec[p].constraints, action)
    ELSE defaultConstraints(p, action)

\* No two constraints of an action have one key: the API server refuses such a pod and
\* ValidatePodTopologySpreadArgs such defaults.
ASSUME ConstraintsAssumption ==
    \A p \in Pods :
        LET cs == Constraints(p, "hard")
        IN  /\ Len(cs) \in Nat /\ DOMAIN cs = 1 .. Len(cs)
            /\ \A i, j \in DOMAIN cs : cs[i].key = cs[j].key => i = j
            /\ \A c \in Range(cs) : c.skew \in Int

\* Nor is a skew below one, and the logarithm of a number from 2 on is positive.
ASSUME SoftAssumption ==
    /\ \A p \in Pods :
          LET cs == Constraints(p, "soft")
          IN  /\ Len(cs) \in Nat /\ DOMAIN cs = 1 .. Len(cs)
              /\ \A c \in Range(cs) : c.skew \in Nat \ {0}
    /\ \A x \in 2 .. Cardinality(Nodes) + 2 : Logarithm[x] \in Nat

NodeLabelsMatchSpreadConstraints(n, cs) == \A c \in Range(cs) : HasKey(n, c.key)

NewCriticalPaths == <<[value |-> None, num |-> MaxInt32], [value |-> None, num |-> MaxInt32]>>

\* Mutant: the paths are not put back in order when the first one grows.
UpdateInPlace(paths, value, num) ==
    CASE value = paths[1].value -> <<[value |-> value, num |-> num], paths[2]>>
      [] value # paths[1].value /\ value = paths[2].value ->
            <<paths[1], [value |-> value, num |-> num]>>
      [] OTHER -> IF num < paths[1].num THEN <<[value |-> value, num |-> num], paths[1]>>
                  ELSE IF num < paths[2].num THEN <<paths[1], [value |-> value, num |-> num]>>
                  ELSE paths

\* criticalPaths.update: a known value is set and the two are put in order; a new
\* one enters when it is smaller than one of them.
Update(paths, value, num) ==
    LET entry == [value |-> value, num |-> num]
        known == value \in {paths[1].value, paths[2].value}
        set == IF value = paths[1].value THEN <<entry, paths[2]>> ELSE <<paths[1], entry>>
    IN  IF known THEN IF set[1].num > set[2].num THEN <<set[2], set[1]>> ELSE set
        ELSE IF num < paths[1].num THEN <<entry, paths[1]>>
        ELSE IF num < paths[2].num THEN <<paths[1], entry>>
        ELSE paths

EmptySpread == [constraints |-> <<>>, counts |-> <<>>, paths |-> <<>>]

\* Only nodes the pod selects and that have all keys give rise to a pair.
EligiblePairs(p, cs) ==
    {PairOf(n, c.key) : c \in Range(cs),
                        n \in {m \in Nodes : /\ PodMatchesNodeSelectorAndAffinityTerms(p, m)
                                             /\ NodeLabelsMatchSpreadConstraints(m, cs)}}

\* The matching pods on the nodes that have the pair of the constraint.
MatchNum(c, pair, p, at) ==
    CountPodsMatchSelector(
        {q \in Pods : at[q] # None /\ HasKey(at[q], c.key) /\ PairOf(at[q], c.key) = pair},
        c.selector, PodSpec[p].ns)

PairCounts(p, at, cs) ==
    [pair \in EligiblePairs(p, cs) |->
        MatchNum(CHOOSE c \in Range(cs) : c.key = pair[1], pair, p, at)]

\* The critical paths after a walk over the pairs of a key, one result for each order
\* of the map: the last pair of the walk is any of them.
PathsAfter(pairs, counts) ==
    LET walk[seen \in SUBSET pairs] ==
            IF seen = {} THEN {NewCriticalPaths}
            ELSE UNION {{Update(paths, pair[2], counts[pair]) : paths \in walk[seen \ {pair}]} : pair \in seen}
    IN  walk[pairs]

PathsOf(key, counts) == PathsAfter({pair \in DOMAIN counts : pair[1] = key}, counts)

WithPaths(cs, counts) ==
    LET keys == {c.key : c \in Range(cs)}
    IN  {[constraints |-> cs, counts |-> counts, paths |-> paths] :
            paths \in {f \in [keys -> UNION {PathsOf(key, counts) : key \in keys}] :
                          \A key \in keys : f[key] \in PathsOf(key, counts)}}

\* calPreFilterState: the possible results.
calPreFilterState(p, at) ==
    LET cs == Constraints(p, "hard")
    IN  UNION {WithPaths(cs, counts) : counts \in {PairCounts(p, at, cs)}}

\* The constraints a changed pod counts for: none when the pod is of another
\* namespace or the node lacks a key.
Touched(state, q, p, n) ==
    IF PodSpec[q].ns # PodSpec[p].ns \/ ~NodeLabelsMatchSpreadConstraints(n, state.constraints)
    THEN {} ELSE {c \in Range(state.constraints) : Matches(c.selector, q)}

\* The code dereferences the count of the pair without asking whether it is there:
\* a node none of whose like the incoming pod selects has none.
SpreadPanics(state, q, p, n) ==
    \E c \in Touched(state, q, p, n) : PairOf(n, c.key) \notin DOMAIN state.counts

\* updateWithPod, on a copy of the state (Clone copies counts and paths): the number
\* of the node's pair for each of these constraints, and the critical paths with it.
SpreadUpdateWithPod(state, q, p, n, delta) ==
    LET keys == {c.key : c \in Touched(state, q, p, n)}
        counts == [pair \in DOMAIN state.counts |->
                      state.counts[pair]
                      + IF pair[1] \in keys /\ pair = PairOf(n, pair[1]) THEN delta ELSE 0]
    IN  [constraints |-> state.constraints,
         counts |-> counts,
         paths |-> [key \in DOMAIN state.paths |->
                       IF key \in keys
                       THEN Update(state.paths[key], Labels[n][key], counts[PairOf(n, key)])
                       ELSE state.paths[key]]]

SelfMatch(c, p) == IF Matches(c.selector, p) THEN 1 ELSE 0

\* Filter: the number on the node's pair, with the pod, may exceed the smallest
\* number by the skew at most.
SpreadFilter(state, p, n) ==
    LET Num(c) == IF PairOf(n, c.key) \in DOMAIN state.counts
                  THEN state.counts[PairOf(n, c.key)] ELSE 0
        TooSkewed(c) == Num(c) + SelfMatch(c, p) - state.paths[c.key][1].num > c.skew
        Verdict(c) == IF ~HasKey(n, c.key) THEN "UnschedulableAndUnresolvable"
                      ELSE IF TooSkewed(c) THEN "Unschedulable" ELSE "Success"
        failed == SelectInSeq(state.constraints, LAMBDA c : Verdict(c) # "Success")
    IN  IF DOMAIN state.counts = {} \/ failed = 0 THEN "Success"
        ELSE Verdict(state.constraints[failed])
-----------------------------------------------------------------------------
(* Scores *)

\* initPreScoreState: nodes without all keys are not scored.
IgnoredNodes(p, feasible) ==
    {n \in feasible : ~NodeLabelsMatchSpreadConstraints(n, Constraints(p, "soft"))}

\* topologyNormalizingWeight: log(size + 2), in thousandths.
TopologyNormalizingWeight(size) == Logarithm[size + 2]

\* The number of domains of a constraint among the nodes to score.
TopologySize(c, p, feasible) ==
    LET scored == feasible \ IgnoredNodes(p, feasible)
    IN  Cardinality(IF c.key = Hostname THEN scored ELSE {PairOf(n, c.key) : n \in scored})

\* PreScore: the matching pods of the node's domain, on nodes the pod selects and
\* that have all keys; for the host name, those of the node itself.
DomainCount(c, p, at, n) ==
    LET cs == Constraints(p, "soft")
        counted == IF c.key = Hostname THEN {n}
                   ELSE {m \in Nodes : /\ PodMatchesNodeSelectorAndAffinityTerms(p, m)
                                       /\ NodeLabelsMatchSpreadConstraints(m, cs)
                                       /\ PairOf(m, c.key) = PairOf(n, c.key)}
    IN  SumFunction([m \in counted |-> CountPodsMatchSelector(PodsOn(at, m), c.selector, PodSpec[p].ns)])

\* Score: the sum over the constraints, cut to an integer.
SpreadScore(p, at, feasible, n) ==
    IF n \in IgnoredNodes(p, feasible) THEN 0
    ELSE SumFunction([c \in Range(Constraints(p, "soft")) |->
                        DomainCount(c, p, at, n) * TopologyNormalizingWeight(TopologySize(c, p, feasible))
                        + 1000 * (c.skew - 1)]) \div 1000

\* NormalizeScore: the fewer matching pods, the higher; ignored nodes get nothing.
SpreadNormalized(p, at, feasible) ==
    LET raw == [n \in feasible |-> SpreadScore(p, at, feasible, n)]
        scored == feasible \ IgnoredNodes(p, feasible)
        lowest == Min({raw[n] : n \in scored})
        highest == Max({raw[n] : n \in scored} \cup {0})
    IN  [n \in feasible |->
            IF n \notin scored THEN 0
            ELSE IF highest = 0 THEN MaxNodeScore
            ELSE (MaxNodeScore * (highest + lowest - raw[n])) \div highest]
=============================================================================
