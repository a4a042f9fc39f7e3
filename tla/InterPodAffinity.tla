-------------------------- MODULE InterPodAffinity --------------------------
(***************************************************************************)
(* The InterPodAffinity plugin.                                            *)
(*                                                                         *)
(* The pre-filter state is three maps from topology pairs to the number of *)
(* matched terms: existing pods' anti-affinity terms that match the        *)
(* incoming pod, and the incoming pod's affinity and anti-affinity terms.  *)
(* A pair whose number falls to zero is deleted, because Filter asks       *)
(* whether the affinity map is empty.                                      *)
(***************************************************************************)
EXTENDS PluginTypes

CONSTANT HardPodAffinityWeight

ASSUME TermsAssumption ==
    \A p \in Pods : IsFiniteSet(PodSpec[p].affinity) /\ IsFiniteSet(PodSpec[p].antiAffinity)

\* The weights of the terms; a node has finitely many labels.
ASSUME WeightsAssumption ==
    /\ HardPodAffinityWeight \in Nat
    /\ \A n \in Nodes : IsFiniteSet(DOMAIN Labels[n])
    /\ \A p \in Pods :
          /\ IsFiniteSet(PodSpec[p].prefers) /\ IsFiniteSet(PodSpec[p].avoids)
          /\ \A t \in PodSpec[p].prefers \cup PodSpec[p].avoids : t.weight \in Int

PodMatchesTerm(p, term) == PodSpec[p].ns \in term.namespaces /\ Matches(term.selector, p)

podMatchesAllAffinityTerms(p, terms) == terms # {} /\ \A t \in terms : PodMatchesTerm(p, t)

\* m[pair] += value for the pair of each term whose key the node has.
Bumped(m, n, terms, value) ==
    LET Hits(pair) == Cardinality({t \in terms : HasKey(n, t.key) /\ PairOf(n, t.key) = pair})
        touched == {PairOf(n, t.key) : t \in {x \in terms : HasKey(n, x.key)}}
        Old(pair) == IF pair \in DOMAIN m THEN m[pair] ELSE 0
        New(pair) == Old(pair) + value * Hits(pair)
    IN  [pair \in {x \in DOMAIN m \cup touched : New(x) # 0} |-> New(pair)]

updateWithAffinityTerms(m, p, n, terms, value) ==
    IF podMatchesAllAffinityTerms(p, terms) THEN Bumped(m, n, terms, value) ELSE m

updateWithAntiAffinityTerms(m, p, n, terms, value) ==
    Bumped(m, n, {t \in terms : PodMatchesTerm(p, t)}, value)

HasAffinity(q) ==
    PodSpec[q].affinity \cup PodSpec[q].antiAffinity \cup PodSpec[q].prefers \cup PodSpec[q].avoids # {}

EmptyMap == <<>>

\* updateWithPod of pod q on node n, p being the incoming pod.
AffinityUpdateWithPod(state, q, p, n, value) ==
    [existing |-> updateWithAntiAffinityTerms(state.existing, p, n, PodSpec[q].antiAffinity, value),
     affinity |-> updateWithAffinityTerms(state.affinity, q, n, PodSpec[p].affinity, value),
     anti |-> updateWithAntiAffinityTerms(state.anti, q, n, PodSpec[p].antiAffinity, value)]

\* The three maps added up over the pods of the nodes; the parallel pieces add into
\* maps of their own, so their order does not matter.
getTPMapMatchingExistingAntiAffinity(p, at) ==
    FoldSet(LAMBDA q, m : updateWithAntiAffinityTerms(m, p, at[q], PodSpec[q].antiAffinity, 1),
            EmptyMap, {q \in Pods : at[q] # None /\ HasAffinity(q)})

getTPMapMatchingIncomingAffinity(p, at) ==
    FoldSet(LAMBDA q, m : updateWithAffinityTerms(m, q, at[q], PodSpec[p].affinity, 1),
            EmptyMap, {q \in Pods : at[q] # None})

getTPMapMatchingIncomingAntiAffinity(p, at) ==
    FoldSet(LAMBDA q, m : updateWithAntiAffinityTerms(m, q, at[q], PodSpec[p].antiAffinity, 1),
            EmptyMap, {q \in Pods : at[q] # None})

\* PreFilter.
AffinityPreFilter(p, at) ==
    [existing |-> getTPMapMatchingExistingAntiAffinity(p, at),
     affinity |-> getTPMapMatchingIncomingAffinity(p, at),
     anti |-> getTPMapMatchingIncomingAntiAffinity(p, at)]

Positive(m, pair) == pair \in DOMAIN m /\ m[pair] > 0

satisfyExistingPodsAntiAffinity(state, n) ==
    \A pair \in PairsOf(n) : ~Positive(state.existing, pair)

satisfyPodAntiAffinity(state, p, n) ==
    \A t \in PodSpec[p].antiAffinity : HasKey(n, t.key) => ~Positive(state.anti, PairOf(n, t.key))

\* All keys must be on the node, and each pair have a matching pod, unless no pod
\* matches anywhere and the pod matches its own terms.
satisfyPodAffinity(state, p, n) ==
    /\ \A t \in PodSpec[p].affinity : HasKey(n, t.key)
    /\ \/ \A t \in PodSpec[p].affinity : Positive(state.affinity, PairOf(n, t.key))
       \/ /\ DOMAIN state.affinity = {}
          /\ podMatchesAllAffinityTerms(p, PodSpec[p].affinity)

AffinityFilter(state, p, n) ==
    IF ~satisfyPodAffinity(state, p, n) THEN "UnschedulableAndUnresolvable"
    ELSE IF ~satisfyPodAntiAffinity(state, p, n) THEN "Unschedulable"
    ELSE IF ~satisfyExistingPodsAntiAffinity(state, n) THEN "Unschedulable"
    ELSE "Success"
-----------------------------------------------------------------------------
(* Scores *)

\* processTerms: what the terms add to the pair when the pod to check matches and
\* the existing pod's node has the pair.
TermsScore(terms, podToCheck, fixedNode, pair) ==
    LET hits == {t \in terms : /\ PodMatchesTerm(podToCheck, t)
                               /\ HasKey(fixedNode, t.key)
                               /\ PairOf(fixedNode, t.key) = pair}
    IN  SumFunction([t \in hits |-> t.weight])

HardTerms(q) ==
    IF HardPodAffinityWeight > 0
    THEN {[key |-> t.key, namespaces |-> t.namespaces, selector |-> t.selector,
           weight |-> HardPodAffinityWeight] : t \in PodSpec[q].affinity}
    ELSE {}

\* processExistingPod: the incoming pod's soft terms, and the existing pod's terms
\* about the incoming pod.
processExistingPod(q, p, fixedNode, pair) ==
    TermsScore(PodSpec[p].prefers, q, fixedNode, pair) - TermsScore(PodSpec[p].avoids, q, fixedNode, pair)
    + TermsScore(HardTerms(q), p, fixedNode, pair)
    + TermsScore(PodSpec[q].prefers, p, fixedNode, pair) - TermsScore(PodSpec[q].avoids, p, fixedNode, pair)

\* A term of either side that matches and whose key the existing pod's node has
\* makes an entry of the score map, whatever its sum.
TermMatched(q, p, fixedNode) ==
    \/ \E t \in PodSpec[p].prefers \cup PodSpec[p].avoids : PodMatchesTerm(q, t) /\ HasKey(fixedNode, t.key)
    \/ \E t \in HardTerms(q) \cup PodSpec[q].prefers \cup PodSpec[q].avoids :
            PodMatchesTerm(p, t) /\ HasKey(fixedNode, t.key)

\* PreScore: without affinity of its own the pod only meets the pods that have some.
PodsToProcess(p, at) == {q \in Pods : at[q] # None /\ (HasAffinity(p) \/ HasAffinity(q))}

\* Score: the sums of the pairs the node has.
AffinityScore(p, at, n) ==
    LET Sums(pair) == SumFunction([q \in PodsToProcess(p, at) |-> processExistingPod(q, p, at[q], pair)])
    IN  SumFunction([pair \in PairsOf(n) |-> Sums(pair)])

\* Mutant: the scores are not moved up by the lowest one.
NormalizedFromZero(p, at, feasible) ==
    LET raw == [n \in feasible |-> AffinityScore(p, at, n)]
        highest == Max({raw[n] : n \in feasible} \cup {0})
    IN  IF \A q \in PodsToProcess(p, at) : ~TermMatched(q, p, at[q]) THEN raw
        ELSE [n \in feasible |-> IF highest = 0 THEN 0 ELSE (MaxNodeScore * raw[n]) \div highest]

\* NormalizeScore: between the lowest score or 0 and the highest score or 0.
AffinityNormalized(p, at, feasible) ==
    LET raw == [n \in feasible |-> AffinityScore(p, at, n)]
        highest == Max({raw[n] : n \in feasible} \cup {0})
        lowest == Min({raw[n] : n \in feasible} \cup {0})
    IN  IF \A q \in PodsToProcess(p, at) : ~TermMatched(q, p, at[q]) THEN raw
        ELSE [n \in feasible |->
                IF highest = lowest THEN 0
                ELSE (MaxNodeScore * (raw[n] - lowest)) \div (highest - lowest)]
=============================================================================
