----------------------- MODULE GenericSchedulerProofs -----------------------
(***************************************************************************)
(* Proofs about GenericScheduler: the parallel search for feasible nodes   *)
(* is exact whatever the workers' interleaving, an error of a filter is    *)
(* never lost, a pod is reported unschedulable only for a reason, the host *)
(* is one the filters and the extenders let through and has the best       *)
(* score, and the Reserve plugins' state follows the pod.                  *)
(***************************************************************************)
EXTENDS GenericScheduler, FiniteSetTheorems, TLAPS

-----------------------------------------------------------------------------
(* The inductive invariant.                                                *)

Steps == {"idle", "preFilter", "filter", "extend", "fitError", "score", "reserve",
          "permit", "unreserve"}

CycleOK ==
    /\ nextStartNodeIndex \in Nat
    /\ step \in Steps
    /\ cycle \in [pod : Pods \cup {None}, prof : DOMAIN profiles \cup {None}, n : Nat,
                  wanted : Nat, extender : Nat]
    /\ step # "idle" => /\ cycle.pod \in Pods /\ cycle.prof \in DOMAIN profiles
                        /\ cycle.n > 0 /\ cycle.wanted \in 1 .. cycle.n
                        /\ cycle.extender > 0

\* Outside Schedule its locals hold nothing.
NothingSearched ==
    step \in {"idle", "preFilter", "permit", "unreserve"} =>
        /\ search = NoSearch
        /\ feasible = {} /\ fitting = {} /\ erring = {} /\ refused = {} /\ total = <<>>

\* The node at a position of the search.
NodeAt(i) == (nextStartNodeIndex + i) % cycle.n

Busy(w) == worker[w].at \in {"piece", "checkNode", "found"}
Found(w) == worker[w].at = "found"

\* The positions a worker took and is not done with.
Ahead(w) == worker[w].piece .. worker[w].end - 1

\* The positions some worker took and is done with.
Finished == {i \in 0 .. search.next - 1 : \A w \in Workers : Busy(w) => i \notin Ahead(w)}

\* The workers that counted a node over the limit and have not uncounted it.
Over == {w \in Workers : Found(w) /\ worker[w].length > cycle.wanted}

SearchTypeOK ==
    /\ search \in [next : 0 .. cycle.n, len : Nat,
                   slots : [1 .. cycle.wanted -> Nodes \cup {None}],
                   stop : BOOLEAN, err : BOOLEAN, statuses : SUBSET Nodes]
    /\ worker \in [Workers -> [at : {"done", "ready", "piece", "checkNode", "found"},
                               piece : Nat, end : Nat, length : Nat]]
    /\ fitting \subseteq Nodes /\ erring \subseteq Nodes
    /\ feasible = {} /\ refused = {}

\* Workers look at different positions, and they stop at the end or on request.
ChunksOK ==
    /\ \A w \in Workers :
          Busy(w) => worker[w].piece < worker[w].end /\ worker[w].end <= search.next
    /\ \A w, v \in Workers :
          w # v /\ Busy(w) /\ Busy(v) =>
              worker[w].end <= worker[v].piece \/ worker[v].end <= worker[w].piece
    /\ \A w \in Workers :
          worker[w].at = "done" => search.stop \/ search.next = cycle.n

\* The counter is over the limit by the number of workers that have to uncount.
CounterOK ==
    /\ search.len < cycle.wanted => Over = {}
    /\ search.len >= cycle.wanted => search.len - cycle.wanted = Cardinality(Over)

\* Each slot up to the counter is written, or will be by the one worker that
\* counted to it; the others are empty.
SlotsOK ==
    /\ \A k \in 1 .. cycle.wanted :
          search.slots[k] # None \/ (\E w \in Workers : Found(w) /\ worker[w].length = k)
              <=> k <= search.len
    /\ \A w \in Workers : Found(w) /\ worker[w].length <= cycle.wanted =>
          /\ worker[w].length \in 1 .. cycle.wanted
          /\ search.slots[worker[w].length] = None
          /\ \A v \in Workers : Found(v) /\ worker[v].length = worker[w].length => v = w

\* Every slot holds a node of its own that fits and is done with.
PlacedOK ==
    /\ \A k \in 1 .. cycle.wanted : search.slots[k] # None =>
          /\ search.slots[k] \in fitting
          /\ \E i \in Finished : search.slots[k] = NodeAt(i)
    /\ \A j, k \in 1 .. cycle.wanted :
          search.slots[j] = search.slots[k] /\ search.slots[k] # None => j = k

\* A node is examined once: statuses and fitting nodes are of finished positions
\* or of nodes about to be placed, and until the search is stopped every finished
\* position led to a status or a slot.
ExaminedOK ==
    /\ \A x \in search.statuses : x \notin fitting /\ \E i \in Finished : x = NodeAt(i)
    /\ \A x \in fitting : \/ \E i \in Finished : x = NodeAt(i)
                          \/ \E w \in Workers : Found(w) /\ x = NodeOf(w)
    /\ \A w \in Workers : Found(w) => NodeOf(w) \in fitting
    /\ ~ search.stop => \A i \in Finished :
          \/ NodeAt(i) \in search.statuses
          \/ \E k \in 1 .. cycle.wanted : search.slots[k] = NodeAt(i)

\* The search is stopped for a reason, and an error is one.
StopOK ==
    /\ search.stop => search.err \/ search.len >= cycle.wanted
    /\ erring # {} => search.err

SearchInv ==
    /\ SearchTypeOK /\ ChunksOK /\ CounterOK /\ SlotsOK /\ PlacedOK /\ ExaminedOK /\ StopOK

Placements == {search.slots[i] : i \in 1 .. search.len}

\* What the extenders and the scores leave of what the search found.
CandidatesOK ==
    /\ search.len \in Nat /\ erring = {}
    /\ search \in [next : {search.next}, len : {search.len}, slots : {search.slots},
                   stop : {search.stop}, err : {search.err}, statuses : {search.statuses}]
    /\ feasible \subseteq fitting /\ feasible \cap refused = {}
    /\ Placements \subseteq feasible \cup refused
    /\ search.len < cycle.wanted => fitting \subseteq feasible \cup refused
    /\ step = "fitError" => feasible = {}
    /\ step = "reserve" => host \in feasible

Binds == {"waitOnPermit", "preBind", "bind", "bound"}

Reservations(prof) == DOMAIN profiles[prof].enabled["reserve"]

ReserveOK ==
    /\ binding \in [Pods -> [at : {"pending", "unreserve"} \cup Binds,
                             prof : DOMAIN profiles \cup {None}]]
    /\ reserved \in [Pods -> SUBSET Nat]
    /\ step # "idle" => binding[cycle.pod].at = "pending"
    /\ step = "permit" => reserved[cycle.pod] = Reservations(cycle.prof)
    /\ \A p \in Pods :
          /\ binding[p].at = "pending" =>
                 (step \in {"permit", "unreserve"} /\ cycle.pod = p) \/ reserved[p] = {}
          /\ binding[p].at \in Binds => /\ binding[p].prof \in DOMAIN profiles
                                        /\ reserved[p] = Reservations(binding[p].prof)

ProfilesOK ==
    \A prof \in DOMAIN profiles :
        \A e \in Range(ExtensionPoints) : profiles[prof].enabled[e] \in Seq(STRING)

Inv ==
    /\ ProfilesOK
    /\ CycleOK
    /\ NothingSearched
    /\ step = "filter" => SearchInv
    /\ step \in {"extend", "fitError", "score", "reserve"} => CandidatesOK
    /\ SearchExact
    /\ ReserveOK

-----------------------------------------------------------------------------
(* Arithmetic of positions and counts.                                     *)

\* What division and remainder mean.
LEMMA ModBasics ==
    ASSUME NEW n \in Nat \ {0}, NEW a \in Nat
    PROVE  /\ a % n \in 0 .. n - 1 /\ a \div n \in Nat
           /\ a = (n * (a \div n)) + (a % n)
<1>1. a % n \in 0 .. n - 1
    OBVIOUS
<1>2. a \div n \in Int
    OBVIOUS
<1>3. a \div n >= 0
    OBVIOUS
<1>4. a = (n * (a \div n)) + (a % n)
    OBVIOUS
<1>5. QED
    BY <1>1, <1>2, <1>3, <1>4

\* A multiple of a positive number is at least that number.
LEMMA Multiple ==
    ASSUME NEW n \in Nat \ {0}, NEW d \in Nat \ {0}
    PROVE  n * d >= n
<1>1. n * d = n * (d - 1) + n
    OBVIOUS
<1>2. n * (d - 1) >= 0
    OBVIOUS
<1>3. n * (d - 1) \in Int /\ n * d \in Int
    OBVIOUS
<1>4. QED
    BY <1>1, <1>2, <1>3

\* Two remainders of numbers that differ by less than the divisor are different.
LEMMA ModUnique ==
    ASSUME NEW n \in Nat \ {0}, NEW q \in Nat, NEW k \in Nat,
           NEW x \in 0 .. n - 1, NEW y \in 0 .. n - 1,
           n * q + x = n * k + y
    PROVE  x = y /\ n * q = n * k
<1>0. n * q \in Int /\ n * k \in Int
    OBVIOUS
<1>1. CASE q > k
    <2>1. n * (q - k) >= n
        BY <1>1, Multiple
    <2>2. n * (q - k) = n * q - n * k
        OBVIOUS
    <2>3. QED
        BY <1>0, <2>1, <2>2
<1>2. CASE k > q
    <2>1. n * (k - q) >= n
        BY <1>2, Multiple
    <2>2. n * (k - q) = n * k - n * q
        OBVIOUS
    <2>3. QED
        BY <1>0, <2>1, <2>2
<1>3. CASE q = k
    BY <1>0, <1>3
<1>4. QED
    BY <1>1, <1>2, <1>3

\* The positions of a search are different nodes, wherever it starts.
LEMMA ModInjective ==
    ASSUME NEW n \in Nat \ {0}, NEW s \in Nat, NEW i \in 0 .. n - 1, NEW j \in 0 .. n - 1,
           (s + i) % n = (s + j) % n
    PROVE  i = j
<1>1. s + i \in Nat /\ s + j \in Nat
    OBVIOUS
<1> DEFINE r == (s + i) % n
           a == (s + i) \div n
           b == (s + j) \div n
<1>2. /\ r \in 0 .. n - 1 /\ a \in Nat /\ b \in Nat
      /\ s + i = (n * a) + r /\ s + j = (n * b) + r
    BY <1>1, ModBasics
<1>3. n * a \in Int /\ n * b \in Int
    BY <1>2
<1>4. n * a = n * b
    <2> HIDE DEF r, a, b
    <2>1. CASE i <= j
        <3>1. j - i \in 0 .. n - 1 /\ 0 \in 0 .. n - 1
            BY <2>1
        <3>2. n * a + (j - i) = n * b + 0
            BY <1>2, <1>3
        <3>3. QED
            BY <1>2, <3>1, <3>2, ModUnique
    <2>2. CASE j <= i
        <3>1. i - j \in 0 .. n - 1 /\ 0 \in 0 .. n - 1
            BY <2>2
        <3>2. n * b + (i - j) = n * a + 0
            BY <1>2, <1>3
        <3>3. QED
            BY <1>2, <3>1, <3>2, ModUnique
    <2>3. QED
        BY <2>1, <2>2
<1>5. QED
    <2> HIDE DEF r, a, b
    <2> QED BY <1>2, <1>3, <1>4

\* Every node is at some position of the search.
LEMMA ModOnto ==
    ASSUME NEW n \in Nat \ {0}, NEW s \in Nat, NEW x \in 0 .. n - 1
    PROVE  \E i \in 0 .. n - 1 : (s + i) % n = x
<1> DEFINE r == s % n
           q == s \div n
           i == IF r <= x THEN x - r ELSE x + n - r
           c == (s + i) % n
           k == (s + i) \div n
<1>1. r \in 0 .. n - 1 /\ q \in Nat /\ s = (n * q) + r
    BY ModBasics
<1>2. i \in 0 .. n - 1
    <2> HIDE DEF r
    <2> QED BY <1>1
<1>3. c \in 0 .. n - 1 /\ k \in Nat /\ s + i = (n * k) + c
    <2>1. s + i \in Nat
        BY <1>2
    <2> HIDE DEF i
    <2> QED BY <2>1, ModBasics
<1>4. n * q \in Int /\ n * k \in Int /\ n * (q + 1) \in Int /\ n * (q + 1) = n * q + n
    BY <1>1, <1>3
<1>5. CASE r <= x
    <2>1. i = x - r
        BY <1>5
    <2>2. n * q + x = n * k + c
        <3> HIDE DEF r, q, i, k, c
        <3> QED BY <1>1, <1>2, <1>3, <1>4, <2>1
    <2>3. x = c
        <3> HIDE DEF r, q, i, k, c
        <3> QED BY <1>1, <1>3, <2>2, ModUnique
    <2>4. QED
        BY <1>2, <2>3
<1>6. CASE ~ (r <= x)
    <2>1. i = x + n - r
        BY <1>6
    <2>2. n * (q + 1) + x = n * k + c
        <3> HIDE DEF r, q, i, k, c
        <3> QED BY <1>1, <1>2, <1>3, <1>4, <2>1
    <2>3. x = c
        <3> HIDE DEF r, q, i, k, c
        <3> DEFINE m == q + 1
        <3>1. m \in Nat
            BY <1>1
        <3>2. n * m + x = n * k + c
            BY <2>2
        <3> HIDE DEF m
        <3>3. QED
            BY ONLY n \in Nat \ {0}, x \in 0 .. n - 1, <1>3, <3>1, <3>2, ModUnique, ZenonT(20)
    <2>4. QED
        BY <1>2, <2>3
<1>7. QED
    BY <1>5, <1>6

\* A nonempty set of natural numbers has a least element, which is what Min chooses.
LEMMA MinProperty ==
    ASSUME NEW S \in SUBSET Nat, S # {}
    PROVE  Min(S) \in S /\ \A y \in S : Min(S) <= y
<1>1. \E x \in S : \A y \in S : ~ (<<y, x>> \in OpToRel(<, Nat))
    BY NatLessThanWellFounded, WFMin
<1>2. \E x \in S : \A y \in S : x =< y
    <2>1. PICK x \in S : \A y \in S : ~ (<<y, x>> \in OpToRel(<, Nat))
        BY <1>1
    <2>2. \A y \in S : ~ (y < x)
        <3> TAKE y \in S
        <3>1. <<y, x>> \in Nat \X Nat
            OBVIOUS
        <3>2. QED
            BY <2>1, <3>1 DEF OpToRel
    <2>3. \A y \in S : x =< y
        BY <2>2
    <2>4. QED
        BY <2>3
<1>3. QED
    BY <1>2 DEF Min

\* So has one that is bounded a greatest element, which is what Max chooses.
LEMMA MaxProperty ==
    ASSUME NEW S \in SUBSET Nat, S # {}, NEW b \in Nat, \A y \in S : y <= b
    PROVE  Max(S) \in S /\ \A y \in S : Max(S) >= y
<1> DEFINE T == {b - y : y \in S}
<1>1. T \in SUBSET Nat /\ T # {}
    <2>1. \A y \in S : b - y \in Nat
        OBVIOUS
    <2>2. PICK y \in S : TRUE
        OBVIOUS
    <2>3. b - y \in T
        OBVIOUS
    <2>4. QED
        BY <2>1, <2>3
<1>2. Min(T) \in T /\ \A y \in T : Min(T) <= y
    <2> HIDE DEF T
    <2> QED BY <1>1, MinProperty
<1>3. PICK x \in S : Min(T) = b - x
    BY <1>2
<1>4. \A y \in S : x >= y
    <2> TAKE y \in S
    <2>1. b - x <= b - y
        BY <1>2, <1>3
    <2>2. QED
        BY <2>1
<1>5. QED
    BY <1>4 DEF Max

\* The larger of two numbers.
LEMMA MaxOfTwo ==
    ASSUME NEW a \in Int, NEW b \in Int
    PROVE  Max({a, b}) \in {a, b} /\ Max({a, b}) >= a /\ Max({a, b}) >= b
<1>1. \E x \in {a, b} : \A y \in {a, b} : x >= y
    <2>1. CASE a >= b
        BY <2>1
    <2>2. CASE b >= a
        BY <2>2
    <2>3. QED
        BY <2>1, <2>2
<1>2. QED
    BY <1>1 DEF Max

\* The smaller of two numbers.
LEMMA MinOfTwo ==
    ASSUME NEW a \in Int, NEW b \in Int
    PROVE  Min({a, b}) = IF a <= b THEN a ELSE b
<1>1. \E x \in {a, b} : \A y \in {a, b} : x =< y
    <2>1. CASE a <= b
        BY <2>1
    <2>2. CASE b <= a
        BY <2>2
    <2>3. QED
        BY <2>1, <2>2
<1>2. Min({a, b}) \in {a, b} /\ \A y \in {a, b} : Min({a, b}) =< y
    BY <1>1 DEF Min
<1>3. QED
    BY <1>2

\* A percentage of the nodes is at most all of them.
LEMMA PercentageBound ==
    ASSUME NEW n \in Nat, NEW p \in 1 .. 100
    PROVE  (n * p) \div 100 \in 0 .. n
<1>1. n * p <= n * 100
    OBVIOUS
<1>2. n * p \in Nat
    OBVIOUS
<1>3. QED
    <2> DEFINE m == n * p
    <2>1. m \in Nat /\ m <= n * 100
        BY <1>1, <1>2
    <2> HIDE DEF m
    <2>2. m \div 100 \in 0 .. n
        BY <2>1
    <2>3. QED
        BY <2>2 DEF m

\* numFeasibleNodesToFind asks for at least one node and for no more than there
\* are, whatever the percentage and the minimum configured.
LEMMA WantedInRange ==
    ASSUME NEW n \in Nat \ {0}
    PROVE  numFeasibleNodesToFind(n) \in 1 .. n
<1> DEFINE adaptive == 50 - n \div 125
           P == IF PercentageOfNodesToScore > 0
                THEN PercentageOfNodesToScore
                ELSE Max({adaptive, MinFeasibleNodesPercentageToFind})
           share == (n * P) \div 100
<1>0. /\ MinFeasibleNodesToFind \in Nat \ {0}
      /\ MinFeasibleNodesPercentageToFind \in 1 .. 100 /\ PercentageOfNodesToScore \in Int
    BY NumbersAssumption
<1>1. CASE n < MinFeasibleNodesToFind \/ PercentageOfNodesToScore >= 100
    BY <1>1 DEF numFeasibleNodesToFind
<1>2. CASE ~ (n < MinFeasibleNodesToFind \/ PercentageOfNodesToScore >= 100)
    <2>1. adaptive \in Int /\ adaptive <= 50
        <3>1. n \div 125 \in Int
            OBVIOUS
        <3>2. n \div 125 >= 0
            OBVIOUS
        <3>3. QED
            BY <3>1, <3>2
    <2>2. P \in 1 .. 100
        <3>1. CASE PercentageOfNodesToScore > 0
            BY <1>0, <1>2, <3>1
        <3>2. CASE ~ (PercentageOfNodesToScore > 0)
            <4> DEFINE m == Max({adaptive, MinFeasibleNodesPercentageToFind})
            <4>1. /\ m \in {adaptive, MinFeasibleNodesPercentageToFind}
                  /\ m >= MinFeasibleNodesPercentageToFind
                <5> HIDE DEF adaptive
                <5> QED BY <1>0, <2>1, MaxOfTwo
            <4>2. m \in 1 .. 100
                <5> HIDE DEF adaptive, m
                <5> QED BY <1>0, <2>1, <4>1
            <4>3. QED
                BY <3>2, <4>2
        <3>3. QED
            BY <3>1, <3>2
    <2>3. share \in 0 .. n
        <3> HIDE DEF P
        <3> QED BY <2>2, PercentageBound
    <2>4. /\ Max({share, MinFeasibleNodesToFind}) \in {share, MinFeasibleNodesToFind}
          /\ Max({share, MinFeasibleNodesToFind}) >= MinFeasibleNodesToFind
        <3> HIDE DEF share
        <3>1. share \in Int /\ MinFeasibleNodesToFind \in Int
            BY <1>0, <2>3
        <3>2. QED
            BY <3>1, MaxOfTwo
    <2>5. numFeasibleNodesToFind(n) = Max({share, MinFeasibleNodesToFind})
        BY <1>2 DEF numFeasibleNodesToFind
    <2>6. QED
        <3> HIDE DEF share
        <3> QED BY <1>0, <1>2, <2>3, <2>4, <2>5
<1>3. QED
    BY <1>1, <1>2

\* A chunk has at least one node: the workers of parallelize.Until make progress.
LEMMA ChunkPositive ==
    ASSUME NEW n \in Nat
    PROVE  chunkSizeFor(n) \in Nat \ {0}
<1> DEFINE S == {1} \cup {s \in 1 .. n : s * s <= n /\ s <= n \div Parallelism + 1}
<1>1. S \in SUBSET (Nat \ {0}) /\ S # {} /\ \A y \in S : y <= n + 1
    OBVIOUS
<1>2. Max(S) \in S
    <2> HIDE DEF S
    <2>1. S \in SUBSET Nat /\ n + 1 \in Nat
        BY <1>1
    <2>2. QED
        BY <1>1, <2>1, MaxProperty
<1>3. chunkSizeFor(n) = Max(S)
    BY DEF chunkSizeFor
<1>4. QED
    BY <1>1, <1>2, <1>3

-----------------------------------------------------------------------------
(* The plugin runners.                                                     *)

\* FirstFailure is 0 when all plugins succeed, else the place of one that does not.
LEMMA FirstFailureProperty ==
    ASSUME NEW n \in Nat, NEW codes, NEW results \in [1 .. n -> codes]
    PROVE  /\ FirstFailure(results) = 0 <=> \A i \in 1 .. n : results[i] = "Success"
           /\ FirstFailure(results) # 0 =>
                  /\ FirstFailure(results) \in 1 .. n
                  /\ results[FirstFailure(results)] # "Success"
<1> DEFINE I == {i \in 1 .. Len(results) : results[i] # "Success"}
<1>0. Len(results) = n
    OBVIOUS
<1>1. FirstFailure(results) = IF I # {} THEN Min(I) ELSE 0
    BY DEF FirstFailure, SelectInSeq
<1>2. I # {} => Min(I) \in I
    <2>1. I \in SUBSET Nat
        BY <1>0
    <2> HIDE DEF I
    <2>2. QED
        BY <2>1, MinProperty
<1>3. \A i \in I : i \in 1 .. n /\ results[i] # "Success"
    BY <1>0
<1>4. I = {} <=> \A i \in 1 .. n : results[i] = "Success"
    BY <1>0
<1>5. QED
    <2> HIDE DEF I
    <2> QED BY <1>1, <1>2, <1>3, <1>4

\* RunFilterPlugins, merged: success exactly when every filter succeeds, and
\* otherwise an error or one of the two unschedulable codes, for both settings
\* of runAllFilters.
LEMMA MergedFilters ==
    ASSUME NEW n \in Nat, NEW codes, NEW results \in [1 .. n -> codes], NEW all \in BOOLEAN
    PROVE  /\ Merge(RunFilterPlugins(results, all)) \in
                  {"Success", "Error", "Unschedulable", "UnschedulableAndUnresolvable"}
           /\ Merge(RunFilterPlugins(results, all)) = "Success"
                  <=> Range(results) \subseteq {"Success"}
<1> DEFINE failure == FirstFailure(results)
           failed == Range(results) \ {"Success"}
           bad == {"Error", "Unschedulable", "UnschedulableAndUnresolvable"}
<1>1. Range(results) = {results[i] : i \in 1 .. n}
    BY DEF Range
<1>2. failure = 0 <=> Range(results) \subseteq {"Success"}
    <2> HIDE DEF failure
    <2>1. failure = 0 <=> \A i \in 1 .. n : results[i] = "Success"
        BY FirstFailureProperty DEF failure
    <2>2. QED
        BY <1>1, <2>1
<1>3. failure # 0 => failure \in 1 .. n /\ results[failure] \in failed
    <2>1. failure # 0 => failure \in 1 .. n /\ results[failure] # "Success"
        BY FirstFailureProperty
    <2> HIDE DEF failure
    <2>2. QED
        BY <1>1, <2>1
<1>4. CASE failure = 0
    <2>1. RunFilterPlugins(results, all) = {}
        BY <1>4 DEF RunFilterPlugins
    <2>2. Merge({}) = "Success"
        BY DEF Merge
    <2>3. QED
        BY <1>2, <1>4, <2>1, <2>2
<1>5. CASE failure # 0
    <2> HIDE DEF failure, failed
    <2>1. RunFilterPlugins(results, all) \in SUBSET bad /\ RunFilterPlugins(results, all) # {}
        <3>1. failure > 0 /\ failed # {}
            BY <1>3, <1>5
        <3>2. CASE all
            <4>1. RunFilterPlugins(results, all) =
                      IF \A code \in failed : IsUnschedulable(code) THEN failed ELSE {"Error"}
                BY <3>1, <3>2, <1>5 DEF RunFilterPlugins, failure, failed
            <4>2. QED
                BY <3>1, <4>1 DEF IsUnschedulable
        <3>3. CASE ~ all
            <4>1. RunFilterPlugins(results, all) =
                      IF IsUnschedulable(results[failure]) THEN {results[failure]} ELSE {"Error"}
                BY <3>1, <3>3, <1>5 DEF RunFilterPlugins, failure, failed
            <4>2. QED
                BY <3>1, <4>1 DEF IsUnschedulable
        <3>4. QED
            BY <3>2, <3>3
    <2>2. \A S \in SUBSET bad : S # {} => Merge(S) \in bad
        BY DEF Merge
    <2>3. Merge(RunFilterPlugins(results, all)) \in bad
        BY <2>1, <2>2
    <2>4. QED
        BY <1>2, <1>5, <2>3
<1>6. QED
    BY <1>4, <1>5

\* Plugins of which the first failure is an error, Reserve's for one.
LEMMA RunPluginsProperty ==
    ASSUME NEW n \in Nat, NEW codes, NEW results \in [1 .. n -> codes]
    PROVE  /\ RunPlugins(results) = "Success" => Reserved(results) = 1 .. n
           /\ Reserved(results) \subseteq Nat
<1>1. FirstFailure(results) = 0 \/ FirstFailure(results) \in 1 .. n
    BY FirstFailureProperty
<1>2. DOMAIN results = 1 .. n
    OBVIOUS
<1>3. CASE FirstFailure(results) = 0
    BY <1>2, <1>3 DEF RunPlugins, Reserved
<1>4. CASE FirstFailure(results) # 0
    BY <1>1, <1>4 DEF RunPlugins, Reserved
<1>5. QED
    BY <1>3, <1>4

\* What a node's verdict tells: success means that the node fits with and
\* without the pods nominated to it, and a node that fits is refused by an error
\* only (podPassesFiltersOnNode).
LEMMA OutcomeProperty ==
    ASSUME NEW c, Len(c.enabled["filter"]) \in Nat, NEW outcome \in Outcomes(c)
    PROVE  /\ outcome.code = "Success" \/ outcome.code = "Error" \/ IsUnschedulable(outcome.code)
           /\ outcome.code = "Success" => outcome.fits
           /\ IsUnschedulable(outcome.code) => ~ outcome.fits
<1> DEFINE n == Len(c.enabled["filter"])
           kinds == {"Success", "Error", "Unschedulable", "UnschedulableAndUnresolvable"}
<1>1. PICK v \in Verdicts(c) :
          outcome = [code |-> PodPassesFiltersOnNode(v),
                     fits |-> /\ Range(v.without) \subseteq {"Success"}
                              /\ v.nominated => Range(v.with) \subseteq {"Success"}]
    BY DEF Outcomes
<1>2. /\ v.nominated \in BOOLEAN
      /\ v.with \in [1 .. n -> FilterCodes] /\ v.without \in [1 .. n -> FilterCodes]
    BY DEF Verdicts, Answers
<1> DEFINE first == Merge(RunFilterPlugins(v.with, RunAllFilters))
           second == Merge(RunFilterPlugins(v.without, RunAllFilters))
           A == Range(v.with) \subseteq {"Success"}
           B == Range(v.without) \subseteq {"Success"}
<1>3. RunAllFilters \in BOOLEAN
    BY NumbersAssumption
<1>4. first \in kinds /\ (first = "Success" <=> A)
    <2> HIDE DEF n
    <2> QED BY <1>2, <1>3, MergedFilters DEF n
<1>5. second \in kinds /\ (second = "Success" <=> B)
    <2> HIDE DEF n
    <2> QED BY <1>2, <1>3, MergedFilters DEF n
<1>6. /\ outcome.code = PodPassesFiltersOnNode(v)
      /\ outcome.fits <=> (B /\ (v.nominated => A))
    BY <1>1
<1>7. PodPassesFiltersOnNode(v) =
          CASE ~ v.nominated -> second
            [] v.nominated /\ RunPlugins(v.addPod) # "Success" -> "Error"
            [] v.nominated /\ RunPlugins(v.addPod) = "Success" /\ first # "Success" -> first
            [] OTHER -> second
    BY DEF PodPassesFiltersOnNode
<1> HIDE DEF first, second, A, B
<1>8. CASE ~ v.nominated
    <2>1. PodPassesFiltersOnNode(v) = second
        BY <1>7, <1>8
    <2>2. QED
        BY <1>5, <1>6, <1>8, <2>1 DEF IsUnschedulable
<1>9. CASE v.nominated /\ RunPlugins(v.addPod) # "Success"
    <2>1. PodPassesFiltersOnNode(v) = "Error"
        BY <1>7, <1>9
    <2>2. QED
        BY <1>6, <2>1 DEF IsUnschedulable
<1>10. CASE v.nominated /\ RunPlugins(v.addPod) = "Success" /\ first # "Success"
    <2>1. PodPassesFiltersOnNode(v) = first
        BY <1>7, <1>10
    <2>2. QED
        BY <1>4, <1>6, <1>10, <2>1 DEF IsUnschedulable
<1>11. CASE v.nominated /\ RunPlugins(v.addPod) = "Success" /\ first = "Success"
    <2>1. PodPassesFiltersOnNode(v) = second
        BY <1>7, <1>11
    <2>2. QED
        BY <1>4, <1>5, <1>6, <1>11, <2>1 DEF IsUnschedulable
<1>12. QED
    BY <1>2, <1>8, <1>9, <1>10, <1>11

-----------------------------------------------------------------------------
(* The parallel search.                                                    *)

\* The nodes of the search are the snapshot's, each at one position.
LEMMA Positions ==
    ASSUME CycleOK, step = "filter"
    PROVE  /\ cycle.n \in Nat \ {0} /\ cycle.wanted \in 1 .. cycle.n
           /\ nextStartNodeIndex \in Nat
           /\ \A i \in Nat : NodeAt(i) \in Nodes
           /\ \A i, j \in 0 .. cycle.n - 1 : NodeAt(i) = NodeAt(j) => i = j
           /\ \A x \in Nodes : \E i \in 0 .. cycle.n - 1 : x = NodeAt(i)
<1>1. cycle.n \in Nat \ {0} /\ cycle.wanted \in 1 .. cycle.n /\ nextStartNodeIndex \in Nat
    BY DEF CycleOK
<1> DEFINE n == cycle.n
           s == nextStartNodeIndex
<1>2. \A i \in Nat : (s + i) % n \in 0 .. n - 1
    <2> HIDE DEF n, s
    <2>1. n \in Nat \ {0} /\ s \in Nat
        BY <1>1 DEF n, s
    <2> TAKE i \in Nat
    <2>2. s + i \in Nat
        BY <2>1
    <2>3. QED
        BY <2>1, <2>2, ModBasics
<1>3. \A i, j \in 0 .. n - 1 : (s + i) % n = (s + j) % n => i = j
    <2> HIDE DEF n, s
    <2>1. n \in Nat \ {0} /\ s \in Nat
        BY <1>1 DEF n, s
    <2>2. QED
        BY <2>1, ModInjective
<1>4. \A x \in 0 .. n - 1 : \E i \in 0 .. n - 1 : (s + i) % n = x
    <2> HIDE DEF n, s
    <2>1. n \in Nat \ {0} /\ s \in Nat
        BY <1>1 DEF n, s
    <2>2. QED
        BY <2>1, ModOnto
<1>5. \A i : NodeAt(i) = (s + i) % n
    BY DEF NodeAt
<1>6. Nodes = 0 .. n - 1
    BY DEF Nodes
<1>7. QED
    <2> HIDE DEF n, s
    <2>1. /\ \A i \in Nat : NodeAt(i) \in Nodes
          /\ \A i, j \in 0 .. n - 1 : NodeAt(i) = NodeAt(j) => i = j
        BY <1>2, <1>3, <1>5, <1>6
    <2>2. \A x \in Nodes : \E i \in 0 .. n - 1 : x = NodeAt(i)
        <3> TAKE x \in Nodes
        <3>1. PICK i \in 0 .. n - 1 : (s + i) % n = x
            BY <1>4, <1>6
        <3>2. QED
            BY <1>5, <3>1
    <2>3. QED
        BY <1>1, <2>1, <2>2 DEF n

\* What a worker's node is.
LEMMA NodeOfPosition ==
    ASSUME NEW w \in Workers
    PROVE  NodeOf(w) = NodeAt(worker[w].piece)
BY DEF NodeOf, NodeAt

\* The types of the workers' records.
WorkerType == [at : {"done", "ready", "piece", "checkNode", "found"}, piece : Nat, end : Nat,
               length : Nat]

\* A worker's position is one of the search's, and not done with.
LEMMA PieceOpen ==
    ASSUME CycleOK, step = "filter", SearchTypeOK, ChunksOK, NEW w \in Workers, Busy(w)
    PROVE  /\ worker[w].piece \in 0 .. cycle.n - 1
           /\ worker[w].piece \notin Finished
           /\ Finished \subseteq 0 .. cycle.n - 1
           /\ \A v \in Workers : v # w /\ Busy(v) => worker[v].piece # worker[w].piece
<1>1. worker[w].piece \in Nat /\ worker[w].end \in Nat /\ search.next \in 0 .. cycle.n
    BY DEF SearchTypeOK
<1>2. cycle.n \in Nat
    BY DEF CycleOK
<1>3. worker[w].piece < worker[w].end /\ worker[w].end <= search.next
    BY DEF ChunksOK
<1>4. worker[w].piece \in Ahead(w)
    BY <1>1, <1>3 DEF Ahead
<1>5. \A v \in Workers : v # w /\ Busy(v) => worker[v].piece # worker[w].piece
    <2> SUFFICES ASSUME NEW v \in Workers, v # w, Busy(v) PROVE worker[v].piece # worker[w].piece
        OBVIOUS
    <2>1. worker[v].piece \in Nat /\ worker[v].end \in Nat
        BY DEF SearchTypeOK
    <2>2. worker[v].piece < worker[v].end
        BY DEF ChunksOK
    <2>3. worker[w].end <= worker[v].piece \/ worker[v].end <= worker[w].piece
        BY DEF ChunksOK
    <2>4. QED
        BY <1>1, <1>3, <2>1, <2>2, <2>3
<1>6. QED
    BY <1>1, <1>2, <1>3, <1>4, <1>5 DEF Finished

\* A worker that goes on to its next node has done with the one position it was
\* at, and the chunks stay apart.
LEMMA NextPieceProperty ==
    ASSUME CycleOK, step = "filter", SearchTypeOK, ChunksOK, NEW w \in Workers, Busy(w),
           worker' = NextPiece(w), search'.next = search.next, search.stop => search'.stop,
           UNCHANGED <<nextStartNodeIndex, cycle>>
    PROVE  /\ worker' \in [Workers -> WorkerType]
           /\ \A v \in Workers : v # w => worker'[v] = worker[v]
           /\ worker'[w].at \in {"piece", "ready"}
           /\ ChunksOK'
           /\ Finished' = Finished \cup {worker[w].piece}
<1> DEFINE x == worker[w].piece
           e == worker[w].end
<1>0. worker \in [Workers -> WorkerType] /\ search.next \in 0 .. cycle.n /\ cycle.n \in Nat
    BY DEF SearchTypeOK, WorkerType, CycleOK
<1>1. /\ x \in Nat /\ e \in Nat /\ x < e /\ e <= search.next
      /\ worker[w] \in WorkerType
    BY <1>0 DEF ChunksOK, WorkerType
<1>2. worker' = [worker EXCEPT ![w] = worker'[w]]
    BY <1>0 DEF NextPiece
<1>3. \A v \in Workers : v # w => worker'[v] = worker[v]
    BY <1>0, <1>2
<1> DEFINE onwards == [at |-> "piece", piece |-> x + 1, end |-> e, length |-> worker[w].length]
           ready == [at |-> "ready", piece |-> 0, end |-> 0, length |-> 0]
<1>4. \/ x + 1 < e /\ worker'[w] = onwards
      \/ x + 1 >= e /\ worker'[w] = ready
    <2>1. CASE x + 1 < e
        <3>1. worker' = [worker EXCEPT ![w].at = "piece", ![w].piece = @ + 1]
            BY <2>1 DEF NextPiece
        <3>2. worker'[w] = [worker[w] EXCEPT !.at = "piece", !.piece = @ + 1]
            BY <1>0, <3>1
        <3>3. worker'[w] = onwards
            BY <1>1, <3>2 DEF WorkerType
        <3>4. QED
            BY <2>1, <3>3
    <2>2. CASE ~ (x + 1 < e)
        <3>1. worker' = [worker EXCEPT ![w] = [Idle EXCEPT !.at = "ready"]]
            BY <2>2 DEF NextPiece
        <3>2. worker'[w] = ready
            BY <1>0, <3>1 DEF Idle
        <3>3. QED
            BY <1>1, <2>2, <3>2
    <2>3. QED
        BY <2>1, <2>2
<1>5. worker'[w] \in WorkerType /\ worker'[w].at \in {"piece", "ready"}
    BY <1>1, <1>4 DEF WorkerType
<1>6. worker' \in [Workers -> WorkerType]
    BY <1>0, <1>2, <1>5
<1>7. /\ Busy(w)' <=> x + 1 < e
      /\ Busy(w)' => worker'[w].piece = x + 1 /\ worker'[w].end = e
    BY <1>1, <1>4 DEF Busy
<1>8. \A v \in Workers : v # w => /\ Busy(v)' <=> Busy(v)
                                  /\ worker'[v] = worker[v]
    BY <1>3 DEF Busy
<1>9. ChunksOK'
    <2>1. \A v \in Workers :
              Busy(v)' => worker'[v].piece < worker'[v].end /\ worker'[v].end <= search'.next
        <3> SUFFICES ASSUME NEW v \in Workers, Busy(v)'
                     PROVE  worker'[v].piece < worker'[v].end /\ worker'[v].end <= search'.next
            OBVIOUS
        <3>1. CASE v = w
            BY <1>1, <1>7, <3>1
        <3>2. CASE v # w
            BY <1>8, <3>2 DEF ChunksOK
        <3>3. QED
            BY <3>1, <3>2
    <2>2. \A u, v \in Workers : u # v /\ Busy(u)' /\ Busy(v)' =>
              worker'[u].end <= worker'[v].piece \/ worker'[v].end <= worker'[u].piece
        <3> SUFFICES ASSUME NEW u \in Workers, NEW v \in Workers, u # v, Busy(u)', Busy(v)'
                     PROVE  \/ worker'[u].end <= worker'[v].piece
                            \/ worker'[v].end <= worker'[u].piece
            OBVIOUS
        <3>1. CASE u = w
            <4>1. /\ Busy(v) /\ worker'[v] = worker[v]
                  /\ worker[v].piece \in Nat /\ worker[v].end \in Nat
                  /\ worker[v].piece < worker[v].end
                BY <1>0, <1>8, <3>1 DEF WorkerType, ChunksOK
            <4>2. e <= worker[v].piece \/ worker[v].end <= x
                BY <3>1, <4>1 DEF ChunksOK
            <4>3. QED
                BY <1>1, <1>7, <3>1, <4>1, <4>2
        <3>2. CASE v = w
            <4>1. /\ Busy(u) /\ worker'[u] = worker[u]
                  /\ worker[u].piece \in Nat /\ worker[u].end \in Nat
                  /\ worker[u].piece < worker[u].end
                BY <1>0, <1>8, <3>2 DEF WorkerType, ChunksOK
            <4>2. e <= worker[u].piece \/ worker[u].end <= x
                BY <3>2, <4>1 DEF ChunksOK
            <4>3. QED
                BY <1>1, <1>7, <3>2, <4>1, <4>2
        <3>3. CASE u # w /\ v # w
            BY <1>8, <3>3 DEF ChunksOK
        <3>4. QED
            BY <3>1, <3>2, <3>3
    <2>3. \A v \in Workers : worker'[v].at = "done" => search'.stop \/ search'.next = cycle'.n
        BY <1>3, <1>5 DEF ChunksOK
    <2>4. QED
        BY <2>1, <2>2, <2>3 DEF ChunksOK
<1>10. \A i \in 0 .. search.next - 1 : Busy(w)' => (i \in Ahead(w)' <=> i \in x + 1 .. e - 1)
    BY <1>7 DEF Ahead
<1>11. Finished' = Finished \cup {x}
    <2>1. \A i \in 0 .. search.next - 1 : i \in Finished' <=> i \in Finished \/ i = x
        <3> TAKE i \in 0 .. search.next - 1
        <3>1. i \in Finished' <=> \A v \in Workers : Busy(v)' => i \notin Ahead(v)'
            BY DEF Finished
        <3>2. i \in Finished <=> \A v \in Workers : Busy(v) => i \notin Ahead(v)
            BY DEF Finished
        <3>3. \A v \in Workers : v # w =>
                  ((Busy(v)' => i \notin Ahead(v)') <=> (Busy(v) => i \notin Ahead(v)))
            BY <1>8 DEF Ahead
        <3>4. (Busy(w)' => i \notin Ahead(w)') <=> i = x \/ i \notin Ahead(w)
            BY <1>1, <1>7, <1>10 DEF Ahead
        <3>5. \A v \in Workers : v # w /\ Busy(v) => x \notin Ahead(v)
            <4> SUFFICES ASSUME NEW v \in Workers, v # w, Busy(v) PROVE x \notin Ahead(v)
                OBVIOUS
            <4>1. worker[v].piece \in Nat /\ worker[v].end \in Nat
                BY <1>0 DEF WorkerType
            <4>2. worker[w].end <= worker[v].piece \/ worker[v].end <= worker[w].piece
                BY DEF ChunksOK
            <4>3. QED
                BY <1>1, <4>1, <4>2 DEF Ahead
        <3>6. QED
            BY <3>1, <3>2, <3>3, <3>4, <3>5
    <2>2. x \in 0 .. search.next - 1
        BY <1>0, <1>1
    <2>3. Finished' \subseteq 0 .. search.next - 1 /\ Finished \subseteq 0 .. search.next - 1
        BY DEF Finished
    <2>4. QED
        BY <2>1, <2>2, <2>3
<1>12. QED
    BY <1>3, <1>5, <1>6, <1>9, <1>11

\* What else of the search a step may leave alone: the workers that found a node.
LEMMA SameFound ==
    ASSUME CycleOK, step = "filter", SearchInv,
           worker' \in [Workers -> WorkerType],
           \A v \in Workers : /\ Found(v)' <=> Found(v)
                              /\ Found(v) => worker'[v] = worker[v],
           search' = [search EXCEPT !.next = search'.next], search'.next \in 0 .. cycle.n,
           Finished \subseteq Finished', search.stop \/ Finished' = Finished,
           ChunksOK', UNCHANGED <<OutsideSearch, fitting, erring>>
    PROVE  SearchInv'
<1>0. /\ search' \in [next : 0 .. cycle.n, len : Nat,
                      slots : [1 .. cycle.wanted -> Nodes \cup {None}],
                      stop : BOOLEAN, err : BOOLEAN, statuses : SUBSET Nodes]
      /\ search'.len = search.len /\ search'.slots = search.slots /\ search'.stop = search.stop
      /\ search'.err = search.err /\ search'.statuses = search.statuses
      /\ cycle' = cycle /\ nextStartNodeIndex' = nextStartNodeIndex
      /\ fitting' = fitting /\ erring' = erring /\ feasible' = feasible /\ refused' = refused
    BY DEF SearchInv, SearchTypeOK, OutsideSearch
<1>1. SearchTypeOK'
    BY <1>0 DEF SearchInv, SearchTypeOK, WorkerType, Nodes
<1>2. Over' = Over
    BY <1>0 DEF Over
<1>3. CounterOK'
    BY <1>0, <1>2 DEF SearchInv, CounterOK
<1>4. \A k : (\E v \in Workers : Found(v)' /\ worker'[v].length = k)
              <=> (\E v \in Workers : Found(v) /\ worker[v].length = k)
    OBVIOUS
<1>5. SlotsOK'
    <2>1. \A k \in 1 .. cycle.wanted :
              search.slots[k] # None \/ (\E w \in Workers : Found(w)' /\ worker'[w].length = k)
                  <=> k <= search.len
        BY <1>4 DEF SearchInv, SlotsOK
    <2>2. \A w \in Workers : Found(w)' /\ worker'[w].length <= cycle.wanted =>
              /\ worker'[w].length \in 1 .. cycle.wanted
              /\ search.slots[worker'[w].length] = None
              /\ \A v \in Workers : Found(v)' /\ worker'[v].length = worker'[w].length => v = w
        BY DEF SearchInv, SlotsOK
    <2>3. QED
        BY <1>0, <2>1, <2>2 DEF SlotsOK
<1>6. \A i : NodeAt(i)' = NodeAt(i)
    BY <1>0 DEF NodeAt
<1>7. \A v \in Workers : Found(v) => NodeOf(v)' = NodeOf(v)
    BY <1>0 DEF NodeOf
<1>8. PlacedOK'
    <2>1. \A k \in 1 .. cycle.wanted : search.slots[k] # None =>
              /\ search.slots[k] \in fitting
              /\ \E i \in Finished' : search.slots[k] = NodeAt(i)'
        BY <1>6 DEF SearchInv, PlacedOK
    <2>2. \A j, k \in 1 .. cycle.wanted :
              search.slots[j] = search.slots[k] /\ search.slots[k] # None => j = k
        BY DEF SearchInv, PlacedOK
    <2>3. QED
        BY <1>0, <2>1, <2>2 DEF PlacedOK
<1>9. ExaminedOK'
    <2>1. \A x \in search.statuses : x \notin fitting /\ \E i \in Finished' : x = NodeAt(i)'
        BY <1>6 DEF SearchInv, ExaminedOK
    <2>2. \A x \in fitting : \/ \E i \in Finished' : x = NodeAt(i)'
                             \/ \E w \in Workers : Found(w)' /\ x = NodeOf(w)'
        BY <1>6, <1>7 DEF SearchInv, ExaminedOK
    <2>3. \A w \in Workers : Found(w)' => NodeOf(w)' \in fitting
        BY <1>7 DEF SearchInv, ExaminedOK
    <2>4. ~ search.stop => \A i \in Finished' :
              \/ NodeAt(i)' \in search.statuses
              \/ \E k \in 1 .. cycle.wanted : search.slots[k] = NodeAt(i)'
        BY <1>6 DEF SearchInv, ExaminedOK
    <2>5. QED
        BY <1>0, <2>1, <2>2, <2>3, <2>4 DEF ExaminedOK
<1>10. StopOK'
    BY <1>0 DEF SearchInv, StopOK
<1>11. QED
    BY <1>1, <1>3, <1>5, <1>8, <1>9, <1>10 DEF SearchInv

\* A worker that takes a chunk opens positions nobody took before.
LEMMA TakeChunkInv ==
    ASSUME CycleOK, SearchInv, NEW w \in Workers, TakeChunk(w)
    PROVE  SearchInv'
<1> DEFINE n == cycle.n
           end == Min({search.next + chunkSizeFor(cycle.n), cycle.n})
<1>0. /\ step = "filter" /\ worker[w].at = "ready"
      /\ UNCHANGED <<OutsideSearch, fitting, erring>> /\ cycle' = cycle
      /\ nextStartNodeIndex' = nextStartNodeIndex
      /\ worker \in [Workers -> WorkerType] /\ n \in Nat \ {0} /\ search.next \in 0 .. n
      /\ search \in [next : 0 .. cycle.n, len : Nat,
                      slots : [1 .. cycle.wanted -> Nodes \cup {None}],
                      stop : BOOLEAN, err : BOOLEAN, statuses : SUBSET Nodes]
    BY DEF TakeChunk, OutsideSearch, SearchInv, SearchTypeOK, WorkerType, CycleOK
<1>1. ChunksOK
    BY DEF SearchInv
<1>2. CASE search.next < n
    <2> DEFINE chunk == [at |-> "piece", piece |-> search.next, end |-> end, length |-> 0]
    <2>1. end \in Nat /\ search.next < end /\ end <= n
        <3>1. chunkSizeFor(n) \in Nat \ {0}
            BY <1>0, ChunkPositive
        <3> DEFINE m == search.next + chunkSizeFor(n)
        <3>2. m \in Int /\ n \in Int /\ search.next < m
            BY <1>0, <3>1
        <3>3. end = IF m <= n THEN m ELSE n
            BY <3>2, MinOfTwo
        <3> HIDE DEF end, m
        <3>4. QED
            BY <1>0, <1>2, <3>2, <3>3
    <2>2. worker' = [worker EXCEPT ![w] = chunk] /\ search' = [search EXCEPT !.next = end]
        BY <1>2 DEF TakeChunk, Idle
    <2> HIDE DEF end
    <2>3. /\ worker' \in [Workers -> WorkerType] /\ worker'[w] = chunk
          /\ \A v \in Workers : v # w => worker'[v] = worker[v]
          /\ search'.next = end /\ search'.stop = search.stop
          /\ search' = [search EXCEPT !.next = search'.next]
        BY <1>0, <2>1, <2>2 DEF WorkerType
    <2>4. ~ Busy(w) /\ Busy(w)' /\ ~ Found(w) /\ ~ Found(w)'
        BY <1>0, <2>3 DEF Busy, Found
    <2>5. \A v \in Workers : v # w => /\ Busy(v)' <=> Busy(v)
                                      /\ Found(v)' <=> Found(v)
                                      /\ Ahead(v)' = Ahead(v)
        BY <2>3 DEF Busy, Found, Ahead
    <2>6. Ahead(w)' = search.next .. end - 1
        BY <2>3 DEF Ahead
    <2>7. \A v \in Workers : Busy(v) =>
              /\ worker[v].piece \in Nat /\ worker[v].end \in Nat
              /\ worker[v].piece < worker[v].end /\ worker[v].end <= search.next
        BY <1>0, <1>1 DEF ChunksOK, WorkerType
    <2>8. Finished' = Finished
        <3>1. Finished' = {i \in 0 .. end - 1 : \A v \in Workers : Busy(v)' => i \notin Ahead(v)'}
            BY <2>3 DEF Finished
        <3>2. \A i \in Finished' : i \in 0 .. end - 1 /\ i \notin Ahead(w)'
            BY <2>4, <3>1
        <3>3. \A i \in Finished' : i \in 0 .. search.next - 1
            BY <1>0, <2>1, <2>6, <3>2
        <3>4. \A i \in Finished' : \A v \in Workers : Busy(v) => i \notin Ahead(v)
            BY <2>4, <2>5, <3>1
        <3>5. Finished' \subseteq Finished
            BY <3>3, <3>4 DEF Finished
        <3>6. \A i \in Finished : /\ i \in 0 .. end - 1 /\ i \notin Ahead(w)'
                                  /\ \A v \in Workers : Busy(v) => i \notin Ahead(v)
            BY <1>0, <2>1, <2>6 DEF Finished
        <3>7. Finished \subseteq Finished'
            BY <2>5, <3>1, <3>6
        <3>8. QED
            BY <3>5, <3>7
    <2>9. ChunksOK'
        <3>1. \A v \in Workers :
                  Busy(v)' => worker'[v].piece < worker'[v].end /\ worker'[v].end <= search'.next
            <4> SUFFICES ASSUME NEW v \in Workers, Busy(v)'
                         PROVE  worker'[v].piece < worker'[v].end /\ worker'[v].end <= search'.next
                OBVIOUS
            <4>1. CASE v = w
                BY <2>1, <2>3, <4>1
            <4>2. CASE v # w
                <5>1. Busy(v) /\ worker'[v] = worker[v]
                    BY <2>3, <2>5, <4>2
                <5>2. QED
                    BY <1>0, <2>1, <2>3, <2>7, <5>1
            <4>3. QED
                BY <4>1, <4>2
        <3>2. \A u, v \in Workers : u # v /\ Busy(u)' /\ Busy(v)' =>
                  worker'[u].end <= worker'[v].piece \/ worker'[v].end <= worker'[u].piece
            <4> SUFFICES ASSUME NEW u \in Workers, NEW v \in Workers, u # v, Busy(u)', Busy(v)'
                         PROVE  \/ worker'[u].end <= worker'[v].piece
                                \/ worker'[v].end <= worker'[u].piece
                OBVIOUS
            <4>1. CASE u = w
                BY <2>3, <2>5, <2>7, <4>1
            <4>2. CASE v = w
                BY <2>3, <2>5, <2>7, <4>2
            <4>3. CASE u # w /\ v # w
                BY <1>1, <2>3, <2>5, <4>3 DEF ChunksOK
            <4>4. QED
                BY <4>1, <4>2, <4>3
        <3>3. \A v \in Workers : worker'[v].at = "done" => search'.stop \/ search'.next = cycle'.n
            <4> SUFFICES ASSUME NEW v \in Workers, worker'[v].at = "done"
                         PROVE  search'.stop
                OBVIOUS
            <4>1. v # w
                BY <2>3
            <4>2. QED
                BY <1>0, <1>1, <1>2, <2>3, <4>1 DEF ChunksOK
        <3>4. QED
            BY <3>1, <3>2, <3>3 DEF ChunksOK
    <2>10. search'.next \in 0 .. cycle.n
        BY <1>0, <2>1, <2>3
    <2>11. \A v \in Workers : /\ Found(v)' <=> Found(v)
                              /\ Found(v) => worker'[v] = worker[v]
        BY <2>3, <2>4, <2>5
    <2>12. QED
        BY <1>0, <2>3, <2>8, <2>9, <2>10, <2>11, SameFound
<1>3. CASE ~ (search.next < n)
    <2>1. worker' = [worker EXCEPT ![w] = Idle] /\ search' = search
        BY <1>3 DEF TakeChunk
    <2>2. /\ worker' \in [Workers -> WorkerType] /\ worker'[w] = Idle
          /\ \A v \in Workers : v # w => worker'[v] = worker[v]
          /\ search' = [search EXCEPT !.next = search'.next]
        BY <1>0, <2>1 DEF WorkerType, Idle
    <2>3. \A v \in Workers : /\ Busy(v)' <=> Busy(v)
                             /\ Found(v)' <=> Found(v)
                             /\ Busy(v) => Ahead(v)' = Ahead(v) /\ worker'[v] = worker[v]
        BY <1>0, <2>2 DEF Busy, Found, Ahead, Idle
    <2>4. Finished' = Finished
        BY <2>1, <2>3 DEF Finished
    <2>5. ChunksOK'
        <3>1. search.next = cycle.n
            BY <1>0, <1>3
        <3>2. QED
            BY <1>0, <1>1, <2>1, <2>3, <3>1 DEF ChunksOK
    <2>6. \A v \in Workers : Found(v) => Busy(v)
        BY DEF Found, Busy
    <2>7. QED
        BY <1>0, <2>1, <2>2, <2>3, <2>4, <2>5, <2>6, SameFound
<1>4. QED
    BY <1>2, <1>3

\* A worker that sees the stop request leaves the rest of its chunk.
LEMMA CheckStopInv ==
    ASSUME CycleOK, SearchInv, NEW w \in Workers, CheckStop(w)
    PROVE  SearchInv'
<1>0. /\ step = "filter" /\ worker[w].at = "piece" /\ search' = search
      /\ UNCHANGED <<OutsideSearch, fitting, erring>> /\ cycle' = cycle
      /\ worker \in [Workers -> WorkerType] /\ search.next \in 0 .. cycle.n
      /\ search' = [search EXCEPT !.next = search'.next]
    BY DEF CheckStop, OutsideSearch, SearchInv, SearchTypeOK, WorkerType
<1>1. ChunksOK
    BY DEF SearchInv
<1>2. CASE search.stop
    <2>1. worker' = [worker EXCEPT ![w] = Idle]
        BY <1>2 DEF CheckStop
    <2>2. /\ worker' \in [Workers -> WorkerType] /\ worker'[w] = Idle
          /\ \A v \in Workers : v # w => worker'[v] = worker[v]
        BY <1>0, <2>1 DEF WorkerType, Idle
    <2>3. \A v \in Workers : /\ Busy(v)' => Busy(v) /\ Ahead(v)' = Ahead(v)
                             /\ Busy(v)' => worker'[v] = worker[v]
                             /\ Found(v)' <=> Found(v)
                             /\ Found(v) => worker'[v] = worker[v]
        BY <1>0, <2>2 DEF Busy, Found, Ahead, Idle
    <2>4. Finished \subseteq Finished'
        BY <1>0, <2>3 DEF Finished
    <2>5. ChunksOK'
        BY <1>0, <1>1, <1>2, <2>3 DEF ChunksOK
    <2>6. QED
        BY <1>0, <1>2, <2>2, <2>3, <2>4, <2>5, SameFound
<1>3. CASE ~ search.stop
    <2>1. worker' = [worker EXCEPT ![w] = [@ EXCEPT !.at = "checkNode"]]
        BY <1>3 DEF CheckStop
    <2>2. /\ worker' \in [Workers -> WorkerType]
          /\ worker'[w] = [worker[w] EXCEPT !.at = "checkNode"]
          /\ \A v \in Workers : v # w => worker'[v] = worker[v]
        BY <1>0, <2>1 DEF WorkerType
    <2>3. /\ worker'[w].at = "checkNode" /\ worker'[w].piece = worker[w].piece
          /\ worker'[w].end = worker[w].end
        BY <1>0, <2>2 DEF WorkerType
    <2>4. \A v \in Workers : /\ Busy(v)' <=> Busy(v)
                             /\ Ahead(v)' = Ahead(v)
                             /\ worker'[v].piece = worker[v].piece
                             /\ worker'[v].end = worker[v].end
                             /\ worker'[v].at = "done" <=> worker[v].at = "done"
                             /\ Found(v)' <=> Found(v)
                             /\ Found(v) => worker'[v] = worker[v]
        BY <1>0, <2>2, <2>3 DEF Busy, Found, Ahead
    <2>5. Finished' = Finished
        BY <1>0, <2>4 DEF Finished
    <2>6. ChunksOK'
        BY <1>0, <1>1, <2>4 DEF ChunksOK
    <2>7. QED
        BY <1>0, <2>2, <2>4, <2>5, <2>6, SameFound
<1>4. QED
    BY <1>2, <1>3

\* A finite number of workers is over the limit.
LEMMA OverFinite == IsFiniteSet(Over) /\ Cardinality(Over) \in Nat /\ (Cardinality(Over) = 0 <=> Over = {})
<1>1. Over \in SUBSET Workers
    BY DEF Over
<1>2. IsFiniteSet(Over)
    BY <1>1, NumbersAssumption, FS_Subset
<1>3. QED
    BY <1>2, FS_CardinalityType, FS_EmptySet

\* A feasible node is counted, and its worker is the only one with that count:
\* the atomic increment hands out every slot once.
LEMMA CountNodeInv ==
    ASSUME CycleOK, SearchInv, step = "filter", NEW w \in Workers, worker[w].at = "checkNode",
           search' = [search EXCEPT !.len = @ + 1],
           worker' = [worker EXCEPT ![w].at = "found", ![w].length = search.len + 1],
           fitting' = fitting \cup {NodeOf(w)}, erring' = erring, UNCHANGED OutsideSearch
    PROVE  SearchInv'
<1> DEFINE k0 == search.len + 1
           x == worker[w].piece
<1>0. /\ cycle' = cycle /\ nextStartNodeIndex' = nextStartNodeIndex
      /\ feasible' = feasible /\ refused' = refused
      /\ worker \in [Workers -> WorkerType] /\ cycle.n \in Nat \ {0}
      /\ cycle.wanted \in 1 .. cycle.n
      /\ search \in [next : 0 .. cycle.n, len : Nat,
                      slots : [1 .. cycle.wanted -> Nodes \cup {None}],
                      stop : BOOLEAN, err : BOOLEAN, statuses : SUBSET Nodes]
    BY DEF OutsideSearch, SearchInv, SearchTypeOK, WorkerType, CycleOK
<1>1. /\ search'.len = k0 /\ search'.slots = search.slots /\ search'.stop = search.stop
      /\ search'.err = search.err /\ search'.statuses = search.statuses
      /\ search'.next = search.next /\ k0 \in Nat
      /\ search' \in [next : 0 .. cycle.n, len : Nat,
                      slots : [1 .. cycle.wanted -> Nodes \cup {None}],
                      stop : BOOLEAN, err : BOOLEAN, statuses : SUBSET Nodes]
    <2>1. k0 \in Nat /\ search' = [search EXCEPT !.len = k0]
        BY <1>0
    <2> HIDE DEF k0
    <2>2. QED
        BY <1>0, <2>1
<1>2. /\ worker' \in [Workers -> WorkerType]
      /\ worker'[w] = [at |-> "found", piece |-> x, end |-> worker[w].end, length |-> k0]
      /\ \A v \in Workers : v # w => worker'[v] = worker[v]
    <2> HIDE DEF k0
    <2>1. worker[w] \in WorkerType /\ k0 \in Nat
        BY <1>0, <1>1
    <2>2. worker' = [worker EXCEPT ![w].at = "found", ![w].length = k0]
        BY DEF k0
    <2>3. worker'[w] = [at |-> "found", piece |-> x, end |-> worker[w].end, length |-> k0]
        BY <1>0, <2>1, <2>2 DEF WorkerType
    <2>4. worker'[w] \in WorkerType
        BY <2>1, <2>3 DEF WorkerType
    <2>5. QED
        BY <1>0, <2>2, <2>3, <2>4
<1>3. \A v \in Workers : /\ Busy(v)' <=> Busy(v)
                         /\ worker'[v].piece = worker[v].piece
                         /\ worker'[v].end = worker[v].end
                         /\ worker'[v].at = "done" <=> worker[v].at = "done"
                         /\ Ahead(v)' = Ahead(v)
                         /\ NodeOf(v)' = NodeOf(v)
    BY <1>0, <1>2 DEF Busy, Ahead, NodeOf
<1>4. /\ Found(w)' /\ ~ Found(w) /\ Busy(w)
      /\ \A v \in Workers : v # w => (Found(v)' <=> Found(v)) /\ worker'[v] = worker[v]
    BY <1>2 DEF Found, Busy
<1>5. Finished' = Finished
    BY <1>1, <1>3 DEF Finished
<1>6. \A i : NodeAt(i)' = NodeAt(i)
    BY <1>0 DEF NodeAt
<1>7. NodeOf(w) \in Nodes /\ NodeOf(w) = NodeAt(x) /\ x \in 0 .. cycle.n - 1
    BY <1>0, <1>4, Positions, PieceOpen, NodeOfPosition DEF SearchInv, WorkerType
<1>8. SearchTypeOK'
    BY <1>0, <1>1, <1>2, <1>7 DEF SearchInv, SearchTypeOK, WorkerType, Nodes
<1>9. ChunksOK'
    BY <1>0, <1>1, <1>3 DEF SearchInv, ChunksOK
<1>10. CounterOK'
    <2>1. IsFiniteSet(Over) /\ Cardinality(Over) \in Nat
        BY OverFinite
    <2>2. w \notin Over
        BY <1>4 DEF Over
    <2>3. CASE k0 > cycle.wanted
        <3>1. Over' = Over \cup {w}
            <4>1. worker'[w].length = k0
                BY <1>2
            <4>2. w \in Over'
                BY <1>0, <1>4, <2>3, <4>1 DEF Over
            <4>3. \A v \in Workers : v # w => (v \in Over' <=> v \in Over)
                BY <1>0, <1>4 DEF Over
            <4>4. QED
                BY <4>2, <4>3 DEF Over
        <3>2. Cardinality(Over') = Cardinality(Over) + 1
            BY <2>1, <2>2, <3>1, FS_AddElement
        <3>3. search.len >= cycle.wanted /\ search.len \in Nat
            BY <1>0, <2>3
        <3>4. search.len - cycle.wanted = Cardinality(Over)
            BY <3>3 DEF SearchInv, CounterOK
        <3>5. k0 - cycle.wanted = Cardinality(Over') /\ ~ (k0 < cycle.wanted)
            BY <1>0, <2>1, <3>2, <3>3, <3>4
        <3>6. QED
            BY <1>0, <1>1, <3>5 DEF CounterOK
    <2>4. CASE ~ (k0 > cycle.wanted)
        <3>1. Over' = Over
            <4>1. worker'[w].length = k0
                BY <1>2
            <4>2. w \notin Over'
                BY <1>0, <1>1, <2>4, <4>1 DEF Over
            <4>3. \A v \in Workers : v # w => (v \in Over' <=> v \in Over)
                BY <1>0, <1>4 DEF Over
            <4>4. QED
                BY <2>2, <4>2, <4>3 DEF Over
        <3>2. Over = {} /\ search.len < cycle.wanted /\ search.len \in Nat
            BY <1>0, <2>4 DEF SearchInv, CounterOK
        <3>3. Cardinality(Over') = 0
            BY <3>1, <3>2, FS_EmptySet
        <3>4. QED
            BY <1>0, <1>1, <2>4, <3>1, <3>2, <3>3 DEF CounterOK
    <2>5. QED
        BY <2>3, <2>4
<1>11. \A k : (\E v \in Workers : Found(v)' /\ worker'[v].length = k)
               <=> (k = k0 \/ \E v \in Workers : Found(v) /\ worker[v].length = k)
    BY <1>2, <1>4
<1>12. SlotsOK'
    <2>1. \A k \in 1 .. cycle.wanted :
              search.slots[k] # None \/ (\E v \in Workers : Found(v)' /\ worker'[v].length = k)
                  <=> k <= k0
        <3> TAKE k \in 1 .. cycle.wanted
        <3>1. search.slots[k] # None \/ (\E v \in Workers : Found(v) /\ worker[v].length = k)
                  <=> k <= search.len
            BY DEF SearchInv, SlotsOK
        <3>2. k <= k0 <=> (k <= search.len \/ k = k0)
            BY <1>0
        <3>3. QED
            BY <1>11, <3>1, <3>2
    <2>2. ASSUME NEW u \in Workers, Found(u)', worker'[u].length <= cycle.wanted
          PROVE  /\ worker'[u].length \in 1 .. cycle.wanted
                 /\ search.slots[worker'[u].length] = None
                 /\ \A v \in Workers : Found(v)' /\ worker'[v].length = worker'[u].length => v = u
        <3>1. CASE u = w
            <4>1. k0 \in 1 .. cycle.wanted
                BY <1>0, <1>2, <2>2, <3>1
            <4>2. ~ (k0 <= search.len)
                BY <1>0
            <4>3. /\ search.slots[k0] = None
                  /\ ~ \E v \in Workers : Found(v) /\ worker[v].length = k0
                BY <4>1, <4>2 DEF SearchInv, SlotsOK
            <4>4. QED
                BY <1>2, <1>4, <3>1, <4>1, <4>3
        <3>2. CASE u # w
            <4>1. Found(u) /\ worker'[u] = worker[u]
                BY <1>4, <2>2, <3>2
            <4>2. /\ worker[u].length \in 1 .. cycle.wanted
                  /\ search.slots[worker[u].length] = None
                  /\ \A v \in Workers : Found(v) /\ worker[v].length = worker[u].length => v = u
                BY <2>2, <4>1 DEF SearchInv, SlotsOK
            <4>3. worker[u].length <= search.len
                BY <4>1, <4>2 DEF SearchInv, SlotsOK
            <4>4. worker[u].length # k0
                BY <1>0, <4>2, <4>3
            <4>5. QED
                BY <1>2, <1>4, <4>1, <4>2, <4>4
        <3>3. QED
            BY <3>1, <3>2
    <2>3. QED
        BY <1>0, <1>1, <2>1, <2>2 DEF SlotsOK
<1>13. PlacedOK'
    <2>1. \A k \in 1 .. cycle.wanted : search.slots[k] # None =>
              /\ search.slots[k] \in fitting'
              /\ \E i \in Finished' : search.slots[k] = NodeAt(i)'
        BY <1>5, <1>6 DEF SearchInv, PlacedOK
    <2>2. \A j, k \in 1 .. cycle.wanted :
              search.slots[j] = search.slots[k] /\ search.slots[k] # None => j = k
        BY DEF SearchInv, PlacedOK
    <2>3. QED
        BY <1>0, <1>1, <2>1, <2>2 DEF PlacedOK
<1>14. ExaminedOK'
    <2>0. NodeOf(w) \notin search.statuses
        <3> SUFFICES ASSUME NodeOf(w) \in search.statuses PROVE FALSE
            OBVIOUS
        <3>1. PICK i \in Finished : NodeOf(w) = NodeAt(i)
            BY DEF SearchInv, ExaminedOK
        <3>2. x \notin Finished /\ Finished \subseteq 0 .. cycle.n - 1
            BY <1>4, PieceOpen DEF SearchInv
        <3>3. \A a, b \in 0 .. cycle.n - 1 : NodeAt(a) = NodeAt(b) => a = b
            BY Positions
        <3>4. QED
            BY <1>7, <3>1, <3>2, <3>3
    <2>1. \A y \in search.statuses : y \notin fitting' /\ \E i \in Finished' : y = NodeAt(i)'
        BY <1>5, <1>6, <2>0 DEF SearchInv, ExaminedOK
    <2>2. \A y \in fitting' : \/ \E i \in Finished' : y = NodeAt(i)'
                              \/ \E v \in Workers : Found(v)' /\ y = NodeOf(v)'
        <3> SUFFICES ASSUME NEW y \in fitting', ~ \E i \in Finished' : y = NodeAt(i)'
                     PROVE  \E v \in Workers : Found(v)' /\ y = NodeOf(v)'
            OBVIOUS
        <3>1. CASE y = NodeOf(w)
            BY <1>3, <1>4, <3>1
        <3>2. CASE y # NodeOf(w)
            <4>1. PICK v \in Workers : Found(v) /\ y = NodeOf(v)
                BY <1>5, <1>6, <3>2 DEF SearchInv, ExaminedOK
            <4>2. QED
                BY <1>3, <1>4, <4>1
        <3>3. QED
            BY <3>1, <3>2
    <2>3. \A v \in Workers : Found(v)' => NodeOf(v)' \in fitting'
        BY <1>3, <1>4 DEF SearchInv, ExaminedOK
    <2>4. ~ search.stop => \A i \in Finished' :
              \/ NodeAt(i)' \in search.statuses
              \/ \E k \in 1 .. cycle.wanted : search.slots[k] = NodeAt(i)'
        BY <1>5, <1>6 DEF SearchInv, ExaminedOK
    <2>5. QED
        BY <1>0, <1>1, <2>1, <2>2, <2>3, <2>4 DEF ExaminedOK
<1>15. StopOK'
    BY <1>0, <1>1 DEF SearchInv, StopOK
<1>16. QED
    BY <1>8, <1>9, <1>10, <1>12, <1>13, <1>14, <1>15 DEF SearchInv

\* What the other parts of the invariant need of a worker that goes on: the
\* finished positions grow by its own, and it is not one that found a node.
LEMMA GoesOn ==
    ASSUME CycleOK, SearchInv, step = "filter", NEW w \in Workers, Busy(w),
           worker' = NextPiece(w), search'.next = search.next, search.stop => search'.stop,
           UNCHANGED OutsideSearch
    PROVE  /\ worker' \in [Workers -> WorkerType] /\ ChunksOK'
           /\ Finished' = Finished \cup {worker[w].piece}
           /\ ~ Found(w)'
           /\ \A v \in Workers : v # w => /\ worker'[v] = worker[v]
                                          /\ Found(v)' <=> Found(v)
                                          /\ NodeOf(v)' = NodeOf(v)
           /\ \A i : NodeAt(i)' = NodeAt(i)
           /\ NodeOf(w) \in Nodes /\ NodeOf(w) = NodeAt(worker[w].piece)
           /\ \A i \in Finished : NodeAt(i) # NodeOf(w)
           /\ \A v \in Workers : v # w /\ Busy(v) => NodeOf(v) # NodeOf(w)
<1>0. /\ cycle' = cycle /\ nextStartNodeIndex' = nextStartNodeIndex
      /\ SearchTypeOK /\ ChunksOK /\ UNCHANGED <<nextStartNodeIndex, cycle>>
      /\ worker \in [Workers -> WorkerType]
    BY DEF OutsideSearch, SearchInv, SearchTypeOK, WorkerType
<1>1. /\ worker' \in [Workers -> WorkerType]
      /\ \A v \in Workers : v # w => worker'[v] = worker[v]
      /\ worker'[w].at \in {"piece", "ready"}
      /\ ChunksOK'
      /\ Finished' = Finished \cup {worker[w].piece}
    BY <1>0, NextPieceProperty
<1>2. ~ Found(w)' /\ \A v \in Workers : v # w => (Found(v)' <=> Found(v))
    BY <1>1 DEF Found
<1>3. \A v \in Workers : v # w => NodeOf(v)' = NodeOf(v)
    BY <1>0, <1>1 DEF NodeOf
<1>4. \A i : NodeAt(i)' = NodeAt(i)
    BY <1>0 DEF NodeAt
<1>5. /\ worker[w].piece \in 0 .. cycle.n - 1
      /\ worker[w].piece \notin Finished
      /\ Finished \subseteq 0 .. cycle.n - 1
      /\ \A v \in Workers : v # w /\ Busy(v) => worker[v].piece # worker[w].piece
    BY <1>0, PieceOpen
<1>6. /\ cycle.n \in Nat \ {0}
      /\ \A i \in Nat : NodeAt(i) \in Nodes
      /\ \A i, j \in 0 .. cycle.n - 1 : NodeAt(i) = NodeAt(j) => i = j
    BY Positions
<1>7. \A v \in Workers : NodeOf(v) = NodeAt(worker[v].piece)
    BY NodeOfPosition
<1>8. \A v \in Workers : v # w /\ Busy(v) => NodeOf(v) # NodeOf(w)
    <2> SUFFICES ASSUME NEW v \in Workers, v # w, Busy(v) PROVE NodeOf(v) # NodeOf(w)
        OBVIOUS
    <2>1. worker[v].piece \in 0 .. cycle.n - 1
        BY <1>0, PieceOpen
    <2>2. QED
        BY <1>5, <1>6, <1>7, <2>1
<1>9. NodeOf(w) \in Nodes /\ \A i \in Finished : NodeAt(i) # NodeOf(w)
    BY <1>5, <1>6, <1>7
<1>10. QED
    BY <1>1, <1>2, <1>3, <1>4, <1>7, <1>8, <1>9

\* A node that the filters refuse, or that fails, leaves the slots and the counter alone.
LEMMA RefuseNodeInv ==
    ASSUME CycleOK, SearchInv, step = "filter", NEW w \in Workers, worker[w].at = "checkNode",
           \/ /\ search' = [search EXCEPT !.statuses = @ \cup {NodeOf(w)}]
              /\ erring' = erring
           \/ /\ search' = [search EXCEPT !.err = TRUE, !.stop = TRUE]
              /\ erring' = erring \cup {NodeOf(w)},
           worker' = NextPiece(w), fitting' = fitting, UNCHANGED OutsideSearch
    PROVE  SearchInv'
<1>0. /\ cycle' = cycle /\ nextStartNodeIndex' = nextStartNodeIndex
      /\ feasible' = feasible /\ refused' = refused /\ ~ Found(w) /\ Busy(w)
      /\ worker \in [Workers -> WorkerType] /\ cycle.n \in Nat \ {0}
      /\ cycle.wanted \in 1 .. cycle.n
      /\ search \in [next : 0 .. cycle.n, len : Nat,
                      slots : [1 .. cycle.wanted -> Nodes \cup {None}],
                      stop : BOOLEAN, err : BOOLEAN, statuses : SUBSET Nodes]
    BY DEF OutsideSearch, SearchInv, SearchTypeOK, WorkerType, CycleOK, Found, Busy
<1>1. /\ search'.len = search.len /\ search'.slots = search.slots /\ search'.next = search.next
      /\ search.stop => search'.stop
      /\ search.err => search'.err
      /\ \/ /\ search'.statuses = search.statuses \cup {NodeOf(w)}
            /\ search'.stop = search.stop /\ search'.err = search.err /\ erring' = erring
         \/ /\ search'.statuses = search.statuses
            /\ search'.stop /\ search'.err /\ erring' = erring \cup {NodeOf(w)}
    BY <1>0
<1>2. /\ worker' \in [Workers -> WorkerType] /\ ChunksOK'
      /\ Finished' = Finished \cup {worker[w].piece}
      /\ ~ Found(w)'
      /\ \A v \in Workers : v # w => /\ worker'[v] = worker[v]
                                     /\ Found(v)' <=> Found(v)
                                     /\ NodeOf(v)' = NodeOf(v)
      /\ \A i : NodeAt(i)' = NodeAt(i)
      /\ NodeOf(w) \in Nodes /\ NodeOf(w) = NodeAt(worker[w].piece)
      /\ \A i \in Finished : NodeAt(i) # NodeOf(w)
      /\ \A v \in Workers : v # w /\ Busy(v) => NodeOf(v) # NodeOf(w)
    BY <1>0, <1>1, GoesOn
<1>3. \A v \in Workers : /\ Found(v)' <=> Found(v)
                         /\ Found(v) => v # w /\ worker'[v] = worker[v] /\ NodeOf(v)' = NodeOf(v)
    BY <1>0, <1>2
<1>4. SearchTypeOK'
    <2>1. search' \in [next : 0 .. cycle.n, len : Nat,
                       slots : [1 .. cycle.wanted -> Nodes \cup {None}],
                       stop : BOOLEAN, err : BOOLEAN, statuses : SUBSET Nodes]
        <3>1. CASE search' = [search EXCEPT !.statuses = @ \cup {NodeOf(w)}]
            BY <1>0, <1>2, <3>1
        <3>2. CASE search' = [search EXCEPT !.err = TRUE, !.stop = TRUE]
            BY <1>0, <3>2
        <3>3. QED
            BY <3>1, <3>2
    <2>2. QED
        BY <1>0, <1>1, <1>2, <2>1 DEF SearchInv, SearchTypeOK, WorkerType, Nodes
<1>5. Over' = Over
    BY <1>0, <1>3 DEF Over
<1>6. CounterOK'
    BY <1>0, <1>1, <1>5 DEF SearchInv, CounterOK
<1>7. SlotsOK'
    <2>1. \A k : (\E v \in Workers : Found(v)' /\ worker'[v].length = k)
                  <=> (\E v \in Workers : Found(v) /\ worker[v].length = k)
        BY <1>3
    <2>2. \A k \in 1 .. cycle.wanted :
              search.slots[k] # None \/ (\E v \in Workers : Found(v)' /\ worker'[v].length = k)
                  <=> k <= search.len
        BY <2>1 DEF SearchInv, SlotsOK
    <2>3. \A u \in Workers : Found(u)' /\ worker'[u].length <= cycle.wanted =>
              /\ worker'[u].length \in 1 .. cycle.wanted
              /\ search.slots[worker'[u].length] = None
              /\ \A v \in Workers : Found(v)' /\ worker'[v].length = worker'[u].length => v = u
        BY <1>3 DEF SearchInv, SlotsOK
    <2>4. QED
        BY <1>0, <1>1, <2>2, <2>3 DEF SlotsOK
<1>8. PlacedOK'
    <2>1. \A k \in 1 .. cycle.wanted : search.slots[k] # None =>
              /\ search.slots[k] \in fitting
              /\ \E i \in Finished' : search.slots[k] = NodeAt(i)'
        BY <1>2 DEF SearchInv, PlacedOK
    <2>2. \A j, k \in 1 .. cycle.wanted :
              search.slots[j] = search.slots[k] /\ search.slots[k] # None => j = k
        BY DEF SearchInv, PlacedOK
    <2>3. QED
        BY <1>0, <1>1, <2>1, <2>2 DEF PlacedOK
<1>9. ExaminedOK'
    <2>0. NodeOf(w) \notin fitting
        <3> SUFFICES ASSUME NodeOf(w) \in fitting PROVE FALSE
            OBVIOUS
        <3>1. \/ \E i \in Finished : NodeOf(w) = NodeAt(i)
              \/ \E v \in Workers : Found(v) /\ NodeOf(w) = NodeOf(v)
            BY DEF SearchInv, ExaminedOK
        <3>2. \A v \in Workers : Found(v) => v # w /\ Busy(v)
            BY <1>0 DEF Found, Busy
        <3>3. QED
            BY <1>2, <3>1, <3>2
    <2>1. \A y \in search'.statuses : y \notin fitting /\ \E i \in Finished' : y = NodeAt(i)'
        <3> TAKE y \in search'.statuses
        <3>1. CASE y = NodeOf(w)
            BY <1>2, <2>0, <3>1
        <3>2. CASE y # NodeOf(w)
            <4>1. y \in search.statuses
                BY <1>1, <3>2
            <4>2. QED
                BY <1>2, <4>1 DEF SearchInv, ExaminedOK
        <3>3. QED
            BY <3>1, <3>2
    <2>2. \A y \in fitting : \/ \E i \in Finished' : y = NodeAt(i)'
                             \/ \E v \in Workers : Found(v)' /\ y = NodeOf(v)'
        BY <1>2, <1>3 DEF SearchInv, ExaminedOK
    <2>3. \A v \in Workers : Found(v)' => NodeOf(v)' \in fitting
        BY <1>3 DEF SearchInv, ExaminedOK
    <2>4. ~ search'.stop => \A i \in Finished' :
              \/ NodeAt(i)' \in search'.statuses
              \/ \E k \in 1 .. cycle.wanted : search.slots[k] = NodeAt(i)'
        <3> SUFFICES ASSUME ~ search'.stop, NEW i \in Finished'
                     PROVE  \/ NodeAt(i)' \in search'.statuses
                            \/ \E k \in 1 .. cycle.wanted : search.slots[k] = NodeAt(i)'
            OBVIOUS
        <3>1. search'.statuses = search.statuses \cup {NodeOf(w)} /\ ~ search.stop
            BY <1>1
        <3>2. CASE i = worker[w].piece
            BY <1>2, <3>1, <3>2
        <3>3. CASE i # worker[w].piece
            BY <1>2, <3>1, <3>3 DEF SearchInv, ExaminedOK
        <3>4. QED
            BY <3>2, <3>3
    <2>5. QED
        BY <1>0, <1>1, <2>1, <2>2, <2>3, <2>4 DEF ExaminedOK
<1>10. StopOK'
    BY <1>0, <1>1 DEF SearchInv, StopOK
<1>11. QED
    BY <1>2, <1>4, <1>6, <1>7, <1>8, <1>9, <1>10 DEF SearchInv

\* A worker over the limit uncounts its node and stops the search.
LEMMA UncountInv ==
    ASSUME CycleOK, SearchInv, step = "filter", NEW w \in Workers, worker[w].at = "found",
           worker[w].length > cycle.wanted,
           search' = [search EXCEPT !.stop = TRUE, !.len = @ - 1],
           worker' = NextPiece(w), UNCHANGED <<OutsideSearch, fitting, erring>>
    PROVE  SearchInv'
<1> DEFINE k0 == search.len - 1
<1>0. /\ cycle' = cycle /\ nextStartNodeIndex' = nextStartNodeIndex
      /\ feasible' = feasible /\ refused' = refused /\ Found(w) /\ Busy(w)
      /\ fitting' = fitting /\ erring' = erring /\ UNCHANGED OutsideSearch
      /\ worker \in [Workers -> WorkerType] /\ cycle.n \in Nat \ {0}
      /\ cycle.wanted \in 1 .. cycle.n
      /\ search \in [next : 0 .. cycle.n, len : Nat,
                      slots : [1 .. cycle.wanted -> Nodes \cup {None}],
                      stop : BOOLEAN, err : BOOLEAN, statuses : SUBSET Nodes]
    BY DEF OutsideSearch, SearchInv, SearchTypeOK, WorkerType, CycleOK, Found, Busy
<1>1. /\ w \in Over /\ IsFiniteSet(Over) /\ Cardinality(Over) \in Nat \ {0}
      /\ search.len >= cycle.wanted /\ search.len - cycle.wanted = Cardinality(Over)
    <2>1. w \in Over
        BY <1>0 DEF Over
    <2>2. IsFiniteSet(Over) /\ Cardinality(Over) \in Nat \ {0}
        BY <2>1, OverFinite
    <2>3. search.len >= cycle.wanted
        BY <1>0, <2>1 DEF SearchInv, CounterOK
    <2>4. QED
        BY <2>1, <2>2, <2>3 DEF SearchInv, CounterOK
<1>2. k0 \in Nat /\ k0 >= cycle.wanted
    BY <1>0, <1>1
<1>3. /\ search'.len = k0 /\ search'.slots = search.slots /\ search'.next = search.next
      /\ search'.stop /\ search'.err = search.err /\ search'.statuses = search.statuses
      /\ search' \in [next : 0 .. cycle.n, len : Nat,
                      slots : [1 .. cycle.wanted -> Nodes \cup {None}],
                      stop : BOOLEAN, err : BOOLEAN, statuses : SUBSET Nodes]
    <2>1. search' = [search EXCEPT !.stop = TRUE, !.len = k0]
        OBVIOUS
    <2> HIDE DEF k0
    <2>2. QED
        BY <1>0, <1>2, <2>1
<1>4. /\ worker' \in [Workers -> WorkerType] /\ ChunksOK'
      /\ Finished' = Finished \cup {worker[w].piece}
      /\ ~ Found(w)'
      /\ \A v \in Workers : v # w => /\ worker'[v] = worker[v]
                                     /\ Found(v)' <=> Found(v)
                                     /\ NodeOf(v)' = NodeOf(v)
      /\ \A i : NodeAt(i)' = NodeAt(i)
      /\ NodeOf(w) \in Nodes /\ NodeOf(w) = NodeAt(worker[w].piece)
      /\ \A i \in Finished : NodeAt(i) # NodeOf(w)
      /\ \A v \in Workers : v # w /\ Busy(v) => NodeOf(v) # NodeOf(w)
    BY <1>0, <1>3, GoesOn
<1>5. SearchTypeOK'
    BY <1>0, <1>3, <1>4 DEF SearchInv, SearchTypeOK, WorkerType, Nodes
<1>6. CounterOK'
    <2>1. Over' = Over \ {w}
        <3>1. w \notin Over'
            BY <1>4 DEF Over
        <3>2. \A v \in Workers : v # w => (v \in Over' <=> v \in Over)
            BY <1>0, <1>4 DEF Over
        <3>3. QED
            BY <3>1, <3>2 DEF Over
    <2>2. Cardinality(Over') = Cardinality(Over) - 1
        BY <1>1, <2>1, FS_RemoveElement
    <2>3. k0 - cycle.wanted = Cardinality(Over') /\ ~ (k0 < cycle.wanted)
        BY <1>0, <1>1, <1>2, <2>2
    <2>4. QED
        BY <1>0, <1>3, <2>3 DEF CounterOK
<1>7. SlotsOK'
    <2>1. \A k \in 1 .. cycle.wanted :
              (\E v \in Workers : Found(v)' /\ worker'[v].length = k)
                  <=> (\E v \in Workers : Found(v) /\ worker[v].length = k)
        BY <1>0, <1>4
    <2>2. \A k \in 1 .. cycle.wanted :
              search.slots[k] # None \/ (\E v \in Workers : Found(v)' /\ worker'[v].length = k)
                  <=> k <= k0
        <3> TAKE k \in 1 .. cycle.wanted
        <3>1. search.slots[k] # None \/ (\E v \in Workers : Found(v) /\ worker[v].length = k)
                  <=> k <= search.len
            BY DEF SearchInv, SlotsOK
        <3>2. k <= search.len /\ k <= k0
            BY <1>0, <1>1, <1>2
        <3>3. QED
            BY <2>1, <3>1, <3>2
    <2>3. \A u \in Workers : Found(u)' /\ worker'[u].length <= cycle.wanted =>
              /\ worker'[u].length \in 1 .. cycle.wanted
              /\ search.slots[worker'[u].length] = None
              /\ \A v \in Workers : Found(v)' /\ worker'[v].length = worker'[u].length => v = u
        BY <1>4 DEF SearchInv, SlotsOK
    <2>4. QED
        BY <1>0, <1>3, <2>2, <2>3 DEF SlotsOK
<1>8. PlacedOK'
    <2>1. \A k \in 1 .. cycle.wanted : search.slots[k] # None =>
              /\ search.slots[k] \in fitting
              /\ \E i \in Finished' : search.slots[k] = NodeAt(i)'
        BY <1>4 DEF SearchInv, PlacedOK
    <2>2. \A j, k \in 1 .. cycle.wanted :
              search.slots[j] = search.slots[k] /\ search.slots[k] # None => j = k
        BY DEF SearchInv, PlacedOK
    <2>3. QED
        BY <1>0, <1>3, <2>1, <2>2 DEF PlacedOK
<1>9. ExaminedOK'
    <2>1. \A y \in search.statuses : y \notin fitting /\ \E i \in Finished' : y = NodeAt(i)'
        BY <1>4 DEF SearchInv, ExaminedOK
    <2>2. \A y \in fitting : \/ \E i \in Finished' : y = NodeAt(i)'
                             \/ \E v \in Workers : Found(v)' /\ y = NodeOf(v)'
        <3> SUFFICES ASSUME NEW y \in fitting, ~ \E i \in Finished' : y = NodeAt(i)'
                     PROVE  \E v \in Workers : Found(v)' /\ y = NodeOf(v)'
            OBVIOUS
        <3>1. PICK v \in Workers : Found(v) /\ y = NodeOf(v)
            BY <1>4 DEF SearchInv, ExaminedOK
        <3>2. v # w
            BY <1>4, <3>1
        <3>3. QED
            BY <1>4, <3>1, <3>2
    <2>3. \A v \in Workers : Found(v)' => NodeOf(v)' \in fitting
        BY <1>4 DEF SearchInv, ExaminedOK
    <2>4. QED
        BY <1>0, <1>3, <2>1, <2>2, <2>3 DEF ExaminedOK
<1>10. StopOK'
    BY <1>0, <1>2, <1>3 DEF SearchInv, StopOK
<1>11. QED
    BY <1>4, <1>5, <1>6, <1>7, <1>8, <1>9, <1>10 DEF SearchInv

\* A worker within the limit writes its node into the slot it counted to.
LEMMA FillSlotInv ==
    ASSUME CycleOK, SearchInv, step = "filter", NEW w \in Workers, worker[w].at = "found",
           worker[w].length <= cycle.wanted,
           search' = [search EXCEPT !.slots[worker[w].length] = NodeOf(w)],
           worker' = NextPiece(w), UNCHANGED <<OutsideSearch, fitting, erring>>
    PROVE  SearchInv'
<1> DEFINE k0 == worker[w].length
<1>0. /\ cycle' = cycle /\ nextStartNodeIndex' = nextStartNodeIndex
      /\ feasible' = feasible /\ refused' = refused /\ Found(w) /\ Busy(w)
      /\ fitting' = fitting /\ erring' = erring /\ UNCHANGED OutsideSearch
      /\ worker \in [Workers -> WorkerType] /\ cycle.n \in Nat \ {0}
      /\ cycle.wanted \in 1 .. cycle.n
      /\ search \in [next : 0 .. cycle.n, len : Nat,
                      slots : [1 .. cycle.wanted -> Nodes \cup {None}],
                      stop : BOOLEAN, err : BOOLEAN, statuses : SUBSET Nodes]
    BY DEF OutsideSearch, SearchInv, SearchTypeOK, WorkerType, CycleOK, Found, Busy
<1>1. /\ k0 \in 1 .. cycle.wanted /\ search.slots[k0] = None
      /\ \A v \in Workers : Found(v) /\ worker[v].length = k0 => v = w
      /\ k0 <= search.len
    <2>1. /\ k0 \in 1 .. cycle.wanted /\ search.slots[k0] = None
          /\ \A v \in Workers : Found(v) /\ worker[v].length = k0 => v = w
        BY <1>0 DEF SearchInv, SlotsOK
    <2>2. \E v \in Workers : Found(v) /\ worker[v].length = k0
        BY <1>0
    <2> HIDE DEF k0
    <2>3. k0 <= search.len
        BY <2>1, <2>2 DEF SearchInv, SlotsOK
    <2>4. QED
        BY <2>1, <2>3
<1>2. NodeOf(w) \in Nodes /\ NodeOf(w) \in fitting /\ NodeOf(w) # None
    <2>1. NodeOf(w) \in Nodes
        <3>1. worker[w].piece \in Nat
            BY <1>0 DEF WorkerType
        <3>2. QED
            BY <3>1, Positions, NodeOfPosition
    <2>2. Nodes \subseteq Nat
        BY <1>0 DEF Nodes
    <2>3. QED
        BY <1>0, <2>1, <2>2, NoneAssumption DEF SearchInv, ExaminedOK
<1>3. /\ search'.len = search.len /\ search'.next = search.next /\ search'.stop = search.stop
      /\ search'.err = search.err /\ search'.statuses = search.statuses
      /\ search'.slots = [search.slots EXCEPT ![k0] = NodeOf(w)]
      /\ search' \in [next : 0 .. cycle.n, len : Nat,
                      slots : [1 .. cycle.wanted -> Nodes \cup {None}],
                      stop : BOOLEAN, err : BOOLEAN, statuses : SUBSET Nodes]
    <2>1. search' = [search EXCEPT !.slots = [search.slots EXCEPT ![k0] = NodeOf(w)]]
        BY <1>0
    <2>2. [search.slots EXCEPT ![k0] = NodeOf(w)] \in [1 .. cycle.wanted -> Nodes \cup {None}]
        BY <1>0, <1>2
    <2> HIDE DEF k0
    <2>3. QED
        BY <1>0, <2>1, <2>2
<1>4. /\ search'.slots[k0] = NodeOf(w)
      /\ \A k \in 1 .. cycle.wanted : k # k0 => search'.slots[k] = search.slots[k]
    <2> HIDE DEF k0
    <2> QED BY <1>0, <1>1, <1>3
<1>5. /\ worker' \in [Workers -> WorkerType] /\ ChunksOK'
      /\ Finished' = Finished \cup {worker[w].piece}
      /\ ~ Found(w)'
      /\ \A v \in Workers : v # w => /\ worker'[v] = worker[v]
                                     /\ Found(v)' <=> Found(v)
                                     /\ NodeOf(v)' = NodeOf(v)
      /\ \A i : NodeAt(i)' = NodeAt(i)
      /\ NodeOf(w) \in Nodes /\ NodeOf(w) = NodeAt(worker[w].piece)
      /\ \A i \in Finished : NodeAt(i) # NodeOf(w)
      /\ \A v \in Workers : v # w /\ Busy(v) => NodeOf(v) # NodeOf(w)
    BY <1>0, <1>3, GoesOn
<1>6. SearchTypeOK'
    BY <1>0, <1>3, <1>5 DEF SearchInv, SearchTypeOK, WorkerType, Nodes
<1>7. CounterOK'
    <2>1. Over' = Over
        <3>1. w \notin Over' /\ w \notin Over
            BY <1>0, <1>1, <1>5 DEF Over
        <3>2. \A v \in Workers : v # w => (v \in Over' <=> v \in Over)
            BY <1>0, <1>5 DEF Over
        <3>3. QED
            BY <3>1, <3>2 DEF Over
    <2>2. QED
        BY <1>0, <1>3, <2>1 DEF SearchInv, CounterOK
<1>8. SlotsOK'
    <2>1. \A k \in 1 .. cycle.wanted :
              search'.slots[k] # None \/ (\E v \in Workers : Found(v)' /\ worker'[v].length = k)
                  <=> k <= search.len
        <3> TAKE k \in 1 .. cycle.wanted
        <3>1. CASE k = k0
            BY <1>1, <1>2, <1>4, <3>1
        <3>2. CASE k # k0
            <4>1. (\E v \in Workers : Found(v)' /\ worker'[v].length = k)
                      <=> (\E v \in Workers : Found(v) /\ worker[v].length = k)
                BY <1>5, <3>2
            <4>2. search'.slots[k] = search.slots[k]
                BY <1>4, <3>2
            <4>3. QED
                BY <4>1, <4>2 DEF SearchInv, SlotsOK
        <3>3. QED
            BY <3>1, <3>2
    <2>2. ASSUME NEW u \in Workers, Found(u)', worker'[u].length <= cycle.wanted
          PROVE  /\ worker'[u].length \in 1 .. cycle.wanted
                 /\ search'.slots[worker'[u].length] = None
                 /\ \A v \in Workers : Found(v)' /\ worker'[v].length = worker'[u].length => v = u
        <3>1. u # w /\ Found(u) /\ worker'[u] = worker[u]
            BY <1>5, <2>2
        <3>2. /\ worker[u].length \in 1 .. cycle.wanted
              /\ search.slots[worker[u].length] = None
              /\ \A v \in Workers : Found(v) /\ worker[v].length = worker[u].length => v = u
            BY <2>2, <3>1 DEF SearchInv, SlotsOK
        <3>3. worker[u].length # k0
            BY <1>1, <3>1
        <3>4. search'.slots[worker[u].length] = None
            BY <1>4, <3>2, <3>3
        <3>5. \A v \in Workers : Found(v)' /\ worker'[v].length = worker[u].length => v = u
            BY <1>5, <3>2
        <3>6. QED
            BY <3>1, <3>2, <3>4, <3>5
    <2>3. QED
        BY <1>0, <1>3, <2>1, <2>2 DEF SlotsOK
<1>9. PlacedOK'
    <2>1. \A k \in 1 .. cycle.wanted : search'.slots[k] # None =>
              /\ search'.slots[k] \in fitting
              /\ \E i \in Finished' : search'.slots[k] = NodeAt(i)'
        <3> SUFFICES ASSUME NEW k \in 1 .. cycle.wanted, search'.slots[k] # None
                     PROVE  /\ search'.slots[k] \in fitting
                            /\ \E i \in Finished' : search'.slots[k] = NodeAt(i)'
            OBVIOUS
        <3>1. CASE k = k0
            BY <1>2, <1>4, <1>5, <3>1
        <3>2. CASE k # k0
            BY <1>4, <1>5, <3>2 DEF SearchInv, PlacedOK
        <3>3. QED
            BY <3>1, <3>2
    <2>2. \A k \in 1 .. cycle.wanted : search.slots[k] # NodeOf(w)
        <3> SUFFICES ASSUME NEW k \in 1 .. cycle.wanted, search.slots[k] = NodeOf(w) PROVE FALSE
            OBVIOUS
        <3>1. \E i \in Finished : NodeOf(w) = NodeAt(i)
            BY <1>2 DEF SearchInv, PlacedOK
        <3>2. QED
            BY <1>5, <3>1
    <2>3. \A j, k \in 1 .. cycle.wanted :
              search'.slots[j] = search'.slots[k] /\ search'.slots[k] # None => j = k
        <3> SUFFICES ASSUME NEW j \in 1 .. cycle.wanted, NEW k \in 1 .. cycle.wanted,
                            search'.slots[j] = search'.slots[k], search'.slots[k] # None,
                            j # k
                     PROVE  FALSE
            OBVIOUS
        <3>1. CASE j = k0
            BY <1>4, <2>2, <3>1
        <3>2. CASE k = k0
            BY <1>4, <2>2, <3>2
        <3>3. CASE j # k0 /\ k # k0
            BY <1>4, <3>3 DEF SearchInv, PlacedOK
        <3>4. QED
            BY <3>1, <3>2, <3>3
    <2>4. QED
        BY <1>0, <1>3, <2>1, <2>3 DEF PlacedOK
<1>10. ExaminedOK'
    <2>1. \A y \in search.statuses : y \notin fitting /\ \E i \in Finished' : y = NodeAt(i)'
        BY <1>5 DEF SearchInv, ExaminedOK
    <2>2. \A y \in fitting : \/ \E i \in Finished' : y = NodeAt(i)'
                             \/ \E v \in Workers : Found(v)' /\ y = NodeOf(v)'
        <3> SUFFICES ASSUME NEW y \in fitting, ~ \E i \in Finished' : y = NodeAt(i)'
                     PROVE  \E v \in Workers : Found(v)' /\ y = NodeOf(v)'
            OBVIOUS
        <3>1. PICK v \in Workers : Found(v) /\ y = NodeOf(v)
            BY <1>5 DEF SearchInv, ExaminedOK
        <3>2. v # w
            BY <1>5, <3>1
        <3>3. QED
            BY <1>5, <3>1, <3>2
    <2>3. \A v \in Workers : Found(v)' => NodeOf(v)' \in fitting
        BY <1>5 DEF SearchInv, ExaminedOK
    <2>4. ~ search.stop => \A i \in Finished' :
              \/ NodeAt(i)' \in search.statuses
              \/ \E k \in 1 .. cycle.wanted : search'.slots[k] = NodeAt(i)'
        <3> SUFFICES ASSUME ~ search.stop, NEW i \in Finished', NodeAt(i) \notin search.statuses
                     PROVE  \E k \in 1 .. cycle.wanted : search'.slots[k] = NodeAt(i)
            BY <1>5
        <3>1. CASE i = worker[w].piece
            BY <1>1, <1>4, <1>5, <3>1
        <3>2. CASE i # worker[w].piece
            <4>1. i \in Finished
                BY <1>5, <3>2
            <4>2. PICK k \in 1 .. cycle.wanted : search.slots[k] = NodeAt(i)
                BY <4>1 DEF SearchInv, ExaminedOK
            <4>3. NodeAt(i) # None
                <5>1. i \in Nat
                    BY <4>1 DEF Finished
                <5>2. NodeAt(i) \in Nodes
                    BY <5>1, Positions
                <5>3. QED
                    BY <1>0, <5>2, NoneAssumption DEF Nodes
            <4>4. k # k0
                BY <1>1, <4>2, <4>3
            <4>5. QED
                BY <1>4, <4>2, <4>4
        <3>3. QED
            BY <3>1, <3>2
    <2>5. QED
        BY <1>0, <1>3, <2>1, <2>2, <2>3, <2>4 DEF ExaminedOK
<1>11. StopOK'
    BY <1>0, <1>3 DEF SearchInv, StopOK
<1>12. QED
    BY <1>5, <1>6, <1>7, <1>8, <1>9, <1>10, <1>11 DEF SearchInv

\* Every step of a worker keeps the invariant of the search.
LEMMA SearchStep ==
    ASSUME ProfilesOK, CycleOK, SearchInv, NEW w \in Workers, Search(w)
    PROVE  SearchInv'
<1>1. CASE TakeChunk(w)
    BY <1>1, TakeChunkInv
<1>2. CASE CheckStop(w)
    BY <1>2, CheckStopInv
<1>3. CASE CheckNode(w)
    <2>0. step = "filter" /\ worker[w].at = "checkNode" /\ UNCHANGED OutsideSearch
        BY <1>3 DEF CheckNode
    <2>1. PICK outcome \in Outcomes(Profile) :
              /\ CheckNodeResult(w, outcome)
              /\ fitting' = IF outcome.fits /\ outcome.code # "Error"
                            THEN fitting \cup {NodeOf(w)} ELSE fitting
              /\ erring' = IF outcome.code = "Error" THEN erring \cup {NodeOf(w)} ELSE erring
        BY <1>3 DEF CheckNode
    <2>2. Len(Profile.enabled["filter"]) \in Nat
        <3>1. cycle.prof \in DOMAIN profiles
            BY <2>0 DEF CycleOK
        <3>2. "filter" \in Range(ExtensionPoints)
            BY DEF Range, ExtensionPoints
        <3>3. Profile.enabled["filter"] \in Seq(STRING)
            BY <3>1, <3>2 DEF ProfilesOK, Profile
        <3>4. QED
            BY <3>3
    <2>3. /\ outcome.code = "Success" \/ outcome.code = "Error" \/ IsUnschedulable(outcome.code)
          /\ outcome.code = "Success" => outcome.fits
          /\ IsUnschedulable(outcome.code) => ~ outcome.fits
        BY <2>2, OutcomeProperty
    <2>4. CASE outcome.code = "Success"
        <3>1. /\ search' = [search EXCEPT !.len = @ + 1]
              /\ worker' = [worker EXCEPT ![w].at = "found", ![w].length = search.len + 1]
            BY <2>1, <2>4 DEF CheckNodeResult, IsUnschedulable
        <3>2. fitting' = fitting \cup {NodeOf(w)} /\ erring' = erring
            BY <2>1, <2>3, <2>4
        <3>3. QED
            BY <2>0, <3>1, <3>2, CountNodeInv
    <2>5. CASE IsUnschedulable(outcome.code)
        <3>0. outcome.code # "Success" /\ outcome.code # "Error"
            BY <2>5 DEF IsUnschedulable
        <3>1. /\ search' = [search EXCEPT !.statuses = @ \cup {NodeOf(w)}]
              /\ worker' = NextPiece(w)
            BY <2>1, <2>5, <3>0 DEF CheckNodeResult
        <3>2. fitting' = fitting /\ erring' = erring
            BY <2>1, <2>3, <2>5, <3>0
        <3>3. QED
            BY <2>0, <3>1, <3>2, RefuseNodeInv
    <2>6. CASE outcome.code = "Error"
        <3>0. ~ IsUnschedulable(outcome.code) /\ outcome.code # "Success"
            BY <2>6 DEF IsUnschedulable
        <3>1. /\ search' = [search EXCEPT !.err = TRUE, !.stop = TRUE]
              /\ worker' = NextPiece(w)
            BY <2>1, <3>0 DEF CheckNodeResult
        <3>2. fitting' = fitting /\ erring' = erring \cup {NodeOf(w)}
            BY <2>1, <2>6
        <3>3. QED
            BY <2>0, <3>1, <3>2, RefuseNodeInv
    <2>7. QED
        BY <2>3, <2>4, <2>5, <2>6
<1>4. CASE PlaceNode(w)
    <2>0. /\ step = "filter" /\ worker[w].at = "found" /\ search' = Placed(w)
          /\ worker' = NextPiece(w) /\ UNCHANGED <<OutsideSearch, fitting, erring>>
        BY <1>4 DEF PlaceNode
    <2>1. CASE worker[w].length > cycle.wanted
        <3>1. search' = [search EXCEPT !.stop = TRUE, !.len = @ - 1]
            BY <2>0, <2>1 DEF Placed
        <3>2. QED
            BY <2>0, <2>1, <3>1, UncountInv
    <2>2. CASE ~ (worker[w].length > cycle.wanted)
        <3>1. search' = [search EXCEPT !.slots[worker[w].length] = NodeOf(w)]
            BY <2>0, <2>2 DEF Placed
        <3>2. worker[w].length <= cycle.wanted
            BY <2>0, <2>2 DEF SearchInv, SearchTypeOK, CycleOK
        <3>3. QED
            BY <2>0, <3>1, <3>2, FillSlotInv
    <2>3. QED
        BY <2>1, <2>2
<1>5. QED
    BY <1>1, <1>2, <1>3, <1>4 DEF Search

-----------------------------------------------------------------------------
(* The end of the search.                                                  *)

\* The nodes in the slots are as many as the slots.
LEMMA SlotsCount ==
    ASSUME NEW k \in Nat, NEW f, \A i \in 1 .. k : \A j \in 1 .. k : f[i] = f[j] => i = j
    PROVE  Cardinality({f[i] : i \in 1 .. k}) = k
<1> DEFINE S == {f[i] : i \in 1 .. k}
           g == [i \in 1 .. k |-> f[i]]
<1>1. g \in Bijection(1 .. k, S)
    <2>1. g \in [1 .. k -> S]
        OBVIOUS
    <2>2. \A i, j \in 1 .. k : g[i] = g[j] => i = j
        OBVIOUS
    <2>3. \A t \in S : \E i \in 1 .. k : g[i] = t
        OBVIOUS
    <2>4. QED
        BY <2>1, <2>2, <2>3 DEF Bijection, Injection, Surjection, IsInjective
<1>2. ExistsBijection(1 .. k, S)
    BY <1>1 DEF ExistsBijection
<1>3. QED
    BY <1>2, FS_CountingElements

\* When every worker has ended, the slots up to the counter hold a fitting node
\* each, and a search that found fewer than it wanted has examined every node.
LEMMA SearchResult ==
    ASSUME CycleOK, step = "filter", SearchInv, \A w \in Workers : worker[w].at = "done",
           ~ search.err
    PROVE  /\ search.len <= cycle.wanted
           /\ Placements \subseteq fitting
           /\ Cardinality(Placements) = search.len
           /\ search.len < cycle.wanted => /\ search.statuses = Nodes \ fitting
                                           /\ fitting \subseteq Placements
           /\ erring = {}
<1>0. /\ cycle.n \in Nat \ {0} /\ cycle.wanted \in 1 .. cycle.n /\ search.len \in Nat
      /\ search.statuses \subseteq Nodes /\ fitting \subseteq Nodes
      /\ SearchTypeOK /\ ChunksOK /\ CounterOK /\ SlotsOK /\ PlacedOK /\ ExaminedOK /\ StopOK
    BY DEF CycleOK, SearchInv, SearchTypeOK
<1>1. \A w \in Workers : ~ Found(w) /\ ~ Busy(w)
    BY DEF Found, Busy
<1>2. Over = {}
    BY <1>1 DEF Over
<1>3. search.len <= cycle.wanted
    BY <1>0, <1>2, FS_EmptySet DEF CounterOK
<1>4. \A k \in 1 .. cycle.wanted : search.slots[k] # None <=> k <= search.len
    BY <1>0, <1>1 DEF SlotsOK
<1>5. \A k \in 1 .. search.len : k \in 1 .. cycle.wanted /\ search.slots[k] # None
    BY <1>0, <1>3, <1>4
<1>6. Placements \subseteq fitting
    BY <1>0, <1>5 DEF Placements, PlacedOK
<1>7. Cardinality(Placements) = search.len
    <2>1. \A i \in 1 .. search.len : \A j \in 1 .. search.len :
              search.slots[i] = search.slots[j] => i = j
        BY <1>0, <1>5 DEF PlacedOK
    <2>2. QED
        BY <1>0, <2>1, SlotsCount DEF Placements
<1>8. ASSUME search.len < cycle.wanted
      PROVE  search.statuses = Nodes \ fitting /\ fitting \subseteq Placements
    <2>1. ~ search.stop
        BY <1>0, <1>8 DEF StopOK
    <2>2. search.next = cycle.n
        <3>1. PICK w \in Workers : TRUE
            BY NumbersAssumption
        <3>2. QED
            BY <1>0, <2>1, <3>1 DEF ChunksOK
    <2>3. Finished = 0 .. cycle.n - 1
        BY <1>1, <2>2 DEF Finished
    <2>4. \A x \in Nodes : x \in search.statuses \/ x \in Placements
        <3> SUFFICES ASSUME NEW x \in Nodes, x \notin search.statuses PROVE x \in Placements
            OBVIOUS
        <3>1. PICK i \in 0 .. cycle.n - 1 : x = NodeAt(i)
            BY Positions
        <3>2. PICK k \in 1 .. cycle.wanted : search.slots[k] = x
            BY <1>0, <2>1, <2>3, <3>1 DEF ExaminedOK
        <3>3. x # None
            BY <1>0, NoneAssumption DEF Nodes
        <3>4. k \in 1 .. search.len
            BY <1>0, <1>4, <3>2, <3>3
        <3>5. QED
            BY <3>2, <3>4 DEF Placements
    <2>5. \A x \in search.statuses : x \notin fitting
        BY <1>0 DEF ExaminedOK
    <2>6. QED
        BY <1>0, <1>6, <2>4, <2>5
<1>9. erring = {}
    BY <1>0 DEF StopOK
<1>10. QED
    BY <1>3, <1>6, <1>7, <1>8, <1>9

-----------------------------------------------------------------------------
(* The steps of scheduleOne.                                               *)

\* What reservations depend on.
LEMMA ReservationsKept ==
    ASSUME ReserveOK, UNCHANGED <<profiles, binding, reserved>>,
           step \notin {"permit", "unreserve"}, step' \notin {"permit", "unreserve"},
           step' = "idle" \/ (step # "idle" /\ cycle'.pod = cycle.pod)
    PROVE  ReserveOK'
BY DEF ReserveOK, Reservations

\* The end of a cycle leaves nothing behind.
LEMMA CycleEnds ==
    ASSUME Inv, EndCycle, profiles' = profiles, nextStartNodeIndex' \in Nat, ReserveOK'
    PROVE  Inv'
<1>1. /\ step' = "idle" /\ cycle' = NoCycle /\ search' = NoSearch /\ feasible' = {}
      /\ fitting' = {} /\ erring' = {} /\ refused' = {} /\ total' = <<>>
    BY DEF EndCycle, ForgetSearch
<1>2. ProfilesOK'
    BY DEF Inv, ProfilesOK
<1>3. CycleOK'
    BY <1>1 DEF CycleOK, NoCycle, Steps
<1>4. NothingSearched'
    BY <1>1 DEF NothingSearched, NoSearch
<1>5. SearchExact'
    BY <1>1 DEF SearchExact
<1>6. QED
    BY <1>1, <1>2, <1>3, <1>4, <1>5 DEF Inv

\* A cycle that ends without a reservation.
LEMMA CycleFails ==
    ASSUME Inv, step \notin {"permit", "unreserve"}, EndCycle,
           UNCHANGED <<profiles, binding, reserved>>, nextStartNodeIndex' \in Nat
    PROVE  Inv'
<1>1. step' = "idle"
    BY DEF EndCycle
<1>2. ReserveOK'
    BY <1>1, ReservationsKept DEF Inv
<1>3. QED
    BY <1>2, CycleEnds

\* A cycle starts with a number of nodes to find within the snapshot's.
LEMMA StartCycleInv ==
    ASSUME Inv, NEW p \in Pods, StartCycle(p)
    PROVE  Inv'
<1>1. PICK n \in NodeCounts :
          /\ n > 0
          /\ cycle' = [pod |-> p, prof |-> SchedulerName[p], n |-> n,
                       wanted |-> numFeasibleNodesToFind(n), extender |-> 1]
          /\ step' = "preFilter"
    BY DEF StartCycle
<1>2. n \in Nat \ {0} /\ numFeasibleNodesToFind(n) \in 1 .. n
    <2>1. n \in Nat \ {0}
        BY <1>1, NumbersAssumption
    <2>2. QED
        BY <2>1, WantedInRange
<1>3. /\ step = "idle" /\ binding[p].at = "pending" /\ SchedulerName[p] \in DOMAIN profiles
      /\ profiles' = profiles /\ nextStartNodeIndex' = nextStartNodeIndex
      /\ binding' = binding /\ reserved' = reserved
      /\ search' = search /\ feasible' = feasible /\ fitting' = fitting /\ erring' = erring
      /\ refused' = refused /\ total' = total
    BY DEF StartCycle, searchVars
<1>4. ProfilesOK'
    BY <1>3 DEF Inv, ProfilesOK
<1>5. CycleOK'
    <2> DEFINE k == numFeasibleNodesToFind(n)
    <2>1. k \in Nat
        BY <1>2
    <2>2. /\ cycle'.pod = p /\ cycle'.prof = SchedulerName[p] /\ cycle'.n = n
          /\ cycle'.wanted = k /\ cycle'.extender = 1
        BY <1>1
    <2>3. cycle' = [pod |-> p, prof |-> SchedulerName[p], n |-> n, wanted |-> k, extender |-> 1]
        BY <1>1
    <2>4. k \in 1 .. n
        BY <1>2
    <2> HIDE DEF k
    <2>5. cycle' \in [pod : Pods \cup {None}, prof : DOMAIN profiles \cup {None}, n : Nat,
                      wanted : Nat, extender : Nat]
        BY <1>2, <1>3, <2>1, <2>3
    <2>6. QED
        BY <1>1, <1>2, <1>3, <2>2, <2>4, <2>5 DEF Inv, CycleOK, Steps
<1>6. NothingSearched'
    BY <1>1, <1>3 DEF Inv, NothingSearched, NoSearch
<1>7. SearchExact'
    BY <1>1 DEF SearchExact
<1>8. ReserveOK'
    BY <1>1, <1>3 DEF Inv, ReserveOK, Reservations
<1>9. QED
    BY <1>1, <1>4, <1>5, <1>6, <1>7, <1>8 DEF Inv

\* The search starts with empty slots and no position taken.
LEMMA StartFiltersInv ==
    ASSUME Inv, step = "preFilter", StartFilters,
           UNCHANGED <<profiles, cycle, host, binding, reserved, refused, total>>
    PROVE  Inv'
<1>0. /\ step' = "filter" /\ cycle' = cycle /\ nextStartNodeIndex' = nextStartNodeIndex
      /\ profiles' = profiles /\ feasible' = {} /\ refused' = {} /\ fitting' = {} /\ erring' = {}
      /\ search = NoSearch
      /\ cycle.n \in Nat \ {0} /\ cycle.wanted \in 1 .. cycle.n
    BY DEF Inv, StartFilters, CycleOK, NothingSearched
<1> DEFINE empty == [i \in 1 .. cycle.wanted |-> None]
<1>1. search' = [next |-> 0, len |-> 0, slots |-> empty, stop |-> FALSE, err |-> FALSE,
                 statuses |-> {}]
    BY <1>0 DEF StartFilters, NoSearch
<1>2. /\ search'.next = 0 /\ search'.len = 0 /\ search'.slots = empty /\ ~ search'.stop
      /\ ~ search'.err /\ search'.statuses = {}
    BY <1>1
<1>3. /\ worker' \in [Workers -> WorkerType]
      /\ \A w \in Workers : worker'[w].at = "ready" /\ ~ Busy(w)' /\ ~ Found(w)'
    BY DEF StartFilters, WorkerType, Idle, Busy, Found
<1>4. SearchTypeOK'
    <2>1. empty \in [1 .. cycle.wanted -> Nodes \cup {None}]
        OBVIOUS
    <2> HIDE DEF empty
    <2>2. search' \in [next : 0 .. cycle.n, len : Nat,
                       slots : [1 .. cycle.wanted -> Nodes \cup {None}],
                       stop : BOOLEAN, err : BOOLEAN, statuses : SUBSET Nodes]
        BY <1>0, <1>1, <2>1
    <2>3. QED
        BY <1>0, <1>3, <2>2 DEF SearchTypeOK, WorkerType, Nodes
<1>5. ChunksOK'
    BY <1>0, <1>3 DEF ChunksOK
<1>6. CounterOK'
    <2>1. Over' = {}
        BY <1>3 DEF Over
    <2>2. QED
        BY <1>0, <1>2, <2>1 DEF CounterOK
<1>7. Finished' = {}
    BY <1>2 DEF Finished
<1>8. \A k \in 1 .. cycle.wanted : search'.slots[k] = None
    BY <1>2
<1>9. SlotsOK'
    BY <1>0, <1>2, <1>3, <1>8 DEF SlotsOK
<1>10. PlacedOK'
    BY <1>0, <1>8 DEF PlacedOK
<1>11. ExaminedOK'
    BY <1>0, <1>2, <1>3, <1>7 DEF ExaminedOK
<1>12. StopOK'
    BY <1>0, <1>2 DEF StopOK
<1>13. SearchInv'
    BY <1>4, <1>5, <1>6, <1>9, <1>10, <1>11, <1>12 DEF SearchInv
<1>14. ReserveOK'
    BY <1>0, ReservationsKept DEF Inv
<1>15. ProfilesOK' /\ CycleOK'
    BY <1>0 DEF Inv, ProfilesOK, CycleOK, Steps
<1>16. NothingSearched' /\ SearchExact'
    BY <1>0 DEF NothingSearched, SearchExact
<1>17. QED
    BY <1>0, <1>13, <1>14, <1>15, <1>16 DEF Inv

\* Without filters the wanted number of nodes is taken, each once.
LEMMA TakeWithoutFiltersInv ==
    ASSUME Inv, step = "preFilter", TakeWithoutFilters,
           UNCHANGED <<profiles, cycle, host, binding, reserved, refused, total>>
    PROVE  Inv'
<1> DEFINE n == cycle.n
           s == nextStartNodeIndex
           k0 == cycle.wanted
           taken == [i \in 1 .. k0 |-> (s + i - 1) % n]
<1>0. /\ step' = "extend" /\ cycle' = cycle /\ profiles' = profiles
      /\ search = NoSearch /\ refused' = {} /\ erring' = {}
      /\ fitting' = 0 .. n - 1 /\ s' = (s + k0) % n
      /\ n \in Nat \ {0} /\ k0 \in 1 .. n /\ s \in Nat /\ k0 \in Nat
    BY DEF Inv, TakeWithoutFilters, CycleOK, NothingSearched
<1>1. search' = [next |-> 0, len |-> k0, slots |-> taken, stop |-> FALSE, err |-> FALSE,
                 statuses |-> {}]
    BY <1>0 DEF TakeWithoutFilters, NoSearch
<1>2. \A i \in 1 .. k0 : taken[i] = (s + (i - 1)) % n
    BY <1>0
<1>3. \A i \in 1 .. k0 : taken[i] \in 0 .. n - 1
    <2> HIDE DEF n, s, k0, taken
    <2> TAKE i \in 1 .. k0
    <2>1. s + (i - 1) \in Nat
        BY <1>0
    <2>2. QED
        BY <1>0, <1>2, <2>1, ModBasics
<1>4. \A i \in 1 .. k0 : \A j \in 1 .. k0 : taken[i] = taken[j] => i = j
    <2> HIDE DEF n, s, k0, taken
    <2> SUFFICES ASSUME NEW i \in 1 .. k0, NEW j \in 1 .. k0, taken[i] = taken[j] PROVE i = j
        OBVIOUS
    <2> DEFINE a == i - 1
               b == j - 1
    <2>1. a \in 0 .. n - 1 /\ b \in 0 .. n - 1
        BY <1>0
    <2>2. (s + a) % n = (s + b) % n
        BY <1>2
    <2>3. a = b
        <3> HIDE DEF a, b
        <3> QED BY <1>0, <2>1, <2>2, ModInjective
    <2>4. QED
        BY <1>0, <2>3
<1>5. /\ search'.len = k0 /\ search'.slots = taken /\ search'.statuses = {}
      /\ search'.next = 0 /\ ~ search'.stop /\ ~ search'.err
    BY <1>1
<1>6. Placements' = {taken[i] : i \in 1 .. k0} /\ feasible' = Placements'
    <2>1. feasible' = Range(taken)
        BY <1>5 DEF TakeWithoutFilters
    <2>2. Range(taken) = {taken[i] : i \in 1 .. k0}
        BY DEF Range
    <2>3. Placements' = {taken[i] : i \in 1 .. k0}
        BY <1>5 DEF Placements
    <2>4. QED
        BY <2>1, <2>2, <2>3
<1>7. Cardinality(Placements') = k0
    <2>1. k0 \in Nat
        BY <1>0
    <2> HIDE DEF taken, k0
    <2>2. Cardinality({taken[i] : i \in 1 .. k0}) = k0
        BY <2>1, <1>4, SlotsCount
    <2>3. QED
        BY <1>6, <2>2
<1>8. Placements' \subseteq fitting'
    BY <1>0, <1>3, <1>6
<1>9. SearchExact'
    <2> HIDE DEF taken
    <2> QED BY <1>0, <1>5, <1>6, <1>7, <1>8 DEF SearchExact, Placements
<1>10. CandidatesOK'
    <2> HIDE DEF taken
    <2>1. search' \in [next : {search'.next}, len : {search'.len}, slots : {search'.slots},
                       stop : {search'.stop}, err : {search'.err},
                       statuses : {search'.statuses}]
        BY <1>1
    <2>2. QED
        BY <1>0, <1>5, <1>6, <1>8, <2>1 DEF CandidatesOK
<1>11. s' \in Nat
    <2> HIDE DEF taken
    <2>1. s + k0 \in Nat
        BY <1>0
    <2>2. (s + k0) % n \in Nat
        <3> HIDE DEF n, s, k0
        <3> QED BY <1>0, <2>1, ModBasics
    <2>3. QED
        BY <1>0, <2>2
<1>12. ProfilesOK' /\ CycleOK' /\ NothingSearched'
    BY <1>0, <1>11 DEF Inv, ProfilesOK, CycleOK, NothingSearched, Steps
<1>13. ReserveOK'
    BY <1>0, ReservationsKept DEF Inv
<1>14. QED
    BY <1>0, <1>9, <1>10, <1>12, <1>13 DEF Inv

\* The PreFilter plugins let the pod through.
LEMMA PreFilterInv ==
    ASSUME Inv, PreFilter
    PROVE  Inv'
<1>1. /\ step = "preFilter"
      /\ StartFilters \/ TakeWithoutFilters
      /\ UNCHANGED <<profiles, cycle, host, binding, reserved, refused, total>>
    BY DEF PreFilter
<1>2. QED
    BY <1>1, StartFiltersInv, TakeWithoutFiltersInv

\* They refuse it on every node.
LEMMA PreFilterUnschedulableInv ==
    ASSUME Inv, PreFilterUnschedulable
    PROVE  Inv'
<1>0. /\ step = "preFilter" /\ step' = "fitError" /\ cycle' = cycle /\ profiles' = profiles
      /\ nextStartNodeIndex' = nextStartNodeIndex
      /\ search = NoSearch /\ search' = [search EXCEPT !.statuses = 0 .. cycle.n - 1]
      /\ feasible' = {} /\ refused' = {} /\ erring' = {} /\ fitting' = {}
      /\ UNCHANGED <<profiles, binding, reserved>>
    BY DEF Inv, PreFilterUnschedulable, NothingSearched
<1>1. /\ search'.len = 0
      /\ search' \in [next : {search'.next}, len : {search'.len}, slots : {search'.slots},
                      stop : {search'.stop}, err : {search'.err}, statuses : {search'.statuses}]
    BY <1>0 DEF NoSearch
<1>2. Placements' = {}
    BY <1>1 DEF Placements
<1>3. CandidatesOK'
    BY <1>0, <1>1, <1>2 DEF CandidatesOK
<1>4. ProfilesOK' /\ CycleOK' /\ NothingSearched' /\ SearchExact'
    BY <1>0 DEF Inv, ProfilesOK, CycleOK, NothingSearched, SearchExact, Steps
<1>5. ReserveOK'
    BY <1>0, ReservationsKept DEF Inv
<1>6. QED
    BY <1>0, <1>3, <1>4, <1>5 DEF Inv

\* The search ends: with an error the cycle does, else its result is exact.
LEMMA SearchEndsInv ==
    ASSUME Inv, SearchEnds
    PROVE  Inv'
<1>0. /\ step = "filter" /\ \A w \in Workers : worker[w].at = "done"
      /\ profiles' = profiles /\ UNCHANGED <<profiles, binding, reserved>>
      /\ CycleOK /\ SearchInv
    BY DEF Inv, SearchEnds
<1>1. nextStartNodeIndex' \in Nat
    <2>1. /\ search.statuses \in SUBSET (0 .. cycle.n - 1) /\ cycle.n \in Nat \ {0}
          /\ search.len \in Nat /\ nextStartNodeIndex \in Nat
        BY <1>0 DEF SearchInv, SearchTypeOK, CycleOK, Nodes
    <2>2. Cardinality(search.statuses) \in Nat
        <3>1. IsFiniteSet(0 .. cycle.n - 1)
            BY <2>1, FS_Interval
        <3>2. IsFiniteSet(search.statuses)
            BY <2>1, <3>1, FS_Subset
        <3>3. QED
            BY <3>2, FS_CardinalityType
    <2> DEFINE a == nextStartNodeIndex + search.len + Cardinality(search.statuses)
    <2>3. a \in Nat
        BY <2>1, <2>2
    <2>4. a % cycle.n \in Nat
        <3> HIDE DEF a
        <3> QED BY <2>1, <2>3, ModBasics
    <2>5. QED
        BY <2>4 DEF SearchEnds
<1>2. CASE search.err
    <2>1. EndCycle
        BY <1>2 DEF SearchEnds, SearchFailed
    <2>2. QED
        BY <1>0, <1>1, <2>1, CycleFails
<1>3. CASE ~ search.err
    <2>1. /\ feasible' = Placements /\ step' = "extend" /\ cycle' = cycle
          /\ search' = search /\ fitting' = fitting /\ erring' = erring /\ refused' = refused
        BY <1>3 DEF SearchEnds, SearchFailed, Placements, searchVars
    <2>2. /\ search.len <= cycle.wanted /\ Placements \subseteq fitting
          /\ Cardinality(Placements) = search.len
          /\ search.len < cycle.wanted => /\ search.statuses = Nodes \ fitting
                                          /\ fitting \subseteq Placements
          /\ erring = {}
        BY <1>0, <1>3, SearchResult
    <2>3. refused = {} /\ search.len \in Nat
        BY <1>0 DEF SearchInv, SearchTypeOK
    <2>4. Placements' = Placements /\ Nodes' = Nodes
        BY <2>1 DEF Placements, Nodes
    <2>5. SearchExact'
        BY <2>1, <2>2, <2>4 DEF SearchExact, Placements
    <2>6. CandidatesOK'
        <3>1. search' \in [next : {search'.next}, len : {search'.len}, slots : {search'.slots},
                           stop : {search'.stop}, err : {search'.err},
                           statuses : {search'.statuses}]
            BY <1>0, <2>1 DEF SearchInv, SearchTypeOK
        <3>2. QED
            BY <2>1, <2>2, <2>3, <2>4, <3>1 DEF CandidatesOK
    <2>7. ProfilesOK' /\ CycleOK' /\ NothingSearched'
        <3>1. ProfilesOK'
            BY <1>0 DEF Inv, ProfilesOK
        <3>2. CycleOK'
            BY <1>0, <1>1, <2>1 DEF CycleOK, Steps
        <3>3. NothingSearched'
            BY <2>1 DEF NothingSearched
        <3>4. QED
            BY <3>1, <3>2, <3>3
    <2>8. ReserveOK'
        BY <1>0, <2>1, ReservationsKept DEF Inv
    <2>9. QED
        BY <2>1, <2>5, <2>6, <2>7, <2>8 DEF Inv
<1>4. QED
    BY <1>2, <1>3

\* An extender keeps some of the nodes it is asked about, and all of them when
\* it cannot be reached and that is no error.
LEMMA ExtenderFilterProperty ==
    ASSUME NEW e, NEW nodes, NEW answer \in FilterAnswers(nodes),
           ~ ExtenderFilter(e, nodes, answer).err
    PROVE  /\ ExtenderFilter(e, nodes, answer).nodes \subseteq nodes
           /\ answer.kind = "unreachable" => ExtenderFilter(e, nodes, answer).nodes = nodes
<1>1. CASE ~ e.filterVerb
    <2>1. ExtenderFilter(e, nodes, answer) = [err |-> FALSE, nodes |-> nodes]
        BY <1>1 DEF ExtenderFilter
    <2>2. QED
        BY <2>1
<1>2. CASE e.filterVerb /\ answer.kind = "unreachable"
    <2>1. ExtenderFilter(e, nodes, answer) = [err |-> TRUE, nodes |-> {}]
        BY <1>2 DEF ExtenderFilter
    <2>2. QED
        BY <2>1
<1>3. CASE e.filterVerb /\ answer.kind = "names" /\ e.nodeCacheCapable
    <2>1. ExtenderFilter(e, nodes, answer) =
              IF answer.nodes \subseteq nodes
              THEN [err |-> FALSE, nodes |-> answer.nodes]
              ELSE [err |-> TRUE, nodes |-> {}]
        BY <1>3 DEF ExtenderFilter
    <2>2. QED
        BY <1>3, <2>1
<1>4. CASE e.filterVerb /\ answer.kind = "objects"
    <2>1. ExtenderFilter(e, nodes, answer) = [err |-> FALSE, nodes |-> answer.nodes]
        BY <1>4 DEF ExtenderFilter
    <2>2. answer.nodes \subseteq nodes
        BY <1>4 DEF FilterAnswers
    <2>3. QED
        BY <1>4, <2>1, <2>2
<1>5. CASE /\ e.filterVerb /\ answer.kind \notin {"unreachable", "objects"}
           /\ ~ (answer.kind = "names" /\ e.nodeCacheCapable)
    <2>1. ExtenderFilter(e, nodes, answer) = [err |-> FALSE, nodes |-> {}]
        BY <1>5 DEF ExtenderFilter
    <2>2. QED
        BY <1>5, <2>1
<1>6. QED
    BY <1>1, <1>2, <1>3, <1>4, <1>5

\* The step to the next extender, whatever this one refused.
LEMMA PassExtenderInv ==
    ASSUME Inv, step = "extend", PassExtender, UNCHANGED <<AfterSearch, step>>,
           feasible' \subseteq feasible, refused \subseteq refused',
           refused' \cup feasible' = refused \cup feasible, refused' \cap feasible' = {},
           search' = [search EXCEPT !.statuses = search'.statuses]
    PROVE  Inv'
<1>0. /\ cycle' = [cycle EXCEPT !.extender = @ + 1] /\ step' = step /\ profiles' = profiles
      /\ nextStartNodeIndex' = nextStartNodeIndex /\ fitting' = fitting /\ erring' = erring
      /\ CandidatesOK /\ UNCHANGED <<profiles, binding, reserved>>
    BY DEF PassExtender, AfterSearch, Inv
<1>1. /\ cycle'.n = cycle.n /\ cycle'.wanted = cycle.wanted /\ cycle'.pod = cycle.pod
      /\ cycle'.prof = cycle.prof /\ cycle'.extender = cycle.extender + 1
      /\ cycle.extender \in Nat /\ cycle.extender > 0
      /\ cycle' \in [pod : Pods \cup {None}, prof : DOMAIN profiles \cup {None}, n : Nat,
                     wanted : Nat, extender : Nat]
    <2>1. /\ cycle \in [pod : Pods \cup {None}, prof : DOMAIN profiles \cup {None}, n : Nat,
                        wanted : Nat, extender : Nat]
          /\ cycle.extender \in Nat /\ cycle.extender > 0
        BY DEF Inv, CycleOK
    <2> DEFINE m == cycle.extender + 1
    <2>2. m \in Nat /\ cycle' = [cycle EXCEPT !.extender = m]
        BY <1>0, <2>1
    <2>3. m = cycle.extender + 1
        OBVIOUS
    <2> HIDE DEF m
    <2>4. QED
        BY <2>1, <2>2, <2>3
<1>2. /\ search'.len = search.len /\ search'.slots = search.slots
      /\ search' \in [next : {search'.next}, len : {search'.len}, slots : {search'.slots},
                      stop : {search'.stop}, err : {search'.err}, statuses : {search'.statuses}]
    BY <1>0 DEF CandidatesOK
<1>3. Placements' = Placements
    BY <1>2 DEF Placements
<1>4. CandidatesOK'
    BY <1>0, <1>1, <1>2, <1>3 DEF CandidatesOK
<1>5. SearchExact'
    <2>1. cycle'.extender # 1
        BY <1>1
    <2>2. QED
        BY <2>1 DEF SearchExact
<1>6. CycleOK'
    BY <1>0, <1>1 DEF Inv, CycleOK
<1>7. ProfilesOK' /\ NothingSearched'
    BY <1>0 DEF Inv, ProfilesOK, NothingSearched
<1>8. ReserveOK'
    BY <1>0, <1>1, ReservationsKept DEF Inv
<1>9. QED
    BY <1>0, <1>4, <1>5, <1>6, <1>7, <1>8 DEF Inv

\* An extender that is not interested, that fails and may, or that answers.
LEMMA ExtenderInv ==
    ASSUME Inv, SkipExtender \/ ExtenderAnswers
    PROVE  Inv'
<1>0. step = "extend" /\ CandidatesOK /\ search = [search EXCEPT !.statuses = search.statuses]
    BY DEF Inv, SkipExtender, ExtenderAnswers, Extending, CandidatesOK
<1>1. ASSUME PassExtender, UNCHANGED <<AfterSearch, step, search, feasible, host, refused, total>>
      PROVE  Inv'
    <2>1. /\ UNCHANGED <<AfterSearch, step>> /\ feasible' = feasible /\ refused' = refused
          /\ search' = [search EXCEPT !.statuses = search'.statuses]
        BY <1>0, <1>1
    <2>2. refused \cap feasible = {}
        BY <1>0 DEF CandidatesOK
    <2>3. QED
        BY <1>0, <1>1, <2>1, <2>2, PassExtenderInv
<1>2. CASE SkipExtender
    BY <1>1, <1>2 DEF SkipExtender
<1>3. CASE ExtenderAnswers
    <2>1. PICK answer \in FilterAnswers(feasible) : RunExtender(answer) \/ ExtenderFails(answer)
        BY <1>3 DEF ExtenderAnswers
    <2>2. CASE RunExtender(answer)
        <3>1. /\ feasible' \subseteq feasible
              /\ answer.kind = "unreachable" => feasible' = feasible
            BY <2>2, ExtenderFilterProperty DEF RunExtender, FilterByExtender
        <3>2. /\ refused' = IF answer.kind = "unreachable" THEN refused
                            ELSE refused \cup (feasible \ feasible')
              /\ search' = [search EXCEPT !.statuses = @ \cup (answer.failed \ feasible')]
              /\ PassExtender /\ UNCHANGED <<AfterSearch, step>>
            BY <2>2 DEF RunExtender
        <3>3. search' = [search EXCEPT !.statuses = search'.statuses]
            BY <1>0, <3>2 DEF CandidatesOK
        <3>4. refused \cap feasible = {}
            BY <1>0 DEF CandidatesOK
        <3>5. /\ refused \subseteq refused' /\ refused' \cap feasible' = {}
              /\ refused' \cup feasible' = refused \cup feasible
            BY <3>1, <3>2, <3>4
        <3>6. QED
            BY <1>0, <3>1, <3>2, <3>3, <3>5, PassExtenderInv
    <2>3. CASE ExtenderFails(answer)
        <3>1. CASE TheExtender.ignorable
            BY <1>1, <2>3, <3>1 DEF ExtenderFails
        <3>2. CASE ~ TheExtender.ignorable
            <4>1. /\ EndCycle /\ UNCHANGED <<profiles, binding, reserved>>
                  /\ nextStartNodeIndex' = nextStartNodeIndex
                BY <2>3, <3>2 DEF ExtenderFails
            <4>2. nextStartNodeIndex' \in Nat
                BY <4>1 DEF Inv, CycleOK
            <4>3. QED
                BY <1>0, <4>1, <4>2, CycleFails
        <3>3. QED
            BY <3>1, <3>2
    <2>4. QED
        BY <2>1, <2>2, <2>3
<1>4. QED
    BY <1>2, <1>3

\* The host is a candidate, whether it is the only one or has the highest score.
LEMMA ChooseHostInv ==
    ASSUME Inv, ExtendersPassed \/ PrioritizeNodes
    PROVE  Inv'
<1>0. /\ UNCHANGED <<AfterSearch, cycle, search, feasible, refused>>
      /\ step \in {"extend", "score"} /\ CandidatesOK
      /\ profiles' = profiles /\ nextStartNodeIndex' = nextStartNodeIndex /\ cycle' = cycle
      /\ UNCHANGED <<profiles, binding, reserved>> /\ search' = search
      /\ feasible' = feasible /\ refused' = refused /\ fitting' = fitting /\ erring' = erring
    BY DEF Inv, ExtendersPassed, PrioritizeNodes, AfterSearch
<1>1. /\ step' \in {"fitError", "reserve", "score"}
      /\ step' = "fitError" => feasible = {}
      /\ step' = "reserve" => host' \in feasible
    <2>1. CASE ExtendersPassed
        <3>1. CASE feasible = {}
            <4>1. Cardinality(feasible) = 0
                BY <3>1, FS_EmptySet
            <4>2. step' = "fitError"
                BY <2>1, <3>1, <4>1 DEF ExtendersPassed
            <4>3. QED
                BY <3>1, <4>2
        <3>2. CASE feasible # {} /\ Cardinality(feasible) = 1
            <4>1. step' = "reserve" /\ host' = CHOOSE n \in feasible : TRUE
                BY <2>1, <3>2 DEF ExtendersPassed
            <4>2. QED
                BY <3>2, <4>1
        <3>3. CASE feasible # {} /\ Cardinality(feasible) # 1
            <4>1. step' = "score"
                BY <2>1, <3>3 DEF ExtendersPassed
            <4>2. QED
                BY <4>1
        <3>4. QED
            BY <3>1, <3>2, <3>3
    <2>2. CASE PrioritizeNodes
        <3>1. step' = "reserve"
            BY <2>2 DEF PrioritizeNodes
        <3>2. PICK scores \in PluginScores, answers \in PriorityAnswers :
                  host' \in HostsFor(scores, answers)
            BY <2>2 DEF PrioritizeNodes
        <3>3. HostsFor(scores, answers) \subseteq feasible
            BY DEF HostsFor, selectHost
        <3>4. QED
            BY <3>1, <3>2, <3>3
    <2>3. QED
        BY <2>1, <2>2
<1>2. Placements' = Placements
    BY <1>0 DEF Placements
<1>3. CandidatesOK'
    BY <1>0, <1>1, <1>2 DEF CandidatesOK
<1>4. ProfilesOK' /\ CycleOK' /\ NothingSearched' /\ SearchExact'
    <2>1. ProfilesOK'
        BY <1>0 DEF Inv, ProfilesOK
    <2>2. CycleOK'
        BY <1>0, <1>1 DEF Inv, CycleOK, Steps
    <2>3. NothingSearched' /\ SearchExact'
        BY <1>1 DEF NothingSearched, SearchExact
    <2>4. QED
        BY <2>1, <2>2, <2>3
<1>5. ReserveOK'
    BY <1>0, <1>1, ReservationsKept DEF Inv
<1>6. QED
    BY <1>1, <1>3, <1>4, <1>5 DEF Inv

\* Reserve keeps account of the plugins it called.
LEMMA ReserveInv ==
    ASSUME Inv, Reserve
    PROVE  Inv'
<1>0. /\ step = "reserve" /\ profiles' = profiles /\ cycle' = cycle /\ binding' = binding
      /\ nextStartNodeIndex' = nextStartNodeIndex
      /\ search' = NoSearch /\ feasible' = {} /\ fitting' = {} /\ erring' = {} /\ refused' = {}
      /\ total' = <<>>
      /\ cycle.pod \in Pods /\ cycle.prof \in DOMAIN profiles
    BY DEF Inv, Reserve, ForgetSearch, CycleOK
<1> DEFINE plugins == Profile.enabled["reserve"]
<1>1. PICK results \in [1 .. Len(plugins) -> {"Success", "Error"}] :
          /\ reserved' = [reserved EXCEPT ![cycle.pod] = Reserved(results)]
          /\ step' = IF RunPlugins(results) = "Success" THEN "permit" ELSE "unreserve"
    BY DEF Reserve, Answers
<1>2. Len(plugins) \in Nat /\ DOMAIN plugins = 1 .. Len(plugins)
    <2>1. "reserve" \in Range(ExtensionPoints)
        BY DEF Range, ExtensionPoints
    <2>2. plugins \in Seq(STRING)
        BY <1>0, <2>1 DEF Inv, ProfilesOK, Profile
    <2>3. QED
        BY <2>2
<1>3. /\ RunPlugins(results) = "Success" => Reserved(results) = 1 .. Len(plugins)
      /\ Reserved(results) \subseteq Nat
    BY <1>2, RunPluginsProperty
<1>4. ReserveOK'
    <2>1. reserved \in [Pods -> SUBSET Nat] /\ ReserveOK
        BY DEF Inv, ReserveOK
    <2>2. reserved' \in [Pods -> SUBSET Nat] /\ reserved'[cycle.pod] = Reserved(results)
        BY <1>0, <1>1, <1>3, <2>1
    <2>3. \A p \in Pods : p # cycle.pod => reserved'[p] = reserved[p]
        BY <1>1, <2>1
    <2>4. step' = "permit" => reserved'[cycle.pod] = Reservations(cycle.prof)
        BY <1>1, <1>2, <1>3, <2>2 DEF Reservations, Profile
    <2>5. step' \in {"permit", "unreserve"}
        BY <1>1
    <2>6. \A prof : Reservations(prof)' = Reservations(prof)
        BY <1>0 DEF Reservations
    <2>7. binding[cycle.pod].at = "pending"
        BY <1>0, <2>1 DEF ReserveOK
    <2>8. \A p \in Pods :
             /\ binding[p].at = "pending" => cycle.pod = p \/ reserved'[p] = {}
             /\ binding[p].at \in Binds => /\ binding[p].prof \in DOMAIN profiles
                                           /\ reserved'[p] = Reservations(binding[p].prof)
        <3> TAKE p \in Pods
        <3>1. CASE p = cycle.pod
            BY <2>7, <3>1 DEF Binds
        <3>2. CASE p # cycle.pod
            BY <1>0, <2>1, <2>3, <3>2 DEF ReserveOK
        <3>3. QED
            BY <3>1, <3>2
    <2>9. QED
        BY <1>0, <2>1, <2>2, <2>4, <2>5, <2>6, <2>7, <2>8 DEF ReserveOK
<1>5. step' \in {"permit", "unreserve"}
    BY <1>1
<1>6. ProfilesOK' /\ CycleOK' /\ NothingSearched' /\ SearchExact'
    <2>1. ProfilesOK'
        BY <1>0 DEF Inv, ProfilesOK
    <2>2. CycleOK'
        BY <1>0, <1>5 DEF Inv, CycleOK, Steps
    <2>3. NothingSearched' /\ SearchExact'
        BY <1>0, <1>5 DEF NothingSearched, SearchExact, NoSearch
    <2>4. QED
        BY <2>1, <2>2, <2>3
<1>7. QED
    BY <1>4, <1>5, <1>6 DEF Inv

\* Permit hands the pod over with all its reservations, or they will be undone.
LEMMA PermitInv ==
    ASSUME Inv, Permit
    PROVE  Inv'
<1>0. /\ step = "permit" /\ profiles' = profiles /\ reserved' = reserved
      /\ nextStartNodeIndex' = nextStartNodeIndex /\ ReserveOK
      /\ cycle.pod \in Pods /\ cycle.prof \in DOMAIN profiles /\ nextStartNodeIndex' \in Nat
    BY DEF Inv, Permit, CycleOK
<1>1. \/ EndCycle /\ HandOver(cycle.pod, "waitOnPermit")
      \/ step' = "unreserve" /\ UNCHANGED <<cycle, feasible, host, refused, total, searchVars, binding>>
    BY DEF Permit
<1>2. CASE EndCycle /\ HandOver(cycle.pod, "waitOnPermit")
    <2>1. step' = "idle" /\ cycle' = NoCycle
        BY <1>2 DEF EndCycle
    <2>2. binding' = [binding EXCEPT ![cycle.pod] = [at |-> "waitOnPermit", prof |-> cycle.prof]]
        BY <1>2 DEF HandOver
    <2>3. ReserveOK'
        <3>1. /\ binding \in [Pods -> [at : {"pending", "unreserve"} \cup Binds,
                                       prof : DOMAIN profiles \cup {None}]]
              /\ reserved \in [Pods -> SUBSET Nat]
            BY <1>0 DEF ReserveOK
        <3>2. /\ binding' \in [Pods -> [at : {"pending", "unreserve"} \cup Binds,
                                        prof : DOMAIN profiles \cup {None}]]
              /\ binding'[cycle.pod] = [at |-> "waitOnPermit", prof |-> cycle.prof]
              /\ \A p \in Pods : p # cycle.pod => binding'[p] = binding[p]
            BY <1>0, <2>2, <3>1 DEF Binds
        <3>3. \A prof : Reservations(prof)' = Reservations(prof)
            BY <1>0 DEF Reservations
        <3>4. reserved[cycle.pod] = Reservations(cycle.prof)
            BY <1>0 DEF ReserveOK
        <3>5. \A p \in Pods :
                 /\ binding'[p].at = "pending" => reserved[p] = {}
                 /\ binding'[p].at \in Binds => /\ binding'[p].prof \in DOMAIN profiles
                                                /\ reserved[p] = Reservations(binding'[p].prof)
            <4> TAKE p \in Pods
            <4>1. CASE p = cycle.pod
                BY <1>0, <3>2, <3>4, <4>1
            <4>2. CASE p # cycle.pod
                BY <1>0, <3>2, <4>2 DEF ReserveOK
            <4>3. QED
                BY <4>1, <4>2
        <3>6. QED
            BY <1>0, <2>1, <3>1, <3>2, <3>3, <3>5 DEF ReserveOK
    <2>4. QED
        BY <1>0, <1>2, <2>3, CycleEnds
<1>3. CASE /\ step' = "unreserve"
           /\ UNCHANGED <<cycle, feasible, host, refused, total, searchVars, binding>>
    <2>0. /\ step' = "unreserve" /\ cycle' = cycle /\ binding' = binding /\ search' = search
          /\ feasible' = feasible /\ refused' = refused /\ total' = total /\ fitting' = fitting
          /\ erring' = erring
        BY <1>3 DEF searchVars
    <2>1. ReserveOK'
        BY <1>0, <2>0 DEF ReserveOK, Reservations
    <2>2. ProfilesOK'
        BY <1>0 DEF Inv, ProfilesOK
    <2>3. CycleOK'
        BY <1>0, <2>0 DEF Inv, CycleOK, Steps
    <2>4. NothingSearched' /\ SearchExact'
        BY <1>0, <2>0 DEF Inv, NothingSearched, SearchExact, NoSearch
    <2>5. QED
        BY <2>0, <2>1, <2>2, <2>3, <2>4 DEF Inv
<1>4. QED
    BY <1>1, <1>2, <1>3

\* Unreserve in the cycle undoes the reservations of the pod at hand.
LEMMA UnreserveInCycleInv ==
    ASSUME Inv, UnreserveInCycle
    PROVE  Inv'
<1>0. /\ step = "unreserve" /\ profiles' = profiles /\ binding' = binding /\ EndCycle
      /\ reserved' = [reserved EXCEPT ![cycle.pod] = {}] /\ ReserveOK
      /\ nextStartNodeIndex' \in Nat /\ step' = "idle" /\ cycle.pod \in Pods
    BY DEF Inv, UnreserveInCycle, Unreserve, CycleOK, EndCycle
<1>1. ReserveOK'
    <2>1. binding[cycle.pod].at = "pending" /\ reserved \in [Pods -> SUBSET Nat]
        BY <1>0 DEF ReserveOK
    <2>2. /\ reserved' \in [Pods -> SUBSET Nat] /\ reserved'[cycle.pod] = {}
          /\ \A p \in Pods : p # cycle.pod => reserved'[p] = reserved[p]
        BY <1>0, <2>1
    <2>3. \A prof : Reservations(prof)' = Reservations(prof)
        BY <1>0 DEF Reservations
    <2>4. \A p \in Pods :
             /\ binding[p].at = "pending" => reserved'[p] = {}
             /\ binding[p].at \in Binds => /\ binding[p].prof \in DOMAIN profiles
                                           /\ reserved'[p] = Reservations(binding[p].prof)
        <3> TAKE p \in Pods
        <3>1. CASE p = cycle.pod
            BY <2>1, <2>2, <3>1 DEF Binds
        <3>2. CASE p # cycle.pod
            BY <1>0, <2>2, <3>2 DEF ReserveOK
        <3>3. QED
            BY <3>1, <3>2
    <2>5. QED
        BY <1>0, <2>2, <2>3, <2>4 DEF ReserveOK
<1>2. QED
    BY <1>0, <1>1, CycleEnds

\* A binding cycle changes its own pod only, which is not the scheduling cycle's.
LEMMA BindingCycleInv ==
    ASSUME Inv, NEW p \in Pods, BindingCycle(p)
    PROVE  Inv'
<1>0. UNCHANGED OutsideBinding
    BY DEF BindingCycle, WaitOnPermit, PreBind, Bind, UnreserveInBinding
<1>1. /\ profiles' = profiles /\ nextStartNodeIndex' = nextStartNodeIndex /\ step' = step
      /\ cycle' = cycle /\ feasible' = feasible /\ host' = host /\ refused' = refused
      /\ total' = total /\ search' = search /\ worker' = worker /\ fitting' = fitting
      /\ erring' = erring
    BY <1>0 DEF OutsideBinding, searchVars
<1>2. PICK at \in {"preBind", "bind", "bound", "unreserve", "pending"} :
          /\ binding' = [binding EXCEPT ![p].at = at]
          /\ \/ /\ reserved' = reserved /\ at # "pending"
                /\ at # "unreserve" => binding[p].at \in Binds
             \/ reserved' = [reserved EXCEPT ![p] = {}] /\ at = "pending"
          /\ binding[p].at # "pending"
    <2>1. CASE WaitOnPermit(p)
        <3>1. PICK at \in {"preBind", "unreserve"} : binding' = [binding EXCEPT ![p].at = at]
            BY <2>1 DEF WaitOnPermit, BindingAt
        <3>2. QED
            BY <2>1, <3>1 DEF WaitOnPermit, Binds
    <2>2. CASE PreBind(p)
        <3>1. PICK at \in {"bind", "unreserve"} : binding' = [binding EXCEPT ![p].at = at]
            BY <2>2 DEF PreBind, BindingAt
        <3>2. QED
            BY <2>2, <3>1 DEF PreBind, Binds
    <2>3. CASE Bind(p)
        <3>1. PICK at \in {"bound", "unreserve"} : binding' = [binding EXCEPT ![p].at = at]
            BY <2>3 DEF Bind, BindingAt
        <3>2. QED
            BY <2>3, <3>1 DEF Bind, Binds
    <2>4. CASE UnreserveInBinding(p)
        BY <2>4 DEF UnreserveInBinding, Unreserve, BindingAt
    <2>5. QED
        BY <2>1, <2>2, <2>3, <2>4 DEF BindingCycle
<1>3. ReserveOK'
    <2>0. /\ ReserveOK
          /\ binding \in [Pods -> [at : {"pending", "unreserve"} \cup Binds,
                                   prof : DOMAIN profiles \cup {None}]]
          /\ reserved \in [Pods -> SUBSET Nat]
        BY DEF Inv, ReserveOK
    <2>1. /\ binding' \in [Pods -> [at : {"pending", "unreserve"} \cup Binds,
                                    prof : DOMAIN profiles \cup {None}]]
          /\ binding'[p].at = at /\ binding'[p].prof = binding[p].prof
          /\ \A q \in Pods : q # p => binding'[q] = binding[q]
        <3>1. at \in {"pending", "unreserve"} \cup Binds
            BY DEF Binds
        <3>2. QED
            BY <1>2, <2>0, <3>1
    <2>2. /\ reserved' \in [Pods -> SUBSET Nat]
          /\ \A q \in Pods : q # p => reserved'[q] = reserved[q]
          /\ at = "pending" => reserved'[p] = {}
          /\ at # "pending" => reserved'[p] = reserved[p]
        BY <1>2, <2>0
    <2>3. \A prof : Reservations(prof)' = Reservations(prof)
        BY <1>1 DEF Reservations
    <2>4. step # "idle" => cycle.pod # p /\ cycle.pod \in Pods
        BY <1>2, <2>0 DEF ReserveOK, Inv, CycleOK
    <2>5. \A q \in Pods :
             /\ binding'[q].at = "pending" =>
                    (step \in {"permit", "unreserve"} /\ cycle.pod = q) \/ reserved'[q] = {}
             /\ binding'[q].at \in Binds => /\ binding'[q].prof \in DOMAIN profiles
                                            /\ reserved'[q] = Reservations(binding'[q].prof)
        <3> TAKE q \in Pods
        <3>1. CASE q = p
            <4>1. at \in Binds => at # "unreserve" /\ at # "pending"
                BY DEF Binds
            <4>2. QED
                BY <1>2, <2>0, <2>1, <2>2, <3>1, <4>1 DEF ReserveOK
        <3>2. CASE q # p
            BY <2>0, <2>1, <2>2, <3>2 DEF ReserveOK
        <3>3. QED
            BY <3>1, <3>2
    <2>6. step # "idle" => binding'[cycle.pod].at = "pending"
        BY <2>0, <2>1, <2>4 DEF ReserveOK
    <2>7. step = "permit" => reserved'[cycle.pod] = Reservations(cycle.prof)
        BY <2>0, <2>2, <2>4 DEF ReserveOK
    <2>8. QED
        BY <1>1, <2>1, <2>2, <2>3, <2>5, <2>6, <2>7 DEF ReserveOK
<1>4. Inv' <=> /\ ProfilesOK /\ CycleOK /\ NothingSearched
               /\ step = "filter" => SearchInv
               /\ step \in {"extend", "fitError", "score", "reserve"} => CandidatesOK
               /\ SearchExact /\ ReserveOK'
    <2>1. ProfilesOK' <=> ProfilesOK
        BY <1>1 DEF ProfilesOK
    <2>2. CycleOK' <=> CycleOK
        BY <1>1 DEF CycleOK
    <2>3. NothingSearched' <=> NothingSearched
        BY <1>1 DEF NothingSearched, NoSearch
    <2>4. SearchInv' <=> SearchInv
        BY <1>1 DEF SearchInv, SearchTypeOK, ChunksOK, CounterOK, SlotsOK, PlacedOK, ExaminedOK,
                    StopOK, Over, Finished, Found, Busy, Ahead, NodeOf, NodeAt, Nodes
    <2>5. CandidatesOK' <=> CandidatesOK
        BY <1>1 DEF CandidatesOK, Placements
    <2>6. SearchExact' <=> SearchExact
        BY <1>1 DEF SearchExact, Nodes
    <2>7. QED
        BY <1>1, <2>1, <2>2, <2>3, <2>4, <2>5, <2>6 DEF Inv
<1>5. QED
    BY <1>3, <1>4 DEF Inv

-----------------------------------------------------------------------------
(* The theorems.                                                           *)

\* The scheduler starts without a cycle and without reservations.
LEMMA InitInv ==
    ASSUME Init
    PROVE  Inv
<1>1. PICK cfgs \in ConfigSets :
          profiles = [name \in {cfgs[i].name : i \in DOMAIN cfgs} |->
                         CHOOSE c \in Range(cfgs) : c.name = name]
    BY DEF Init
<1>2. ProfilesOK
    <2> SUFFICES ASSUME NEW prof \in DOMAIN profiles, NEW e \in Range(ExtensionPoints)
                 PROVE  profiles[prof].enabled[e] \in Seq(STRING)
        BY DEF ProfilesOK
    <2>1. PICK i \in DOMAIN cfgs : prof = cfgs[i].name
        BY <1>1
    <2>2. cfgs[i] \in Range(cfgs)
        BY DEF Range
    <2>3. profiles[prof] \in Range(cfgs)
        BY <1>1, <2>1, <2>2
    <2>4. PICK j \in DOMAIN cfgs : profiles[prof] = cfgs[j]
        BY <2>3 DEF Range
    <2>5. QED
        BY <2>4, ConfigAssumption
<1>3. CycleOK
    BY DEF Init, CycleOK, NoCycle, Steps
<1>4. NothingSearched /\ SearchExact
    BY DEF Init, NothingSearched, SearchExact
<1>5. ReserveOK
    BY DEF Init, ReserveOK, Binds
<1>6. QED
    BY <1>2, <1>3, <1>4, <1>5 DEF Inv, Init

\* A step that changes nothing keeps the invariant.
LEMMA StutterInv ==
    ASSUME Inv, UNCHANGED vars
    PROVE  Inv'
<1>1. /\ profiles' = profiles /\ nextStartNodeIndex' = nextStartNodeIndex /\ step' = step
      /\ cycle' = cycle /\ feasible' = feasible /\ host' = host /\ refused' = refused
      /\ total' = total /\ search' = search /\ worker' = worker /\ fitting' = fitting
      /\ erring' = erring /\ binding' = binding /\ reserved' = reserved
    BY DEF vars, searchVars
<1>2. ProfilesOK' /\ CycleOK' /\ NothingSearched' /\ SearchExact' /\ ReserveOK'
    BY <1>1 DEF Inv, ProfilesOK, CycleOK, NothingSearched, NoSearch, SearchExact, Nodes,
                ReserveOK, Reservations
<1>3. SearchInv' <=> SearchInv
    BY <1>1 DEF SearchInv, SearchTypeOK, ChunksOK, CounterOK, SlotsOK, PlacedOK, ExaminedOK,
                StopOK, Over, Finished, Found, Busy, Ahead, NodeOf, NodeAt, Nodes
<1>4. CandidatesOK' <=> CandidatesOK
    BY <1>1 DEF CandidatesOK, Placements
<1>5. QED
    BY <1>1, <1>2, <1>3, <1>4 DEF Inv

\* Every step of the scheduling loop keeps the invariant.
LEMMA ScheduleOneInv ==
    ASSUME Inv, ScheduleOne
    PROVE  Inv'
<1>0. nextStartNodeIndex \in Nat
    BY DEF Inv, CycleOK
<1>1. ASSUME NEW p \in Pods, StartCycle(p) PROVE Inv'
    BY <1>1, StartCycleInv
<1>2. ASSUME NEW p \in Pods, NoCycleStarts(p) PROVE Inv'
    BY <1>2, StutterInv DEF NoCycleStarts
<1>3. CASE PreFilter
    BY <1>3, PreFilterInv
<1>4. CASE PreFilterUnschedulable
    BY <1>4, PreFilterUnschedulableInv
<1>5. CASE PreFilterError \/ PostFilter \/ PrioritizeFails
    <2>1. /\ step \notin {"permit", "unreserve"} /\ EndCycle
          /\ UNCHANGED <<profiles, binding, reserved>>
          /\ nextStartNodeIndex' = nextStartNodeIndex
        BY <1>5 DEF PreFilterError, PostFilter, PrioritizeFails
    <2>2. QED
        BY <1>0, <2>1, CycleFails
<1>6. CASE SearchEnds
    BY <1>6, SearchEndsInv
<1>7. CASE SkipExtender \/ ExtenderAnswers
    BY <1>7, ExtenderInv
<1>8. CASE ExtendersPassed \/ PrioritizeNodes
    BY <1>8, ChooseHostInv
<1>9. CASE Reserve
    BY <1>9, ReserveInv
<1>10. CASE Permit
    BY <1>10, PermitInv
<1>11. CASE UnreserveInCycle
    BY <1>11, UnreserveInCycleInv
<1>12. QED
    BY <1>1, <1>2, <1>3, <1>4, <1>5, <1>6, <1>7, <1>8, <1>9, <1>10, <1>11 DEF ScheduleOne

\* A worker's step changes nothing outside the search.
LEMMA WorkerStepInv ==
    ASSUME Inv, NEW w \in Workers, Search(w)
    PROVE  Inv'
<1>1. step = "filter" /\ UNCHANGED OutsideSearch
    BY DEF Search, TakeChunk, CheckStop, CheckNode, PlaceNode
<1>2. /\ profiles' = profiles /\ nextStartNodeIndex' = nextStartNodeIndex /\ step' = "filter"
      /\ cycle' = cycle /\ binding' = binding /\ reserved' = reserved
    BY <1>1 DEF OutsideSearch
<1>3. SearchInv'
    BY <1>1, SearchStep DEF Inv
<1>4. ProfilesOK' /\ CycleOK' /\ NothingSearched' /\ SearchExact'
    BY <1>1, <1>2 DEF Inv, ProfilesOK, CycleOK, NothingSearched, SearchExact
<1>5. ReserveOK'
    BY <1>1, <1>2, ReservationsKept DEF Inv
<1>6. QED
    BY <1>2, <1>3, <1>4, <1>5 DEF Inv

\* The invariant of the algorithm holds in every reachable state, for every number
\* of nodes, workers and pods and every configuration.
THEOREM GenericInvariant == Spec => []Inv
<1>1. Init => Inv
    BY InitInv
<1>2. Inv /\ [Next]_vars => Inv'
    <2> SUFFICES ASSUME Inv, [Next]_vars PROVE Inv'
        OBVIOUS
    <2>1. CASE ScheduleOne
        BY <2>1, ScheduleOneInv
    <2>2. CASE \E w \in Workers : Search(w)
        BY <2>2, WorkerStepInv
    <2>3. CASE \E p \in Pods : BindingCycle(p)
        BY <2>3, BindingCycleInv
    <2>4. CASE UNCHANGED vars
        BY <2>4, StutterInv
    <2>5. QED
        BY <2>1, <2>2, <2>3, <2>4 DEF Next
<1>3. QED
    BY <1>1, <1>2, PTL DEF Spec

\* findNodesThatPassFilters is exact under every interleaving of its workers: the
\* slots below the final count hold different nodes that fit, no more than
\* wanted, and a search that found fewer has a status for every other node.
THEOREM SearchIsExact == Spec => []SearchExact
<1>1. Inv => SearchExact
    BY DEF Inv
<1>2. QED
    BY <1>1, GenericInvariant, PTL

\* No error of a node's filters is lost: the search that met one ends the cycle.
THEOREM ErrorsAreReported == Spec => []NoErrorLost
<1>1. Inv => NoErrorLost
    <2> SUFFICES ASSUME Inv, step \notin {"idle", "filter"} PROVE erring = {}
        BY DEF NoErrorLost
    <2>1. \/ step \in {"preFilter", "permit", "unreserve"}
          \/ step \in {"extend", "fitError", "score", "reserve"}
        BY DEF Inv, CycleOK, Steps
    <2>2. QED
        BY <2>1 DEF Inv, NothingSearched, CandidatesOK
<1>2. QED
    BY <1>1, GenericInvariant, PTL

\* A FitError has a reason: every node found, and every fitting node when the
\* search was not cut off, was refused by an extender.
THEOREM FitErrorsAreJustified == Spec => []NoFalseUnschedulable
<1>1. Inv => NoFalseUnschedulable
    <2> SUFFICES ASSUME Inv, step = "fitError"
                 PROVE  /\ feasible = {}
                        /\ fitting \cap Placements \subseteq refused
                        /\ search.len < cycle.wanted => fitting \subseteq refused
                        /\ refused # {} \/ search.len = 0
        BY DEF NoFalseUnschedulable, Placements
    <2>1. CandidatesOK
        BY DEF Inv
    <2>2. feasible = {} /\ Placements \subseteq refused /\ search.len \in Nat
        BY <2>1 DEF CandidatesOK
    <2>3. search.len # 0 => Placements # {}
        <3> SUFFICES ASSUME search.len # 0 PROVE search.slots[1] \in Placements
            OBVIOUS
        <3>1. 1 \in 1 .. search.len
            BY <2>2
        <3>2. QED
            BY <3>1 DEF Placements
    <2>4. QED
        BY <2>1, <2>2, <2>3 DEF CandidatesOK
<1>2. QED
    BY <1>1, GenericInvariant, PTL

\* The suggested host fits the pod with and without the nominated pods, and no
\* interested extender refused it, whatever the scores.
THEOREM HostFitsPod == Spec => []HostFits
<1>1. Inv => HostFits
    BY DEF Inv, CandidatesOK, HostFits
<1>2. QED
    BY <1>1, GenericInvariant, PTL

\* The Reserve plugins' state follows the pod through scheduling cycles, binding
\* cycles that overlap them, and every failure.
THEOREM ReservationsFollowPods == Spec => []ReservationsMatch
<1>1. Inv => ReservationsMatch
    <2> SUFFICES ASSUME Inv, NEW p \in Pods
                 PROVE  /\ binding[p].at = "pending" /\ cycle.pod # p => reserved[p] = {}
                        /\ binding[p].at \in Binds =>
                               reserved[p] = DOMAIN profiles[binding[p].prof].enabled["reserve"]
        BY DEF ReservationsMatch, Binds
    <2>1. QED
        BY DEF Inv, ReserveOK, Reservations
<1>2. QED
    BY <1>1, GenericInvariant, PTL

-----------------------------------------------------------------------------
(* Induction and sums.                                                     *)

\* Induction over finite sets.
LEMMA FiniteInduction ==
    ASSUME NEW S, IsFiniteSet(S), NEW G, {} \in G,
           \A T \in SUBSET S : \A x \in S \ T : T \in G => T \cup {x} \in G
    PROVE  S \in G
<1> SUFFICES ASSUME S \notin G PROVE FALSE
  OBVIOUS
<1> DEFINE Bad == (SUBSET S) \ G
<1>1. IsWellFoundedOn(StrictSubsetOrdering(S), SUBSET S)
  BY FS_StrictSubsetOrderingWellFounded, FS_FiniteSubsetsOfFinite
<1>2. PICK T \in Bad : \A U \in Bad : ~ (<<U, T>> \in StrictSubsetOrdering(S))
  <2>1. Bad \subseteq SUBSET S /\ Bad # {}
    OBVIOUS
  <2> HIDE DEF Bad
  <2> QED BY <1>1, <2>1, WFMin
<1>3. T # {}
  OBVIOUS
<1>4. PICK x \in T : TRUE
  BY <1>3
<1>5. T \ {x} \in SUBSET S /\ T \ {x} # T /\ T \ {x} \subseteq T
  BY <1>4
<1>6. T \ {x} \in G
  BY <1>2, <1>5 DEF StrictSubsetOrdering
<1>7. (T \ {x}) \cup {x} \in G
  BY <1>4, <1>5, <1>6
<1>8. (T \ {x}) \cup {x} = T
  BY <1>4
<1> QED
  BY <1>7, <1>8

\* Induction over the natural numbers.
LEMMA NumberInduction ==
    ASSUME NEW G, 0 \in G, \A n \in Nat : n \in G => n + 1 \in G
    PROVE  Nat \subseteq G
<1> SUFFICES ASSUME Nat \ G # {} PROVE FALSE
  OBVIOUS
<1>1. PICK n \in Nat \ G : \A m \in Nat \ G : n <= m
  BY MinProperty
<1>2. n # 0 /\ n - 1 \in Nat /\ n - 1 \notin Nat \ G
  BY <1>1
<1> QED
  BY <1>1, <1>2

\* The element that a fold takes first.
Pick(s) == CHOOSE x \in s : TRUE

\* A set of subsets has every subset of a finite set when it has the empty one and
\* is closed under putting back the element that a fold takes first.
LEMMA SubsetInduction ==
    ASSUME NEW S, IsFiniteSet(S), NEW G, {} \in G,
           \A s \in SUBSET S : s # {} /\ Pick(s) \in s /\ s \ {Pick(s)} \in G => s \in G
    PROVE  SUBSET S \subseteq G
<1> SUFFICES ASSUME ~ (SUBSET S \subseteq G) PROVE FALSE
  OBVIOUS
<1> DEFINE Bad == (SUBSET S) \ G
<1>1. IsWellFoundedOn(StrictSubsetOrdering(S), SUBSET S)
  BY FS_StrictSubsetOrderingWellFounded, FS_FiniteSubsetsOfFinite
<1>2. PICK s \in Bad : \A U \in Bad : ~ (<<U, s>> \in StrictSubsetOrdering(S))
  <2>1. Bad \subseteq SUBSET S /\ Bad # {}
    OBVIOUS
  <2> HIDE DEF Bad
  <2> QED BY <1>1, <2>1, WFMin
<1>3. s \in SUBSET S /\ s \notin G /\ s # {}
  OBVIOUS
<1>4. Pick(s) \in s
  BY <1>3 DEF Pick
<1>5. s \ {Pick(s)} \in SUBSET S /\ s \ {Pick(s)} # s /\ s \ {Pick(s)} \subseteq s
  BY <1>3, <1>4
<1>6. s \ {Pick(s)} \in G
  BY <1>2, <1>5 DEF StrictSubsetOrdering
<1> QED
  BY <1>3, <1>4, <1>6

\* The rule of the function by which a fold over the set S is defined.
FoldRule(g, base, op, S) ==
    \A s \in SUBSET S : g[s] = IF s = {} THEN base ELSE op[<<Pick(s), g[s \ {Pick(s)}]>>]

\* The function by which a fold over a finite set is defined exists.
LEMMA FoldExists ==
    ASSUME NEW S, IsFiniteSet(S), NEW V, NEW base \in V, NEW op \in [S \X V -> V]
    PROVE  \E g \in [SUBSET S -> V] : FoldRule(g, base, op, S)
<1> DEFINE Small(n) == {s \in SUBSET S : Cardinality(s) <= n}
           Rule(g, s) == g[s] = IF s = {} THEN base ELSE op[<<Pick(s), g[s \ {Pick(s)}]>>]
           Part(n) == {g \in [Small(n) -> V] : \A s \in Small(n) : Rule(g, s)}
           G == {n \in Nat : Part(n) # {}}
<1>1. \A s \in SUBSET S : IsFiniteSet(s) /\ Cardinality(s) \in Nat
  BY FS_Subset, FS_CardinalityType
<1>2. \A s \in SUBSET S : Cardinality(s) = 0 <=> s = {}
  BY <1>1, FS_EmptySet
<1>3. ASSUME NEW s \in SUBSET S, s # {}
      PROVE  /\ Pick(s) \in s /\ s \ {Pick(s)} \in SUBSET S
             /\ Cardinality(s \ {Pick(s)}) = Cardinality(s) - 1
  <2>1. Pick(s) \in s
    BY <1>3 DEF Pick
  <2> QED BY <1>1, <2>1, FS_RemoveElement
<1>4. 0 \in G
  <2> DEFINE g == [s \in Small(0) |-> base]
  <2>1. \A s \in Small(0) : s = {}
    BY <1>1, <1>2
  <2>2. g \in Part(0)
    BY <2>1
  <2> QED BY <2>2
<1>5. ASSUME NEW n \in Nat, n \in G PROVE n + 1 \in G
  <2>1. PICK g \in Part(n) : TRUE
    BY <1>5
  <2> DEFINE h == [s \in Small(n + 1) |->
                      IF s \in Small(n) THEN g[s] ELSE op[<<Pick(s), g[s \ {Pick(s)}]>>]]
  <2>2. ASSUME NEW s \in Small(n + 1), s # {}
        PROVE  s \ {Pick(s)} \in Small(n) /\ s \ {Pick(s)} \in Small(n + 1) /\ Pick(s) \in S
    BY <1>1, <1>3, <2>2
  <2>3. ASSUME NEW s \in Small(n + 1) PROVE h[s] \in V /\ Rule(h, s)
    <3>1. CASE s = {}
      <4>1. s \in Small(n)
        BY <1>2, <3>1
      <4> QED BY <2>1, <3>1, <4>1
    <3>2. CASE s # {}
      <4>1. g[s \ {Pick(s)}] \in V /\ h[s \ {Pick(s)}] = g[s \ {Pick(s)}]
        BY <2>1, <2>2, <3>2
      <4>2. h[s] = op[<<Pick(s), g[s \ {Pick(s)}]>>]
        BY <2>1, <3>2
      <4>3. op[<<Pick(s), g[s \ {Pick(s)}]>>] \in V
        BY <2>2, <3>2, <4>1
      <4> QED BY <3>2, <4>1, <4>2, <4>3
    <3> QED BY <3>1, <3>2
  <2>4. h \in [Small(n + 1) -> V]
    BY <2>3
  <2>5. h \in Part(n + 1)
    <3> HIDE DEF h, Rule
    <3> QED BY <2>3, <2>4
  <2>6. n + 1 \in Nat
    OBVIOUS
  <2> HIDE DEF Part, h
  <2> QED BY <2>5, <2>6
<1>6. Nat \subseteq G
  <2> HIDE DEF G
  <2> QED BY <1>4, <1>5, NumberInduction
<1>7. Cardinality(S) \in Nat /\ Small(Cardinality(S)) = SUBSET S
  BY <1>1, FS_Subset, FS_CardinalityType
<1>8. PICK g \in Part(Cardinality(S)) : TRUE
  BY <1>6, <1>7
<1>9. g \in [SUBSET S -> V] /\ \A s \in SUBSET S : Rule(g, s)
  <2> HIDE DEF Small, Rule
  <2> QED BY <1>7, <1>8
<1> QED
  BY <1>9 DEF FoldRule

\* The rule of the function by which a sum over the set S is defined.
SumRule(g, f, S) ==
    \A s \in SUBSET S : g[s] = IF s = {} THEN 0 ELSE f[Pick(s)] + g[s \ {Pick(s)}]

\* g gives the sum of f over every subset of S, in whatever order it is taken.
IsSum(g, f, S) ==
    /\ g \in [SUBSET S -> Int]
    /\ g[{}] = 0
    /\ \A s \in SUBSET S : \A x \in s : g[s] = f[x] + g[s \ {x}]

\* The order of a sum does not matter.
LEMMA SumAnyOrder ==
    ASSUME NEW S, IsFiniteSet(S), NEW f \in [S -> Int], NEW g \in [SUBSET S -> Int], SumRule(g, f, S)
    PROVE  IsSum(g, f, S)
<1> DEFINE G == {s \in SUBSET S : \A x \in s : g[s] = f[x] + g[s \ {x}]}
<1>0. \A s \in SUBSET S : g[s] \in Int
  OBVIOUS
<1>1. {} \in G
  OBVIOUS
<1>2. \A s \in SUBSET S : IsFiniteSet(s) /\ Cardinality(s) \in Nat
  BY FS_Subset, FS_CardinalityType
<1> DEFINE H == {n \in Nat : \A s \in SUBSET S : Cardinality(s) <= n => s \in G}
<1>3. 0 \in H
  <2>1. ASSUME NEW s \in SUBSET S, Cardinality(s) <= 0 PROVE s = {}
    BY <1>2, <2>1, FS_EmptySet
  <2> QED BY <1>1, <2>1
<1>4. ASSUME NEW n \in Nat, n \in H PROVE n + 1 \in H
  <2>1. ASSUME NEW s \in SUBSET S, Cardinality(s) <= n + 1, NEW x \in s
        PROVE  g[s] = f[x] + g[s \ {x}]
    <3> DEFINE p == Pick(s)
    <3>1. p \in s /\ g[s] = f[p] + g[s \ {p}]
      BY DEF SumRule, Pick
    <3> HIDE DEF p
    <3>2. CASE p = x
      BY <3>1, <3>2
    <3>3. CASE p # x
      <4>1. /\ s \ {p} \in SUBSET S /\ s \ {x} \in SUBSET S
            /\ x \in s \ {p} /\ p \in s \ {x}
            /\ (s \ {p}) \ {x} = (s \ {x}) \ {p}
        BY <3>1, <3>3
      <4>2. Cardinality(s \ {p}) <= n /\ Cardinality(s \ {x}) <= n
        BY <1>2, <2>1, <3>1, FS_RemoveElement
      <4>3. s \ {p} \in G /\ s \ {x} \in G
        BY <1>4, <4>1, <4>2
      <4>4. g[s \ {p}] = f[x] + g[(s \ {p}) \ {x}] /\ g[s \ {x}] = f[p] + g[(s \ {x}) \ {p}]
        BY <4>1, <4>3
      <4>5. /\ f[x] \in Int /\ f[p] \in Int /\ g[(s \ {p}) \ {x}] \in Int
            /\ g[s] \in Int /\ g[s \ {p}] \in Int /\ g[s \ {x}] \in Int
        BY <3>1, <4>1
      <4>6. g[(s \ {x}) \ {p}] = g[(s \ {p}) \ {x}]
        BY <4>1, Zenon
      <4> QED BY <3>1, <4>4, <4>5, <4>6
    <3> QED BY <3>2, <3>3
  <2>2. \A s \in SUBSET S : Cardinality(s) <= n + 1 => s \in G
    BY <2>1
  <2> HIDE DEF G
  <2> QED BY <2>2
<1>5. Nat \subseteq H
  <2> HIDE DEF H
  <2> QED BY <1>3, <1>4, NumberInduction
<1>6. \A s \in SUBSET S : s \in G
  BY <1>2, <1>5
<1>7. g[{}] = 0
  BY DEF SumRule
<1> QED
  BY <1>6, <1>7 DEF IsSum

\* Sums over finite sets exist.
LEMMA SumExists ==
    ASSUME NEW S, IsFiniteSet(S), NEW f \in [S -> Int]
    PROVE  \E g : g \in [SUBSET S -> Int] /\ SumRule(g, f, S) /\ IsSum(g, f, S)
<1> DEFINE V == Int
           zero == 0
           op == [z \in S \X V |-> f[z[1]] + z[2]]
<1>1. op \in [S \X V -> V] /\ zero \in V
  <2>1. ASSUME NEW z \in S \X V PROVE f[z[1]] + z[2] \in V
    <3>1. z[1] \in S /\ z[2] \in Int
      OBVIOUS
    <3> QED BY <3>1
  <2> QED BY <2>1
<1>2. PICK g \in [SUBSET S -> V] : FoldRule(g, zero, op, S)
  <2> HIDE DEF V, zero, op
  <2> QED BY <1>1, FoldExists
<1>3. ASSUME NEW s \in SUBSET S PROVE g[s] = IF s = {} THEN 0 ELSE f[Pick(s)] + g[s \ {Pick(s)}]
  <2>1. g[s] = IF s = {} THEN zero ELSE op[<<Pick(s), g[s \ {Pick(s)}]>>]
    <3> HIDE DEF zero, op
    <3> QED BY <1>2 DEF FoldRule
  <2>2. CASE s # {}
    <3>1. Pick(s) \in S /\ s \ {Pick(s)} \in SUBSET S
      BY <2>2 DEF Pick
    <3>2. <<Pick(s), g[s \ {Pick(s)}]>> \in S \X V
      BY <1>2, <3>1
    <3>3. op[<<Pick(s), g[s \ {Pick(s)}]>>] = f[Pick(s)] + g[s \ {Pick(s)}]
      BY <3>2
    <3> QED BY <2>1, <2>2, <3>3
  <2> QED BY <2>1, <2>2
<1>4. g \in [SUBSET S -> Int] /\ SumRule(g, f, S)
  BY <1>2, <1>3 DEF SumRule
<1> QED
  BY <1>4, SumAnyOrder

\* Sums agree where the functions do.
LEMMA SumSame ==
    ASSUME NEW S, IsFiniteSet(S), NEW f, NEW g, IsSum(g, f, S),
           NEW T, NEW e, NEW h, IsSum(h, e, T),
           NEW R, R \subseteq S, R \subseteq T, \A x \in R : f[x] = e[x]
    PROVE  g[R] = h[R]
<1> DEFINE G == {s \in SUBSET R : g[s] = h[s]}
<1>1. IsFiniteSet(R)
  BY FS_Subset
<1>2. {} \in G
  BY DEF IsSum
<1>3. ASSUME NEW s \in SUBSET R, s # {} /\ Pick(s) \in s /\ s \ {Pick(s)} \in G PROVE s \in G
  <2>1. g[s] = f[Pick(s)] + g[s \ {Pick(s)}] /\ h[s] = e[Pick(s)] + h[s \ {Pick(s)}]
    BY <1>3 DEF IsSum
  <2> QED BY <1>3, <2>1
<1>4. SUBSET R \subseteq G
  <2> HIDE DEF G
  <2> QED BY <1>1, <1>2, <1>3, SubsetInduction
<1> QED
  BY <1>4

\* SumOf is the sum, in whatever order it is taken.
LEMMA SumOfIsSum ==
    ASSUME NEW S, IsFiniteSet(S), NEW f \in [S -> Int]
    PROVE  \E g : IsSum(g, f, S) /\ SumOf(f) = g[S]
<1>1. PICK g \in [SUBSET S -> Int] : SumRule(g, f, S) /\ IsSum(g, f, S)
  BY SumExists
<1> DEFINE Rec(h) == [s \in SUBSET S |-> IF s = {} THEN 0 ELSE f[Pick(s)] + h[s \ {Pick(s)}]]
           iter == CHOOSE h : h = Rec(h)
<1>2. \A s \in SUBSET S : s # {} => Pick(s) \in s
  BY DEF Pick
<1>3. g = Rec(g)
  BY <1>1, <1>2 DEF SumRule
<1>4. iter = Rec(iter)
  <2> HIDE DEF Rec
  <2> QED BY <1>3
<1>5. SumOf(f) = iter[S]
  BY DEF SumOf, FoldFunction, FoldFunctionOnSet, MapThenFoldSet, Pick
<1>6. \A s \in SUBSET S : iter[s] = IF s = {} THEN 0 ELSE f[Pick(s)] + iter[s \ {Pick(s)}]
  <2> HIDE DEF iter
  <2> QED BY <1>4
<1> HIDE DEF iter
<1> DEFINE G == {s \in SUBSET S : iter[s] = g[s]}
<1>7. {} \in G
  BY <1>1, <1>6 DEF SumRule
<1>8. ASSUME NEW s \in SUBSET S, s # {} /\ Pick(s) \in s /\ s \ {Pick(s)} \in G PROVE s \in G
  <2>1. iter[s] = f[Pick(s)] + iter[s \ {Pick(s)}]
    BY <1>6, <1>8
  <2>2. g[s] = f[Pick(s)] + g[s \ {Pick(s)}]
    BY <1>1, <1>8 DEF SumRule
  <2> QED BY <1>8, <2>1, <2>2
<1>9. SUBSET S \subseteq G
  <2> HIDE DEF G
  <2> QED BY <1>7, <1>8, SubsetInduction
<1>10. iter[S] = g[S]
  BY <1>9
<1> QED
  BY <1>1, <1>5, <1>10

\* What is left out of a sum: nothing when it is zero, and nothing negative when no
\* value is.
LEMMA SumPart ==
    ASSUME NEW S, IsFiniteSet(S), NEW f \in [S -> Int], NEW g, IsSum(g, f, S), NEW R \in SUBSET S
    PROVE  /\ (\A x \in S \ R : f[x] = 0) => g[R] = g[S]
           /\ (\A x \in S \ R : f[x] >= 0) => g[R] <= g[S]
<1> DEFINE G == {U \in SUBSET (S \ R) : /\ (\A x \in U : f[x] = 0) => g[R] = g[R \cup U]
                                        /\ (\A x \in U : f[x] >= 0) => g[R] <= g[R \cup U]}
<1>1. \A s \in SUBSET S : g[s] \in Int
  BY DEF IsSum
<1>2. {} \in G
  <2>1. R \cup {} = R
    OBVIOUS
  <2> QED BY <1>1, <2>1
<1>3. ASSUME NEW U \in SUBSET (S \ R), NEW x \in (S \ R) \ U, U \in G PROVE U \cup {x} \in G
  <2>1. R \cup (U \cup {x}) \in SUBSET S /\ x \in R \cup (U \cup {x})
    OBVIOUS
  <2>2. (R \cup (U \cup {x})) \ {x} = R \cup U
    OBVIOUS
  <2>3. g[R \cup (U \cup {x})] = f[x] + g[R \cup U]
    BY <2>1, <2>2 DEF IsSum
  <2>4. f[x] \in Int /\ g[R] \in Int /\ g[R \cup U] \in Int
    BY <1>1
  <2> QED BY <1>3, <2>3, <2>4
<1>4. S \ R \in G
  <2>1. IsFiniteSet(S \ R)
    BY FS_Subset
  <2> HIDE DEF G
  <2> QED BY <1>2, <1>3, <2>1, FiniteInduction
<1>5. R \cup (S \ R) = S
  OBVIOUS
<1> QED
  BY <1>4, <1>5

\* Places I hold different names of S, no place adds more than its name does, and no
\* name adds a negative number.
Covers(f, S, e, I, h) ==
    /\ e \in [I -> Int] /\ f \in [S -> Int] /\ h \in [I -> S]
    /\ \A i, j \in I : h[i] = h[j] => i = j
    /\ \A i \in I : e[i] <= f[h[i]]
    /\ \A x \in S : f[x] >= 0

\* A sum over the places of a list without duplicates is at most the sum over the
\* names.
LEMMA SumOfPlaces ==
    ASSUME NEW I, IsFiniteSet(I), NEW S, IsFiniteSet(S), NEW e, NEW f, NEW h, Covers(f, S, e, I, h)
    PROVE  SumOf(e) <= SumOf(f) /\ SumOf(e) \in Int /\ SumOf(f) \in Int
<1>0. /\ e \in [I -> Int] /\ f \in [S -> Int] /\ h \in [I -> S]
      /\ \A i, j \in I : h[i] = h[j] => i = j
      /\ \A i \in I : e[i] <= f[h[i]]
      /\ \A x \in S : f[x] >= 0
  BY DEF Covers
<1> USE <1>0
<1>1. PICK ge : IsSum(ge, e, I) /\ SumOf(e) = ge[I]
  BY SumOfIsSum
<1>2. PICK gf : IsSum(gf, f, S) /\ SumOf(f) = gf[S]
  BY SumOfIsSum
<1> DEFINE Image(U) == {h[i] : i \in U}
           G == {U \in SUBSET I : ge[U] <= gf[Image(U)]}
<1>3. (\A s \in SUBSET I : ge[s] \in Int) /\ (\A s \in SUBSET S : gf[s] \in Int)
  BY <1>1, <1>2 DEF IsSum
<1>4. {} \in G
  <2>1. Image({}) = {}
    OBVIOUS
  <2>2. ge[{}] = 0 /\ gf[{}] = 0
    BY <1>1, <1>2 DEF IsSum
  <2> QED BY <2>1, <2>2
<1>5. ASSUME NEW U \in SUBSET I, NEW i \in I \ U, U \in G PROVE U \cup {i} \in G
  <2>1. (U \cup {i}) \ {i} = U
    OBVIOUS
  <2>2. ge[U \cup {i}] = e[i] + ge[U]
    <3>1. U \cup {i} \in SUBSET I /\ i \in U \cup {i}
      OBVIOUS
    <3>2. ge[U \cup {i}] = e[i] + ge[(U \cup {i}) \ {i}]
      BY <1>1, <3>1, Zenon DEF IsSum
    <3> QED BY <2>1, <3>2, Zenon
  <2>3. Image(U \cup {i}) \in SUBSET S /\ h[i] \in Image(U \cup {i}) /\ Image(U) \in SUBSET S
    OBVIOUS
  <2>4. Image(U \cup {i}) \ {h[i]} = Image(U)
    <3>1. \A j \in U : j \in I /\ h[j] # h[i]
      OBVIOUS
    <3>2. Image(U \cup {i}) = Image(U) \cup {h[i]}
      OBVIOUS
    <3>3. h[i] \notin Image(U)
      BY <3>1
    <3> HIDE DEF Image
    <3> QED BY <3>2, <3>3
  <2>5. gf[Image(U \cup {i})] = f[h[i]] + gf[Image(U)]
    <3> HIDE DEF Image
    <3>1. gf[Image(U \cup {i})] = f[h[i]] + gf[Image(U \cup {i}) \ {h[i]}]
      BY <1>2, <2>3, Zenon DEF IsSum
    <3> QED BY <2>4, <3>1, Zenon
  <2>6. /\ e[i] \in Int /\ f[h[i]] \in Int /\ ge[U] \in Int /\ gf[Image(U)] \in Int
        /\ e[i] <= f[h[i]] /\ ge[U] <= gf[Image(U)]
    <3>1. i \in I /\ h[i] \in S
      OBVIOUS
    <3>2. ge[U] <= gf[Image(U)]
      BY <1>5
    <3> HIDE DEF Image, G
    <3> QED BY <1>3, <2>3, <3>1, <3>2
  <2>7. ge[U \cup {i}] <= gf[Image(U \cup {i})]
    <3> HIDE DEF Image
    <3> QED BY <2>2, <2>5, <2>6
  <2> QED BY <2>7
<1>6. I \in G
  <2> HIDE DEF G
  <2> QED BY <1>4, <1>5, FiniteInduction
<1>7. gf[Image(I)] <= gf[S]
  <2>1. Image(I) \in SUBSET S
    OBVIOUS
  <2> HIDE DEF Image
  <2> QED BY <1>2, <2>1, SumPart
<1>8. ge[I] \in Int /\ gf[Image(I)] \in Int /\ gf[S] \in Int /\ ge[I] <= gf[Image(I)]
  BY <1>3, <1>6
<1> HIDE DEF Image
<1> QED
  BY <1>1, <1>2, <1>7, <1>8

-----------------------------------------------------------------------------
(* The best score.                                                         *)

\* The image of a finite set is finite.
LEMMA ImageFinite ==
    ASSUME NEW S, IsFiniteSet(S), NEW f, DOMAIN f = S
    PROVE  IsFiniteSet({f[x] : x \in S})
<1> DEFINE image == {f[x] : x \in S}
           h == [x \in S |-> f[x]]
<1>1. h \in Surjection(S, image)
  BY DEF Surjection
<1> HIDE DEF h, image
<1>2. IsFiniteSet(image)
  BY <1>1, FS_Surjection
<1> QED
  BY <1>2 DEF image

\* The weights of a profile's score plugins are the ones in its configuration: they
\* are not negative, and none of the plugins is enabled at a later extension point,
\* whose entry pluginsNeeded would keep instead.
KeepsWeights(c) ==
    \A name \in Range(c.enabled["score"]) :
        /\ c.weight[name] \in Nat
        /\ \A e \in {"preBind", "bind", "postBind", "permit", "queueSort"} :
               name \notin Range(c.enabled[e])

\* What a profile of a scheduler that started is like.
ProfileOK(c) ==
    /\ DOMAIN c.enabled = Range(ExtensionPoints)
    /\ \A e \in Range(ExtensionPoints) : c.enabled[e] \in Seq(STRING)
    /\ NewFramework(c)
    /\ KeepsWeights(c)

\* The extension points by number.
LEMMA PointNumbers ==
    /\ DOMAIN ExtensionPoints = 1 .. 11
    /\ Range(ExtensionPoints) = {"preFilter", "filter", "postFilter", "reserve", "preScore",
                                 "score", "preBind", "bind", "postBind", "permit", "queueSort"}
    /\ \A i \in 1 .. 11 : ExtensionPoints[i] = "score" <=> i = 6
    /\ \A i \in 7 .. 11 : ExtensionPoints[i] \in {"preBind", "bind", "postBind", "permit", "queueSort"}
<1>1. DOMAIN ExtensionPoints = 1 .. 11
  BY DEF ExtensionPoints
<1>2. /\ ExtensionPoints[1] = "preFilter" /\ ExtensionPoints[2] = "filter"
      /\ ExtensionPoints[3] = "postFilter" /\ ExtensionPoints[4] = "reserve"
      /\ ExtensionPoints[5] = "preScore" /\ ExtensionPoints[6] = "score"
      /\ ExtensionPoints[7] = "preBind" /\ ExtensionPoints[8] = "bind"
      /\ ExtensionPoints[9] = "postBind" /\ ExtensionPoints[10] = "permit"
      /\ ExtensionPoints[11] = "queueSort"
  BY DEF ExtensionPoints
<1>3. \A i \in 1 .. 11 : i \in {1, 2, 3, 4, 5, 6, 7, 8, 9, 10, 11}
  OBVIOUS
<1>4. Range(ExtensionPoints) = {"preFilter", "filter", "postFilter", "reserve", "preScore",
                                "score", "preBind", "bind", "postBind", "permit", "queueSort"}
  <2>1. Range(ExtensionPoints) = {ExtensionPoints[i] : i \in {1, 2, 3, 4, 5, 6, 7, 8, 9, 10, 11}}
    BY <1>1, <1>3 DEF Range
  <2> QED BY <1>2, <2>1
<1>5. \A i \in 1 .. 11 : ExtensionPoints[i] = "score" <=> i = 6
  BY <1>2, <1>3
<1>6. \A i \in 7 .. 11 : ExtensionPoints[i] \in {"preBind", "bind", "postBind", "permit", "queueSort"}
  <2>1. \A i \in 7 .. 11 : i \in {7, 8, 9, 10, 11}
    OBVIOUS
  <2> QED BY <1>2, <2>1
<1> QED
  BY <1>1, <1>4, <1>5, <1>6

\* The weight of a score plugin is the configured one, and 1 where that is 0; no
\* plugin has a negative weight.
LEMMA WeightUsed ==
    ASSUME NEW c, ProfileOK(c), NEW name \in DOMAIN pluginsNeeded(c)
    PROVE  /\ PluginWeight(c, name) \in Nat
           /\ name \in Range(c.enabled["score"]) => PluginWeight(c, name) = Max({1, c.weight[name]})
<1> DEFINE points == {i \in DOMAIN ExtensionPoints : name \in Range(c.enabled[ExtensionPoints[i]])}
<1>1. points \subseteq 1 .. 11 /\ points # {}
  <2>1. PICK e \in Range(ExtensionPoints) : name \in Range(c.enabled[e])
    BY DEF pluginsNeeded, ProfileOK
  <2>2. PICK i \in DOMAIN ExtensionPoints : e = ExtensionPoints[i]
    BY <2>1 DEF Range
  <2> QED BY <2>1, <2>2, PointNumbers
<1>2. Max(points) \in points /\ \A i \in points : Max(points) >= i
  <2>1. points \in SUBSET Nat /\ 11 \in Nat /\ \A i \in points : i <= 11
    BY <1>1
  <2> HIDE DEF points
  <2> QED BY <1>1, <2>1, MaxProperty
<1>3. pluginsNeeded(c)[name] = IF ExtensionPoints[Max(points)] = "score" THEN c.weight[name] ELSE 0
  BY DEF pluginsNeeded
<1>4. ExtensionPoints[Max(points)] = "score" => name \in Range(c.enabled["score"])
  BY <1>2
<1>5. ASSUME name \in Range(c.enabled["score"])
      PROVE  ExtensionPoints[Max(points)] = "score"
  <2>1. 6 \in points
    BY <1>5, PointNumbers
  <2>2. \A i \in 7 .. 11 : i \notin points
    <3> SUFFICES ASSUME NEW i \in 7 .. 11 PROVE name \notin Range(c.enabled[ExtensionPoints[i]])
      OBVIOUS
    <3>1. ExtensionPoints[i] \in {"preBind", "bind", "postBind", "permit", "queueSort"}
      BY PointNumbers
    <3>2. \A e \in {"preBind", "bind", "postBind", "permit", "queueSort"} : name \notin Range(c.enabled[e])
      BY <1>5 DEF ProfileOK, KeepsWeights
    <3> QED BY <3>1, <3>2, Zenon
  <2>3. Max(points) \in 1 .. 11 /\ Max(points) >= 6 /\ Max(points) \notin 7 .. 11
    <3> HIDE DEF points
    <3> QED BY <1>1, <1>2, <2>1, <2>2
  <2>4. Max(points) = 6
    <3> HIDE DEF points
    <3> QED BY <2>3
  <2> QED BY <2>4, PointNumbers
<1>6. name \in Range(c.enabled["score"]) => c.weight[name] \in Nat
  BY DEF ProfileOK, KeepsWeights
<1>7. PluginWeight(c, name) = IF pluginsNeeded(c)[name] = 0 THEN 1 ELSE pluginsNeeded(c)[name]
  BY DEF PluginWeight
<1> HIDE DEF points
<1>8. PluginWeight(c, name) \in Nat
  BY <1>3, <1>4, <1>6, <1>7
<1>9. ASSUME name \in Range(c.enabled["score"])
      PROVE  PluginWeight(c, name) = Max({1, c.weight[name]})
  <2>1. c.weight[name] \in Nat /\ 1 \in Nat
    BY <1>6, <1>9
  <2>2. pluginsNeeded(c)[name] = c.weight[name]
    BY <1>3, <1>5, <1>9
  <2>3. /\ Max({1, c.weight[name]}) \in {1, c.weight[name]}
        /\ Max({1, c.weight[name]}) >= 1 /\ Max({1, c.weight[name]}) >= c.weight[name]
    <3> DEFINE w == c.weight[name]
    <3> HIDE DEF w
    <3>1. w \in Nat
      BY <2>1 DEF w
    <3>2. Max({1, w}) \in {1, w} /\ Max({1, w}) >= 1 /\ Max({1, w}) >= w
      BY <3>1, MaxOfTwo
    <3> QED BY <3>2 DEF w
  <2> QED BY <1>7, <2>1, <2>2, <2>3
<1> QED
  BY <1>8, <1>9

\* The plugins of a profile are finitely many, and its score plugins are among them.
LEMMA PluginsFinite ==
    ASSUME NEW c, ProfileOK(c)
    PROVE  /\ IsFiniteSet(DOMAIN pluginsNeeded(c))
           /\ Range(c.enabled["score"]) \subseteq DOMAIN pluginsNeeded(c)
<1>1. "score" \in DOMAIN c.enabled
  BY PointNumbers DEF ProfileOK
<1>2. DOMAIN pluginsNeeded(c) = UNION {Range(c.enabled[e]) : e \in DOMAIN c.enabled}
  BY DEF pluginsNeeded
<1> DEFINE f == [e \in DOMAIN c.enabled |-> Range(c.enabled[e])]
           sets == {f[e] : e \in DOMAIN c.enabled}
<1>3. IsFiniteSet(DOMAIN c.enabled)
  <2>1. IsFiniteSet(DOMAIN ExtensionPoints)
    <3>1. 1 \in Int /\ 11 \in Int
      OBVIOUS
    <3>2. IsFiniteSet(1 .. 11)
      BY <3>1, FS_Interval
    <3> QED BY <3>2, PointNumbers
  <2>2. IsFiniteSet({ExtensionPoints[i] : i \in DOMAIN ExtensionPoints})
    BY <2>1, ImageFinite
  <2> QED BY <2>2 DEF ProfileOK, Range
<1>4. IsFiniteSet(sets)
  <2>1. DOMAIN f = DOMAIN c.enabled
    OBVIOUS
  <2> HIDE DEF f
  <2> QED BY <1>3, <2>1, ImageFinite
<1>5. ASSUME NEW e \in DOMAIN c.enabled PROVE IsFiniteSet(Range(c.enabled[e]))
  <2> DEFINE list == c.enabled[e]
  <2>1. list \in Seq(STRING)
    BY DEF ProfileOK
  <2> HIDE DEF list
  <2>2. DOMAIN list = 1 .. Len(list) /\ Len(list) \in Nat
    BY <2>1
  <2>3. IsFiniteSet(DOMAIN list)
    BY <2>2, FS_Interval
  <2>4. IsFiniteSet({list[i] : i \in DOMAIN list})
    BY <2>3, ImageFinite
  <2> QED BY <2>4 DEF Range, list
<1>6. \A s \in sets : IsFiniteSet(s)
  BY <1>5
<1>7. IsFiniteSet(UNION sets)
  <2> HIDE DEF sets
  <2> QED BY <1>4, <1>6, FS_UNION
<1>8. sets = {Range(c.enabled[e]) : e \in DOMAIN c.enabled}
  OBVIOUS
<1> QED
  BY <1>1, <1>2, <1>7, <1>8

\* The scores of the plugins by the configured weights.
Weighted(c, scores, n) ==
    SumOf([i \in DOMAIN scores |-> scores[i][n] * Max({1, c.weight[c.enabled["score"][i]]})])

\* The scores that count: those of the plugins by the configured weights, within the
\* bound of NewFramework, and those of the extenders that answered.
LEMMA PluginScoreBound ==
    ASSUME NEW c, ProfileOK(c), NEW nodes, NEW n \in nodes,
           NEW scores \in [1 .. Len(c.enabled["score"]) -> [nodes -> Scores]], ~ ScoresInvalid(scores)
    PROVE  /\ RunScorePlugins(c, scores, n) \in Int
           /\ RunScorePlugins(c, scores, n) <= MaxTotalScore
           /\ RunScorePlugins(c, scores, n) = Weighted(c, scores, n)
<1> DEFINE list == c.enabled["score"]
           I == DOMAIN scores
           S == DOMAIN pluginsNeeded(c)
           e == [i \in I |-> scores[i][n] * PluginWeight(c, list[i])]
           d == [i \in I |-> scores[i][n] * Max({1, c.weight[list[i]]})]
           f == [name \in S |-> PluginWeight(c, name) * MaxNodeScore]
           h == [i \in I |-> list[i]]
<1>1. list \in Seq(STRING)
  BY PointNumbers DEF ProfileOK
<1>2. I = 1 .. Len(list) /\ Len(list) \in Nat /\ DOMAIN list = I
  BY <1>1
<1>3. IsFiniteSet(I)
  <2> HIDE DEF I
  <2> QED BY <1>2, FS_Interval
<1>4. IsFiniteSet(S) /\ \A i \in I : list[i] \in S /\ list[i] \in Range(list)
  BY <1>2, PluginsFinite DEF Range
<1>5. MaxNodeScore \in Nat
  BY ScoreAssumption
<1>6. \A i \in I : scores[i][n] \in 0 .. MaxNodeScore
  BY DEF ScoresInvalid
<1>7. \A name \in S : PluginWeight(c, name) \in Nat
  BY WeightUsed
<1>8. \A i \in I : PluginWeight(c, list[i]) = Max({1, c.weight[list[i]]})
  BY <1>4, WeightUsed
<1>9. e = d
  BY <1>8
<1>10. e \in [I -> Int]
  <2>1. ASSUME NEW i \in I PROVE scores[i][n] * PluginWeight(c, list[i]) \in Int
    <3>1. scores[i][n] \in Int /\ PluginWeight(c, list[i]) \in Int
      BY <1>4, <1>5, <1>6, <1>7
    <3> QED BY <3>1
  <2> QED BY <2>1
<1>11. f \in [S -> Int] /\ \A name \in S : f[name] >= 0
  <2>1. ASSUME NEW name \in S
        PROVE  /\ PluginWeight(c, name) * MaxNodeScore \in Int
               /\ PluginWeight(c, name) * MaxNodeScore >= 0
    <3> DEFINE w == PluginWeight(c, name)
    <3>1. w \in Nat
      BY <1>7
    <3> HIDE DEF w
    <3>2. w * MaxNodeScore \in Nat
      BY <1>5, <3>1
    <3> QED BY <3>2 DEF w
  <2> QED BY <2>1
<1>12. \A i \in I : e[i] <= f[list[i]]
  <2> SUFFICES ASSUME NEW i \in I
               PROVE  scores[i][n] * PluginWeight(c, list[i]) <= PluginWeight(c, list[i]) * MaxNodeScore
    BY <1>4
  <2> DEFINE w == PluginWeight(c, list[i])
             x == scores[i][n]
  <2>1. w \in Nat /\ x \in 0 .. MaxNodeScore
    BY <1>4, <1>6, <1>7
  <2> HIDE DEF w, x
  <2>2. (MaxNodeScore - x) * w \in Nat
    BY <1>5, <2>1
  <2>3. (MaxNodeScore - x) * w = w * MaxNodeScore - x * w
    BY <1>5, <2>1
  <2>4. x * w \in Int /\ w * MaxNodeScore \in Int
    BY <1>5, <2>1
  <2>5. x * w <= w * MaxNodeScore
    <3> DEFINE a == (MaxNodeScore - x) * w
               b == w * MaxNodeScore
               k == x * w
    <3>1. a \in Nat /\ a = b - k /\ b \in Int /\ k \in Int
      BY <2>2, <2>3, <2>4
    <3> HIDE DEF a, b, k
    <3>2. k <= b
      BY <3>1
    <3> QED BY <3>2 DEF k, b
  <2> QED BY <2>5 DEF w, x
<1>13. h \in [I -> S] /\ (\A i, j \in I : h[i] = h[j] => i = j) /\ \A i \in I : e[i] <= f[h[i]]
  <2>1. IsInjective(list)
    BY PointNumbers DEF ProfileOK, NewFramework
  <2>2. \A i, j \in I : list[i] = list[j] => i = j
    BY <1>2, <2>1 DEF IsInjective
  <2> QED BY <1>4, <1>12, <2>2
<1>14. SumOf(e) <= SumOf(f) /\ SumOf(e) \in Int /\ SumOf(f) \in Int
  <2> HIDE DEF e, f, h, I, S
  <2>1. Covers(f, S, e, I, h)
    BY <1>10, <1>11, <1>13 DEF Covers
  <2> QED BY <1>3, <1>4, <2>1, SumOfPlaces
<1>15. SumOf(f) <= MaxTotalScore
  BY DEF ProfileOK, NewFramework
<1>16. RunScorePlugins(c, scores, n) = SumOf(e)
  BY DEF RunScorePlugins
<1>17. SumOf(e) = SumOf(d)
  <2> HIDE DEF e, d
  <2> QED BY <1>9
<1>18. MaxTotalScore \in Int
  BY ScoreAssumption
<1>19. SumOf(e) \in Int /\ SumOf(e) <= MaxTotalScore
  <2> HIDE DEF e, f
  <2> QED BY <1>14, <1>15, <1>18
<1>20. SumOf(d) = Weighted(c, scores, n)
  BY DEF Weighted
<1> HIDE DEF e, d
<1> QED
  BY <1>16, <1>17, <1>19, <1>20

\* What the interested extenders add to the score of a node, and what the ones that
\* prioritize and answered give by their weights.
Added(requests, answers, n) ==
    SumOf([i \in {j \in DOMAIN Extenders : IsInterested(Extenders[j], requests)} |->
              ExtenderPrioritize(Extenders[i], answers[i], n)])
Given(requests, answers, n) ==
    LET asked == {i \in DOMAIN Extenders :
                     /\ IsInterested(Extenders[i], requests)
                     /\ Extenders[i].prioritizeVerb /\ answers[i].kind = "scores"}
    IN  SumOf([i \in asked |-> Extenders[i].weight * answers[i].score[n]])

\* The extenders that answer are the only ones that add something.
LEMMA ExtenderScore ==
    ASSUME NEW nodes, NEW n \in nodes, NEW requests,
           NEW answers \in [DOMAIN Extenders -> [kind : {"unreachable"}, score : {<<>>}]
                                \cup [kind : {"scores"}, score : [nodes -> ExtenderScores]]]
    PROVE  Added(requests, answers, n) = Given(requests, answers, n) /\ Given(requests, answers, n) \in Int
<1> DEFINE S == {i \in DOMAIN Extenders : IsInterested(Extenders[i], requests)}
           R == {i \in DOMAIN Extenders :
                    /\ IsInterested(Extenders[i], requests)
                    /\ Extenders[i].prioritizeVerb /\ answers[i].kind = "scores"}
           f == [i \in S |-> ExtenderPrioritize(Extenders[i], answers[i], n)]
           e == [i \in R |-> Extenders[i].weight * answers[i].score[n]]
<1>1. R \in SUBSET S
  OBVIOUS
<1>2. IsFiniteSet(S) /\ IsFiniteSet(R)
  <2>1. IsFiniteSet(DOMAIN Extenders)
    <3>1. DOMAIN Extenders = 1 .. Len(Extenders) /\ 1 \in Int /\ Len(Extenders) \in Int
      BY ExtenderAssumption
    <3>2. IsFiniteSet(1 .. Len(Extenders))
      BY <3>1, FS_Interval
    <3> QED BY <3>1, <3>2
  <2> QED BY <2>1, FS_Subset
<1>3. ASSUME NEW i \in R
      PROVE  /\ Extenders[i].weight \in Int /\ answers[i].score[n] \in Int
             /\ f[i] = Extenders[i].weight * answers[i].score[n] /\ f[i] \in Int
  <2>1. answers[i] \in [kind : {"scores"}, score : [nodes -> ExtenderScores]]
    <3>1. answers[i] \in [kind : {"unreachable"}, score : {<<>>}]
                         \cup [kind : {"scores"}, score : [nodes -> ExtenderScores]]
      OBVIOUS
    <3>2. answers[i].kind = "scores"
      OBVIOUS
    <3> QED BY <3>1, <3>2
  <2>2. answers[i].score[n] \in Int
    <3>1. answers[i].score \in [nodes -> ExtenderScores]
      BY <2>1
    <3>2. answers[i].score[n] \in ExtenderScores
      BY <3>1
    <3> QED BY <3>2, ExtenderAssumption
  <2>3. Extenders[i].weight \in Int
    BY ExtenderAssumption
  <2>4. f[i] = answers[i].score[n] * Extenders[i].weight
    BY <2>1 DEF ExtenderPrioritize
  <2>5. answers[i].score[n] * Extenders[i].weight = Extenders[i].weight * answers[i].score[n]
    BY <2>2, <2>3
  <2>6. answers[i].score[n] * Extenders[i].weight \in Int
    BY <2>2, <2>3
  <2> HIDE DEF f
  <2> QED BY <2>2, <2>3, <2>4, <2>5, <2>6
<1>4. ASSUME NEW i \in S \ R PROVE f[i] = 0
  <2>1. answers[i].kind \in {"unreachable", "scores"}
    OBVIOUS
  <2> QED BY <2>1 DEF ExtenderPrioritize
<1>5. f \in [S -> Int]
  <2>1. \A i \in S : f[i] \in Int
    <3> HIDE DEF f
    <3> QED BY <1>3, <1>4
  <2> QED BY <2>1
<1>6. e \in [R -> Int] /\ \A i \in R : e[i] = f[i]
  <2>1. ASSUME NEW i \in R PROVE Extenders[i].weight * answers[i].score[n] = f[i] /\ f[i] \in Int
    <3> HIDE DEF f
    <3> QED BY <1>3
  <2> HIDE DEF f
  <2> QED BY <2>1
<1> HIDE DEF e, f, S, R
<1>7. PICK gf : IsSum(gf, f, S) /\ SumOf(f) = gf[S]
  BY <1>2, <1>5, SumOfIsSum
<1>8. PICK ge : IsSum(ge, e, R) /\ SumOf(e) = ge[R]
  BY <1>2, <1>6, SumOfIsSum
<1>9. gf[R] = gf[S]
  BY <1>1, <1>2, <1>4, <1>5, <1>7, SumPart
<1>10. ge[R] = gf[R]
  BY <1>1, <1>2, <1>6, <1>7, <1>8, SumSame
<1>11. gf[S] \in Int
  BY <1>7 DEF IsSum
<1>12. SumOf(f) = SumOf(e) /\ SumOf(e) \in Int
  BY <1>7, <1>8, <1>9, <1>10, <1>11
<1> QED
  BY <1>12 DEF e, f, S, R, Added, Given

\* The totals that the run's property compares, for one node.
LEMMA ConfiguredScoreFields ==
    ASSUME NEW scores, NEW answers, NEW n
    PROVE  /\ ConfiguredScore(scores, answers, n).plugins = Weighted(Profile, scores, n)
           /\ ConfiguredScore(scores, answers, n).all =
                  Weighted(Profile, scores, n)
                  + (MaxNodeScore \div MaxExtenderPriority) * Given(Requests[cycle.pod], answers, n)
  BY DEF ConfiguredScore, Weighted, Given

\* selectHost's choice by the scores it computes is the best by the configured weights.
LEMMA BestHost ==
    ASSUME ProfileOK(Profile), NEW scores \in PluginScores, NEW answers \in PriorityAnswers,
           ~ ScoresInvalid(scores), NEW best \in HostsFor(scores, answers), NEW n \in feasible
    PROVE  /\ best \in feasible
           /\ ConfiguredScore(scores, answers, n).all <= ConfiguredScore(scores, answers, best).all
           /\ ConfiguredScore(scores, answers, n).plugins <= MaxTotalScore
<1> DEFINE factor == MaxNodeScore \div MaxExtenderPriority
           requests == Requests[cycle.pod]
           Plugins(m) == RunScorePlugins(Profile, scores, m)
           Others(m) == Given(requests, answers, m)
           Node(m) == NodeScore(Profile, requests, scores, answers, m)
           Conf(m) == ConfiguredScore(scores, answers, m)
<1>1. best \in feasible /\ \A m \in feasible : Node(m) <= Node(best)
  BY DEF HostsFor, selectHost
<1>2. factor \in Int
  <2>1. MaxNodeScore \in Nat /\ MaxExtenderPriority \in Nat \ {0}
    BY ScoreAssumption
  <2> QED BY <2>1
<1>3. scores \in [1 .. Len(Profile.enabled["score"]) -> [feasible -> Scores]]
  BY DEF PluginScores
<1>4. ASSUME NEW m \in feasible
      PROVE  /\ Plugins(m) \in Int /\ Plugins(m) <= MaxTotalScore /\ Conf(m).plugins = Plugins(m)
             /\ Others(m) \in Int /\ Added(requests, answers, m) = Others(m)
             /\ Conf(m).all = Plugins(m) + factor * Others(m)
  <2>1. /\ Plugins(m) \in Int /\ Plugins(m) <= MaxTotalScore
        /\ Plugins(m) = Weighted(Profile, scores, m)
    BY <1>3, PluginScoreBound
  <2>2. Added(requests, answers, m) = Others(m) /\ Others(m) \in Int
    <3>1. answers \in [DOMAIN Extenders -> [kind : {"unreachable"}, score : {<<>>}]
                          \cup [kind : {"scores"}, score : [feasible -> ExtenderScores]]]
      BY DEF PriorityAnswers
    <3> QED BY <3>1, ExtenderScore
  <2>3. /\ Conf(m).plugins = Weighted(Profile, scores, m)
        /\ Conf(m).all = Weighted(Profile, scores, m) + factor * Others(m)
    BY ConfiguredScoreFields
  <2> HIDE DEF Plugins, Others, Conf, factor
  <2> QED BY <2>1, <2>2, <2>3
<1>5. CASE Extenders = <<>> /\ ~ HasPlugins(Profile, "score")
  <2>1. DOMAIN scores = {}
    BY <1>3, <1>5 DEF HasPlugins
  <2>2. DOMAIN Extenders = {}
    BY <1>5
  <2>3. Plugins(n) = Plugins(best)
    <3>1. [i \in DOMAIN scores |-> scores[i][n] * PluginWeight(Profile, Profile.enabled["score"][i])]
            = [i \in DOMAIN scores |-> scores[i][best] * PluginWeight(Profile, Profile.enabled["score"][i])]
      BY <2>1
    <3> QED BY <3>1 DEF RunScorePlugins
  <2>4. Others(n) = Others(best)
    <3> DEFINE asked == {i \in DOMAIN Extenders :
                            /\ IsInterested(Extenders[i], requests)
                            /\ Extenders[i].prioritizeVerb /\ answers[i].kind = "scores"}
    <3>1. [i \in asked |-> Extenders[i].weight * answers[i].score[n]]
            = [i \in asked |-> Extenders[i].weight * answers[i].score[best]]
      BY <2>2
    <3> QED BY <3>1 DEF Given
  <2>5. Conf(n).all = Conf(best).all /\ Conf(n).all \in Int
    <3>1. factor * Others(n) \in Int
      <4>1. Others(n) \in Int
        BY <1>4
      <4> HIDE DEF factor, Others
      <4> QED BY <1>2, <4>1
    <3> HIDE DEF Plugins, Others, Conf, factor
    <3> QED BY <1>1, <1>4, <2>3, <2>4, <3>1
  <2>6. Conf(n).plugins <= MaxTotalScore /\ Conf(n).all <= Conf(best).all
    <3> HIDE DEF Plugins, Conf
    <3> QED BY <1>4, <2>5
  <2> QED BY <1>1, <2>6
<1>6. CASE ~ (Extenders = <<>> /\ ~ HasPlugins(Profile, "score"))
  <2>1. \A m \in feasible : Node(m) = Plugins(m) + factor * Added(requests, answers, m)
    BY <1>6 DEF NodeScore, Added
  <2>2. Conf(n).all <= Conf(best).all
    <3> HIDE DEF Plugins, Others, Conf, factor, Node
    <3>1. Node(n) = Conf(n).all /\ Node(best) = Conf(best).all
      BY <1>1, <1>4, <2>1
    <3> QED BY <1>1, <3>1
  <2>3. Conf(n).plugins <= MaxTotalScore
    <3> HIDE DEF Plugins, Conf
    <3> QED BY <1>4
  <2> QED BY <1>1, <2>2, <2>3
<1> QED
  BY <1>5, <1>6

\* Scores are kept between prioritizeNodes and Reserve only, with the best host.
BestInv ==
    /\ \A prof \in DOMAIN profiles : ProfileOK(profiles[prof])
    /\ step # "reserve" => total = <<>>
    /\ HostBest

\* The configured weights are used in all of the scheduler's configurations.
WeightsKept == \A cfgs \in ConfigSets : \A i \in DOMAIN cfgs : KeepsWeights(cfgs[i])

\* A scheduler starts with profiles that NewFramework accepted.
LEMMA BestInit ==
    ASSUME WeightsKept, Init
    PROVE  BestInv
<1>1. PICK cfgs \in ConfigSets :
          /\ NewMap(cfgs)
          /\ profiles = [name \in {cfgs[i].name : i \in DOMAIN cfgs} |->
                            CHOOSE c \in Range(cfgs) : c.name = name]
  BY DEF Init
<1>2. ASSUME NEW prof \in DOMAIN profiles PROVE ProfileOK(profiles[prof])
  <2>1. PICK i \in DOMAIN cfgs : prof = cfgs[i].name
    BY <1>1
  <2>2. cfgs[i] \in Range(cfgs)
    BY DEF Range
  <2>3. profiles[prof] \in Range(cfgs)
    BY <1>1, <2>1, <2>2
  <2>4. PICK j \in DOMAIN cfgs : profiles[prof] = cfgs[j]
    BY <2>3 DEF Range
  <2>5. NewFramework(cfgs[j]) /\ KeepsWeights(cfgs[j])
    BY <1>1 DEF NewMap, WeightsKept
  <2>6. /\ DOMAIN cfgs[j].enabled = Range(ExtensionPoints)
        /\ \A e \in Range(ExtensionPoints) : cfgs[j].enabled[e] \in Seq(STRING)
    BY ConfigAssumption
  <2>7. ProfileOK(cfgs[j])
    BY <2>5, <2>6 DEF ProfileOK
  <2> QED BY <2>4, <2>7
<1> QED
  BY <1>2 DEF BestInv, Init, HostBest

\* Every step keeps the best host.
LEMMA BestStep == Inv /\ BestInv /\ [Next]_vars => BestInv'
<1> SUFFICES ASSUME Inv, BestInv, [Next]_vars PROVE BestInv'
  OBVIOUS
<1>1. ASSUME profiles' = profiles PROVE \A prof \in DOMAIN profiles' : ProfileOK(profiles'[prof])
  BY <1>1 DEF BestInv
<1>2. ASSUME profiles' = profiles, total' = <<>> PROVE BestInv'
  BY <1>1, <1>2 DEF BestInv, HostBest
<1>3. ASSUME profiles' = profiles, step # "reserve", step' # "reserve", total' = total PROVE BestInv'
  BY <1>1, <1>3 DEF BestInv, HostBest
<1>4. ASSUME profiles' = profiles, step' = step, total' = total, host' = host PROVE BestInv'
  BY <1>1, <1>4 DEF BestInv, HostBest
<1>5. CASE PrioritizeNodes
  <2>1. /\ step = "score" /\ profiles' = profiles /\ step' = "reserve"
        /\ \E scores \in PluginScores, answers \in PriorityAnswers :
              /\ ~ ScoresInvalid(scores)
              /\ host' \in HostsFor(scores, answers)
              /\ total' = [n \in feasible |-> ConfiguredScore(scores, answers, n)]
    BY <1>5 DEF PrioritizeNodes, AfterSearch
  <2>2. ProfileOK(Profile)
    BY <2>1 DEF Inv, CycleOK, BestInv, Profile
  <2>3. PICK scores \in PluginScores, answers \in PriorityAnswers :
              /\ ~ ScoresInvalid(scores)
              /\ host' \in HostsFor(scores, answers)
              /\ total' = [n \in feasible |-> ConfiguredScore(scores, answers, n)]
    BY <2>1
  <2>4. ASSUME NEW n \in feasible
        PROVE  /\ total'[n].all <= total'[host'].all /\ total'[n].plugins <= MaxTotalScore
    <3>1. /\ host' \in feasible
          /\ ConfiguredScore(scores, answers, n).all <= ConfiguredScore(scores, answers, host').all
          /\ ConfiguredScore(scores, answers, n).plugins <= MaxTotalScore
      BY <2>2, <2>3, BestHost
    <3> QED BY <2>3, <3>1
  <2>5. HostBest'
    BY <2>3, <2>4 DEF HostBest
  <2> QED BY <1>1, <2>1, <2>5 DEF BestInv
<1>6. CASE ExtendersPassed
  <2>1. profiles' = profiles /\ total' = total /\ total = <<>>
    BY <1>6 DEF ExtendersPassed, AfterSearch, BestInv
  <2> QED BY <1>2, <2>1
<1>7. CASE PreFilterError \/ PrioritizeFails \/ PostFilter \/ UnreserveInCycle \/ Reserve
  <2>1. profiles' = profiles /\ total' = <<>>
    BY <1>7 DEF PreFilterError, PrioritizeFails, PostFilter, UnreserveInCycle, Reserve, EndCycle, ForgetSearch
  <2> QED BY <1>2, <2>1
<1>8. CASE (\E p \in Pods : StartCycle(p)) \/ PreFilter \/ PreFilterUnschedulable \/ SkipExtender
  <2>1. profiles' = profiles /\ step # "reserve" /\ step' # "reserve" /\ total' = total
    BY <1>8 DEF StartCycle, PreFilter, StartFilters, TakeWithoutFilters, PreFilterUnschedulable,
                SkipExtender, Extending, AfterSearch
  <2> QED BY <1>3, <2>1
<1>9. CASE SearchEnds
  <2>1. profiles' = profiles /\ step # "reserve"
    BY <1>9 DEF SearchEnds
  <2>2. total' = <<>> \/ (total' = total /\ step' # "reserve")
    BY <1>9 DEF SearchEnds, EndCycle, ForgetSearch
  <2> QED BY <1>2, <1>3, <2>1, <2>2
<1>10. CASE ExtenderAnswers
  <2>1. profiles' = profiles /\ step # "reserve"
    BY <1>10 DEF ExtenderAnswers, RunExtender, ExtenderFails, Extending, AfterSearch
  <2>2. total' = <<>> \/ (total' = total /\ step' # "reserve")
    BY <1>10 DEF ExtenderAnswers, RunExtender, ExtenderFails, Extending, AfterSearch, EndCycle, ForgetSearch
  <2> QED BY <1>2, <1>3, <2>1, <2>2
<1>11. CASE Permit
  <2>1. profiles' = profiles /\ step # "reserve"
    BY <1>11 DEF Permit
  <2>2. total' = <<>> \/ (total' = total /\ step' # "reserve")
    BY <1>11 DEF Permit, EndCycle, ForgetSearch
  <2> QED BY <1>2, <1>3, <2>1, <2>2
<1>12. CASE \E p \in Pods : NoCycleStarts(p)
  <2>1. profiles' = profiles /\ step' = step /\ total' = total /\ host' = host
    BY <1>12 DEF NoCycleStarts, vars
  <2> QED BY <1>4, <2>1
<1>13. CASE \E w \in Workers : Search(w)
  <2>1. profiles' = profiles /\ step' = step /\ total' = total /\ host' = host
    BY <1>13 DEF Search, TakeChunk, CheckStop, CheckNode, PlaceNode, OutsideSearch
  <2> QED BY <1>4, <2>1
<1>14. CASE \E p \in Pods : BindingCycle(p)
  <2>1. profiles' = profiles /\ step' = step /\ total' = total /\ host' = host
    BY <1>14 DEF BindingCycle, WaitOnPermit, PreBind, Bind, UnreserveInBinding, OutsideBinding
  <2> QED BY <1>4, <2>1
<1>15. CASE UNCHANGED vars
  <2>1. profiles' = profiles /\ step' = step /\ total' = total /\ host' = host
    BY <1>15 DEF vars
  <2> QED BY <1>4, <2>1
<1> QED
  BY <1>5, <1>6, <1>7, <1>8, <1>9, <1>10, <1>11, <1>12, <1>13, <1>14, <1>15 DEF Next, ScheduleOne

\* The suggested host is one that fits and, where the framework uses the configured
\* weights, has the best score by them: prioritizeNodes and selectHost compute it in
\* another way, without the extenders that are not interested or do not answer.
THEOREM HostIsJustified ==
    ASSUME WeightsKept
    PROVE  Spec => []HostJustified
<1>1. Init => BestInv
  BY BestInit
<1>2. Inv /\ BestInv /\ [Next]_vars => BestInv'
  BY BestStep
<1>3. Inv /\ BestInv => HostJustified
  BY DEF Inv, BestInv, CandidatesOK, HostFits, HostJustified
<1> QED
  BY <1>1, <1>2, <1>3, GenericInvariant, PTL DEF Spec
=============================================================================
