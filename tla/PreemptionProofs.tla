-------------------------- MODULE PreemptionProofs --------------------------
(***************************************************************************)
(* Proofs about Preemption, for any pods, priorities, nodes, labels, terms *)
(* and constraints: what the affinity and spread plugins keep by           *)
(* increments judges a node as counting afresh would, a dry run evicts     *)
(* only pods that could not have stayed, the choice among the candidates   *)
(* is the best, and every plugin's score is between 0 and 100.             *)
(*                                                                         *)
(* The first part is about data: induction over finite sets and over the   *)
(* numbers, stated with a set in place of a predicate, and what follows    *)
(* for folds and sums over finite sets.                                    *)
(***************************************************************************)
EXTENDS Preemption, FiniteSetTheorems, TLAPS

-----------------------------------------------------------------------------
(* Induction and recursion.                                                *)

\* Induction over finite sets.
LEMMA FiniteInduction ==
    ASSUME NEW S, IsFiniteSet(S), NEW G, {} \in G,
           \A T \in SUBSET S : \A x \in S \ T : T \in G => T \cup {x} \in G
    PROVE  S \in G
<1> SUFFICES ASSUME S \notin G PROVE FALSE
  OBVIOUS
<1> DEFINE Bad == (SUBSET S) \ G
<1>1. IsWellFoundedOn(StrictSubsetOrdering(S), SUBSET S)
  BY FS_StrictSubsetOrderingWellFounded, FS_FiniteSubsetsOfFinite
<1>2. PICK T \in Bad : \A U \in Bad : ~ (<<U, T>> \in StrictSubsetOrdering(S))
  <2>1. Bad \subseteq SUBSET S /\ Bad # {}
    OBVIOUS
  <2> HIDE DEF Bad
  <2> QED BY <1>1, <2>1, WFMin
<1>3. T # {}
  OBVIOUS
<1>4. PICK x \in T : TRUE
  BY <1>3
<1>5. T \ {x} \in SUBSET S /\ T \ {x} # T /\ T \ {x} \subseteq T
  BY <1>4
<1>6. T \ {x} \in G
  BY <1>2, <1>5 DEF StrictSubsetOrdering
<1>7. (T \ {x}) \cup {x} \in G
  BY <1>4, <1>5, <1>6
<1>8. (T \ {x}) \cup {x} = T
  BY <1>4
<1> QED
  BY <1>7, <1>8


\* A set of numbers that has its least element, or is empty.
LEMMA LeastNatural ==
    ASSUME NEW T \in SUBSET Nat, T # {}
    PROVE  \E n \in T : \A m \in T : n <= m
<1>1. PICK k \in T : TRUE
  OBVIOUS
<1> DEFINE G == {U \in SUBSET (0 .. k) : U \cap T = {} \/ \E n \in U \cap T : \A m \in U \cap T : n <= m}
<1>2. {} \in G
  OBVIOUS
<1>3. ASSUME NEW U \in SUBSET (0 .. k), NEW x \in (0 .. k) \ U, U \in G
      PROVE  U \cup {x} \in G
  <2>1. U \cup {x} \in SUBSET (0 .. k)
    OBVIOUS
  <2>2. CASE x \notin T
    BY <1>3, <2>1, <2>2
  <2>3. CASE x \in T /\ U \cap T = {}
    BY <2>1, <2>3
  <2>4. CASE x \in T /\ U \cap T # {}
    <3>1. PICK n \in U \cap T : \A m \in U \cap T : n <= m
      BY <1>3, <2>4
    <3>2. CASE n <= x
      BY <2>1, <3>1, <3>2
    <3>3. CASE x < n
      BY <2>1, <2>4, <3>1, <3>3
    <3> QED BY <3>1, <3>2, <3>3
  <2> QED BY <2>2, <2>3, <2>4
<1>4. 0 .. k \in G
  <2>1. IsFiniteSet(0 .. k)
    BY FS_Interval
  <2> HIDE DEF G
  <2> QED BY <1>2, <1>3, <2>1, FiniteInduction
<1>5. PICK n \in (0 .. k) \cap T : \A m \in (0 .. k) \cap T : n <= m
  BY <1>1, <1>4
<1> QED
  BY <1>1, <1>5

\* Induction over the natural numbers.
LEMMA NumberInduction ==
    ASSUME NEW G, 0 \in G, \A n \in Nat : n \in G => n + 1 \in G
    PROVE  Nat \subseteq G
<1> SUFFICES ASSUME Nat \ G # {} PROVE FALSE
  OBVIOUS
<1>1. PICK n \in Nat \ G : \A m \in Nat \ G : n <= m
  BY LeastNatural
<1>2. n # 0 /\ n - 1 \in Nat /\ n - 1 \notin Nat \ G
  BY <1>1
<1> QED
  BY <1>1, <1>2


-----------------------------------------------------------------------------
(* The least and the greatest element.                                     *)

\* A finite set of numbers that is not empty has a least and a greatest element.
LEMMA Extremes ==
    ASSUME NEW S, S \subseteq Int, IsFiniteSet(S), S # {}
    PROVE  /\ \E n \in S : \A m \in S : n <= m
           /\ \E n \in S : \A m \in S : n >= m
<1> DEFINE G == {U \in SUBSET S : U # {} => /\ \E n \in U : \A m \in U : n <= m
                                            /\ \E n \in U : \A m \in U : n >= m}
<1>1. {} \in G
  OBVIOUS
<1>2. ASSUME NEW U \in SUBSET S, NEW x \in S \ U, U \in G
      PROVE  U \cup {x} \in G
  <2>1. U \cup {x} \in SUBSET S
    OBVIOUS
  <2>2. CASE U = {}
    BY <2>1, <2>2
  <2>3. CASE U # {}
    <3>1. PICK n \in U : \A m \in U : n <= m
      BY <1>2, <2>3
    <3>2. PICK k \in U : \A m \in U : k >= m
      BY <1>2, <2>3
    <3>3. \E i \in U \cup {x} : \A m \in U \cup {x} : i <= m
      <4>1. CASE n <= x
        BY <3>1, <4>1
      <4>2. CASE x < n
        BY <3>1, <4>2
      <4> QED BY <3>1, <4>1, <4>2
    <3>4. \E i \in U \cup {x} : \A m \in U \cup {x} : i >= m
      <4>1. CASE k >= x
        BY <3>2, <4>1
      <4>2. CASE x > k
        BY <3>2, <4>2
      <4> QED BY <3>2, <4>1, <4>2
    <3> QED BY <2>1, <3>3, <3>4
  <2> QED BY <2>2, <2>3
<1>3. S \in G
  <2> HIDE DEF G
  <2> QED BY <1>1, <1>2, FiniteInduction
<1> QED
  BY <1>3

\* What Min and Max return.
LEMMA MinMax ==
    ASSUME NEW S, S \subseteq Int, IsFiniteSet(S), S # {}
    PROVE  /\ Min(S) \in S /\ \A m \in S : Min(S) <= m
           /\ Max(S) \in S /\ \A m \in S : Max(S) >= m
<1>1. PICK n \in S : \A m \in S : n <= m
  BY Extremes
<1>2. PICK k \in S : \A m \in S : k >= m
  BY Extremes
<1> QED
  BY <1>1, <1>2 DEF Min, Max

-----------------------------------------------------------------------------
(* Folds.                                                                  *)

\* The element that a fold takes first.
Pick(s) == CHOOSE x \in s : TRUE

\* A set of subsets has every subset of a finite set when it has the empty one and
\* is closed under putting back the element that a fold takes first.
LEMMA SubsetInduction ==
    ASSUME NEW S, IsFiniteSet(S), NEW G, {} \in G,
           \A s \in SUBSET S : s # {} /\ Pick(s) \in s /\ s \ {Pick(s)} \in G => s \in G
    PROVE  SUBSET S \subseteq G
<1> SUFFICES ASSUME ~ (SUBSET S \subseteq G) PROVE FALSE
  OBVIOUS
<1> DEFINE Bad == (SUBSET S) \ G
<1>1. IsWellFoundedOn(StrictSubsetOrdering(S), SUBSET S)
  BY FS_StrictSubsetOrderingWellFounded, FS_FiniteSubsetsOfFinite
<1>2. PICK s \in Bad : \A U \in Bad : ~ (<<U, s>> \in StrictSubsetOrdering(S))
  <2>1. Bad \subseteq SUBSET S /\ Bad # {}
    OBVIOUS
  <2> HIDE DEF Bad
  <2> QED BY <1>1, <2>1, WFMin
<1>3. s \in SUBSET S /\ s \notin G /\ s # {}
  OBVIOUS
<1>4. Pick(s) \in s
  BY <1>3 DEF Pick
<1>5. s \ {Pick(s)} \in SUBSET S /\ s \ {Pick(s)} # s /\ s \ {Pick(s)} \subseteq s
  BY <1>3, <1>4
<1>6. s \ {Pick(s)} \in G
  BY <1>2, <1>5 DEF StrictSubsetOrdering
<1> QED
  BY <1>3, <1>4, <1>6

\* The rule of the function by which a fold over the set S is defined.
FoldRule(g, base, step, S) ==
    \A s \in SUBSET S : g[s] = IF s = {} THEN base ELSE step[<<Pick(s), g[s \ {Pick(s)}]>>]

\* The function by which a fold over a finite set is defined exists.
LEMMA FoldExists ==
    ASSUME NEW S, IsFiniteSet(S), NEW V, NEW base \in V, NEW step \in [S \X V -> V]
    PROVE  \E g \in [SUBSET S -> V] : FoldRule(g, base, step, S)
<1> DEFINE Small(n) == {s \in SUBSET S : Cardinality(s) <= n}
           Rule(g, s) == g[s] = IF s = {} THEN base ELSE step[<<Pick(s), g[s \ {Pick(s)}]>>]
           Part(n) == {g \in [Small(n) -> V] : \A s \in Small(n) : Rule(g, s)}
           G == {n \in Nat : Part(n) # {}}
<1>1. \A s \in SUBSET S : IsFiniteSet(s) /\ Cardinality(s) \in Nat
  BY FS_Subset, FS_CardinalityType
<1>2. \A s \in SUBSET S : Cardinality(s) = 0 <=> s = {}
  BY <1>1, FS_EmptySet
<1>3. ASSUME NEW s \in SUBSET S, s # {}
      PROVE  /\ Pick(s) \in s /\ s \ {Pick(s)} \in SUBSET S
             /\ Cardinality(s \ {Pick(s)}) = Cardinality(s) - 1
  <2>1. Pick(s) \in s
    BY <1>3 DEF Pick
  <2> QED BY <1>1, <2>1, FS_RemoveElement
<1>4. 0 \in G
  <2> DEFINE g == [s \in Small(0) |-> base]
  <2>1. \A s \in Small(0) : s = {}
    BY <1>1, <1>2
  <2>2. g \in Part(0)
    BY <2>1
  <2> QED BY <2>2
<1>5. ASSUME NEW n \in Nat, n \in G PROVE n + 1 \in G
  <2>1. PICK g \in Part(n) : TRUE
    BY <1>5
  <2> DEFINE h == [s \in Small(n + 1) |->
                      IF s \in Small(n) THEN g[s] ELSE step[<<Pick(s), g[s \ {Pick(s)}]>>]]
  <2>2. ASSUME NEW s \in Small(n + 1), s # {}
        PROVE  s \ {Pick(s)} \in Small(n) /\ s \ {Pick(s)} \in Small(n + 1) /\ Pick(s) \in S
    BY <1>1, <1>3, <2>2
  <2>3. ASSUME NEW s \in Small(n + 1) PROVE h[s] \in V /\ Rule(h, s)
    <3>1. CASE s = {}
      <4>1. s \in Small(n)
        BY <1>2, <3>1
      <4> QED BY <2>1, <3>1, <4>1
    <3>2. CASE s # {}
      <4>1. g[s \ {Pick(s)}] \in V /\ h[s \ {Pick(s)}] = g[s \ {Pick(s)}]
        BY <2>1, <2>2, <3>2
      <4>2. h[s] = step[<<Pick(s), g[s \ {Pick(s)}]>>]
        BY <2>1, <3>2
      <4>3. step[<<Pick(s), g[s \ {Pick(s)}]>>] \in V
        BY <2>2, <3>2, <4>1
      <4> QED BY <3>2, <4>1, <4>2, <4>3
    <3> QED BY <3>1, <3>2
  <2>4. h \in [Small(n + 1) -> V]
    BY <2>3
  <2>5. h \in Part(n + 1)
    <3> HIDE DEF h, Rule
    <3> QED BY <2>3, <2>4
  <2>6. n + 1 \in Nat
    OBVIOUS
  <2> HIDE DEF Part, h
  <2> QED BY <2>5, <2>6
<1>6. Nat \subseteq G
  <2> HIDE DEF G
  <2> QED BY <1>4, <1>5, NumberInduction
<1>7. Cardinality(S) \in Nat /\ Small(Cardinality(S)) = SUBSET S
  BY <1>1, FS_Subset, FS_CardinalityType
<1>8. PICK g \in Part(Cardinality(S)) : TRUE
  BY <1>6, <1>7
<1>9. g \in [SUBSET S -> V] /\ \A s \in SUBSET S : Rule(g, s)
  <2> HIDE DEF Small, Rule
  <2> QED BY <1>7, <1>8
<1> QED
  BY <1>9 DEF FoldRule

-----------------------------------------------------------------------------
(* Sums.                                                                   *)

\* The rule of the function by which a sum over the set S is defined.
SumRule(g, f, S) ==
    \A s \in SUBSET S : g[s] = IF s = {} THEN 0 ELSE f[Pick(s)] + g[s \ {Pick(s)}]

\* g gives the sum of f over every subset of S, in whatever order it is taken.
IsSum(g, f, S) ==
    /\ g \in [SUBSET S -> Int]
    /\ g[{}] = 0
    /\ \A s \in SUBSET S : \A x \in s : g[s] = f[x] + g[s \ {x}]

\* The order of a sum does not matter.
LEMMA SumAnyOrder ==
    ASSUME NEW S, IsFiniteSet(S), NEW f \in [S -> Int], NEW g \in [SUBSET S -> Int], SumRule(g, f, S)
    PROVE  IsSum(g, f, S)
<1> DEFINE G == {s \in SUBSET S : \A x \in s : g[s] = f[x] + g[s \ {x}]}
<1>0. \A s \in SUBSET S : g[s] \in Int
  OBVIOUS
<1>1. {} \in G
  OBVIOUS
<1>2. \A s \in SUBSET S : IsFiniteSet(s) /\ Cardinality(s) \in Nat
  BY FS_Subset, FS_CardinalityType
<1> DEFINE H == {n \in Nat : \A s \in SUBSET S : Cardinality(s) <= n => s \in G}
<1>3. 0 \in H
  <2>1. ASSUME NEW s \in SUBSET S, Cardinality(s) <= 0 PROVE s = {}
    BY <1>2, <2>1, FS_EmptySet
  <2> QED BY <1>1, <2>1
<1>4. ASSUME NEW n \in Nat, n \in H PROVE n + 1 \in H
  <2>1. ASSUME NEW s \in SUBSET S, Cardinality(s) <= n + 1, NEW x \in s
        PROVE  g[s] = f[x] + g[s \ {x}]
    <3> DEFINE p == Pick(s)
    <3>1. p \in s /\ g[s] = f[p] + g[s \ {p}]
      BY DEF SumRule, Pick
    <3> HIDE DEF p
    <3>2. CASE p = x
      BY <3>1, <3>2
    <3>3. CASE p # x
      <4>1. /\ s \ {p} \in SUBSET S /\ s \ {x} \in SUBSET S
            /\ x \in s \ {p} /\ p \in s \ {x}
            /\ (s \ {p}) \ {x} = (s \ {x}) \ {p}
        BY <3>1, <3>3
      <4>2. Cardinality(s \ {p}) <= n /\ Cardinality(s \ {x}) <= n
        BY <1>2, <2>1, <3>1, FS_RemoveElement
      <4>3. s \ {p} \in G /\ s \ {x} \in G
        BY <1>4, <4>1, <4>2
      <4>4. g[s \ {p}] = f[x] + g[(s \ {p}) \ {x}] /\ g[s \ {x}] = f[p] + g[(s \ {x}) \ {p}]
        BY <4>1, <4>3
      <4>5. /\ f[x] \in Int /\ f[p] \in Int /\ g[(s \ {p}) \ {x}] \in Int
            /\ g[s] \in Int /\ g[s \ {p}] \in Int /\ g[s \ {x}] \in Int
        BY <3>1, <4>1
      <4>6. g[(s \ {x}) \ {p}] = g[(s \ {p}) \ {x}]
        BY <4>1, Zenon
      <4> QED BY <3>1, <4>4, <4>5, <4>6
    <3> QED BY <3>2, <3>3
  <2>2. \A s \in SUBSET S : Cardinality(s) <= n + 1 => s \in G
    BY <2>1
  <2> HIDE DEF G
  <2> QED BY <2>2
<1>5. Nat \subseteq H
  <2> HIDE DEF H
  <2> QED BY <1>3, <1>4, NumberInduction
<1>6. \A s \in SUBSET S : s \in G
  BY <1>2, <1>5
<1>7. g[{}] = 0
  BY DEF SumRule
<1> QED
  BY <1>6, <1>7 DEF IsSum

\* Sums over finite sets exist.
LEMMA SumExists ==
    ASSUME NEW S, IsFiniteSet(S), NEW f \in [S -> Int]
    PROVE  \E g : g \in [SUBSET S -> Int] /\ SumRule(g, f, S) /\ IsSum(g, f, S)
<1> DEFINE V == Int
           zero == 0
           step == [z \in S \X V |-> f[z[1]] + z[2]]
<1>1. step \in [S \X V -> V] /\ zero \in V
  <2>1. ASSUME NEW z \in S \X V PROVE f[z[1]] + z[2] \in V
    <3>1. z[1] \in S /\ z[2] \in Int
      OBVIOUS
    <3> QED BY <3>1
  <2> QED BY <2>1
<1>2. PICK g \in [SUBSET S -> V] : FoldRule(g, zero, step, S)
  <2> HIDE DEF V, zero, step
  <2> QED BY <1>1, FoldExists
<1>3. ASSUME NEW s \in SUBSET S PROVE g[s] = IF s = {} THEN 0 ELSE f[Pick(s)] + g[s \ {Pick(s)}]
  <2>1. g[s] = IF s = {} THEN zero ELSE step[<<Pick(s), g[s \ {Pick(s)}]>>]
    <3> HIDE DEF zero, step
    <3> QED BY <1>2 DEF FoldRule
  <2>2. CASE s # {}
    <3>1. Pick(s) \in S /\ s \ {Pick(s)} \in SUBSET S
      BY <2>2 DEF Pick
    <3>2. <<Pick(s), g[s \ {Pick(s)}]>> \in S \X V
      BY <1>2, <3>1
    <3>3. step[<<Pick(s), g[s \ {Pick(s)}]>>] = f[Pick(s)] + g[s \ {Pick(s)}]
      BY <3>2
    <3> QED BY <2>1, <2>2, <3>3
  <2> QED BY <2>1, <2>2
<1>4. g \in [SUBSET S -> Int] /\ SumRule(g, f, S)
  BY <1>2, <1>3 DEF SumRule
<1> QED
  BY <1>4, SumAnyOrder

\* Sums agree where the functions do.
LEMMA SumSame ==
    ASSUME NEW S, IsFiniteSet(S), NEW f, NEW g, IsSum(g, f, S),
           NEW T, NEW e, NEW h, IsSum(h, e, T),
           NEW R, R \subseteq S, R \subseteq T, \A x \in R : f[x] = e[x]
    PROVE  g[R] = h[R]
<1> DEFINE G == {s \in SUBSET R : g[s] = h[s]}
<1>1. IsFiniteSet(R)
  BY FS_Subset
<1>2. {} \in G
  BY DEF IsSum
<1>3. ASSUME NEW s \in SUBSET R, s # {} /\ Pick(s) \in s /\ s \ {Pick(s)} \in G PROVE s \in G
  <2>1. g[s] = f[Pick(s)] + g[s \ {Pick(s)}] /\ h[s] = e[Pick(s)] + h[s \ {Pick(s)}]
    BY <1>3 DEF IsSum
  <2> QED BY <1>3, <2>1
<1>4. SUBSET R \subseteq G
  <2> HIDE DEF G
  <2> QED BY <1>1, <1>2, <1>3, SubsetInduction
<1> QED
  BY <1>4

\* A sum of numbers that are not negative is not negative.
LEMMA SumNonNegative ==
    ASSUME NEW S, IsFiniteSet(S), NEW f \in [S -> Int], NEW g, IsSum(g, f, S),
           NEW R \in SUBSET S, \A x \in R : f[x] >= 0
    PROVE  g[R] >= 0
<1> DEFINE G == {s \in SUBSET R : g[s] >= 0}
<1>1. IsFiniteSet(R)
  BY FS_Subset
<1>2. {} \in G
  BY DEF IsSum
<1>3. ASSUME NEW s \in SUBSET R, s # {} /\ Pick(s) \in s /\ s \ {Pick(s)} \in G PROVE s \in G
  <2>1. g[s] = f[Pick(s)] + g[s \ {Pick(s)}]
    BY <1>3 DEF IsSum
  <2>2. f[Pick(s)] \in Int /\ f[Pick(s)] >= 0 /\ g[s \ {Pick(s)}] \in Int
    BY <1>3 DEF IsSum
  <2> QED BY <1>3, <2>1, <2>2
<1>4. SUBSET R \subseteq G
  <2> HIDE DEF G
  <2> QED BY <1>1, <1>2, <1>3, SubsetInduction
<1> QED
  BY <1>4

-----------------------------------------------------------------------------
(* The choice among the candidates.                                        *)

\* What a pod adds to the sum of priorities.
Shifted == [q \in Pods |-> Priority[q] + PriorityOffset]

\* SumPriorities is the sum of the shifted priorities.
LEMMA SumPrioritiesIsSum ==
    ASSUME NEW g \in [SUBSET Pods -> Int], SumRule(g, Shifted, Pods), NEW vs \in SUBSET Pods
    PROVE  SumPriorities(vs) = g[vs]
<1> DEFINE Rec(h) == [s \in SUBSET vs |-> IF s = {} THEN 0
                                          ELSE (Priority[Pick(s)] + PriorityOffset) + h[s \ {Pick(s)}]]
           iter == CHOOSE h : h = Rec(h)
           part == [s \in SUBSET vs |-> g[s]]
<1>1. \A s \in SUBSET vs : s # {} => Pick(s) \in s
  BY DEF Pick
<1>2. \A s \in SUBSET vs :
          g[s] = IF s = {} THEN 0 ELSE (Priority[Pick(s)] + PriorityOffset) + g[s \ {Pick(s)}]
  BY <1>1 DEF SumRule, Shifted
<1>3. part = Rec(part)
  BY <1>1, <1>2
<1>4. iter = Rec(iter)
  <2> HIDE DEF Rec, part
  <2> QED BY <1>3
<1>5. SumPriorities(vs) = iter[vs]
  BY DEF SumPriorities, MapThenSumSet, MapThenFoldSet, Pick
<1>6. \A s \in SUBSET vs :
          iter[s] = IF s = {} THEN 0 ELSE (Priority[Pick(s)] + PriorityOffset) + iter[s \ {Pick(s)}]
  <2> HIDE DEF iter
  <2> QED BY <1>4
<1> HIDE DEF iter
<1> DEFINE G == {s \in SUBSET vs : iter[s] = g[s]}
<1>7. {} \in G
  BY <1>2, <1>6
<1>8. ASSUME NEW s \in SUBSET vs, s # {} /\ Pick(s) \in s /\ s \ {Pick(s)} \in G PROVE s \in G
  <2>1. iter[s] = (Priority[Pick(s)] + PriorityOffset) + iter[s \ {Pick(s)}]
    BY <1>6, <1>8
  <2>2. g[s] = (Priority[Pick(s)] + PriorityOffset) + g[s \ {Pick(s)}]
    BY <1>2, <1>8
  <2> QED BY <1>8, <2>1, <2>2
<1>9. SUBSET vs \subseteq G
  <2>1. IsFiniteSet(vs)
    BY PodsAssumption, FS_Subset
  <2> HIDE DEF G
  <2> QED BY <1>7, <1>8, <2>1, SubsetInduction
<1> QED
  BY <1>5, <1>9

\* Counts of a set without one of its pods.
LEMMA CountWithout ==
    ASSUME NEW vs \in SUBSET Pods, NEW x \in vs, NEW k
    PROVE  /\ CountOf(vs, k) \in Nat
           /\ CountOf(vs \ {x}, k) = CountOf(vs, k) - (IF Priority[x] = k THEN 1 ELSE 0)
<1> DEFINE here == {q \in vs : Priority[q] = k}
           left == {q \in vs \ {x} : Priority[q] = k}
<1>1. IsFiniteSet(here)
  BY PodsAssumption, FS_Subset
<1>2. Cardinality(here) \in Nat
  BY <1>1, FS_CardinalityType
<1>3. CASE Priority[x] = k
  <2>1. x \in here /\ left = here \ {x}
    BY <1>3
  <2>2. Cardinality(left) = Cardinality(here) - 1
    <3> HIDE DEF here, left
    <3> QED BY <1>1, <2>1, FS_RemoveElement
  <2> QED BY <1>2, <1>3, <2>2 DEF CountOf
<1>4. CASE Priority[x] # k
  <2>1. left = here
    BY <1>4
  <2> QED BY <1>2, <1>4, <2>1 DEF CountOf
<1> QED
  BY <1>3, <1>4

\* A set with at most as many pods of every priority has at most the sum and at
\* most the pods.
LEMMA CountsBound ==
    ASSUME NEW g, IsSum(g, Shifted, Pods), NEW ws \in SUBSET Pods, NEW vs \in SUBSET Pods,
           \A k \in Levels : CountOf(ws, k) <= CountOf(vs, k)
    PROVE  g[ws] <= g[vs] /\ Cardinality(ws) <= Cardinality(vs)
<1> DEFINE Below(u, v) == \A k \in Levels : CountOf(u, k) <= CountOf(v, k)
           Bound(u, v) == g[u] <= g[v] /\ Cardinality(u) <= Cardinality(v)
           G == {u \in SUBSET ws : \A v \in SUBSET Pods : Below(u, v) => Bound(u, v)}
<1>1. /\ Shifted \in [Pods -> Int] /\ \A q \in Pods : Shifted[q] >= 0
      /\ \A q \in Pods : Shifted[q] = Priority[q] + PriorityOffset /\ Priority[q] \in Int
  BY PriorityAssumption, OffsetAssumption DEF Shifted, PriorityOffset
<1>2. \A u \in SUBSET Pods : IsFiniteSet(u) /\ Cardinality(u) \in Nat /\ g[u] \in Int
  BY PodsAssumption, FS_Subset, FS_CardinalityType DEF IsSum
<1>3. {} \in G
  <2>1. ASSUME NEW v \in SUBSET Pods PROVE Bound({}, v)
    <3>1. g[v] >= 0
      BY <1>1, PodsAssumption, SumNonNegative
    <3>2. g[{}] = 0 /\ Cardinality({}) = 0
      BY FS_EmptySet DEF IsSum
    <3> QED BY <1>2, <3>1, <3>2
  <2> QED BY <2>1
<1>4. ASSUME NEW u \in SUBSET ws, u # {} /\ Pick(u) \in u /\ u \ {Pick(u)} \in G PROVE u \in G
  <2>1. ASSUME NEW v \in SUBSET Pods, Below(u, v) PROVE Bound(u, v)
    <3> DEFINE x == Pick(u)
               k == Priority[x]
    <3>1. x \in u /\ x \in Pods /\ k \in Levels /\ u \in SUBSET Pods
      BY <1>4 DEF Levels
    <3> HIDE DEF x
    <3>2. CountOf(u, k) >= 1
      <4>1. IsFiniteSet({q \in u : Priority[q] = k}) /\ {q \in u : Priority[q] = k} # {}
        BY <1>2, <3>1, FS_Subset
      <4>2. Cardinality({q \in u : Priority[q] = k}) \in Nat /\ Cardinality({q \in u : Priority[q] = k}) # 0
        BY <4>1, FS_EmptySet, FS_CardinalityType
      <4> QED BY <4>2 DEF CountOf
    <3>3. PICK y \in v : Priority[y] = k
      <4>1. CountOf(v, k) >= 1
        <5>1. CountOf(u, k) <= CountOf(v, k)
          BY <2>1, <3>1
        <5>2. CountOf(u, k) \in Nat /\ CountOf(v, k) \in Nat
          <6>1. IsFiniteSet({q \in u : Priority[q] = k}) /\ IsFiniteSet({q \in v : Priority[q] = k})
            BY <1>2, <3>1, FS_Subset
          <6> QED BY <6>1, FS_CardinalityType DEF CountOf
        <5> QED BY <3>2, <5>1, <5>2
      <4>2. {q \in v : Priority[q] = k} # {}
        BY <4>1, FS_EmptySet DEF CountOf
      <4> QED BY <4>2
    <3>4. Below(u \ {x}, v \ {y})
      <4>1. ASSUME NEW j \in Levels PROVE CountOf(u \ {x}, j) <= CountOf(v \ {y}, j)
        <5>1. /\ CountOf(u, j) \in Nat
              /\ CountOf(u \ {x}, j) = CountOf(u, j) - (IF Priority[x] = j THEN 1 ELSE 0)
          BY <3>1, CountWithout
        <5>2. /\ CountOf(v, j) \in Nat
              /\ CountOf(v \ {y}, j) = CountOf(v, j) - (IF Priority[y] = j THEN 1 ELSE 0)
          BY <3>3, CountWithout
        <5>3. CountOf(u, j) <= CountOf(v, j)
          BY <2>1
        <5> QED BY <3>3, <5>1, <5>2, <5>3
      <4> QED BY <4>1
    <3>5. Bound(u \ {x}, v \ {y})
      <4>1. u \ {x} \in G /\ v \ {y} \in SUBSET Pods
        BY <1>4 DEF x
      <4> HIDE DEF Below, Bound
      <4> QED BY <3>4, <4>1
    <3>6. g[u] = Shifted[x] + g[u \ {x}] /\ g[v] = Shifted[y] + g[v \ {y}] /\ Shifted[x] = Shifted[y]
      BY <1>1, <3>1, <3>3 DEF IsSum
    <3>7. Cardinality(u \ {x}) = Cardinality(u) - 1 /\ Cardinality(v \ {y}) = Cardinality(v) - 1
      BY <1>2, <3>1, <3>3, FS_RemoveElement
    <3>8. /\ g[u] \in Int /\ g[v] \in Int /\ g[u \ {x}] \in Int /\ g[v \ {y}] \in Int
          /\ Shifted[x] \in Int /\ Cardinality(u) \in Nat /\ Cardinality(v) \in Nat
      BY <1>1, <1>2, <3>1, <3>3
    <3> QED BY <3>5, <3>6, <3>7, <3>8
  <2> HIDE DEF Below, Bound
  <2> QED BY <2>1
<1>5. SUBSET ws \subseteq G
  <2>1. IsFiniteSet(ws)
    BY <1>2
  <2> HIDE DEF G
  <2> QED BY <1>3, <1>4, <2>1, SubsetInduction
<1>6. ws \in G
  BY <1>5
<1> QED
  BY <1>6

\* A set that asks for part of another's priorities only has fewer pods.
LEMMA FewerPods ==
    ASSUME NEW ws \in SUBSET Pods, NEW vs \in SUBSET Pods, Fewer(ws, vs)
    PROVE  SumPriorities(ws) <= SumPriorities(vs) /\ Cardinality(ws) < Cardinality(vs)
<1>1. PICK g : g \in [SUBSET Pods -> Int] /\ SumRule(g, Shifted, Pods) /\ IsSum(g, Shifted, Pods)
  <2>1. Shifted \in [Pods -> Int]
    BY PriorityAssumption DEF Shifted, PriorityOffset
  <2> QED BY <2>1, PodsAssumption, SumExists
<1>2. SumPriorities(ws) = g[ws] /\ SumPriorities(vs) = g[vs]
  BY <1>1, SumPrioritiesIsSum
<1>3. g[ws] <= g[vs]
  BY <1>1, CountsBound DEF Fewer
<1>4. PICK k \in Levels : CountOf(ws, k) < CountOf(vs, k)
  BY DEF Fewer
<1>5. IsFiniteSet(vs) /\ Cardinality(vs) \in Nat /\ IsFiniteSet(ws) /\ Cardinality(ws) \in Nat
  BY PodsAssumption, FS_Subset, FS_CardinalityType
<1>6. \A j : CountOf(ws, j) \in Nat /\ CountOf(vs, j) \in Nat
  <2>1. \A j : IsFiniteSet({q \in ws : Priority[q] = j}) /\ IsFiniteSet({q \in vs : Priority[q] = j})
    BY <1>5, FS_Subset
  <2> QED BY <2>1, FS_CardinalityType DEF CountOf
<1>7. PICK y \in vs : Priority[y] = k
  <2>1. CountOf(vs, k) # 0
    BY <1>4, <1>6
  <2>2. {q \in vs : Priority[q] = k} # {}
    BY <2>1, FS_EmptySet DEF CountOf
  <2> QED BY <2>2
<1>8. \A j \in Levels : CountOf(ws, j) <= CountOf(vs \ {y}, j)
  <2>1. ASSUME NEW j \in Levels PROVE CountOf(ws, j) <= CountOf(vs \ {y}, j)
    <3>1. CountOf(vs \ {y}, j) = CountOf(vs, j) - (IF Priority[y] = j THEN 1 ELSE 0)
      BY CountWithout
    <3>2. CountOf(ws, j) <= CountOf(vs, j)
      BY DEF Fewer
    <3> QED BY <1>4, <1>6, <1>7, <3>1, <3>2
  <2> QED BY <2>1
<1>9. Cardinality(ws) <= Cardinality(vs \ {y})
  <2>1. vs \ {y} \in SUBSET Pods
    OBVIOUS
  <2> QED BY <1>1, <1>8, <2>1, CountsBound
<1>10. Cardinality(vs \ {y}) = Cardinality(vs) - 1
  BY <1>5, FS_RemoveElement
<1> QED
  BY <1>2, <1>3, <1>5, <1>9, <1>10

\* The priorities of a set of pods are a finite set of numbers.
LEMMA PrioritiesFinite ==
    ASSUME NEW s \in SUBSET Pods
    PROVE  IsFiniteSet({Priority[q] : q \in s}) /\ {Priority[q] : q \in s} \subseteq Int
<1> DEFINE f == [q \in s |-> Priority[q]]
           T == {Priority[q] : q \in s}
<1>1. f \in Surjection(s, T)
  BY DEF Surjection
<1>2. IsFiniteSet(s)
  BY PodsAssumption, FS_Subset
<1>3. T \subseteq Int
  BY PriorityAssumption
<1> HIDE DEF f, T
<1>4. IsFiniteSet(T)
  BY <1>1, <1>2, FS_Surjection
<1> QED
  BY <1>3, <1>4 DEF T

\* The highest priority of pods is a number.
LEMMA HighestType ==
    ASSUME NEW s \in SUBSET Pods, s # {}
    PROVE  HighestPriority(s) \in Int
<1> DEFINE T == {Priority[q] : q \in s}
<1>1. IsFiniteSet(T) /\ T \subseteq Int /\ T # {}
  BY PrioritiesFinite
<1>2. Max(T) \in T
  <2> HIDE DEF T
  <2> QED BY <1>1, MinMax
<1> QED
  BY <1>1, <1>2 DEF HighestPriority

\* The sum of priorities is a number.
LEMMA SumPrioritiesType ==
    ASSUME NEW s \in SUBSET Pods
    PROVE  SumPriorities(s) \in Int
<1>1. PICK g : g \in [SUBSET Pods -> Int] /\ SumRule(g, Shifted, Pods) /\ IsSum(g, Shifted, Pods)
  <2>1. Shifted \in [Pods -> Int]
    BY PriorityAssumption DEF Shifted, PriorityOffset
  <2> QED BY <2>1, PodsAssumption, SumExists
<1> QED
  BY <1>1, SumPrioritiesIsSum

\* Unless it is empty, it has no higher pod.
LEMMA FewerHighest ==
    ASSUME NEW ws \in SUBSET Pods, NEW vs \in SUBSET Pods, Fewer(ws, vs), ws # {}
    PROVE  HighestPriority(ws) <= HighestPriority(vs)
<1> DEFINE W == {Priority[q] : q \in ws}
           X == {Priority[q] : q \in vs}
<1>1. W # {} /\ W \subseteq Int /\ X \subseteq Int
  BY PriorityAssumption
<1>2. IsFiniteSet(W) /\ IsFiniteSet(X)
  BY PrioritiesFinite
<1>3. W \subseteq X
  <2>1. ASSUME NEW q \in ws PROVE \E r \in vs : Priority[r] = Priority[q]
    <3> DEFINE k == Priority[q]
               here == {r \in ws : Priority[r] = k}
               there == {r \in vs : Priority[r] = k}
    <3>1. k \in Levels
      BY DEF Levels
    <3>2. Cardinality(here) <= Cardinality(there)
      BY <3>1 DEF Fewer, CountOf
    <3>3. IsFiniteSet(here) /\ IsFiniteSet(there) /\ here # {}
      BY PodsAssumption, FS_Subset
    <3>4. there # {}
      <4> HIDE DEF here, there
      <4> QED BY <3>2, <3>3, FS_EmptySet, FS_CardinalityType
    <3> QED BY <3>4
  <2> QED BY <2>1
<1>4. Max(W) \in W /\ Max(X) \in X /\ \A m \in X : Max(X) >= m
  <2> HIDE DEF W, X
  <2> QED BY <1>1, <1>2, <1>3, MinMax
<1> QED
  BY <1>1, <1>3, <1>4 DEF HighestPriority

\* What pickOneNodeForPreemption gives is least by the criteria, one after the other.
LEMMA PickedIsLeast ==
    ASSUME NEW r \in pickOneNodeForPreemption
    PROVE  /\ r \in DOMAIN candidates
           /\ \A m \in DOMAIN candidates : HighestPriority(candidates[r]) <= HighestPriority(candidates[m])
           /\ \A m \in DOMAIN candidates :
                 (\A n \in DOMAIN candidates : HighestPriority(candidates[m]) <= HighestPriority(candidates[n]))
                 => SumPriorities(candidates[r]) <= SumPriorities(candidates[m])
           /\ \A m \in DOMAIN candidates :
                 /\ \A n \in DOMAIN candidates : HighestPriority(candidates[m]) <= HighestPriority(candidates[n])
                 /\ \A n \in DOMAIN candidates :
                       (\A k \in DOMAIN candidates : HighestPriority(candidates[n]) <= HighestPriority(candidates[k]))
                       => SumPriorities(candidates[m]) <= SumPriorities(candidates[n])
                 => Cardinality(candidates[r]) <= Cardinality(candidates[m])
<1> DEFINE High(n) == HighestPriority(candidates[n])
           Sum_(n) == SumPriorities(candidates[n])
           Size(n) == Cardinality(candidates[n])
           Start(n) == -GetEarliestPodStartTime(candidates[n])
           D == DOMAIN candidates
           A == {n \in D : \A m \in D : High(n) <= High(m)}
           B == {n \in A : \A m \in A : Sum_(n) <= Sum_(m)}
           C == {n \in B : \A m \in B : Size(n) <= Size(m)}
<1>1. r \in {n \in C : \A m \in C : Start(n) <= Start(m)}
  BY DEF pickOneNodeForPreemption, Least
<1> HIDE DEF High, Sum_, Size, Start, D
<1>2. r \in C
  BY <1>1
<1>3. /\ r \in D /\ \A m \in D : High(r) <= High(m)
      /\ \A m \in D : (\A n \in D : High(m) <= High(n)) => Sum_(r) <= Sum_(m)
      /\ \A m \in D : /\ \A n \in D : High(m) <= High(n)
                      /\ \A n \in D : (\A k \in D : High(n) <= High(k)) => Sum_(m) <= Sum_(n)
                      => Size(r) <= Size(m)
  BY <1>2
<1> QED
  BY <1>3 DEF High, Sum_, Size, D

\* The candidate that SelectCandidate may take.
Chosen ==
    IF Cardinality(DOMAIN candidates) = 1 THEN DOMAIN candidates ELSE pickOneNodeForPreemption

\* What the node of the nomination has to do with the candidates.
ChoiceInv ==
    /\ victims \subseteq Pods
    /\ IsFiniteSet(DOMAIN candidates)
    /\ \A n \in DOMAIN candidates : candidates[n] \subseteq Pods
    /\ phase = "prepare" => node \in Chosen
    /\ result # None => phase = "done" /\ result \in Chosen

\* Every step keeps ChoiceInv.
LEMMA ChoiceStep == ChoiceInv /\ [Next]_vars => ChoiceInv'
<1> SUFFICES ASSUME ChoiceInv, [Next]_vars PROVE ChoiceInv'
  OBVIOUS
<1> USE DEF ChoiceInv
<1>0. candidates' = candidates => Chosen' = Chosen
  BY DEF Chosen, pickOneNodeForPreemption, Least
<1>1. CASE PreFilter
  BY <1>0, <1>1 DEF PreFilter, dryRun
<1>2. CASE Filter
  BY <1>0, <1>2 DEF Filter, dryRun
<1>3. CASE FilterPanics
  BY <1>0, <1>3 DEF FilterPanics, dryRun
<1>4. CASE Score
  BY <1>0, <1>4 DEF Score, dryRun
<1>5. CASE NotEligible
  BY <1>0, <1>5 DEF NotEligible, dryRun
<1>6. CASE NoPotentialNodes
  BY <1>0, <1>6 DEF NoPotentialNodes, dryRun
<1>7. CASE FindCandidates
  BY <1>0, <1>7 DEF FindCandidates, dryRun
<1>8. ASSUME NEW n \in Nodes, StartNode(n) PROVE ChoiceInv'
  BY <1>0, <1>8 DEF StartNode
<1>9. ASSUME NEW q \in Pods, TakeOff(q) PROVE ChoiceInv'
  BY <1>0, <1>9 DEF TakeOff
<1>10. ASSUME NEW q \in Pods, TakeOffPanics(q) PROVE ChoiceInv'
  BY <1>0, <1>10 DEF TakeOffPanics, dryRun
<1>11. CASE CheckEmptied
  BY <1>0, <1>11 DEF CheckEmptied, dryRun
<1>12. ASSUME NEW q \in Pods, Reprieve(q) PROVE ChoiceInv'
  BY <1>0, <1>12 DEF Reprieve
<1>13. CASE EndNode
  <2>1. IsFiniteSet(DOMAIN candidates \cup {node})
    BY FS_AddElement
  <2>2. DOMAIN candidates' = DOMAIN candidates \cup {node}
    BY <1>13 DEF EndNode
  <2> QED BY <1>13, <2>1, <2>2 DEF EndNode, dryRun
<1>14. CASE NoCandidate
  BY <1>0, <1>14 DEF NoCandidate, dryRun
<1>15. CASE SelectCandidate
  <2>1. PICK n \in Chosen : node' = n /\ victims' = candidates[n]
    BY <1>15 DEF SelectCandidate, Chosen
  <2>2. n \in DOMAIN candidates
    BY <2>1, PickedIsLeast DEF Chosen
  <2> QED BY <1>0, <1>15, <2>1, <2>2 DEF SelectCandidate
<1>16. ASSUME NEW q \in Pods, DeleteVictim(q) PROVE ChoiceInv'
  BY <1>0, <1>16 DEF DeleteVictim
<1>17. CASE DeleteFails
  BY <1>0, <1>17 DEF DeleteFails, dryRun
<1>18. CASE Nominate
  BY <1>0, <1>18 DEF Nominate, dryRun
<1>19. CASE UNCHANGED vars
  BY <1>0, <1>19 DEF vars
<1> QED
  BY <1>1, <1>2, <1>3, <1>4, <1>5, <1>6, <1>7, <1>8, <1>9, <1>10, <1>11, <1>12, <1>13,
     <1>14, <1>15, <1>16, <1>17, <1>18, <1>19 DEF Next

\* Every candidate has a victim: what reading victims.Pods[0] takes for granted.
HaveVictims == \A n \in DOMAIN candidates : candidates[n] # {}

\* A choice that is least by the criteria is the best candidate.
LEMMA ChosenIsBest == ChoiceInv /\ HaveVictims => BestCandidate
<1> SUFFICES ASSUME ChoiceInv, HaveVictims, result # None,
                    NEW n \in DOMAIN candidates, n # result
             PROVE  /\ HighestPriority(candidates[result]) <= HighestPriority(candidates[n])
                    /\ ~Fewer(candidates[n], candidates[result])
  BY DEF BestCandidate
<1> DEFINE D == DOMAIN candidates
           High(m) == HighestPriority(candidates[m])
           Sum_(m) == SumPriorities(candidates[m])
<1>1. result \in pickOneNodeForPreemption
  <2>1. result \in Chosen
    BY DEF ChoiceInv
  <2>2. CASE Cardinality(D) = 1
    <3>1. result \in D
      BY <2>1, <2>2 DEF Chosen
    <3>2. \E d : D = {d}
      BY <2>2, FS_Singleton DEF ChoiceInv
    <3> QED BY <3>1, <3>2
  <2> QED BY <2>1, <2>2 DEF Chosen
<1>2. /\ result \in D
      /\ \A m \in D : High(result) <= High(m)
      /\ \A m \in D : (\A i \in D : High(m) <= High(i)) => Sum_(result) <= Sum_(m)
      /\ \A m \in D : /\ \A i \in D : High(m) <= High(i)
                      /\ \A i \in D : (\A k \in D : High(i) <= High(k)) => Sum_(m) <= Sum_(i)
                      => Cardinality(candidates[result]) <= Cardinality(candidates[m])
  BY <1>1, PickedIsLeast
<1>3. ASSUME Fewer(candidates[n], candidates[result]) PROVE FALSE
  <2>1. candidates[n] \in SUBSET Pods /\ candidates[result] \in SUBSET Pods /\ candidates[n] # {}
    BY <1>2 DEF ChoiceInv, HaveVictims
  <2>2. High(n) <= High(result)
    BY <1>3, <2>1, FewerHighest
  <2>3. Sum_(n) <= Sum_(result) /\ Cardinality(candidates[n]) < Cardinality(candidates[result])
    BY <1>3, <2>1, FewerPods
  <2>4. \A m \in D : High(m) \in Int
    BY HighestType DEF ChoiceInv, HaveVictims
  <2>5. \A m \in D : Sum_(m) \in Int
    BY SumPrioritiesType DEF ChoiceInv
  <2>6. Cardinality(candidates[n]) \in Nat /\ Cardinality(candidates[result]) \in Nat
    BY <2>1, PodsAssumption, FS_Subset, FS_CardinalityType
  <2> HIDE DEF High, Sum_
  <2>7. \A i \in D : High(n) <= High(i)
    BY <1>2, <2>2, <2>4
  <2>8. \A i \in D : (\A k \in D : High(i) <= High(k)) => Sum_(n) <= Sum_(i)
    BY <1>2, <2>3, <2>5
  <2>9. Cardinality(candidates[result]) <= Cardinality(candidates[n])
    BY <1>2, <2>7, <2>8
  <2> QED BY <2>3, <2>6, <2>9
<1> QED
  BY <1>2, <1>3

-----------------------------------------------------------------------------
(* The maps of InterPodAffinity.                                           *)

\* Maps from topology pairs to numbers, without zeros; what a map has for a pair; and
\* how many of a set of terms a pod on node n brings to the pair.
AllPairs == UNION {PairsOf(n) : n \in Nodes}
Maps == {m \in UNION {[D -> Int] : D \in SUBSET AllPairs} : \A pair \in DOMAIN m : m[pair] # 0}
Entry(m, pair) == IF pair \in DOMAIN m THEN m[pair] ELSE 0
HitsOf(n, terms, pair) == Cardinality({t \in terms : HasKey(n, t.key) /\ PairOf(n, t.key) = pair})

\* Maps with the same numbers are the same: none has a zero.
LEMMA SameMaps ==
    ASSUME NEW m \in Maps, NEW k \in Maps, \A pair \in AllPairs : Entry(m, pair) = Entry(k, pair)
    PROVE  m = k
<1>1. PICK D \in SUBSET AllPairs : m \in [D -> Int]
  BY DEF Maps
<1>2. PICK E \in SUBSET AllPairs : k \in [E -> Int]
  BY DEF Maps
<1>3. D = E
  BY <1>1, <1>2 DEF Maps, Entry
<1>4. \A pair \in D : m[pair] = k[pair]
  BY <1>1, <1>2, <1>3 DEF Entry
<1> QED
  BY <1>1, <1>2, <1>3, <1>4

\* The number of hits.
LEMMA HitsType ==
    ASSUME NEW n, NEW terms, IsFiniteSet(terms), NEW pair
    PROVE  HitsOf(n, terms, pair) \in Nat
<1>1. IsFiniteSet({t \in terms : HasKey(n, t.key) /\ PairOf(n, t.key) = pair})
  BY FS_Subset
<1> QED
  BY <1>1, FS_CardinalityType DEF HitsOf

\* Bumped adds the hits to the numbers and keeps the map free of zeros.
LEMMA BumpedEntries ==
    ASSUME NEW m \in Maps, NEW n \in Nodes, NEW terms, IsFiniteSet(terms), NEW value \in Int
    PROVE  /\ Bumped(m, n, terms, value) \in Maps
           /\ \A pair \in AllPairs :
                 Entry(Bumped(m, n, terms, value), pair) = Entry(m, pair) + value * HitsOf(n, terms, pair)
<1> DEFINE touched == {PairOf(n, t.key) : t \in {x \in terms : HasKey(n, x.key)}}
           New(pair) == Entry(m, pair) + value * HitsOf(n, terms, pair)
           D == {x \in DOMAIN m \cup touched : New(x) # 0}
           b == [pair \in D |-> New(pair)]
<1>1. Bumped(m, n, terms, value) = b
  BY DEF Bumped, Entry, HitsOf
<1>2. \A pair : HitsOf(n, terms, pair) \in Nat
  BY HitsType
<1>3. DOMAIN m \subseteq AllPairs /\ \A pair : Entry(m, pair) \in Int
  BY DEF Maps, Entry
<1>4. touched \subseteq AllPairs
  BY DEF AllPairs, PairsOf, HasKey
<1>5. \A pair : New(pair) \in Int
  <2>1. \A pair : value * HitsOf(n, terms, pair) \in Int
    BY <1>2
  <2> QED BY <1>3, <2>1
<1>6. ASSUME NEW pair \in AllPairs, pair \notin DOMAIN m \cup touched PROVE New(pair) = 0
  <2>1. {t \in terms : HasKey(n, t.key) /\ PairOf(n, t.key) = pair} = {}
    BY <1>6
  <2>2. HitsOf(n, terms, pair) = 0
    BY <2>1, FS_EmptySet DEF HitsOf
  <2>3. Entry(m, pair) = 0
    BY <1>6 DEF Entry
  <2> QED BY <2>2, <2>3
<1>7. D \in SUBSET AllPairs
  BY <1>3, <1>4
<1>8. \A pair \in AllPairs : pair \notin D => New(pair) = 0
  BY <1>6
<1>9. \A pair \in D : New(pair) # 0
  OBVIOUS
<1> HIDE DEF New, D, touched
<1>10. b \in [D -> Int] /\ \A pair \in DOMAIN b : b[pair] # 0
  BY <1>5, <1>9
<1>11. b \in Maps
  BY <1>7, <1>10 DEF Maps
<1>12. \A pair \in AllPairs : Entry(b, pair) = New(pair)
  BY <1>8 DEF Entry
<1> QED
  BY <1>1, <1>11, <1>12 DEF New

\* The map without entries.
LEMMA EmptyMapEntries == EmptyMap \in Maps /\ \A pair : Entry(EmptyMap, pair) = 0
<1>1. EmptyMap \in [{} -> Int] /\ DOMAIN EmptyMap = {}
  BY DEF EmptyMap
<1>2. {} \in SUBSET AllPairs
  OBVIOUS
<1> QED
  BY <1>1, <1>2 DEF Maps, Entry

\* The terms that count for each pod, by map: of the existing pod q about the
\* incoming pod p, and of p about q.
ExistingTerms(p) == [q \in Pods |-> {t \in PodSpec[q].antiAffinity : PodMatchesTerm(p, t)}]
AffinityTerms(p) ==
    [q \in Pods |-> IF podMatchesAllAffinityTerms(q, PodSpec[p].affinity) THEN PodSpec[p].affinity ELSE {}]
AntiTerms(p) == [q \in Pods |-> {t \in PodSpec[p].antiAffinity : PodMatchesTerm(q, t)}]

\* No pod has infinitely many of the terms.
FiniteTerms(T) == \A q \in Pods : IsFiniteSet(T[q])

\* The terms of each of the three maps are finitely many.
LEMMA TermsFinite ==
    ASSUME NEW p \in Pods
    PROVE  FiniteTerms(ExistingTerms(p)) /\ FiniteTerms(AffinityTerms(p)) /\ FiniteTerms(AntiTerms(p))
<1>1. FiniteTerms(ExistingTerms(p))
  BY TermsAssumption, FS_Subset DEF FiniteTerms, ExistingTerms
<1>2. FiniteTerms(AffinityTerms(p))
  BY TermsAssumption, FS_EmptySet DEF FiniteTerms, AffinityTerms
<1>3. FiniteTerms(AntiTerms(p))
  BY TermsAssumption, FS_Subset DEF FiniteTerms, AntiTerms
<1> QED
  BY <1>1, <1>2, <1>3

\* The three updates of a map are Bumped with these terms.
LEMMA UpdatesAreBumps ==
    ASSUME NEW p \in Pods, NEW q \in Pods, NEW m \in Maps, NEW n \in Nodes, NEW value \in Int
    PROVE  /\ updateWithAntiAffinityTerms(m, p, n, PodSpec[q].antiAffinity, value)
                = Bumped(m, n, ExistingTerms(p)[q], value)
           /\ updateWithAffinityTerms(m, q, n, PodSpec[p].affinity, value)
                = Bumped(m, n, AffinityTerms(p)[q], value)
           /\ updateWithAntiAffinityTerms(m, q, n, PodSpec[p].antiAffinity, value)
                = Bumped(m, n, AntiTerms(p)[q], value)
<1>1. Bumped(m, n, {}, value) = m
  <2>1. \A pair : HitsOf(n, {}, pair) = 0
    <3>1. \A pair : {t \in {} : HasKey(n, t.key) /\ PairOf(n, t.key) = pair} = {}
      OBVIOUS
    <3> QED BY <3>1, FS_EmptySet DEF HitsOf
  <2>2. /\ Bumped(m, n, {}, value) \in Maps
        /\ \A pair \in AllPairs : Entry(Bumped(m, n, {}, value), pair) = Entry(m, pair) + value * HitsOf(n, {}, pair)
    BY BumpedEntries, FS_EmptySet
  <2>3. \A pair : Entry(m, pair) \in Int
    BY DEF Maps, Entry
  <2>4. \A pair \in AllPairs : Entry(Bumped(m, n, {}, value), pair) = Entry(m, pair)
    BY <2>1, <2>2, <2>3
  <2> QED BY <2>2, <2>4, SameMaps
<1>2. updateWithAffinityTerms(m, q, n, PodSpec[p].affinity, value) = Bumped(m, n, AffinityTerms(p)[q], value)
  BY <1>1 DEF updateWithAffinityTerms, AffinityTerms
<1> QED
  BY <1>2 DEF updateWithAntiAffinityTerms, ExistingTerms, AntiTerms

\* The placements: the node of each pod that has one.
Placements == [Pods -> Nodes \cup {None}]

\* What each pod brings to the pair, where the placement has it.
Points(T, a, pair) == [q \in Pods |-> IF a[q] = None THEN 0 ELSE HitsOf(a[q], T[q], pair)]

\* The map has, for every pair, what the placed pods bring to it.
IsTally(m, T, a) ==
    /\ m \in Maps
    /\ \A pair \in AllPairs : \A g : IsSum(g, Points(T, a, pair), Pods) => Entry(m, pair) = g[Pods]

\* What a pod brings is a number.
LEMMA PointsType ==
    ASSUME NEW T, FiniteTerms(T), NEW a, NEW pair
    PROVE  Points(T, a, pair) \in [Pods -> Int]
<1>1. \A q \in Pods : HitsOf(a[q], T[q], pair) \in Nat
  BY HitsType DEF FiniteTerms
<1> QED
  BY <1>1 DEF Points

\* There is one such map.
LEMMA OneTally ==
    ASSUME NEW T, FiniteTerms(T), NEW a, NEW m, NEW k, IsTally(m, T, a), IsTally(k, T, a)
    PROVE  m = k
<1>1. ASSUME NEW pair \in AllPairs PROVE Entry(m, pair) = Entry(k, pair)
  <2>1. PICK g : IsSum(g, Points(T, a, pair), Pods)
    BY PointsType, PodsAssumption, SumExists
  <2> QED BY <2>1 DEF IsTally
<1> QED
  BY <1>1, SameMaps DEF IsTally

\* One pod more, or one less, is one Bumped more or less.
LEMMA TallyChange ==
    ASSUME NEW T, FiniteTerms(T), NEW a \in Placements, NEW q \in Pods, a[q] = None, NEW n \in Nodes
    PROVE  /\ \A m : IsTally(m, T, a) => IsTally(Bumped(m, n, T[q], 1), T, [a EXCEPT ![q] = n])
           /\ \A m : IsTally(m, T, [a EXCEPT ![q] = n]) => IsTally(Bumped(m, n, T[q], -1), T, a)
<1> DEFINE b == [a EXCEPT ![q] = n]
           H(pair) == HitsOf(n, T[q], pair)
<1>0. IsFiniteSet(T[q])
  BY DEF FiniteTerms
<1>1. ASSUME NEW pair, NEW g, NEW h, IsSum(g, Points(T, a, pair), Pods), IsSum(h, Points(T, b, pair), Pods)
      PROVE  g[Pods] \in Int /\ h[Pods] = g[Pods] + H(pair)
  <2> DEFINE f == Points(T, a, pair)
             e == Points(T, b, pair)
             R == Pods \ {q}
  <2>1. f[q] = 0 /\ e[q] = H(pair)
    BY CycleAssumption DEF Points, Placements
  <2>2. \A x \in R : f[x] = e[x]
    BY DEF Points, Placements
  <2> HIDE DEF f, e
  <2>3. g[R] = h[R]
    <3>1. R \subseteq Pods
      OBVIOUS
    <3>2. IsSum(g, f, Pods) /\ IsSum(h, e, Pods)
      BY <1>1 DEF f, e
    <3> HIDE DEF R
    <3> QED BY <2>2, <3>1, <3>2, PodsAssumption, SumSame
  <2>4. g[Pods] = f[q] + g[R] /\ h[Pods] = e[q] + h[R] /\ g[R] \in Int
    BY <1>1 DEF IsSum, f, e
  <2>5. H(pair) \in Nat
    BY <1>0, HitsType
  <2> HIDE DEF R, H
  <2> QED BY <2>1, <2>3, <2>4, <2>5
<1>2. ASSUME NEW m, IsTally(m, T, a) PROVE IsTally(Bumped(m, n, T[q], 1), T, b)
  <2>1. /\ Bumped(m, n, T[q], 1) \in Maps
        /\ \A pair \in AllPairs : Entry(Bumped(m, n, T[q], 1), pair) = Entry(m, pair) + 1 * H(pair)
    BY <1>0, <1>2, BumpedEntries DEF IsTally
  <2>2. ASSUME NEW pair \in AllPairs, NEW h, IsSum(h, Points(T, b, pair), Pods)
        PROVE  Entry(Bumped(m, n, T[q], 1), pair) = h[Pods]
    <3>1. PICK g : IsSum(g, Points(T, a, pair), Pods)
      BY PointsType, PodsAssumption, SumExists
    <3>2. Entry(m, pair) = g[Pods]
      BY <1>2, <3>1 DEF IsTally
    <3>3. g[Pods] \in Int /\ h[Pods] = g[Pods] + H(pair)
      BY <1>1, <2>2, <3>1
    <3>4. H(pair) \in Nat
      BY <1>0, HitsType
    <3> HIDE DEF H
    <3> QED BY <2>1, <3>2, <3>3, <3>4
  <2> HIDE DEF b
  <2> QED BY <2>1, <2>2 DEF IsTally
<1>3. ASSUME NEW m, IsTally(m, T, b) PROVE IsTally(Bumped(m, n, T[q], -1), T, a)
  <2>1. /\ Bumped(m, n, T[q], -1) \in Maps
        /\ \A pair \in AllPairs : Entry(Bumped(m, n, T[q], -1), pair) = Entry(m, pair) + (-1) * H(pair)
    BY <1>0, <1>3, BumpedEntries DEF IsTally
  <2>2. ASSUME NEW pair \in AllPairs, NEW g, IsSum(g, Points(T, a, pair), Pods)
        PROVE  Entry(Bumped(m, n, T[q], -1), pair) = g[Pods]
    <3>1. PICK h : IsSum(h, Points(T, b, pair), Pods)
      BY PointsType, PodsAssumption, SumExists
    <3>2. Entry(m, pair) = h[Pods]
      BY <1>3, <3>1 DEF IsTally
    <3>3. g[Pods] \in Int /\ h[Pods] = g[Pods] + H(pair)
      BY <1>1, <2>2, <3>1
    <3>4. H(pair) \in Nat
      BY <1>0, HitsType
    <3> HIDE DEF H
    <3> QED BY <2>1, <3>2, <3>3, <3>4
  <2> HIDE DEF b
  <2> QED BY <2>1, <2>2 DEF IsTally
<1> QED
  BY <1>2, <1>3

\* The rule of the function that bumps a map for one pod of a set after the other.
BumpRule(g, T, a, S) ==
    \A s \in SUBSET S :
        g[s] = IF s = {} THEN EmptyMap ELSE Bumped(g[s \ {Pick(s)}], a[Pick(s)], T[Pick(s)], 1)

\* It exists.
LEMMA BumpExists ==
    ASSUME NEW T, FiniteTerms(T), NEW a \in Placements, NEW S \in SUBSET Pods, \A q \in S : a[q] # None
    PROVE  \E g \in [SUBSET S -> Maps] : BumpRule(g, T, a, S)
<1> DEFINE step == [z \in S \X Maps |-> Bumped(z[2], a[z[1]], T[z[1]], 1)]
<1>1. step \in [S \X Maps -> Maps]
  <2>1. ASSUME NEW z \in S \X Maps PROVE Bumped(z[2], a[z[1]], T[z[1]], 1) \in Maps
    <3>1. z[1] \in S /\ z[2] \in Maps
      OBVIOUS
    <3>2. a[z[1]] \in Nodes /\ IsFiniteSet(T[z[1]])
      BY <3>1 DEF Placements, FiniteTerms
    <3> QED BY <3>1, <3>2, BumpedEntries
  <2> QED BY <2>1
<1>2. IsFiniteSet(S)
  BY PodsAssumption, FS_Subset
<1>3. PICK g \in [SUBSET S -> Maps] : FoldRule(g, EmptyMap, step, S)
  <2> HIDE DEF step
  <2> QED BY <1>1, <1>2, EmptyMapEntries, FoldExists
<1>4. ASSUME NEW s \in SUBSET S
      PROVE  g[s] = IF s = {} THEN EmptyMap ELSE Bumped(g[s \ {Pick(s)}], a[Pick(s)], T[Pick(s)], 1)
  <2>1. g[s] = IF s = {} THEN EmptyMap ELSE step[<<Pick(s), g[s \ {Pick(s)}]>>]
    <3> HIDE DEF step
    <3> QED BY <1>3 DEF FoldRule
  <2>2. CASE s # {}
    <3>1. Pick(s) \in S /\ s \ {Pick(s)} \in SUBSET S
      BY <2>2 DEF Pick
    <3>2. <<Pick(s), g[s \ {Pick(s)}]>> \in S \X Maps
      BY <1>3, <3>1
    <3>3. step[<<Pick(s), g[s \ {Pick(s)}]>>] = Bumped(g[s \ {Pick(s)}], a[Pick(s)], T[Pick(s)], 1)
      BY <3>2
    <3> QED BY <2>1, <2>2, <3>3
  <2> QED BY <2>1, <2>2
<1> QED
  BY <1>3, <1>4 DEF BumpRule

\* It tallies the pods of the set; pods left out do not count when they have no terms.
LEMMA BumpTallies ==
    ASSUME NEW T, FiniteTerms(T), NEW a \in Placements, NEW S \in SUBSET Pods, \A q \in S : a[q] # None,
           \A q \in Pods \ S : a[q] = None \/ T[q] = {},
           NEW g \in [SUBSET S -> Maps], BumpRule(g, T, a, S)
    PROVE  IsTally(g[S], T, a)
<1> SUFFICES ASSUME NEW pair \in AllPairs, NEW h, IsSum(h, Points(T, a, pair), Pods)
             PROVE  Entry(g[S], pair) = h[Pods]
  BY DEF IsTally
<1> DEFINE f == Points(T, a, pair)
           G == {s \in SUBSET S : Entry(g[s], pair) = h[s]}
           K == {s \in SUBSET (Pods \ S) : h[s \cup S] = h[S]}
<1>0. IsFiniteSet(S) /\ IsFiniteSet(Pods \ S) /\ f \in [Pods -> Int]
  BY PodsAssumption, FS_Subset, PointsType
<1>1. {} \in G
  BY EmptyMapEntries DEF BumpRule, IsSum
<1>2. ASSUME NEW s \in SUBSET S, s # {} /\ Pick(s) \in s /\ s \ {Pick(s)} \in G PROVE s \in G
  <2> DEFINE x == Pick(s)
             r == s \ {x}
  <2>1. x \in S /\ x \in Pods /\ a[x] \in Nodes /\ IsFiniteSet(T[x]) /\ r \in SUBSET S
    BY <1>2 DEF Placements, FiniteTerms
  <2>2. g[s] = Bumped(g[r], a[x], T[x], 1)
    BY <1>2 DEF BumpRule
  <2>3. h[s] = f[x] + h[r] /\ h[r] \in Int
    BY <1>2 DEF IsSum
  <2>4. f[x] = HitsOf(a[x], T[x], pair)
    BY <2>1 DEF Points
  <2>5. Entry(g[r], pair) = h[r]
    BY <1>2
  <2> HIDE DEF x, r, f
  <2>6. Entry(g[s], pair) = Entry(g[r], pair) + 1 * HitsOf(a[x], T[x], pair)
    BY <2>1, <2>2, BumpedEntries
  <2>7. HitsOf(a[x], T[x], pair) \in Nat
    BY <2>1, HitsType
  <2> QED BY <2>3, <2>4, <2>5, <2>6, <2>7
<1>3. S \in G
  <2> HIDE DEF G
  <2> QED BY <1>0, <1>1, <1>2, SubsetInduction
<1>4. {} \in K
  OBVIOUS
<1>5. ASSUME NEW s \in SUBSET (Pods \ S), s # {} /\ Pick(s) \in s /\ s \ {Pick(s)} \in K PROVE s \in K
  <2> DEFINE x == Pick(s)
  <2>1. x \in Pods \ S /\ x \in s
    BY <1>5
  <2> HIDE DEF x
  <2>2. f[x] = 0
    <3>1. CASE T[x] = {}
      <4>1. {t \in T[x] : HasKey(a[x], t.key) /\ PairOf(a[x], t.key) = pair} = {}
        BY <3>1
      <4>2. HitsOf(a[x], T[x], pair) = 0
        BY <4>1, FS_EmptySet DEF HitsOf
      <4> QED BY <2>1, <4>2 DEF Points
    <3> QED BY <2>1, <3>1 DEF Points
  <2>3. s \cup S \in SUBSET Pods /\ x \in s \cup S /\ (s \cup S) \ {x} = (s \ {x}) \cup S
    BY <2>1
  <2> HIDE DEF f
  <2>4. h[s \cup S] = f[x] + h[(s \cup S) \ {x}]
    BY <2>3 DEF IsSum, f
  <2>5. h[(s \ {x}) \cup S] = h[S] /\ h[S] \in Int
    BY <1>5 DEF IsSum, x
  <2>6. h[(s \cup S) \ {x}] = h[S]
    BY <2>3, <2>5, Zenon
  <2> QED BY <2>2, <2>4, <2>5, <2>6
<1>6. Pods \ S \in K
  <2> HIDE DEF K
  <2> QED BY <1>0, <1>4, <1>5, SubsetInduction
<1>7. (Pods \ S) \cup S = Pods
  OBVIOUS
<1> QED
  BY <1>3, <1>6, <1>7

\* The map of existing pods' anti-affinity terms tallies them: a pod without affinity has
\* none to pass over.
LEMMA ExistingTally ==
    ASSUME NEW p \in Pods, NEW a \in Placements
    PROVE  IsTally(getTPMapMatchingExistingAntiAffinity(p, a), ExistingTerms(p), a)
<1> DEFINE S == {q \in Pods : a[q] # None /\ HasAffinity(q)}
           T == ExistingTerms(p)
           Rec(h) == [s \in SUBSET S |-> IF s = {} THEN EmptyMap
                         ELSE updateWithAntiAffinityTerms(h[s \ {Pick(s)}], p, a[Pick(s)], PodSpec[Pick(s)].antiAffinity, 1)]
           iter == CHOOSE h : h = Rec(h)
<1>1. FiniteTerms(T) /\ IsFiniteSet(S) /\ S \in SUBSET Pods /\ \A q \in S : a[q] # None
  BY TermsFinite, PodsAssumption, FS_Subset
<1>2. \A q \in Pods \ S : a[q] = None \/ T[q] = {}
  BY DEF ExistingTerms, HasAffinity
<1>3. PICK g \in [SUBSET S -> Maps] : BumpRule(g, T, a, S)
  <2> HIDE DEF S, T
  <2> QED BY <1>1, BumpExists
<1>4. ASSUME NEW s \in SUBSET S, s # {}
      PROVE  /\ Pick(s) \in s
             /\ updateWithAntiAffinityTerms(g[s \ {Pick(s)}], p, a[Pick(s)], PodSpec[Pick(s)].antiAffinity, 1)
                  = Bumped(g[s \ {Pick(s)}], a[Pick(s)], T[Pick(s)], 1)
  <2>1. Pick(s) \in s
    BY <1>4 DEF Pick
  <2>2. Pick(s) \in Pods /\ a[Pick(s)] \in Nodes /\ g[s \ {Pick(s)}] \in Maps
    BY <1>1, <1>3, <2>1 DEF Placements
  <2>3. \A x \in Pods, n \in Nodes, m \in Maps :
           updateWithAntiAffinityTerms(m, p, n, PodSpec[x].antiAffinity, 1) = Bumped(m, n, T[x], 1)
    BY UpdatesAreBumps
  <2> HIDE DEF T
  <2> QED BY <2>1, <2>2, <2>3
<1>5. g = Rec(g)
  <2>1. ASSUME NEW s \in SUBSET S
        PROVE  g[s] = IF s = {} THEN EmptyMap
                      ELSE updateWithAntiAffinityTerms(g[s \ {Pick(s)}], p, a[Pick(s)], PodSpec[Pick(s)].antiAffinity, 1)
    BY <1>3, <1>4 DEF BumpRule
  <2> HIDE DEF S
  <2> QED BY <1>3, <2>1
<1>6. iter = Rec(iter)
  <2> HIDE DEF Rec
  <2> QED BY <1>5
<1>7. getTPMapMatchingExistingAntiAffinity(p, a) = iter[S]
  BY DEF getTPMapMatchingExistingAntiAffinity, FoldSet, MapThenFoldSet, Pick
<1>8. \A s \in SUBSET S : iter[s] = IF s = {} THEN EmptyMap
                         ELSE updateWithAntiAffinityTerms(iter[s \ {Pick(s)}], p, a[Pick(s)], PodSpec[Pick(s)].antiAffinity, 1)
  <2> HIDE DEF iter, S
  <2> QED BY <1>6
<1> HIDE DEF iter
<1> DEFINE G == {s \in SUBSET S : iter[s] = g[s]}
<1>9. {} \in G
  BY <1>3, <1>8 DEF BumpRule
<1>10. ASSUME NEW s \in SUBSET S, s # {} /\ Pick(s) \in s /\ s \ {Pick(s)} \in G PROVE s \in G
  <2>1. iter[s \ {Pick(s)}] = g[s \ {Pick(s)}]
    BY <1>10
  <2>2. g[s] = updateWithAntiAffinityTerms(g[s \ {Pick(s)}], p, a[Pick(s)], PodSpec[Pick(s)].antiAffinity, 1)
    BY <1>3, <1>4, <1>10 DEF BumpRule
  <2>3. iter[s] = updateWithAntiAffinityTerms(iter[s \ {Pick(s)}], p, a[Pick(s)], PodSpec[Pick(s)].antiAffinity, 1)
    BY <1>8, <1>10
  <2> QED BY <2>1, <2>2, <2>3
<1>11. SUBSET S \subseteq G
  <2> HIDE DEF G, S
  <2> QED BY <1>1, <1>9, <1>10, SubsetInduction
<1>12. iter[S] = g[S]
  BY <1>11
<1>13. IsTally(g[S], T, a)
  <2> HIDE DEF S, T
  <2> QED BY <1>1, <1>2, <1>3, BumpTallies
<1> QED
  BY <1>7, <1>12, <1>13

\* The map of the incoming pod's affinity terms tallies the pods that match them all.
LEMMA AffinityTally ==
    ASSUME NEW p \in Pods, NEW a \in Placements
    PROVE  IsTally(getTPMapMatchingIncomingAffinity(p, a), AffinityTerms(p), a)
<1> DEFINE S == {q \in Pods : a[q] # None}
           T == AffinityTerms(p)
           Rec(h) == [s \in SUBSET S |-> IF s = {} THEN EmptyMap
                         ELSE updateWithAffinityTerms(h[s \ {Pick(s)}], Pick(s), a[Pick(s)], PodSpec[p].affinity, 1)]
           iter == CHOOSE h : h = Rec(h)
<1>1. FiniteTerms(T) /\ IsFiniteSet(S) /\ S \in SUBSET Pods /\ \A q \in S : a[q] # None
  BY TermsFinite, PodsAssumption, FS_Subset
<1>2. \A q \in Pods \ S : a[q] = None \/ T[q] = {}
  BY DEF AffinityTerms
<1>3. PICK g \in [SUBSET S -> Maps] : BumpRule(g, T, a, S)
  <2> HIDE DEF S, T
  <2> QED BY <1>1, BumpExists
<1>4. ASSUME NEW s \in SUBSET S, s # {}
      PROVE  /\ Pick(s) \in s
             /\ updateWithAffinityTerms(g[s \ {Pick(s)}], Pick(s), a[Pick(s)], PodSpec[p].affinity, 1)
                  = Bumped(g[s \ {Pick(s)}], a[Pick(s)], T[Pick(s)], 1)
  <2>1. Pick(s) \in s
    BY <1>4 DEF Pick
  <2>2. Pick(s) \in Pods /\ a[Pick(s)] \in Nodes /\ g[s \ {Pick(s)}] \in Maps
    BY <1>1, <1>3, <2>1 DEF Placements
  <2>3. \A x \in Pods, n \in Nodes, m \in Maps :
           updateWithAffinityTerms(m, x, n, PodSpec[p].affinity, 1) = Bumped(m, n, T[x], 1)
    BY UpdatesAreBumps
  <2> HIDE DEF T
  <2> QED BY <2>1, <2>2, <2>3
<1>5. g = Rec(g)
  <2>1. ASSUME NEW s \in SUBSET S
        PROVE  g[s] = IF s = {} THEN EmptyMap
                      ELSE updateWithAffinityTerms(g[s \ {Pick(s)}], Pick(s), a[Pick(s)], PodSpec[p].affinity, 1)
    BY <1>3, <1>4 DEF BumpRule
  <2> HIDE DEF S
  <2> QED BY <1>3, <2>1
<1>6. iter = Rec(iter)
  <2> HIDE DEF Rec
  <2> QED BY <1>5
<1>7. getTPMapMatchingIncomingAffinity(p, a) = iter[S]
  BY DEF getTPMapMatchingIncomingAffinity, FoldSet, MapThenFoldSet, Pick
<1>8. \A s \in SUBSET S : iter[s] = IF s = {} THEN EmptyMap
                         ELSE updateWithAffinityTerms(iter[s \ {Pick(s)}], Pick(s), a[Pick(s)], PodSpec[p].affinity, 1)
  <2> HIDE DEF iter, S
  <2> QED BY <1>6
<1> HIDE DEF iter
<1> DEFINE G == {s \in SUBSET S : iter[s] = g[s]}
<1>9. {} \in G
  BY <1>3, <1>8 DEF BumpRule
<1>10. ASSUME NEW s \in SUBSET S, s # {} /\ Pick(s) \in s /\ s \ {Pick(s)} \in G PROVE s \in G
  <2>1. iter[s \ {Pick(s)}] = g[s \ {Pick(s)}]
    BY <1>10
  <2>2. g[s] = updateWithAffinityTerms(g[s \ {Pick(s)}], Pick(s), a[Pick(s)], PodSpec[p].affinity, 1)
    BY <1>3, <1>4, <1>10 DEF BumpRule
  <2>3. iter[s] = updateWithAffinityTerms(iter[s \ {Pick(s)}], Pick(s), a[Pick(s)], PodSpec[p].affinity, 1)
    BY <1>8, <1>10
  <2> QED BY <2>1, <2>2, <2>3
<1>11. SUBSET S \subseteq G
  <2> HIDE DEF G, S
  <2> QED BY <1>1, <1>9, <1>10, SubsetInduction
<1>12. iter[S] = g[S]
  BY <1>11
<1>13. IsTally(g[S], T, a)
  <2> HIDE DEF S, T
  <2> QED BY <1>1, <1>2, <1>3, BumpTallies
<1> QED
  BY <1>7, <1>12, <1>13

\* The map of the incoming pod's anti-affinity terms tallies the terms pods match.
LEMMA AntiTally ==
    ASSUME NEW p \in Pods, NEW a \in Placements
    PROVE  IsTally(getTPMapMatchingIncomingAntiAffinity(p, a), AntiTerms(p), a)
<1> DEFINE S == {q \in Pods : a[q] # None}
           T == AntiTerms(p)
           Rec(h) == [s \in SUBSET S |-> IF s = {} THEN EmptyMap
                         ELSE updateWithAntiAffinityTerms(h[s \ {Pick(s)}], Pick(s), a[Pick(s)], PodSpec[p].antiAffinity, 1)]
           iter == CHOOSE h : h = Rec(h)
<1>1. FiniteTerms(T) /\ IsFiniteSet(S) /\ S \in SUBSET Pods /\ \A q \in S : a[q] # None
  BY TermsFinite, PodsAssumption, FS_Subset
<1>2. \A q \in Pods \ S : a[q] = None \/ T[q] = {}
  BY DEF AntiTerms
<1>3. PICK g \in [SUBSET S -> Maps] : BumpRule(g, T, a, S)
  <2> HIDE DEF S, T
  <2> QED BY <1>1, BumpExists
<1>4. ASSUME NEW s \in SUBSET S, s # {}
      PROVE  /\ Pick(s) \in s
             /\ updateWithAntiAffinityTerms(g[s \ {Pick(s)}], Pick(s), a[Pick(s)], PodSpec[p].antiAffinity, 1)
                  = Bumped(g[s \ {Pick(s)}], a[Pick(s)], T[Pick(s)], 1)
  <2>1. Pick(s) \in s
    BY <1>4 DEF Pick
  <2>2. Pick(s) \in Pods /\ a[Pick(s)] \in Nodes /\ g[s \ {Pick(s)}] \in Maps
    BY <1>1, <1>3, <2>1 DEF Placements
  <2>3. \A x \in Pods, n \in Nodes, m \in Maps :
           updateWithAntiAffinityTerms(m, x, n, PodSpec[p].antiAffinity, 1) = Bumped(m, n, T[x], 1)
    BY UpdatesAreBumps
  <2> HIDE DEF T
  <2> QED BY <2>1, <2>2, <2>3
<1>5. g = Rec(g)
  <2>1. ASSUME NEW s \in SUBSET S
        PROVE  g[s] = IF s = {} THEN EmptyMap
                      ELSE updateWithAntiAffinityTerms(g[s \ {Pick(s)}], Pick(s), a[Pick(s)], PodSpec[p].antiAffinity, 1)
    BY <1>3, <1>4 DEF BumpRule
  <2> HIDE DEF S
  <2> QED BY <1>3, <2>1
<1>6. iter = Rec(iter)
  <2> HIDE DEF Rec
  <2> QED BY <1>5
<1>7. getTPMapMatchingIncomingAntiAffinity(p, a) = iter[S]
  BY DEF getTPMapMatchingIncomingAntiAffinity, FoldSet, MapThenFoldSet, Pick
<1>8. \A s \in SUBSET S : iter[s] = IF s = {} THEN EmptyMap
                         ELSE updateWithAntiAffinityTerms(iter[s \ {Pick(s)}], Pick(s), a[Pick(s)], PodSpec[p].antiAffinity, 1)
  <2> HIDE DEF iter, S
  <2> QED BY <1>6
<1> HIDE DEF iter
<1> DEFINE G == {s \in SUBSET S : iter[s] = g[s]}
<1>9. {} \in G
  BY <1>3, <1>8 DEF BumpRule
<1>10. ASSUME NEW s \in SUBSET S, s # {} /\ Pick(s) \in s /\ s \ {Pick(s)} \in G PROVE s \in G
  <2>1. iter[s \ {Pick(s)}] = g[s \ {Pick(s)}]
    BY <1>10
  <2>2. g[s] = updateWithAntiAffinityTerms(g[s \ {Pick(s)}], Pick(s), a[Pick(s)], PodSpec[p].antiAffinity, 1)
    BY <1>3, <1>4, <1>10 DEF BumpRule
  <2>3. iter[s] = updateWithAntiAffinityTerms(iter[s \ {Pick(s)}], Pick(s), a[Pick(s)], PodSpec[p].antiAffinity, 1)
    BY <1>8, <1>10
  <2> QED BY <2>1, <2>2, <2>3
<1>11. SUBSET S \subseteq G
  <2> HIDE DEF G, S
  <2> QED BY <1>1, <1>9, <1>10, SubsetInduction
<1>12. iter[S] = g[S]
  BY <1>11
<1>13. IsTally(g[S], T, a)
  <2> HIDE DEF S, T
  <2> QED BY <1>1, <1>2, <1>3, BumpTallies
<1> QED
  BY <1>7, <1>12, <1>13

\* The three maps of a state are the tallies of a placement.
States == [existing : Maps, affinity : Maps, anti : Maps]
IsTallies(s, p, a) ==
    /\ s \in States
    /\ IsTally(s.existing, ExistingTerms(p), a)
    /\ IsTally(s.affinity, AffinityTerms(p), a)
    /\ IsTally(s.anti, AntiTerms(p), a)

\* PreFilter makes them.
LEMMA PreFilterTallies ==
    ASSUME NEW p \in Pods, NEW a \in Placements
    PROVE  IsTallies(AffinityPreFilter(p, a), p, a)
<1> DEFINE e == getTPMapMatchingExistingAntiAffinity(p, a)
           f == getTPMapMatchingIncomingAffinity(p, a)
           g == getTPMapMatchingIncomingAntiAffinity(p, a)
<1>1. IsTally(e, ExistingTerms(p), a) /\ IsTally(f, AffinityTerms(p), a) /\ IsTally(g, AntiTerms(p), a)
  BY ExistingTally, AffinityTally, AntiTally
<1>2. AffinityPreFilter(p, a) = [existing |-> e, affinity |-> f, anti |-> g]
  BY DEF AffinityPreFilter
<1>3. e \in Maps /\ f \in Maps /\ g \in Maps
  BY <1>1 DEF IsTally
<1> HIDE DEF e, f, g
<1> QED
  BY <1>1, <1>2, <1>3 DEF IsTallies, States

\* There is one such state.
LEMMA OneState ==
    ASSUME NEW p \in Pods, NEW a, NEW s, NEW t, IsTallies(s, p, a), IsTallies(t, p, a)
    PROVE  s = t
<1>1. s.existing = t.existing /\ s.affinity = t.affinity /\ s.anti = t.anti
  BY TermsFinite, OneTally DEF IsTallies
<1> QED
  BY <1>1 DEF IsTallies, States

\* The update of a state for one pod.
LEMMA UpdateFields ==
    ASSUME NEW p \in Pods, NEW q \in Pods, NEW n \in Nodes, NEW value \in Int, NEW s \in States
    PROVE  /\ AffinityUpdateWithPod(s, q, p, n, value) \in States
           /\ AffinityUpdateWithPod(s, q, p, n, value).existing = Bumped(s.existing, n, ExistingTerms(p)[q], value)
           /\ AffinityUpdateWithPod(s, q, p, n, value).affinity = Bumped(s.affinity, n, AffinityTerms(p)[q], value)
           /\ AffinityUpdateWithPod(s, q, p, n, value).anti = Bumped(s.anti, n, AntiTerms(p)[q], value)
<1> DEFINE e == Bumped(s.existing, n, ExistingTerms(p)[q], value)
           f == Bumped(s.affinity, n, AffinityTerms(p)[q], value)
           g == Bumped(s.anti, n, AntiTerms(p)[q], value)
<1>1. s.existing \in Maps /\ s.affinity \in Maps /\ s.anti \in Maps
  BY DEF States
<1>2. e \in Maps /\ f \in Maps /\ g \in Maps
  BY <1>1, TermsFinite, BumpedEntries DEF FiniteTerms
<1>3. /\ updateWithAntiAffinityTerms(s.existing, p, n, PodSpec[q].antiAffinity, value) = e
      /\ updateWithAffinityTerms(s.affinity, q, n, PodSpec[p].affinity, value) = f
      /\ updateWithAntiAffinityTerms(s.anti, q, n, PodSpec[p].antiAffinity, value) = g
  BY <1>1, UpdatesAreBumps
<1>4. AffinityUpdateWithPod(s, q, p, n, value) = [existing |-> e, affinity |-> f, anti |-> g]
  BY <1>3 DEF AffinityUpdateWithPod
<1> HIDE DEF e, f, g
<1> QED
  BY <1>2, <1>4 DEF States, e, f, g

\* AddPod of the PreFilter extensions gives the state that PreFilter would compute
\* with the pod on the node.
LEMMA UpdateAdds ==
    ASSUME NEW p \in Pods, NEW a \in Placements, NEW q \in Pods, a[q] = None, NEW n \in Nodes
    PROVE  AffinityUpdateWithPod(AffinityPreFilter(p, a), q, p, n, 1) = AffinityPreFilter(p, [a EXCEPT ![q] = n])
<1> DEFINE s == AffinityPreFilter(p, a)
           b == [a EXCEPT ![q] = n]
           t == AffinityUpdateWithPod(s, q, p, n, 1)
<1>1. IsTallies(s, p, a)
  BY PreFilterTallies
<1>2. b \in Placements
  BY DEF Placements
<1>3. IsTallies(AffinityPreFilter(p, b), p, b)
  BY <1>2, PreFilterTallies
<1> HIDE DEF s
<1>4. /\ t \in States
      /\ t.existing = Bumped(s.existing, n, ExistingTerms(p)[q], 1)
      /\ t.affinity = Bumped(s.affinity, n, AffinityTerms(p)[q], 1)
      /\ t.anti = Bumped(s.anti, n, AntiTerms(p)[q], 1)
  BY <1>1, UpdateFields DEF IsTallies
<1>5. IsTallies(t, p, b)
  <2>1. IsTally(Bumped(s.existing, n, ExistingTerms(p)[q], 1), ExistingTerms(p), b)
    BY <1>1, TermsFinite, TallyChange DEF IsTallies
  <2>2. IsTally(Bumped(s.affinity, n, AffinityTerms(p)[q], 1), AffinityTerms(p), b)
    BY <1>1, TermsFinite, TallyChange DEF IsTallies
  <2>3. IsTally(Bumped(s.anti, n, AntiTerms(p)[q], 1), AntiTerms(p), b)
    BY <1>1, TermsFinite, TallyChange DEF IsTallies
  <2> HIDE DEF b, t
  <2> QED BY <1>4, <2>1, <2>2, <2>3 DEF IsTallies
<1> HIDE DEF b, t
<1>6. t = AffinityPreFilter(p, b)
  BY <1>3, <1>5, OneState
<1> QED
  BY <1>6 DEF s, b, t

\* RemovePod gives the state that PreFilter would compute without it.
LEMMA UpdateRemoves ==
    ASSUME NEW p \in Pods, NEW a \in Placements, NEW q \in Pods, a[q] = None, NEW n \in Nodes
    PROVE  AffinityUpdateWithPod(AffinityPreFilter(p, [a EXCEPT ![q] = n]), q, p, n, -1) = AffinityPreFilter(p, a)
<1> DEFINE b == [a EXCEPT ![q] = n]
           s == AffinityPreFilter(p, b)
           t == AffinityUpdateWithPod(s, q, p, n, -1)
<1>1. IsTallies(AffinityPreFilter(p, a), p, a)
  BY PreFilterTallies
<1>2. b \in Placements
  BY DEF Placements
<1>3. IsTallies(s, p, b)
  BY <1>2, PreFilterTallies
<1> HIDE DEF s
<1>4. /\ t \in States
      /\ t.existing = Bumped(s.existing, n, ExistingTerms(p)[q], -1)
      /\ t.affinity = Bumped(s.affinity, n, AffinityTerms(p)[q], -1)
      /\ t.anti = Bumped(s.anti, n, AntiTerms(p)[q], -1)
  BY <1>3, UpdateFields DEF IsTallies
<1>5. IsTallies(t, p, a)
  <2>1. IsTally(Bumped(s.existing, n, ExistingTerms(p)[q], -1), ExistingTerms(p), a)
    BY <1>3, TermsFinite, TallyChange DEF IsTallies
  <2>2. IsTally(Bumped(s.affinity, n, AffinityTerms(p)[q], -1), AffinityTerms(p), a)
    BY <1>3, TermsFinite, TallyChange DEF IsTallies
  <2>3. IsTally(Bumped(s.anti, n, AntiTerms(p)[q], -1), AntiTerms(p), a)
    BY <1>3, TermsFinite, TallyChange DEF IsTallies
  <2> HIDE DEF b, t
  <2> QED BY <1>4, <2>1, <2>2, <2>3 DEF IsTallies
<1> HIDE DEF b, t
<1>6. t = AffinityPreFilter(p, a)
  BY <1>1, <1>5, OneState
<1> QED
  BY <1>6 DEF s, b, t

\* Several pods added one after the other.
LEMMA UpdateAddsAll ==
    ASSUME NEW p \in Pods, NEW a \in Placements, NEW S \in SUBSET Pods, \A q \in S : a[q] = None, NEW n \in Nodes
    PROVE  FoldSet(LAMBDA q, t : AffinityUpdateWithPod(t, q, p, n, 1), AffinityPreFilter(p, a), S)
             = AffinityPreFilter(p, [q \in Pods |-> IF q \in S THEN n ELSE a[q]])
<1> DEFINE With(s) == [q \in Pods |-> IF q \in s THEN n ELSE a[q]]
           base == AffinityPreFilter(p, a)
           Rec(h) == [s \in SUBSET S |-> IF s = {} THEN base
                         ELSE AffinityUpdateWithPod(h[s \ {Pick(s)}], Pick(s), p, n, 1)]
           iter == CHOOSE h : h = Rec(h)
           g == [s \in SUBSET S |-> AffinityPreFilter(p, With(s))]
<1>1. With({}) = a
  BY DEF Placements
<1>2. ASSUME NEW s \in SUBSET S, s # {}
      PROVE  AffinityUpdateWithPod(g[s \ {Pick(s)}], Pick(s), p, n, 1) = AffinityPreFilter(p, With(s))
  <2> DEFINE x == Pick(s)
             c == With(s \ {x})
  <2>1. x \in s
    BY <1>2 DEF Pick
  <2>2. x \in Pods /\ s \ {x} \in SUBSET S
    BY <2>1
  <2> HIDE DEF x
  <2>3. c \in Placements /\ c[x] = None
    BY <2>1, <2>2 DEF Placements
  <2>4. [c EXCEPT ![x] = n] = With(s)
    BY <2>1, <2>2
  <2>5. g[s \ {x}] = AffinityPreFilter(p, c)
    BY <2>2
  <2> HIDE DEF c, With, g
  <2>6. AffinityUpdateWithPod(AffinityPreFilter(p, c), x, p, n, 1) = AffinityPreFilter(p, [c EXCEPT ![x] = n])
    BY <2>2, <2>3, UpdateAdds
  <2> QED BY <2>4, <2>5, <2>6 DEF x
<1>3. g = Rec(g)
  <2>1. ASSUME NEW s \in SUBSET S
        PROVE  g[s] = IF s = {} THEN base ELSE AffinityUpdateWithPod(g[s \ {Pick(s)}], Pick(s), p, n, 1)
    <3>1. g[s] = AffinityPreFilter(p, With(s))
      OBVIOUS
    <3> HIDE DEF g, With
    <3> QED BY <1>1, <1>2, <3>1
  <2>2. g = [s \in SUBSET S |-> g[s]]
    OBVIOUS
  <2> HIDE DEF g, base
  <2> QED BY <2>1, <2>2
<1>4. iter = Rec(iter)
  <2> HIDE DEF Rec, g
  <2> QED BY <1>3
<1>5. FoldSet(LAMBDA q, t : AffinityUpdateWithPod(t, q, p, n, 1), AffinityPreFilter(p, a), S) = iter[S]
  BY DEF FoldSet, MapThenFoldSet, Pick
<1>6. \A s \in SUBSET S : iter[s] = IF s = {} THEN base ELSE AffinityUpdateWithPod(iter[s \ {Pick(s)}], Pick(s), p, n, 1)
  <2> HIDE DEF iter, base
  <2> QED BY <1>4
<1>7. \A s \in SUBSET S : g[s] = IF s = {} THEN base ELSE AffinityUpdateWithPod(g[s \ {Pick(s)}], Pick(s), p, n, 1)
  <2> HIDE DEF g, base
  <2> QED BY <1>3
<1>8. g[S] = AffinityPreFilter(p, With(S))
  OBVIOUS
<1> HIDE DEF iter, g, base
<1> DEFINE G == {s \in SUBSET S : iter[s] = g[s]}
<1>9. {} \in G
  BY <1>6, <1>7
<1>10. ASSUME NEW s \in SUBSET S, s # {} /\ Pick(s) \in s /\ s \ {Pick(s)} \in G PROVE s \in G
  BY <1>6, <1>7, <1>10
<1>11. IsFiniteSet(S)
  BY PodsAssumption, FS_Subset
<1>12. SUBSET S \subseteq G
  <2> HIDE DEF G
  <2> QED BY <1>9, <1>10, <1>11, SubsetInduction
<1> QED
  BY <1>5, <1>8, <1>12

-----------------------------------------------------------------------------
(* Critical paths.                                                         *)

\* The parts of a finite set, by strict inclusion.
LEMMA PartsWellFounded ==
    ASSUME NEW S, IsFiniteSet(S)
    PROVE  IsWellFoundedOn(StrictSubsetOrdering(S), SUBSET S)
  BY FS_StrictSubsetOrderingWellFounded, FS_FiniteSubsetsOfFinite

\* G has each subset of S all of whose parts with one element less it has.
Descends(S, G) == \A s \in SUBSET S : (\A x \in s : s \ {x} \in G) => s \in G

\* It then has every subset of S, if S is finite.
LEMMA DescentInduction ==
    ASSUME NEW S, IsFiniteSet(S), NEW G, Descends(S, G)
    PROVE  SUBSET S \subseteq G
<1> SUFFICES ASSUME ~ (SUBSET S \subseteq G) PROVE FALSE
  OBVIOUS
<1> DEFINE Bad == (SUBSET S) \ G
<1>1. IsWellFoundedOn(StrictSubsetOrdering(S), SUBSET S)
  BY PartsWellFounded
<1>2. PICK s \in Bad : \A U \in Bad : ~ (<<U, s>> \in StrictSubsetOrdering(S))
  <2>1. Bad \subseteq SUBSET S /\ Bad # {}
    OBVIOUS
  <2> HIDE DEF Bad
  <2> QED BY <1>1, <2>1, WFMin
<1>3. s \in SUBSET S /\ s \notin G
  OBVIOUS
<1>4. ASSUME NEW x \in s PROVE s \ {x} \in G
  <2>1. s \ {x} \in SUBSET S /\ s \ {x} # s /\ s \ {x} \subseteq s
    BY <1>3
  <2> QED BY <1>2, <2>1 DEF StrictSubsetOrdering
<1> QED
  BY <1>3, <1>4 DEF Descends

\* The entries of critical paths for a set of pairs, which have one key: their second
\* parts tell them apart, and are not None.
Named(S) == \A x \in S : x[2] # None /\ \A y \in S : x[2] = y[2] => x = y
Numbers(f, S) == \A x \in S : f[x] \in Int
Entries(S) == [value : {x[2] : x \in S} \cup {None}, num : Int]
PathPairs(S) == Entries(S) \X Entries(S)

\* The number is the smallest of the pairs' numbers, if there is one below MaxInt32.
Low(num, S, f) ==
    /\ num <= MaxInt32
    /\ \A x \in S : num <= f[x]
    /\ num = MaxInt32 \/ \E x \in S : f[x] = num

\* Critical paths as a walk over the pairs of S leaves them: each is one of the pairs or
\* not set, they are in order, and the pairs not at the front are not below the second.
Walked(paths, S, f) ==
    /\ paths \in PathPairs(S)
    /\ paths[1].num <= paths[2].num /\ paths[2].num <= MaxInt32
    /\ \A e \in {paths[1], paths[2]} :
          \/ e.value = None /\ e.num = MaxInt32
          \/ \E x \in S : x[2] = e.value /\ f[x] = e.num
    /\ paths[1].value = paths[2].value => paths[1].value = None
    /\ \A x \in S : x[2] # paths[1].value => paths[2].num <= f[x]

\* Critical paths as updates of the one pair vp leave them: beside vp, or in front of it
\* when it is too far behind to be there, is the smallest number of the other pairs.
Around(paths, S, f, vp) ==
    /\ paths[1].num <= paths[2].num
    /\ \/ /\ paths[1].value = vp[2] /\ paths[2].value # vp[2]
          /\ paths[1].num = f[vp] /\ Low(paths[2].num, S \ {vp}, f)
       \/ /\ paths[2].value = vp[2] /\ paths[1].value # vp[2]
          /\ paths[2].num = f[vp] /\ Low(paths[1].num, S \ {vp}, f)
       \/ /\ paths[1].value # vp[2] /\ paths[2].value # vp[2]
          /\ paths[2].num <= f[vp] /\ Low(paths[1].num, S \ {vp}, f)

\* What Update makes of critical paths.
LEMMA UpdateCases ==
    ASSUME NEW S, NEW paths \in PathPairs(S), NEW x \in S, NEW num \in Int
    PROVE  LET r == Update(paths, x[2], num)
               e == [value |-> x[2], num |-> num]
           IN  /\ r \in PathPairs(S)
               /\ paths[1].value = x[2] =>
                     IF num > paths[2].num THEN r[1] = paths[2] /\ r[2] = e
                     ELSE r[1] = e /\ r[2] = paths[2]
               /\ paths[1].value # x[2] /\ paths[2].value = x[2] =>
                     IF paths[1].num > num THEN r[1] = e /\ r[2] = paths[1]
                     ELSE r[1] = paths[1] /\ r[2] = e
               /\ paths[1].value # x[2] /\ paths[2].value # x[2] =>
                     IF num < paths[1].num THEN r[1] = e /\ r[2] = paths[1]
                     ELSE IF num < paths[2].num THEN r[1] = paths[1] /\ r[2] = e
                     ELSE r = paths
<1> DEFINE e == [value |-> x[2], num |-> num]
           E == Entries(S)
<1>1. e \in E /\ e.num = num
  BY DEF Entries
<1>2. paths[1] \in E /\ paths[2] \in E /\ paths = <<paths[1], paths[2]>>
  BY DEF PathPairs
<1>3. Update(paths, x[2], num) =
        LET known == x[2] \in {paths[1].value, paths[2].value}
            set == IF x[2] = paths[1].value THEN <<e, paths[2]>> ELSE <<paths[1], e>>
        IN  IF known THEN IF set[1].num > set[2].num THEN <<set[2], set[1]>> ELSE set
            ELSE IF num < paths[1].num THEN <<e, paths[1]>>
            ELSE IF num < paths[2].num THEN <<paths[1], e>>
            ELSE paths
  BY DEF Update
<1> HIDE DEF e, E
<1>4. CASE paths[1].value = x[2]
  <2>1. Update(paths, x[2], num) = IF num > paths[2].num THEN <<paths[2], e>> ELSE <<e, paths[2]>>
    BY <1>1, <1>3, <1>4
  <2> QED BY <1>1, <1>2, <1>4, <2>1 DEF PathPairs, E, e
<1>5. CASE paths[1].value # x[2] /\ paths[2].value = x[2]
  <2>1. Update(paths, x[2], num) = IF paths[1].num > num THEN <<e, paths[1]>> ELSE <<paths[1], e>>
    BY <1>1, <1>3, <1>5
  <2> QED BY <1>1, <1>2, <1>5, <2>1 DEF PathPairs, E, e
<1>6. CASE paths[1].value # x[2] /\ paths[2].value # x[2]
  <2>1. Update(paths, x[2], num) = IF num < paths[1].num THEN <<e, paths[1]>>
            ELSE IF num < paths[2].num THEN <<paths[1], e>>
            ELSE paths
    BY <1>3, <1>6
  <2> QED BY <1>1, <1>2, <1>6, <2>1 DEF PathPairs, E, e
<1> QED
  BY <1>4, <1>5, <1>6

\* One more pair of the walk.
LEMMA WalkStep ==
    ASSUME NEW S, Named(S), NEW f, Numbers(f, S), NEW x \in S, NEW paths, Walked(paths, S \ {x}, f)
    PROVE  Walked(Update(paths, x[2], f[x]), S, f)
<1> DEFINE r == Update(paths, x[2], f[x])
           e == [value |-> x[2], num |-> f[x]]
<1>1. paths \in PathPairs(S)
  BY DEF Walked, PathPairs, Entries
<1>2. f[x] \in Int /\ paths[1].num \in Int /\ paths[2].num \in Int
  BY <1>1 DEF PathPairs, Entries, Numbers
<1>3. paths[1].value # x[2] /\ paths[2].value # x[2]
  BY DEF Walked, Named
<1>4. ASSUME NEW y \in S, y # x
      PROVE  /\ f[y] \in Int /\ paths[1].num <= f[y]
             /\ y[2] # paths[1].value => paths[2].num <= f[y]
  <2>1. CASE y[2] # paths[1].value
    BY <1>2, <1>4, <2>1 DEF Walked, Numbers
  <2>2. CASE y[2] = paths[1].value
    <3>1. PICK z \in S \ {x} : z[2] = paths[1].value /\ f[z] = paths[1].num
      BY <2>2 DEF Walked, Named
    <3> QED BY <1>2, <2>2, <3>1 DEF Named, Numbers
  <2> QED BY <2>1, <2>2
<1>5. /\ r \in PathPairs(S)
      /\ IF f[x] < paths[1].num THEN r[1] = e /\ r[2] = paths[1]
         ELSE IF f[x] < paths[2].num THEN r[1] = paths[1] /\ r[2] = e
         ELSE r = paths
  BY <1>1, <1>2, <1>3, UpdateCases
<1>6. e.value = x[2] /\ e.num = f[x]
  OBVIOUS
<1> HIDE DEF r, e
<1>7. CASE f[x] < paths[1].num
  <2>1. r[1] = e /\ r[2] = paths[1]
    BY <1>5, <1>7
  <2>2. r[1].num <= r[2].num /\ r[2].num <= MaxInt32
    BY <1>2, <1>6, <1>7, <2>1 DEF Walked, MaxInt32
  <2>3. \A d \in {r[1], r[2]} : \/ d.value = None /\ d.num = MaxInt32
                                \/ \E z \in S : z[2] = d.value /\ f[z] = d.num
    BY <1>6, <2>1 DEF Walked
  <2>4. \A y \in S : y[2] # r[1].value => r[2].num <= f[y]
    BY <1>4, <1>6, <2>1
  <2> QED BY <1>3, <1>5, <1>6, <2>1, <2>2, <2>3, <2>4 DEF Walked, r
<1>8. CASE ~(f[x] < paths[1].num) /\ f[x] < paths[2].num
  <2>1. r[1] = paths[1] /\ r[2] = e
    BY <1>5, <1>8
  <2>2. r[1].num <= r[2].num /\ r[2].num <= MaxInt32
    BY <1>2, <1>6, <1>8, <2>1 DEF Walked, MaxInt32
  <2>3. \A d \in {r[1], r[2]} : \/ d.value = None /\ d.num = MaxInt32
                                \/ \E z \in S : z[2] = d.value /\ f[z] = d.num
    BY <1>6, <2>1 DEF Walked
  <2>4. \A y \in S : y[2] # r[1].value => r[2].num <= f[y]
    BY <1>2, <1>4, <1>6, <1>8, <2>1
  <2> QED BY <1>3, <1>5, <1>6, <2>1, <2>2, <2>3, <2>4 DEF Walked, r
<1>9. CASE ~(f[x] < paths[1].num) /\ ~(f[x] < paths[2].num)
  <2>1. r = paths
    BY <1>5, <1>9
  <2> QED BY <1>2, <1>3, <1>4, <1>5, <1>9, <2>1 DEF Walked, r
<1> QED
  BY <1>7, <1>8, <1>9

\* The paths around any of the pairs, after a walk.
LEMMA WalkedAround ==
    ASSUME NEW S, Named(S), NEW f, Numbers(f, S), NEW vp \in S, NEW paths, Walked(paths, S, f)
    PROVE  Around(paths, S, f, vp)
<1>1. paths[1].num \in Int /\ paths[2].num \in Int /\ f[vp] \in Int
  BY DEF Walked, PathPairs, Entries, Numbers
<1>2. CASE paths[1].value = vp[2]
  <2>1. paths[2].value # vp[2] /\ paths[1].num = f[vp]
    BY <1>2 DEF Walked, Named
  <2>2. Low(paths[2].num, S \ {vp}, f)
    BY <1>1, <1>2, <2>1 DEF Walked, Named, Low, Numbers
  <2> QED BY <1>2, <2>1, <2>2 DEF Walked, Around
<1>3. CASE paths[1].value # vp[2]
  <2>1. Low(paths[1].num, S \ {vp}, f)
    <3>1. ASSUME NEW y \in S \ {vp} PROVE paths[1].num <= f[y]
      <4>1. CASE y[2] # paths[1].value
        BY <1>1, <4>1 DEF Walked, Numbers
      <4>2. CASE y[2] = paths[1].value
        <5>1. PICK z \in S : z[2] = paths[1].value /\ f[z] = paths[1].num
          BY <4>2 DEF Walked, Named
        <5> QED BY <1>1, <4>2, <5>1 DEF Named
      <4> QED BY <4>1, <4>2
    <3>2. paths[1].num <= MaxInt32
      BY <1>1 DEF Walked, MaxInt32
    <3>3. paths[1].num = MaxInt32 \/ \E x \in S \ {vp} : f[x] = paths[1].num
      BY <1>3 DEF Walked
    <3> QED BY <3>1, <3>2, <3>3 DEF Low
  <2>2. CASE paths[2].value = vp[2]
    <3>1. paths[2].num = f[vp]
      BY <2>2 DEF Walked, Named
    <3> QED BY <1>3, <2>1, <2>2, <3>1 DEF Walked, Around
  <2>3. CASE paths[2].value # vp[2]
    BY <1>3, <2>1, <2>3 DEF Walked, Around
  <2> QED BY <2>2, <2>3
<1> QED
  BY <1>2, <1>3

\* The first path has the smallest number.
LEMMA AroundLow ==
    ASSUME NEW S, NEW f, Numbers(f, S), NEW vp \in S, NEW paths \in PathPairs(S), Around(paths, S, f, vp)
    PROVE  Low(paths[1].num, S, f)
<1>1. /\ paths[1].num \in Int /\ paths[2].num \in Int /\ f[vp] \in Int
      /\ \A y \in S : f[y] \in Int
  BY DEF PathPairs, Entries, Numbers
<1>2. MaxInt32 \in Int
  BY DEF MaxInt32
<1> QED
  BY <1>1, <1>2 DEF Around, Low

\* An update for vp keeps the paths around it.
LEMMA UpdateAround ==
    ASSUME NEW S, NEW f, Numbers(f, S), NEW g, Numbers(g, S), NEW vp \in S,
           \A x \in S \ {vp} : g[x] = f[x],
           NEW paths \in PathPairs(S), Around(paths, S, f, vp)
    PROVE  /\ Update(paths, vp[2], g[vp]) \in PathPairs(S)
           /\ Around(Update(paths, vp[2], g[vp]), S, g, vp)
<1> DEFINE r == Update(paths, vp[2], g[vp])
           e == [value |-> vp[2], num |-> g[vp]]
<1>1. paths[1].num \in Int /\ paths[2].num \in Int /\ g[vp] \in Int
  BY DEF PathPairs, Entries, Numbers
<1>2. \A num : Low(num, S \ {vp}, f) => Low(num, S \ {vp}, g)
  BY DEF Low
<1>3. /\ r \in PathPairs(S)
      /\ paths[1].value = vp[2] =>
                     IF g[vp] > paths[2].num THEN r[1] = paths[2] /\ r[2] = e
                     ELSE r[1] = e /\ r[2] = paths[2]
      /\ paths[1].value # vp[2] /\ paths[2].value = vp[2] =>
                     IF paths[1].num > g[vp] THEN r[1] = e /\ r[2] = paths[1]
                     ELSE r[1] = paths[1] /\ r[2] = e
      /\ paths[1].value # vp[2] /\ paths[2].value # vp[2] =>
                     IF g[vp] < paths[1].num THEN r[1] = e /\ r[2] = paths[1]
                     ELSE IF g[vp] < paths[2].num THEN r[1] = paths[1] /\ r[2] = e
                     ELSE r = paths
  BY <1>1, UpdateCases
<1>4. e.value = vp[2] /\ e.num = g[vp]
  OBVIOUS
<1> HIDE DEF r, e
<1>5. Around(r, S, g, vp)
  <2>1. CASE paths[1].value = vp[2]
    BY <1>1, <1>2, <1>3, <1>4, <2>1 DEF Around
  <2>2. CASE paths[1].value # vp[2] /\ paths[2].value = vp[2]
    BY <1>1, <1>2, <1>3, <1>4, <2>2 DEF Around
  <2>3. CASE paths[1].value # vp[2] /\ paths[2].value # vp[2]
    BY <1>1, <1>2, <1>3, <1>4, <2>3 DEF Around
  <2> QED BY <2>1, <2>2, <2>3
<1> QED
  BY <1>3, <1>5 DEF r

\* The rule of the function by which the critical paths of a walk are defined.
WalkRule(g, f, D) ==
    \A s \in D : g[s] = IF s = {} THEN {NewCriticalPaths}
                        ELSE UNION {{Update(paths, x[2], f[x]) : paths \in g[s \ {x}]} : x \in s}

\* The function exists.
LEMMA WalkExists ==
    ASSUME NEW S, IsFiniteSet(S), NEW f, Numbers(f, S)
    PROVE  \E g \in [SUBSET S -> SUBSET PathPairs(S)] : WalkRule(g, f, SUBSET S)
<1> DEFINE V == SUBSET PathPairs(S)
           Small(n) == {s \in SUBSET S : Cardinality(s) <= n}
           Of(g, s) == IF s = {} THEN {NewCriticalPaths}
                       ELSE UNION {{Update(paths, x[2], f[x]) : paths \in g[s \ {x}]} : x \in s}
           Part(n) == {g \in [Small(n) -> V] : \A s \in Small(n) : g[s] = Of(g, s)}
           G == {n \in Nat : Part(n) # {}}
<1>1. \A s \in SUBSET S : IsFiniteSet(s) /\ Cardinality(s) \in Nat
  BY FS_Subset, FS_CardinalityType
<1>2. \A s \in SUBSET S : Cardinality(s) = 0 <=> s = {}
  BY <1>1, FS_EmptySet
<1>3. ASSUME NEW s \in SUBSET S, NEW x \in s
      PROVE  s \ {x} \in SUBSET S /\ Cardinality(s \ {x}) = Cardinality(s) - 1
  BY <1>1, FS_RemoveElement
<1>4. {NewCriticalPaths} \in V
  BY DEF NewCriticalPaths, PathPairs, Entries, MaxInt32
<1>5. ASSUME NEW s \in SUBSET S, NEW g, \A x \in s : g[s \ {x}] \in V
      PROVE  Of(g, s) \in V
  <2>1. ASSUME NEW x \in s, NEW paths \in g[s \ {x}] PROVE Update(paths, x[2], f[x]) \in PathPairs(S)
    BY <1>5, UpdateCases DEF Numbers
  <2>2. CASE s = {}
    BY <1>4, <2>2
  <2>3. CASE s # {}
    <3>1. ASSUME NEW z \in Of(g, s) PROVE z \in PathPairs(S)
      <4>1. PICK x \in s : z \in {Update(paths, x[2], f[x]) : paths \in g[s \ {x}]}
        BY <2>3, <3>1
      <4> QED BY <2>1, <4>1
    <3> QED BY <3>1
  <2> QED BY <2>2, <2>3
<1>6. ASSUME NEW s \in SUBSET S, NEW g, NEW h, \A x \in s : g[s \ {x}] = h[s \ {x}]
      PROVE  Of(g, s) = Of(h, s)
  <2>1. ASSUME NEW a, NEW b, \A x \in s : a[s \ {x}] = b[s \ {x}], NEW z \in Of(a, s) PROVE z \in Of(b, s)
    <3>1. CASE s = {}
      BY <2>1, <3>1
    <3>2. CASE s # {}
      <4>1. PICK x \in s : z \in {Update(paths, x[2], f[x]) : paths \in a[s \ {x}]}
        BY <2>1, <3>2
      <4>2. z \in {Update(paths, x[2], f[x]) : paths \in b[s \ {x}]}
        BY <2>1, <4>1
      <4> DEFINE Step(y) == {Update(paths, y[2], f[y]) : paths \in b[s \ {y}]}
      <4>3. Of(b, s) = UNION {Step(y) : y \in s}
        BY <3>2
      <4>4. z \in Step(x)
        BY <4>2
      <4> HIDE DEF Step, Of
      <4> QED BY <4>3, <4>4
    <3> QED BY <3>1, <3>2
  <2> HIDE DEF Of
  <2>2. Of(g, s) \subseteq Of(h, s)
    BY <1>6, <2>1
  <2>3. Of(h, s) \subseteq Of(g, s)
    BY <1>6, <2>1
  <2> QED BY <2>2, <2>3
<1>7. 0 \in G
  <2> DEFINE g == [s \in Small(0) |-> {NewCriticalPaths}]
  <2>1. \A s \in Small(0) : s = {}
    BY <1>1, <1>2
  <2>2. g \in Part(0)
    BY <1>4, <2>1
  <2> QED BY <2>2
<1>8. ASSUME NEW n \in Nat, n \in G PROVE n + 1 \in G
  <2>1. PICK g \in Part(n) : TRUE
    BY <1>8
  <2> HIDE DEF Of, V
  <2> DEFINE h == [s \in Small(n + 1) |-> IF s \in Small(n) THEN g[s] ELSE Of(g, s)]
  <2>2. ASSUME NEW s \in Small(n + 1), NEW x \in s
        PROVE  s \ {x} \in Small(n) /\ s \ {x} \in Small(n + 1)
    BY <1>1, <1>3
  <2>3. ASSUME NEW s \in Small(n + 1) PROVE h[s] \in V /\ h[s] = Of(h, s)
    <3>1. \A x \in s : g[s \ {x}] \in V /\ g[s \ {x}] = h[s \ {x}]
      BY <2>1, <2>2
    <3>2. Of(g, s) \in V /\ Of(g, s) = Of(h, s)
      <4> HIDE DEF h
      <4>1. s \in SUBSET S
        OBVIOUS
      <4> QED BY <1>5, <1>6, <3>1, <4>1
    <3>3. h[s] = Of(g, s)
      BY <2>1
    <3> QED BY <3>2, <3>3
  <2>4. h \in [Small(n + 1) -> V]
    BY <2>3
  <2>5. h \in Part(n + 1)
    <3> HIDE DEF h
    <3> QED BY <2>3, <2>4
  <2>6. n + 1 \in Nat
    OBVIOUS
  <2> HIDE DEF Part, h
  <2> QED BY <2>5, <2>6
<1>9. Nat \subseteq G
  <2> HIDE DEF G
  <2> QED BY <1>7, <1>8, NumberInduction
<1>10. Cardinality(S) \in Nat /\ Small(Cardinality(S)) = SUBSET S
  BY <1>1, FS_Subset, FS_CardinalityType
<1>11. PICK g \in Part(Cardinality(S)) : TRUE
  BY <1>9, <1>10
<1>12. g \in [SUBSET S -> V] /\ \A s \in SUBSET S : g[s] = Of(g, s)
  <2> HIDE DEF Small, Of, V
  <2> QED BY <1>10, <1>11
<1> QED
  BY <1>12 DEF WalkRule

\* In whatever order the pairs are taken, the critical paths are those of a walk.
LEMMA PathsAfterWalked ==
    ASSUME NEW S, IsFiniteSet(S), Named(S), NEW f, Numbers(f, S)
    PROVE  \A paths \in PathsAfter(S, f) : Walked(paths, S, f)
<1> DEFINE Rec(h) == [s \in SUBSET S |->
                         IF s = {} THEN {NewCriticalPaths}
                         ELSE UNION {{Update(paths, x[2], f[x]) : paths \in h[s \ {x}]} : x \in s}]
           walk == CHOOSE h : h = Rec(h)
<1>1. PICK g \in [SUBSET S -> SUBSET PathPairs(S)] : WalkRule(g, f, SUBSET S)
  BY WalkExists
<1>2. g = Rec(g)
  BY <1>1 DEF WalkRule
<1>3. walk = Rec(walk)
  <2> HIDE DEF Rec
  <2> QED BY <1>2
<1>4. PathsAfter(S, f) = walk[S]
  BY DEF PathsAfter
<1>5. WalkRule(walk, f, SUBSET S)
  <2> HIDE DEF walk
  <2> QED BY <1>3 DEF WalkRule
<1> HIDE DEF walk
<1> DEFINE G == {s \in SUBSET S : \A paths \in walk[s] : Walked(paths, s, f)}
<1>6. ASSUME NEW s \in SUBSET S, \A x \in s : s \ {x} \in G PROVE s \in G
  <2>1. CASE s = {}
    <3>1. walk[s] = {NewCriticalPaths}
      BY <1>5, <2>1 DEF WalkRule
    <3>2. Walked(NewCriticalPaths, {}, f)
      BY DEF Walked, NewCriticalPaths, PathPairs, Entries, MaxInt32
    <3> QED BY <2>1, <3>1, <3>2
  <2>2. CASE s # {}
    <3>1. ASSUME NEW paths \in walk[s] PROVE Walked(paths, s, f)
      <4>1. walk[s] = UNION {{Update(u, x[2], f[x]) : u \in walk[s \ {x}]} : x \in s}
        BY <1>5, <2>2 DEF WalkRule
      <4>2a. PICK x \in s : paths \in {Update(u, x[2], f[x]) : u \in walk[s \ {x}]}
        BY <4>1
      <4>2. PICK u \in walk[s \ {x}] : paths = Update(u, x[2], f[x])
        BY <4>2a
      <4>3. Walked(u, s \ {x}, f)
        BY <1>6, <4>2
      <4>4. Named(s) /\ Numbers(f, s)
        BY DEF Named, Numbers
      <4> QED BY <4>2, <4>3, <4>4, WalkStep
    <3> QED BY <3>1
  <2> QED BY <2>1, <2>2
<1>7. SUBSET S \subseteq G
  <2> HIDE DEF G
  <2>1. Descends(S, G)
    BY <1>6 DEF Descends
  <2> QED BY <2>1, DescentInduction
<1> QED
  BY <1>4, <1>7

-----------------------------------------------------------------------------
(* The state of the spread plugin.                                         *)

\* The hard constraints of a pod, their keys, the pairs that are counted for them, and
\* the constraint of a pair.
HardOf(p) == Constraints(p, "hard")
KeysOf(p) == {c.key : c \in Range(HardOf(p))}
PairsFor(p) == EligiblePairs(p, HardOf(p))
KeyPairs(p, key) == {x \in PairsFor(p) : x[1] = key}
ConstraintFor(p, x) == CHOOSE c \in Range(HardOf(p)) : c.key = x[1]
AllKeys(n, p) == NodeLabelsMatchSpreadConstraints(n, HardOf(p))

\* A constraint is known by its key.
LEMMA OneConstraint ==
    ASSUME NEW p \in Pods, NEW c \in Range(HardOf(p)), NEW x, x[1] = c.key
    PROVE  ConstraintFor(p, x) = c
<1>1. \A d, e \in Range(HardOf(p)) : d.key = e.key => d = e
  BY ConstraintsAssumption DEF HardOf, Range
<1> QED
  BY <1>1 DEF ConstraintFor

\* A pair has the key of a constraint and the label of a node.
LEMMA PairShape ==
    ASSUME NEW p \in Pods, NEW x \in PairsFor(p)
    PROVE  /\ x[1] \in KeysOf(p) /\ x[2] # None /\ x = <<x[1], x[2]>>
           /\ \E m \in Nodes : x = PairOf(m, x[1])
           /\ ConstraintFor(p, x) \in Range(HardOf(p)) /\ ConstraintFor(p, x).key = x[1]
<1>1. PICK c \in Range(HardOf(p)), m \in Nodes : x = PairOf(m, c.key) /\ NodeLabelsMatchSpreadConstraints(m, HardOf(p))
  BY DEF PairsFor, EligiblePairs
<1>2. x = <<c.key, Labels[m][c.key]>> /\ c.key \in DOMAIN Labels[m]
  BY <1>1 DEF PairOf, NodeLabelsMatchSpreadConstraints, HasKey
<1>3. x[1] = c.key /\ x[2] = Labels[m][c.key] /\ x[2] # None
  BY <1>2, LabelsAssumption
<1>4. ConstraintFor(p, x) = c
  BY <1>3, OneConstraint
<1> QED
  BY <1>1, <1>2, <1>3, <1>4 DEF KeysOf

\* The pairs of a key.
LEMMA KeyPairsShape ==
    ASSUME NEW p \in Pods, NEW key
    PROVE  IsFiniteSet(KeyPairs(p, key)) /\ Named(KeyPairs(p, key))
<1> DEFINE T == {PairOf(m, key) : m \in Nodes}
           g == [m \in Nodes |-> PairOf(m, key)]
<1>1. g \in Surjection(Nodes, T)
  BY DEF Surjection
<1>2. IsFiniteSet(T)
  <2> HIDE DEF g, T
  <2> QED BY <1>1, LabelsAssumption, FS_Surjection
<1>3. KeyPairs(p, key) \in SUBSET T
  BY PairShape DEF KeyPairs
<1>4. IsFiniteSet(KeyPairs(p, key))
  <2> HIDE DEF T
  <2> QED BY <1>2, <1>3, FS_Subset
<1>5. Named(KeyPairs(p, key))
  <2>1. ASSUME NEW x \in KeyPairs(p, key) PROVE x[2] # None /\ x = <<key, x[2]>>
    BY PairShape DEF KeyPairs
  <2> QED BY <2>1 DEF Named
<1> QED
  BY <1>4, <1>5

\* The critical paths of a key serve a dry run on a node with the pair vp: they are around
\* it if it is counted, and have the smallest number if not.
PathOK(paths, S, f, vp) ==
    /\ paths \in PathPairs(S)
    /\ vp \in S => Around(paths, S, f, vp)
    /\ vp \notin S => Low(paths[1].num, S, f)

\* They do so after a walk.
LEMMA WalkedOK ==
    ASSUME NEW S, Named(S), NEW f, Numbers(f, S), NEW vp, NEW paths, Walked(paths, S, f)
    PROVE  PathOK(paths, S, f, vp)
<1>1. paths \in PathPairs(S)
  BY DEF Walked
<1>2. CASE S = {}
  BY <1>1, <1>2 DEF Walked, PathOK, Low
<1>3. CASE S # {}
  <2>1. \A x \in S : Around(paths, S, f, x)
    BY WalkedAround
  <2>2. PICK x \in S : TRUE
    BY <1>3
  <2>3. Low(paths[1].num, S, f)
    BY <1>1, <2>1, AroundLow
  <2> QED BY <1>1, <2>1, <2>3 DEF PathOK
<1> QED
  BY <1>2, <1>3

\* Other numbers do not matter to the paths of a key.
LEMMA PathSame ==
    ASSUME NEW S, NEW f, NEW g, \A x \in S : g[x] = f[x], NEW vp, NEW paths, PathOK(paths, S, f, vp)
    PROVE  PathOK(paths, S, g, vp)
<1>1. \A num, T : T \subseteq S /\ Low(num, T, f) => Low(num, T, g)
  BY DEF Low
<1>2. ASSUME vp \in S PROVE Around(paths, S, g, vp)
  <2>1. g[vp] = f[vp] /\ S \ {vp} \subseteq S /\ Around(paths, S, f, vp)
    BY <1>2 DEF PathOK
  <2> QED BY <1>1, <2>1 DEF Around
<1> QED
  BY <1>1, <1>2 DEF PathOK

\* The first of them has the smallest number, and there is one smallest number.
LEMMA PathLow ==
    ASSUME NEW S, NEW f, Numbers(f, S), NEW vp, NEW paths, PathOK(paths, S, f, vp)
    PROVE  paths[1].num \in Int /\ Low(paths[1].num, S, f)
<1>1. paths[1].num \in Int
  BY DEF PathOK, PathPairs, Entries
<1>2. CASE vp \in S
  BY <1>1, <1>2, AroundLow DEF PathOK
<1>3. CASE vp \notin S
  BY <1>1, <1>3 DEF PathOK
<1> QED
  BY <1>1, <1>2, <1>3

\* There is one lowest number.
LEMMA LowUnique ==
    ASSUME NEW S, NEW f, Numbers(f, S), NEW i \in Int, NEW j \in Int, Low(i, S, f), Low(j, S, f)
    PROVE  i = j
  BY DEF Low, Numbers, MaxInt32

\* The paths of some pairs are paths of more pairs.
LEMMA PathPairsGrow ==
    ASSUME NEW S, NEW T, S \subseteq T
    PROVE  PathPairs(S) \subseteq PathPairs(T)
  BY DEF PathPairs, Entries

\* The state s of a dry run on node n stands for the numbers f of the pairs.  (On a node
\* without all keys it is not brought up to date, and need not be.)
SpreadStates(p) ==
    [constraints : {HardOf(p)}, counts : [PairsFor(p) -> Int], paths : [KeysOf(p) -> PathPairs(PairsFor(p))]]
Tracks(s, p, n, f) ==
    /\ s \in SpreadStates(p)
    /\ Numbers(f, PairsFor(p))
    /\ AllKeys(n, p) =>
          /\ \A x \in PairsFor(p) : s.counts[x] = f[x]
          /\ \A key \in KeysOf(p) : PathOK(s.paths[key], KeyPairs(p, key), f, PairOf(n, key))

\* The number of matching pods of a pair is a number.
LEMMA MatchNumType ==
    ASSUME NEW p \in Pods, NEW c, NEW x, NEW a
    PROVE  MatchNum(c, x, p, a) \in Nat
<1> DEFINE T == {q \in {r \in Pods : a[r] # None /\ HasKey(a[r], c.key) /\ PairOf(a[r], c.key) = x} :
                    ~PodSpec[q].terminating /\ PodSpec[q].ns = PodSpec[p].ns /\ Matches(c.selector, q)}
<1>1. MatchNum(c, x, p, a) = Cardinality(T)
  BY DEF MatchNum, CountPodsMatchSelector, Quantify
<1>2. T \in SUBSET Pods
  OBVIOUS
<1> HIDE DEF T
<1> QED
  BY <1>1, <1>2, PodsAssumption, FS_Subset, FS_CardinalityType

\* PreFilter's states stand for the numbers of the placement.
LEMMA FreshTracks ==
    ASSUME NEW p \in Pods, NEW a, NEW s \in calPreFilterState(p, a), NEW n
    PROVE  Tracks(s, p, n, PairCounts(p, a, HardOf(p)))
<1> DEFINE f == PairCounts(p, a, HardOf(p))
<1>1. s \in WithPaths(HardOf(p), f)
  BY DEF calPreFilterState, HardOf
<1>2. /\ DOMAIN f = PairsFor(p)
      /\ \A x \in PairsFor(p) : f[x] = MatchNum(ConstraintFor(p, x), x, p, a)
  BY DEF PairCounts, PairsFor, ConstraintFor
<1> HIDE DEF f
<1>3. Numbers(f, PairsFor(p))
  BY <1>2, MatchNumType DEF Numbers
<1>4. PICK paths \in [KeysOf(p) -> UNION {PathsOf(key, f) : key \in KeysOf(p)}] :
         /\ s = [constraints |-> HardOf(p), counts |-> f, paths |-> paths]
         /\ \A key \in KeysOf(p) : paths[key] \in PathsOf(key, f)
  BY <1>1 DEF WithPaths, KeysOf
<1>5. ASSUME NEW key \in KeysOf(p) PROVE PathOK(paths[key], KeyPairs(p, key), f, PairOf(n, key))
  <2>1. PathsOf(key, f) = PathsAfter(KeyPairs(p, key), f)
    BY <1>2 DEF PathsOf, KeyPairs
  <2>2. Numbers(f, KeyPairs(p, key))
    BY <1>3 DEF Numbers, KeyPairs
  <2>3. Walked(paths[key], KeyPairs(p, key), f)
    BY <1>4, <2>1, <2>2, KeyPairsShape, PathsAfterWalked
  <2> QED BY <2>2, <2>3, KeyPairsShape, WalkedOK
<1>6. s \in SpreadStates(p)
  <2>1. f \in [PairsFor(p) -> Int]
    BY <1>2, <1>3 DEF Numbers, PairCounts, PairsFor, f
  <2>2. ASSUME NEW key \in KeysOf(p) PROVE paths[key] \in PathPairs(PairsFor(p))
    <3>1. KeyPairs(p, key) \subseteq PairsFor(p)
      BY DEF KeyPairs
    <3> QED BY <1>5, <3>1, PathPairsGrow DEF PathOK
  <2>3. paths \in [KeysOf(p) -> PathPairs(PairsFor(p))]
    BY <1>4, <2>2
  <2> QED BY <1>4, <2>1, <2>3 DEF SpreadStates
<1>7. s.counts = f /\ s.paths = paths
  BY <1>4
<1>8. Tracks(s, p, n, f)
  BY <1>3, <1>5, <1>6, <1>7 DEF Tracks
<1> QED
  BY <1>8 DEF f

\* A change of pod q on node n counts for the pair x.
Hit(p, n, q, x) ==
    /\ AllKeys(n, p) /\ x = PairOf(n, x[1])
    /\ PodSpec[q].ns = PodSpec[p].ns /\ Matches(ConstraintFor(p, x).selector, q)

\* updateWithPod would dereference a count that is not there.
Panics(q, p, n) ==
    /\ PodSpec[q].ns = PodSpec[p].ns /\ AllKeys(n, p)
    /\ \E c \in Range(HardOf(p)) : Matches(c.selector, q) /\ PairOf(n, c.key) \notin PairsFor(p)

\* Whether it does depends on the node only.
LEMMA PanicSame ==
    ASSUME NEW p, NEW n, NEW q, NEW s \in SpreadStates(p)
    PROVE  SpreadPanics(s, q, p, n) <=> Panics(q, p, n)
<1>1. s.constraints = HardOf(p) /\ DOMAIN s.counts = PairsFor(p)
  BY DEF SpreadStates
<1> QED
  BY <1>1 DEF SpreadPanics, Panics, Touched, AllKeys

\* A state stays one when the update does not panic.
LEMMA UpdateInStates ==
    ASSUME NEW p \in Pods, NEW n, NEW q, ~Panics(q, p, n), NEW delta \in Int, NEW s \in SpreadStates(p)
    PROVE  SpreadUpdateWithPod(s, q, p, n, delta) \in SpreadStates(p)
<1> DEFINE keys == {c.key : c \in Touched(s, q, p, n)}
           counts == [x \in PairsFor(p) |->
                        s.counts[x] + IF x[1] \in keys /\ x = PairOf(n, x[1]) THEN delta ELSE 0]
           paths == [key \in KeysOf(p) |->
                       IF key \in keys THEN Update(s.paths[key], Labels[n][key], counts[PairOf(n, key)])
                       ELSE s.paths[key]]
           t == SpreadUpdateWithPod(s, q, p, n, delta)
<1>0. /\ s.constraints = HardOf(p) /\ DOMAIN s.counts = PairsFor(p) /\ DOMAIN s.paths = KeysOf(p)
      /\ s.counts \in [PairsFor(p) -> Int] /\ s.paths \in [KeysOf(p) -> PathPairs(PairsFor(p))]
  BY DEF SpreadStates
<1>1. t = [constraints |-> HardOf(p), counts |-> counts, paths |-> paths]
  BY <1>0 DEF SpreadUpdateWithPod
<1>2. ~SpreadPanics(s, q, p, n)
  BY PanicSame
<1>3. counts \in [PairsFor(p) -> Int]
  BY <1>0
<1>4. ASSUME NEW key \in KeysOf(p) PROVE paths[key] \in PathPairs(PairsFor(p))
  <2>1. CASE key \in keys
    <3> DEFINE vp == PairOf(n, key)
    <3>1. vp \in PairsFor(p) /\ vp[2] = Labels[n][key]
      BY <1>0, <1>2, <2>1 DEF SpreadPanics, PairOf
    <3>2. paths[key] = Update(s.paths[key], vp[2], counts[vp])
      BY <2>1, <3>1
    <3>3. counts[vp] \in Int /\ s.paths[key] \in PathPairs(PairsFor(p))
      BY <1>0, <1>3, <3>1
    <3> HIDE DEF vp, counts, paths
    <3> QED BY <3>1, <3>2, <3>3, UpdateCases
  <2>2. CASE key \notin keys
    BY <1>0, <2>2
  <2> QED BY <2>1, <2>2
<1>5. paths \in [KeysOf(p) -> PathPairs(PairsFor(p))]
  BY <1>4
<1> HIDE DEF counts, paths, t
<1>6. t \in SpreadStates(p)
  BY <1>1, <1>3, <1>5 DEF SpreadStates
<1> QED
  BY <1>6 DEF t

\* updateWithPod.
LEMMA UpdateTracks ==
    ASSUME NEW p \in Pods, NEW n, NEW q, NEW delta \in Int, NEW f, NEW g, NEW s,
           Tracks(s, p, n, f), ~SpreadPanics(s, q, p, n),
           \A x \in PairsFor(p) : g[x] = f[x] + IF Hit(p, n, q, x) THEN delta ELSE 0
    PROVE  Tracks(SpreadUpdateWithPod(s, q, p, n, delta), p, n, g)
<1> DEFINE keys == {c.key : c \in Touched(s, q, p, n)}
           counts == [x \in PairsFor(p) |->
                        s.counts[x] + IF x[1] \in keys /\ x = PairOf(n, x[1]) THEN delta ELSE 0]
           paths == [key \in KeysOf(p) |->
                       IF key \in keys THEN Update(s.paths[key], Labels[n][key], counts[PairOf(n, key)])
                       ELSE s.paths[key]]
           t == SpreadUpdateWithPod(s, q, p, n, delta)
<1>0. /\ s.constraints = HardOf(p) /\ DOMAIN s.counts = PairsFor(p) /\ DOMAIN s.paths = KeysOf(p)
      /\ s.counts \in [PairsFor(p) -> Int] /\ s.paths \in [KeysOf(p) -> PathPairs(PairsFor(p))]
  BY DEF Tracks, SpreadStates
<1>1. t = [constraints |-> HardOf(p), counts |-> counts, paths |-> paths]
  BY <1>0 DEF SpreadUpdateWithPod
<1>2. t.constraints = HardOf(p) /\ t.counts = counts /\ t.paths = paths
  BY <1>1
<1>3. Numbers(f, PairsFor(p)) /\ Numbers(g, PairsFor(p))
  BY DEF Tracks, Numbers
<1>4. ASSUME AllKeys(n, p)
      PROVE  /\ \A x \in PairsFor(p) : counts[x] = g[x]
             /\ \A key \in KeysOf(p) : PathOK(paths[key], KeyPairs(p, key), g, PairOf(n, key))
  <2>1. ASSUME NEW x \in PairsFor(p)
        PROVE  x[1] \in keys <=> PodSpec[q].ns = PodSpec[p].ns /\ Matches(ConstraintFor(p, x).selector, q)
    <3>1. Touched(s, q, p, n) = IF PodSpec[q].ns # PodSpec[p].ns THEN {}
                                ELSE {c \in Range(HardOf(p)) : Matches(c.selector, q)}
      BY <1>0, <1>4 DEF Touched, AllKeys
    <3>2. \A c \in Range(HardOf(p)) : x[1] = c.key => ConstraintFor(p, x) = c
      BY OneConstraint
    <3>3. ConstraintFor(p, x) \in Range(HardOf(p)) /\ ConstraintFor(p, x).key = x[1]
      BY PairShape
    <3> QED BY <3>1, <3>2, <3>3
  <2>2. ASSUME NEW x \in PairsFor(p) PROVE counts[x] = g[x]
    BY <1>4, <2>1 DEF Tracks, Hit
  <2>3. ASSUME NEW key \in KeysOf(p) PROVE PathOK(paths[key], KeyPairs(p, key), g, PairOf(n, key))
    <3> DEFINE S == KeyPairs(p, key)
               vp == PairOf(n, key)
    <3>1. PathOK(s.paths[key], S, f, vp)
      BY <1>4 DEF Tracks
    <3>2. Numbers(f, S) /\ Numbers(g, S)
      BY <1>3 DEF Numbers, KeyPairs
    <3>3. CASE key \notin keys
      <4>1. \A x \in S : g[x] = f[x]
        BY <2>1, <3>2, <3>3 DEF KeyPairs, Hit, Numbers
      <4>2. paths[key] = s.paths[key]
        BY <3>3
      <4> HIDE DEF S, vp, paths
      <4>3. PathOK(s.paths[key], S, g, vp)
        BY <3>1, <4>1, PathSame
      <4> QED BY <4>2, <4>3 DEF S, vp
    <3>4. CASE key \in keys
      <4>1. vp \in S /\ vp[2] = Labels[n][key]
        BY <1>0, <3>4 DEF SpreadPanics, KeyPairs, PairOf
      <4>2. \A x \in S \ {vp} : g[x] = f[x]
        BY <3>2 DEF KeyPairs, Hit, Numbers
      <4>3. paths[key] = Update(s.paths[key], vp[2], g[vp])
        BY <2>2, <3>4, <4>1 DEF KeyPairs
      <4> HIDE DEF S, vp, paths
      <4>4. s.paths[key] \in PathPairs(S) /\ Around(s.paths[key], S, f, vp)
        BY <3>1, <4>1 DEF PathOK
      <4>5. paths[key] \in PathPairs(S) /\ Around(paths[key], S, g, vp)
        BY <3>2, <4>1, <4>2, <4>3, <4>4, UpdateAround
      <4>6. PathOK(paths[key], S, g, vp)
        BY <4>1, <4>5 DEF PathOK
      <4> QED BY <4>6 DEF S, vp
    <3> QED BY <3>3, <3>4
  <2> HIDE DEF counts, paths
  <2> QED BY <2>2, <2>3
<1>5. t \in SpreadStates(p)
  BY PanicSame, UpdateInStates DEF Tracks
<1> HIDE DEF counts, paths, t
<1>6. Tracks(t, p, n, g)
  BY <1>2, <1>3, <1>4, <1>5 DEF Tracks
<1> QED
  BY <1>6 DEF t

\* Filter accepts the node.
Accepted(s, p, n) ==
    \/ DOMAIN s.counts = {}
    \/ \A c \in Range(HardOf(p)) :
          /\ HasKey(n, c.key)
          /\ ~ ((IF PairOf(n, c.key) \in DOMAIN s.counts THEN s.counts[PairOf(n, c.key)] ELSE 0)
                   + SelfMatch(c, p) - s.paths[c.key][1].num > c.skew)

\* Filter goes through the constraints in their order; it accepts the node where none
\* of them refuses it.
LEMMA FilterAccepts ==
    ASSUME NEW p \in Pods, NEW n, NEW s, s.constraints = HardOf(p)
    PROVE  SpreadFilter(s, p, n) = "Success" <=> Accepted(s, p, n)
<1> DEFINE cs == HardOf(p)
           Answer(c) == IF ~HasKey(n, c.key) THEN "UnschedulableAndUnresolvable"
                      ELSE IF (IF PairOf(n, c.key) \in DOMAIN s.counts THEN s.counts[PairOf(n, c.key)] ELSE 0)
                   + SelfMatch(c, p) - s.paths[c.key][1].num > c.skew THEN "Unschedulable" ELSE "Success"
           I == {i \in 1 .. Len(cs) : Answer(cs[i]) # "Success"}
<1>1. SpreadFilter(s, p, n) = IF DOMAIN s.counts = {} \/ (IF I # {} THEN Min(I) ELSE 0) = 0 THEN "Success"
                              ELSE Answer(cs[IF I # {} THEN Min(I) ELSE 0])
  BY DEF SpreadFilter, SelectInSeq
<1>2. Len(cs) \in Nat /\ DOMAIN cs = 1 .. Len(cs)
  BY ConstraintsAssumption DEF HardOf
<1>3. Range(cs) = {cs[i] : i \in 1 .. Len(cs)}
  BY <1>2 DEF Range
<1>4. \A c : Answer(c) = "Success" <=> /\ HasKey(n, c.key)
          /\ ~ ((IF PairOf(n, c.key) \in DOMAIN s.counts THEN s.counts[PairOf(n, c.key)] ELSE 0)
                   + SelfMatch(c, p) - s.paths[c.key][1].num > c.skew)
  OBVIOUS
<1> HIDE DEF Answer, cs
<1>5. CASE I = {}
  <2>1. \A c \in Range(cs) : Answer(c) = "Success"
    BY <1>3, <1>5
  <2>2. SpreadFilter(s, p, n) = "Success"
    BY <1>1, <1>5
  <2> QED BY <1>4, <2>1, <2>2 DEF Accepted, cs
<1>6. CASE I # {}
  <2>1. IsFiniteSet(I) /\ I \subseteq Int
    <3>1. IsFiniteSet(1 .. Len(cs))
      BY <1>2, FS_Interval
    <3> QED BY <1>2, <3>1, FS_Subset
  <2>2. Min(I) \in I
    BY <1>6, <2>1, MinMax
  <2>3. PICK i \in 1 .. Len(cs) : i = Min(I) /\ Answer(cs[i]) # "Success"
    BY <2>2
  <2>3a. i # 0 /\ cs[i] \in Range(cs)
    BY <1>2, <1>3
  <2>4. SpreadFilter(s, p, n) = "Success" <=> DOMAIN s.counts = {}
    BY <1>1, <1>6, <2>3, <2>3a
  <2> HIDE DEF I
  <2> QED BY <1>4, <2>3, <2>3a, <2>4 DEF Accepted, cs
<1> QED
  BY <1>5, <1>6

\* Filter treats states that stand for the same numbers alike.
LEMMA SameVerdict ==
    ASSUME NEW p \in Pods, NEW n, NEW f, NEW s, NEW t, Tracks(s, p, n, f), Tracks(t, p, n, f)
    PROVE  SpreadFilter(s, p, n) = "Success" <=> SpreadFilter(t, p, n) = "Success"
<1>1. /\ SpreadFilter(s, p, n) = "Success" <=> Accepted(s, p, n)
      /\ SpreadFilter(t, p, n) = "Success" <=> Accepted(t, p, n)
  BY FilterAccepts DEF Tracks, SpreadStates
<1>2. DOMAIN s.counts = PairsFor(p) /\ DOMAIN t.counts = PairsFor(p)
  BY DEF Tracks, SpreadStates
<1>3. CASE ~AllKeys(n, p)
  <2>1. ~ \A c \in Range(HardOf(p)) : HasKey(n, c.key)
    BY <1>3 DEF AllKeys, NodeLabelsMatchSpreadConstraints
  <2> QED BY <1>1, <1>2, <2>1 DEF Accepted
<1>4. CASE AllKeys(n, p)
  <2>1. \A x \in PairsFor(p) : s.counts[x] = t.counts[x]
    BY <1>4 DEF Tracks
  <2>2. ASSUME NEW c \in Range(HardOf(p)) PROVE s.paths[c.key][1].num = t.paths[c.key][1].num
    <3> DEFINE key == c.key
               S == KeyPairs(p, key)
               vp == PairOf(n, key)
    <3>1. key \in KeysOf(p)
      BY DEF KeysOf
    <3>2. PathOK(s.paths[key], S, f, vp) /\ PathOK(t.paths[key], S, f, vp)
      BY <1>4, <3>1 DEF Tracks
    <3>3. Numbers(f, S)
      BY DEF Tracks, Numbers, KeyPairs
    <3> HIDE DEF key, S, vp
    <3>4. /\ s.paths[key][1].num \in Int /\ Low(s.paths[key][1].num, S, f)
          /\ t.paths[key][1].num \in Int /\ Low(t.paths[key][1].num, S, f)
      BY <3>2, <3>3, PathLow
    <3>5. s.paths[key][1].num = t.paths[key][1].num
      BY <3>3, <3>4, LowUnique
    <3> QED BY <3>5 DEF key
  <2> QED BY <1>1, <1>2, <2>1, <2>2 DEF Accepted
<1> QED
  BY <1>3, <1>4

-----------------------------------------------------------------------------
(* The numbers of the pairs, when pods are added and taken off.            *)

\* The pods of a set that match the constraint of pair x, terminating or not, and the
\* numbers when a node's pods are new and were old.
MatchingIn(p, x, pods) ==
    {q \in pods : PodSpec[q].ns = PodSpec[p].ns /\ Matches(ConstraintFor(p, x).selector, q)}
Moved(p, n, f, new, old) ==
    [x \in PairsFor(p) |->
        f[x] + IF AllKeys(n, p) /\ x = PairOf(n, x[1])
               THEN Cardinality(MatchingIn(p, x, new)) - Cardinality(MatchingIn(p, x, old)) ELSE 0]

\* The matching pods are finitely many.
LEMMA MatchingType ==
    ASSUME NEW p, NEW x, NEW pods \in SUBSET Pods
    PROVE  /\ IsFiniteSet(MatchingIn(p, x, pods))
           /\ Cardinality(MatchingIn(p, x, pods)) \in Nat
<1>1. MatchingIn(p, x, pods) \in SUBSET Pods
  BY DEF MatchingIn
<1> QED
  BY <1>1, PodsAssumption, FS_Subset, FS_CardinalityType

\* One pod more.
LEMMA MovedOne ==
    ASSUME NEW p \in Pods, NEW n, NEW f, Numbers(f, PairsFor(p)), NEW pods \in SUBSET Pods,
           NEW old \in SUBSET Pods, NEW q \in Pods, q \notin pods, NEW x \in PairsFor(p)
    PROVE  /\ Moved(p, n, f, pods, old)[x] \in Int
           /\ Moved(p, n, f, pods \cup {q}, old)[x]
                = Moved(p, n, f, pods, old)[x] + IF Hit(p, n, q, x) THEN 1 ELSE 0
<1> DEFINE M == MatchingIn(p, x, pods)
           N == MatchingIn(p, x, pods \cup {q})
           O == MatchingIn(p, x, old)
           here == AllKeys(n, p) /\ x = PairOf(n, x[1])
           match == PodSpec[q].ns = PodSpec[p].ns /\ Matches(ConstraintFor(p, x).selector, q)
<1>1. IsFiniteSet(M) /\ Cardinality(M) \in Nat /\ Cardinality(O) \in Nat
  BY MatchingType
<1>2. q \notin M /\ N = IF match THEN M \cup {q} ELSE M
  BY DEF MatchingIn
<1>3. Cardinality(N) = Cardinality(M) + IF match THEN 1 ELSE 0
  <2> HIDE DEF M, N, O, match
  <2>1. CASE match
    <3>1. N = M \cup {q}
      BY <1>2, <2>1
    <3>2. Cardinality(M \cup {q}) = Cardinality(M) + 1
      BY <1>1, <1>2, FS_AddElement
    <3> QED BY <2>1, <3>1, <3>2
  <2>2. CASE ~match
    BY <1>1, <1>2, <2>2
  <2> QED BY <2>1, <2>2
<1>4. f[x] \in Int
  BY DEF Numbers
<1>5. /\ Moved(p, n, f, pods, old)[x] = f[x] + IF here THEN Cardinality(M) - Cardinality(O) ELSE 0
      /\ Moved(p, n, f, pods \cup {q}, old)[x] = f[x] + IF here THEN Cardinality(N) - Cardinality(O) ELSE 0
  BY DEF Moved
<1>6. Hit(p, n, q, x) <=> here /\ match
  BY DEF Hit
<1> HIDE DEF M, N, O, here, match
<1> QED
  BY <1>1, <1>3, <1>4, <1>5, <1>6

\* AddPod and RemovePod.
LEMMA AddTracks ==
    ASSUME NEW p \in Pods, NEW n, NEW f, Numbers(f, PairsFor(p)), NEW pods \in SUBSET Pods,
           NEW old \in SUBSET Pods, NEW q \in Pods, q \notin pods, ~Panics(q, p, n), NEW s
    PROVE  /\ Tracks(s, p, n, Moved(p, n, f, pods, old))
                => Tracks(SpreadUpdateWithPod(s, q, p, n, 1), p, n, Moved(p, n, f, pods \cup {q}, old))
           /\ Tracks(s, p, n, Moved(p, n, f, pods \cup {q}, old))
                => Tracks(SpreadUpdateWithPod(s, q, p, n, -1), p, n, Moved(p, n, f, pods, old))
<1> DEFINE g == Moved(p, n, f, pods, old)
           h == Moved(p, n, f, pods \cup {q}, old)
<1>1. \A x \in PairsFor(p) : g[x] \in Int /\ h[x] = g[x] + IF Hit(p, n, q, x) THEN 1 ELSE 0
  BY MovedOne
<1> HIDE DEF g, h
<1>2. \A x \in PairsFor(p) : g[x] = h[x] + IF Hit(p, n, q, x) THEN -1 ELSE 0
  BY <1>1
<1>3. ASSUME Tracks(s, p, n, g) PROVE Tracks(SpreadUpdateWithPod(s, q, p, n, 1), p, n, h)
  <2>1. ~SpreadPanics(s, q, p, n)
    BY <1>3, PanicSame DEF Tracks
  <2> QED BY <1>1, <1>3, <2>1, UpdateTracks
<1>4. ASSUME Tracks(s, p, n, h) PROVE Tracks(SpreadUpdateWithPod(s, q, p, n, -1), p, n, g)
  <2>1. ~SpreadPanics(s, q, p, n)
    BY <1>4, PanicSame DEF Tracks
  <2>2. -1 \in Int
    OBVIOUS
  <2> QED BY <1>2, <1>4, <2>1, <2>2, UpdateTracks
<1> QED
  BY <1>3, <1>4 DEF g, h

\* Only the numbers matter, and only on a node with all keys.
LEMMA TracksSame ==
    ASSUME NEW p \in Pods, NEW n, NEW f, NEW g, NEW s, Tracks(s, p, n, f), Numbers(g, PairsFor(p)),
           AllKeys(n, p) => \A x \in PairsFor(p) : g[x] = f[x]
    PROVE  Tracks(s, p, n, g)
<1> SUFFICES ASSUME AllKeys(n, p), NEW key \in KeysOf(p)
             PROVE  PathOK(s.paths[key], KeyPairs(p, key), g, PairOf(n, key))
  BY DEF Tracks
<1>1. PathOK(s.paths[key], KeyPairs(p, key), f, PairOf(n, key))
  BY DEF Tracks
<1>2. \A x \in KeyPairs(p, key) : g[x] = f[x]
  BY DEF KeyPairs
<1> QED
  BY <1>1, <1>2, PathSame

\* Two finite sets differ in size by what each has alone.
LEMMA SizesDiffer ==
    ASSUME NEW A, NEW B, IsFiniteSet(A), IsFiniteSet(B)
    PROVE  /\ Cardinality(A) \in Nat /\ Cardinality(B) \in Nat
           /\ Cardinality(A \ B) \in Nat /\ Cardinality(B \ A) \in Nat
           /\ Cardinality(B) - Cardinality(A) = Cardinality(B \ A) - Cardinality(A \ B)
<1>1. IsFiniteSet(A \cap B) /\ A \cap B = B \cap A
  BY FS_Subset
<1>2. /\ Cardinality(A \ B) = Cardinality(A) - Cardinality(A \cap B)
      /\ Cardinality(B \ A) = Cardinality(B) - Cardinality(A \cap B)
      /\ IsFiniteSet(A \ B) /\ IsFiniteSet(B \ A)
  BY <1>1, FS_Difference
<1>3. /\ Cardinality(A) \in Nat /\ Cardinality(B) \in Nat /\ Cardinality(A \cap B) \in Nat
      /\ Cardinality(A \ B) \in Nat /\ Cardinality(B \ A) \in Nat
  BY <1>1, <1>2, FS_CardinalityType
<1> QED
  BY <1>2, <1>3

\* The pods that are counted for pair x of constraint c.
CountedAt(c, x, p, a) ==
    {q \in Pods : /\ a[q] # None /\ HasKey(a[q], c.key) /\ PairOf(a[q], c.key) = x
                  /\ ~PodSpec[q].terminating /\ PodSpec[q].ns = PodSpec[p].ns /\ Matches(c.selector, q)}

\* The count of a pair is the number of pods that count for it, on whatever node.
LEMMA MatchNumIsSize ==
    ASSUME NEW c, NEW x, NEW p, NEW a
    PROVE  MatchNum(c, x, p, a) = Cardinality(CountedAt(c, x, p, a))
<1> DEFINE T == {q \in {r \in Pods : a[r] # None /\ HasKey(a[r], c.key) /\ PairOf(a[r], c.key) = x} :
                    ~PodSpec[q].terminating /\ PodSpec[q].ns = PodSpec[p].ns /\ Matches(c.selector, q)}
<1>1. MatchNum(c, x, p, a) = Cardinality(T)
  BY DEF MatchNum, CountPodsMatchSelector, Quantify
<1>2. T = CountedAt(c, x, p, a)
  BY DEF CountedAt
<1> HIDE DEF T
<1> QED
  BY <1>1, <1>2

\* Counting again gives the numbers moved by the pods that came and went, when none of
\* them is terminating.
LEMMA CountsMoved ==
    ASSUME NEW p \in Pods, NEW n \in Nodes, NEW a \in Placements, NEW pods \in SUBSET Pods, NEW b,
           AllKeys(n, p),
           b = [q \in Pods |-> IF q \in pods THEN n ELSE IF a[q] = n THEN None ELSE a[q]],
           \A q \in pods : a[q] \in {n, None},
           \A q \in (PodsOn(a, n) \ pods) \cup (pods \ PodsOn(a, n)) : ~PodSpec[q].terminating,
           NEW x \in PairsFor(p)
    PROVE  PairCounts(p, b, HardOf(p))[x]
             = Moved(p, n, PairCounts(p, a, HardOf(p)), pods, PodsOn(a, n))[x]
<1> DEFINE c == ConstraintFor(p, x)
           A == CountedAt(c, x, p, a)
           B == CountedAt(c, x, p, b)
           new == MatchingIn(p, x, pods)
           old == MatchingIn(p, x, PodsOn(a, n))
<1>1. /\ PairCounts(p, b, HardOf(p))[x] = Cardinality(B)
      /\ PairCounts(p, a, HardOf(p))[x] = Cardinality(A)
  BY MatchNumIsSize DEF PairCounts, PairsFor, ConstraintFor
<1>2. c.key = x[1] /\ c \in Range(HardOf(p))
  BY PairShape
<1>3. HasKey(n, c.key)
  BY <1>2 DEF AllKeys, NodeLabelsMatchSpreadConstraints
<1>4. A \in SUBSET Pods /\ B \in SUBSET Pods /\ new \in SUBSET Pods /\ old \in SUBSET Pods
  BY DEF CountedAt, MatchingIn, PodsOn
<1>5. IsFiniteSet(A) /\ IsFiniteSet(B) /\ IsFiniteSet(new) /\ IsFiniteSet(old)
  BY <1>4, PodsAssumption, FS_Subset
<1>6. n # None
  BY CycleAssumption
<1>7. CASE x = PairOf(n, x[1])
  <2>1. B \ A = new \ old
    <3>1. ASSUME NEW q \in Pods PROVE q \in B \ A <=> q \in new \ old
      <4>1. CASE q \in pods
        <5>1. b[q] = n /\ a[q] \in {n, None}
          BY <4>1
        <5>2. CASE a[q] = n
          BY <5>1, <5>2 DEF CountedAt, MatchingIn, PodsOn
        <5>3. CASE a[q] = None
          <6>1. ~PodSpec[q].terminating
            BY <1>6, <4>1, <5>3 DEF PodsOn
          <6>2. q \notin A /\ q \notin old
            BY <1>6, <5>3 DEF CountedAt, MatchingIn, PodsOn
          <6>3. q \in B <=> q \in new
            BY <1>2, <1>3, <1>6, <1>7, <4>1, <5>1, <6>1 DEF CountedAt, MatchingIn
          <6> QED BY <6>2, <6>3
        <5> QED BY <5>1, <5>2, <5>3
      <4>2. CASE q \notin pods
        <5>1. b[q] = a[q] \/ b[q] = None
          BY <4>2
        <5> QED BY <4>2, <5>1 DEF CountedAt, MatchingIn
      <4> QED BY <4>1, <4>2
    <3> HIDE DEF A, B, new, old
    <3> QED BY <1>4, <3>1
  <2>2. A \ B = old \ new
    <3>1. ASSUME NEW q \in Pods PROVE q \in A \ B <=> q \in old \ new
      <4>1. CASE q \in pods
        <5>1. b[q] = n /\ a[q] \in {n, None}
          BY <4>1
        <5> QED BY <4>1, <5>1 DEF CountedAt, MatchingIn, PodsOn
      <4>2. CASE q \notin pods /\ a[q] = n
        <5>1. b[q] = None /\ ~PodSpec[q].terminating
          BY <4>2 DEF PodsOn
        <5>2. q \notin B /\ q \notin new
          BY <4>2, <5>1 DEF CountedAt, MatchingIn
        <5>3. q \in A <=> q \in old
          BY <1>2, <1>3, <1>6, <1>7, <4>2, <5>1 DEF CountedAt, MatchingIn, PodsOn
        <5> QED BY <5>2, <5>3
      <4>3. CASE q \notin pods /\ a[q] # n
        <5>1. b[q] = a[q]
          BY <4>3
        <5> QED BY <4>3, <5>1 DEF CountedAt, MatchingIn, PodsOn
      <4> QED BY <4>1, <4>2, <4>3
    <3> HIDE DEF A, B, new, old
    <3> QED BY <1>4, <3>1
  <2>3. Moved(p, n, PairCounts(p, a, HardOf(p)), pods, PodsOn(a, n))[x]
          = Cardinality(A) + (Cardinality(new) - Cardinality(old))
    BY <1>1, <1>7 DEF Moved
  <2> HIDE DEF A, B, new, old
  <2>4. /\ Cardinality(B) - Cardinality(A) = Cardinality(B \ A) - Cardinality(A \ B)
        /\ Cardinality(new) - Cardinality(old) = Cardinality(new \ old) - Cardinality(old \ new)
        /\ Cardinality(A) \in Nat /\ Cardinality(B) \in Nat /\ Cardinality(new) \in Nat /\ Cardinality(old) \in Nat
    BY <1>5, SizesDiffer
  <2>5. Cardinality(B) - Cardinality(A) = Cardinality(new) - Cardinality(old)
    BY <2>1, <2>2, <2>4
  <2> QED BY <1>1, <2>3, <2>4, <2>5
<1>8. CASE x # PairOf(n, x[1])
  <2>1. A = B
    <3>1. ASSUME NEW q \in Pods PROVE q \in A <=> q \in B
      <4>1. CASE q \in pods \/ a[q] = n
        <5>1. a[q] \in {n, None} /\ b[q] \in {n, None}
          BY <4>1
        <5> QED BY <1>2, <1>8, <5>1 DEF CountedAt
      <4>2. CASE q \notin pods /\ a[q] # n
        <5>1. b[q] = a[q]
          BY <4>2
        <5> QED BY <5>1 DEF CountedAt
      <4> QED BY <4>1, <4>2
    <3> HIDE DEF A, B
    <3> QED BY <1>4, <3>1
  <2>2. Moved(p, n, PairCounts(p, a, HardOf(p)), pods, PodsOn(a, n))[x] = Cardinality(A) + 0
    BY <1>1, <1>8 DEF Moved
  <2>3. Cardinality(A) \in Nat
    BY <1>5, FS_CardinalityType
  <2> HIDE DEF A, B
  <2> QED BY <1>1, <2>1, <2>2, <2>3
<1> QED
  BY <1>7, <1>8

\* The fold of AddPod over more pods.
LEMMA AddsAllTrack ==
    ASSUME NEW p \in Pods, NEW n, NEW f, Numbers(f, PairsFor(p)), NEW pods \in SUBSET Pods,
           NEW old \in SUBSET Pods, NEW S \in SUBSET Pods, S \cap pods = {}, \A q \in S : ~Panics(q, p, n),
           NEW base, Tracks(base, p, n, Moved(p, n, f, pods, old))
    PROVE  Tracks(FoldSet(LAMBDA q, t : SpreadUpdateWithPod(t, q, p, n, 1), base, S), p, n,
                  Moved(p, n, f, pods \cup S, old))
<1> DEFINE V == SpreadStates(p)
           step == [y \in S \X V |-> SpreadUpdateWithPod(y[2], y[1], p, n, 1)]
           Rec(h) == [s \in SUBSET S |-> IF s = {} THEN base
                         ELSE SpreadUpdateWithPod(h[s \ {Pick(s)}], Pick(s), p, n, 1)]
           iter == CHOOSE h : h = Rec(h)
<1>1. IsFiniteSet(S)
  BY PodsAssumption, FS_Subset
<1>2. base \in V
  BY DEF Tracks
<1>3. ASSUME NEW q \in S, NEW t \in V PROVE SpreadUpdateWithPod(t, q, p, n, 1) \in V
  BY <1>3, UpdateInStates
<1>4. step \in [S \X V -> V]
  <2> HIDE DEF V
  <2> QED BY <1>3
<1>5. PICK g \in [SUBSET S -> V] : FoldRule(g, base, step, S)
  <2> HIDE DEF V, step
  <2> QED BY <1>1, <1>2, <1>4, FoldExists
<1>6. ASSUME NEW s \in SUBSET S, s # {}
      PROVE  Pick(s) \in s /\ g[s] = SpreadUpdateWithPod(g[s \ {Pick(s)}], Pick(s), p, n, 1)
  <2>1. Pick(s) \in s
    BY <1>6 DEF Pick
  <2>2. g[s] = step[<<Pick(s), g[s \ {Pick(s)}]>>]
    BY <1>5, <1>6 DEF FoldRule
  <2>3. <<Pick(s), g[s \ {Pick(s)}]>> \in S \X V
    BY <1>5, <2>1
  <2> HIDE DEF V
  <2> QED BY <2>1, <2>2, <2>3
<1>7. g = Rec(g)
  <2>1. ASSUME NEW s \in SUBSET S
        PROVE  g[s] = IF s = {} THEN base ELSE SpreadUpdateWithPod(g[s \ {Pick(s)}], Pick(s), p, n, 1)
    BY <1>5, <1>6 DEF FoldRule
  <2> HIDE DEF V
  <2> QED BY <1>5, <2>1
<1>8. iter = Rec(iter)
  <2> HIDE DEF Rec
  <2> QED BY <1>7
<1>9. FoldSet(LAMBDA q, t : SpreadUpdateWithPod(t, q, p, n, 1), base, S) = iter[S]
  BY DEF FoldSet, MapThenFoldSet, Pick
<1>10. \A s \in SUBSET S : iter[s] = IF s = {} THEN base
                         ELSE SpreadUpdateWithPod(iter[s \ {Pick(s)}], Pick(s), p, n, 1)
  <2> HIDE DEF iter
  <2> QED BY <1>8
<1> HIDE DEF iter, V, step
<1> DEFINE G == {s \in SUBSET S : Tracks(iter[s], p, n, Moved(p, n, f, pods \cup s, old))}
<1>11. {} \in G
  <2>1. pods \cup {} = pods /\ iter[{}] = base
    BY <1>10
  <2>2. Moved(p, n, f, pods \cup {}, old) = Moved(p, n, f, pods, old)
    BY <2>1, Zenon
  <2> QED BY <2>1, <2>2
<1>12. ASSUME NEW s \in SUBSET S, s # {} /\ Pick(s) \in s /\ s \ {Pick(s)} \in G PROVE s \in G
  <2> DEFINE q == Pick(s)
             rest == pods \cup (s \ {q})
  <2>1. q \in Pods /\ rest \in SUBSET Pods /\ q \notin rest /\ rest \cup {q} = pods \cup s /\ ~Panics(q, p, n)
    BY <1>12
  <2>2. Tracks(iter[s \ {q}], p, n, Moved(p, n, f, rest, old))
    BY <1>12
  <2>3. iter[s] = SpreadUpdateWithPod(iter[s \ {q}], q, p, n, 1)
    BY <1>10, <1>12
  <2> HIDE DEF q, rest
  <2>4. Tracks(SpreadUpdateWithPod(iter[s \ {q}], q, p, n, 1), p, n, Moved(p, n, f, rest \cup {q}, old))
    BY <2>1, <2>2, AddTracks
  <2>5. Moved(p, n, f, rest \cup {q}, old) = Moved(p, n, f, pods \cup s, old)
    BY <2>1, Zenon
  <2> QED BY <2>3, <2>4, <2>5
<1>13. SUBSET S \subseteq G
  <2> HIDE DEF G
  <2> QED BY <1>1, <1>11, <1>12, SubsetInduction
<1> QED
  BY <1>9, <1>13

-----------------------------------------------------------------------------
(* Dry runs.                                                               *)

\* The pods of node n that may be preempted: lower than the incoming pod.
Preemptable(n) == {q \in PodsOn(at, n) : Priority[q] < Priority[pod]}

\* The state s of the spread plugin stands for the snapshot with the given pods on node n.
SnapshotCounts == PairCounts(pod, at, HardOf(pod))
SpreadFor(s, n, pods) == Tracks(s, pod, n, Moved(pod, n, SnapshotCounts, pods, PodsOn(at, n)))

\* The snapshot and the nominations; the state of the cycle after PreFilter; the dry
\* run under way, in which every pod of the node is on it, taken off or a victim; and
\* the victims of the candidates, which are pods of their nodes and lower ones.
CycleOK ==
    /\ pod \in Pods
    /\ at \in Placements
    /\ nominated \in Placements
    /\ \A p \in Pods : nominated[p] # None => at[p] = None
StateOK ==
    phase # "prefilter" =>
        state.affinity = AffinityPreFilter(pod, at) /\ state.spread \in calPreFilterState(pod, at)
DryRunOK ==
    phase \in {"takeoff", "reprieve"} =>
        /\ node \in Nodes
        /\ info.pods \cup potential \cup victims = PodsOn(at, node)
        /\ info.pods \cap potential = {}
        /\ potential \cup victims \subseteq Preemptable(node)
        /\ \A q \in potential : ~Panics(q, pod, node)
        /\ copy.affinity = AffinityPreFilter(pod, Placing(node, info.pods))
        /\ SpreadFor(copy.spread, node, info.pods)
VictimsOK ==
    /\ \A n \in DOMAIN candidates : candidates[n] \subseteq Preemptable(n)
    /\ phase = "prepare" => node \in DOMAIN candidates /\ victims \subseteq candidates[node]
DryRunInv == CycleOK /\ StateOK /\ DryRunOK /\ VictimsOK

\* The node with all of its pods is the snapshot.
LEMMA PlacingAll ==
    ASSUME CycleOK, NEW n
    PROVE  Placing(n, PodsOn(at, n)) = at
  BY DEF CycleOK, Placements, Placing, PodsOn

\* The node with one pod more.
LEMMA PlacingOne ==
    ASSUME CycleOK, NEW n \in Nodes, NEW pods \in SUBSET Pods, NEW q \in Pods, q \notin pods, at[q] = n
    PROVE  /\ Placing(n, pods) \in Placements
           /\ Placing(n, pods)[q] = None
           /\ Placing(n, pods \cup {q}) = [Placing(n, pods) EXCEPT ![q] = n]
<1>1. Placing(n, pods) \in Placements
  BY DEF CycleOK, Placements, Placing
<1>2. Placing(n, pods)[q] = None
  BY DEF Placing
<1>3. Placing(n, pods \cup {q}) = [Placing(n, pods) EXCEPT ![q] = n]
  BY DEF Placing
<1> QED
  BY <1>1, <1>2, <1>3

\* Taking a pod off the node, and putting one back, keep the copy of the state exact.
LEMMA CopyExact ==
    ASSUME CycleOK, NEW n \in Nodes, NEW pods \in SUBSET Pods, NEW q \in Pods, q \notin pods, at[q] = n, NEW s
    PROVE  /\ s.affinity = AffinityPreFilter(pod, Placing(n, pods))
                => StateWithPod(s, q, n, 1).affinity = AffinityPreFilter(pod, Placing(n, pods \cup {q}))
           /\ s.affinity = AffinityPreFilter(pod, Placing(n, pods \cup {q}))
                => StateWithPod(s, q, n, -1).affinity = AffinityPreFilter(pod, Placing(n, pods))
<1> DEFINE a == Placing(n, pods)
<1>1. /\ a \in Placements /\ a[q] = None
      /\ Placing(n, pods \cup {q}) = [a EXCEPT ![q] = n]
  BY PlacingOne
<1>2. pod \in Pods
  BY DEF CycleOK
<1>3. \A v : StateWithPod(s, q, n, v).affinity = AffinityUpdateWithPod(s.affinity, q, pod, n, v)
  BY DEF StateWithPod
<1> HIDE DEF a
<1>4. /\ AffinityUpdateWithPod(AffinityPreFilter(pod, a), q, pod, n, 1) = AffinityPreFilter(pod, [a EXCEPT ![q] = n])
      /\ AffinityUpdateWithPod(AffinityPreFilter(pod, [a EXCEPT ![q] = n]), q, pod, n, -1) = AffinityPreFilter(pod, a)
  BY <1>1, <1>2, UpdateAdds, UpdateRemoves
<1> QED
  BY <1>1, <1>3, <1>4 DEF a

\* The numbers of the snapshot.
LEMMA SnapshotNumbers ==
    ASSUME CycleOK
    PROVE  Numbers(SnapshotCounts, PairsFor(pod))
<1>1. pod \in Pods
  BY DEF CycleOK
<1>2. \A x \in PairsFor(pod) : SnapshotCounts[x] = MatchNum(ConstraintFor(pod, x), x, pod, at)
  BY DEF SnapshotCounts, PairCounts, PairsFor, ConstraintFor
<1> QED
  BY <1>1, <1>2, MatchNumType DEF Numbers

\* PreFilter's state is the one for the pods of the snapshot.
LEMMA SpreadInitially ==
    ASSUME CycleOK, NEW s \in calPreFilterState(pod, at), NEW n
    PROVE  SpreadFor(s, n, PodsOn(at, n))
<1> DEFINE g == Moved(pod, n, SnapshotCounts, PodsOn(at, n), PodsOn(at, n))
<1>1. pod \in Pods /\ PodsOn(at, n) \in SUBSET Pods
  BY DEF CycleOK, PodsOn
<1>2. Tracks(s, pod, n, SnapshotCounts)
  BY <1>1, FreshTracks DEF SnapshotCounts
<1>3. ASSUME NEW x \in PairsFor(pod) PROVE g[x] = SnapshotCounts[x] /\ SnapshotCounts[x] \in Int
  <2>1. SnapshotCounts[x] \in Int
    BY SnapshotNumbers DEF Numbers
  <2>2. Cardinality(MatchingIn(pod, x, PodsOn(at, n))) \in Nat
    BY <1>1, MatchingType
  <2> QED BY <2>1, <2>2 DEF Moved
<1>4. Tracks(s, pod, n, g)
  <2> HIDE DEF g
  <2>1. Numbers(g, PairsFor(pod))
    BY <1>3 DEF Numbers
  <2> QED BY <1>1, <1>2, <1>3, <2>1, TracksSame
<1> QED
  BY <1>4 DEF SpreadFor

\* Taking a pod off the node, and putting one back.
LEMMA SpreadChange ==
    ASSUME CycleOK, NEW n, NEW pods \in SUBSET Pods, NEW q \in Pods, q \notin pods, ~Panics(q, pod, n), NEW s
    PROVE  /\ SpreadFor(s.spread, n, pods) => SpreadFor(StateWithPod(s, q, n, 1).spread, n, pods \cup {q})
           /\ SpreadFor(s.spread, n, pods \cup {q}) => SpreadFor(StateWithPod(s, q, n, -1).spread, n, pods)
<1>1. pod \in Pods /\ PodsOn(at, n) \in SUBSET Pods
  BY DEF CycleOK, PodsOn
<1>2. \A v : StateWithPod(s, q, n, v).spread = SpreadUpdateWithPod(s.spread, q, pod, n, v)
  BY DEF StateWithPod
<1>3. Numbers(SnapshotCounts, PairsFor(pod))
  BY SnapshotNumbers
<1> QED
  BY <1>1, <1>2, <1>3, AddTracks DEF SpreadFor

\* The invariant holds initially.
LEMMA DryRunInitial == Init => DryRunInv
<1> SUFFICES ASSUME Init PROVE DryRunInv
  OBVIOUS
<1>1. \A ps \in SUBSET Pods : Extended(ps) \subseteq Placements
  BY DEF Extended, Placements
<1>2. at \in Placements
  <2>1. {p \in Pods : Placeable[p] # {}} \in SUBSET Pods
    OBVIOUS
  <2> QED BY <1>1, <2>1 DEF Init
<1>3. nominated \in Placements
  BY DEF Init, Extended, Placements
<1>4. DOMAIN candidates = {}
  BY DEF Init
<1> QED
  BY <1>2, <1>3, <1>4, CycleAssumption DEF Init, DryRunInv, CycleOK, StateOK, DryRunOK, VictimsOK

\* Every step keeps it.
LEMMA DryRunStep == DryRunInv /\ [Next]_vars => DryRunInv'
<1> SUFFICES ASSUME DryRunInv, [Next]_vars PROVE DryRunInv'
  OBVIOUS
<1> USE DEF DryRunInv
<1>0. ASSUME UNCHANGED <<pod, at>>
      PROVE  /\ \A n : Preemptable(n)' = Preemptable(n)
             /\ \A n, pods : Placing(n, pods)' = Placing(n, pods)
             /\ \A s, n, pods : SpreadFor(s, n, pods)' = SpreadFor(s, n, pods)
  BY <1>0 DEF Preemptable, Placing, PodsOn, SpreadFor, SnapshotCounts
<1>1. CASE PreFilter
  <2>1. state'.affinity = AffinityPreFilter(pod, at) /\ state'.spread \in calPreFilterState(pod, at)
    BY <1>1 DEF PreFilter
  <2> QED BY <1>0, <1>1, <2>1 DEF PreFilter, dryRun, CycleOK, StateOK, DryRunOK, VictimsOK
<1>2. CASE Filter
  BY <1>0, <1>2 DEF Filter, dryRun, CycleOK, StateOK, DryRunOK, VictimsOK
<1>3. CASE FilterPanics
  BY <1>0, <1>3 DEF FilterPanics, dryRun, CycleOK, StateOK, DryRunOK, VictimsOK
<1>4. CASE Score
  BY <1>0, <1>4 DEF Score, dryRun, CycleOK, StateOK, DryRunOK, VictimsOK
<1>5. CASE NotEligible
  BY <1>0, <1>5 DEF NotEligible, dryRun, CycleOK, StateOK, DryRunOK, VictimsOK
<1>6. CASE NoPotentialNodes
  <2>1. nominated' \in Placements /\ \A p \in Pods : nominated'[p] # None => nominated[p] # None
    BY <1>6 DEF NoPotentialNodes, CycleOK, Placements
  <2> QED BY <1>0, <1>6, <2>1 DEF NoPotentialNodes, dryRun, CycleOK, StateOK, DryRunOK, VictimsOK
<1>7. CASE FindCandidates
  BY <1>0, <1>7 DEF FindCandidates, dryRun, CycleOK, StateOK, DryRunOK, VictimsOK
<1>8. ASSUME NEW n \in Nodes, StartNode(n) PROVE DryRunInv'
  <2>1. info'.pods = PodsOn(at, n)
    BY <1>8 DEF StartNode, NodeInfoOf
  <2>2. copy'.affinity = AffinityPreFilter(pod, Placing(n, PodsOn(at, n)))
    BY <1>8, PlacingAll DEF StartNode, StateOK
  <2>2a. SpreadFor(copy'.spread, n, PodsOn(at, n))
    BY <1>8, SpreadInitially DEF StartNode, StateOK
  <2>3. UNCHANGED <<pod, at>> /\ PodsOn(at, n)' = PodsOn(at, n)
    BY <1>8 DEF StartNode, PodsOn
  <2>4. DryRunOK'
    BY <1>0, <1>8, <2>1, <2>2, <2>2a, <2>3 DEF StartNode, DryRunOK
  <2> QED BY <1>0, <1>8, <2>4 DEF StartNode, CycleOK, StateOK, VictimsOK
<1>9. ASSUME NEW q \in Pods, TakeOff(q) PROVE DryRunInv'
  <2> DEFINE rest == info.pods \ {q}
  <2>1. /\ phase = "takeoff" /\ q \in info.pods /\ Priority[q] < Priority[pod]
        /\ node \in Nodes /\ at[q] = node /\ rest \in SUBSET Pods /\ rest \cup {q} = info.pods
    BY <1>9 DEF TakeOff, LowerPods, DryRunOK, PodsOn
  <2>2. copy'.affinity = AffinityPreFilter(pod, Placing(node, rest))
    <3>1. StateWithPod(copy, q, node, -1).affinity = AffinityPreFilter(pod, Placing(node, rest))
      BY <2>1, CopyExact DEF DryRunOK
    <3> QED BY <1>9, <3>1 DEF TakeOff
  <2>2a. ~Panics(q, pod, node)
    BY <1>9, PanicSame DEF TakeOff, DryRunOK, SpreadFor, Tracks
  <2>2b. SpreadFor(copy'.spread, node, rest)
    <3>1. SpreadFor(StateWithPod(copy, q, node, -1).spread, node, rest)
      BY <2>1, <2>2a, SpreadChange DEF DryRunOK
    <3> QED BY <1>9, <3>1 DEF TakeOff
  <2>3. info'.pods = rest
    BY <1>9 DEF TakeOff, RemovePod
  <2>4. UNCHANGED <<pod, at, node, victims, phase>> /\ potential' = potential \cup {q} /\ PodsOn(at, node)' = PodsOn(at, node)
    BY <1>9 DEF TakeOff, PodsOn
  <2>5. DryRunOK'
    BY <1>0, <2>1, <2>2, <2>2a, <2>2b, <2>3, <2>4 DEF DryRunOK, Preemptable, PodsOn
  <2> QED BY <1>0, <1>9, <2>5 DEF TakeOff, CycleOK, StateOK, VictimsOK
<1>10. ASSUME NEW q \in Pods, TakeOffPanics(q) PROVE DryRunInv'
  BY <1>0, <1>10 DEF TakeOffPanics, dryRun, CycleOK, StateOK, DryRunOK, VictimsOK
<1>11. CASE CheckEmptied
  <2>1. PodsOn(at, node)' = PodsOn(at, node)
    BY <1>11 DEF CheckEmptied, dryRun, PodsOn
  <2> QED BY <1>0, <1>11, <2>1 DEF CheckEmptied, dryRun, CycleOK, StateOK, DryRunOK, VictimsOK
<1>12. ASSUME NEW q \in Pods, Reprieve(q) PROVE DryRunInv'
  <2> DEFINE back == StateWithPod(copy, q, node, 1)
  <2>1. /\ phase = "reprieve" /\ q \in potential /\ q \notin info.pods /\ info.pods \in SUBSET Pods
        /\ node \in Nodes /\ at[q] = node
    BY <1>12 DEF Reprieve, DryRunOK, PodsOn
  <2>2. back.affinity = AffinityPreFilter(pod, Placing(node, info.pods \cup {q}))
    BY <2>1, CopyExact DEF DryRunOK
  <2>2a. ~Panics(q, pod, node)
    BY <2>1 DEF DryRunOK
  <2>2b. SpreadFor(back.spread, node, info.pods \cup {q})
    BY <2>1, <2>2a, SpreadChange DEF DryRunOK
  <2>2c. SpreadFor(StateWithPod(back, q, node, -1).spread, node, info.pods)
    <3> HIDE DEF back
    <3> QED BY <2>1, <2>2a, <2>2b, SpreadChange
  <2>3. StateWithPod(back, q, node, -1).affinity = AffinityPreFilter(pod, Placing(node, info.pods))
    <3> HIDE DEF back
    <3> QED BY <2>1, <2>2, CopyExact
  <2>4. UNCHANGED <<pod, at, node, phase>> /\ potential' = potential \ {q} /\ PodsOn(at, node)' = PodsOn(at, node)
    BY <1>12 DEF Reprieve, PodsOn
  <2>5. \/ /\ info'.pods = info.pods \cup {q} /\ copy' = back /\ victims' = victims
        \/ /\ info'.pods = info.pods /\ copy' = StateWithPod(back, q, node, -1) /\ victims' = victims \cup {q}
    <3>1. AddPod(info, q).pods = info.pods \cup {q}
      BY DEF AddPod
    <3>2. RemovePod(AddPod(info, q), q).pods = info.pods
      BY <2>1, <3>1 DEF RemovePod
    <3> QED BY <1>12, <3>1, <3>2 DEF Reprieve
  <2> HIDE DEF back
  <2>6. DryRunOK'
    <3>1. CASE info'.pods = info.pods \cup {q} /\ copy' = back /\ victims' = victims
      BY <1>0, <2>1, <2>2, <2>2b, <2>4, <3>1 DEF DryRunOK
    <3>2. CASE info'.pods = info.pods /\ copy' = StateWithPod(back, q, node, -1) /\ victims' = victims \cup {q}
      BY <1>0, <2>1, <2>2c, <2>3, <2>4, <3>2 DEF DryRunOK
    <3> QED BY <2>5, <3>1, <3>2
  <2> QED BY <1>0, <1>12, <2>6 DEF Reprieve, CycleOK, StateOK, VictimsOK
<1>13. CASE EndNode
  <2>1. victims \subseteq Preemptable(node)
    BY <1>13 DEF EndNode, DryRunOK
  <2>2. \A n \in DOMAIN candidates' : candidates'[n] \subseteq Preemptable(n)
    BY <1>13, <2>1 DEF EndNode, VictimsOK
  <2> QED BY <1>0, <1>13, <2>2 DEF EndNode, dryRun, CycleOK, StateOK, DryRunOK, VictimsOK
<1>14. CASE NoCandidate
  BY <1>0, <1>14 DEF NoCandidate, dryRun, CycleOK, StateOK, DryRunOK, VictimsOK
<1>15. CASE SelectCandidate
  <2>1. PICK n \in Chosen : node' = n /\ victims' = candidates[n]
    BY <1>15 DEF SelectCandidate, Chosen
  <2>2. n \in DOMAIN candidates
    BY <2>1, PickedIsLeast DEF Chosen
  <2> QED BY <1>0, <1>15, <2>1, <2>2 DEF SelectCandidate, CycleOK, StateOK, DryRunOK, VictimsOK
<1>16. ASSUME NEW q \in Pods, DeleteVictim(q) PROVE DryRunInv'
  BY <1>0, <1>16 DEF DeleteVictim, CycleOK, StateOK, DryRunOK, VictimsOK
<1>17. CASE DeleteFails
  BY <1>0, <1>17 DEF DeleteFails, dryRun, CycleOK, StateOK, DryRunOK, VictimsOK
<1>18. CASE Nominate
  <2>1. nominated' \in Placements /\ \A p \in Pods : nominated'[p] # None => nominated[p] # None
    BY <1>18 DEF Nominate, CycleOK, Placements
  <2> QED BY <1>0, <1>18, <2>1 DEF Nominate, dryRun, CycleOK, StateOK, DryRunOK, VictimsOK
<1>19. CASE UNCHANGED vars
  <2>1. PodsOn(at, node)' = PodsOn(at, node)
    BY <1>19 DEF vars, PodsOn
  <2> QED BY <1>0, <1>19, <2>1 DEF vars, CycleOK, StateOK, DryRunOK, VictimsOK
<1> QED
  BY <1>1, <1>2, <1>3, <1>4, <1>5, <1>6, <1>7, <1>8, <1>9, <1>10, <1>11, <1>12, <1>13,
     <1>14, <1>15, <1>16, <1>17, <1>18, <1>19 DEF Next

\* The filters see exact maps also with the nominated pods of a node.
LEMMA NominatedExact ==
    ASSUME CycleOK, state.affinity = AffinityPreFilter(pod, at), NEW n \in Nodes
    PROVE  WithNominated(n, state).affinity
             = AffinityPreFilter(pod, Placing(n, PodsOn(at, n) \cup NominatedHere(n)))
<1> DEFINE S == NominatedHere(n)
           a == [q \in Pods |-> IF q \in S THEN n ELSE at[q]]
<1>1. S \in SUBSET Pods /\ \A q \in S : at[q] = None
  BY CycleAssumption DEF NominatedHere, CycleOK
<1>2. pod \in Pods /\ at \in Placements
  BY DEF CycleOK
<1>3. Placing(n, PodsOn(at, n) \cup S) = a
  BY <1>2 DEF Placing, PodsOn, Placements
<1> HIDE DEF S
<1>4. FoldSet(LAMBDA q, t : AffinityUpdateWithPod(t, q, pod, n, 1), AffinityPreFilter(pod, at), S)
        = AffinityPreFilter(pod, a)
  BY <1>1, <1>2, UpdateAddsAll
<1>5. WithNominated(n, state).affinity
        = FoldSet(LAMBDA q, t : AffinityUpdateWithPod(t, q, pod, n, 1), state.affinity, NominatedHere(n))
  BY DEF WithNominated
<1> QED
  BY <1>3, <1>4, <1>5 DEF S

\* Whatever a dry run has taken off and put back, and whichever pods are nominated,
\* the three maps are what PreFilter would compute for the pods that are there.
THEOREM AffinityDryRuns == Spec => []AffinityDryRunExact
<1>1. DryRunInv => AffinityDryRunExact
  <2> SUFFICES ASSUME DryRunInv, NEW d \in DryRuns
               PROVE  d.state.affinity = AffinityPreFilter(pod, Placing(d.node, d.pods))
    BY DEF AffinityDryRunExact
  <2>1. CASE phase \in {"takeoff", "reprieve"}
    BY <2>1 DEF DryRuns, DryRunInv, DryRunOK
  <2>2. CASE phase = "filter"
    <3>1. PICK n \in Nodes : d = [node |-> n, pods |-> PodsOn(at, n) \cup NominatedHere(n),
                                  state |-> WithNominated(n, state)]
      BY <2>2 DEF DryRuns
    <3>2. WithNominated(n, state).affinity
             = AffinityPreFilter(pod, Placing(n, PodsOn(at, n) \cup NominatedHere(n)))
      BY <2>2, NominatedExact DEF DryRunInv, StateOK
    <3> QED BY <3>1, <3>2
  <2> QED BY <2>1, <2>2 DEF DryRuns
<1> QED
  BY <1>1, DryRunInitial, DryRunStep, PTL DEF Spec

\* The state of a dry run stands for the pods counted again.
LEMMA SpreadAfresh ==
    ASSUME CycleOK, NEW n \in Nodes, NEW pods \in SUBSET Pods, \A q \in pods : at[q] \in {n, None},
           \A q \in (PodsOn(at, n) \ pods) \cup (pods \ PodsOn(at, n)) : ~PodSpec[q].terminating,
           NEW s, SpreadFor(s, n, pods)
    PROVE  Tracks(s, pod, n, PairCounts(pod, Placing(n, pods), HardOf(pod)))
<1> DEFINE b == Placing(n, pods)
           g == PairCounts(pod, b, HardOf(pod))
<1>1. pod \in Pods /\ at \in Placements
  BY DEF CycleOK
<1>2. b = [q \in Pods |-> IF q \in pods THEN n ELSE IF at[q] = n THEN None ELSE at[q]]
  BY DEF Placing
<1>3. ASSUME AllKeys(n, pod), NEW x \in PairsFor(pod)
      PROVE  g[x] = Moved(pod, n, SnapshotCounts, pods, PodsOn(at, n))[x]
  <2> HIDE DEF b
  <2> QED BY <1>1, <1>2, <1>3, CountsMoved DEF SnapshotCounts
<1>4. Numbers(g, PairsFor(pod))
  <2>1. \A x \in PairsFor(pod) : g[x] = MatchNum(ConstraintFor(pod, x), x, pod, b)
    BY DEF PairCounts, PairsFor, ConstraintFor
  <2> QED BY <1>1, <2>1, MatchNumType DEF Numbers
<1> HIDE DEF g
<1>5. Tracks(s, pod, n, g)
  BY <1>1, <1>3, <1>4, TracksSame DEF SpreadFor
<1> QED
  BY <1>5 DEF g

\* The filters see the nominated pods of a node in the spread plugin's state.
LEMMA NominatedSpread ==
    ASSUME CycleOK, NEW n \in Nodes, NEW pods \in SUBSET PodsOn(at, n), NEW s, SpreadFor(s.spread, n, pods),
           \A q \in NominatedHere(n) : ~Panics(q, pod, n)
    PROVE  SpreadFor(WithNominated(n, s).spread, n, pods \cup NominatedHere(n))
<1> DEFINE S == NominatedHere(n)
<1>1. /\ pod \in Pods /\ PodsOn(at, n) \in SUBSET Pods /\ pods \in SUBSET Pods
      /\ S \in SUBSET Pods /\ S \cap pods = {}
  BY CycleAssumption DEF NominatedHere, CycleOK, PodsOn
<1>2. Numbers(SnapshotCounts, PairsFor(pod))
  BY SnapshotNumbers
<1>3. WithNominated(n, s).spread
        = FoldSet(LAMBDA q, t : SpreadUpdateWithPod(t, q, pod, n, 1), s.spread, S)
  BY DEF WithNominated
<1> HIDE DEF S
<1>4. Tracks(FoldSet(LAMBDA q, t : SpreadUpdateWithPod(t, q, pod, n, 1), s.spread, S), pod, n,
             Moved(pod, n, SnapshotCounts, pods \cup S, PodsOn(at, n)))
  BY <1>1, <1>2, AddsAllTrack DEF SpreadFor, S
<1> QED
  BY <1>3, <1>4 DEF SpreadFor, S

\* Whatever a dry run has taken off and put back, and whichever pods are nominated, the
\* states of both plugins are as good as the ones that PreFilter would compute.
THEOREM DryRunsExact == Spec => []DryRunExact
<1>1. DryRunInv => SpreadDryRunExact
  <2> SUFFICES ASSUME DryRunInv, NEW d \in DryRuns, \A q \in Changed(d) : ~PodSpec[q].terminating,
                      NEW fresh \in calPreFilterState(pod, Placing(d.node, d.pods))
               PROVE  SpreadFilter(d.state.spread, pod, d.node) = "Success"
                         <=> SpreadFilter(fresh, pod, d.node) = "Success"
    BY DEF SpreadDryRunExact
  <2>1. /\ d.node \in Nodes /\ d.pods \in SUBSET Pods /\ \A q \in d.pods : at[q] \in {d.node, None}
        /\ SpreadFor(d.state.spread, d.node, d.pods)
    <3>1. CASE phase \in {"takeoff", "reprieve"}
      <4>1. d = [node |-> node, pods |-> info.pods, state |-> copy]
        BY <3>1 DEF DryRuns
      <4> QED BY <3>1, <4>1 DEF DryRunInv, DryRunOK, PodsOn
    <3>2. CASE phase = "filter"
      <4>1. PICK n \in Nodes : /\ ~AddingPanics(n, state)
                               /\ d = [node |-> n, pods |-> PodsOn(at, n) \cup NominatedHere(n),
                                       state |-> WithNominated(n, state)]
        BY <3>2 DEF DryRuns
      <4>2. SpreadFor(state.spread, n, PodsOn(at, n))
        BY <3>2, SpreadInitially DEF DryRunInv, StateOK
      <4>3. \A q \in NominatedHere(n) : ~Panics(q, pod, n)
        BY <4>1, <4>2, PanicSame DEF AddingPanics, SpreadFor, Tracks
      <4>4. SpreadFor(WithNominated(n, state).spread, n, PodsOn(at, n) \cup NominatedHere(n))
        BY <4>2, <4>3, NominatedSpread DEF DryRunInv
      <4>5. \A q \in NominatedHere(n) : q \in Pods /\ at[q] = None
        BY CycleAssumption DEF NominatedHere, DryRunInv, CycleOK
      <4>6. PodsOn(at, n) \subseteq Pods /\ \A q \in PodsOn(at, n) : at[q] = n
        BY DEF PodsOn
      <4> QED BY <4>1, <4>4, <4>5, <4>6
    <3> QED BY <3>1, <3>2 DEF DryRuns
  <2>2. CycleOK /\ pod \in Pods
    BY DEF DryRunInv, CycleOK
  <2>3. Tracks(d.state.spread, pod, d.node, PairCounts(pod, Placing(d.node, d.pods), HardOf(pod)))
    BY <2>1, <2>2, SpreadAfresh DEF Changed
  <2>4. Tracks(fresh, pod, d.node, PairCounts(pod, Placing(d.node, d.pods), HardOf(pod)))
    BY <2>2, FreshTracks
  <2> QED BY <2>2, <2>3, <2>4, SameVerdict
<1>2. Spec => []SpreadDryRunExact
  BY <1>1, DryRunInitial, DryRunStep, PTL DEF Spec
<1> QED
  BY <1>2, AffinityDryRuns, PTL DEF DryRunExact

\* A victim is a pod of the candidate's node and has a lower priority than the pod it
\* makes room for, and only victims of the chosen candidate are deleted.
PreemptsOnlyLower ==
    /\ \A n \in DOMAIN candidates : \A q \in candidates[n] : at[q] = n /\ Priority[q] < Priority[pod]
    /\ phase = "prepare" => node \in DOMAIN candidates /\ victims \subseteq candidates[node]

\* Preemption never evicts a pod that is as important as the one it schedules.
THEOREM PreemptionTakesLower == Spec => []PreemptsOnlyLower
<1>1. DryRunInv => PreemptsOnlyLower
  BY DEF DryRunInv, VictimsOK, PreemptsOnlyLower, Preemptable, PodsOn
<1> QED
  BY <1>1, DryRunInitial, DryRunStep, PTL DEF Spec

-----------------------------------------------------------------------------
(* Sums that are compared.                                                 *)

\* Over more elements it is larger.
LEMMA SumOfMore ==
    ASSUME NEW S, IsFiniteSet(S), NEW f \in [S -> Int], NEW g, IsSum(g, f, S), \A x \in S : f[x] >= 0,
           NEW T \in SUBSET S, NEW R \in SUBSET T
    PROVE  g[R] \in Int /\ g[T] \in Int /\ g[R] <= g[T]
<1> DEFINE D == T \ R
           G == {s \in SUBSET D : g[R] <= g[R \cup s]}
<1>1. IsFiniteSet(D)
  BY FS_Subset
<1>2. g[R] \in Int /\ g[T] \in Int
  BY DEF IsSum
<1>3. {} \in G
  <2>1. R \cup {} = R
    OBVIOUS
  <2> QED BY <1>2, <2>1
<1>4. ASSUME NEW s \in SUBSET D, s # {} /\ Pick(s) \in s /\ s \ {Pick(s)} \in G PROVE s \in G
  <2> DEFINE x == Pick(s)
  <2>1. x \in S /\ R \cup s \in SUBSET S /\ x \in R \cup s /\ (R \cup s) \ {x} = R \cup (s \ {x})
    BY <1>4
  <2>2. g[R] <= g[R \cup (s \ {x})]
    BY <1>4
  <2> HIDE DEF x
  <2>3. g[R \cup s] = f[x] + g[(R \cup s) \ {x}]
    BY <2>1 DEF IsSum
  <2>4. g[(R \cup s) \ {x}] = g[R \cup (s \ {x})]
    BY <2>1, Zenon
  <2>5. g[R \cup (s \ {x})] \in Int /\ f[x] \in Int /\ f[x] >= 0
    BY <2>1 DEF IsSum
  <2>6. g[R] <= g[R \cup s]
    BY <1>2, <2>2, <2>3, <2>4, <2>5
  <2> QED BY <2>6
<1>5. SUBSET D \subseteq G
  <2> HIDE DEF G, D
  <2> QED BY <1>1, <1>3, <1>4, SubsetInduction
<1>6. R \cup D = T
  OBVIOUS
<1> QED
  BY <1>2, <1>5, <1>6

-----------------------------------------------------------------------------
(* The filters, by the pods of the node.                                   *)

\* What the pods of a set add up to in a function W of pods and resources.
AmountOf(W, r) == [q \in Pods |-> W[q][r]]
Amount(W, pods, r) == MapThenSumSet(LAMBDA q : W[q][r], pods)

\* The fold that adds them up is the sum.
LEMMA AmountIsSum ==
    ASSUME NEW W, NEW r, NEW g \in [SUBSET Pods -> Int], SumRule(g, AmountOf(W, r), Pods), NEW pods \in SUBSET Pods
    PROVE  Amount(W, pods, r) = g[pods]
<1> DEFINE Rec(h) == [s \in SUBSET pods |-> IF s = {} THEN 0 ELSE W[Pick(s)][r] + h[s \ {Pick(s)}]]
           iter == CHOOSE h : h = Rec(h)
           part == [s \in SUBSET pods |-> g[s]]
<1>1. \A s \in SUBSET pods : s # {} => Pick(s) \in s
  BY DEF Pick
<1>2. \A s \in SUBSET pods : g[s] = IF s = {} THEN 0 ELSE W[Pick(s)][r] + g[s \ {Pick(s)}]
  BY <1>1 DEF SumRule, AmountOf
<1>3. part = Rec(part)
  BY <1>1, <1>2
<1>4. iter = Rec(iter)
  <2> HIDE DEF Rec, part
  <2> QED BY <1>3
<1>5. Amount(W, pods, r) = iter[pods]
  BY DEF Amount, MapThenSumSet, MapThenFoldSet, Pick
<1>6. \A s \in SUBSET pods : iter[s] = IF s = {} THEN 0 ELSE W[Pick(s)][r] + iter[s \ {Pick(s)}]
  <2> HIDE DEF iter
  <2> QED BY <1>4
<1> HIDE DEF iter
<1> DEFINE G == {s \in SUBSET pods : iter[s] = g[s]}
<1>7. {} \in G
  BY <1>2, <1>6
<1>8. ASSUME NEW s \in SUBSET pods, s # {} /\ Pick(s) \in s /\ s \ {Pick(s)} \in G PROVE s \in G
  <2>1. iter[s] = W[Pick(s)][r] + iter[s \ {Pick(s)}]
    BY <1>6, <1>8
  <2>2. g[s] = W[Pick(s)][r] + g[s \ {Pick(s)}]
    BY <1>2, <1>8
  <2> QED BY <1>8, <2>1, <2>2
<1>9. SUBSET pods \subseteq G
  <2>1. IsFiniteSet(pods)
    BY PodsAssumption, FS_Subset
  <2> HIDE DEF G
  <2> QED BY <1>7, <1>8, <2>1, SubsetInduction
<1> QED
  BY <1>5, <1>9

\* What pods ask for is not negative.
Amounts(W) == \A p \in Pods, r \in Resources : W[p][r] \in Nat

\* Amounts add up, and more pods have more.
LEMMA AmountLaws ==
    ASSUME NEW W, Amounts(W), NEW r \in Resources
    PROVE  /\ \A pods \in SUBSET Pods : Amount(W, pods, r) \in Int
           /\ \A pods \in SUBSET Pods : \A q \in Pods \ pods :
                 Amount(W, pods \cup {q}, r) = Amount(W, pods, r) + W[q][r]
           /\ \A T \in SUBSET Pods : \A R \in SUBSET T : Amount(W, R, r) <= Amount(W, T, r)
<1>1. /\ AmountOf(W, r) \in [Pods -> Int] /\ \A q \in Pods : AmountOf(W, r)[q] >= 0
      /\ \A q \in Pods : AmountOf(W, r)[q] = W[q][r] /\ W[q][r] \in Int
  BY DEF Amounts, AmountOf
<1>2. PICK g : g \in [SUBSET Pods -> Int] /\ SumRule(g, AmountOf(W, r), Pods) /\ IsSum(g, AmountOf(W, r), Pods)
  BY <1>1, PodsAssumption, SumExists
<1>3. \A pods \in SUBSET Pods : Amount(W, pods, r) = g[pods]
  BY <1>2, AmountIsSum
<1>4. \A pods \in SUBSET Pods : Amount(W, pods, r) \in Int
  BY <1>2, <1>3
<1>5. ASSUME NEW pods \in SUBSET Pods, NEW q \in Pods \ pods
      PROVE  Amount(W, pods \cup {q}, r) = Amount(W, pods, r) + W[q][r]
  <2>1. pods \cup {q} \in SUBSET Pods /\ q \in pods \cup {q} /\ (pods \cup {q}) \ {q} = pods
    OBVIOUS
  <2>2. g[pods \cup {q}] = AmountOf(W, r)[q] + g[(pods \cup {q}) \ {q}]
    BY <1>2, <2>1 DEF IsSum
  <2>3. g[(pods \cup {q}) \ {q}] = g[pods]
    BY <2>1, Zenon
  <2>4. g[pods] \in Int
    BY <1>2
  <2> QED BY <1>1, <1>3, <2>1, <2>2, <2>3, <2>4
<1>6. ASSUME NEW T \in SUBSET Pods, NEW R \in SUBSET T PROVE Amount(W, R, r) <= Amount(W, T, r)
  <2>1. g[R] <= g[T]
    BY <1>1, <1>2, PodsAssumption, SumOfMore
  <2> QED BY <1>3, <2>1
<1> QED
  BY <1>4, <1>5, <1>6

\* The ports of pods, and the NodeInfos.
PortsOf(pods) == UNION {PodSpec[q].ports : q \in pods}
InfoType ==
    [pods : SUBSET Pods, requested : [Resources -> Int], nonZero : [Resources -> Int], ports : SUBSET PortsOf(Pods)]

\* The pods of a NodeInfo and what it has requested for them; and its ports, too.
Tallied(i, pods) ==
    /\ i \in InfoType
    /\ i.pods = pods
    /\ \A r \in Resources : i.requested[r] = Amount(PodRequest, pods, r)
InfoFor(i, pods) == Tallied(i, pods) /\ i.ports = PortsOf(pods)

\* A new NodeInfo.
LEMMA InfoFresh ==
    ASSUME NEW pods \in SUBSET Pods
    PROVE  InfoFor(NodeInfoOf(pods), pods)
<1>1. Amounts(PodRequest) /\ Amounts(NonZeroRequest)
  BY AmountsAssumption DEF Amounts
<1>2. \A r \in Resources : Amount(PodRequest, pods, r) \in Int /\ Amount(NonZeroRequest, pods, r) \in Int
  BY <1>1, AmountLaws
<1>3. NodeInfoOf(pods) = [pods |-> pods, requested |-> [r \in Resources |-> Amount(PodRequest, pods, r)],
                          nonZero |-> [r \in Resources |-> Amount(NonZeroRequest, pods, r)], ports |-> PortsOf(pods)]
  BY DEF NodeInfoOf, Amount, PortsOf
<1>4. PortsOf(pods) \subseteq PortsOf(Pods)
  BY DEF PortsOf
<1> QED
  BY <1>2, <1>3, <1>4 DEF InfoFor, Tallied, InfoType

\* Ports of more pods.
LEMMA PortsOfMore ==
    ASSUME NEW pods, NEW q
    PROVE  PortsOf(pods \cup {q}) = PortsOf(pods) \cup PodSpec[q].ports
<1> DEFINE F == {PodSpec[x].ports : x \in pods}
           E == {PodSpec[x].ports : x \in pods \cup {q}}
<1>1. E = F \cup {PodSpec[q].ports}
  OBVIOUS
<1>2. UNION E = (UNION F) \cup PodSpec[q].ports
  <2> HIDE DEF E, F
  <2> QED BY <1>1
<1> HIDE DEF E, F
<1> QED
  BY <1>2 DEF PortsOf, E, F

\* What AddPod and RemovePod do to a NodeInfo.
LEMMA InfoFields ==
    ASSUME NEW q \in Pods, NEW i \in InfoType
    PROVE  /\ AddPod(i, q) \in InfoType /\ RemovePod(i, q) \in InfoType
           /\ AddPod(i, q).pods = i.pods \cup {q} /\ RemovePod(i, q).pods = i.pods \ {q}
           /\ AddPod(i, q).ports = i.ports \cup PodSpec[q].ports
           /\ RemovePod(i, q).ports = i.ports \ PodSpec[q].ports
           /\ \A r \in Resources : /\ AddPod(i, q).requested[r] = i.requested[r] + PodRequest[q][r]
                                   /\ RemovePod(i, q).requested[r] = i.requested[r] - PodRequest[q][r]
<1> DEFINE more == [r \in Resources |-> i.requested[r] + 1 * PodRequest[q][r]]
           moreNZ == [r \in Resources |-> i.nonZero[r] + 1 * NonZeroRequest[q][r]]
           less == [r \in Resources |-> i.requested[r] + (-1) * PodRequest[q][r]]
           lessNZ == [r \in Resources |-> i.nonZero[r] + (-1) * NonZeroRequest[q][r]]
<1>1. /\ i.pods \in SUBSET Pods /\ i.requested \in [Resources -> Int] /\ i.nonZero \in [Resources -> Int]
      /\ i.ports \subseteq PortsOf(Pods)
  BY DEF InfoType
<1>2. /\ Plus(i.requested, PodRequest[q], 1) = more /\ Plus(i.nonZero, NonZeroRequest[q], 1) = moreNZ
      /\ Plus(i.requested, PodRequest[q], -1) = less /\ Plus(i.nonZero, NonZeroRequest[q], -1) = lessNZ
  BY <1>1 DEF Plus
<1>3. /\ AddPod(i, q) = [pods |-> i.pods \cup {q}, requested |-> more, nonZero |-> moreNZ,
                         ports |-> i.ports \cup PodSpec[q].ports]
      /\ RemovePod(i, q) = [pods |-> i.pods \ {q}, requested |-> less, nonZero |-> lessNZ,
                            ports |-> i.ports \ PodSpec[q].ports]
  BY <1>2 DEF AddPod, RemovePod, updateUsedPorts
<1>4. \A r \in Resources : /\ i.requested[r] \in Int /\ i.nonZero[r] \in Int
                           /\ PodRequest[q][r] \in Int /\ NonZeroRequest[q][r] \in Int
  BY <1>1, AmountsAssumption
<1>5. ASSUME NEW r \in Resources
      PROVE  /\ more[r] = i.requested[r] + PodRequest[q][r] /\ more[r] \in Int
             /\ less[r] = i.requested[r] - PodRequest[q][r] /\ less[r] \in Int
             /\ moreNZ[r] \in Int /\ lessNZ[r] \in Int
  <2>1. /\ i.requested[r] \in Int /\ i.nonZero[r] \in Int
        /\ PodRequest[q][r] \in Int /\ NonZeroRequest[q][r] \in Int
    BY <1>4
  <2>2. /\ more[r] = i.requested[r] + 1 * PodRequest[q][r] /\ less[r] = i.requested[r] + (-1) * PodRequest[q][r]
        /\ moreNZ[r] = i.nonZero[r] + 1 * NonZeroRequest[q][r]
        /\ lessNZ[r] = i.nonZero[r] + (-1) * NonZeroRequest[q][r]
    OBVIOUS
  <2> HIDE DEF more, less, moreNZ, lessNZ
  <2> QED BY <2>1, <2>2
<1>6. /\ more \in [Resources -> Int] /\ less \in [Resources -> Int]
      /\ moreNZ \in [Resources -> Int] /\ lessNZ \in [Resources -> Int]
  BY <1>5
<1>7. PodSpec[q].ports \subseteq PortsOf(Pods)
  <2> DEFINE F == {PodSpec[x].ports : x \in Pods}
  <2>1. PodSpec[q].ports \in F
    OBVIOUS
  <2>2. PodSpec[q].ports \subseteq UNION F
    <3> HIDE DEF F
    <3> QED BY <2>1
  <2> HIDE DEF F
  <2> QED BY <2>2 DEF PortsOf, F
<1> HIDE DEF more, less, moreNZ, lessNZ
<1>8. AddPod(i, q) \in InfoType /\ RemovePod(i, q) \in InfoType
  BY <1>1, <1>3, <1>6, <1>7 DEF InfoType
<1> QED
  BY <1>3, <1>5, <1>8

\* AddPod and RemovePod keep what a NodeInfo has requested.
LEMMA InfoChange ==
    ASSUME NEW pods \in SUBSET Pods, NEW q \in Pods, q \notin pods, NEW i
    PROVE  /\ Tallied(i, pods) => Tallied(AddPod(i, q), pods \cup {q})
           /\ Tallied(i, pods \cup {q}) => Tallied(RemovePod(i, q), pods)
<1>1. ASSUME NEW r \in Resources
      PROVE  /\ Amount(PodRequest, pods, r) \in Int /\ PodRequest[q][r] \in Int
             /\ Amount(PodRequest, pods \cup {q}, r) = Amount(PodRequest, pods, r) + PodRequest[q][r]
  <2>1. Amounts(PodRequest)
    BY AmountsAssumption DEF Amounts
  <2> QED BY <2>1, AmountLaws, AmountsAssumption
<1>2. ASSUME Tallied(i, pods) PROVE Tallied(AddPod(i, q), pods \cup {q})
  <2>1. i \in InfoType /\ i.pods = pods /\ \A r \in Resources : i.requested[r] = Amount(PodRequest, pods, r)
    BY <1>2 DEF Tallied
  <2>2. /\ AddPod(i, q) \in InfoType /\ AddPod(i, q).pods = pods \cup {q}
        /\ \A r \in Resources : AddPod(i, q).requested[r] = i.requested[r] + PodRequest[q][r]
    BY <2>1, InfoFields
  <2>3. \A r \in Resources : AddPod(i, q).requested[r] = Amount(PodRequest, pods \cup {q}, r)
    BY <1>1, <2>1, <2>2
  <2> QED BY <2>2, <2>3 DEF Tallied
<1>3. ASSUME Tallied(i, pods \cup {q}) PROVE Tallied(RemovePod(i, q), pods)
  <2>1. /\ i \in InfoType /\ i.pods = pods \cup {q}
        /\ \A r \in Resources : i.requested[r] = Amount(PodRequest, pods \cup {q}, r)
    BY <1>3 DEF Tallied
  <2>2. /\ RemovePod(i, q) \in InfoType /\ RemovePod(i, q).pods = i.pods \ {q}
        /\ \A r \in Resources : RemovePod(i, q).requested[r] = i.requested[r] - PodRequest[q][r]
    BY <2>1, InfoFields
  <2>3. RemovePod(i, q).pods = pods
    BY <2>1, <2>2
  <2>4. ASSUME NEW r \in Resources PROVE RemovePod(i, q).requested[r] = Amount(PodRequest, pods, r)
    <3>1. RemovePod(i, q).requested[r] = Amount(PodRequest, pods \cup {q}, r) - PodRequest[q][r]
      BY <2>1, <2>2
    <3>2. /\ Amount(PodRequest, pods, r) \in Int /\ PodRequest[q][r] \in Int
          /\ Amount(PodRequest, pods \cup {q}, r) = Amount(PodRequest, pods, r) + PodRequest[q][r]
      BY <1>1
    <3> QED BY <3>1, <3>2
  <2> QED BY <2>2, <2>3, <2>4 DEF Tallied
<1> QED
  BY <1>2, <1>3

\* AddPod of several pods.
LEMMA InfoAddsAll ==
    ASSUME NEW pods \in SUBSET Pods, NEW S \in SUBSET Pods, S \cap pods = {}, NEW base, InfoFor(base, pods)
    PROVE  InfoFor(FoldSet(LAMBDA q, t : AddPod(t, q), base, S), pods \cup S)
<1> DEFINE V == InfoType
           step == [y \in S \X V |-> AddPod(y[2], y[1])]
           Rec(h) == [s \in SUBSET S |-> IF s = {} THEN base ELSE AddPod(h[s \ {Pick(s)}], Pick(s))]
           iter == CHOOSE h : h = Rec(h)
<1>1. IsFiniteSet(S)
  BY PodsAssumption, FS_Subset
<1>2. base \in V
  BY DEF InfoFor, Tallied
<1>3. ASSUME NEW q \in S, NEW t \in V PROVE AddPod(t, q) \in V
  BY <1>3, InfoFields
<1>4. step \in [S \X V -> V]
  <2> HIDE DEF V
  <2> QED BY <1>3
<1>5. PICK g \in [SUBSET S -> V] : FoldRule(g, base, step, S)
  <2> HIDE DEF V, step
  <2> QED BY <1>1, <1>2, <1>4, FoldExists
<1>6. ASSUME NEW s \in SUBSET S, s # {}
      PROVE  Pick(s) \in s /\ g[s] = AddPod(g[s \ {Pick(s)}], Pick(s))
  <2>1. Pick(s) \in s
    BY <1>6 DEF Pick
  <2>2. g[s] = step[<<Pick(s), g[s \ {Pick(s)}]>>]
    BY <1>5, <1>6 DEF FoldRule
  <2>3. <<Pick(s), g[s \ {Pick(s)}]>> \in S \X V
    BY <1>5, <2>1
  <2> HIDE DEF V
  <2> QED BY <2>1, <2>2, <2>3
<1>7. g = Rec(g)
  <2>1. ASSUME NEW s \in SUBSET S PROVE g[s] = IF s = {} THEN base ELSE AddPod(g[s \ {Pick(s)}], Pick(s))
    BY <1>5, <1>6 DEF FoldRule
  <2> HIDE DEF V
  <2> QED BY <1>5, <2>1
<1>8. iter = Rec(iter)
  <2> HIDE DEF Rec
  <2> QED BY <1>7
<1>9. FoldSet(LAMBDA q, t : AddPod(t, q), base, S) = iter[S]
  BY DEF FoldSet, MapThenFoldSet, Pick
<1>10. \A s \in SUBSET S : iter[s] = IF s = {} THEN base ELSE AddPod(iter[s \ {Pick(s)}], Pick(s))
  <2> HIDE DEF iter
  <2> QED BY <1>8
<1> HIDE DEF iter, V, step
<1> DEFINE G == {s \in SUBSET S : InfoFor(iter[s], pods \cup s)}
<1>11. {} \in G
  <2>1. pods \cup {} = pods /\ iter[{}] = base
    BY <1>10
  <2> QED BY <2>1
<1>12. ASSUME NEW s \in SUBSET S, s # {} /\ Pick(s) \in s /\ s \ {Pick(s)} \in G PROVE s \in G
  <2> DEFINE q == Pick(s)
             rest == pods \cup (s \ {q})
  <2>1. q \in Pods /\ rest \in SUBSET Pods /\ q \notin rest /\ rest \cup {q} = pods \cup s
    BY <1>12
  <2>2. InfoFor(iter[s \ {q}], rest)
    BY <1>12
  <2>3. iter[s] = AddPod(iter[s \ {q}], q)
    BY <1>10, <1>12
  <2> HIDE DEF q, rest
  <2>4. Tallied(AddPod(iter[s \ {q}], q), rest \cup {q})
    BY <2>1, <2>2, InfoChange DEF InfoFor
  <2>5. AddPod(iter[s \ {q}], q).ports = PortsOf(rest \cup {q})
    <3>1. AddPod(iter[s \ {q}], q).ports = PortsOf(rest) \cup PodSpec[q].ports
      BY <2>1, <2>2, InfoFields DEF InfoFor, Tallied
    <3>2. PortsOf(rest \cup {q}) = PortsOf(rest) \cup PodSpec[q].ports
      BY PortsOfMore
    <3> QED BY <3>1, <3>2
  <2> QED BY <2>1, <2>3, <2>4, <2>5 DEF InfoFor
<1>13. SUBSET S \subseteq G
  <2> HIDE DEF G
  <2> QED BY <1>1, <1>11, <1>12, SubsetInduction
<1> QED
  BY <1>9, <1>13

-----------------------------------------------------------------------------
(* The filters, as conditions on the pods of the node.                     *)

\* What the node's own filters ask for.
NodePasses(p, n, i) ==
    /\ ~NodeSpec[n].unschedulable
    /\ fitsRequest(PodRequest[p], n, i)
    /\ PodSpec[p].nodeName \in {None, n}
    /\ fitsPorts(p, i)
    /\ PodMatchesNodeSelectorAndAffinityTerms(p, n)
    /\ fitsVolumes(p, i)

\* The chain of the filters passes the node when each does.
LEMMA NodeFilterPasses ==
    ASSUME NEW p, NEW n, NEW i
    PROVE  NodeFilter(p, n, i) = "Success" <=> NodePasses(p, n, i)
<1> DEFINE chain == <<<<~NodeSpec[n].unschedulable, "UnschedulableAndUnresolvable">>,
                   <<fitsRequest(PodRequest[p], n, i), "Unschedulable">>,
                   <<PodSpec[p].nodeName \in {None, n}, "UnschedulableAndUnresolvable">>,
                   <<fitsPorts(p, i), "Unschedulable">>,
                   <<PodMatchesNodeSelectorAndAffinityTerms(p, n), "UnschedulableAndUnresolvable">>,
                   <<fitsVolumes(p, i), "Unschedulable">>>>
           I == {k \in 1 .. Len(chain) : ~chain[k][1]}
<1>1. NodeFilter(p, n, i) = IF (IF I # {} THEN Min(I) ELSE 0) = 0 THEN "Success"
                            ELSE chain[IF I # {} THEN Min(I) ELSE 0][2]
  BY DEF NodeFilter, SelectInSeq
<1>2. Len(chain) = 6 /\ 1 .. 6 = {1, 2, 3, 4, 5, 6}
  OBVIOUS
<1>3. \A k \in {1, 2, 3, 4, 5, 6} : chain[k][2] # "Success"
  OBVIOUS
<1>4. NodePasses(p, n, i) <=> \A k \in {1, 2, 3, 4, 5, 6} : chain[k][1]
  <2>1. /\ chain[1][1] <=> ~NodeSpec[n].unschedulable
        /\ chain[2][1] <=> fitsRequest(PodRequest[p], n, i)
        /\ chain[3][1] <=> PodSpec[p].nodeName \in {None, n}
        /\ chain[4][1] <=> fitsPorts(p, i)
        /\ chain[5][1] <=> PodMatchesNodeSelectorAndAffinityTerms(p, n)
        /\ chain[6][1] <=> fitsVolumes(p, i)
    OBVIOUS
  <2> HIDE DEF chain
  <2> QED BY <2>1 DEF NodePasses
<1>5. I = {k \in {1, 2, 3, 4, 5, 6} : ~chain[k][1]}
  BY <1>2
<1> HIDE DEF chain
<1>6. CASE I = {}
  BY <1>1, <1>4, <1>5, <1>6
<1>7. CASE I # {}
  <2>1. IsFiniteSet(I) /\ I \subseteq Int
    <3>1. IsFiniteSet(1 .. 6)
      <4>1. 1 \in Int /\ 6 \in Int
        OBVIOUS
      <4> QED BY <4>1, FS_Interval
    <3> QED BY <1>2, <1>5, <3>1, FS_Subset
  <2>2. Min(I) \in I
    BY <1>7, <2>1, MinMax
  <2>3. Min(I) \in {1, 2, 3, 4, 5, 6} /\ ~chain[Min(I)][1]
    BY <1>5, <2>2
  <2>4. Min(I) # 0
    BY <2>3
  <2>5. NodeFilter(p, n, i) = chain[Min(I)][2]
    BY <1>1, <1>7, <2>4
  <2> HIDE DEF I
  <2> QED BY <1>3, <1>4, <2>3, <2>5
<1> QED
  BY <1>6, <1>7

\* They pass a node with fewer pods, too.
LEMMA FewerOnNode ==
    ASSUME NEW p \in Pods, NEW n \in Nodes, NEW M \in SUBSET Pods, NEW L \in SUBSET M,
           NEW i, InfoFor(i, L), NEW j, InfoFor(j, M), NodePasses(p, n, j)
    PROVE  NodePasses(p, n, i)
<1>1. i.pods = L /\ j.pods = M /\ i.ports = PortsOf(L) /\ j.ports = PortsOf(M)
  BY DEF InfoFor, Tallied
<1>2. PortsOf(L) \subseteq PortsOf(M)
  BY DEF PortsOf
<1>3. ASSUME NEW r \in Resources, PodRequest[p][r] + j.requested[r] <= Alloc[n][r]
      PROVE  PodRequest[p][r] + i.requested[r] <= Alloc[n][r]
  <2>1. Amounts(PodRequest)
    BY AmountsAssumption DEF Amounts
  <2>2. /\ Amount(PodRequest, L, r) <= Amount(PodRequest, M, r)
        /\ Amount(PodRequest, L, r) \in Int /\ Amount(PodRequest, M, r) \in Int
    BY <2>1, AmountLaws
  <2>3. i.requested[r] = Amount(PodRequest, L, r) /\ j.requested[r] = Amount(PodRequest, M, r)
    BY DEF InfoFor, Tallied
  <2>4. PodRequest[p][r] \in Int /\ Alloc[n][r] \in Int
    BY AmountsAssumption
  <2> QED BY <1>3, <2>2, <2>3, <2>4
<1>4. Cardinality(M) + 1 <= Alloc[n]["pods"] => Cardinality(L) + 1 <= Alloc[n]["pods"]
  <2>1. IsFiniteSet(M)
    BY PodsAssumption, FS_Subset
  <2>2. Cardinality(L) <= Cardinality(M) /\ Cardinality(L) \in Nat /\ Cardinality(M) \in Nat
    BY <2>1, FS_Subset, FS_CardinalityType
  <2> QED BY <2>2, AmountsAssumption
<1>5. fitsRequest(PodRequest[p], n, j) => fitsRequest(PodRequest[p], n, i)
  BY <1>1, <1>3, <1>4 DEF fitsRequest, Resources
<1>6. fitsPorts(p, j) => fitsPorts(p, i)
  BY <1>1, <1>2 DEF fitsPorts, CheckConflict
<1>7. fitsVolumes(p, j) => fitsVolumes(p, i)
  BY <1>1 DEF fitsVolumes
<1> QED
  BY <1>5, <1>6, <1>7 DEF NodePasses

\* The spread plugin accepts node n by the numbers of the pairs.
Judged(p, n, f) ==
    \/ PairsFor(p) = {}
    \/ \A c \in Range(HardOf(p)) :
          /\ HasKey(n, c.key)
          /\ \E low \in Int :
                /\ Low(low, KeyPairs(p, c.key), f)
                /\ (IF PairOf(n, c.key) \in PairsFor(p) THEN f[PairOf(n, c.key)] ELSE 0)
                      + SelfMatch(c, p) - low <= c.skew

\* Its verdict on a state is the one on the numbers that the state stands for.
LEMMA VerdictByNumbers ==
    ASSUME NEW p \in Pods, NEW n, NEW f, NEW s, Tracks(s, p, n, f)
    PROVE  SpreadFilter(s, p, n) = "Success" <=> Judged(p, n, f)
<1>1. s \in SpreadStates(p) /\ Numbers(f, PairsFor(p))
  BY DEF Tracks
<1>2. s.constraints = HardOf(p) /\ DOMAIN s.counts = PairsFor(p)
  BY <1>1 DEF SpreadStates
<1>3. SpreadFilter(s, p, n) = "Success" <=> Accepted(s, p, n)
  BY <1>2, FilterAccepts
<1>4. CASE ~AllKeys(n, p)
  <2>1. ~ \A c \in Range(HardOf(p)) : HasKey(n, c.key)
    BY <1>4 DEF AllKeys, NodeLabelsMatchSpreadConstraints
  <2> QED BY <1>2, <1>3, <2>1 DEF Accepted, Judged
<1>5. CASE AllKeys(n, p)
  <2>1. \A x \in PairsFor(p) : s.counts[x] = f[x]
    BY <1>5 DEF Tracks
  <2>2. ASSUME NEW c \in Range(HardOf(p))
        PROVE  LET Num == IF PairOf(n, c.key) \in PairsFor(p) THEN f[PairOf(n, c.key)] ELSE 0
               IN  ~ (Num + SelfMatch(c, p) - s.paths[c.key][1].num > c.skew)
                      <=> \E low \in Int : /\ Low(low, KeyPairs(p, c.key), f)
                                           /\ Num + SelfMatch(c, p) - low <= c.skew
    <3> DEFINE S == KeyPairs(p, c.key)
               num == IF PairOf(n, c.key) \in PairsFor(p) THEN f[PairOf(n, c.key)] ELSE 0
               own == SelfMatch(c, p)
               first == s.paths[c.key][1].num
    <3>1. c.key \in KeysOf(p)
      BY DEF KeysOf
    <3>2. PathOK(s.paths[c.key], S, f, PairOf(n, c.key))
      BY <1>5, <3>1 DEF Tracks
    <3>3. Numbers(f, S)
      BY <1>1 DEF Numbers, KeyPairs
    <3>4. num \in Int
      BY <1>1 DEF Numbers
    <3>5. own \in Int
      BY DEF SelfMatch
    <3>6. c.skew \in Int
      BY ConstraintsAssumption DEF HardOf
    <3> HIDE DEF S, num, own
    <3>7. first \in Int /\ Low(first, S, f)
      BY <3>2, <3>3, PathLow
    <3> HIDE DEF first
    <3>8. \A low \in Int : Low(low, S, f) => low = first
      BY <3>3, <3>7, LowUnique
    <3>9. ~ (num + own - first > c.skew) <=> num + own - first <= c.skew
      BY <3>4, <3>5, <3>6, <3>7
    <3>10. ~ (num + own - first > c.skew) <=> \E low \in Int : Low(low, S, f) /\ num + own - low <= c.skew
      BY <3>7, <3>8, <3>9
    <3> QED BY <3>10 DEF S, num, own, first
  <2>3. ASSUME NEW c \in Range(HardOf(p))
        PROVE  (IF PairOf(n, c.key) \in DOMAIN s.counts THEN s.counts[PairOf(n, c.key)] ELSE 0)
                 = IF PairOf(n, c.key) \in PairsFor(p) THEN f[PairOf(n, c.key)] ELSE 0
    BY <1>2, <2>1
  <2> QED BY <1>2, <1>3, <2>2, <2>3 DEF Accepted, Judged
<1> QED
  BY <1>4, <1>5

\* Every set of pairs has a lowest number.
LEMMA LowExists ==
    ASSUME NEW S, IsFiniteSet(S), NEW f, Numbers(f, S)
    PROVE  \E low \in Int : Low(low, S, f)
<1> DEFINE G == {T \in SUBSET S : \E low \in Int : Low(low, T, f)}
<1>1. {} \in G
  BY DEF Low, MaxInt32
<1>2. ASSUME NEW T \in SUBSET S, NEW x \in S \ T, T \in G PROVE T \cup {x} \in G
  <2>1. PICK low \in Int : Low(low, T, f)
    BY <1>2
  <2>2. f[x] \in Int /\ MaxInt32 \in Int /\ \A y \in T : f[y] \in Int
    BY DEF Numbers, MaxInt32
  <2>3. CASE low <= f[x]
    BY <2>1, <2>2, <2>3 DEF Low
  <2>4. CASE f[x] < low
    <3>1. Low(f[x], T \cup {x}, f)
      BY <2>1, <2>2, <2>4 DEF Low
    <3> QED BY <2>2, <3>1
  <2> QED BY <2>1, <2>2, <2>3, <2>4
<1>3. S \in G
  <2> HIDE DEF G
  <2> QED BY <1>1, <1>2, FiniteInduction
<1> QED
  BY <1>3

\* The numbers g are those of f, and no more for the pairs of node n.
Below(p, n, g, f) ==
    \A x \in PairsFor(p) : IF AllKeys(n, p) /\ x = PairOf(n, x[1]) THEN g[x] <= f[x] ELSE g[x] = f[x]

\* Fewer pods on the node lower its own pairs only, and the smallest numbers by as much
\* at the most.
LEMMA FewerJudged ==
    ASSUME NEW p \in Pods, NEW n, NEW f, Numbers(f, PairsFor(p)), NEW g, Numbers(g, PairsFor(p)),
           Below(p, n, g, f), Judged(p, n, f)
    PROVE  Judged(p, n, g)
<1> SUFFICES ASSUME PairsFor(p) # {}, NEW c \in Range(HardOf(p))
             PROVE  /\ HasKey(n, c.key)
                    /\ \E low \in Int :
                          /\ Low(low, KeyPairs(p, c.key), g)
                          /\ (IF PairOf(n, c.key) \in PairsFor(p) THEN g[PairOf(n, c.key)] ELSE 0)
                                + SelfMatch(c, p) - low <= c.skew
  BY DEF Judged
<1> DEFINE S == KeyPairs(p, c.key)
           vp == PairOf(n, c.key)
           own == SelfMatch(c, p)
<1>1. PICK low \in Int :
         /\ Low(low, S, f)
         /\ (IF vp \in PairsFor(p) THEN f[vp] ELSE 0) + own - low <= c.skew
  BY DEF Judged
<1>2. \A d \in Range(HardOf(p)) : HasKey(n, d.key)
  BY DEF Judged
<1>3. own \in Int /\ c.skew \in Int
  BY ConstraintsAssumption DEF HardOf, SelfMatch
<1>4. S \subseteq PairsFor(p) /\ (vp \in PairsFor(p) <=> vp \in S) /\ vp[1] = c.key
  BY DEF KeyPairs, PairOf
<1>5. Numbers(f, S) /\ Numbers(g, S) /\ IsFiniteSet(S)
  BY <1>4, KeyPairsShape DEF Numbers
<1>6. PICK least \in Int : Low(least, S, g)
  BY <1>5, LowExists
<1>7. \A x \in S : x # vp => g[x] = f[x]
  BY DEF KeyPairs, Below
<1>8. vp \in S => g[vp] <= f[vp] /\ g[vp] \in Int /\ f[vp] \in Int
  BY <1>4, <1>5, <1>7 DEF Numbers, Below
<1>9. \A x \in S : f[x] \in Int /\ g[x] \in Int
  BY <1>5 DEF Numbers
<1>10. MaxInt32 \in Int
  BY DEF MaxInt32
<1> HIDE DEF S, vp, own
<1>11. CASE vp \in S
  <2>1. least >= low - (f[vp] - g[vp])
    BY <1>1, <1>6, <1>7, <1>8, <1>9, <1>10, <1>11 DEF Low
  <2>2. g[vp] + own - least <= c.skew
    BY <1>1, <1>3, <1>4, <1>8, <1>11, <2>1
  <2> QED BY <1>2, <1>4, <1>6, <1>11, <2>2 DEF S, vp, own
<1>12. CASE vp \notin S
  <2>1. Low(least, S, f)
    BY <1>6, <1>7, <1>12 DEF Low
  <2>2. least = low
    BY <1>1, <1>5, <1>6, <2>1, LowUnique
  <2> QED BY <1>1, <1>2, <1>4, <1>6, <1>12, <2>2 DEF S, vp, own
<1> QED
  BY <1>11, <1>12

\* The numbers of fewer pods.
LEMMA FewerMoved ==
    ASSUME NEW p \in Pods, NEW n, NEW f, Numbers(f, PairsFor(p)), NEW old \in SUBSET Pods,
           NEW M \in SUBSET Pods, NEW L \in SUBSET M
    PROVE  /\ Numbers(Moved(p, n, f, L, old), PairsFor(p))
           /\ Below(p, n, Moved(p, n, f, L, old), Moved(p, n, f, M, old))
<1> SUFFICES ASSUME NEW x \in PairsFor(p)
             PROVE  /\ Moved(p, n, f, L, old)[x] \in Int
                    /\ IF AllKeys(n, p) /\ x = PairOf(n, x[1])
                       THEN Moved(p, n, f, L, old)[x] <= Moved(p, n, f, M, old)[x]
                       ELSE Moved(p, n, f, L, old)[x] = Moved(p, n, f, M, old)[x]
  BY DEF Numbers, Below
<1> DEFINE few == Cardinality(MatchingIn(p, x, L))
           more == Cardinality(MatchingIn(p, x, M))
           before == Cardinality(MatchingIn(p, x, old))
           here == AllKeys(n, p) /\ x = PairOf(n, x[1])
<1>1. few \in Nat /\ more \in Nat /\ before \in Nat /\ IsFiniteSet(MatchingIn(p, x, M))
  BY MatchingType
<1>2. few <= more
  <2>1. MatchingIn(p, x, L) \subseteq MatchingIn(p, x, M)
    BY DEF MatchingIn
  <2> QED BY <1>1, <2>1, FS_Subset
<1>3. f[x] \in Int
  BY DEF Numbers
<1>4. /\ Moved(p, n, f, L, old)[x] = f[x] + IF here THEN few - before ELSE 0
      /\ Moved(p, n, f, M, old)[x] = f[x] + IF here THEN more - before ELSE 0
  BY DEF Moved
<1> HIDE DEF few, more, before
<1> QED
  BY <1>1, <1>2, <1>3, <1>4

\* A positive entry.
LEMMA PositiveEntry ==
    ASSUME NEW m \in Maps, NEW pair
    PROVE  (Positive(m, pair) <=> Entry(m, pair) > 0) /\ Entry(m, pair) \in Int
  BY DEF Positive, Entry, Maps

\* No pod keeps the incoming one away by an anti-affinity.
Clear(s, p, n) == satisfyPodAntiAffinity(s, p, n) /\ satisfyExistingPodsAntiAffinity(s, n)

\* A node that passes by affinity does so with one pod more, and one that is kept away
\* from by an anti-affinity still is.
LEMMA OneMorePod ==
    ASSUME NEW p \in Pods, NEW q \in Pods, NEW n \in Nodes, NEW s \in States
    PROVE  /\ satisfyPodAffinity(s, p, n) => satisfyPodAffinity(AffinityUpdateWithPod(s, q, p, n, 1), p, n)
           /\ Clear(AffinityUpdateWithPod(s, q, p, n, 1), p, n) => Clear(s, p, n)
<1> DEFINE t == AffinityUpdateWithPod(s, q, p, n, 1)
           own == PodSpec[p].affinity
<1>1. /\ t \in States /\ t.existing = Bumped(s.existing, n, ExistingTerms(p)[q], 1)
      /\ t.affinity = Bumped(s.affinity, n, AffinityTerms(p)[q], 1)
      /\ t.anti = Bumped(s.anti, n, AntiTerms(p)[q], 1)
  <2>1. 1 \in Int
    OBVIOUS
  <2> QED BY <2>1, UpdateFields
<1>2. /\ s.existing \in Maps /\ s.affinity \in Maps /\ s.anti \in Maps
      /\ t.existing \in Maps /\ t.affinity \in Maps /\ t.anti \in Maps
  BY <1>1 DEF States
<1>3. /\ IsFiniteSet(ExistingTerms(p)[q]) /\ IsFiniteSet(AffinityTerms(p)[q]) /\ IsFiniteSet(AntiTerms(p)[q])
  BY TermsFinite DEF FiniteTerms
<1>4. ASSUME NEW m \in Maps, NEW terms, IsFiniteSet(terms), NEW pair \in AllPairs
      PROVE  /\ Entry(Bumped(m, n, terms, 1), pair) = Entry(m, pair) + HitsOf(n, terms, pair)
             /\ Positive(m, pair) => Positive(Bumped(m, n, terms, 1), pair)
  <2>1. /\ Bumped(m, n, terms, 1) \in Maps
        /\ Entry(Bumped(m, n, terms, 1), pair) = Entry(m, pair) + 1 * HitsOf(n, terms, pair)
    <3>1. 1 \in Int
      OBVIOUS
    <3> QED BY <1>4, <3>1, BumpedEntries
  <2>2. HitsOf(n, terms, pair) \in Nat
    BY <1>4, HitsType
  <2>3. Entry(m, pair) \in Int /\ (Positive(m, pair) <=> Entry(m, pair) > 0)
    BY PositiveEntry
  <2>4. Positive(Bumped(m, n, terms, 1), pair) <=> Entry(Bumped(m, n, terms, 1), pair) > 0
    BY <2>1, PositiveEntry
  <2> QED BY <2>1, <2>2, <2>3, <2>4
<1>5. ASSUME NEW key, HasKey(n, key) PROVE PairOf(n, key) \in AllPairs
  BY <1>5 DEF AllPairs, PairsOf, HasKey
<1>6. PairsOf(n) \subseteq AllPairs
  BY DEF AllPairs
<1> HIDE DEF t
<1>7. Clear(t, p, n) => Clear(s, p, n)
  <2>1. ASSUME NEW pair \in AllPairs
        PROVE  /\ Positive(s.existing, pair) => Positive(t.existing, pair)
               /\ Positive(s.anti, pair) => Positive(t.anti, pair)
    BY <1>1, <1>2, <1>3, <1>4
  <2> QED BY <1>5, <1>6, <2>1 DEF Clear, satisfyPodAntiAffinity, satisfyExistingPodsAntiAffinity
<1>8. ASSUME satisfyPodAffinity(s, p, n) PROVE satisfyPodAffinity(t, p, n)
  <2>1. \A x \in own : HasKey(n, x.key)
    BY <1>8 DEF satisfyPodAffinity
  <2>2. CASE \A x \in own : Positive(s.affinity, PairOf(n, x.key))
    <3>1. \A x \in own : Positive(t.affinity, PairOf(n, x.key))
      BY <1>1, <1>2, <1>3, <1>4, <1>5, <2>1, <2>2
    <3> QED BY <2>1, <3>1 DEF satisfyPodAffinity
  <2>3. CASE /\ DOMAIN s.affinity = {} /\ podMatchesAllAffinityTerms(p, own)
             /\ ~podMatchesAllAffinityTerms(q, own)
    <3>1. t.affinity = updateWithAffinityTerms(s.affinity, q, n, own, 1)
      <4>1. 1 \in Int
        OBVIOUS
      <4> QED BY <1>1, <1>2, <4>1, UpdatesAreBumps
    <3>2. t.affinity = s.affinity
      BY <2>3, <3>1 DEF updateWithAffinityTerms
    <3> QED BY <2>1, <2>3, <3>2 DEF satisfyPodAffinity
  <2>4. CASE DOMAIN s.affinity = {} /\ podMatchesAllAffinityTerms(q, own)
    <3>1. ASSUME NEW x \in own PROVE Positive(t.affinity, PairOf(n, x.key))
      <4> DEFINE pair == PairOf(n, x.key)
                 hits == {y \in own : HasKey(n, y.key) /\ PairOf(n, y.key) = pair}
      <4>1. AffinityTerms(p)[q] = own
        BY <2>4 DEF AffinityTerms
      <4>2. pair \in AllPairs
        BY <1>5, <2>1
      <4>3. x \in hits /\ IsFiniteSet(hits)
        BY <1>3, <2>1, <4>1, FS_Subset
      <4>4. HitsOf(n, own, pair) = Cardinality(hits)
        BY DEF HitsOf
      <4> HIDE DEF pair, hits
      <4>5. Cardinality(hits) \in Nat /\ Cardinality(hits) # 0
        BY <4>3, FS_CardinalityType, FS_EmptySet
      <4>6. Entry(t.affinity, pair) = Entry(s.affinity, pair) + HitsOf(n, own, pair)
        BY <1>1, <1>2, <1>3, <1>4, <4>1, <4>2
      <4>7. Entry(s.affinity, pair) = 0
        BY <2>4 DEF Entry
      <4>8. Entry(t.affinity, pair) > 0
        BY <4>4, <4>5, <4>6, <4>7
      <4> QED BY <1>2, <4>8, PositiveEntry DEF pair
    <3> QED BY <2>1, <3>1 DEF satisfyPodAffinity
  <2> QED BY <1>8, <2>2, <2>3, <2>4 DEF satisfyPodAffinity
<1> QED
  BY <1>7, <1>8 DEF t

\* The pods are on node n or not placed, so that they may be placed there.
Movable(n, pods) == pods \in SUBSET Pods /\ \A q \in pods : at[q] \in {n, None}

\* The verdict of the affinity plugin on node n when it has the given pods.
AffinityOf(n, pods) == AffinityPreFilter(pod, Placing(n, pods))

\* The state with one pod more.
LEMMA AffinityOfMore ==
    ASSUME CycleOK, NEW n \in Nodes, NEW pods, NEW q \in Pods, q \notin pods, Movable(n, pods \cup {q})
    PROVE  /\ AffinityOf(n, pods) \in States
           /\ AffinityOf(n, pods \cup {q}) = AffinityUpdateWithPod(AffinityOf(n, pods), q, pod, n, 1)
<1> DEFINE a == Placing(n, pods)
<1>1. pod \in Pods /\ at \in Placements
  BY DEF CycleOK
<1>2. a \in Placements
  BY <1>1 DEF Placements, Placing
<1>3. a[q] = None /\ Placing(n, pods \cup {q}) = [a EXCEPT ![q] = n]
  BY DEF Placing, Movable
<1> HIDE DEF a
<1>4. AffinityPreFilter(pod, a) \in States
  BY <1>1, <1>2, PreFilterTallies DEF IsTallies
<1>5. AffinityUpdateWithPod(AffinityPreFilter(pod, a), q, pod, n, 1) = AffinityPreFilter(pod, [a EXCEPT ![q] = n])
  BY <1>1, <1>2, <1>3, UpdateAdds
<1> QED
  BY <1>3, <1>4, <1>5 DEF AffinityOf, a

\* With several more.
LEMMA MorePods ==
    ASSUME CycleOK, NEW n \in Nodes, NEW M, Movable(n, M), NEW L \in SUBSET M
    PROVE  /\ satisfyPodAffinity(AffinityOf(n, L), pod, n) => satisfyPodAffinity(AffinityOf(n, M), pod, n)
           /\ Clear(AffinityOf(n, M), pod, n) => Clear(AffinityOf(n, L), pod, n)
<1> DEFINE Mates(pods) == satisfyPodAffinity(AffinityOf(n, pods), pod, n)
           Free(pods) == Clear(AffinityOf(n, pods), pod, n)
           D == M \ L
           G == {T \in SUBSET D : (Mates(L) => Mates(L \cup T)) /\ (Free(L \cup T) => Free(L))}
<1>1. IsFiniteSet(D) /\ L \cup D = M
  BY PodsAssumption, FS_Subset DEF Movable
<1>2. pod \in Pods
  BY DEF CycleOK
<1>3. {} \in G
  <2>1. L \cup {} = L
    OBVIOUS
  <2> QED BY <2>1
<1>4. ASSUME NEW T \in SUBSET D, NEW q \in D \ T, T \in G PROVE T \cup {q} \in G
  <2> DEFINE pods == L \cup T
  <2>1. /\ q \in Pods /\ q \notin pods /\ L \cup (T \cup {q}) = pods \cup {q}
        /\ Movable(n, pods \cup {q})
    BY DEF Movable
  <2>2. (Mates(L) => Mates(pods)) /\ (Free(pods) => Free(L))
    BY <1>4
  <2> HIDE DEF pods
  <2>3. /\ AffinityOf(n, pods) \in States
        /\ AffinityOf(n, pods \cup {q}) = AffinityUpdateWithPod(AffinityOf(n, pods), q, pod, n, 1)
    BY <2>1, AffinityOfMore
  <2>4. /\ Mates(pods) => satisfyPodAffinity(AffinityUpdateWithPod(AffinityOf(n, pods), q, pod, n, 1), pod, n)
        /\ Clear(AffinityUpdateWithPod(AffinityOf(n, pods), q, pod, n, 1), pod, n) => Free(pods)
    BY <1>2, <2>1, <2>3, OneMorePod
  <2>5. (Mates(pods) => Mates(pods \cup {q})) /\ (Free(pods \cup {q}) => Free(pods))
    BY <2>3, <2>4
  <2>6. Mates(L \cup (T \cup {q})) = Mates(pods \cup {q}) /\ Free(L \cup (T \cup {q})) = Free(pods \cup {q})
    BY <2>1
  <2> HIDE DEF Mates, Free
  <2> QED BY <1>4, <2>2, <2>5, <2>6
<1>5. D \in G
  <2> HIDE DEF G
  <2> QED BY <1>1, <1>3, <1>4, FiniteInduction
<1> QED
  BY <1>1, <1>5

-----------------------------------------------------------------------------
(* The pods that leave room for the incoming one.                          *)

\* The pod passes the filters on node n when it has exactly the given pods, and when the
\* nominated ones are there as well.
Passes(n, pods) ==
    /\ NodePasses(pod, n, NodeInfoOf(pods))
    /\ Judged(pod, n, Moved(pod, n, SnapshotCounts, pods, PodsOn(at, n)))
    /\ AffinityFilter(AffinityOf(n, pods), pod, n) = "Success"
Good(n, pods) == Passes(n, pods \cup NominatedHere(n)) /\ Passes(n, pods)

\* No nominated pod ends the process on node n.
NoPanics(n) == \A q \in NominatedHere(n) : ~Panics(q, pod, n)

\* What RunFilters says of data that stand for these pods.
LEMMA FiltersByPods ==
    ASSUME CycleOK, NEW n \in Nodes, NEW pods \in SUBSET Pods, NEW i, InfoFor(i, pods),
           NEW s, SpreadFor(s.spread, n, pods), s.affinity = AffinityOf(n, pods)
    PROVE  RunFilters(n, i, s) = "Success" <=> Passes(n, pods)
<1>1. pod \in Pods
  BY DEF CycleOK
<1>2. NodeFilter(pod, n, i) = "Success" <=> NodePasses(pod, n, NodeInfoOf(pods))
  <2>1. InfoFor(NodeInfoOf(pods), pods)
    BY InfoFresh
  <2>2. NodePasses(pod, n, i) <=> NodePasses(pod, n, NodeInfoOf(pods))
    BY <1>1, <2>1, FewerOnNode
  <2> QED BY <2>2, NodeFilterPasses
<1>3. SpreadFilter(s.spread, pod, n) = "Success"
        <=> Judged(pod, n, Moved(pod, n, SnapshotCounts, pods, PodsOn(at, n)))
  BY <1>1, VerdictByNumbers DEF SpreadFor
<1> QED
  BY <1>2, <1>3 DEF RunFilters, FirstFailed, Passes

\* Nominated pods are not placed.
LEMMA NominatedMovable ==
    ASSUME CycleOK, NEW n \in Nodes, NEW pods \in SUBSET PodsOn(at, n)
    PROVE  /\ Movable(n, pods \cup NominatedHere(n)) /\ pods \cap NominatedHere(n) = {}
           /\ \A q \in NominatedHere(n) : at[q] = None
           /\ pods \in SUBSET Pods /\ NominatedHere(n) \in SUBSET Pods
  BY CycleAssumption DEF Movable, NominatedHere, CycleOK, PodsOn

\* The affinity state with the nominated pods.
LEMMA NominatedAffinity ==
    ASSUME CycleOK, NEW n \in Nodes, NEW pods \in SUBSET PodsOn(at, n), NEW s, s.affinity = AffinityOf(n, pods)
    PROVE  WithNominated(n, s).affinity = AffinityOf(n, pods \cup NominatedHere(n))
<1> DEFINE S == NominatedHere(n)
           b == Placing(n, pods)
           a == [q \in Pods |-> IF q \in S THEN n ELSE b[q]]
<1>1. S \in SUBSET Pods /\ \A q \in S : at[q] = None /\ q \notin pods
  BY NominatedMovable
<1>2. pod \in Pods /\ at \in Placements
  BY DEF CycleOK
<1>3. b \in Placements /\ \A q \in S : b[q] = None
  BY <1>1, <1>2 DEF Placing, Placements
<1>4. Placing(n, pods \cup S) = a
  BY DEF Placing
<1> HIDE DEF S, b
<1>5. FoldSet(LAMBDA q, t : AffinityUpdateWithPod(t, q, pod, n, 1), AffinityPreFilter(pod, b), S)
        = AffinityPreFilter(pod, a)
  <2>1. S \in SUBSET Pods /\ \A q \in S : b[q] = None
    BY <1>1, <1>3
  <2> QED BY <1>2, <1>3, <2>1, UpdateAddsAll
<1>6. WithNominated(n, s).affinity
        = FoldSet(LAMBDA q, t : AffinityUpdateWithPod(t, q, pod, n, 1), s.affinity, NominatedHere(n))
  BY DEF WithNominated
<1> QED
  BY <1>4, <1>5, <1>6 DEF S, b, AffinityOf

\* And what PodPassesFiltersOnNode says.
LEMMA VerdictByPods ==
    ASSUME CycleOK, NEW n \in Nodes, NoPanics(n), NEW pods \in SUBSET PodsOn(at, n), NEW i, InfoFor(i, pods),
           NEW s, SpreadFor(s.spread, n, pods), s.affinity = AffinityOf(n, pods)
    PROVE  Verdict(n, i, s) = "Success" <=> Good(n, pods)
<1> DEFINE S == NominatedHere(n)
           j == InfoWithNominated(n, i)
           t == WithNominated(n, s)
<1>1. /\ pods \in SUBSET Pods /\ S \in SUBSET Pods /\ S \cap pods = {} /\ pods \cup S \in SUBSET Pods
  BY NominatedMovable
<1>2. InfoFor(j, pods \cup S)
  <2>1. j = FoldSet(LAMBDA q, u : AddPod(u, q), i, S)
    BY DEF InfoWithNominated
  <2> HIDE DEF S, j
  <2> QED BY <1>1, <2>1, InfoAddsAll
<1>3. SpreadFor(t.spread, n, pods \cup S)
  BY NominatedSpread DEF NoPanics
<1>4. t.affinity = AffinityOf(n, pods \cup S)
  BY NominatedAffinity
<1> HIDE DEF j, t, S
<1>5. RunFilters(n, j, t) = "Success" <=> Passes(n, pods \cup S)
  BY <1>1, <1>2, <1>3, <1>4, FiltersByPods
<1>6. RunFilters(n, i, s) = "Success" <=> Passes(n, pods)
  BY <1>1, FiltersByPods
<1> QED
  BY <1>5, <1>6 DEF Verdict, FirstFailed, Good, j, t, S

\* A set of pods between two that leave room leaves room: with the smaller one the pod
\* has the company it asks for, and with the larger one nothing else is in its way.
LEMMA PassesBetween ==
    ASSUME CycleOK, NEW n \in Nodes, NEW M, Movable(n, M), NEW L \in SUBSET M, NEW K \in SUBSET L,
           Passes(n, K), Passes(n, M)
    PROVE  Passes(n, L)
<1>1. pod \in Pods /\ M \in SUBSET Pods /\ L \in SUBSET Pods /\ Movable(n, L) /\ PodsOn(at, n) \in SUBSET Pods
  BY DEF CycleOK, Movable, PodsOn
<1>2. NodePasses(pod, n, NodeInfoOf(L))
  <2>1. InfoFor(NodeInfoOf(L), L) /\ InfoFor(NodeInfoOf(M), M)
    BY <1>1, InfoFresh
  <2> QED BY <1>1, <2>1, FewerOnNode DEF Passes
<1>3. Judged(pod, n, Moved(pod, n, SnapshotCounts, L, PodsOn(at, n)))
  <2> DEFINE f == Moved(pod, n, SnapshotCounts, M, PodsOn(at, n))
             g == Moved(pod, n, SnapshotCounts, L, PodsOn(at, n))
  <2>1. Numbers(SnapshotCounts, PairsFor(pod))
    BY SnapshotNumbers
  <2>2. Numbers(f, PairsFor(pod)) /\ Judged(pod, n, f)
    BY <1>1, <2>1, FewerMoved DEF Passes
  <2>3. /\ Numbers(g, PairsFor(pod))
        /\ Below(pod, n, g, f)
    BY <1>1, <2>1, FewerMoved
  <2> HIDE DEF f, g
  <2>4. Judged(pod, n, g)
    BY <1>1, <2>2, <2>3, FewerJudged
  <2> QED BY <2>4 DEF g
<1>4. AffinityFilter(AffinityOf(n, L), pod, n) = "Success"
  <2>1. \A pods : AffinityFilter(AffinityOf(n, pods), pod, n) = "Success"
            <=> satisfyPodAffinity(AffinityOf(n, pods), pod, n) /\ Clear(AffinityOf(n, pods), pod, n)
    BY DEF AffinityFilter, Clear
  <2>2. satisfyPodAffinity(AffinityOf(n, L), pod, n)
    BY <1>1, <2>1, MorePods DEF Passes
  <2>3. Clear(AffinityOf(n, L), pod, n)
    BY <2>1, MorePods DEF Passes
  <2> QED BY <2>1, <2>2, <2>3
<1> QED
  BY <1>2, <1>3, <1>4 DEF Passes

\* What fits with more pods and with fewer fits with those in between.
LEMMA GoodBetween ==
    ASSUME CycleOK, NEW n \in Nodes, NEW M \in SUBSET PodsOn(at, n), NEW L \in SUBSET M, NEW K \in SUBSET L,
           Good(n, K), Good(n, M)
    PROVE  Good(n, L)
<1> DEFINE S == NominatedHere(n)
<1>1. Movable(n, M \cup S) /\ Movable(n, M)
  BY NominatedMovable DEF Movable
<1>2. Passes(n, L \cup S)
  <2>1. K \cup S \in SUBSET (L \cup S) /\ L \cup S \in SUBSET (M \cup S)
    OBVIOUS
  <2>2. Passes(n, K \cup S) /\ Passes(n, M \cup S)
    BY DEF Good
  <2> HIDE DEF S
  <2> QED BY <1>1, <2>1, <2>2, PassesBetween
<1>3. Passes(n, L)
  BY <1>1, PassesBetween DEF Good
<1> QED
  BY <1>2, <1>3 DEF Good

\* There are critical paths after a walk.
LEMMA PathsExist ==
    ASSUME NEW S, IsFiniteSet(S), NEW f, Numbers(f, S)
    PROVE  PathsAfter(S, f) # {}
<1> DEFINE Rec(h) == [s \in SUBSET S |->
                         IF s = {} THEN {NewCriticalPaths}
                         ELSE UNION {{Update(paths, x[2], f[x]) : paths \in h[s \ {x}]} : x \in s}]
           walk == CHOOSE h : h = Rec(h)
<1>1. PICK g \in [SUBSET S -> SUBSET PathPairs(S)] : WalkRule(g, f, SUBSET S)
  BY WalkExists
<1>2. g = Rec(g)
  BY <1>1 DEF WalkRule
<1>3. walk = Rec(walk)
  <2> HIDE DEF Rec
  <2> QED BY <1>2
<1>4. PathsAfter(S, f) = walk[S]
  BY DEF PathsAfter
<1>5. WalkRule(walk, f, SUBSET S)
  <2> HIDE DEF walk
  <2> QED BY <1>3 DEF WalkRule
<1> HIDE DEF walk
<1> DEFINE G == {s \in SUBSET S : walk[s] # {}}
<1>6. ASSUME NEW s \in SUBSET S, \A x \in s : s \ {x} \in G PROVE s \in G
  <2>1. CASE s = {}
    BY <1>5, <2>1 DEF WalkRule
  <2>2. CASE s # {}
    <3>1. PICK x \in s : TRUE
      BY <2>2
    <3>2. PICK u \in walk[s \ {x}] : TRUE
      BY <1>6, <3>1
    <3>3. walk[s] = UNION {{Update(paths, y[2], f[y]) : paths \in walk[s \ {y}]} : y \in s}
      BY <1>5, <2>2 DEF WalkRule
    <3> DEFINE F == {{Update(paths, y[2], f[y]) : paths \in walk[s \ {y}]} : y \in s}
               part == {Update(paths, x[2], f[x]) : paths \in walk[s \ {x}]}
    <3>4. part \in F /\ Update(u, x[2], f[x]) \in part
      BY <3>1, <3>2
    <3>5. walk[s] = UNION F
      BY <3>3
    <3> HIDE DEF F, part
    <3>6. Update(u, x[2], f[x]) \in walk[s]
      BY <3>4, <3>5
    <3> QED BY <3>6
  <2> QED BY <2>1, <2>2
<1>7. SUBSET S \subseteq G
  <2> HIDE DEF G
  <2>1. Descends(S, G)
    BY <1>6 DEF Descends
  <2> QED BY <2>1, DescentInduction
<1> QED
  BY <1>4, <1>7

\* PreFilter has a result.
LEMMA StateExists ==
    ASSUME NEW p \in Pods, NEW a
    PROVE  calPreFilterState(p, a) # {}
<1> DEFINE f == PairCounts(p, a, HardOf(p))
           paths == [key \in KeysOf(p) |-> CHOOSE u : u \in PathsOf(key, f)]
<1>1. /\ DOMAIN f = PairsFor(p)
      /\ \A x \in PairsFor(p) : f[x] = MatchNum(ConstraintFor(p, x), x, p, a)
  BY DEF PairCounts, PairsFor, ConstraintFor
<1> HIDE DEF f
<1>2. Numbers(f, PairsFor(p))
  BY <1>1, MatchNumType DEF Numbers
<1>3. ASSUME NEW key \in KeysOf(p) PROVE PathsOf(key, f) # {}
  <2>1. PathsOf(key, f) = PathsAfter(KeyPairs(p, key), f)
    BY <1>1 DEF PathsOf, KeyPairs
  <2>2. Numbers(f, KeyPairs(p, key)) /\ IsFiniteSet(KeyPairs(p, key))
    BY <1>2, KeyPairsShape DEF Numbers, KeyPairs
  <2> QED BY <2>1, <2>2, PathsExist
<1>4. \A key \in KeysOf(p) : paths[key] \in PathsOf(key, f)
  BY <1>3
<1>5. paths \in [KeysOf(p) -> UNION {PathsOf(key, f) : key \in KeysOf(p)}]
  <2>1. ASSUME NEW key \in KeysOf(p) PROVE paths[key] \in UNION {PathsOf(k, f) : k \in KeysOf(p)}
    <3>1. PathsOf(key, f) \in {PathsOf(k, f) : k \in KeysOf(p)}
      OBVIOUS
    <3> HIDE DEF paths
    <3> QED BY <1>4, <3>1
  <2> QED BY <2>1
<1> HIDE DEF paths
<1>6. [constraints |-> HardOf(p), counts |-> f, paths |-> paths] \in WithPaths(HardOf(p), f)
  BY <1>4, <1>5 DEF WithPaths, KeysOf
<1>7. calPreFilterState(p, a) = WithPaths(HardOf(p), f)
  BY DEF calPreFilterState, HardOf, f
<1> QED
  BY <1>6, <1>7

\* Without terminating pods, fitting by what is counted afresh is to leave room.
LEMMA AfreshIsGood ==
    ASSUME CycleOK, NEW n \in Nodes, NoPanics(n), NEW pods \in SUBSET PodsOn(at, n),
           \A q \in PodsOn(at, n) : ~PodSpec[q].terminating
    PROVE  FitsAfresh(n, pods) <=> Good(n, pods)
<1> DEFINE b == Placing(n, pods)
           f == Moved(pod, n, SnapshotCounts, pods, PodsOn(at, n))
<1>1. /\ pod \in Pods /\ at \in Placements /\ pods \in SUBSET Pods /\ PodsOn(at, n) \in SUBSET Pods
      /\ \A q \in pods : at[q] \in {n, None}
  BY DEF CycleOK, PodsOn
<1>2. ASSUME NEW spread \in calPreFilterState(pod, b) PROVE SpreadFor(spread, n, pods)
  <2>1. Tracks(spread, pod, n, PairCounts(pod, b, HardOf(pod)))
    BY <1>1, FreshTracks
  <2>2. ASSUME AllKeys(n, pod), NEW x \in PairsFor(pod)
        PROVE  f[x] = PairCounts(pod, b, HardOf(pod))[x]
    <3>1. b = [q \in Pods |-> IF q \in pods THEN n ELSE IF at[q] = n THEN None ELSE at[q]]
      BY DEF Placing
    <3>2. \A q \in (PodsOn(at, n) \ pods) \cup (pods \ PodsOn(at, n)) : ~PodSpec[q].terminating
      OBVIOUS
    <3> HIDE DEF b
    <3> QED BY <1>1, <2>2, <3>1, <3>2, CountsMoved DEF SnapshotCounts
  <2>3. Numbers(f, PairsFor(pod))
    <3>1. Numbers(SnapshotCounts, PairsFor(pod))
      BY SnapshotNumbers
    <3> QED BY <1>1, <3>1, FewerMoved
  <2> HIDE DEF b, f
  <2>4. Tracks(spread, pod, n, f)
    BY <1>1, <2>1, <2>2, <2>3, TracksSame
  <2> QED BY <2>4 DEF SpreadFor, f
<1>3. ASSUME NEW spread \in calPreFilterState(pod, b)
      PROVE  Verdict(n, NodeInfoOf(pods), [spread |-> spread, affinity |-> AffinityPreFilter(pod, b)]) = "Success"
               <=> Good(n, pods)
  <2> DEFINE s == [spread |-> spread, affinity |-> AffinityPreFilter(pod, b)]
  <2>1. s.affinity = AffinityOf(n, pods) /\ s.spread = spread
    BY DEF AffinityOf
  <2>2. InfoFor(NodeInfoOf(pods), pods)
    BY <1>1, InfoFresh
  <2>3. SpreadFor(s.spread, n, pods)
    BY <1>2, <2>1
  <2> HIDE DEF s, b
  <2>4. Verdict(n, NodeInfoOf(pods), s) = "Success" <=> Good(n, pods)
    BY <2>1, <2>2, <2>3, VerdictByPods
  <2> QED BY <2>4 DEF s
<1>4. calPreFilterState(pod, b) # {}
  BY <1>1, StateExists
<1> HIDE DEF b
<1>5. FitsAfresh(n, pods) <=> \E spread \in calPreFilterState(pod, b) :
         Verdict(n, NodeInfoOf(pods), [spread |-> spread, affinity |-> AffinityPreFilter(pod, b)]) = "Success"
  BY DEF FitsAfresh, b
<1> QED
  BY <1>3, <1>4, <1>5

-----------------------------------------------------------------------------
(* Victims.                                                                *)

\* No two pods of the node share a port and none is terminating.
Neat(n) == ~SharesPort(n) /\ \A q \in PodsOn(at, n) : ~PodSpec[q].terminating

\* Pod v cannot stay: with some of the pods, none of them lower than v, the incoming pod
\* fits, and with v besides them it does not.
Stuck(n, v, pods) ==
    \E I \in SUBSET pods : (\A r \in I : Priority[r] >= Priority[v]) /\ Good(n, I) /\ ~Good(n, I \cup {v})

\* The pods that are kept leave room, and none of the victims can stay.
Fair(n, kept, vs) == Good(n, kept) /\ \A v \in vs : Stuck(n, v, kept)

\* The nodes that failed do not leave room; what a dry run has, when it takes pods off
\* and when it puts them back; and what it leaves of the candidates.
FailedOK ==
    phase \in {"postfilter", "nodes", "takeoff", "reprieve"} =>
        \A n \in Nodes : NoPanics(n) /\ ~Good(n, PodsOn(at, n))
TakenOK ==
    phase \in {"takeoff", "reprieve"} =>
        /\ Tallied(info, info.pods)
        /\ victims \cap (info.pods \cup potential) = {}
        /\ phase = "takeoff" => victims = {}
        /\ victims = {} => info.ports \cup PortsOf(potential) = PortsOf(PodsOn(at, node))
        /\ ~SharesPort(node) => info.ports = PortsOf(info.pods)
ReprieveOK ==
    phase = "reprieve" =>
        /\ potential = {} => victims # {}
        /\ \A r \in info.pods, q \in potential : Priority[r] >= Priority[q]
        /\ Neat(node) => Fair(node, info.pods, victims)
CandidatesOK ==
    \A n \in DOMAIN candidates :
        /\ n \in Nodes /\ candidates[n] # {} /\ NoPanics(n)
        /\ Neat(n) => Fair(n, PodsOn(at, n) \ candidates[n], candidates[n])
VictimsInv == FailedOK /\ TakenOK /\ ReprieveOK /\ CandidatesOK

\* Pods with ports of their own.
LEMMA PortsApart ==
    ASSUME NEW n, ~SharesPort(n), NEW pods \in SUBSET PodsOn(at, n), NEW q \in PodsOn(at, n), q \notin pods
    PROVE  PortsOf(pods) \cap PodSpec[q].ports = {}
<1> SUFFICES ASSUME NEW x, x \in PortsOf(pods), x \in PodSpec[q].ports PROVE FALSE
  OBVIOUS
<1>1. PICK u \in pods : x \in PodSpec[u].ports
  BY DEF PortsOf
<1>2. u # q /\ x \in PodSpec[u].ports \cap PodSpec[q].ports
  BY <1>1
<1> QED
  BY <1>1, <1>2 DEF SharesPort

\* With more pods, a pod that cannot stay still cannot.
LEMMA StuckMore ==
    ASSUME NEW n, NEW v, NEW pods, NEW more, pods \subseteq more, Stuck(n, v, pods)
    PROVE  Stuck(n, v, more)
<1>1. SUBSET pods \subseteq SUBSET more
  OBVIOUS
<1> QED
  BY <1>1 DEF Stuck

\* It cannot with the ones of them that are not lower, either.
LEMMA StuckAmong ==
    ASSUME CycleOK, NEW n \in Nodes, NEW kept \in SUBSET PodsOn(at, n), NEW v \in PodsOn(at, n),
           Stuck(n, v, kept), NEW E \in SUBSET kept, \A r \in kept : Priority[r] >= Priority[v] => r \in E
    PROVE  ~Good(n, E \cup {v})
<1>1. PICK I \in SUBSET kept : (\A r \in I : Priority[r] >= Priority[v]) /\ Good(n, I) /\ ~Good(n, I \cup {v})
  BY DEF Stuck
<1>2. I \subseteq E
  BY <1>1
<1>3. E \cup {v} \in SUBSET PodsOn(at, n) /\ I \cup {v} \in SUBSET (E \cup {v}) /\ I \in SUBSET (I \cup {v})
  BY <1>2
<1> QED
  BY <1>1, <1>3, GoodBetween

\* A step leaves the placement alone, and the nominations that count for the pod: only
\* its own and those of lower pods are cleared.
LEMMA NominatedKept ==
    ASSUME CycleOK, [Next]_vars
    PROVE  UNCHANGED <<pod, at>> /\ \A n : NominatedHere(n)' = NominatedHere(n)
<1>1. /\ pod' = pod /\ at' = at
      /\ \/ nominated' = nominated
         \/ nominated' = [nominated EXCEPT ![pod] = None]
         \/ \E cleared \in SUBSET {q \in Pods : nominated[q] = node /\ Priority[q] < Priority[pod]} :
               nominated' = [q \in Pods |-> IF q \in cleared THEN None ELSE nominated[q]]
  BY DEF Next, vars, dryRun, PreFilter, Filter, FilterPanics, Score, NotEligible, NoPotentialNodes, FindCandidates,
         StartNode, TakeOff, TakeOffPanics, CheckEmptied, Reprieve, EndNode, NoCandidate, SelectCandidate,
         DeleteVictim, DeleteFails, Nominate
<1>2. \A q \in Pods : Priority[q] \in Int
  BY PriorityAssumption
<1>3. pod \in Pods /\ nominated \in Placements
  BY DEF CycleOK
<1>4. ASSUME NEW q \in Pods \ {pod}, Priority[q] >= Priority[pod] PROVE nominated'[q] = nominated[q]
  BY <1>1, <1>2, <1>3, <1>4 DEF Placements
<1> QED
  BY <1>1, <1>4 DEF NominatedHere

\* So it leaves alone what these decide.
LEMMA PredicatesKept ==
    ASSUME UNCHANGED <<pod, at>>, \A n : NominatedHere(n)' = NominatedHere(n)
    PROVE  /\ \A n : PodsOn(at, n)' = PodsOn(at, n)
           /\ \A n : SharesPort(n)' <=> SharesPort(n)
           /\ \A n : Neat(n)' <=> Neat(n)
           /\ \A n : NoPanics(n)' <=> NoPanics(n)
           /\ \A n, pods : Good(n, pods)' <=> Good(n, pods)
           /\ \A n, v, pods : Stuck(n, v, pods)' <=> Stuck(n, v, pods)
           /\ \A n, kept, vs : Fair(n, kept, vs)' <=> Fair(n, kept, vs)
<1>1. \A n : PodsOn(at, n)' = PodsOn(at, n)
  BY DEF PodsOn
<1>2. \A n : SharesPort(n)' <=> SharesPort(n)
  BY DEF SharesPort, PodsOn
<1>3. \A n : Neat(n)' <=> Neat(n)
  BY <1>1, <1>2 DEF Neat
<1>4. \A n : NoPanics(n)' <=> NoPanics(n)
  BY DEF NoPanics
<1>5. \A n, pods : Passes(n, pods)' <=> Passes(n, pods)
  BY DEF Passes, AffinityOf, Placing, SnapshotCounts
<1>6. \A n, pods : Good(n, pods)' <=> Good(n, pods)
  BY <1>5 DEF Good
<1>7. \A n, v, pods : Stuck(n, v, pods)' <=> Stuck(n, v, pods)
  BY <1>6 DEF Stuck
<1>8. \A n, kept, vs : Fair(n, kept, vs)' <=> Fair(n, kept, vs)
  BY <1>6, <1>7 DEF Fair
<1> QED
  BY <1>1, <1>2, <1>3, <1>4, <1>6, <1>7, <1>8

\* A node that the filters refused, with all of its pods.
LEMMA FailedStep ==
    ASSUME DryRunInv, Filter, phase' = "postfilter", NEW n \in Nodes
    PROVE  NoPanics(n) /\ ~Good(n, PodsOn(at, n))
<1>1. CycleOK /\ phase = "filter"
  BY DEF DryRunInv, Filter
<1>2. state.affinity = AffinityPreFilter(pod, at) /\ state.spread \in calPreFilterState(pod, at)
  BY <1>1 DEF DryRunInv, StateOK
<1>3. SpreadFor(state.spread, n, PodsOn(at, n))
  BY <1>1, <1>2, SpreadInitially
<1>4. NoPanics(n)
  BY <1>3, PanicSame DEF Filter, AddingPanics, NoPanics, SpreadFor, Tracks
<1>5. state.affinity = AffinityOf(n, PodsOn(at, n))
  BY <1>1, <1>2, PlacingAll DEF AffinityOf
<1>6. InfoFor(NodeInfoOf(PodsOn(at, n)), PodsOn(at, n)) /\ PodsOn(at, n) \in SUBSET PodsOn(at, n)
  <2>1. PodsOn(at, n) \in SUBSET Pods
    BY DEF PodsOn
  <2> QED BY <2>1, InfoFresh
<1>7. Verdict(n, NodeInfoOf(PodsOn(at, n)), state) = "Success" <=> Good(n, PodsOn(at, n))
  BY <1>1, <1>3, <1>4, <1>5, <1>6, VerdictByPods
<1>8. statuses'[n] = Verdict(n, NodeInfoOf(PodsOn(at, n)), state)
  BY DEF Filter
<1>9. statuses'[n] # "Success"
  BY DEF Filter
<1> QED
  BY <1>4, <1>7, <1>8, <1>9

\* The filters' verdict on a dry run, when the ports are right as well.
LEMMA DryRunVerdict ==
    ASSUME CycleOK, node \in Nodes, NoPanics(node), NEW pods \in SUBSET PodsOn(at, node),
           NEW i, InfoFor(i, pods), NEW s, SpreadFor(s.spread, node, pods),
           s.affinity = AffinityPreFilter(pod, Placing(node, pods))
    PROVE  Fits(i, s) <=> Good(node, pods)
<1>1. s.affinity = AffinityOf(node, pods)
  BY DEF AffinityOf
<1> QED
  BY <1>1, VerdictByPods DEF Fits

\* A pod is taken off.
LEMMA TakeOffStep ==
    ASSUME DryRunInv, VictimsInv, NEW q \in Pods, TakeOff(q)
    PROVE  /\ Tallied(info', info'.pods)
           /\ victims' \cap (info'.pods \cup potential') = {} /\ victims' = {}
           /\ info'.ports \cup PortsOf(potential') = PortsOf(PodsOn(at, node))
           /\ ~SharesPort(node) => info'.ports = PortsOf(info'.pods)
<1> DEFINE rest == info.pods \ {q}
<1>1. /\ phase = "takeoff" /\ q \in info.pods /\ info' = RemovePod(info, q) /\ potential' = potential \cup {q}
      /\ victims' = victims /\ victims = {}
  BY DEF TakeOff, LowerPods, VictimsInv, TakenOK
<1>2. /\ Tallied(info, info.pods) /\ info.ports \cup PortsOf(potential) = PortsOf(PodsOn(at, node))
      /\ ~SharesPort(node) => info.ports = PortsOf(info.pods)
  BY <1>1 DEF VictimsInv, TakenOK
<1>3. info.pods \subseteq PodsOn(at, node)
  BY <1>1 DEF DryRunInv, DryRunOK
<1>4. rest \in SUBSET Pods /\ q \notin rest /\ rest \cup {q} = info.pods /\ rest \in SUBSET PodsOn(at, node) /\ q \in PodsOn(at, node)
  BY <1>1, <1>3 DEF PodsOn
<1>5. info \in InfoType
  BY <1>2 DEF Tallied
<1>6. info'.pods = rest /\ info'.ports = info.ports \ PodSpec[q].ports
  BY <1>1, <1>5, InfoFields
<1> HIDE DEF rest
<1>7. Tallied(info', rest)
  <2>1. Tallied(info, rest \cup {q})
    BY <1>2, <1>4
  <2> QED BY <1>1, <1>4, <2>1, InfoChange
<1>8. info'.ports \cup PortsOf(potential') = PortsOf(PodsOn(at, node))
  <2>1. PortsOf(potential') = PortsOf(potential) \cup PodSpec[q].ports
    BY <1>1, PortsOfMore
  <2>2. PodSpec[q].ports \subseteq PortsOf(PodsOn(at, node))
    <3>1. PodsOn(at, node) = PodsOn(at, node) \cup {q}
      BY <1>4
    <3>2. PortsOf(PodsOn(at, node) \cup {q}) = PortsOf(PodsOn(at, node)) \cup PodSpec[q].ports
      BY PortsOfMore
    <3>3. PortsOf(PodsOn(at, node)) = PortsOf(PodsOn(at, node) \cup {q})
      BY <3>1, Zenon
    <3> QED BY <3>2, <3>3
  <2> QED BY <1>2, <1>6, <2>1, <2>2
<1>9. ASSUME ~SharesPort(node) PROVE info'.ports = PortsOf(rest)
  <2>1. PortsOf(rest) \cap PodSpec[q].ports = {}
    BY <1>4, <1>9, PortsApart
  <2>2. PortsOf(rest \cup {q}) = PortsOf(rest) \cup PodSpec[q].ports
    BY PortsOfMore
  <2>3. info.ports = PortsOf(rest \cup {q})
    BY <1>2, <1>4, <1>9
  <2> QED BY <1>6, <2>1, <2>2, <2>3
<1> QED
  BY <1>1, <1>6, <1>7, <1>8, <1>9

\* Pods that are reprieved begin with all of the lower ones off.
LEMMA EmptiedStep ==
    ASSUME DryRunInv, VictimsInv, CheckEmptied, phase' = "reprieve"
    PROVE  /\ potential # {} /\ victims = {}
           /\ \A r \in info.pods, q \in potential : Priority[r] >= Priority[q]
           /\ Neat(node) => Good(node, info.pods)
<1>1. /\ phase = "takeoff" /\ LowerPods = {} /\ potential # {} /\ Fits(info, copy)
  BY DEF CheckEmptied
<1>2. /\ CycleOK /\ node \in Nodes /\ info.pods \cup potential \cup victims = PodsOn(at, node)
      /\ potential \subseteq Preemptable(node)
      /\ copy.affinity = AffinityPreFilter(pod, Placing(node, info.pods))
      /\ SpreadFor(copy.spread, node, info.pods)
  BY <1>1 DEF DryRunInv, DryRunOK
<1>3. victims = {} /\ Tallied(info, info.pods) /\ (~SharesPort(node) => info.ports = PortsOf(info.pods))
  BY <1>1 DEF VictimsInv, TakenOK
<1>4. NoPanics(node)
  BY <1>1, <1>2 DEF VictimsInv, FailedOK
<1>5. ASSUME NEW r \in info.pods, NEW q \in potential PROVE Priority[r] >= Priority[q]
  <2>1. r \in Pods /\ q \in Pods /\ pod \in Pods
    BY <1>2 DEF PodsOn, Preemptable, CycleOK
  <2>2. Priority[r] \in Int /\ Priority[q] \in Int /\ Priority[pod] \in Int
    BY <2>1, PriorityAssumption
  <2>3. Priority[q] < Priority[pod]
    BY <1>2 DEF Preemptable
  <2>4. ~ (Priority[r] < Priority[pod])
    BY <1>1 DEF LowerPods
  <2> QED BY <2>2, <2>3, <2>4
<1>6. ASSUME Neat(node) PROVE Good(node, info.pods)
  <2>1. InfoFor(info, info.pods)
    BY <1>3, <1>6 DEF InfoFor, Neat
  <2>2. info.pods \in SUBSET PodsOn(at, node)
    BY <1>2
  <2> QED BY <1>1, <1>2, <1>4, <2>1, <2>2, DryRunVerdict
<1> QED
  BY <1>1, <1>3, <1>5, <1>6

\* A pod is put back, and stays or becomes a victim.
LEMMA ReprieveStep ==
    ASSUME DryRunInv, VictimsInv, NEW q \in Pods, Reprieve(q)
    PROVE  /\ Tallied(info', info'.pods)
           /\ victims' \cap (info'.pods \cup potential') = {}
           /\ victims' = {} => info'.ports \cup PortsOf(potential') = PortsOf(PodsOn(at, node))
           /\ ~SharesPort(node) => info'.ports = PortsOf(info'.pods)
           /\ potential' = {} => victims' # {}
           /\ \A r \in info'.pods, x \in potential' : Priority[r] >= Priority[x]
           /\ Neat(node) => Fair(node, info'.pods, victims')
<1> DEFINE more == info.pods \cup {q}
           j == AddPod(info, q)
           back == StateWithPod(copy, q, node, 1)
<1>1. /\ phase = "reprieve" /\ q \in potential /\ potential' = potential \ {q}
      /\ \A r \in potential : ~MoreImportantPod(r, q)
      /\ \/ Fits(j, back) /\ info' = j /\ victims' = victims
         \/ ~Fits(j, back) /\ info' = RemovePod(j, q) /\ victims' = victims \cup {q}
  BY DEF Reprieve
<1>2. /\ CycleOK /\ node \in Nodes /\ info.pods \cup potential \cup victims = PodsOn(at, node)
      /\ info.pods \cap potential = {} /\ ~Panics(q, pod, node)
      /\ copy.affinity = AffinityPreFilter(pod, Placing(node, info.pods))
      /\ SpreadFor(copy.spread, node, info.pods)
  BY <1>1 DEF DryRunInv, DryRunOK
<1>3. /\ Tallied(info, info.pods) /\ victims \cap (info.pods \cup potential) = {}
      /\ victims = {} => info.ports \cup PortsOf(potential) = PortsOf(PodsOn(at, node))
      /\ ~SharesPort(node) => info.ports = PortsOf(info.pods)
      /\ \A r \in info.pods, x \in potential : Priority[r] >= Priority[x]
      /\ Neat(node) => Fair(node, info.pods, victims)
  BY <1>1 DEF VictimsInv, TakenOK, ReprieveOK
<1>4. NoPanics(node) /\ ~Good(node, PodsOn(at, node))
  BY <1>1, <1>2 DEF VictimsInv, FailedOK
<1>5. /\ info.pods \in SUBSET Pods /\ q \notin info.pods /\ q \notin victims /\ at[q] = node
      /\ more \in SUBSET PodsOn(at, node) /\ info.pods \in SUBSET PodsOn(at, node) /\ q \in PodsOn(at, node)
      /\ potential \subseteq Pods
  BY <1>1, <1>2, <1>3 DEF PodsOn
<1>6. info \in InfoType
  BY <1>3 DEF Tallied
<1>7. Tallied(j, more) /\ j \in InfoType /\ j.pods = more /\ j.ports = info.ports \cup PodSpec[q].ports
  <2>1. Tallied(AddPod(info, q), info.pods \cup {q})
    BY <1>3, <1>5, InfoChange
  <2> QED BY <1>6, <2>1, InfoFields
<1>8. back.affinity = AffinityPreFilter(pod, Placing(node, more)) /\ SpreadFor(back.spread, node, more)
  <2>1. back.affinity = AffinityPreFilter(pod, Placing(node, info.pods \cup {q}))
    BY <1>2, <1>5, CopyExact
  <2>2. SpreadFor(back.spread, node, info.pods \cup {q})
    BY <1>2, <1>5, SpreadChange
  <2> QED BY <2>1, <2>2
<1>9. PortsOf(more) = PortsOf(info.pods) \cup PodSpec[q].ports
  BY PortsOfMore
<1>10. PortsOf(potential) = PortsOf(potential \ {q}) \cup PodSpec[q].ports
  <2>1. potential = (potential \ {q}) \cup {q}
    BY <1>1
  <2>2. PortsOf((potential \ {q}) \cup {q}) = PortsOf(potential \ {q}) \cup PodSpec[q].ports
    BY PortsOfMore
  <2>3. PortsOf(potential) = PortsOf((potential \ {q}) \cup {q})
    BY <2>1, Zenon
  <2> QED BY <2>2, <2>3
<1>11. ASSUME NEW r \in more, NEW x \in potential \ {q} PROVE Priority[r] >= Priority[x]
  <2>1. CASE r \in info.pods
    BY <1>3, <2>1
  <2>2. CASE r = q
    <3>1. ~(Priority[x] > Priority[q])
      BY <1>1 DEF MoreImportantPod
    <3>2. Priority[x] \in Int /\ Priority[q] \in Int
      BY <1>1, <1>5, PriorityAssumption
    <3> QED BY <2>2, <3>1, <3>2
  <2> QED BY <2>1, <2>2
<1>12. ASSUME Neat(node) PROVE Fits(j, back) <=> Good(node, more)
  <2>1. InfoFor(j, more)
    BY <1>3, <1>7, <1>9, <1>12 DEF InfoFor, Neat
  <2> HIDE DEF more, j, back
  <2> QED BY <1>2, <1>4, <1>5, <1>8, <2>1, DryRunVerdict
<1>13. CASE Fits(j, back) /\ info' = j /\ victims' = victims
  <2>1. victims' \cap (info'.pods \cup potential') = {}
    BY <1>1, <1>3, <1>5, <1>7, <1>13
  <2>2. ASSUME victims = {} PROVE j.ports \cup PortsOf(potential \ {q}) = PortsOf(PodsOn(at, node))
    BY <1>3, <1>7, <1>10, <2>2
  <2>3. ~SharesPort(node) => j.ports = PortsOf(more)
    BY <1>3, <1>7, <1>9
  <2>4. ASSUME potential \ {q} = {}, victims = {} PROVE FALSE
    <3>1. more = PodsOn(at, node)
      BY <1>1, <1>2, <2>4
    <3>2. PortsOf(potential \ {q}) = {}
      BY <2>4 DEF PortsOf
    <3>3. j.ports = PortsOf(PodsOn(at, node))
      BY <2>2, <2>4, <3>2
    <3>4. InfoFor(j, more)
      <4>1. PortsOf(more) = PortsOf(PodsOn(at, node))
        BY <3>1, Zenon
      <4> QED BY <1>7, <3>3, <4>1 DEF InfoFor
    <3> HIDE DEF more, j, back
    <3>5. Fits(j, back) <=> Good(node, more)
      BY <1>2, <1>4, <1>5, <1>8, <3>4, DryRunVerdict
    <3>6. Good(node, PodsOn(at, node))
      BY <1>13, <3>1, <3>5, Zenon
    <3> QED BY <1>4, <3>6
  <2>5. ASSUME Neat(node) PROVE Fair(node, more, victims)
    <3>1. Good(node, more) /\ Fair(node, info.pods, victims)
      BY <1>3, <1>12, <1>13, <2>5
    <3>2. info.pods \subseteq more
      OBVIOUS
    <3> HIDE DEF more
    <3>3. \A v \in victims : Stuck(node, v, more)
      BY <3>1, <3>2, StuckMore DEF Fair
    <3> QED BY <3>1, <3>3 DEF Fair
  <2> HIDE DEF more, j, back
  <2> QED BY <1>1, <1>7, <1>11, <1>13, <2>1, <2>2, <2>3, <2>4, <2>5
<1>14. CASE ~Fits(j, back) /\ info' = RemovePod(j, q) /\ victims' = victims \cup {q}
  <2>1. Tallied(info', info.pods) /\ info'.pods = info.pods
    <3>1. Tallied(RemovePod(j, q), info.pods)
      <4> HIDE DEF j
      <4> QED BY <1>5, <1>7, InfoChange
    <3> QED BY <1>14, <3>1 DEF Tallied
  <2>2. info'.ports = j.ports \ PodSpec[q].ports
    <3> HIDE DEF j
    <3> QED BY <1>7, <1>14, InfoFields
  <2>3. ASSUME ~SharesPort(node) PROVE info'.ports = PortsOf(info.pods)
    <3>1. PortsOf(info.pods) \cap PodSpec[q].ports = {}
      BY <1>5, <2>3, PortsApart
    <3> QED BY <1>3, <1>7, <2>2, <2>3, <3>1
  <2>4. ASSUME Neat(node) PROVE Fair(node, info.pods, victims \cup {q})
    <3>1. ~Good(node, info.pods \cup {q}) /\ Fair(node, info.pods, victims)
      BY <1>3, <1>12, <1>14, <2>4
    <3>2. \A r \in info.pods : Priority[r] >= Priority[q]
      BY <1>1, <1>3
    <3>3. Good(node, info.pods) /\ info.pods \in SUBSET info.pods
      BY <3>1 DEF Fair
    <3>4. Stuck(node, q, info.pods)
      BY <3>1, <3>2, <3>3 DEF Stuck
    <3> QED BY <3>1, <3>4 DEF Fair
  <2>5. victims' \cap (info'.pods \cup potential') = {}
    BY <1>1, <1>3, <1>5, <1>14, <2>1
  <2>6. \A r \in info.pods, x \in potential \ {q} : Priority[r] >= Priority[x]
    BY <1>11
  <2> HIDE DEF more, j, back
  <2> QED BY <1>1, <1>14, <2>1, <2>3, <2>4, <2>5, <2>6
<1> HIDE DEF j, back
<1> QED
  BY <1>1, <1>13, <1>14

\* Every step keeps VictimsInv.
LEMMA VictimsStep == DryRunInv /\ VictimsInv /\ [Next]_vars => VictimsInv'
<1> SUFFICES ASSUME DryRunInv, VictimsInv, [Next]_vars PROVE VictimsInv'
  OBVIOUS
<1>0. /\ UNCHANGED <<pod, at>>
      /\ \A n : PodsOn(at, n)' = PodsOn(at, n)
      /\ \A n : SharesPort(n)' <=> SharesPort(n)
      /\ \A n : Neat(n)' <=> Neat(n)
      /\ \A n : NoPanics(n)' <=> NoPanics(n)
      /\ \A n, pods : Good(n, pods)' <=> Good(n, pods)
      /\ \A n, kept, vs : Fair(n, kept, vs)' <=> Fair(n, kept, vs)
  BY NominatedKept, PredicatesKept DEF DryRunInv
<1>a. candidates' = candidates => CandidatesOK'
  BY <1>0 DEF VictimsInv, CandidatesOK
<1>b. phase \in {"postfilter", "nodes", "takeoff", "reprieve"} => FailedOK'
  BY <1>0 DEF VictimsInv, FailedOK
<1>c. phase' \notin {"postfilter", "nodes", "takeoff", "reprieve"} => FailedOK'
  BY DEF FailedOK
<1>d. phase' \notin {"takeoff", "reprieve"} => TakenOK' /\ ReprieveOK'
  BY DEF TakenOK, ReprieveOK
<1>1. CASE PreFilter
  BY <1>1, <1>a, <1>c, <1>d DEF PreFilter, VictimsInv
<1>2. CASE Filter
  <2>1. FailedOK'
    BY <1>0, <1>2, FailedStep DEF Filter, FailedOK
  <2> QED BY <1>2, <1>a, <1>d, <2>1 DEF Filter, VictimsInv
<1>3. CASE FilterPanics
  BY <1>3, <1>a, <1>c, <1>d DEF FilterPanics, VictimsInv
<1>4. CASE Score
  BY <1>4, <1>a, <1>c, <1>d DEF Score, VictimsInv
<1>5. CASE NotEligible
  BY <1>5, <1>a, <1>c, <1>d DEF NotEligible, VictimsInv
<1>6. CASE NoPotentialNodes
  BY <1>6, <1>a, <1>c, <1>d DEF NoPotentialNodes, VictimsInv
<1>7. CASE FindCandidates
  BY <1>7, <1>a, <1>b, <1>d DEF FindCandidates, VictimsInv
<1>8. ASSUME NEW n \in Nodes, StartNode(n) PROVE VictimsInv'
  <2>1. /\ phase = "nodes" /\ phase' = "takeoff" /\ node' = n /\ candidates' = candidates
        /\ info' = NodeInfoOf(PodsOn(at, n)) /\ potential' = {} /\ victims' = {}
    BY <1>8 DEF StartNode
  <2>2. InfoFor(info', PodsOn(at, n))
    <3>1. PodsOn(at, n) \in SUBSET Pods
      BY DEF PodsOn
    <3> QED BY <2>1, <3>1, InfoFresh
  <2>3. info'.pods = PodsOn(at, n) /\ Tallied(info', info'.pods) /\ info'.ports = PortsOf(PodsOn(at, n))
    BY <2>2 DEF InfoFor, Tallied
  <2>4. PortsOf(potential') = {}
    BY <2>1 DEF PortsOf
  <2>5. TakenOK' /\ ReprieveOK'
    BY <1>0, <2>1, <2>3, <2>4 DEF TakenOK, ReprieveOK
  <2> QED BY <1>a, <1>b, <2>1, <2>5 DEF VictimsInv
<1>9. ASSUME NEW q \in Pods, TakeOff(q) PROVE VictimsInv'
  <2>1. /\ phase = "takeoff" /\ phase' = phase /\ node' = node /\ candidates' = candidates
    BY <1>9 DEF TakeOff
  <2>2. TakenOK' /\ ReprieveOK'
    BY <1>0, <1>9, <2>1, TakeOffStep DEF TakenOK, ReprieveOK
  <2> QED BY <1>a, <1>b, <2>1, <2>2 DEF VictimsInv
<1>10. ASSUME NEW q \in Pods, TakeOffPanics(q) PROVE VictimsInv'
  BY <1>10, <1>a, <1>c, <1>d DEF TakeOffPanics, VictimsInv
<1>11. CASE CheckEmptied
  <2>1. /\ phase = "takeoff" /\ phase' \in {"reprieve", "nodes"} /\ candidates' = candidates
        /\ node' = node /\ info' = info /\ potential' = potential /\ victims' = victims
    BY <1>11 DEF CheckEmptied, dryRun
  <2>2. TakenOK'
    BY <1>0, <2>1 DEF VictimsInv, TakenOK
  <2>3. ASSUME phase' = "reprieve" PROVE ReprieveOK'
    <3>1. /\ potential # {} /\ victims = {}
          /\ \A r \in info.pods, q \in potential : Priority[r] >= Priority[q]
          /\ Neat(node) => Good(node, info.pods)
      BY <1>11, <2>3, EmptiedStep
    <3>2. Neat(node) => Fair(node, info.pods, victims)
      BY <3>1 DEF Fair
    <3> QED BY <1>0, <2>1, <3>1, <3>2 DEF ReprieveOK
  <2>4. ReprieveOK'
    BY <2>1, <2>3 DEF ReprieveOK
  <2> QED BY <1>a, <1>b, <2>1, <2>2, <2>4 DEF VictimsInv
<1>12. ASSUME NEW q \in Pods, Reprieve(q) PROVE VictimsInv'
  <2>1. /\ phase = "reprieve" /\ phase' = phase /\ node' = node /\ candidates' = candidates
    BY <1>12 DEF Reprieve
  <2>2. /\ Tallied(info', info'.pods)
        /\ victims' \cap (info'.pods \cup potential') = {}
        /\ victims' = {} => info'.ports \cup PortsOf(potential') = PortsOf(PodsOn(at, node))
        /\ ~SharesPort(node) => info'.ports = PortsOf(info'.pods)
        /\ potential' = {} => victims' # {}
        /\ \A r \in info'.pods, x \in potential' : Priority[r] >= Priority[x]
        /\ Neat(node) => Fair(node, info'.pods, victims')
    BY <1>12, ReprieveStep
  <2>3. TakenOK' /\ ReprieveOK'
    BY <1>0, <2>1, <2>2 DEF TakenOK, ReprieveOK
  <2> QED BY <1>a, <1>b, <2>1, <2>3 DEF VictimsInv
<1>13. CASE EndNode
  <2>1. /\ phase = "reprieve" /\ potential = {} /\ phase' = "nodes"
        /\ candidates' = [n \in DOMAIN candidates \cup {node} |->
                            IF n = node THEN victims ELSE candidates[n]]
    BY <1>13 DEF EndNode
  <2>2. /\ node \in Nodes /\ info.pods \cup potential \cup victims = PodsOn(at, node)
    BY <2>1 DEF DryRunInv, DryRunOK
  <2>3. /\ victims \cap (info.pods \cup potential) = {} /\ victims # {}
        /\ Neat(node) => Fair(node, info.pods, victims)
    BY <2>1 DEF VictimsInv, TakenOK, ReprieveOK
  <2>4. NoPanics(node)
    BY <2>1, <2>2 DEF VictimsInv, FailedOK
  <2>5. PodsOn(at, node) \ victims = info.pods
    BY <2>1, <2>2, <2>3
  <2>6. ASSUME NEW n \in DOMAIN candidates'
        PROVE  /\ n \in Nodes /\ candidates'[n] # {} /\ NoPanics(n)
               /\ Neat(n) => Fair(n, PodsOn(at, n) \ candidates'[n], candidates'[n])
    <3>1. CASE n = node
      <4>1. candidates'[n] = victims
        BY <2>1, <3>1
      <4> QED BY <2>2, <2>3, <2>4, <2>5, <3>1, <4>1
    <3>2. CASE n # node
      <4>1. n \in DOMAIN candidates /\ candidates'[n] = candidates[n]
        BY <2>1, <3>2
      <4> QED BY <4>1 DEF VictimsInv, CandidatesOK
    <3> QED BY <3>1, <3>2
  <2>7. CandidatesOK'
    BY <1>0, <2>6 DEF CandidatesOK
  <2> QED BY <1>b, <1>d, <2>1, <2>7 DEF VictimsInv
<1>14. CASE NoCandidate
  BY <1>14, <1>a, <1>c, <1>d DEF NoCandidate, VictimsInv
<1>15. CASE SelectCandidate
  BY <1>15, <1>a, <1>c, <1>d DEF SelectCandidate, VictimsInv
<1>16. ASSUME NEW q \in Pods, DeleteVictim(q) PROVE VictimsInv'
  BY <1>16, <1>a, <1>c, <1>d DEF DeleteVictim, VictimsInv
<1>17. CASE DeleteFails
  BY <1>17, <1>a, <1>c, <1>d DEF DeleteFails, VictimsInv
<1>18. CASE Nominate
  BY <1>18, <1>a, <1>c, <1>d DEF Nominate, VictimsInv
<1>19. CASE UNCHANGED vars
  <2>1. /\ phase' = phase /\ candidates' = candidates /\ info' = info /\ potential' = potential
        /\ victims' = victims /\ node' = node
    BY <1>19 DEF vars
  <2>2. FailedOK'
    BY <1>0, <2>1 DEF VictimsInv, FailedOK
  <2>3. TakenOK' /\ ReprieveOK'
    BY <1>0, <2>1 DEF VictimsInv, TakenOK, ReprieveOK
  <2> QED BY <1>a, <2>1, <2>2, <2>3 DEF VictimsInv
<1> QED
  BY <1>1, <1>2, <1>3, <1>4, <1>5, <1>6, <1>7, <1>8, <1>9, <1>10, <1>11, <1>12, <1>13,
     <1>14, <1>15, <1>16, <1>17, <1>18, <1>19 DEF Next

\* The victims of a dry run are justified by its invariants.
LEMMA VictimsByInv == DryRunInv /\ VictimsInv => VictimsJustified /\ MoreImportantSpared
<1> SUFFICES ASSUME DryRunInv, VictimsInv, NEW n \in DOMAIN candidates, Neat(n)
             PROVE  LET kept == PodsOn(at, n) \ candidates[n]
                    IN  /\ FitsAfresh(n, kept)
                        /\ \A q \in candidates[n] :
                              /\ ~FitsAfresh(n, kept \cup {q}) /\ Priority[q] < Priority[pod]
                              /\ ~FitsAfresh(n, {q} \cup {r \in kept : Priority[r] >= Priority[q]})
  BY DEF VictimsJustified, MoreImportantSpared, Neat
<1> DEFINE kept == PodsOn(at, n) \ candidates[n]
<1>1. /\ CycleOK /\ n \in Nodes /\ NoPanics(n) /\ Fair(n, kept, candidates[n])
      /\ \A q \in PodsOn(at, n) : ~PodSpec[q].terminating
  BY DEF DryRunInv, VictimsInv, CandidatesOK, Neat
<1>2. candidates[n] \subseteq PodsOn(at, n) /\ \A q \in candidates[n] : Priority[q] < Priority[pod]
  BY DEF DryRunInv, VictimsOK, Preemptable
<1>3. kept \in SUBSET PodsOn(at, n)
  OBVIOUS
<1> HIDE DEF kept
<1>4. ASSUME NEW pods \in SUBSET PodsOn(at, n) PROVE FitsAfresh(n, pods) <=> Good(n, pods)
  BY <1>1, AfreshIsGood
<1>5. FitsAfresh(n, kept)
  BY <1>1, <1>3, <1>4 DEF Fair
<1>6. ASSUME NEW q \in candidates[n]
      PROVE  /\ ~FitsAfresh(n, kept \cup {q})
             /\ ~FitsAfresh(n, {q} \cup {r \in kept : Priority[r] >= Priority[q]})
  <2> DEFINE E == {r \in kept : Priority[r] >= Priority[q]}
  <2>1. Stuck(n, q, kept) /\ q \in PodsOn(at, n)
    BY <1>1, <1>2 DEF Fair
  <2>2. E \in SUBSET kept /\ kept \in SUBSET kept /\ \A r \in kept : Priority[r] >= Priority[q] => r \in E
    OBVIOUS
  <2>3. {q} \cup E = E \cup {q}
    OBVIOUS
  <2> HIDE DEF E
  <2>4. ~Good(n, E \cup {q}) /\ ~Good(n, kept \cup {q})
    BY <1>1, <1>3, <2>1, <2>2, StuckAmong
  <2>5. E \cup {q} \in SUBSET PodsOn(at, n) /\ kept \cup {q} \in SUBSET PodsOn(at, n)
    BY <1>3, <2>1, <2>2
  <2>6. ~FitsAfresh(n, E \cup {q}) /\ ~FitsAfresh(n, kept \cup {q})
    BY <1>4, <2>4, <2>5
  <2> QED BY <2>3, <2>6 DEF E
<1> QED
  BY <1>2, <1>5, <1>6 DEF kept

\* VictimsInv holds at the start: no node has been looked at.
LEMMA VictimsInitial == Init => VictimsInv
<1>1. candidates = <<>> => DOMAIN candidates = {}
  OBVIOUS
<1> QED
  BY <1>1 DEF Init, VictimsInv, FailedOK, TakenOK, ReprieveOK, CandidatesOK

\* The invariants hold in every state.
LEMMA VictimsAlways == Spec => [](DryRunInv /\ VictimsInv)
  BY DryRunInitial, DryRunStep, VictimsInitial, VictimsStep, PTL DEF Spec

\* On a node where no two pods share a port and none is terminating, the pod fits once
\* the victims of a dry run are gone, and it would fit with none of them.
THEOREM VictimsAreJustified == Spec => []VictimsJustified
  BY VictimsAlways, VictimsByInv, PTL

\* No victim could have stayed there at the price of lower pods alone.
THEOREM ImportantAreSpared == Spec => []MoreImportantSpared
  BY VictimsAlways, VictimsByInv, PTL

\* The node that is nominated is the best of the candidates: no other has a lower
\* highest victim, and none asks for part of its victims' priorities only.
THEOREM CandidateIsBest == Spec => []BestCandidate
<1>1. Init => ChoiceInv
  <2>1. candidates = <<>> => DOMAIN candidates = {}
    OBVIOUS
  <2> QED BY <2>1, FS_EmptySet DEF Init, ChoiceInv
<1>2. ChoiceInv /\ [Next]_vars => ChoiceInv'
  BY ChoiceStep
<1>3. VictimsInv => HaveVictims
  BY DEF VictimsInv, CandidatesOK, HaveVictims
<1>4. ChoiceInv /\ HaveVictims => BestCandidate
  BY ChosenIsBest
<1> QED
  BY <1>1, <1>2, <1>3, <1>4, VictimsAlways, PTL DEF Spec
-----------------------------------------------------------------------------
(* Scores.                                                                 *)

\* What division does.
LEMMA Division ==
    ASSUME NEW a \in Int, NEW b \in Int, b > 0
    PROVE  a \div b \in Int /\ (a \div b) * b <= a /\ a < (a \div b) * b + b
  OBVIOUS

\* The bounds of a quotient.
LEMMA DivisionIn ==
    ASSUME NEW a \in Int, NEW b \in Int, b > 0, NEW k \in Int, 0 <= a, a <= k * b
    PROVE  a \div b \in 0 .. k
<1> DEFINE q == a \div b
<1>1. q \in Int /\ q * b <= a /\ a < q * b + b
  BY Division
<1> HIDE DEF q
<1>2. ASSUME q <= -1 PROVE FALSE
  <2>1. q * b <= -b
    BY <1>1, <1>2
  <2> QED BY <1>1, <2>1
<1>3. ASSUME q >= k + 1 PROVE FALSE
  <2>1. q * b >= (k + 1) * b
    BY <1>1, <1>3
  <2> QED BY <1>1, <2>1
<1> QED
  BY <1>1, <1>2, <1>3 DEF q

\* A larger number has a larger quotient.
LEMMA DivisionMonotone ==
    ASSUME NEW a \in Int, NEW c \in Int, NEW b \in Int, b > 0, a <= c
    PROVE  a \div b <= c \div b
<1> DEFINE q == a \div b
           r == c \div b
<1>1. q \in Int /\ q * b <= a /\ a < q * b + b /\ r \in Int /\ r * b <= c /\ c < r * b + b
  BY Division
<1> HIDE DEF q, r
<1>2. ASSUME q >= r + 1 PROVE FALSE
  <2>1. q * b >= r * b + b
    BY <1>1, <1>2
  <2> QED BY <1>1, <2>1
<1> QED
  BY <1>1, <1>2 DEF q, r

\* SumFunction is a sum.
LEMMA SumFunctionIsSum ==
    ASSUME NEW S, IsFiniteSet(S), NEW f \in [S -> Int]
    PROVE  \E g : g \in [SUBSET S -> Int] /\ IsSum(g, f, S) /\ SumFunction(f) = g[S]
<1> DEFINE Rec(h) == [s \in SUBSET S |-> IF s = {} THEN 0 ELSE f[Pick(s)] + h[s \ {Pick(s)}]]
           iter == CHOOSE h : h = Rec(h)
<1>1. PICK g : g \in [SUBSET S -> Int] /\ SumRule(g, f, S) /\ IsSum(g, f, S)
  BY SumExists
<1>2. g = Rec(g)
  BY <1>1 DEF SumRule
<1>3. iter = Rec(iter)
  <2> HIDE DEF Rec
  <2> QED BY <1>2
<1>4. SumFunction(f) = iter[S]
  BY DEF SumFunction, SumFunctionOnSet, FoldFunctionOnSet, MapThenFoldSet, Pick
<1>5. \A s \in SUBSET S : iter[s] = IF s = {} THEN 0 ELSE f[Pick(s)] + iter[s \ {Pick(s)}]
  <2> HIDE DEF iter
  <2> QED BY <1>3
<1>6. \A s \in SUBSET S : g[s] = IF s = {} THEN 0 ELSE f[Pick(s)] + g[s \ {Pick(s)}]
  BY <1>1 DEF SumRule
<1> HIDE DEF iter
<1> DEFINE G == {s \in SUBSET S : iter[s] = g[s]}
<1>7. {} \in G
  BY <1>5, <1>6
<1>8. ASSUME NEW s \in SUBSET S, s # {} /\ Pick(s) \in s /\ s \ {Pick(s)} \in G PROVE s \in G
  <2>1. iter[s] = f[Pick(s)] + iter[s \ {Pick(s)}] /\ g[s] = f[Pick(s)] + g[s \ {Pick(s)}]
    BY <1>5, <1>6, <1>8
  <2> QED BY <1>8, <2>1
<1>9. SUBSET S \subseteq G
  <2> HIDE DEF G
  <2> QED BY <1>7, <1>8, SubsetInduction
<1> QED
  BY <1>1, <1>4, <1>9

\* It is a number.
LEMMA SumType ==
    ASSUME NEW S, IsFiniteSet(S), NEW f \in [S -> Int]
    PROVE  /\ SumFunction(f) \in Int
           /\ (\A x \in S : f[x] >= 0) => SumFunction(f) >= 0
<1>1. PICK g : g \in [SUBSET S -> Int] /\ IsSum(g, f, S) /\ SumFunction(f) = g[S]
  BY SumFunctionIsSum
<1>2. S \in SUBSET S
  OBVIOUS
<1>3. ASSUME \A x \in S : f[x] >= 0 PROVE g[S] >= 0
  BY <1>1, <1>2, <1>3, SumNonNegative
<1> QED
  BY <1>1, <1>2, <1>3

\* A weighted mean of scores is a score: the sum of the weighted scores is at most a
\* hundred times that of the weights, and that is positive.
LEMMA SumOfWeighted ==
    ASSUME NEW S, IsFiniteSet(S), NEW w \in [S -> Int], NEW f \in [S -> Int],
           \A x \in S : w[x] >= 1 /\ 0 <= f[x] /\ f[x] <= 100 * w[x]
    PROVE  /\ SumFunction(w) \in Int /\ SumFunction(f) \in Int
           /\ 0 <= SumFunction(f) /\ SumFunction(f) <= 100 * SumFunction(w)
           /\ S = {} => SumFunction(w) = 0
           /\ S # {} => SumFunction(w) >= 1
<1>1. PICK g : g \in [SUBSET S -> Int] /\ IsSum(g, f, S) /\ SumFunction(f) = g[S]
  BY SumFunctionIsSum
<1>2. PICK h : h \in [SUBSET S -> Int] /\ IsSum(h, w, S) /\ SumFunction(w) = h[S]
  BY SumFunctionIsSum
<1> DEFINE G == {s \in SUBSET S : 0 <= g[s] /\ g[s] <= 100 * h[s] /\ (s = {} => h[s] = 0) /\ (s # {} => h[s] >= 1)}
<1>3. {} \in G
  BY <1>1, <1>2 DEF IsSum
<1>4. ASSUME NEW s \in SUBSET S, s # {} /\ Pick(s) \in s /\ s \ {Pick(s)} \in G PROVE s \in G
  <2>1. g[s] = f[Pick(s)] + g[s \ {Pick(s)}] /\ h[s] = w[Pick(s)] + h[s \ {Pick(s)}]
    BY <1>1, <1>2, <1>4 DEF IsSum
  <2>2. /\ f[Pick(s)] \in Int /\ w[Pick(s)] \in Int /\ w[Pick(s)] >= 1
        /\ 0 <= f[Pick(s)] /\ f[Pick(s)] <= 100 * w[Pick(s)]
        /\ g[s \ {Pick(s)}] \in Int /\ h[s \ {Pick(s)}] \in Int
    BY <1>1, <1>2, <1>4
  <2>3. 0 <= g[s \ {Pick(s)}] /\ g[s \ {Pick(s)}] <= 100 * h[s \ {Pick(s)}] /\ h[s \ {Pick(s)}] >= 0
    BY <1>4, <2>2
  <2> QED BY <1>4, <2>1, <2>2, <2>3
<1>5. SUBSET S \subseteq G
  <2> HIDE DEF G
  <2> QED BY <1>3, <1>4, SubsetInduction
<1> QED
  BY <1>1, <1>2, <1>5

\* A sum of zeros.
LEMMA SumOfZeros ==
    ASSUME NEW S, IsFiniteSet(S), NEW f \in [S -> Int], \A x \in S : f[x] = 0
    PROVE  SumFunction(f) = 0
<1>1. PICK g : g \in [SUBSET S -> Int] /\ IsSum(g, f, S) /\ SumFunction(f) = g[S]
  BY SumFunctionIsSum
<1> DEFINE G == {s \in SUBSET S : g[s] = 0}
<1>2. {} \in G
  BY <1>1 DEF IsSum
<1>3. ASSUME NEW s \in SUBSET S, s # {} /\ Pick(s) \in s /\ s \ {Pick(s)} \in G PROVE s \in G
  <2>1. g[s] = f[Pick(s)] + g[s \ {Pick(s)}] /\ f[Pick(s)] = 0
    BY <1>1, <1>3 DEF IsSum
  <2> QED BY <1>3, <2>1
<1>4. SUBSET S \subseteq G
  <2> HIDE DEF G
  <2> QED BY <1>2, <1>3, SubsetInduction
<1> QED
  BY <1>1, <1>4

\* Nor is what the scores take a node to be asked for.
LEMMA WantedType ==
    ASSUME NEW p \in Pods, NEW pods \in SUBSET Pods, NEW r \in Resources
    PROVE  Wanted(p, NodeInfoOf(pods), r) \in Nat
<1>1. ASSUME NEW W, Amounts(W) PROVE Amount(W, pods, r) \in Nat
  <2>1. /\ AmountOf(W, r) \in [Pods -> Int] /\ \A q \in Pods : AmountOf(W, r)[q] >= 0
    BY <1>1 DEF Amounts, AmountOf
  <2>2. PICK g : g \in [SUBSET Pods -> Int] /\ SumRule(g, AmountOf(W, r), Pods) /\ IsSum(g, AmountOf(W, r), Pods)
    BY <2>1, PodsAssumption, SumExists
  <2>3. g[pods] >= 0
    BY <2>1, <2>2, PodsAssumption, SumNonNegative
  <2>4. Amount(W, pods, r) = g[pods]
    BY <2>2, AmountIsSum
  <2> QED BY <2>2, <2>3, <2>4
<1>2. Amounts(PodRequest) /\ Amounts(NonZeroRequest)
  BY AmountsAssumption DEF Amounts
<1>3. Amount(PodRequest, pods, r) \in Nat /\ Amount(NonZeroRequest, pods, r) \in Nat
  BY <1>1, <1>2
<1>4. /\ NodeInfoOf(pods).requested[r] = Amount(PodRequest, pods, r)
      /\ NodeInfoOf(pods).nonZero[r] = Amount(NonZeroRequest, pods, r)
  BY DEF NodeInfoOf, Amount
<1>5. NonZeroRequest[p][r] \in Nat
  BY AmountsAssumption
<1> QED
  BY <1>3, <1>4, <1>5 DEF Wanted

\* Scores are numbers from 0 to 100.
IsScore(x) == x \in 0 .. MaxNodeScore

\* The mean of scores.
LEMMA MeanIsScore ==
    ASSUME NEW score, \A r \in DOMAIN Weights : IsScore(score[r])
    PROVE  IsScore(WeightedMean(score))
<1> DEFINE S == DOMAIN Weights
           f == [r \in S |-> Weights[r] * score[r]]
<1>1. IsFiniteSet(S) /\ S # {} /\ \A r \in S : Weights[r] \in Int /\ Weights[r] >= 1
  BY ScorersAssumption
<1>2. Weights \in [S -> Int]
  BY ScorersAssumption
<1>3. ASSUME NEW r \in S PROVE f[r] \in Int /\ 0 <= f[r] /\ f[r] <= 100 * Weights[r]
  <2>1. score[r] \in Int /\ 0 <= score[r] /\ score[r] <= 100 /\ Weights[r] \in Int /\ Weights[r] >= 1
    BY <1>1 DEF IsScore, MaxNodeScore
  <2>2. f[r] = Weights[r] * score[r]
    OBVIOUS
  <2> HIDE DEF f
  <2> QED BY <2>1, <2>2
<1>4. f \in [S -> Int]
  BY <1>3
<1>5. WeightedMean(score) = SumFunction(f) \div SumFunction(Weights)
  BY DEF WeightedMean
<1> HIDE DEF f, S
<1>6. /\ SumFunction(Weights) \in Int /\ SumFunction(f) \in Int /\ SumFunction(Weights) >= 1
      /\ 0 <= SumFunction(f) /\ SumFunction(f) <= 100 * SumFunction(Weights)
  BY <1>1, <1>2, <1>3, <1>4, SumOfWeighted
<1> QED
  BY <1>5, <1>6, DivisionIn DEF IsScore, MaxNodeScore

\* LeastAllocated and MostAllocated.
LEMMA AllocationIsScore ==
    ASSUME NEW p \in Pods, NEW n \in Nodes, NEW pods \in SUBSET Pods
    PROVE  /\ IsScore(leastResourceScorer(p, n, NodeInfoOf(pods)))
           /\ IsScore(mostResourceScorer(p, n, NodeInfoOf(pods)))
<1> DEFINE W(r) == Wanted(p, NodeInfoOf(pods), r)
<1>1. ASSUME NEW w \in Nat, NEW c \in Nat
      PROVE  IsScore(leastRequestedScore(w, c)) /\ IsScore(mostRequestedScore(w, c))
  <2>1. CASE c = 0 \/ w > c
    BY <2>1 DEF leastRequestedScore, mostRequestedScore, IsScore, MaxNodeScore
  <2>2. CASE ~(c = 0 \/ w > c)
    <3>1. /\ (c - w) * 100 \in Int /\ 0 <= (c - w) * 100 /\ (c - w) * 100 <= 100 * c
          /\ w * 100 \in Int /\ 0 <= w * 100 /\ w * 100 <= 100 * c /\ c > 0
      BY <2>2
    <3>2. ((c - w) * 100) \div c \in 0 .. 100 /\ (w * 100) \div c \in 0 .. 100
      BY <3>1, DivisionIn
    <3> QED BY <2>2, <3>2 DEF leastRequestedScore, mostRequestedScore, IsScore, MaxNodeScore
  <2> QED BY <2>1, <2>2
<1>2. ASSUME NEW r \in DOMAIN Weights PROVE W(r) \in Nat /\ Alloc[n][r] \in Nat
  <2>1. r \in Resources
    BY ScorersAssumption
  <2> QED BY <2>1, WantedType, AmountsAssumption
<1> DEFINE least == [r \in DOMAIN Weights |-> leastRequestedScore(W(r), Alloc[n][r])]
           most == [r \in DOMAIN Weights |-> mostRequestedScore(W(r), Alloc[n][r])]
<1>3. \A r \in DOMAIN Weights : IsScore(least[r]) /\ IsScore(most[r])
  BY <1>1, <1>2
<1>4. /\ leastResourceScorer(p, n, NodeInfoOf(pods)) = WeightedMean(least)
      /\ mostResourceScorer(p, n, NodeInfoOf(pods)) = WeightedMean(most)
  BY DEF leastResourceScorer, mostResourceScorer
<1> HIDE DEF least, most
<1> QED
  BY <1>3, <1>4, MeanIsScore

\* BalancedAllocation.
LEMMA BalancedIsScore ==
    ASSUME NEW p \in Pods, NEW n \in Nodes, NEW pods \in SUBSET Pods
    PROVE  IsScore(balancedResourceScorer(p, n, NodeInfoOf(pods)))
<1> DEFINE cpu == Wanted(p, NodeInfoOf(pods), "cpu")
           memory == Wanted(p, NodeInfoOf(pods), "memory")
           cpuCap == Alloc[n]["cpu"]
           memCap == Alloc[n]["memory"]
           diff == IF cpu * memCap > memory * cpuCap THEN cpu * memCap - memory * cpuCap
                   ELSE memory * cpuCap - cpu * memCap
           all == cpuCap * memCap
           score == IF cpuCap = 0 \/ memCap = 0 \/ cpu >= cpuCap \/ memory >= memCap THEN 0
                    ELSE (100 * (all - diff)) \div all
<1>1. cpu \in Nat /\ memory \in Nat /\ cpuCap \in Nat /\ memCap \in Nat
  <2>1. "cpu" \in Resources /\ "memory" \in Resources
    BY ScorersAssumption DEF Resources
  <2> QED BY <2>1, WantedType, AmountsAssumption
<1>2. balancedResourceScorer(p, n, NodeInfoOf(pods)) = score
  BY DEF balancedResourceScorer, MaxNodeScore
<1> HIDE DEF cpu, memory, cpuCap, memCap
<1>3. CASE cpuCap = 0 \/ memCap = 0 \/ cpu >= cpuCap \/ memory >= memCap
  BY <1>2, <1>3 DEF IsScore, MaxNodeScore
<1>4. CASE ~(cpuCap = 0 \/ memCap = 0 \/ cpu >= cpuCap \/ memory >= memCap)
  <2>1. cpuCap > 0 /\ memCap > 0 /\ cpu < cpuCap /\ memory < memCap
    BY <1>1, <1>4
  <2>2. /\ all \in Int /\ all > 0 /\ cpu * memCap \in Int /\ memory * cpuCap \in Int
        /\ 0 <= cpu * memCap /\ 0 <= memory * cpuCap /\ cpu * memCap <= all /\ memory * cpuCap <= all
    BY <1>1, <2>1
  <2>3. diff \in Int /\ 0 <= diff /\ diff <= all
    BY <2>2
  <2> HIDE DEF diff, all
  <2>4. 100 * (all - diff) \in Int /\ 0 <= 100 * (all - diff) /\ 100 * (all - diff) <= 100 * all
    BY <2>2, <2>3
  <2>5. (100 * (all - diff)) \div all \in 0 .. 100
    BY <2>2, <2>4, DivisionIn
  <2>6. score = (100 * (all - diff)) \div all
    BY <1>4
  <2> HIDE DEF score
  <2> QED BY <1>2, <2>5, <2>6 DEF IsScore, MaxNodeScore
<1> QED
  BY <1>3, <1>4

\* The line between two points stays between their scores.
LEMMA LineIsBetween ==
    ASSUME NEW s \in 0 .. 100, NEW t \in 0 .. 100, NEW w \in Int, NEW d \in Int, 0 <= w, w <= d, d > 0
    PROVE  s + Quotient((t - s) * w, d) \in 0 .. 100
<1>1. CASE t >= s
  <2>1. (t - s) * w \in Int /\ 0 <= (t - s) * w /\ (t - s) * w <= (t - s) * d
    BY <1>1
  <2>2. ((t - s) * w) \div d \in 0 .. t - s
    BY <1>1, <2>1, DivisionIn
  <2>3. Quotient((t - s) * w, d) = ((t - s) * w) \div d
    BY <2>1 DEF Quotient
  <2> QED BY <1>1, <2>2, <2>3
<1>2. CASE t < s
  <2>1. /\ (s - t) * w \in Int /\ 0 <= (s - t) * w /\ (s - t) * w <= (s - t) * d
        /\ (t - s) * w = -((s - t) * w)
    BY <1>2
  <2>2. ((s - t) * w) \div d \in 0 .. s - t
    BY <1>2, <2>1, DivisionIn
  <2> DEFINE x == (s - t) * w
  <2> HIDE DEF x
  <2>3. Quotient(-x, d) = -(x \div d)
    <3>1. x \in Int /\ 0 <= x
      BY <2>1 DEF x
    <3>2. CASE x = 0
      <4>1. 0 \div d = 0
        BY Division
      <4>2. Quotient(-x, d) = (-x) \div d
        BY <3>1, <3>2 DEF Quotient
      <4> QED BY <3>2, <4>1, <4>2
    <3>3. CASE x # 0
      <4>1. -x < 0 /\ -(-x) = x
        BY <3>1, <3>3
      <4> QED BY <4>1 DEF Quotient
    <3> QED BY <3>2, <3>3
  <2>4. Quotient((t - s) * w, d) = -(((s - t) * w) \div d)
    BY <2>1, <2>3 DEF x
  <2> QED BY <1>2, <2>2, <2>4
<1> QED
  BY <1>1, <1>2

\* The broken line.
LEMMA BrokenLinearIsScore ==
    ASSUME NEW u \in 0 .. 100
    PROVE  IsScore(BrokenLinear(u))
<1> DEFINE I == {k \in 1 .. Len(Shape) : u <= Shape[k].utilization}
           i == SelectInSeq(Shape, LAMBDA point : u <= point.utilization)
<1>1. i = IF I # {} THEN Min(I) ELSE 0
  BY DEF SelectInSeq
<1>2. Len(Shape) \in Nat /\ Len(Shape) >= 1
  BY ScorersAssumption
<1>3. \A k \in 1 .. Len(Shape) : /\ Shape[k].utilization \in 0 .. 100 /\ Shape[k].score \in 0 .. 100
                                 /\ \A m \in 1 .. Len(Shape) : k < m => Shape[k].utilization < Shape[m].utilization
  BY ScorersAssumption DEF MaxNodeScore
<1>4. CASE I = {}
  <2>1. BrokenLinear(u) = Shape[Len(Shape)].score
    BY <1>1, <1>4 DEF BrokenLinear
  <2> QED BY <1>2, <1>3, <2>1 DEF IsScore, MaxNodeScore
<1>5. CASE I # {}
  <2>1. IsFiniteSet(I) /\ I \subseteq Int
    <3>1. IsFiniteSet(1 .. Len(Shape))
      <4>1. 1 \in Int /\ Len(Shape) \in Int
        BY <1>2
      <4> QED BY <4>1, FS_Interval
    <3> QED BY <3>1, FS_Subset
  <2>2. Min(I) \in I /\ \A m \in I : Min(I) <= m
    <3> HIDE DEF I
    <3> QED BY <1>5, <2>1, MinMax
  <2>3. i \in I /\ \A m \in I : i <= m
    <3> HIDE DEF I, i
    <3> QED BY <1>1, <1>5, <2>2
  <2>4. i \in 1 .. Len(Shape) /\ u <= Shape[i].utilization
    <3> HIDE DEF i
    <3> QED BY <2>3
  <2>5. CASE i = 1
    <3>1. BrokenLinear(u) = Shape[1].score
      BY <2>5 DEF BrokenLinear
    <3> QED BY <1>2, <1>3, <3>1 DEF IsScore, MaxNodeScore
  <2>6. CASE i # 1
    <3>1. i - 1 \in 1 .. Len(Shape) /\ i - 1 < i /\ i # 0
      <4> HIDE DEF i
      <4> QED BY <1>2, <2>4, <2>6
    <3>2. ~(u <= Shape[i - 1].utilization)
      <4> HIDE DEF i
      <4> QED BY <2>3, <2>4, <3>1
    <3> DEFINE s == Shape[i - 1].score
               t == Shape[i].score
               v == Shape[i - 1].utilization
               x == Shape[i].utilization
    <3>3. s \in 0 .. 100 /\ t \in 0 .. 100 /\ v \in 0 .. 100 /\ x \in 0 .. 100 /\ u <= x /\ ~(u <= v)
      <4> HIDE DEF i
      <4> QED BY <1>3, <2>4, <3>1, <3>2
    <3>4. BrokenLinear(u) = s + Quotient((t - s) * (u - v), x - v)
      BY <2>6, <3>1 DEF BrokenLinear
    <3> HIDE DEF s, t, v, x, i
    <3>5. u - v \in Int /\ x - v \in Int /\ 0 <= u - v /\ u - v <= x - v /\ x - v > 0
      BY <3>3
    <3>6. s + Quotient((t - s) * (u - v), x - v) \in 0 .. 100
      BY <3>3, <3>5, LineIsBetween
    <3> QED BY <3>4, <3>6 DEF IsScore, MaxNodeScore
  <2> QED BY <2>5, <2>6
<1> QED
  BY <1>4, <1>5

\* RequestedToCapacityRatio.
LEMMA RatioIsScore ==
    ASSUME NEW p \in Pods, NEW n \in Nodes, NEW pods \in SUBSET Pods
    PROVE  IsScore(RequestedToCapacityRatio(p, n, NodeInfoOf(pods)))
<1> DEFINE Used(r) == IF Alloc[n][r] = 0 \/ Wanted(p, NodeInfoOf(pods), r) > Alloc[n][r] THEN 100
                      ELSE 100 - ((Alloc[n][r] - Wanted(p, NodeInfoOf(pods), r)) * 100) \div Alloc[n][r]
           Score_(r) == BrokenLinear(Used(r))
           scored == {r \in DOMAIN Weights : Score_(r) > 0}
           w == [r \in scored |-> Weights[r]]
           f == [r \in scored |-> Weights[r] * Score_(r)]
           weight == SumFunction(w)
           sum == SumFunction(f)
<1>1. RequestedToCapacityRatio(p, n, NodeInfoOf(pods))
        = IF weight = 0 THEN 0 ELSE (2 * sum + weight) \div (2 * weight)
  BY DEF RequestedToCapacityRatio
<1>2. ASSUME NEW r \in DOMAIN Weights PROVE Used(r) \in 0 .. 100
  <2> DEFINE c == Alloc[n][r]
             x == Wanted(p, NodeInfoOf(pods), r)
  <2>1. c \in Nat /\ x \in Nat
    <3>1. r \in Resources
      BY ScorersAssumption
    <3> QED BY <3>1, WantedType, AmountsAssumption
  <2> HIDE DEF c, x
  <2>2. CASE ~(c = 0 \/ x > c)
    <3>1. (c - x) * 100 \in Int /\ 0 <= (c - x) * 100 /\ (c - x) * 100 <= 100 * c /\ c > 0
      BY <2>1, <2>2
    <3>2. ((c - x) * 100) \div c \in 0 .. 100
      BY <2>1, <3>1, DivisionIn
    <3>3. 100 - ((c - x) * 100) \div c \in 0 .. 100
      BY <3>2
    <3> QED BY <2>2, <3>3 DEF c, x
  <2> QED BY <2>2 DEF c, x
<1> HIDE DEF Used
<1>3. \A r \in DOMAIN Weights : IsScore(Score_(r))
  BY <1>2, BrokenLinearIsScore
<1> HIDE DEF Score_
<1>4. IsFiniteSet(scored)
  <2>1. IsFiniteSet(DOMAIN Weights)
    BY ScorersAssumption
  <2> QED BY <2>1, FS_Subset
<1>5. ASSUME NEW r \in scored
      PROVE  /\ w[r] \in Int /\ f[r] \in Int /\ w[r] >= 1 /\ 0 <= f[r] /\ f[r] <= 100 * w[r]
  <2>1. Weights[r] \in Int /\ Weights[r] >= 1 /\ Score_(r) \in Int /\ 0 <= Score_(r) /\ Score_(r) <= 100
    <3>1. r \in DOMAIN Weights
      OBVIOUS
    <3>2. Weights[r] \in Nat \ {0}
      BY <3>1, ScorersAssumption
    <3>3. Score_(r) \in 0 .. 100
      BY <1>3, <3>1 DEF IsScore, MaxNodeScore
    <3> QED BY <3>2, <3>3
  <2>2. w[r] = Weights[r] /\ f[r] = Weights[r] * Score_(r)
    OBVIOUS
  <2> HIDE DEF w, f
  <2> QED BY <2>1, <2>2
<1>6. w \in [scored -> Int] /\ f \in [scored -> Int]
  BY <1>5
<1> HIDE DEF w, f, scored
<1>7. /\ weight \in Int /\ sum \in Int /\ 0 <= sum /\ sum <= 100 * weight
      /\ weight = 0 \/ weight >= 1
  BY <1>4, <1>5, <1>6, SumOfWeighted
<1> HIDE DEF weight, sum
<1>8. CASE weight = 0
  BY <1>1, <1>8 DEF IsScore, MaxNodeScore
<1>9. CASE weight >= 1
  <2> DEFINE a == 2 * sum + weight
             b == 2 * weight
             q == a \div b
  <2>1. a \in Int /\ b \in Int /\ b > 0 /\ 0 <= a /\ 2 * a <= 201 * b
    BY <1>7, <1>9
  <2>2. q \in Int /\ q * b <= a /\ a < q * b + b
    <3> HIDE DEF a, b
    <3> QED BY <2>1, Division
  <2>3. weight # 0
    BY <1>7, <1>9
  <2>4. RequestedToCapacityRatio(p, n, NodeInfoOf(pods)) = q
    BY <1>1, <2>3
  <2> HIDE DEF a, b, q
  <2>5. ASSUME q <= -1 PROVE FALSE
    <3>1. q * b <= -b
      BY <2>1, <2>2, <2>5
    <3> QED BY <2>1, <2>2, <3>1
  <2>6. ASSUME q >= 101 PROVE FALSE
    <3>1. q * b >= 101 * b
      BY <2>1, <2>2, <2>6
    <3> QED BY <2>1, <2>2, <3>1
  <2> QED BY <2>2, <2>4, <2>5, <2>6 DEF IsScore, MaxNodeScore
<1> QED
  BY <1>7, <1>8, <1>9

\* ImageLocality.
LEMMA ImageIsScore ==
    ASSUME NEW p \in Pods, NEW n \in Nodes
    PROVE  IsScore(ImageScore(p, n))
<1> DEFINE Spread(i) == Cardinality({m \in Nodes : i \in NodeSpec[m].images})
           Scaled(i) == IF i \in NodeSpec[n].images THEN (ImageSizes[i] * Spread(i)) \div Cardinality(Nodes) ELSE 0
           images == PodSpec[p].images
           f == [k \in DOMAIN images |-> Scaled(images[k])]
           sum == SumFunction(f)
           top == MaxContainerThreshold * Len(images)
           cut == IF sum < MinThreshold THEN MinThreshold ELSE IF sum > top THEN top ELSE sum
<1>1. ImageScore(p, n) = Quotient(MaxNodeScore * (cut - MinThreshold), top - MinThreshold)
  BY DEF ImageScore
<1>2. /\ MinThreshold \in Nat /\ MaxContainerThreshold \in Nat /\ MinThreshold < MaxContainerThreshold
      /\ Len(images) \in Nat /\ Len(images) >= 1 /\ DOMAIN images = 1 .. Len(images)
      /\ \A k \in DOMAIN images : ImageSizes[images[k]] \in Nat
  BY ImagesAssumption DEF Range
<1>3. Cardinality(Nodes) \in Int /\ Cardinality(Nodes) > 0
  <2>1. IsFiniteSet(Nodes) /\ Nodes # {}
    BY LabelsAssumption
  <2>2. Cardinality(Nodes) \in Nat /\ Cardinality(Nodes) # 0
    BY <2>1, FS_CardinalityType, FS_EmptySet
  <2> QED BY <2>2
<1>4. ASSUME NEW k \in DOMAIN images PROVE f[k] \in Int
  <2>1. Spread(images[k]) \in Nat
    <3>1. IsFiniteSet({m \in Nodes : images[k] \in NodeSpec[m].images})
      BY LabelsAssumption, FS_Subset
    <3> QED BY <3>1, FS_CardinalityType
  <2>2. ImageSizes[images[k]] * Spread(images[k]) \in Int
    <3> HIDE DEF Spread, images
    <3> QED BY <1>2, <2>1
  <2>3. f[k] = IF images[k] \in NodeSpec[n].images
               THEN (ImageSizes[images[k]] * Spread(images[k])) \div Cardinality(Nodes) ELSE 0
    OBVIOUS
  <2> HIDE DEF Spread, images, f
  <2>4. (ImageSizes[images[k]] * Spread(images[k])) \div Cardinality(Nodes) \in Int
    BY <1>3, <2>2, Division
  <2> QED BY <2>3, <2>4
<1>5. IsFiniteSet(DOMAIN images)
  <2>1. 1 \in Int /\ Len(images) \in Int
    BY <1>2
  <2> QED BY <1>2, <2>1, FS_Interval
<1>6. sum \in Int
  <2>1. f \in [DOMAIN images -> Int]
    BY <1>4
  <2> HIDE DEF f
  <2> QED BY <1>5, <2>1, SumType
<1> HIDE DEF sum, images, f
<1>7. top \in Int /\ top >= MaxContainerThreshold
  BY <1>2
<1> HIDE DEF top
<1>8. cut \in Int /\ MinThreshold <= cut /\ cut <= top /\ top - MinThreshold > 0
  BY <1>2, <1>6, <1>7
<1> HIDE DEF cut
<1>9. /\ 100 * (cut - MinThreshold) \in Int /\ 0 <= 100 * (cut - MinThreshold)
      /\ 100 * (cut - MinThreshold) <= 100 * (top - MinThreshold) /\ top - MinThreshold \in Int
  BY <1>2, <1>7, <1>8
<1>10. (100 * (cut - MinThreshold)) \div (top - MinThreshold) \in 0 .. 100
  BY <1>8, <1>9, DivisionIn
<1> QED
  BY <1>1, <1>9, <1>10 DEF IsScore, MaxNodeScore, Quotient

\* The values of a function on a finite set.
LEMMA ImageFinite ==
    ASSUME NEW F, IsFiniteSet(F), NEW f, F \subseteq DOMAIN f
    PROVE  IsFiniteSet({f[x] : x \in F}) /\ Cardinality({f[x] : x \in F}) <= Cardinality(F)
<1> DEFINE g == [x \in F |-> f[x]]
           T == {f[x] : x \in F}
<1>1. g \in Surjection(F, T)
  BY DEF Surjection
<1> HIDE DEF g, T
<1>2. IsFiniteSet(T) /\ Cardinality(T) <= Cardinality(F)
  BY <1>1, FS_Surjection
<1> QED
  BY <1>2 DEF T

\* The numbers of some nodes, and zero.
WithZero(f, F) == {f[n] : n \in F} \cup {0}

\* The greatest and the least of them.
LEMMA MaxWithZero ==
    ASSUME NEW F \in SUBSET Nodes, NEW f, F \subseteq DOMAIN f, \A n \in F : f[n] \in Int
    PROVE  /\ Max(WithZero(f, F)) \in Int /\ 0 <= Max(WithZero(f, F))
           /\ Min(WithZero(f, F)) \in Int /\ Min(WithZero(f, F)) <= 0
           /\ \A n \in F : Min(WithZero(f, F)) <= f[n] /\ f[n] <= Max(WithZero(f, F))
<1> DEFINE S == WithZero(f, F)
<1>1. IsFiniteSet(F)
  BY LabelsAssumption, FS_Subset
<1>2. IsFiniteSet(S)
  <2>1. IsFiniteSet({f[n] : n \in F})
    BY <1>1, ImageFinite
  <2> QED BY <2>1, FS_AddElement DEF WithZero
<1>3. S \subseteq Int /\ 0 \in S /\ \A n \in F : f[n] \in S
  BY DEF WithZero
<1> HIDE DEF S
<1>4. Max(S) \in S /\ Min(S) \in S /\ \A m \in S : Max(S) >= m /\ Min(S) <= m
  BY <1>2, <1>3, MinMax
<1>5. Max(S) \in Int /\ Min(S) \in Int /\ Max(S) >= 0 /\ Min(S) <= 0
      /\ \A n \in F : f[n] <= Max(S) /\ Min(S) <= f[n]
  BY <1>3, <1>4
<1> QED
  BY <1>5 DEF S

\* DefaultNormalizeScore.
LEMMA NormalizedIsScore ==
    ASSUME NEW F \in SUBSET Nodes, NEW f, DOMAIN f = F, \A n \in F : f[n] \in Nat, NEW reverse \in BOOLEAN,
           NEW n \in F
    PROVE  IsScore(DefaultNormalizeScore(f, reverse)[n])
<1> DEFINE most == Max({f[m] : m \in DOMAIN f} \cup {0})
           part == (100 * f[n]) \div most
<1>1. most \in Int /\ 0 <= most /\ f[n] \in Int /\ 0 <= f[n] /\ f[n] <= most
  <2>1. \A m \in F : f[m] \in Int
    OBVIOUS
  <2>2. Max(WithZero(f, F)) = most
    BY DEF WithZero
  <2> HIDE DEF most
  <2> QED BY <2>1, <2>2, MaxWithZero
<1>2. DefaultNormalizeScore(f, reverse)[n]
        = IF most = 0 THEN IF reverse THEN 100 ELSE f[n] ELSE IF reverse THEN 100 - part ELSE part
  BY DEF DefaultNormalizeScore, MaxNodeScore
<1>3. ASSUME most # 0 PROVE part \in 0 .. 100
  <2> DEFINE x == 100 * f[n]
  <2> HIDE DEF most
  <2>1. x \in Int /\ 0 <= x /\ x <= 100 * most /\ most > 0
    BY <1>1, <1>3
  <2> HIDE DEF x
  <2>2. x \div most \in 0 .. 100
    BY <1>1, <2>1, DivisionIn
  <2> QED BY <2>2 DEF x
<1> HIDE DEF most, part
<1>4. most = 0 => f[n] = 0
  BY <1>1
<1> QED
  BY <1>2, <1>3, <1>4 DEF IsScore, MaxNodeScore

\* The number of pods a selector matches.
LEMMA SelectedType ==
    ASSUME NEW pods \in SUBSET Pods, NEW selector, NEW ns
    PROVE  CountPodsMatchSelector(pods, selector, ns) \in Nat
<1>1. CountPodsMatchSelector(pods, selector, ns)
        = Cardinality({q \in pods : ~PodSpec[q].terminating /\ PodSpec[q].ns = ns /\ Matches(selector, q)})
  BY DEF CountPodsMatchSelector, Quantify
<1>2. IsFiniteSet(pods)
  BY PodsAssumption, FS_Subset
<1>3. Cardinality({q \in pods : ~PodSpec[q].terminating /\ PodSpec[q].ns = ns /\ Matches(selector, q)}) \in Nat
  BY <1>2, FS_CardinalityType, FS_Subset
<1> QED
  BY <1>1, <1>3

\* SelectorSpread.
LEMMA SelectorIsScore ==
    ASSUME NEW p \in Pods, NEW a, NEW F \in SUBSET Nodes, NEW n \in F
    PROVE  IsScore(SelectorSpreadNormalized(p, a, F)[n])
<1> DEFINE count == [m \in F |-> SelectorSpreadCount(p, a, m)]
           S == {count[m] : m \in F}
           most == Max(S)
           part == (100 * (most - count[n])) \div most
<1>1. \A m \in F : count[m] \in Nat
  <2>1. ASSUME NEW m \in F PROVE SelectorSpreadCount(p, a, m) \in Nat
    <3>1. PodsOn(a, m) \in SUBSET Pods
      BY DEF PodsOn
    <3>2. CountPodsMatchSelector(PodsOn(a, m), DefaultSelector(p), PodSpec[p].ns) \in Nat
      BY <3>1, SelectedType
    <3> QED BY <3>2 DEF SelectorSpreadCount
  <2> QED BY <2>1
<1>2. most \in Nat /\ count[n] \in Nat /\ count[n] <= most
  <2>1. IsFiniteSet(F)
    BY LabelsAssumption, FS_Subset
  <2>2. IsFiniteSet(S)
    <3>1. F \subseteq DOMAIN count
      OBVIOUS
    <3> HIDE DEF count
    <3> QED BY <2>1, <3>1, ImageFinite
  <2>3. S \subseteq Nat /\ count[n] \in S
    <3> HIDE DEF count
    <3> QED BY <1>1
  <2> HIDE DEF S, count
  <2>4. S \subseteq Int /\ S # {}
    BY <2>3
  <2>5. Max(S) \in S /\ \A m \in S : Max(S) >= m
    BY <2>2, <2>4, MinMax
  <2> QED BY <2>3, <2>5
<1>3. SelectorSpreadNormalized(p, a, F)[n]
        = IF PodSpec[p].constraints # <<>> THEN 0 ELSE IF most = 0 THEN 100 ELSE part
  BY DEF SelectorSpreadNormalized, MaxNodeScore
<1>4. ASSUME most # 0 PROVE part \in 0 .. 100
  <2> DEFINE x == 100 * (most - count[n])
  <2> HIDE DEF most, count
  <2>1. most \in Int /\ most > 0 /\ x \in Int /\ 0 <= x /\ x <= 100 * most
    BY <1>2, <1>4
  <2> HIDE DEF x
  <2>2. x \div most \in 0 .. 100
    BY <2>1, DivisionIn
  <2> QED BY <2>2 DEF x
<1> HIDE DEF most, count, part
<1> QED
  BY <1>3, <1>4 DEF IsScore, MaxNodeScore

\* What terms add to a pair is a number, and nothing when no term matches.
LEMMA TermsScoreType ==
    ASSUME NEW terms, IsFiniteSet(terms), \A t \in terms : t.weight \in Int, NEW q, NEW n, NEW pair
    PROVE  /\ TermsScore(terms, q, n, pair) \in Int
           /\ (\A t \in terms : ~ (PodMatchesTerm(q, t) /\ HasKey(n, t.key)))
                 => TermsScore(terms, q, n, pair) = 0
<1> DEFINE hits == {t \in terms : PodMatchesTerm(q, t) /\ HasKey(n, t.key) /\ PairOf(n, t.key) = pair}
           f == [t \in hits |-> t.weight]
<1>1. TermsScore(terms, q, n, pair) = SumFunction(f)
  BY DEF TermsScore
<1>2. IsFiniteSet(hits)
  BY FS_Subset
<1>3. f \in [hits -> Int]
  OBVIOUS
<1>4. (\A t \in terms : ~ (PodMatchesTerm(q, t) /\ HasKey(n, t.key))) => hits = {}
  OBVIOUS
<1> HIDE DEF hits, f
<1>5. SumFunction(f) \in Int
  BY <1>2, <1>3, SumType
<1>6. hits = {} => SumFunction(f) = 0
  BY <1>2, <1>3, SumOfZeros
<1> QED
  BY <1>1, <1>4, <1>5, <1>6

\* The hard terms of a pod, weighed.
LEMMA HardTermsType ==
    ASSUME NEW q \in Pods
    PROVE  IsFiniteSet(HardTerms(q)) /\ \A t \in HardTerms(q) : t.weight \in Int
<1> DEFINE T == PodSpec[q].affinity
           f == [t \in T |-> [key |-> t.key, namespaces |-> t.namespaces, selector |-> t.selector,
                              weight |-> HardPodAffinityWeight]]
<1>1. IsFiniteSet(T)
  BY TermsAssumption
<1>2. T \subseteq DOMAIN f
  OBVIOUS
<1>3. HardTerms(q) = {} \/ HardTerms(q) = {f[t] : t \in T}
  BY DEF HardTerms
<1>4. \A t \in T : f[t].weight \in Int
  BY WeightsAssumption
<1> HIDE DEF T, f
<1>5. IsFiniteSet({f[t] : t \in T})
  BY <1>1, <1>2, ImageFinite
<1> QED
  BY <1>3, <1>4, <1>5, FS_EmptySet

\* The same for what two pods add to a pair.
LEMMA ExistingType ==
    ASSUME NEW p \in Pods, NEW q \in Pods, NEW n, NEW pair
    PROVE  /\ processExistingPod(q, p, n, pair) \in Int
           /\ ~TermMatched(q, p, n) => processExistingPod(q, p, n, pair) = 0
<1>1. /\ IsFiniteSet(PodSpec[p].prefers) /\ \A t \in PodSpec[p].prefers : t.weight \in Int
      /\ IsFiniteSet(PodSpec[p].avoids) /\ \A t \in PodSpec[p].avoids : t.weight \in Int
      /\ IsFiniteSet(PodSpec[q].prefers) /\ \A t \in PodSpec[q].prefers : t.weight \in Int
      /\ IsFiniteSet(PodSpec[q].avoids) /\ \A t \in PodSpec[q].avoids : t.weight \in Int
  BY WeightsAssumption
<1> DEFINE a == TermsScore(PodSpec[p].prefers, q, n, pair)
           b == TermsScore(PodSpec[p].avoids, q, n, pair)
           c == TermsScore(HardTerms(q), p, n, pair)
           d == TermsScore(PodSpec[q].prefers, p, n, pair)
           e == TermsScore(PodSpec[q].avoids, p, n, pair)
<1>2. a \in Int /\ b \in Int /\ c \in Int /\ d \in Int /\ e \in Int
  BY <1>1, HardTermsType, TermsScoreType
<1>3. ASSUME ~TermMatched(q, p, n) PROVE a = 0 /\ b = 0 /\ c = 0 /\ d = 0 /\ e = 0
  <2>1. /\ \A t \in PodSpec[p].prefers : ~ (PodMatchesTerm(q, t) /\ HasKey(n, t.key))
        /\ \A t \in PodSpec[p].avoids : ~ (PodMatchesTerm(q, t) /\ HasKey(n, t.key))
        /\ \A t \in HardTerms(q) : ~ (PodMatchesTerm(p, t) /\ HasKey(n, t.key))
        /\ \A t \in PodSpec[q].prefers : ~ (PodMatchesTerm(p, t) /\ HasKey(n, t.key))
        /\ \A t \in PodSpec[q].avoids : ~ (PodMatchesTerm(p, t) /\ HasKey(n, t.key))
    BY <1>3 DEF TermMatched
  <2> QED BY <1>1, <2>1, HardTermsType, TermsScoreType
<1>4. processExistingPod(q, p, n, pair) = a - b + c + d - e
  BY DEF processExistingPod
<1> HIDE DEF a, b, c, d, e
<1> QED
  BY <1>2, <1>3, <1>4

\* The score of a node before it is normalized.
LEMMA AffinityScoreType ==
    ASSUME NEW p \in Pods, NEW a, NEW n \in Nodes
    PROVE  /\ AffinityScore(p, a, n) \in Int
           /\ (\A q \in PodsToProcess(p, a) : ~TermMatched(q, p, a[q])) => AffinityScore(p, a, n) = 0
<1> DEFINE P == PodsToProcess(p, a)
           of(pair) == [q \in P |-> processExistingPod(q, p, a[q], pair)]
           f == [pair \in PairsOf(n) |-> SumFunction(of(pair))]
           quiet == \A q \in P : ~TermMatched(q, p, a[q])
<1>1. AffinityScore(p, a, n) = SumFunction(f)
  BY DEF AffinityScore
<1>2. P \in SUBSET Pods /\ IsFiniteSet(P)
  <2>1. P \in SUBSET Pods
    BY DEF PodsToProcess
  <2> HIDE DEF P
  <2> QED BY <2>1, PodsAssumption, FS_Subset
<1>3. IsFiniteSet(PairsOf(n))
  <2> DEFINE D == DOMAIN Labels[n]
             g == [key \in D |-> PairOf(n, key)]
  <2>1. IsFiniteSet(D)
    BY WeightsAssumption
  <2>2. D \subseteq DOMAIN g /\ PairsOf(n) = {g[key] : key \in D}
    BY DEF PairsOf
  <2> HIDE DEF D, g
  <2>3. IsFiniteSet({g[key] : key \in D})
    BY <2>1, <2>2, ImageFinite
  <2> QED BY <2>2, <2>3
<1>4. ASSUME NEW pair PROVE SumFunction(of(pair)) \in Int /\ (quiet => SumFunction(of(pair)) = 0)
  <2> DEFINE h == of(pair)
  <2>1. \A q \in P : h[q] \in Int /\ (quiet => h[q] = 0)
    <3>1. ASSUME NEW q \in P PROVE h[q] \in Int /\ (quiet => h[q] = 0)
      <4>1. /\ processExistingPod(q, p, a[q], pair) \in Int
            /\ ~TermMatched(q, p, a[q]) => processExistingPod(q, p, a[q], pair) = 0
        BY <1>2, ExistingType
      <4> QED BY <4>1
    <3> QED BY <3>1
  <2>2. h \in [P -> Int]
    BY <2>1
  <2> HIDE DEF h, P, quiet
  <2>3. SumFunction(h) \in Int
    BY <1>2, <2>2, SumType
  <2>4. quiet => SumFunction(h) = 0
    BY <1>2, <2>1, <2>2, SumOfZeros
  <2> QED BY <2>3, <2>4 DEF h
<1> HIDE DEF of, quiet
<1>5. f \in [PairsOf(n) -> Int] /\ (quiet => \A pair \in PairsOf(n) : f[pair] = 0)
  BY <1>4
<1> HIDE DEF f
<1>6. SumFunction(f) \in Int
  BY <1>3, <1>5, SumType
<1>7. quiet => SumFunction(f) = 0
  BY <1>3, <1>5, SumOfZeros
<1> QED
  BY <1>1, <1>6, <1>7 DEF quiet

\* InterPodAffinity.
LEMMA AffinityIsScore ==
    ASSUME NEW p \in Pods, NEW a, NEW F \in SUBSET Nodes, NEW n \in F
    PROVE  IsScore(AffinityNormalized(p, a, F)[n])
<1> DEFINE raw == [m \in F |-> AffinityScore(p, a, m)]
           highest == Max(WithZero(raw, F))
           lowest == Min(WithZero(raw, F))
           quiet == \A q \in PodsToProcess(p, a) : ~TermMatched(q, p, a[q])
           x == 100 * (raw[n] - lowest)
           d == highest - lowest
<1>1. AffinityNormalized(p, a, F)[n]
        = IF quiet THEN raw[n] ELSE IF highest = lowest THEN 0 ELSE x \div d
  BY DEF AffinityNormalized, WithZero, MaxNodeScore
<1>2. \A m \in F : raw[m] \in Int /\ (quiet => raw[m] = 0)
  <2>1. ASSUME NEW m \in F PROVE AffinityScore(p, a, m) \in Int /\ (quiet => AffinityScore(p, a, m) = 0)
    BY AffinityScoreType
  <2> QED BY <2>1
<1>3. F \subseteq DOMAIN raw
  OBVIOUS
<1> HIDE DEF raw, quiet
<1>4. highest \in Int /\ lowest \in Int /\ lowest <= raw[n] /\ raw[n] <= highest /\ raw[n] \in Int
  BY <1>2, <1>3, MaxWithZero
<1> HIDE DEF highest, lowest
<1>5. ASSUME highest # lowest PROVE x \div d \in 0 .. 100
  <2>1. x \in Int /\ d \in Int /\ d > 0 /\ 0 <= x /\ x <= 100 * d
    BY <1>4, <1>5
  <2> HIDE DEF x, d
  <2> QED BY <2>1, DivisionIn
<1> HIDE DEF x, d
<1> QED
  BY <1>1, <1>2, <1>5 DEF IsScore, MaxNodeScore

\* PodTopologySpread counts the matching pods of a domain, and its number of domains.
LEMMA DomainCountType ==
    ASSUME NEW c, NEW p \in Pods, NEW a, NEW n \in Nodes
    PROVE  DomainCount(c, p, a, n) \in Nat
<1> DEFINE counted == IF c.key = Hostname THEN {n}
                      ELSE {m \in Nodes : /\ PodMatchesNodeSelectorAndAffinityTerms(p, m)
                                          /\ NodeLabelsMatchSpreadConstraints(m, Constraints(p, "soft"))
                                          /\ PairOf(m, c.key) = PairOf(n, c.key)}
           f == [m \in counted |-> CountPodsMatchSelector(PodsOn(a, m), c.selector, PodSpec[p].ns)]
<1>1. DomainCount(c, p, a, n) = SumFunction(f)
  BY DEF DomainCount
<1>2. counted \in SUBSET Nodes
  OBVIOUS
<1>3. ASSUME NEW m \in counted PROVE f[m] \in Nat
  <2>1. PodsOn(a, m) \in SUBSET Pods
    BY DEF PodsOn
  <2>2. CountPodsMatchSelector(PodsOn(a, m), c.selector, PodSpec[p].ns) \in Nat
    BY <2>1, SelectedType
  <2> QED BY <2>2
<1>4. f \in [counted -> Int] /\ \A m \in counted : f[m] >= 0
  <2>1. f = [m \in counted |-> f[m]]
    OBVIOUS
  <2> HIDE DEF f
  <2> QED BY <1>3, <2>1
<1> HIDE DEF counted, f
<1>5. IsFiniteSet(counted)
  BY <1>2, LabelsAssumption, FS_Subset
<1>6. SumFunction(f) \in Int /\ SumFunction(f) >= 0
  BY <1>4, <1>5, SumType
<1> QED
  BY <1>1, <1>6

\* The weight of a constraint, for any number of nodes.
LEMMA TopologySizeType ==
    ASSUME NEW c, NEW p \in Pods, NEW F \in SUBSET Nodes
    PROVE  TopologyNormalizingWeight(TopologySize(c, p, F)) \in Nat
<1> DEFINE scored == F \ IgnoredNodes(p, F)
           f == [n \in scored |-> PairOf(n, c.key)]
           N == Cardinality(Nodes)
<1>1. scored \in SUBSET Nodes /\ scored \subseteq DOMAIN f
  OBVIOUS
<1>2. TopologySize(c, p, F) = Cardinality(scored) \/ TopologySize(c, p, F) = Cardinality({f[n] : n \in scored})
  <2>1. {PairOf(n, c.key) : n \in scored} = {f[n] : n \in scored}
    OBVIOUS
  <2> QED BY <2>1 DEF TopologySize
<1> HIDE DEF scored, f
<1>3. IsFiniteSet(Nodes) /\ IsFiniteSet(scored) /\ Cardinality(scored) <= N
  BY <1>1, LabelsAssumption, FS_Subset
<1>4. IsFiniteSet({f[n] : n \in scored}) /\ Cardinality({f[n] : n \in scored}) <= Cardinality(scored)
  BY <1>1, <1>3, ImageFinite
<1>5. N \in Nat /\ Cardinality(scored) \in Nat /\ Cardinality({f[n] : n \in scored}) \in Nat
  BY <1>3, <1>4, FS_CardinalityType
<1> DEFINE size == TopologySize(c, p, F)
<1>6. size \in Nat /\ size <= N
  BY <1>2, <1>3, <1>4, <1>5
<1> HIDE DEF size
<1>7. size + 2 \in 2 .. N + 2
  BY <1>5, <1>6
<1>8. Logarithm[size + 2] \in Nat
  BY <1>7, SoftAssumption
<1> QED
  BY <1>8 DEF size, TopologyNormalizingWeight

\* The score of a node before it is normalized.
LEMMA SpreadScoreType ==
    ASSUME NEW p \in Pods, NEW a, NEW F \in SUBSET Nodes, NEW n \in Nodes
    PROVE  SpreadScore(p, a, F, n) \in Nat
<1> DEFINE cs == Constraints(p, "soft")
           f == [c \in Range(cs) |-> DomainCount(c, p, a, n) * TopologyNormalizingWeight(TopologySize(c, p, F))
                                     + 1000 * (c.skew - 1)]
           s == SumFunction(f)
<1>1. SpreadScore(p, a, F, n) = IF n \in IgnoredNodes(p, F) THEN 0 ELSE s \div 1000
  BY DEF SpreadScore
<1>2. Len(cs) \in Nat /\ DOMAIN cs = 1 .. Len(cs) /\ \A c \in Range(cs) : c.skew \in Nat \ {0}
  BY SoftAssumption
<1>3. ASSUME NEW c \in Range(cs) PROVE f[c] \in Int /\ f[c] >= 0
  <2> DEFINE d == DomainCount(c, p, a, n)
             w == TopologyNormalizingWeight(TopologySize(c, p, F))
             k == c.skew
  <2>1. f[c] = d * w + 1000 * (k - 1)
    OBVIOUS
  <2>2. d \in Nat /\ w \in Nat /\ k \in Nat \ {0}
    BY <1>2, DomainCountType, TopologySizeType
  <2> HIDE DEF d, w, k, f
  <2>3. d * w \in Nat
    BY <2>2
  <2> QED BY <2>1, <2>2, <2>3
<1>4. f = [c \in Range(cs) |-> f[c]]
  OBVIOUS
<1> HIDE DEF f
<1>5. f \in [Range(cs) -> Int]
  BY <1>3, <1>4
<1>6. IsFiniteSet(Range(cs))
  <2> DEFINE D == DOMAIN cs
  <2>1. 1 \in Int /\ Len(cs) \in Int
    BY <1>2
  <2>2. IsFiniteSet(D)
    BY <1>2, <2>1, FS_Interval
  <2>3. D \subseteq DOMAIN cs
    OBVIOUS
  <2>4. IsFiniteSet({cs[i] : i \in D})
    BY <2>2, <2>3, ImageFinite
  <2> QED BY <2>4 DEF Range
<1>7. s \in Int /\ s >= 0
  BY <1>3, <1>5, <1>6, SumType
<1> HIDE DEF s
<1>8. s \div 1000 \in 0 .. s
  BY <1>7, DivisionIn
<1> QED
  BY <1>1, <1>7, <1>8

\* PodTopologySpread gives scores, and no lower one to a node with fewer matching pods.
LEMMA SpreadIsScore ==
    ASSUME NEW p \in Pods, NEW a, NEW F \in SUBSET Nodes, NEW n \in F
    PROVE  /\ IsScore(SpreadNormalized(p, a, F)[n])
           /\ \A m \in F : /\ {m, n} \subseteq F \ IgnoredNodes(p, F)
                           /\ SpreadScore(p, a, F, n) < SpreadScore(p, a, F, m)
                           => SpreadNormalized(p, a, F)[n] >= SpreadNormalized(p, a, F)[m]
<1> DEFINE raw == [m \in F |-> SpreadScore(p, a, F, m)]
           scored == F \ IgnoredNodes(p, F)
           S == {raw[m] : m \in scored}
           lowest == Min(S)
           highest == Max(WithZero(raw, scored))
           left(m) == 100 * (highest + lowest - raw[m])
           norm(m) == SpreadNormalized(p, a, F)[m]
<1>1. ASSUME NEW m \in F
      PROVE  norm(m) = IF m \notin scored THEN 0 ELSE IF highest = 0 THEN 100 ELSE left(m) \div highest
  BY DEF SpreadNormalized, WithZero, MaxNodeScore
<1>2. ASSUME NEW m \in F PROVE raw[m] \in Nat /\ raw[m] = SpreadScore(p, a, F, m)
  BY SpreadScoreType
<1>3. scored \subseteq F /\ F \subseteq DOMAIN raw
  OBVIOUS
<1> HIDE DEF raw, norm, scored
<1>5. ASSUME NEW m \in scored, highest # 0
      PROVE  /\ left(m) \in Int /\ highest \in Int /\ lowest \in Int /\ highest > 0
             /\ 0 <= left(m) /\ left(m) <= 100 * highest
  <2>1. \A i \in scored : raw[i] \in Int
    BY <1>2, <1>3
  <2>2. scored \in SUBSET Nodes /\ scored \subseteq DOMAIN raw
    BY <1>3
  <2>3. highest \in Int /\ 0 <= highest /\ raw[m] <= highest
    BY <2>1, <2>2, MaxWithZero
  <2>4. IsFiniteSet(scored)
    BY <2>2, LabelsAssumption, FS_Subset
  <2>5. IsFiniteSet(S)
    BY <2>2, <2>4, ImageFinite
  <2>6. S \subseteq Nat /\ raw[m] \in S
    BY <1>2, <1>3
  <2> HIDE DEF S
  <2>7. lowest \in S /\ lowest <= raw[m]
    <3>1. S \subseteq Int /\ S # {}
      BY <2>6
    <3> QED BY <2>5, <2>6, <3>1, MinMax
  <2>8. lowest \in Nat /\ raw[m] \in Nat
    BY <2>6, <2>7
  <2> HIDE DEF lowest, highest
  <2> QED BY <1>5, <2>3, <2>7, <2>8
<1> HIDE DEF lowest, highest
<1>6. ASSUME NEW m \in F PROVE IsScore(norm(m))
  <2>1. CASE m \notin scored \/ highest = 0
    BY <1>1, <2>1 DEF IsScore, MaxNodeScore
  <2>2. CASE m \in scored /\ highest # 0
    <3> DEFINE x == left(m)
    <3>1. x \in Int /\ highest \in Int /\ highest > 0 /\ 0 <= x /\ x <= 100 * highest
      BY <1>5, <2>2
    <3> HIDE DEF x
    <3>2. x \div highest \in 0 .. 100
      BY <3>1, DivisionIn
    <3> QED BY <1>1, <2>2, <3>2 DEF x, IsScore, MaxNodeScore
  <2> QED BY <2>1, <2>2
<1>7. ASSUME NEW m \in F, {m, n} \subseteq scored, SpreadScore(p, a, F, n) < SpreadScore(p, a, F, m)
      PROVE  norm(n) >= norm(m)
  <2>1. CASE highest = 0
    BY <1>1, <1>7, <2>1
  <2>2. CASE highest # 0
    <3> DEFINE x == left(n)
               y == left(m)
    <3>1. x \in Int /\ y \in Int /\ highest \in Int /\ highest > 0
      BY <1>5, <1>7, <2>2
    <3>2. raw[n] \in Nat /\ raw[m] \in Nat /\ raw[n] < raw[m]
      BY <1>2, <1>7
    <3>3. norm(n) = x \div highest /\ norm(m) = y \div highest
      BY <1>1, <1>7, <2>2
    <3>4. y <= x
      <4> DEFINE u == highest + lowest - raw[n]
                 v == highest + lowest - raw[m]
      <4>1. x = 100 * u /\ y = 100 * v
        OBVIOUS
      <4>2. highest \in Int /\ lowest \in Int
        BY <1>5, <1>7, <2>2
      <4> HIDE DEF x, y
      <4>3. u \in Int /\ v \in Int /\ v <= u
        BY <3>2, <4>2
      <4> HIDE DEF u, v
      <4> QED BY <4>1, <4>3
    <3> HIDE DEF x, y
    <3>5. y \div highest \in Int /\ x \div highest \in Int /\ y \div highest <= x \div highest
      <4>1. y \div highest \in Int /\ x \div highest \in Int
        BY <3>1, Division
      <4>2. y \div highest <= x \div highest
        BY <3>1, <3>4, DivisionMonotone
      <4> QED BY <4>1, <4>2
    <3> QED BY <3>3, <3>5
  <2> QED BY <2>1, <2>2
<1>8. IsScore(norm(n))
  BY <1>6
<1> QED
  BY <1>7, <1>8 DEF norm, scored

\* Every plugin gives the feasible nodes scores.
LEMMA PluginsGiveScores ==
    ASSUME pod \in Pods, NEW F \in SUBSET Nodes, NEW n \in F, NEW plugin \in DOMAIN PluginScores(F)
    PROVE  IsScore(PluginScores(F)[plugin][n])
<1> DEFINE pods == PodsOn(at, n)
<1>1. pods \in SUBSET Pods /\ n \in Nodes
  BY DEF PodsOn
<1>2. plugin \in {"balanced", "least", "most", "ratio", "image", "nodeAffinity", "taint", "affinity",
                  "spread", "selector"}
  BY DEF PluginScores
<1>3. CASE plugin = "balanced"
  <2>1. IsScore(balancedResourceScorer(pod, n, NodeInfoOf(pods)))
    BY <1>1, BalancedIsScore
  <2> QED BY <1>3, <2>1 DEF PluginScores
<1>4. CASE plugin = "least"
  <2>1. IsScore(leastResourceScorer(pod, n, NodeInfoOf(pods)))
    BY <1>1, AllocationIsScore
  <2> QED BY <1>4, <2>1 DEF PluginScores
<1>5. CASE plugin = "most"
  <2>1. IsScore(mostResourceScorer(pod, n, NodeInfoOf(pods)))
    BY <1>1, AllocationIsScore
  <2> QED BY <1>5, <2>1 DEF PluginScores
<1>6. CASE plugin = "ratio"
  <2>1. IsScore(RequestedToCapacityRatio(pod, n, NodeInfoOf(pods)))
    BY <1>1, RatioIsScore
  <2> QED BY <1>6, <2>1 DEF PluginScores
<1>7. CASE plugin = "image"
  <2>1. IsScore(ImageScore(pod, n))
    BY <1>1, ImageIsScore
  <2> QED BY <1>7, <2>1 DEF PluginScores
<1>8. CASE plugin = "nodeAffinity"
  <2> DEFINE f == [m \in F |-> NodeAffinityScore(pod)]
  <2>1. DOMAIN f = F /\ \A m \in F : f[m] \in Nat
    BY ImagesAssumption DEF NodeAffinityScore
  <2> HIDE DEF f
  <2>2. IsScore(DefaultNormalizeScore(f, FALSE)[n])
    BY <2>1, NormalizedIsScore
  <2> QED BY <1>8, <2>2 DEF PluginScores, f
<1>9. CASE plugin = "taint"
  <2> DEFINE f == [m \in F |-> TaintScore(m)]
  <2>1. DOMAIN f = F /\ \A m \in F : f[m] \in Nat
    BY ImagesAssumption DEF TaintScore
  <2> HIDE DEF f
  <2>2. IsScore(DefaultNormalizeScore(f, TRUE)[n])
    BY <2>1, NormalizedIsScore
  <2> QED BY <1>9, <2>2 DEF PluginScores, f
<1>10. CASE plugin = "affinity"
  <2>1. IsScore(AffinityNormalized(pod, at, F)[n])
    BY AffinityIsScore
  <2> QED BY <1>10, <2>1 DEF PluginScores
<1>11. CASE plugin = "spread"
  <2>1. IsScore(SpreadNormalized(pod, at, F)[n])
    BY SpreadIsScore
  <2> QED BY <1>11, <2>1 DEF PluginScores
<1>12. CASE plugin = "selector"
  <2>1. IsScore(SelectorSpreadNormalized(pod, at, F)[n])
    BY SelectorIsScore
  <2> QED BY <1>12, <2>1 DEF PluginScores
<1> QED
  BY <1>2, <1>3, <1>4, <1>5, <1>6, <1>7, <1>8, <1>9, <1>10, <1>11, <1>12

\* Every plugin scores the feasible nodes and no others.
LEMMA PluginDomain ==
    ASSUME NEW F \in SUBSET Nodes, NEW plugin \in DOMAIN PluginScores(F)
    PROVE  DOMAIN PluginScores(F)[plugin] = F /\ (plugin = "spread" => PluginScores(F)[plugin] = SpreadNormalized(pod, at, F))
<1>1. plugin \in {"balanced", "least", "most", "ratio", "image", "nodeAffinity", "taint", "affinity",
                  "spread", "selector"}
  BY DEF PluginScores
<1>2. /\ PluginScores(F)["spread"] = SpreadNormalized(pod, at, F)
      /\ PluginScores(F)["affinity"] = AffinityNormalized(pod, at, F)
      /\ PluginScores(F)["selector"] = SelectorSpreadNormalized(pod, at, F)
      /\ PluginScores(F)["taint"] = DefaultNormalizeScore([n \in F |-> TaintScore(n)], TRUE)
      /\ PluginScores(F)["nodeAffinity"] = DefaultNormalizeScore([n \in F |-> NodeAffinityScore(pod)], FALSE)
  BY DEF PluginScores
<1>3. /\ DOMAIN SpreadNormalized(pod, at, F) = F
      /\ DOMAIN AffinityNormalized(pod, at, F) = F
      /\ DOMAIN SelectorSpreadNormalized(pod, at, F) = F
  BY DEF SpreadNormalized, AffinityNormalized, SelectorSpreadNormalized
<1>4. ASSUME NEW f, NEW reverse, DOMAIN f = F PROVE DOMAIN DefaultNormalizeScore(f, reverse) = F
  BY <1>4 DEF DefaultNormalizeScore
<1>5. /\ DOMAIN DefaultNormalizeScore([n \in F |-> TaintScore(n)], TRUE) = F
      /\ DOMAIN DefaultNormalizeScore([n \in F |-> NodeAffinityScore(pod)], FALSE) = F
  BY <1>4
<1>6. plugin \in {"balanced", "least", "most", "ratio", "image"} => DOMAIN PluginScores(F)[plugin] = F
  BY DEF PluginScores
<1> QED
  BY <1>1, <1>2, <1>3, <1>5, <1>6

\* The scores are those of the plugins on some nodes, or not made yet.
ScoresMade == scores = <<>> \/ \E F \in SUBSET Nodes : scores = PluginScores(F)

\* The scores are made once, in Score, and neither the pod nor the snapshot they are made for changes.
LEMMA ScoresStay ==
    ASSUME ScoresMade, [Next]_vars
    PROVE  ScoresMade'
<1>1. ASSUME UNCHANGED <<pod, at, scores>> PROVE ScoresMade'
  BY <1>1 DEF ScoresMade, PluginScores
<1>2. CASE Score
  BY <1>2 DEF Score, ScoresMade, PluginScores
<1>3. CASE PreFilter \/ Filter \/ FilterPanics
  BY <1>1, <1>3 DEF PreFilter, Filter, FilterPanics
<1>4. CASE NotEligible \/ NoPotentialNodes \/ FindCandidates
  BY <1>1, <1>4 DEF NotEligible, NoPotentialNodes, FindCandidates
<1>5. ASSUME NEW n \in Nodes, StartNode(n) PROVE ScoresMade'
  BY <1>1, <1>5 DEF StartNode
<1>6. ASSUME NEW q \in Pods, TakeOff(q) \/ TakeOffPanics(q) PROVE ScoresMade'
  BY <1>1, <1>6 DEF TakeOff, TakeOffPanics
<1>7. ASSUME NEW q \in Pods, Reprieve(q) \/ DeleteVictim(q) PROVE ScoresMade'
  BY <1>1, <1>7 DEF Reprieve, DeleteVictim
<1>8. CASE CheckEmptied \/ EndNode \/ NoCandidate \/ SelectCandidate
  BY <1>1, <1>8 DEF CheckEmptied, EndNode, NoCandidate, SelectCandidate
<1>9. CASE DeleteFails \/ Nominate
  BY <1>1, <1>9 DEF DeleteFails, Nominate
<1>10. CASE UNCHANGED vars
  BY <1>1, <1>10 DEF vars
<1> QED
  BY <1>2, <1>3, <1>4, <1>5, <1>6, <1>7, <1>8, <1>9, <1>10 DEF Next

\* RunScorePlugins never refuses a score: whatever the placement, the requests, the
\* weights and the shape, every plugin stays between 0 and 100, and spreading never
\* prefers the node with more matching pods.
THEOREM ScoresAlwaysInRange == Spec => []ScoresInRange
<1>1. Init => ScoresMade
  BY DEF Init, ScoresMade
<1>2. DryRunInv /\ ScoresMade => ScoresInRange
  <2> SUFFICES ASSUME DryRunInv, ScoresMade, NEW plugin \in DOMAIN scores, NEW n \in DOMAIN scores[plugin]
               PROVE  /\ IsScore(scores[plugin][n])
                      /\ plugin = "spread" => \A m \in DOMAIN scores[plugin] :
                             LET feasible == DOMAIN scores[plugin]
                                 scored == feasible \ IgnoredNodes(pod, feasible)
                             IN  {m, n} \subseteq scored
                                 /\ SpreadScore(pod, at, feasible, n) < SpreadScore(pod, at, feasible, m)
                                 => scores[plugin][n] >= scores[plugin][m]
    BY DEF ScoresInRange, IsScore
  <2>1. PICK F \in SUBSET Nodes : scores = PluginScores(F)
    <3>1. scores # <<>>
      OBVIOUS
    <3> QED BY <3>1 DEF ScoresMade
  <2>2. DOMAIN scores[plugin] = F /\ (plugin = "spread" => scores[plugin] = SpreadNormalized(pod, at, F))
    BY <2>1, PluginDomain
  <2>3. pod \in Pods /\ n \in F
    BY <2>2 DEF DryRunInv, CycleOK
  <2>4. IsScore(scores[plugin][n])
    BY <2>1, <2>3, PluginsGiveScores
  <2>5. ASSUME plugin = "spread", NEW m \in F, {m, n} \subseteq F \ IgnoredNodes(pod, F),
               SpreadScore(pod, at, F, n) < SpreadScore(pod, at, F, m)
        PROVE  scores[plugin][n] >= scores[plugin][m]
    <3>1. SpreadNormalized(pod, at, F)[n] >= SpreadNormalized(pod, at, F)[m]
      BY <2>3, <2>5, SpreadIsScore
    <3> QED BY <2>2, <2>5, <3>1
  <2> QED BY <2>2, <2>4, <2>5
<1>3. ScoresMade /\ [Next]_vars => ScoresMade'
  BY ScoresStay
<1> QED
  BY <1>1, <1>2, <1>3, DryRunInitial, DryRunStep, PTL DEF Spec
=============================================================================
