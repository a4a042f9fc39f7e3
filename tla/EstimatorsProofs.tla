-------------------------- MODULE EstimatorsProofs --------------------------
(***************************************************************************)
(* Proofs about the histograms and the recommendations made of them: the   *)
(* bounds of a histogram are exact, the three recommended amounts of a     *)
(* container are ordered, and a percentile of a histogram is that of the   *)
(* samples in it, for all options, samples and numbers of steps.           *)
(*                                                                         *)
(* The first part is about data: induction over finite sets and over the   *)
(* numbers, stated with a set in place of a predicate, and what follows    *)
(* for the least and the greatest element, for powers and for sums.  The   *)
(* last part, from the laws of sums on, is about what the weights of a     *)
(* histogram say of its samples: its invariant is SamplesInv.              *)
(***************************************************************************)
EXTENDS Estimators, FiniteSetTheorems, TLAPS

-----------------------------------------------------------------------------
(* Induction and recursion.                                                *)

\* Induction over finite sets.
LEMMA FiniteInduction ==
    ASSUME NEW S, IsFiniteSet(S), NEW G, {} \in G,
           \A T \in SUBSET S : \A x \in S \ T : T \in G => T \cup {x} \in G
    PROVE  S \in G
<1> SUFFICES ASSUME S \notin G PROVE FALSE
  OBVIOUS
<1> DEFINE Bad == (SUBSET S) \ G
<1>1. IsWellFoundedOn(StrictSubsetOrdering(S), SUBSET S)
  BY FS_StrictSubsetOrderingWellFounded, FS_FiniteSubsetsOfFinite
<1>2. PICK T \in Bad : \A U \in Bad : ~ (<<U, T>> \in StrictSubsetOrdering(S))
  <2>1. Bad \subseteq SUBSET S /\ Bad # {}
    OBVIOUS
  <2> HIDE DEF Bad
  <2> QED BY <1>1, <2>1, WFMin
<1>3. T # {}
  OBVIOUS
<1>4. PICK x \in T : TRUE
  BY <1>3
<1>5. T \ {x} \in SUBSET S /\ T \ {x} # T /\ T \ {x} \subseteq T
  BY <1>4
<1>6. T \ {x} \in G
  BY <1>2, <1>5 DEF StrictSubsetOrdering
<1>7. (T \ {x}) \cup {x} \in G
  BY <1>4, <1>5, <1>6
<1>8. (T \ {x}) \cup {x} = T
  BY <1>4
<1> QED
  BY <1>7, <1>8


\* A set of numbers that has its least element, or is empty.
LEMMA LeastNatural ==
    ASSUME NEW T \in SUBSET Nat, T # {}
    PROVE  \E n \in T : \A m \in T : n <= m
<1>1. PICK k \in T : TRUE
  OBVIOUS
<1> DEFINE G == {U \in SUBSET (0 .. k) : U \cap T = {} \/ \E n \in U \cap T : \A m \in U \cap T : n <= m}
<1>2. {} \in G
  OBVIOUS
<1>3. ASSUME NEW U \in SUBSET (0 .. k), NEW x \in (0 .. k) \ U, U \in G
      PROVE  U \cup {x} \in G
  <2>1. U \cup {x} \in SUBSET (0 .. k)
    OBVIOUS
  <2>2. CASE x \notin T
    BY <1>3, <2>1, <2>2
  <2>3. CASE x \in T /\ U \cap T = {}
    BY <2>1, <2>3
  <2>4. CASE x \in T /\ U \cap T # {}
    <3>1. PICK n \in U \cap T : \A m \in U \cap T : n <= m
      BY <1>3, <2>4
    <3>2. CASE n <= x
      BY <2>1, <3>1, <3>2
    <3>3. CASE x < n
      BY <2>1, <2>4, <3>1, <3>3
    <3> QED BY <3>1, <3>2, <3>3
  <2> QED BY <2>2, <2>3, <2>4
<1>4. 0 .. k \in G
  <2>1. IsFiniteSet(0 .. k)
    BY FS_Interval
  <2> HIDE DEF G
  <2> QED BY <1>2, <1>3, <2>1, FiniteInduction
<1>5. PICK n \in (0 .. k) \cap T : \A m \in (0 .. k) \cap T : n <= m
  BY <1>1, <1>4
<1> QED
  BY <1>1, <1>5

\* Induction over the natural numbers.
LEMMA NumberInduction ==
    ASSUME NEW G, 0 \in G, \A n \in Nat : n \in G => n + 1 \in G
    PROVE  Nat \subseteq G
<1> SUFFICES ASSUME Nat \ G # {} PROVE FALSE
  OBVIOUS
<1>1. PICK n \in Nat \ G : \A m \in Nat \ G : n <= m
  BY LeastNatural
<1>2. n # 0 /\ n - 1 \in Nat /\ n - 1 \notin Nat \ G
  BY <1>1
<1> QED
  BY <1>1, <1>2

\* Recursion over the natural numbers: the function exists.
LEMMA NumberRecursion ==
    ASSUME NEW V, NEW base \in V, NEW step \in [V -> V]
    PROVE  \E g \in [Nat -> V] : g[0] = base /\ \A n \in Nat : g[n + 1] = step[g[n]]
<1> DEFINE Follows(h, n) == h[0] = base /\ \A i \in Nat : i < n => h[i + 1] = step[h[i]]
           Part(n) == {h \in [0 .. n -> V] : Follows(h, n)}
<1>1. ASSUME NEW n \in Nat, NEW h \in Part(n), NEW k \in Nat, NEW j \in Part(k)
      PROVE  \A i \in Nat : i <= n /\ i <= k => h[i] = j[i]
  <2> DEFINE G == {i \in Nat : i <= n /\ i <= k => h[i] = j[i]}
  <2>1. 0 \in G
    OBVIOUS
  <2>2. ASSUME NEW i \in Nat, i \in G PROVE i + 1 \in G
    BY <2>2
  <2>3. Nat \subseteq G
    <3> HIDE DEF G
    <3> QED BY <2>1, <2>2, NumberInduction
  <2> QED BY <2>3
<1>2. \A n \in Nat : Part(n) # {}
  <2> DEFINE G == {n \in Nat : Part(n) # {}}
  <2>1. 0 \in G
    <3>1. [i \in 0 .. 0 |-> base] \in Part(0)
      OBVIOUS
    <3> QED BY <3>1
  <2>2. ASSUME NEW n \in Nat, n \in G PROVE n + 1 \in G
    <3>1. PICK h \in Part(n) : TRUE
      BY <2>2
    <3> DEFINE j == [i \in 0 .. n + 1 |-> IF i <= n THEN h[i] ELSE step[h[n]]]
    <3>2. j \in [0 .. n + 1 -> V]
      BY <3>1
    <3>3. Follows(j, n + 1)
      BY <3>1
    <3>4. j \in Part(n + 1)
      BY <3>2, <3>3
    <3> QED BY <3>4
  <2>3. Nat \subseteq G
    <3> HIDE DEF G
    <3> QED BY <2>1, <2>2, NumberInduction
  <2> QED BY <2>3
<1> DEFINE g == [n \in Nat |-> (CHOOSE h \in Part(n) : TRUE)[n]]
<1>3. ASSUME NEW n \in Nat PROVE \E h \in Part(n) : g[n] = h[n]
  <2>1. (CHOOSE h \in Part(n) : TRUE) \in Part(n)
    <3> HIDE DEF Part
    <3> QED BY <1>2
  <2> QED BY <2>1
<1>4. g \in [Nat -> V]
  <2>1. ASSUME NEW n \in Nat PROVE g[n] \in V
    <3>1. PICK h \in Part(n) : g[n] = h[n]
      BY <1>3
    <3> HIDE DEF g
    <3> QED BY <3>1
  <2> QED BY <2>1
<1>5. g[0] = base
  <2>1. PICK h \in Part(0) : g[0] = h[0]
    BY <1>3
  <2> HIDE DEF g
  <2> QED BY <2>1
<1>6. ASSUME NEW n \in Nat PROVE g[n + 1] = step[g[n]]
  <2>0. n + 1 \in Nat /\ \A m \in Nat : \E h \in Part(m) : g[m] = h[m]
    <3> HIDE DEF Part, g
    <3> QED BY <1>3
  <2>1. PICK h \in Part(n + 1) : g[n + 1] = h[n + 1]
    <3> HIDE DEF Part, g
    <3> QED BY <2>0
  <2>2. PICK j \in Part(n) : g[n] = j[n]
    BY <1>3
  <2> HIDE DEF g
  <2>3. h[n] = j[n]
    <3> HIDE DEF Part
    <3> QED BY <1>1
  <2> QED BY <2>1, <2>2, <2>3
<1> HIDE DEF g
<1> QED
  BY <1>4, <1>5, <1>6

-----------------------------------------------------------------------------
(* The least and the greatest element.                                     *)

\* A finite set of numbers that is not empty has a least and a greatest element.
LEMMA Extremes ==
    ASSUME NEW S, S \subseteq Int, IsFiniteSet(S), S # {}
    PROVE  /\ \E n \in S : \A m \in S : n <= m
           /\ \E n \in S : \A m \in S : n >= m
<1> DEFINE G == {U \in SUBSET S : U # {} => /\ \E n \in U : \A m \in U : n <= m
                                            /\ \E n \in U : \A m \in U : n >= m}
<1>1. {} \in G
  OBVIOUS
<1>2. ASSUME NEW U \in SUBSET S, NEW x \in S \ U, U \in G
      PROVE  U \cup {x} \in G
  <2>1. U \cup {x} \in SUBSET S
    OBVIOUS
  <2>2. CASE U = {}
    BY <2>1, <2>2
  <2>3. CASE U # {}
    <3>1. PICK n \in U : \A m \in U : n <= m
      BY <1>2, <2>3
    <3>2. PICK k \in U : \A m \in U : k >= m
      BY <1>2, <2>3
    <3>3. \E i \in U \cup {x} : \A m \in U \cup {x} : i <= m
      <4>1. CASE n <= x
        BY <3>1, <4>1
      <4>2. CASE x < n
        BY <3>1, <4>2
      <4> QED BY <3>1, <4>1, <4>2
    <3>4. \E i \in U \cup {x} : \A m \in U \cup {x} : i >= m
      <4>1. CASE k >= x
        BY <3>2, <4>1
      <4>2. CASE x > k
        BY <3>2, <4>2
      <4> QED BY <3>2, <4>1, <4>2
    <3> QED BY <2>1, <3>3, <3>4
  <2> QED BY <2>2, <2>3
<1>3. S \in G
  <2> HIDE DEF G
  <2> QED BY <1>1, <1>2, FiniteInduction
<1> QED
  BY <1>3

\* What Min and Max return.
LEMMA MinMax ==
    ASSUME NEW S, S \subseteq Int, IsFiniteSet(S), S # {}
    PROVE  /\ Min(S) \in S /\ \A m \in S : Min(S) <= m
           /\ Max(S) \in S /\ \A m \in S : Max(S) >= m
<1>1. PICK n \in S : \A m \in S : n <= m
  BY Extremes
<1>2. PICK k \in S : \A m \in S : k >= m
  BY Extremes
<1> QED
  BY <1>1, <1>2 DEF Min, Max

\* The same for the numbers of an interval that pass a test.
LEMMA MinMaxInterval ==
    ASSUME NEW a \in Int, NEW b \in Int, NEW S, S \subseteq a .. b, S # {}
    PROVE  /\ Min(S) \in S /\ \A m \in S : Min(S) <= m
           /\ Max(S) \in S /\ \A m \in S : Max(S) >= m
<1>1. IsFiniteSet(S)
  <2>1. IsFiniteSet(a .. b)
    BY FS_Interval
  <2> QED BY <2>1, FS_Subset
<1>2. S \subseteq Int
  OBVIOUS
<1> QED
  BY <1>1, <1>2, MinMax

\* Of two numbers.
LEMMA MinMaxPair ==
    ASSUME NEW a \in Int, NEW b \in Int
    PROVE  /\ Min({a, b}) = IF a <= b THEN a ELSE b
           /\ Max({a, b}) = IF a >= b THEN a ELSE b
<1>1. IsFiniteSet({a, b})
  <2>1. {a, b} = {a} \cup {b}
    OBVIOUS
  <2>2. IsFiniteSet({a})
    BY FS_Singleton
  <2> QED BY <2>1, <2>2, FS_AddElement
<1>2. /\ Min({a, b}) \in {a, b} /\ \A m \in {a, b} : Min({a, b}) <= m
      /\ Max({a, b}) \in {a, b} /\ \A m \in {a, b} : Max({a, b}) >= m
  BY <1>1, MinMax
<1> QED
  BY <1>2

-----------------------------------------------------------------------------
(* Powers.                                                                 *)

\* The laws of math.Pow for a base that is a whole number.
LEMMA PowerLaws ==
    ASSUME NEW b \in Nat
    PROVE  /\ Power(b, 0) = 1
           /\ \A n \in Nat : Power(b, n) \in Nat
           /\ \A n \in Nat : Power(b, n + 1) = b * Power(b, n)
<1> DEFINE step == [x \in Nat |-> b * x]
           Rec(p) == [n \in Nat |-> IF n = 0 THEN 1 ELSE b * p[n - 1]]
           power == CHOOSE p : p = Rec(p)
<1>1. PICK g \in [Nat -> Nat] : g[0] = 1 /\ \A n \in Nat : g[n + 1] = step[g[n]]
  <2>1. step \in [Nat -> Nat]
    OBVIOUS
  <2> HIDE DEF step
  <2> DEFINE V == Nat
             one == 1
  <2>2. step \in [V -> V] /\ one \in V
    BY <2>1
  <2> HIDE DEF V, one
  <2>3. \E g \in [Nat -> V] : g[0] = one /\ \A n \in Nat : g[n + 1] = step[g[n]]
    BY <2>2, NumberRecursion
  <2> QED BY <2>3 DEF V, one
<1>2. g = Rec(g)
  <2>1. ASSUME NEW n \in Nat PROVE g[n] = IF n = 0 THEN 1 ELSE b * g[n - 1]
    <3>1. CASE n # 0
      <4>1. n - 1 \in Nat /\ (n - 1) + 1 = n
        BY <3>1
      <4> QED BY <1>1, <3>1, <4>1
    <3> QED BY <1>1, <3>1
  <2> QED BY <1>1, <2>1
<1>3. power = Rec(power)
  <2> HIDE DEF Rec
  <2> QED BY <1>2
<1>4. \A n \in Nat : Power(b, n) = power[n]
  BY DEF Power
<1>5. \A n \in Nat : power[n] = IF n = 0 THEN 1 ELSE b * power[n - 1]
  <2> HIDE DEF power
  <2> QED BY <1>3
<1> HIDE DEF power
<1>6. power[0] = 1 /\ \A n \in Nat : power[n + 1] = b * power[n]
  BY <1>5
<1>7. \A n \in Nat : power[n] \in Nat
  <2> DEFINE G == {n \in Nat : power[n] \in Nat}
  <2>1. 0 \in G
    BY <1>6
  <2>2. ASSUME NEW n \in Nat, n \in G PROVE n + 1 \in G
    BY <1>6, <2>2
  <2> HIDE DEF G
  <2>3. Nat \subseteq G
    BY <2>1, <2>2, NumberInduction
  <2> QED BY <2>3 DEF G
<1> QED
  BY <1>4, <1>6, <1>7

\* The powers of a positive base are positive, and Bernoulli's inequality holds.
LEMMA PowerGrows ==
    ASSUME NEW b \in Nat, b > 0
    PROVE  \A n \in Nat : /\ Power(b, n) \in Nat /\ Power(b, n) >= 1
                          /\ Power(b, n) - 1 >= n * (b - 1)
                          /\ Power(b, n + 1) >= Power(b, n)
<1> DEFINE P(n) == Power(b, n)
           G == {n \in Nat : P(n) >= 1 /\ P(n) - 1 >= n * (b - 1)}
<1>0. P(0) = 1 /\ \A n \in Nat : P(n) \in Nat /\ P(n + 1) = b * P(n)
  BY PowerLaws
<1> HIDE DEF P
<1>1. 0 \in G
  BY <1>0
<1>2. ASSUME NEW n \in Nat, n \in G PROVE n + 1 \in G
  <2>1. P(n) \in Nat /\ P(n) >= 1 /\ P(n) - 1 >= n * (b - 1) /\ P(n + 1) = b * P(n)
    BY <1>0, <1>2
  <2>2. (b - 1) * P(n) >= (b - 1) * 1
    BY <2>1
  <2>3. b * P(n) = P(n) + (b - 1) * P(n)
    BY <2>1
  <2>4. (n + 1) * (b - 1) = n * (b - 1) + (b - 1)
    OBVIOUS
  <2>5. n * (b - 1) \in Int /\ (b - 1) * P(n) \in Int
    BY <2>1
  <2>6. P(n + 1) >= 1 /\ P(n + 1) - 1 >= (n + 1) * (b - 1)
    BY <2>1, <2>2, <2>3, <2>4, <2>5
  <2> QED BY <2>6
<1>3. Nat \subseteq G
  <2> HIDE DEF G
  <2> QED BY <1>1, <1>2, NumberInduction
<1>4. ASSUME NEW n \in Nat PROVE P(n + 1) >= P(n)
  <2>1. P(n) \in Nat /\ P(n + 1) = P(n) + (b - 1) * P(n)
    BY <1>0
  <2>2. (b - 1) * P(n) >= 0
    BY <2>1
  <2>3. (b - 1) * P(n) \in Int
    BY <2>1
  <2> QED BY <2>1, <2>2, <2>3
<1>5. \A n \in Nat : /\ P(n) \in Nat /\ P(n) >= 1
                     /\ P(n) - 1 >= n * (b - 1)
                     /\ P(n + 1) >= P(n)
  BY <1>0, <1>3, <1>4
<1> QED
  BY <1>5 DEF P

\* Powers of a positive base are monotone in the exponent.
LEMMA PowerMonotone ==
    ASSUME NEW b \in Nat, b > 0, NEW m \in Nat, NEW n \in Nat, m <= n
    PROVE  Power(b, m) <= Power(b, n)
<1> DEFINE G == {k \in Nat : Power(b, m) <= Power(b, m + k)}
<1>1. 0 \in G
  BY PowerGrows
<1>2. ASSUME NEW k \in Nat, k \in G PROVE k + 1 \in G
  <2>1. m + k \in Nat /\ m + (k + 1) = (m + k) + 1
    OBVIOUS
  <2> DEFINE P(i) == Power(b, i)
  <2>2. \A i \in Nat : P(i) \in Nat /\ P(i + 1) >= P(i)
    BY PowerGrows
  <2>5. k \in Nat /\ P(m) <= P(m + k)
    BY <1>2
  <2> HIDE DEF P
  <2>3. P(m) <= P(m + (k + 1))
    <3>1. P(m + k) \in Nat /\ P(m) \in Nat /\ P((m + k) + 1) \in Nat
      BY <2>2
    <3>2. P((m + k) + 1) >= P(m + k)
      BY <2>1, <2>2
    <3>3. P(m) <= P((m + k) + 1)
      BY <3>1, <3>2, <2>5
    <3> QED BY <2>1, <3>3
  <2>4. Power(b, m) <= Power(b, m + (k + 1))
    BY <2>3 DEF P
  <2> QED BY <2>4
<1>3. Nat \subseteq G
  <2> HIDE DEF G
  <2> QED BY <1>1, <1>2, NumberInduction
<1>4. n - m \in Nat /\ m + (n - m) = n
  OBVIOUS
<1> QED
  BY <1>3, <1>4

\* The powers of two, by which weights decay.
LEMMA PowerOfTwo ==
    ASSUME NEW n \in Nat
    PROVE  Power(2, n) \in Nat /\ Power(2, n) > 0
<1>1. Power(2, n) \in Nat /\ Power(2, n) >= 1
  BY PowerGrows
<1> QED
  BY <1>1

-----------------------------------------------------------------------------
(* Sums.                                                                   *)

\* The element that a sum takes first.
Pick(s) == CHOOSE x \in s : TRUE

\* The rule of the function by which a sum over the set S is defined.
SumRule(g, f, S) ==
    \A s \in SUBSET S : g[s] = IF s = {} THEN 0 ELSE f[Pick(s)] + g[s \ {Pick(s)}]

\* Taking an element out of a finite set makes it smaller.
LEMMA Smaller ==
    ASSUME NEW S, IsFiniteSet(S), NEW s \in SUBSET S, NEW n \in Nat, Cardinality(s) = n + 1
    PROVE  /\ s # {}
           /\ Pick(s) \in s
           /\ s \ {Pick(s)} \in SUBSET S
           /\ Cardinality(s \ {Pick(s)}) = n
<1>1. IsFiniteSet(s)
  BY FS_Subset
<1>2. s # {}
  BY FS_EmptySet
<1>3. Pick(s) \in s
  BY <1>2 DEF Pick
<1>4. Cardinality(s \ {Pick(s)}) = Cardinality(s) - 1
  BY <1>1, <1>3, FS_RemoveElement
<1> QED
  BY <1>2, <1>3, <1>4

\* The function by which a sum over a finite set is defined exists.
LEMMA SumExists ==
    ASSUME NEW S, IsFiniteSet(S), NEW f, \A i \in S : f[i] \in Nat
    PROVE  \E g \in [SUBSET S -> Nat] : SumRule(g, f, S)
<1> DEFINE Small(n) == {s \in SUBSET S : Cardinality(s) <= n}
           Sums(n) == {g \in [Small(n) -> Nat] : \A s \in Small(n) :
                          g[s] = IF s = {} THEN 0 ELSE f[Pick(s)] + g[s \ {Pick(s)}]}
           G == {n \in Nat : Sums(n) # {}}
<1>1. \A s \in SUBSET S : IsFiniteSet(s) /\ Cardinality(s) \in Nat
  BY FS_Subset, FS_CardinalityType
<1>2. \A s \in SUBSET S : Cardinality(s) = 0 <=> s = {}
  BY <1>1, FS_EmptySet
<1>3. ASSUME NEW n \in Nat, NEW s \in SUBSET S, Cardinality(s) = n + 1
      PROVE  s # {} /\ Pick(s) \in s /\ s \ {Pick(s)} \in SUBSET S /\ Cardinality(s \ {Pick(s)}) = n
  BY <1>3, Smaller
<1>4. 0 \in G
  <2> DEFINE g == [s \in Small(0) |-> 0]
  <2>1. \A s \in Small(0) : s = {}
    BY <1>1, <1>2
  <2>2. g \in Sums(0)
    BY <2>1
  <2> QED BY <2>2
<1>5. ASSUME NEW n \in Nat, n \in G PROVE n + 1 \in G
  <2>1. PICK g \in Sums(n) : TRUE
    BY <1>5
  <2> DEFINE h == [s \in Small(n + 1) |->
                      IF Cardinality(s) <= n THEN g[s] ELSE f[Pick(s)] + g[s \ {Pick(s)}]]
  <2>2. ASSUME NEW s \in Small(n + 1), Cardinality(s) <= n
        PROVE  h[s] \in Nat /\ h[s] = IF s = {} THEN 0 ELSE f[Pick(s)] + h[s \ {Pick(s)}]
    <3>1. s \in Small(n) /\ h[s] = g[s] /\ g[s] \in Nat
      BY <2>1, <2>2
    <3>2. CASE s # {}
      <4>1. Cardinality(s) \in Nat /\ Cardinality(s) # 0
        BY <1>1, <1>2, <3>2
      <4>2. Cardinality(s) - 1 \in Nat /\ Cardinality(s) = (Cardinality(s) - 1) + 1
        BY <4>1
      <4>3. s \ {Pick(s)} \in SUBSET S /\ Cardinality(s \ {Pick(s)}) = Cardinality(s) - 1
        BY <1>3, <4>2
      <4>4. s \ {Pick(s)} \in Small(n) /\ h[s \ {Pick(s)}] = g[s \ {Pick(s)}]
        BY <2>2, <4>1, <4>3
      <4> QED BY <2>1, <3>1, <3>2, <4>4
    <3> QED BY <2>1, <3>1, <3>2
  <2>3. ASSUME NEW s \in Small(n + 1), ~ (Cardinality(s) <= n)
        PROVE  h[s] \in Nat /\ h[s] = IF s = {} THEN 0 ELSE f[Pick(s)] + h[s \ {Pick(s)}]
    <3>1. s \in SUBSET S /\ Cardinality(s) = n + 1
      BY <1>1, <2>3
    <3>2. s # {} /\ Pick(s) \in S /\ s \ {Pick(s)} \in SUBSET S /\ Cardinality(s \ {Pick(s)}) = n
      BY <1>3, <3>1
    <3>3. s \ {Pick(s)} \in Small(n) /\ h[s \ {Pick(s)}] = g[s \ {Pick(s)}] /\ g[s \ {Pick(s)}] \in Nat
      BY <2>1, <3>2
    <3>4. h[s] = f[Pick(s)] + g[s \ {Pick(s)}]
      BY <2>3
    <3> QED BY <3>2, <3>3, <3>4
  <2>4. h \in [Small(n + 1) -> Nat]
    BY <2>2, <2>3
  <2>5. h \in Sums(n + 1)
    <3> HIDE DEF h
    <3> QED BY <2>2, <2>3, <2>4
  <2>6. n + 1 \in Nat
    OBVIOUS
  <2> HIDE DEF Sums, h
  <2> QED BY <2>5, <2>6
<1>6. Nat \subseteq G
  <2> HIDE DEF G
  <2> QED BY <1>4, <1>5, NumberInduction
<1>7. Cardinality(S) \in Nat /\ Small(Cardinality(S)) = SUBSET S
  BY <1>1, FS_Subset, FS_CardinalityType
<1>8. PICK g \in Sums(Cardinality(S)) : TRUE
  BY <1>6, <1>7
<1>9. g \in [SUBSET S -> Nat] /\ \A s \in SUBSET S :
         g[s] = IF s = {} THEN 0 ELSE f[Pick(s)] + g[s \ {Pick(s)}]
  <2> HIDE DEF Small
  <2> QED BY <1>7, <1>8
<1> QED
  BY <1>9 DEF SumRule

\* A sum of natural numbers is a natural number.
LEMMA SumType ==
    ASSUME NEW S, IsFiniteSet(S), NEW f, \A i \in S : f[i] \in Nat
    PROVE  SumOver(f, S) \in Nat
<1> DEFINE Rec(g) == [s \in SUBSET S |-> IF s = {} THEN 0 ELSE f[Pick(s)] + g[s \ {Pick(s)}]]
           iter == CHOOSE g : g = Rec(g)
<1>1. PICK g \in [SUBSET S -> Nat] : SumRule(g, f, S)
  BY SumExists
<1>2. g = Rec(g)
  BY <1>1 DEF SumRule
<1>3. iter = Rec(iter)
  <2> HIDE DEF Rec
  <2> QED BY <1>2
<1>4. SumOver(f, S) = iter[S]
  BY DEF SumOver, MapThenSumSet, MapThenFoldSet, Pick
<1>5. \A s \in SUBSET S : iter[s] = IF s = {} THEN 0 ELSE f[Pick(s)] + iter[s \ {Pick(s)}]
  <2> HIDE DEF iter
  <2> QED BY <1>3
<1> HIDE DEF iter
<1> DEFINE G == {n \in Nat : \A s \in SUBSET S : Cardinality(s) = n => iter[s] \in Nat}
<1>6. 0 \in G
  <2>1. ASSUME NEW s \in SUBSET S, Cardinality(s) = 0 PROVE s = {}
    BY <2>1, FS_Subset, FS_EmptySet
  <2>2. iter[{}] = 0
    BY <1>5
  <2> QED BY <2>1, <2>2
<1>7. ASSUME NEW n \in Nat, n \in G PROVE n + 1 \in G
  <2>1. ASSUME NEW s \in SUBSET S, Cardinality(s) = n + 1 PROVE iter[s] \in Nat
    <3>1. s # {} /\ Pick(s) \in s /\ s \ {Pick(s)} \in SUBSET S /\ Cardinality(s \ {Pick(s)}) = n
      BY <2>1, Smaller
    <3>2. iter[s \ {Pick(s)}] \in Nat /\ f[Pick(s)] \in Nat
      BY <1>7, <3>1
    <3> QED BY <1>5, <3>1, <3>2
  <2> QED BY <2>1
<1>8. Nat \subseteq G
  <2> HIDE DEF G
  <2> QED BY <1>6, <1>7, NumberInduction
<1>9. Cardinality(S) \in Nat
  BY FS_CardinalityType
<1> QED
  BY <1>4, <1>8, <1>9

-----------------------------------------------------------------------------
(* Buckets.                                                                *)

\* There are at least two buckets: NewExponentialHistogramOptions finds a power of
\* Ratio that reaches MaxValue, and it is not the first.
LEMMA BucketsType ==
    /\ NumBuckets \in Nat /\ NumBuckets >= 2
    /\ Last \in Nat /\ Last >= 1 /\ Buckets = 0 .. Last
    /\ 0 \in Buckets /\ Last \in Buckets
<1> DEFINE P(n) == Power(Ratio, n)
           S == {n \in 0 .. MaxValue :
                    FirstBucketSize * (P(n) - 1) >= MaxValue * (Ratio - 1)}
<1>1. /\ FirstBucketSize \in Nat /\ FirstBucketSize > 0 /\ MaxValue \in Nat /\ MaxValue > 0
      /\ Ratio \in Nat /\ Ratio > 1
  BY OptionsAssumption
<1>2. P(0) = 1 /\ P(MaxValue) \in Nat /\ P(MaxValue) - 1 >= MaxValue * (Ratio - 1)
  BY <1>1, PowerLaws, PowerGrows
<1> HIDE DEF P
<1>3. MaxValue \in S
  <2>1. P(MaxValue) - 1 \in Int /\ MaxValue * (Ratio - 1) \in Nat
    BY <1>1, <1>2
  <2>2. P(MaxValue) - 1 >= 0
    BY <1>2, <2>1
  <2>3. FirstBucketSize * (P(MaxValue) - 1)
            = (FirstBucketSize - 1) * (P(MaxValue) - 1) + (P(MaxValue) - 1)
    BY <1>1, <2>1
  <2>4. (FirstBucketSize - 1) * (P(MaxValue) - 1) >= 0
    BY <1>1, <2>1, <2>2
  <2>5. (FirstBucketSize - 1) * (P(MaxValue) - 1) \in Int
    BY <1>1, <2>1
  <2>6. FirstBucketSize * (P(MaxValue) - 1) >= MaxValue * (Ratio - 1)
    BY <1>2, <2>1, <2>3, <2>4, <2>5
  <2> QED BY <1>1, <2>6
<1>4. 0 \notin S
  <2>1. FirstBucketSize * (P(0) - 1) = 0
    BY <1>1, <1>2
  <2>2. MaxValue * (Ratio - 1) > 0
    BY <1>1
  <2> QED BY <1>1, <2>1, <2>2
<1>5. Min(S) \in S
  <2>1. S \subseteq 0 .. MaxValue /\ S # {} /\ 0 \in Int /\ MaxValue \in Int
    BY <1>1, <1>3
  <2> HIDE DEF S
  <2> QED BY <2>1, MinMaxInterval
<1>6. NumBuckets = 1 + Min(S)
  BY DEF NumBuckets, P
<1>7. Min(S) \in Nat /\ Min(S) # 0
  <2>1. S \subseteq Nat
    BY <1>1
  <2> HIDE DEF S
  <2> QED BY <1>4, <1>5, <2>1
<1> HIDE DEF S
<1>8. NumBuckets \in Nat /\ NumBuckets >= 2
  BY <1>6, <1>7
<1> QED
  BY <1>8 DEF Buckets, Last

\* FindBucket returns a bucket.
LEMMA FindBucketType ==
    ASSUME NEW value \in Nat
    PROVE  FindBucket(value) \in Buckets
<1> DEFINE S == {b \in Buckets :
                    Power(Ratio, b) * FirstBucketSize <= value * (Ratio - 1) + FirstBucketSize}
<1>1. FirstBucketSize \in Nat /\ Ratio \in Nat /\ Ratio > 1
  BY OptionsAssumption
<1>2. 0 \in S
  <2>1. Power(Ratio, 0) * FirstBucketSize = FirstBucketSize
    BY <1>1, PowerLaws
  <2>2. value * (Ratio - 1) \in Nat
    BY <1>1
  <2>3. Power(Ratio, 0) * FirstBucketSize <= value * (Ratio - 1) + FirstBucketSize
    BY <1>1, <2>1, <2>2
  <2> QED BY <2>3, BucketsType
<1>3. Max(S) \in S
  <2>1. S \subseteq 0 .. Last /\ S # {} /\ Last \in Int /\ 0 \in Int
    BY <1>2, BucketsType
  <2> HIDE DEF S
  <2> QED BY <2>1, MinMaxInterval
<1>4. Max(S) \in Buckets
  BY <1>3
<1> QED
  BY <1>4, BucketsType DEF FindBucket

-----------------------------------------------------------------------------
(* Operations on histograms.                                               *)

\* The histograms of the program.
HistogramType ==
    [weight : [Buckets -> Nat], total : Nat, unit : Nat \ {0},
     min : Buckets, max : Buckets, reference : Int]

\* All buckets that are not empty are between the bounds.
Within(h) == \A b \in Buckets : NonEmpty(h, b) => h.min <= b /\ b <= h.max

\* The bounds are the first and the last bucket that is not empty.
Exact(h) ==
    /\ Within(h)
    /\ NonEmpty(h, h.min) \/ h.min = Last
    /\ NonEmpty(h, h.max) \/ h.max = 0

\* Exact says of a histogram what BoundsExact does.
LEMMA ExactBounds ==
    ASSUME NEW h \in HistogramType, Exact(h)
    PROVE  LET S == {b \in Buckets : NonEmpty(h, b)}
           IN  h.min = Min(S \cup {Last}) /\ h.max = Max(S \cup {0})
<1> DEFINE S == {b \in Buckets : NonEmpty(h, b)}
<1>1. /\ Last \in Nat /\ 0 \in Int /\ Last \in Int
      /\ S \cup {Last} \subseteq 0 .. Last /\ S \cup {0} \subseteq 0 .. Last
  BY BucketsType
<1>2. h.min \in 0 .. Last /\ h.max \in 0 .. Last
  BY BucketsType DEF HistogramType
<1>3. h.min \in S \cup {Last} /\ h.max \in S \cup {0}
  BY <1>2, BucketsType DEF Exact
<1>4. \A b \in S : h.min <= b /\ b <= h.max
  BY DEF Exact, Within
<1>5. /\ Min(S \cup {Last}) \in S \cup {Last}
      /\ \A m \in S \cup {Last} : Min(S \cup {Last}) <= m
  <2> HIDE DEF S
  <2> QED BY <1>1, MinMaxInterval
<1>6. /\ Max(S \cup {0}) \in S \cup {0}
      /\ \A m \in S \cup {0} : Max(S \cup {0}) >= m
  <2> HIDE DEF S
  <2> QED BY <1>1, MinMaxInterval
<1> HIDE DEF S
<1>7. h.min = Min(S \cup {Last})
  BY <1>1, <1>2, <1>3, <1>4, <1>5
<1>8. h.max = Max(S \cup {0})
  BY <1>1, <1>2, <1>3, <1>4, <1>6
<1> QED
  BY <1>7, <1>8 DEF S

\* Exactness depends on the bounds and on which buckets are empty.
LEMMA ExactSame ==
    ASSUME NEW h, NEW g, g.min = h.min, g.max = h.max, h.min \in Buckets, h.max \in Buckets,
           \A b \in Buckets : NonEmpty(g, b) <=> NonEmpty(h, b)
    PROVE  (Exact(h) => Exact(g)) /\ (Within(h) => Within(g))
BY DEF Exact, Within

\* A new histogram.
LEMMA NewHistogramType ==
    /\ NewHistogram \in HistogramType
    /\ Exact(NewHistogram)
<1>1. Epsilon \in Nat /\ Epsilon > 0 /\ MaxDecayExponent \in Nat
  BY OptionsAssumption
<1>2. NewHistogram \in HistogramType
  BY <1>1, BucketsType DEF NewHistogram, HistogramType
<1>3. \A b \in Buckets : ~ NonEmpty(NewHistogram, b)
  BY <1>1 DEF NonEmpty, NewHistogram
<1>4. NewHistogram.min = Last /\ NewHistogram.max = 0
  BY DEF NewHistogram
<1> QED
  BY <1>2, <1>3, <1>4 DEF Exact, Within

\* Two numbers compare as their multiples do.
LEMMA MultiplesCompare ==
    ASSUME NEW k \in Nat, k > 0, NEW w \in Nat, NEW e \in Nat
    PROVE  k * w >= k * e <=> w >= e
<1>1. CASE w >= e
  <2>1. k * (w - e) >= 0 /\ k * (w - e) = k * w - k * e
    BY <1>1
  <2> QED BY <1>1, <2>1
<1>2. CASE w < e
  <2>1. k * (e - w) > 0 /\ k * (e - w) = k * e - k * w
    BY <1>2
  <2> QED BY <1>2, <2>1
<1> QED
  BY <1>1, <1>2

\* Counting in a smaller unit changes no weight.
LEMMA RefinedKeeps ==
    ASSUME NEW h \in HistogramType, NEW k \in Nat, k > 0
    PROVE  /\ Refined(h, k) \in HistogramType
           /\ Refined(h, k).min = h.min /\ Refined(h, k).max = h.max
           /\ Refined(h, k).reference = h.reference
           /\ \A b \in Buckets : Refined(h, k).weight[b] = k * h.weight[b]
           /\ \A b \in Buckets : NonEmpty(Refined(h, k), b) <=> NonEmpty(h, b)
<1>1. Epsilon \in Nat
  BY OptionsAssumption
<1>2. /\ h.weight \in [Buckets -> Nat] /\ h.total \in Nat /\ h.unit \in Nat /\ h.unit > 0
      /\ h.min \in Buckets /\ h.max \in Buckets /\ h.reference \in Int
  BY DEF HistogramType
<1> DEFINE g == Refined(h, k)
<1>3. /\ g.weight = [b \in Buckets |-> k * h.weight[b]] /\ g.unit = k * h.unit
      /\ g.min = h.min /\ g.max = h.max /\ g.reference = h.reference
  BY DEF Refined, HistogramType
<1>4. k * h.unit \in Nat \ {0} /\ k * h.total \in Nat
  BY <1>2
<1>5. \A b \in Buckets : k * h.weight[b] \in Nat
  BY <1>2
<1>6. g \in HistogramType
  <2>1. [b \in Buckets |-> k * h.weight[b]] \in [Buckets -> Nat]
    BY <1>5
  <2> QED BY <1>4, <2>1 DEF HistogramType, Refined
<1> HIDE DEF g
<1>7. ASSUME NEW b \in Buckets PROVE NonEmpty(g, b) <=> NonEmpty(h, b)
  <2>1. g.weight[b] = k * h.weight[b] /\ g.unit = k * h.unit
    BY <1>3
  <2>2. h.weight[b] \in Nat /\ Epsilon * h.unit \in Nat
    BY <1>1, <1>2
  <2>3. Epsilon * (k * h.unit) = k * (Epsilon * h.unit)
    BY <1>1, <1>2
  <2> DEFINE w == h.weight[b]
             e == Epsilon * h.unit
  <2>4. NonEmpty(h, b) <=> w >= e
    BY DEF NonEmpty
  <2>5. NonEmpty(g, b) <=> k * w >= k * e
    BY <2>1, <2>3 DEF NonEmpty
  <2>6. w \in Nat /\ e \in Nat
    BY <2>2
  <2> HIDE DEF w, e
  <2>7. k * w >= k * e <=> w >= e
    BY <2>6, MultiplesCompare
  <2> QED BY <2>4, <2>5, <2>7
<1> QED
  BY <1>3, <1>6, <1>7 DEF g

\* Division by a divisor.
LEMMA Divided ==
    ASSUME NEW d \in Nat, d > 0, NEW n \in Nat, n % d = 0
    PROVE  n \div d \in Nat /\ n = d * (n \div d)
OBVIOUS

\* Counting in the largest unit changes no weight.
LEMMA ReducedKeeps ==
    ASSUME NEW h \in HistogramType
    PROVE  /\ Reduced(h) \in HistogramType
           /\ Reduced(h).min = h.min /\ Reduced(h).max = h.max
           /\ Reduced(h).reference = h.reference
           /\ \A b \in Buckets : NonEmpty(Reduced(h), b) <=> NonEmpty(h, b)
<1>1. Epsilon \in Nat
  BY OptionsAssumption
<1>2. /\ h.weight \in [Buckets -> Nat] /\ h.total \in Nat /\ h.unit \in Nat /\ h.unit > 0
      /\ h.min \in Buckets /\ h.max \in Buckets /\ h.reference \in Int
  BY DEF HistogramType
<1> DEFINE D == {n \in 1 .. h.unit :
                   /\ h.unit % n = 0 /\ h.total % n = 0
                   /\ \A b \in Buckets : h.weight[b] % n = 0}
           d == Max(D)
           g == Reduced(h)
<1>3. d \in D
  <2>1. 1 \in D
    BY <1>2
  <2>2. D \subseteq 1 .. h.unit /\ D # {} /\ 1 \in Int /\ h.unit \in Int
    BY <1>2, <2>1
  <2> HIDE DEF D
  <2> QED BY <2>2, MinMaxInterval
<1>4. d \in Nat /\ d > 0 /\ h.unit % d = 0 /\ h.total % d = 0
  <2> HIDE DEF d
  <2> QED BY <1>2, <1>3
<1>5. \A b \in Buckets : h.weight[b] % d = 0
  <2> HIDE DEF d
  <2> QED BY <1>2, <1>3
<1>6. g = [h EXCEPT !.weight = [b \in Buckets |-> @[b] \div d],
                    !.total = @ \div d, !.unit = @ \div d]
  BY DEF Reduced
<1> HIDE DEF d, D, g
<1>7. /\ g.weight = [b \in Buckets |-> h.weight[b] \div d] /\ g.unit = h.unit \div d
      /\ g.min = h.min /\ g.max = h.max /\ g.reference = h.reference
  BY <1>6 DEF HistogramType
<1>8. h.unit \div d \in Nat /\ h.unit = d * (h.unit \div d) /\ h.total \div d \in Nat
  BY <1>2, <1>4, Divided
<1>9. \A b \in Buckets : h.weight[b] \div d \in Nat /\ h.weight[b] = d * (h.weight[b] \div d)
  BY <1>2, <1>4, <1>5, Divided
<1>10. g \in HistogramType
  <2>1. h.unit \div d # 0
    <3> SUFFICES ASSUME h.unit \div d = 0 PROVE FALSE
      OBVIOUS
    <3>1. h.unit = d * 0
      BY <1>8
    <3> QED BY <1>2, <1>4, <3>1
  <2>2. [b \in Buckets |-> h.weight[b] \div d] \in [Buckets -> Nat]
    BY <1>9
  <2> QED BY <1>6, <1>8, <2>1, <2>2 DEF HistogramType
<1>11. ASSUME NEW b \in Buckets PROVE NonEmpty(g, b) <=> NonEmpty(h, b)
  <2> DEFINE w == h.weight[b] \div d
             u == h.unit \div d
  <2>1. NonEmpty(g, b) <=> w >= Epsilon * u
    BY <1>7 DEF NonEmpty
  <2>2. NonEmpty(h, b) <=> d * w >= Epsilon * (d * u)
    BY <1>8, <1>9 DEF NonEmpty
  <2>3. w \in Nat /\ u \in Nat
    BY <1>8, <1>9
  <2> HIDE DEF w, u
  <2>4. Epsilon * (d * u) = d * (Epsilon * u) /\ Epsilon * u \in Nat
    BY <1>1, <1>4, <2>3
  <2>5. d * w >= d * (Epsilon * u) <=> w >= Epsilon * u
    BY <1>4, <2>3, <2>4, MultiplesCompare
  <2> QED BY <2>1, <2>2, <2>4, <2>5
<1> QED
  BY <1>7, <1>10, <1>11 DEF g

\* updateMinAndMaxBucket makes the bounds exact if all that is not empty is between
\* the old ones.
LEMMA WithBoundsExact ==
    ASSUME NEW h \in HistogramType
    PROVE  /\ WithBounds(h) \in HistogramType
           /\ WithBounds(h).reference = h.reference
           /\ WithBounds(h).unit = h.unit
           /\ Within(h) => Exact(WithBounds(h))
<1>1. Last \in Nat /\ 0 \in Int /\ Last \in Int /\ Buckets = 0 .. Last
  BY BucketsType
<1>2. h.min \in 0 .. Last /\ h.max \in 0 .. Last
  BY <1>1 DEF HistogramType
<1> DEFINE A == {b \in h.min .. Last : NonEmpty(h, b)} \cup {Last}
           B == {b \in 0 .. h.max : NonEmpty(h, b)} \cup {0}
           g == WithBounds(h)
<1>3. A \subseteq 0 .. Last /\ B \subseteq 0 .. Last /\ A # {} /\ B # {}
  BY <1>1, <1>2
<1>4. /\ Min(A) \in A /\ \A m \in A : Min(A) <= m
      /\ Max(B) \in B /\ \A m \in B : Max(B) >= m
  <2> HIDE DEF A, B
  <2> QED BY <1>1, <1>3, MinMaxInterval
<1>5. g.min = Min(A) /\ g.max = Max(B) /\ g.reference = h.reference
        /\ g.weight = h.weight /\ g.unit = h.unit /\ g \in HistogramType
  <2>1. g = [h EXCEPT !.min = Min(A), !.max = Max(B)]
    BY DEF WithBounds
  <2>2. Min(A) \in Buckets /\ Max(B) \in Buckets
    <3> HIDE DEF A, B
    <3> QED BY <1>1, <1>3, <1>4
  <2> HIDE DEF A, B, g
  <2> QED BY <2>1, <2>2 DEF HistogramType
<1>6. \A b \in Buckets : NonEmpty(g, b) <=> NonEmpty(h, b)
  <2> HIDE DEF A, B, g
  <2> QED BY <1>5 DEF NonEmpty
<1>7. ASSUME Within(h) PROVE Exact(g)
  <2> DEFINE lo == Min(A)
             hi == Max(B)
  <2>0. g.min = lo /\ g.max = hi
    BY <1>5
  <2>1. lo = Last \/ NonEmpty(h, lo)
    BY <1>4
  <2>2. hi = 0 \/ NonEmpty(h, hi)
    BY <1>4
  <2>3. lo \in Buckets /\ hi \in Buckets
    <3> HIDE DEF A, B
    <3> QED BY <1>1, <1>3, <1>4
  <2>4. ASSUME NEW b \in Buckets, NonEmpty(h, b) PROVE lo <= b /\ b <= hi
    <3>1. h.min <= b /\ b <= h.max
      BY <1>7, <2>4 DEF Within
    <3>2. b \in A /\ b \in B
      BY <1>1, <1>2, <2>4, <3>1
    <3> HIDE DEF A, B
    <3> QED BY <1>4, <3>2
  <2> HIDE DEF g, lo, hi
  <2> QED BY <1>6, <2>0, <2>1, <2>2, <2>3, <2>4 DEF Exact, Within
<1> QED
  BY <1>5, <1>7

\* scale: what is between the bounds weighs less, and nothing else more.
LEMMA ScaledExact ==
    ASSUME NEW h \in HistogramType, NEW k \in Nat
    PROVE  /\ Scaled(h, k) \in HistogramType
           /\ Exact(h) => Exact(Scaled(h, k))
<1> DEFINE p == Power(2, k)
           W == [b \in Buckets |-> IF b \in h.min .. h.max THEN h.weight[b] ELSE p * h.weight[b]]
           g == [h EXCEPT !.weight = W, !.unit = p * @]
<1>1. p \in Nat /\ p > 0 /\ Epsilon \in Nat
  BY PowerGrows, OptionsAssumption
<1>2. /\ h.weight \in [Buckets -> Nat] /\ h.unit \in Nat /\ h.unit > 0
      /\ h.min \in Buckets /\ h.max \in Buckets
  BY DEF HistogramType
<1>3. Scaled(h, k) = WithBounds(g)
  BY <1>2 DEF Scaled, HistogramType
<1> HIDE DEF p
<1>4. W \in [Buckets -> Nat]
  BY <1>1, <1>2
<1>5. p * h.unit \in Nat \ {0}
  BY <1>1, <1>2
<1>6. /\ g \in HistogramType /\ g.weight = W /\ g.unit = p * h.unit
      /\ g.min = h.min /\ g.max = h.max
  <2> HIDE DEF W
  <2> QED BY <1>4, <1>5 DEF HistogramType
<1>7. ASSUME Exact(h) PROVE Within(g)
  <2>1. SUFFICES ASSUME NEW b \in Buckets, NonEmpty(g, b) PROVE h.min <= b /\ b <= h.max
    BY <1>6 DEF Within
  <2>2. SUFFICES ASSUME b \notin h.min .. h.max PROVE FALSE
    BY <1>2, BucketsType
  <2>3. ~ NonEmpty(h, b)
    BY <1>2, <1>7, <2>2, BucketsType DEF Exact, Within
  <2>4. g.weight[b] = p * h.weight[b] /\ g.unit = p * h.unit
    BY <1>6, <2>2
  <2> DEFINE w == h.weight[b]
             e == Epsilon * h.unit
  <2>5. p * w >= Epsilon * (p * h.unit)
    BY <2>1, <2>4 DEF NonEmpty
  <2>6. Epsilon * (p * h.unit) = p * e /\ w \in Nat /\ e \in Nat
    BY <1>1, <1>2
  <2>7. ~ (w >= e)
    BY <2>3 DEF NonEmpty
  <2> HIDE DEF w, e
  <2> QED BY <1>1, <2>5, <2>6, <2>7, MultiplesCompare
<1> HIDE DEF g
<1> QED
  BY <1>3, <1>6, <1>7, WithBoundsExact

\* shiftReferenceTimestamp to a later time.
LEMMA ShiftExact ==
    ASSUME NEW h \in HistogramType, NEW time \in Int, time >= h.reference
    PROVE  /\ shiftReferenceTimestamp(h, time) \in HistogramType
           /\ shiftReferenceTimestamp(h, time).reference = time
           /\ Exact(h) => Exact(shiftReferenceTimestamp(h, time))
<1> DEFINE s == Scaled(h, time - h.reference)
           g == shiftReferenceTimestamp(h, time)
<1>1. time - h.reference \in Nat
  BY DEF HistogramType
<1>2. s \in HistogramType /\ (Exact(h) => Exact(s))
  BY <1>1, ScaledExact
<1>3. g = [s EXCEPT !.reference = time]
  BY DEF shiftReferenceTimestamp
<1> HIDE DEF s, g
<1>4. /\ g \in HistogramType /\ g.reference = time
      /\ g.min = s.min /\ g.max = s.max /\ g.weight = s.weight /\ g.unit = s.unit
      /\ s.min \in Buckets /\ s.max \in Buckets
  BY <1>2, <1>3 DEF HistogramType
<1>5. \A b \in Buckets : NonEmpty(g, b) <=> NonEmpty(s, b)
  BY <1>4 DEF NonEmpty
<1>6. Exact(s) => Exact(g)
  BY <1>4, <1>5, ExactSame
<1> QED
  BY <1>2, <1>4, <1>6 DEF g

\* decayFactor may move the reference time.
LEMMA RenormalizedExact ==
    ASSUME NEW h \in HistogramType, NEW time \in Int
    PROVE  /\ Renormalized(h, time) \in HistogramType
           /\ Exact(h) => Exact(Renormalized(h, time))
<1>1. CASE time > h.reference + MaxDecayExponent
  <2>1. time >= h.reference
    BY <1>1, OptionsAssumption DEF HistogramType
  <2> QED BY <1>1, <2>1, ShiftExact DEF Renormalized
<1>2. CASE ~ (time > h.reference + MaxDecayExponent)
  BY <1>2 DEF Renormalized
<1> QED
  BY <1>1, <1>2

\* The sample's weight is whole in the unit that is prepared for it.
LEMMA PreparedExact ==
    ASSUME NEW h \in HistogramType, NEW time \in Int
    PROVE  /\ Prepared(h, time) \in HistogramType
           /\ Exact(h) => Exact(Prepared(h, time))
<1>1. CASE time < h.reference
  <2> DEFINE k == Power(2, h.reference - time)
             g == Refined(h, k)
  <2>1. h.reference - time \in Nat
    BY <1>1 DEF HistogramType
  <2>2. k \in Nat /\ k > 0
    BY <2>1, PowerOfTwo
  <2>3. Prepared(h, time) = g
    BY <1>1 DEF Prepared
  <2> HIDE DEF k
  <2>4. /\ g \in HistogramType /\ g.min = h.min /\ g.max = h.max
        /\ \A b \in Buckets : NonEmpty(g, b) <=> NonEmpty(h, b)
    BY <2>2, RefinedKeeps
  <2> HIDE DEF g
  <2>5. h.min \in Buckets /\ h.max \in Buckets
    BY DEF HistogramType
  <2>6. Exact(h) => Exact(g)
    BY <2>4, <2>5, ExactSame
  <2> QED BY <2>3, <2>4, <2>6
<1>2. CASE ~ (time < h.reference)
  BY <1>2 DEF Prepared
<1> QED
  BY <1>1, <1>2

\* A decayed weight is a natural number.
LEMMA DecayedType ==
    ASSUME NEW h \in HistogramType, NEW weight \in Nat, NEW time \in Int
    PROVE  Decayed(h, weight, time) \in Nat
<1>1. h.unit \in Nat /\ h.reference \in Int
  BY DEF HistogramType
<1>2. weight * h.unit \in Nat
  BY <1>1
<1>3. CASE time < h.reference
  <2>1. h.reference - time \in Nat
    BY <1>1, <1>3
  <2>2. Power(2, h.reference - time) \in Nat /\ Power(2, h.reference - time) > 0
    BY <2>1, PowerOfTwo
  <2>3. (weight * h.unit) \div Power(2, h.reference - time) \in Nat
    BY <1>2, <2>2
  <2> QED BY <1>3, <2>3 DEF Decayed
<1>4. CASE ~ (time < h.reference)
  <2>1. time - h.reference \in Nat
    BY <1>1, <1>4
  <2>2. Power(2, time - h.reference) \in Nat
    BY <2>1, PowerOfTwo
  <2>3. weight * h.unit * Power(2, time - h.reference) \in Nat
    BY <1>2, <2>2
  <2> QED BY <1>4, <2>3 DEF Decayed
<1> QED
  BY <1>3, <1>4

\* AddSample: the bounds follow the bucket that the weight is added to.
LEMMA AddedExact ==
    ASSUME NEW g \in HistogramType, NEW b \in Buckets, NEW w \in Nat
    PROVE  /\ Added(g, b, w) \in HistogramType
           /\ Exact(g) => Exact(Added(g, b, w))
<1> DEFINE h == [g EXCEPT !.weight[b] = @ + w, !.total = @ + w]
           lo == IF b < g.min /\ NonEmpty(h, b) THEN b ELSE g.min
           hi == IF b > g.max /\ NonEmpty(h, b) THEN b ELSE g.max
           r == Added(g, b, w)
<1>1. /\ g.weight \in [Buckets -> Nat] /\ g.total \in Nat /\ g.unit \in Nat /\ g.unit > 0
      /\ g.min \in Buckets /\ g.max \in Buckets
  BY DEF HistogramType
<1>2. /\ h \in HistogramType /\ h.weight = [g.weight EXCEPT ![b] = @ + w]
      /\ h.unit = g.unit /\ h.min = g.min /\ h.max = g.max
  <2> DEFINE W == [g.weight EXCEPT ![b] = @ + w]
  <2>1. W \in [Buckets -> Nat]
    BY <1>1
  <2>2. h = [g EXCEPT !.weight = W, !.total = g.total + w]
    OBVIOUS
  <2>4. g.total + w \in Nat
    BY <1>1
  <2> HIDE DEF W, h
  <2>3. /\ h \in HistogramType /\ h.weight = W
        /\ h.unit = g.unit /\ h.min = g.min /\ h.max = g.max
    BY <2>1, <2>2, <2>4 DEF HistogramType
  <2> QED BY <2>3 DEF W
<1>3. r = [h EXCEPT !.min = lo, !.max = hi]
  BY <1>2 DEF Added
<1>4. lo \in Buckets /\ hi \in Buckets
  BY <1>1
<1> HIDE DEF h, lo, hi, r
<1>5. /\ r \in HistogramType /\ r.min = lo /\ r.max = hi
      /\ r.weight = h.weight /\ r.unit = h.unit
  BY <1>2, <1>3, <1>4 DEF HistogramType
<1>6. \A i \in Buckets : NonEmpty(r, i) <=> NonEmpty(h, i)
  BY <1>5 DEF NonEmpty
<1>7. \A i \in Buckets : i # b => (NonEmpty(h, i) <=> NonEmpty(g, i))
  BY <1>1, <1>2 DEF NonEmpty
<1>8. NonEmpty(g, b) => NonEmpty(h, b)
  <2>1. Epsilon * g.unit \in Nat
    BY <1>1, OptionsAssumption
  <2>2. h.weight[b] = g.weight[b] + w /\ g.weight[b] \in Nat
    BY <1>1, <1>2
  <2> QED BY <1>2, <2>1, <2>2 DEF NonEmpty
<1>9. ASSUME Exact(g) PROVE Exact(r)
  <2>1. /\ \A i \in Buckets : NonEmpty(g, i) => g.min <= i /\ i <= g.max
        /\ NonEmpty(g, g.min) \/ g.min = Last
        /\ NonEmpty(g, g.max) \/ g.max = 0
    BY <1>9 DEF Exact, Within
  <2>2. Last \in Nat /\ Buckets = 0 .. Last
    BY BucketsType
  <2>3. ASSUME NEW i \in Buckets, NonEmpty(h, i) PROVE lo <= i /\ i <= hi
    BY <1>1, <1>7, <2>1, <2>2, <2>3 DEF lo, hi
  <2>4. NonEmpty(h, lo) \/ lo = Last
    BY <1>1, <1>7, <1>8, <2>1, <2>2 DEF lo
  <2>5. NonEmpty(h, hi) \/ hi = 0
    BY <1>1, <1>7, <1>8, <2>1, <2>2 DEF hi
  <2> QED BY <1>4, <1>5, <1>6, <2>3, <2>4, <2>5 DEF Exact, Within
<1> QED
  BY <1>5, <1>9 DEF r

\* Reduced keeps the bounds exact.
LEMMA ReducedExact ==
    ASSUME NEW h \in HistogramType
    PROVE  /\ Reduced(h) \in HistogramType
           /\ Exact(h) => Exact(Reduced(h))
<1>1. h.min \in Buckets /\ h.max \in Buckets
  BY DEF HistogramType
<1> QED
  BY <1>1, ReducedKeeps, ExactSame

\* AddSample of a decaying histogram.
LEMMA HistAddSampleExact ==
    ASSUME NEW h \in HistogramType, NEW value \in Nat, NEW weight \in Nat, NEW time \in Int
    PROVE  /\ HistAddSample(h, value, weight, time) \in HistogramType
           /\ Exact(h) => Exact(HistAddSample(h, value, weight, time))
<1> DEFINE n == Renormalized(h, time)
           g == Prepared(n, time)
           b == FindBucket(value)
           w == Decayed(g, weight, time)
           a == Added(g, b, w)
<1>1. n \in HistogramType /\ (Exact(h) => Exact(n))
  BY RenormalizedExact
<1>2. HistAddSample(h, value, weight, time) = Reduced(a)
  BY DEF HistAddSample
<1> HIDE DEF n
<1>3. g \in HistogramType /\ (Exact(n) => Exact(g))
  BY <1>1, PreparedExact
<1> HIDE DEF g
<1>4. b \in Buckets /\ w \in Nat
  BY <1>3, FindBucketType, DecayedType
<1> HIDE DEF b, w
<1>5. a \in HistogramType /\ (Exact(g) => Exact(a))
  BY <1>3, <1>4, AddedExact
<1> HIDE DEF a
<1>6. Reduced(a) \in HistogramType /\ (Exact(a) => Exact(Reduced(a)))
  BY <1>5, ReducedExact
<1> QED
  BY <1>1, <1>2, <1>3, <1>5, <1>6

\* safeSubtract does not make a weight negative, nor larger.
LEMMA SafeSubtractType ==
    ASSUME NEW h \in HistogramType, NEW value \in Nat, NEW sub \in Nat
    PROVE  SafeSubtract(h, value, sub) \in Nat /\ SafeSubtract(h, value, sub) <= value
<1>1. Epsilon * h.unit \in Nat
  BY OptionsAssumption DEF HistogramType
<1> QED
  BY <1>1 DEF SafeSubtract

\* SubtractSample of a decaying histogram.
LEMMA HistSubtractSampleExact ==
    ASSUME NEW h \in HistogramType, NEW value \in Nat, NEW weight \in Nat, NEW time \in Int
    PROVE  /\ HistSubtractSample(h, value, weight, time) \in HistogramType
           /\ Exact(h) => Exact(HistSubtractSample(h, value, weight, time))
<1> DEFINE n == Renormalized(h, time)
           g == Prepared(n, time)
           b == FindBucket(value)
           w == Decayed(g, weight, time)
           T == SafeSubtract(g, g.total, w)
           W == [g.weight EXCEPT ![b] = SafeSubtract(g, @, w)]
           s == [g EXCEPT !.total = T, !.weight = W]
           m == WithBounds(s)
<1>1. n \in HistogramType /\ (Exact(h) => Exact(n))
  BY RenormalizedExact
<1>2. HistSubtractSample(h, value, weight, time) = Reduced(m)
  BY DEF HistSubtractSample
<1> HIDE DEF n
<1>3. g \in HistogramType /\ (Exact(n) => Exact(g))
  BY <1>1, PreparedExact
<1> HIDE DEF g
<1>4. b \in Buckets /\ w \in Nat
  BY <1>3, FindBucketType, DecayedType
<1> HIDE DEF b, w
<1>5. /\ g.weight \in [Buckets -> Nat] /\ g.total \in Nat /\ g.unit \in Nat
      /\ g.min \in Buckets /\ g.max \in Buckets
  BY <1>3 DEF HistogramType
<1>6. T \in Nat /\ W \in [Buckets -> Nat] /\ \A i \in Buckets : W[i] <= g.weight[i]
  <2>1. SafeSubtract(g, g.total, w) \in Nat
    BY <1>3, <1>4, <1>5, SafeSubtractType
  <2>2. SafeSubtract(g, g.weight[b], w) \in Nat /\ SafeSubtract(g, g.weight[b], w) <= g.weight[b]
    BY <1>3, <1>4, <1>5, SafeSubtractType
  <2> QED BY <1>4, <1>5, <2>1, <2>2
<1> HIDE DEF T, W
<1>7. /\ s \in HistogramType /\ s.weight = W /\ s.unit = g.unit
      /\ s.min = g.min /\ s.max = g.max
  BY <1>3, <1>6 DEF HistogramType
<1> HIDE DEF s
<1>8. ASSUME Exact(g) PROVE Within(s)
  <2>1. ASSUME NEW i \in Buckets, NonEmpty(s, i) PROVE NonEmpty(g, i)
    <3>1. Epsilon * g.unit \in Nat
      BY <1>5, OptionsAssumption
    <3>2. W[i] \in Nat /\ g.weight[i] \in Nat /\ W[i] <= g.weight[i] /\ W[i] >= Epsilon * g.unit
      BY <1>5, <1>6, <1>7, <2>1 DEF NonEmpty
    <3> QED BY <3>1, <3>2 DEF NonEmpty
  <2> QED BY <1>7, <1>8, <2>1 DEF Exact, Within
<1>9. m \in HistogramType /\ (Within(s) => Exact(m))
  BY <1>7, WithBoundsExact
<1> HIDE DEF m
<1>10. Reduced(m) \in HistogramType /\ (Exact(m) => Exact(Reduced(m)))
  BY <1>9, ReducedExact
<1> QED
  BY <1>1, <1>2, <1>3, <1>8, <1>9, <1>10

\* The older reference time is moved to the younger one.
LEMMA AlignedExact ==
    ASSUME NEW h \in HistogramType, NEW o \in HistogramType
    PROVE  /\ Aligned(h, o) \in HistogramType
           /\ Exact(h) => Exact(Aligned(h, o))
<1>1. h.reference \in Int /\ o.reference \in Int
  BY DEF HistogramType
<1>2. CASE h.reference < o.reference
  <2>1. o.reference >= h.reference
    BY <1>1, <1>2
  <2> QED BY <1>1, <1>2, <2>1, ShiftExact DEF Aligned
<1>3. CASE ~ (h.reference < o.reference)
  BY <1>3 DEF Aligned
<1> QED
  BY <1>2, <1>3

\* A histogram in a smaller unit has the same bounds, as exact as they were.
LEMMA RefinedExact ==
    ASSUME NEW h \in HistogramType, NEW k \in Nat, k > 0
    PROVE  /\ Refined(h, k) \in HistogramType
           /\ Exact(h) => Exact(Refined(h, k))
           /\ Refined(h, k).unit = k * h.unit
<1>1. h.min \in Buckets /\ h.max \in Buckets /\ Refined(h, k).unit = k * h.unit
  BY DEF HistogramType, Refined
<1> QED
  BY <1>1, RefinedKeeps, ExactSame

\* What Merge adds to bucket i from the histogram o.
Share(o, i) == IF i \in o.min .. o.max THEN o.weight[i] ELSE 0

\* The sum of a histogram and of the buckets between the bounds of another one.
Summed(h, o) ==
    [h EXCEPT !.weight = [i \in Buckets |-> @[i] + Share(o, i)],
              !.total = @ + o.total, !.min = Min({@, o.min}), !.max = Max({@, o.max})]

\* Adding the buckets between the bounds of one histogram to another in the same unit.
LEMMA SumExact ==
    ASSUME NEW h \in HistogramType, NEW o \in HistogramType, h.unit = o.unit
    PROVE  /\ Summed(h, o) \in HistogramType
           /\ Exact(h) /\ Exact(o) => Exact(Summed(h, o))
<1> DEFINE W == [i \in Buckets |-> h.weight[i] + Share(o, i)]
           lo == IF h.min <= o.min THEN h.min ELSE o.min
           hi == IF h.max >= o.max THEN h.max ELSE o.max
           m == Summed(h, o)
<1>1. Last \in Nat /\ Last >= 1 /\ Buckets = 0 .. Last
  BY BucketsType
<1>2. /\ h.weight \in [Buckets -> Nat] /\ h.total \in Nat /\ h.unit \in Nat /\ h.unit > 0
      /\ o.weight \in [Buckets -> Nat] /\ o.total \in Nat
      /\ h.min \in Buckets /\ h.max \in Buckets /\ o.min \in Buckets /\ o.max \in Buckets
  BY DEF HistogramType
<1>3. Min({h.min, o.min}) = lo /\ Max({h.max, o.max}) = hi
  <2>1. h.min \in Int /\ o.min \in Int /\ h.max \in Int /\ o.max \in Int
    BY <1>1, <1>2
  <2> QED BY <2>1, MinMaxPair
<1>4. m = [h EXCEPT !.weight = W, !.total = h.total + o.total, !.min = lo, !.max = hi]
  <2>1. m = [h EXCEPT !.weight = W, !.total = h.total + o.total,
                      !.min = Min({h.min, o.min}), !.max = Max({h.max, o.max})]
    BY DEF Summed
  <2> HIDE DEF W, lo, hi, m
  <2> QED BY <1>3, <2>1
<1> HIDE DEF m
<1>5. \A i \in Buckets : h.weight[i] \in Nat /\ o.weight[i] \in Nat /\ Share(o, i) \in Nat
  BY <1>2 DEF Share
<1>6. W \in [Buckets -> Nat] /\ \A i \in Buckets : W[i] = h.weight[i] + Share(o, i)
  BY <1>5
<1>7. lo \in Buckets /\ hi \in Buckets /\ h.total + o.total \in Nat
  BY <1>2
<1>8. m \in HistogramType /\ m.weight = W /\ m.unit = h.unit /\ m.min = lo /\ m.max = hi
  <2> HIDE DEF W, lo, hi
  <2> QED BY <1>4, <1>6, <1>7 DEF HistogramType
<1>12. /\ lo \in Nat /\ hi \in Nat
       /\ lo <= h.min /\ lo <= o.min /\ hi >= h.max /\ hi >= o.max
       /\ h.min \in Nat /\ o.min \in Nat /\ h.max \in Nat /\ o.max \in Nat
  <2>1. Buckets \subseteq Nat
    BY <1>1
  <2>2. h.min \in Nat /\ o.min \in Nat /\ h.max \in Nat /\ o.max \in Nat
    BY <1>2, <2>1
  <2>3. lo \in Nat /\ lo <= h.min /\ lo <= o.min
    BY <2>2
  <2>4. hi \in Nat /\ hi >= h.max /\ hi >= o.max
    BY <2>2
  <2> QED BY <2>2, <2>3, <2>4
<1> DEFINE e == Epsilon * h.unit
<1>9. e \in Nat
  BY <1>2, OptionsAssumption
<1>10. \A i \in Buckets : /\ NonEmpty(h, i) <=> h.weight[i] >= e
                          /\ NonEmpty(o, i) <=> o.weight[i] >= e
                          /\ NonEmpty(m, i) <=> h.weight[i] + Share(o, i) >= e
  <2> HIDE DEF W
  <2> QED BY <1>6, <1>8 DEF NonEmpty
<1> HIDE DEF e, W
<1>11. ASSUME Exact(h), Exact(o) PROVE Exact(m)
  <2>1. /\ \A i \in Buckets : NonEmpty(h, i) => h.min <= i /\ i <= h.max
        /\ NonEmpty(h, h.min) \/ h.min = Last
        /\ NonEmpty(h, h.max) \/ h.max = 0
    BY <1>11 DEF Exact, Within
  <2>2. /\ \A i \in Buckets : NonEmpty(o, i) => o.min <= i /\ i <= o.max
        /\ NonEmpty(o, o.min) \/ o.min = Last
        /\ NonEmpty(o, o.max) \/ o.max = 0
    BY <1>11 DEF Exact, Within
  <2>3. ASSUME NEW i \in Buckets, NonEmpty(h, i) PROVE NonEmpty(m, i)
    BY <1>5, <1>9, <1>10, <2>3
  <2>4. ASSUME NEW i \in Buckets, NonEmpty(o, i) PROVE NonEmpty(m, i)
    <3>1. Share(o, i) = o.weight[i]
      BY <1>1, <1>2, <2>2, <2>4 DEF Share
    <3> QED BY <1>5, <1>9, <1>10, <2>4, <3>1
  <2>5. ASSUME NEW i \in Buckets, NonEmpty(m, i) PROVE lo <= i /\ i <= hi
    <3> HIDE DEF lo, hi
    <3>1. CASE i \in o.min .. o.max
      BY <1>12, <3>1
    <3>2. CASE i \notin o.min .. o.max
      <4>1. NonEmpty(h, i)
        BY <1>5, <1>10, <2>5, <3>2 DEF Share
      <4>2. h.min <= i /\ i <= h.max
        BY <2>1, <4>1
      <4> QED BY <1>1, <1>12, <4>2
    <3> QED BY <3>1, <3>2
  <2>6. NonEmpty(m, lo) \/ lo = Last
    <3>1. CASE h.min <= o.min
      BY <1>1, <1>2, <2>1, <2>3, <3>1
    <3>2. CASE ~ (h.min <= o.min)
      BY <1>1, <1>2, <2>2, <2>4, <3>2
    <3> QED BY <3>1, <3>2
  <2>7. NonEmpty(m, hi) \/ hi = 0
    <3>1. CASE h.max >= o.max
      BY <1>1, <1>2, <2>1, <2>3, <3>1
    <3>2. CASE ~ (h.max >= o.max)
      BY <1>1, <1>2, <2>2, <2>4, <3>2
    <3> QED BY <3>1, <3>2
  <2> HIDE DEF lo, hi
  <2> QED BY <1>7, <1>8, <2>5, <2>6, <2>7 DEF Exact, Within
<1> QED
  BY <1>8, <1>11 DEF m

\* Merge.
LEMMA HistMergeExact ==
    ASSUME NEW a \in HistogramType, NEW b \in HistogramType
    PROVE  /\ HistMerge(a, b) \in HistogramType
           /\ Exact(a) /\ Exact(b) => Exact(HistMerge(a, b))
<1> DEFINE p == Aligned(a, b)
           q == Aligned(b, a)
           h == Refined(p, q.unit)
           o == Refined(q, p.unit)
           m == Summed(h, o)
<1>1. /\ p \in HistogramType /\ (Exact(a) => Exact(p))
      /\ q \in HistogramType /\ (Exact(b) => Exact(q))
  BY AlignedExact
<1>2. HistMerge(a, b) = Reduced(m)
  BY DEF HistMerge, Summed, Share
<1> HIDE DEF p, q
<1>3. p.unit \in Nat /\ p.unit > 0 /\ q.unit \in Nat /\ q.unit > 0
  BY <1>1 DEF HistogramType
<1>4. /\ h \in HistogramType /\ (Exact(p) => Exact(h)) /\ h.unit = q.unit * p.unit
      /\ o \in HistogramType /\ (Exact(q) => Exact(o)) /\ o.unit = p.unit * q.unit
  BY <1>1, <1>3, RefinedExact
<1>5. h.unit = o.unit
  BY <1>3, <1>4
<1> HIDE DEF h, o
<1>6. m \in HistogramType /\ (Exact(h) /\ Exact(o) => Exact(m))
  BY <1>4, <1>5, SumExact
<1> HIDE DEF m
<1>7. Reduced(m) \in HistogramType /\ (Exact(m) => Exact(Reduced(m)))
  BY <1>6, ReducedExact
<1> QED
  BY <1>1, <1>2, <1>4, <1>6, <1>7

\* Histogram checkpoints: rounded weights of some buckets.
CheckpointType ==
    UNION {[weights : [B -> Nat], total : Nat, unit : Nat \ {0}, reference : Int] :
              B \in SUBSET Buckets}

\* SaveToCheckpoint writes such a checkpoint.
LEMMA SaveType ==
    ASSUME NEW h \in HistogramType
    PROVE  HistSaveToCheckpoint(h) \in CheckpointType
<1> DEFINE Ws == {h.weight[b] : b \in h.min .. h.max} \cup {0}
           max == Max(Ws)
           B == {b \in h.min .. h.max : Rounded(h.weight[b], max) > 0}
           R == [b \in B |-> Rounded(h.weight[b], max)]
<1>1. Last \in Nat /\ Buckets = 0 .. Last
  BY BucketsType
<1>2. /\ h.weight \in [Buckets -> Nat] /\ h.total \in Nat /\ h.unit \in Nat \ {0}
      /\ h.min \in Buckets /\ h.max \in Buckets /\ h.reference \in Int
  BY DEF HistogramType
<1>3. h.min .. h.max \subseteq Buckets /\ h.min \in Int /\ h.max \in Int
  BY <1>1, <1>2
<1>4. Ws \subseteq Nat
  BY <1>2, <1>3
<1>5. IsFiniteSet(Ws)
  <2>1. IsFiniteSet(h.min .. h.max)
    BY <1>3, FS_Interval
  <2>2. IsFiniteSet({h.weight[b] : b \in h.min .. h.max})
    <3> DEFINE T == {h.weight[b] : b \in h.min .. h.max}
               f == [b \in h.min .. h.max |-> h.weight[b]]
    <3>1. f \in Surjection(h.min .. h.max, T)
      BY DEF Surjection
    <3> HIDE DEF f, T
    <3>2. IsFiniteSet(T)
      BY <2>1, <3>1, FS_Surjection
    <3> QED BY <3>2 DEF T
  <2> QED BY <2>2, FS_AddElement
<1>6. max \in Nat
  <2>1. Ws \subseteq Int /\ Ws # {}
    BY <1>4
  <2> HIDE DEF Ws
  <2>2. max \in Ws
    BY <1>5, <2>1, MinMax
  <2> QED BY <1>4, <2>2
<1> HIDE DEF max
<1>7. \A b \in Buckets : Rounded(h.weight[b], max) \in Nat
  <2>1. SUFFICES ASSUME NEW b \in Buckets PROVE Rounded(h.weight[b], max) \in Nat
    OBVIOUS
  <2> DEFINE w == h.weight[b]
  <2>2. w \in Nat /\ MaxCheckpointWeight \in Nat
    BY <1>2, OptionsAssumption
  <2> HIDE DEF w
  <2>3. 2 * w * MaxCheckpointWeight + max \in Nat
    BY <1>6, <2>2
  <2>4. CASE max = 0
    BY <2>4 DEF Rounded
  <2>5. CASE max # 0
    <3>1. 2 * max \in Nat /\ 2 * max > 0
      BY <1>6, <2>5
    <3>2. (2 * w * MaxCheckpointWeight + max) \div (2 * max) \in Nat
      BY <2>3, <3>1
    <3>3. Rounded(w, max) \in Nat
      BY <2>5, <3>2 DEF Rounded
    <3> QED BY <3>3 DEF w
  <2> QED BY <2>4, <2>5
<1>8. B \in SUBSET Buckets /\ R \in [B -> Nat]
  BY <1>3, <1>7
<1>9. HistSaveToCheckpoint(h)
        = [weights |-> R, total |-> h.total, unit |-> h.unit, reference |-> h.reference]
  BY DEF HistSaveToCheckpoint, max
<1> HIDE DEF B, R
<1> QED
  BY <1>2, <1>8, <1>9 DEF CheckpointType

\* LoadFromCheckpoint makes a histogram of it.
LEMMA LoadType ==
    ASSUME NEW c \in CheckpointType
    PROVE  HistLoadFromCheckpoint(c) \in HistogramType
<1>1. PICK B \in SUBSET Buckets :
         c \in [weights : [B -> Nat], total : Nat, unit : Nat \ {0}, reference : Int]
  BY DEF CheckpointType
<1>2. /\ DOMAIN c.weights = B /\ c.total \in Nat /\ c.unit \in Nat /\ c.unit > 0
      /\ c.reference \in Int /\ \A b \in B : c.weights[b] \in Nat
  BY <1>1
<1>3. Last \in Nat /\ 0 \in Int /\ Last \in Int /\ Buckets = 0 .. Last
  BY BucketsType
<1> DEFINE sum == SumOver(c.weights, B)
<1>4. sum \in Nat
  <2>1. IsFiniteSet(B)
    BY <1>3, FS_Interval, FS_Subset
  <2> QED BY <1>2, <2>1, SumType
<1>5. Min(B \cup {Last}) \in Buckets /\ Max(B \cup {0}) \in Buckets
  <2>1. B \cup {Last} \subseteq 0 .. Last /\ B \cup {0} \subseteq 0 .. Last
    BY <1>3
  <2>2. Min(B \cup {Last}) \in B \cup {Last} /\ Max(B \cup {0}) \in B \cup {0}
    BY <1>3, <2>1, MinMaxInterval
  <2> QED BY <1>3, <2>1, <2>2
<1> HIDE DEF sum
<1>6. CASE sum = 0
  <2>1. HistLoadFromCheckpoint(c) = [NewHistogram EXCEPT !.reference = c.reference]
    BY <1>2, <1>6 DEF HistLoadFromCheckpoint, sum
  <2>2. NewHistogram \in HistogramType
    BY NewHistogramType
  <2> QED BY <1>2, <2>1, <2>2 DEF HistogramType
<1>7. CASE sum # 0
  <2> DEFINE W == [b \in Buckets |-> IF b \in B THEN c.weights[b] * c.total ELSE 0]
             g == [weight |-> W, total |-> c.total * sum, unit |-> c.unit * sum,
                   min |-> Min(B \cup {Last}), max |-> Max(B \cup {0}),
                   reference |-> c.reference]
  <2>1. HistLoadFromCheckpoint(c) = Reduced(g)
    BY <1>2, <1>7 DEF HistLoadFromCheckpoint, sum
  <2>2. W \in [Buckets -> Nat]
    BY <1>2
  <2>3. c.total * sum \in Nat /\ c.unit * sum \in Nat \ {0}
    BY <1>2, <1>4, <1>7
  <2>4. g \in HistogramType
    <3> HIDE DEF W
    <3> QED BY <1>2, <1>5, <2>2, <2>3 DEF HistogramType
  <2> HIDE DEF g
  <2> QED BY <2>1, <2>4, ReducedExact
<1> QED
  BY <1>6, <1>7

-----------------------------------------------------------------------------
(* The histograms in every reachable state.                                *)

SampleType == Values \X Weights \X (0 .. MaxTime)

\* The inductive invariant: the histograms and the samples have their types, and a
\* histogram with nothing restored has exact bounds.
HistogramInv ==
    /\ hist \in [Histograms -> HistogramType]
    /\ rounds \in [Histograms -> Nat]
    /\ DOMAIN samples = Histograms
    /\ \A x \in Histograms : DOMAIN samples[x] \subseteq SampleType
    /\ \A x \in Histograms : rounds[x] = 0 => Exact(hist[x])

\* There are two histograms.
LEMMA OtherHistogram ==
    ASSUME NEW x \in Histograms
    PROVE  Other(x) \in Histograms /\ Other(x) # x
<1>1. \E y \in Histograms : y # x
  <2> SUFFICES ASSUME Histograms = {x} PROVE FALSE
    OBVIOUS
  <2>1. Cardinality({x}) = 1
    BY FS_Singleton
  <2> QED BY <2>1, SamplesAssumption
<1> QED
  BY <1>1 DEF Other

\* The parts of a sample.
LEMMA SampleParts ==
    ASSUME NEW s \in SampleType
    PROVE  s[1] \in Nat /\ s[2] \in Nat /\ s[3] \in Int
<1>1. s[1] \in Values /\ s[2] \in Weights /\ s[3] \in 0 .. MaxTime
  BY DEF SampleType
<1>2. Values \subseteq Nat /\ Weights \subseteq Nat
  BY SamplesAssumption
<1>3. s[3] \in Int
  BY <1>1
<1> QED
  BY <1>1, <1>2, <1>3

\* A new process has new histograms.
LEMMA HistogramInitial == Init => HistogramInv
<1> SUFFICES ASSUME Init PROVE HistogramInv
  OBVIOUS
<1>1. hist = [x \in Histograms |-> NewHistogram]
  BY DEF Init
<1>2. NewHistogram \in HistogramType /\ Exact(NewHistogram)
  BY NewHistogramType
<1>3. samples = [x \in Histograms |-> EmptyBag] /\ DOMAIN EmptyBag = {}
  BY DEF Init, EmptyBag, SetToBag
<1>4. rounds = [x \in Histograms |-> 0]
  BY DEF Init
<1> QED
  BY <1>1, <1>2, <1>3, <1>4 DEF HistogramInv

\* AddSample.
LEMMA AddSampleKeeps ==
    ASSUME HistogramInv, NEW x \in Histograms, NEW v \in Values, NEW w \in Weights,
           NEW t \in 0 .. MaxTime, AddSample(x, v, w, t)
    PROVE  HistogramInv'
<1>1. v \in Nat /\ w \in Nat /\ t \in Int
  BY SamplesAssumption
<1> DEFINE h == HistAddSample(hist[x], v, w, t)
<1>2. h \in HistogramType /\ (Exact(hist[x]) => Exact(h))
  BY <1>1, HistAddSampleExact DEF HistogramInv
<1>3. hist' = [hist EXCEPT ![x] = h] /\ rounds' = rounds
  BY DEF AddSample
<1> HIDE DEF h
<1>4. /\ DOMAIN samples' = Histograms
      /\ \A y \in Histograms : DOMAIN samples'[y] \subseteq SampleType
  <2> DEFINE b == SetToBag({<<v, w, t>>})
             B == samples[x] (+) b
  <2>1. samples' = [samples EXCEPT ![x] = B]
    BY DEF AddSample
  <2>2. DOMAIN b = {<<v, w, t>>}
    BY DEF SetToBag
  <2>3. DOMAIN B = DOMAIN samples[x] \cup {<<v, w, t>>}
    <3> HIDE DEF b
    <3> QED BY <2>2 DEF (+)
  <2>4. DOMAIN B \subseteq SampleType
    <3>1. <<v, w, t>> \in SampleType
      BY DEF SampleType
    <3>2. DOMAIN samples[x] \subseteq SampleType
      BY DEF HistogramInv
    <3> HIDE DEF B
    <3> QED BY <2>3, <3>1, <3>2
  <2> HIDE DEF B
  <2> QED BY <2>1, <2>4 DEF HistogramInv
<1>5. hist' \in [Histograms -> HistogramType] /\ rounds' \in [Histograms -> Nat]
  BY <1>2, <1>3 DEF HistogramInv
<1>6. \A y \in Histograms : rounds'[y] = 0 => Exact(hist'[y])
  BY <1>2, <1>3 DEF HistogramInv
<1> QED
  BY <1>4, <1>5, <1>6 DEF HistogramInv

\* SubtractSample.
LEMMA SubtractSampleKeeps ==
    ASSUME HistogramInv, NEW x \in Histograms, NEW s \in DOMAIN samples[x],
           SubtractSample(x, s)
    PROVE  HistogramInv'
<1>1. s \in SampleType
  BY DEF HistogramInv
<1>2. s[1] \in Nat /\ s[2] \in Nat /\ s[3] \in Int
  BY <1>1, SampleParts
<1> DEFINE h == HistSubtractSample(hist[x], s[1], s[2], s[3])
<1>3. h \in HistogramType /\ (Exact(hist[x]) => Exact(h))
  BY <1>2, HistSubtractSampleExact DEF HistogramInv
<1>4. hist' = [hist EXCEPT ![x] = h] /\ rounds' = rounds
  BY DEF SubtractSample
<1> HIDE DEF h
<1>5. /\ DOMAIN samples' = Histograms
      /\ \A y \in Histograms : DOMAIN samples'[y] \subseteq SampleType
  <2> DEFINE b == SetToBag({s})
             B == samples[x] (-) b
  <2>1. samples' = [samples EXCEPT ![x] = B]
    BY DEF SubtractSample
  <2>2. DOMAIN B \subseteq DOMAIN samples[x]
    <3> HIDE DEF b
    <3> QED BY DEF (-)
  <2> HIDE DEF B
  <2> QED BY <2>1, <2>2 DEF HistogramInv
<1>6. hist' \in [Histograms -> HistogramType] /\ rounds' \in [Histograms -> Nat]
  BY <1>3, <1>4 DEF HistogramInv
<1>7. \A y \in Histograms : rounds'[y] = 0 => Exact(hist'[y])
  BY <1>3, <1>4 DEF HistogramInv
<1> QED
  BY <1>5, <1>6, <1>7 DEF HistogramInv

\* Merge.
LEMMA MergeKeeps ==
    ASSUME HistogramInv, NEW x \in Histograms, Merge(x)
    PROVE  HistogramInv'
<1> DEFINE y == Other(x)
           m == HistMerge(hist[x], hist[y])
           o == Aligned(hist[y], hist[x])
           a == Reduced(o)
           r == Max({rounds[x], rounds[y]})
<1>1. y \in Histograms /\ y # x
  BY OtherHistogram
<1>2. hist' = [hist EXCEPT ![x] = m, ![y] = a] /\ rounds' = [rounds EXCEPT ![x] = r]
  BY DEF Merge
<1>3. samples' = [samples EXCEPT ![x] = samples[x] (+) samples[y]]
  BY DEF Merge
<1> HIDE DEF y
<1>4. /\ hist[x] \in HistogramType /\ hist[y] \in HistogramType
      /\ rounds[x] \in Nat /\ rounds[y] \in Nat
  BY <1>1 DEF HistogramInv
<1>5. m \in HistogramType /\ (Exact(hist[x]) /\ Exact(hist[y]) => Exact(m))
  BY <1>4, HistMergeExact
<1>6. o \in HistogramType /\ (Exact(hist[y]) => Exact(o))
  BY <1>4, AlignedExact
<1> HIDE DEF m, o
<1>7. a \in HistogramType /\ (Exact(o) => Exact(a))
  BY <1>6, ReducedExact
<1>8. r = IF rounds[x] >= rounds[y] THEN rounds[x] ELSE rounds[y]
  BY <1>4, MinMaxPair
<1>9. r \in Nat /\ (r = 0 => rounds[x] = 0 /\ rounds[y] = 0)
  BY <1>4, <1>8
<1> HIDE DEF a, r
<1>10. /\ DOMAIN samples' = Histograms
       /\ \A z \in Histograms : DOMAIN samples'[z] \subseteq SampleType
  <2>1. DOMAIN (samples[x] (+) samples[y]) = DOMAIN samples[x] \cup DOMAIN samples[y]
    BY DEF (+)
  <2>2. DOMAIN (samples[x] (+) samples[y]) \subseteq SampleType
    BY <1>1, <2>1 DEF HistogramInv
  <2> QED BY <1>3, <2>2 DEF HistogramInv
<1>11. hist' \in [Histograms -> HistogramType] /\ rounds' \in [Histograms -> Nat]
  BY <1>2, <1>5, <1>7, <1>9 DEF HistogramInv
<1>12. \A z \in Histograms : rounds'[z] = 0 => Exact(hist'[z])
  <2>1. rounds[x] = 0 => Exact(hist[x])
    BY DEF HistogramInv
  <2>2. rounds[y] = 0 => Exact(hist[y])
    BY <1>1 DEF HistogramInv
  <2>3. hist'[x] = m /\ hist'[y] = a /\ rounds'[x] = r /\ rounds'[y] = rounds[y]
    BY <1>1, <1>2 DEF HistogramInv
  <2>4. \A z \in Histograms : z # x /\ z # y => hist'[z] = hist[z] /\ rounds'[z] = rounds[z]
    BY <1>1, <1>2 DEF HistogramInv
  <2>5. \A z \in Histograms : rounds[z] = 0 => Exact(hist[z])
    BY DEF HistogramInv
  <2> QED BY <1>5, <1>6, <1>7, <1>9, <2>1, <2>2, <2>3, <2>4, <2>5
<1> QED
  BY <1>10, <1>11, <1>12 DEF HistogramInv

\* Checkpoint.
LEMMA CheckpointKeeps ==
    ASSUME HistogramInv, NEW x \in Histograms, Checkpoint(x)
    PROVE  HistogramInv'
<1> DEFINE y == Other(x)
           c == HistSaveToCheckpoint(hist[y])
           h == HistLoadFromCheckpoint(c)
<1>1. y \in Histograms
  BY OtherHistogram
<1>2. /\ hist' = [hist EXCEPT ![x] = h] /\ rounds' = [rounds EXCEPT ![x] = rounds[y] + 1]
      /\ samples' = samples
  BY DEF Checkpoint
<1> HIDE DEF y
<1>3. c \in CheckpointType
  BY <1>1, SaveType DEF HistogramInv
<1> HIDE DEF c
<1>4. h \in HistogramType
  BY <1>3, LoadType
<1> HIDE DEF h
<1>5. rounds[y] + 1 \in Nat /\ rounds[y] + 1 # 0
  BY <1>1 DEF HistogramInv
<1>6. hist' \in [Histograms -> HistogramType] /\ rounds' \in [Histograms -> Nat]
  BY <1>2, <1>4, <1>5 DEF HistogramInv
<1>7. \A z \in Histograms : rounds'[z] = 0 => Exact(hist'[z])
  BY <1>2, <1>5 DEF HistogramInv
<1> QED
  BY <1>2, <1>6, <1>7 DEF HistogramInv

\* Every step keeps the invariant.
LEMMA HistogramStep == HistogramInv /\ [Next]_vars => HistogramInv'
<1> SUFFICES ASSUME HistogramInv, [Next]_vars PROVE HistogramInv'
  OBVIOUS
<1>1. CASE UNCHANGED vars
  BY <1>1 DEF vars, HistogramInv
<1>2. CASE Next
  <2>1. PICK x \in Histograms :
           \/ \E v \in Values, w \in Weights, t \in 0 .. MaxTime : AddSample(x, v, w, t)
           \/ \E s \in DOMAIN samples[x] : SubtractSample(x, s)
           \/ Merge(x)
           \/ Checkpoint(x)
    BY <1>2 DEF Next
  <2>2. CASE \E v \in Values, w \in Weights, t \in 0 .. MaxTime : AddSample(x, v, w, t)
    BY <2>2, AddSampleKeeps
  <2>3. CASE \E s \in DOMAIN samples[x] : SubtractSample(x, s)
    BY <2>3, SubtractSampleKeeps
  <2>4. CASE Merge(x)
    BY <2>4, MergeKeeps
  <2>5. CASE Checkpoint(x)
    BY <2>5, CheckpointKeeps
  <2> QED BY <2>1, <2>2, <2>3, <2>4, <2>5
<1> QED
  BY <1>1, <1>2

\* The histograms of every reachable state have their type, and those with nothing
\* restored have exact bounds.
THEOREM HistogramInvariant == Spec => []HistogramInv
<1> QED
  BY HistogramInitial, HistogramStep, PTL DEF Spec

\* minBucket and maxBucket are the first and the last bucket that is not empty, in
\* every histogram that nothing was restored into, whatever was added, subtracted,
\* merged and decayed before.
THEOREM HistogramBoundsExact == Spec => []BoundsExact
<1>1. HistogramInv => BoundsExact
  <2> SUFFICES ASSUME HistogramInv PROVE BoundsExact
    OBVIOUS
  <2>1. ASSUME NEW x \in Histograms, rounds[x] = 0
        PROVE  LET S == {b \in Buckets : NonEmpty(hist[x], b)}
               IN  /\ hist[x].min = Min(S \cup {Last})
                   /\ hist[x].max = Max(S \cup {0})
    <3> DEFINE h == hist[x]
    <3>1. h \in HistogramType /\ Exact(h)
      BY <2>1 DEF HistogramInv
    <3> HIDE DEF h
    <3>2. LET S == {b \in Buckets : NonEmpty(h, b)}
          IN  h.min = Min(S \cup {Last}) /\ h.max = Max(S \cup {0})
      BY <3>1, ExactBounds
    <3> QED BY <3>2 DEF h
  <2> QED BY <2>1 DEF BoundsExact
<1> QED
  BY <1>1, HistogramInvariant, PTL

-----------------------------------------------------------------------------
(* Percentiles.                                                            *)

\* Whole division.
LEMMA Quotient ==
    ASSUME NEW n \in Nat, NEW d \in Nat, d > 0
    PROVE  n \div d \in Nat /\ d * (n \div d) <= n /\ n < d * (n \div d) + d
OBVIOUS

\* A number that d times is at most n is at most the quotient.
LEMMA QuotientBound ==
    ASSUME NEW n \in Nat, NEW d \in Nat, d > 0, NEW m \in Nat
    PROVE  (d * m <= n => m <= n \div d) /\ (n <= d * m => n \div d <= m)
<1> DEFINE q == n \div d
<1>1. q \in Nat /\ d * q <= n /\ n < d * q + d
  BY Quotient
<1> HIDE DEF q
<1>2. ASSUME d * m <= n PROVE m <= q
  <2> SUFFICES ASSUME m >= q + 1 PROVE FALSE
    BY <1>1
  <2>1. d * m >= d * (q + 1)
    BY <1>1, MultiplesCompare
  <2>2. d * (q + 1) = d * q + d
    BY <1>1
  <2>3. d * q \in Nat /\ d * m \in Nat
    BY <1>1
  <2> QED BY <1>1, <1>2, <2>1, <2>2, <2>3
<1>3. ASSUME n <= d * m PROVE q <= m
  <2>1. d * m >= d * q
    <3>1. d * q \in Nat /\ d * m \in Nat
      BY <1>1
    <3> QED BY <1>1, <1>3, <3>1
  <2> QED BY <1>1, <2>1, MultiplesCompare
<1> QED
  BY <1>2, <1>3 DEF q

\* Whole division is monotone.
LEMMA QuotientMonotone ==
    ASSUME NEW m \in Nat, NEW n \in Nat, m <= n, NEW d \in Nat, d > 0
    PROVE  m \div d <= n \div d
<1>1. m \div d \in Nat /\ d * (m \div d) <= m
  BY Quotient
<1>2. d * (m \div d) \in Nat
  BY <1>1
<1>3. d * (m \div d) <= n
  BY <1>1, <1>2
<1> QED
  BY <1>1, <1>3, QuotientBound

\* A later bucket starts later.
LEMMA BucketStartMonotone ==
    ASSUME NEW a \in Buckets, NEW b \in Buckets, a <= b
    PROVE  /\ GetBucketStart(a) \in Nat /\ GetBucketStart(b) \in Nat
           /\ GetBucketStart(a) <= GetBucketStart(b)
<1> DEFINE F == FirstBucketSize
           p == Power(Ratio, a)
           q == Power(Ratio, b)
<1>1. F \in Nat /\ Ratio \in Nat /\ Ratio > 1 /\ Ratio > 0 /\ Ratio - 1 \in Nat /\ Ratio - 1 > 0
  BY OptionsAssumption
<1>2. a \in Nat /\ b \in Nat
  BY BucketsType
<1>3. p \in Nat /\ p >= 1 /\ q \in Nat /\ q >= 1
  BY <1>1, <1>2, PowerGrows
<1>4. p <= q
  BY <1>1, <1>2, PowerMonotone
<1> HIDE DEF F, p, q
<1>5. F * (p - 1) \in Nat /\ F * (q - 1) \in Nat
  BY <1>1, <1>3
<1>6. F * (p - 1) <= F * (q - 1)
  <2>1. F * (q - p) >= 0 /\ F * (q - 1) = F * (p - 1) + F * (q - p)
    BY <1>1, <1>3, <1>4
  <2>2. F * (q - p) \in Int
    BY <1>1, <1>3
  <2> QED BY <1>5, <2>1, <2>2
<1>7. /\ (F * (p - 1)) \div (Ratio - 1) \in Nat /\ (F * (q - 1)) \div (Ratio - 1) \in Nat
      /\ (F * (p - 1)) \div (Ratio - 1) <= (F * (q - 1)) \div (Ratio - 1)
  BY <1>1, <1>5, <1>6, Quotient, QuotientMonotone
<1> QED
  BY <1>7 DEF GetBucketStart, F, p, q

\* The weight up to a bucket is a natural number.
LEMMA WeightUpTo ==
    ASSUME NEW h \in HistogramType, NEW b \in Buckets
    PROVE  SumOver(h.weight, h.min .. b) \in Nat
<1>1. /\ h.weight \in [Buckets -> Nat] /\ h.min \in Buckets
      /\ Last \in Nat /\ Buckets = 0 .. Last
  BY BucketsType DEF HistogramType
<1>2. h.min .. b \subseteq Buckets /\ h.min \in Int /\ b \in Int
  BY <1>1
<1>3. IsFiniteSet(h.min .. b)
  BY <1>2, FS_Interval
<1>4. \A i \in h.min .. b : h.weight[i] \in Nat
  BY <1>1, <1>2
<1> QED
  BY <1>3, <1>4, SumType

\* If p is at most q, a bucket that Percentile stops at for q it stops at for p.
LEMMA StopsEarlier ==
    ASSUME NEW s \in Nat, NEW t \in Nat, NEW p1 \in Nat, NEW p2 \in Nat, p2 > 0,
           NEW q1 \in Nat, NEW q2 \in Nat, q2 > 0, p1 * q2 <= q1 * p2, s * q2 >= q1 * t
    PROVE  s * p2 >= p1 * t
<1>1. p2 * (s * q2) >= p2 * (q1 * t)
  <2>1. s * q2 \in Nat /\ q1 * t \in Nat
    OBVIOUS
  <2> QED BY <2>1, MultiplesCompare
<1>2. t * (q1 * p2) >= t * (p1 * q2)
  <2>1. q1 * p2 \in Nat /\ p1 * q2 \in Nat
    OBVIOUS
  <2>2. CASE t > 0
    BY <2>1, <2>2, MultiplesCompare
  <2>3. CASE t = 0
    BY <2>1, <2>3
  <2> QED BY <2>2, <2>3
<1>3. p2 * (s * q2) = q2 * (s * p2) /\ p2 * (q1 * t) = t * (q1 * p2)
        /\ t * (p1 * q2) = q2 * (p1 * t)
  OBVIOUS
<1>4. q2 * (s * p2) >= q2 * (p1 * t)
  <2>1. /\ p2 * (s * q2) \in Nat /\ t * (q1 * p2) \in Nat /\ t * (p1 * q2) \in Nat
    OBVIOUS
  <2> QED BY <1>1, <1>2, <1>3, <2>1
<1>5. s * p2 \in Nat /\ p1 * t \in Nat
  OBVIOUS
<1> QED
  BY <1>4, <1>5, MultiplesCompare

\* One percentile is at most the other.
AtMost(p, q) == p[1] * q[2] <= q[1] * p[2]

\* The bucket of a lower percentile is not a later one.
LEMMA PercentileBucketMonotone ==
    ASSUME NEW h \in HistogramType, NEW p \in Percentiles, NEW q \in Percentiles, AtMost(p, q)
    PROVE  /\ PercentileBucket(h, p) \in Buckets /\ PercentileBucket(h, q) \in Buckets
           /\ PercentileBucket(h, p) <= PercentileBucket(h, q)
<1>1. Last \in Nat /\ Buckets = 0 .. Last /\ 0 \in Int /\ Last \in Int
  BY BucketsType
<1>2. h.min \in Buckets /\ h.max \in Buckets /\ h.total \in Nat
  BY DEF HistogramType
<1>3. h.min \in Int /\ h.max \in Int /\ h.min \in 0 .. Last /\ h.max \in 0 .. Last
  BY <1>1, <1>2
<1> DEFINE W(b) == SumOver(h.weight, h.min .. b)
           top == Max({h.min, h.max})
           P == {b \in h.min .. h.max - 1 : W(b) * p[2] >= p[1] * h.total} \cup {top}
           Q == {b \in h.min .. h.max - 1 : W(b) * q[2] >= q[1] * h.total} \cup {top}
<1>4. top = IF h.min >= h.max THEN h.min ELSE h.max
  BY <1>3, MinMaxPair
<1>5. top \in Buckets
  BY <1>2, <1>4
<1> HIDE DEF top
<1>6. h.min .. h.max - 1 \subseteq Buckets
  BY <1>1, <1>3
<1>7. \A b \in Buckets : W(b) \in Nat
  BY WeightUpTo
<1> HIDE DEF W
<1>8. P \subseteq 0 .. Last /\ Q \subseteq 0 .. Last /\ P # {} /\ Q # {}
  BY <1>1, <1>5, <1>6
<1>9. /\ p[1] \in Nat /\ p[2] \in Nat /\ p[2] > 0
      /\ q[1] \in Nat /\ q[2] \in Nat /\ q[2] > 0
  BY PercentilesAssumption
<1>10. p[1] * q[2] <= q[1] * p[2]
  BY DEF AtMost
<1>11. Q \subseteq P
  <2> SUFFICES ASSUME NEW b \in h.min .. h.max - 1, W(b) * q[2] >= q[1] * h.total
               PROVE  W(b) * p[2] >= p[1] * h.total
    OBVIOUS
  <2>1. W(b) \in Nat
    BY <1>6, <1>7
  <2> QED BY <1>2, <1>9, <1>10, <2>1, StopsEarlier
<1>12. PercentileBucket(h, p) = Min(P) /\ PercentileBucket(h, q) = Min(Q)
  BY DEF PercentileBucket, W, top
<1> HIDE DEF P, Q
<1>13. /\ Min(P) \in P /\ \A m \in P : Min(P) <= m
       /\ Min(Q) \in Q /\ \A m \in Q : Min(Q) <= m
  BY <1>1, <1>8, MinMaxInterval
<1> QED
  BY <1>1, <1>8, <1>11, <1>12, <1>13

\* Percentile is monotone in the percentile asked for, and at most the start of the
\* last bucket.
LEMMA PercentileMonotone ==
    ASSUME NEW h \in HistogramType, NEW p \in Percentiles, NEW q \in Percentiles, AtMost(p, q)
    PROVE  /\ Percentile(h, p) \in Nat /\ Percentile(h, q) \in Nat
           /\ Percentile(h, p) <= Percentile(h, q)
           /\ Percentile(h, q) <= GetBucketStart(Last)
<1> DEFINE next(b) == IF b < Last THEN b + 1 ELSE b
           b == PercentileBucket(h, p)
           c == PercentileBucket(h, q)
<1>1. Last \in Nat /\ Last \in Buckets /\ Buckets = 0 .. Last
  BY BucketsType
<1>2. b \in Buckets /\ c \in Buckets /\ b <= c
  BY PercentileBucketMonotone
<1>3. /\ Percentile(h, p) = IF IsEmpty(h) THEN 0 ELSE GetBucketStart(next(b))
      /\ Percentile(h, q) = IF IsEmpty(h) THEN 0 ELSE GetBucketStart(next(c))
  BY DEF Percentile
<1> HIDE DEF b, c
<1>4. next(b) \in Buckets /\ next(c) \in Buckets /\ next(b) <= next(c) /\ next(c) <= Last
  BY <1>1, <1>2
<1> HIDE DEF next
<1>5. /\ GetBucketStart(next(b)) \in Nat /\ GetBucketStart(next(c)) \in Nat
      /\ GetBucketStart(next(b)) <= GetBucketStart(next(c))
      /\ GetBucketStart(Last) \in Nat
      /\ GetBucketStart(next(c)) <= GetBucketStart(Last)
  BY <1>1, <1>4, BucketStartMonotone
<1> QED
  BY <1>3, <1>5

-----------------------------------------------------------------------------
(* Estimators.                                                             *)

\* resourceAmountFromFloat of a number that the cut-off is not below.
LEMMA FromFloat ==
    ASSUME NEW n \in Nat, NEW d \in Nat, d > 0
    PROVE  /\ resourceAmountFromFloat(n, d) \in Nat
           /\ resourceAmountFromFloat(n, d)
                 = IF n \div d <= MaxAmount THEN n \div d ELSE MaxAmount
<1>1. MaxAmount \in Nat /\ n \div d \in Nat
  BY AmountAssumption, Quotient
<1>2. Min({n \div d, MaxAmount}) = IF n \div d <= MaxAmount THEN n \div d ELSE MaxAmount
  BY <1>1, MinMaxPair
<1>3. resourceAmountFromFloat(n, d) = Min({n \div d, MaxAmount})
  BY DEF resourceAmountFromFloat
<1> QED
  BY <1>1, <1>2, <1>3

\* The margin of an amount that a percentile can be.
Margined(v) == v + (v * Margin[1]) \div Margin[2]

\* The amount of a percentile with its margin is not cut off.
LEMMA MarginNotCut ==
    ASSUME NEW v \in Nat, v <= GetBucketStart(Last)
    PROVE  /\ resourceAmountFromFloat(v, 1) = v
           /\ WithMargin(v) = Margined(v)
           /\ Margined(v) \in Nat /\ Margined(v) <= MaxAmount
<1> DEFINE last == GetBucketStart(Last)
           m == Margin[1]
           d == Margin[2]
<1>1. last \in Nat
  BY BucketsType, BucketStartMonotone
<1>2. m \in Nat /\ d \in Nat /\ d > 0 /\ MaxAmount \in Nat
  BY AmountAssumption
<1>3. last + (last * m) \div d <= MaxAmount
  BY CutOffAssumption
<1>4. v <= last
  OBVIOUS
<1>5. WithMargin(v) = v + resourceAmountFromFloat(v * m, d) /\ Margined(v) = v + (v * m) \div d
  BY DEF WithMargin, ScaleResource, Margined
<1> HIDE DEF last, m, d
<1>6. v * m \in Nat /\ last * m \in Nat
  BY <1>1, <1>2
<1>7. v * m <= last * m
  <2>1. (last - v) * m >= 0 /\ last * m = v * m + (last - v) * m
    BY <1>1, <1>2, <1>4
  <2>2. (last - v) * m \in Int
    BY <1>1, <1>2
  <2> QED BY <1>6, <2>1, <2>2
<1>8. (v * m) \div d \in Nat /\ (last * m) \div d \in Nat /\ (v * m) \div d <= (last * m) \div d
  BY <1>2, <1>6, <1>7, Quotient, QuotientMonotone
<1>9. resourceAmountFromFloat(v * m, d) = (v * m) \div d
  <2>1. (v * m) \div d <= MaxAmount
    BY <1>1, <1>2, <1>3, <1>8
  <2> QED BY <1>2, <1>6, <2>1, FromFloat
<1>10. resourceAmountFromFloat(v, 1) = v
  <2>1. v \div 1 = v /\ 1 \in Nat /\ 1 > 0
    OBVIOUS
  <2>2. v <= MaxAmount
    BY <1>1, <1>2, <1>3, <1>4, <1>8
  <2>3. resourceAmountFromFloat(v, 1) = IF v \div 1 <= MaxAmount THEN v \div 1 ELSE MaxAmount
    BY <2>1, FromFloat
  <2> QED BY <2>1, <2>2, <2>3
<1>11. v + (v * m) \div d \in Nat /\ v + (v * m) \div d <= MaxAmount
  BY <1>1, <1>2, <1>3, <1>4, <1>8
<1> QED
  BY <1>5, <1>9, <1>10, <1>11

\* The margin is monotone.
LEMMA MarginMonotone ==
    ASSUME NEW u \in Nat, NEW v \in Nat, u <= v, v <= GetBucketStart(Last)
    PROVE  Margined(u) <= Margined(v)
<1> DEFINE m == Margin[1]
           d == Margin[2]
<1>1. m \in Nat /\ d \in Nat /\ d > 0
  BY AmountAssumption
<1>2. Margined(u) = u + (u * m) \div d /\ Margined(v) = v + (v * m) \div d
  BY DEF Margined
<1> HIDE DEF m, d
<1>3. u * m \in Nat /\ v * m \in Nat /\ u * m <= v * m
  <2>1. (v - u) * m >= 0 /\ v * m = u * m + (v - u) * m
    BY <1>1
  <2>2. (v - u) * m \in Int /\ u * m \in Nat /\ v * m \in Nat
    BY <1>1
  <2> QED BY <2>1, <2>2
<1>4. (u * m) \div d \in Nat /\ (v * m) \div d \in Nat /\ (u * m) \div d <= (v * m) \div d
  BY <1>1, <1>3, Quotient, QuotientMonotone
<1> QED
  BY <1>2, <1>4

\* The confidence multiplier of the upper bound does not make an amount smaller, unless
\* it is zero.
LEMMA UpperNotLess ==
    ASSUME NEW a \in Nat, a <= MaxAmount, NEW c \in Nat
    PROVE  /\ ConfidentUpperBound(a, c) \in Int
           /\ a = 0 \/ a <= ConfidentUpperBound(a, c)
<1>1. MaxAmount \in Nat
  BY AmountAssumption
<1>2. ConfidentUpperBound(a, c) = resourceAmountFromFloat(a * (c + 1), c)
  BY DEF ConfidentUpperBound, ScaleResource
<1>3. a * (c + 1) \in Nat /\ c * a <= a * (c + 1)
  <2>1. a * (c + 1) = c * a + a /\ c * a \in Nat
    OBVIOUS
  <2> QED BY <2>1
<1>4. CASE c = 0
  <2>1. resourceAmountFromFloat(a * (c + 1), c)
           = IF a * (c + 1) = 0 THEN - MaxAmount - 1 ELSE MaxAmount
    BY <1>4 DEF resourceAmountFromFloat
  <2>2. a * (c + 1) = a
    BY <1>4
  <2> QED BY <1>1, <1>2, <2>1, <2>2
<1>5. CASE c > 0
  <2> DEFINE q == (a * (c + 1)) \div c
  <2>1. q \in Nat /\ a <= q
    BY <1>3, <1>5, Quotient, QuotientBound
  <2>2. resourceAmountFromFloat(a * (c + 1), c) = IF q <= MaxAmount THEN q ELSE MaxAmount
    BY <1>3, <1>5, FromFloat
  <2> HIDE DEF q
  <2> QED BY <1>1, <1>2, <2>1, <2>2
<1> QED
  BY <1>4, <1>5

\* The confidence multiplier of the lower bound does not make an amount larger.
LEMMA LowerNotMore ==
    ASSUME NEW a \in Nat, NEW c \in Nat
    PROVE  /\ ConfidentLowerBound(a, c) \in Int
           /\ ConfidentLowerBound(a, c) <= a
<1> DEFINE n == c * Multiplier[2]
           d == n + Multiplier[1]
<1>1. MaxAmount \in Nat /\ Multiplier[1] \in Nat /\ Multiplier[2] \in Nat
  BY AmountAssumption
<1>2. n \in Nat /\ d \in Nat /\ n <= d
  BY <1>1
<1>3. ConfidentLowerBound(a, c) = resourceAmountFromFloat(a * (n * n), d * d)
  BY DEF ConfidentLowerBound, ScaleResource
<1> HIDE DEF n, d
<1>4. n * n \in Nat /\ d * d \in Nat /\ a * (n * n) \in Nat
  <2>1. n * n \in Nat /\ d * d \in Nat
    BY <1>2
  <2> QED BY <2>1
<1>5. a * (n * n) <= (d * d) * a
  <2> DEFINE N == n * n
             D == d * d
  <2>1. N <= D
    <3>1. (d - n) * (d + n) >= 0 /\ D - N = (d - n) * (d + n)
      BY <1>2
    <3> QED BY <1>4, <3>1
  <2>2. N \in Nat /\ D \in Nat
    BY <1>4
  <2> HIDE DEF N, D
  <2>3. (D - N) * a >= 0 /\ D * a = a * N + (D - N) * a
    BY <2>1, <2>2
  <2>4. a * N \in Nat /\ D * a \in Nat /\ (D - N) * a \in Int
    BY <2>2
  <2>5. a * N <= D * a
    BY <2>3, <2>4
  <2> QED BY <2>5 DEF N, D
<1>6. CASE d * d = 0
  <2>1. a * (n * n) = 0
    <3>1. (d * d) * a = 0
      BY <1>6
    <3> QED BY <1>4, <1>5, <3>1
  <2>2. resourceAmountFromFloat(a * (n * n), d * d) = - MaxAmount - 1
    BY <1>6, <2>1 DEF resourceAmountFromFloat
  <2> QED BY <1>1, <1>3, <2>2
<1>7. CASE d * d > 0
  <2> DEFINE q == (a * (n * n)) \div (d * d)
  <2>1. q \in Nat /\ q <= a
    BY <1>4, <1>5, <1>7, Quotient, QuotientBound
  <2>2. resourceAmountFromFloat(a * (n * n), d * d) = IF q <= MaxAmount THEN q ELSE MaxAmount
    BY <1>4, <1>7, FromFloat
  <2> HIDE DEF q
  <2> QED BY <1>1, <1>3, <2>1, <2>2
<1> QED
  BY <1>4, <1>6, <1>7

\* The minimum of a container is the share of its pod's, and it is a lower bound.
LEMMA AtLeastMinimum ==
    ASSUME NEW a \in Int
    PROVE  LET share == MinAmount \div Containers
           IN  /\ share \in Nat
               /\ WithMinResources(a) = IF a >= share THEN a ELSE share
<1> DEFINE share == MinAmount \div Containers
<1>1. MinAmount \in Nat /\ Containers \in Nat /\ Containers > 0
  BY AmountAssumption
<1>2. share \in Nat /\ share <= MaxAmount
  BY <1>1, Quotient, CutOffAssumption
<1>3. ScaleResource(MinAmount, 1, Containers) = share
  <2>1. MinAmount * 1 = MinAmount
    BY <1>1
  <2>2. resourceAmountFromFloat(MinAmount, Containers)
           = IF share <= MaxAmount THEN share ELSE MaxAmount
    BY <1>1, FromFloat
  <2>3. ScaleResource(MinAmount, 1, Containers) = resourceAmountFromFloat(MinAmount, Containers)
    BY <2>1 DEF ScaleResource
  <2> HIDE DEF share
  <2> QED BY <1>2, <2>2, <2>3
<1> HIDE DEF share
<1>4. Max({a, share}) = IF a >= share THEN a ELSE share
  BY <1>2, MinMaxPair
<1>5. WithMinResources(a) = Max({a, share})
  BY <1>3 DEF WithMinResources
<1> QED
  BY <1>2, <1>4, <1>5 DEF share

\* The recommendation made of any histogram, at any confidence.
LEMMA RecommendationOrdered ==
    ASSUME NEW h \in HistogramType, NEW c \in [lifespan : 0 .. MaxDays, samples : 0 .. MaxDays]
    PROVE  LET r == GetRecommendedPodResources(h, c)
           IN  MinAmount \div Containers <= r.lower /\ r.lower <= r.target /\ r.target <= r.upper
<1> DEFINE k == getConfidence(c)
           l == Percentile(h, LowerBound)
           t == Percentile(h, Target)
           u == Percentile(h, UpperBound)
           share == MinAmount \div Containers
           lo == ConfidentLowerBound(Margined(l), k)
           hi == ConfidentUpperBound(Margined(u), k)
           r == GetRecommendedPodResources(h, c)
<1>1. k \in Nat
  <2>1. c.lifespan \in Nat /\ c.samples \in Nat
    OBVIOUS
  <2> DEFINE a == c.lifespan
             b == c.samples
  <2>2. a \in Int /\ b \in Int
    BY <2>1
  <2>3. k = Min({a, b})
    BY DEF getConfidence
  <2> HIDE DEF a, b, k
  <2>4. k = a \/ k = b
    BY <2>2, <2>3, MinMaxPair
  <2> QED BY <2>1, <2>4 DEF a, b
<1>2. /\ LowerBound \in Percentiles /\ Target \in Percentiles /\ UpperBound \in Percentiles
      /\ AtMost(LowerBound, Target) /\ AtMost(Target, UpperBound)
  BY EstimatorAssumption DEF AtMost
<1>3. /\ l \in Nat /\ t \in Nat /\ u \in Nat /\ l <= t /\ t <= u
      /\ t <= GetBucketStart(Last) /\ u <= GetBucketStart(Last)
  BY <1>2, PercentileMonotone
<1>4. GetBucketStart(Last) \in Nat
  BY BucketsType, BucketStartMonotone
<1>5. l <= GetBucketStart(Last)
  <2> HIDE DEF l, t
  <2> QED BY <1>3, <1>4
<1>6. r = [target |-> WithMinResources(WithMargin(resourceAmountFromFloat(t, 1))),
           lower |-> WithMinResources(ConfidentLowerBound(
                        WithMargin(resourceAmountFromFloat(l, 1)), k)),
           upper |-> WithMinResources(ConfidentUpperBound(
                        WithMargin(resourceAmountFromFloat(u, 1)), k))]
  BY DEF GetRecommendedPodResources, PercentileEstimation
<1> HIDE DEF k, l, t, u, r
<1>7. /\ Margined(l) \in Nat /\ Margined(t) \in Nat /\ Margined(u) \in Nat
      /\ Margined(l) <= Margined(t) /\ Margined(t) <= Margined(u) /\ Margined(u) <= MaxAmount
  BY <1>3, <1>5, MarginNotCut, MarginMonotone
<1>8. r = [target |-> WithMinResources(Margined(t)), lower |-> WithMinResources(lo),
           upper |-> WithMinResources(hi)]
  BY <1>3, <1>5, <1>6, MarginNotCut
<1>9. lo \in Int /\ lo <= Margined(l)
  BY <1>1, <1>7, LowerNotMore
<1>10. hi \in Int /\ (Margined(u) = 0 \/ Margined(u) <= hi)
  BY <1>1, <1>7, UpperNotLess
<1> HIDE DEF lo, hi
<1>11. /\ share \in Nat
       /\ WithMinResources(lo) = IF lo >= share THEN lo ELSE share
       /\ WithMinResources(hi) = IF hi >= share THEN hi ELSE share
       /\ WithMinResources(Margined(t)) = IF Margined(t) >= share THEN Margined(t) ELSE share
  BY <1>7, <1>9, <1>10, AtLeastMinimum
<1> HIDE DEF share
<1>12. share <= r.lower /\ r.lower <= r.target /\ r.target <= r.upper
  BY <1>7, <1>8, <1>9, <1>10, <1>11
<1> QED
  BY <1>12 DEF r, share

\* Whatever happened to the histograms, restarts and rounding included, and however
\* little history there is, a container's lower bound, target and upper bound are in
\* this order and at least its share of the pod's minimum.
THEOREM EstimatesOrdered == Spec => []BoundsOrdered
<1>1. HistogramInv => BoundsOrdered
  <2> SUFFICES ASSUME HistogramInv,
                      NEW x \in Histograms,
                      NEW c \in [lifespan : 0 .. MaxDays, samples : 0 .. MaxDays]
               PROVE  LET r == GetRecommendedPodResources(hist[x], c)
                      IN  /\ MinAmount \div Containers <= r.lower
                          /\ r.lower <= r.target /\ r.target <= r.upper
    BY DEF BoundsOrdered
  <2>1. hist[x] \in HistogramType
    BY DEF HistogramInv
  <2> QED BY <2>1, RecommendationOrdered
<1> QED
  BY <1>1, HistogramInvariant, PTL

-----------------------------------------------------------------------------
(* Laws of sums.                                                           *)

\* A finite sum of natural numbers, and summands that agree.
Summable(f, S) == IsFiniteSet(S) /\ \A i \in S : f[i] \in Nat
Alike(e, f, S) == \A i \in S : e[i] = f[i]

\* The function of the sums over the subsets of S.
SumsOf(g, f, S) == g \in [SUBSET S -> Nat] /\ SumRule(g, f, S)

\* Taking any element out of a set leaves the sum of the others.
SumTakes(g, f, S) == \A s \in SUBSET S : \A x \in s : g[s] = f[x] + g[s \ {x}]

\* What the rule of a sum's function determines: taking any element out, not only
\* the first one, leaves the sum of the others.
LEMMA SumRuleTakes ==
    ASSUME NEW S, NEW f, Summable(f, S), NEW g, SumsOf(g, f, S)
    PROVE  SumTakes(g, f, S)
<1>0. /\ IsFiniteSet(S) /\ \A i \in S : f[i] \in Nat
      /\ g \in [SUBSET S -> Nat] /\ SumRule(g, f, S)
  BY DEF Summable, SumsOf
<1> DEFINE G == {n \in Nat : \A s \in SUBSET S : Cardinality(s) = n =>
                    \A x \in s : g[s] = f[x] + g[s \ {x}]}
<1>1. 0 \in G
  <2>1. ASSUME NEW s \in SUBSET S, Cardinality(s) = 0 PROVE s = {}
    BY <2>1, <1>0, FS_Subset, FS_EmptySet
  <2> QED BY <2>1
<1>2. ASSUME NEW n \in Nat, n \in G PROVE n + 1 \in G
  <2>1. ASSUME NEW s \in SUBSET S, Cardinality(s) = n + 1, NEW x \in s
        PROVE  g[s] = f[x] + g[s \ {x}]
    <3> DEFINE p == Pick(s)
    <3>1. s # {} /\ p \in s /\ s \ {p} \in SUBSET S /\ Cardinality(s \ {p}) = n
      BY <1>0, <2>1, Smaller
    <3>2. g[s] = f[p] + g[s \ {p}]
      BY <1>0, <3>1 DEF SumRule
    <3> HIDE DEF p
    <3>3. CASE x = p
      BY <3>2, <3>3
    <3>4. CASE x # p
      <4>1. x \in s \ {p} /\ p \in s \ {x}
        BY <3>1, <3>4
      <4>2. g[s \ {p}] = f[x] + g[(s \ {p}) \ {x}]
        BY <1>2, <3>1, <4>1
      <4>3. s \ {x} \in SUBSET S /\ Cardinality(s \ {x}) = n
        <5>1. IsFiniteSet(s)
          BY <1>0, FS_Subset
        <5>2. Cardinality(s \ {x}) = Cardinality(s) - 1
          BY <5>1, FS_RemoveElement
        <5> QED BY <2>1, <5>2
      <4>4. g[s \ {x}] = f[p] + g[(s \ {x}) \ {p}]
        BY <1>2, <4>1, <4>3
      <4>5. (s \ {x}) \ {p} = (s \ {p}) \ {x} /\ (s \ {p}) \ {x} \in SUBSET S
        OBVIOUS
      <4>6. f[x] \in Nat /\ f[p] \in Nat /\ g[(s \ {p}) \ {x}] \in Nat
        BY <1>0, <3>1, <4>5
      <4>7. g[(s \ {x}) \ {p}] = g[(s \ {p}) \ {x}]
        BY <4>5
      <4> DEFINE a == f[x]
                 b == f[p]
                 c == g[(s \ {p}) \ {x}]
      <4>8. a \in Nat /\ b \in Nat /\ c \in Nat
        BY <4>6
      <4>9. g[s] = b + (a + c) /\ g[s \ {x}] = b + c /\ f[x] = a
        BY <3>2, <4>2, <4>4, <4>7
      <4> HIDE DEF G, a, b, c
      <4> QED BY <4>8, <4>9
    <3> QED BY <3>3, <3>4
  <2> QED BY <2>1
<1>3. Nat \subseteq G
  <2> HIDE DEF G
  <2> QED BY <1>1, <1>2, NumberInduction
<1>4. ASSUME NEW s \in SUBSET S, NEW x \in s PROVE g[s] = f[x] + g[s \ {x}]
  <2>1. IsFiniteSet(s)
    BY <1>0, FS_Subset
  <2>2. Cardinality(s) \in Nat
    BY <2>1, FS_CardinalityType
  <2> QED BY <1>3, <2>2
<1> QED
  BY <1>4 DEF SumTakes

\* A sum is given by a function that follows the rule.
LEMMA SumByRule ==
    ASSUME NEW S, NEW f, Summable(f, S)
    PROVE  \E g : SumsOf(g, f, S) /\ SumOver(f, S) = g[S]
<1> DEFINE Rec(g) == [s \in SUBSET S |-> IF s = {} THEN 0 ELSE f[Pick(s)] + g[s \ {Pick(s)}]]
           iter == CHOOSE g : g = Rec(g)
<1>0. IsFiniteSet(S) /\ \A i \in S : f[i] \in Nat
  BY DEF Summable
<1>1. PICK g \in [SUBSET S -> Nat] : SumRule(g, f, S)
  BY <1>0, SumExists
<1>2. g = Rec(g)
  BY <1>1 DEF SumRule
<1>3. iter = Rec(iter)
  <2> HIDE DEF Rec
  <2> QED BY <1>2
<1>4. SumOver(f, S) = iter[S]
  BY DEF SumOver, MapThenSumSet, MapThenFoldSet, Pick
<1>5. \A s \in SUBSET S : iter[s] = IF s = {} THEN 0 ELSE f[Pick(s)] + iter[s \ {Pick(s)}]
  <2> HIDE DEF iter
  <2> QED BY <1>3
<1> HIDE DEF iter
<1> DEFINE G == {n \in Nat : \A s \in SUBSET S : Cardinality(s) = n => iter[s] = g[s]}
<1>6. 0 \in G
  <2>1. ASSUME NEW s \in SUBSET S, Cardinality(s) = 0 PROVE s = {}
    BY <2>1, <1>0, FS_Subset, FS_EmptySet
  <2>2. iter[{}] = 0
    BY <1>5
  <2>3. g[{}] = 0
    BY <1>1 DEF SumRule
  <2> QED BY <2>1, <2>2, <2>3
<1>7. ASSUME NEW n \in Nat, n \in G PROVE n + 1 \in G
  <2>1. ASSUME NEW s \in SUBSET S, Cardinality(s) = n + 1 PROVE iter[s] = g[s]
    <3>1. s # {} /\ Pick(s) \in s /\ s \ {Pick(s)} \in SUBSET S /\ Cardinality(s \ {Pick(s)}) = n
      BY <1>0, <2>1, Smaller
    <3>2. iter[s \ {Pick(s)}] = g[s \ {Pick(s)}]
      BY <1>7, <3>1
    <3>3. iter[s] = f[Pick(s)] + iter[s \ {Pick(s)}]
      BY <1>5, <3>1
    <3>4. g[s] = f[Pick(s)] + g[s \ {Pick(s)}]
      BY <1>1, <3>1 DEF SumRule
    <3> QED BY <3>2, <3>3, <3>4
  <2> QED BY <2>1
<1>8. Nat \subseteq G
  <2> HIDE DEF G
  <2> QED BY <1>6, <1>7, NumberInduction
<1>9. Cardinality(S) \in Nat
  BY <1>0, FS_CardinalityType
<1>10. iter[S] = g[S]
  BY <1>8, <1>9
<1> QED
  BY <1>1, <1>4, <1>10 DEF SumsOf

\* Two functions that follow the rules of sums, over sets one of which is part of the
\* other, agree where the summands do.
LEMMA SumRuleAgrees ==
    ASSUME NEW S, NEW T \in SUBSET S, NEW f, Summable(f, S), NEW e, Alike(e, f, T),
           NEW g, SumsOf(g, f, S), NEW k, SumsOf(k, e, T)
    PROVE  k[T] = g[T]
<1> DEFINE G == {n \in Nat : \A s \in SUBSET T : Cardinality(s) = n => k[s] = g[s]}
<1>0. IsFiniteSet(T)
  BY FS_Subset DEF Summable
<1>1. 0 \in G
  <2>1. ASSUME NEW s \in SUBSET T, Cardinality(s) = 0 PROVE s = {}
    BY <1>0, <2>1, FS_Subset, FS_EmptySet
  <2>2. k[{}] = 0 /\ g[{}] = 0
    BY DEF SumsOf, SumRule
  <2> QED BY <2>1, <2>2
<1>2. ASSUME NEW n \in Nat, n \in G PROVE n + 1 \in G
  <2>1. ASSUME NEW s \in SUBSET T, Cardinality(s) = n + 1 PROVE k[s] = g[s]
    <3>1. s # {} /\ Pick(s) \in s /\ s \ {Pick(s)} \in SUBSET T /\ Cardinality(s \ {Pick(s)}) = n
      BY <1>0, <2>1, Smaller
    <3>2. k[s \ {Pick(s)}] = g[s \ {Pick(s)}]
      BY <1>2, <3>1
    <3>3. k[s] = e[Pick(s)] + k[s \ {Pick(s)}]
      BY <3>1 DEF SumsOf, SumRule
    <3>4. g[s] = f[Pick(s)] + g[s \ {Pick(s)}]
      BY <3>1 DEF SumsOf, SumRule
    <3>5. e[Pick(s)] = f[Pick(s)]
      BY <3>1 DEF Alike
    <3> QED BY <3>2, <3>3, <3>4, <3>5
  <2> QED BY <2>1
<1>3. Nat \subseteq G
  <2> HIDE DEF G
  <2> QED BY <1>1, <1>2, NumberInduction
<1>4. Cardinality(T) \in Nat
  BY <1>0, FS_CardinalityType
<1> QED
  BY <1>3, <1>4

\* A sum depends on the summands only.
LEMMA SumSame ==
    ASSUME NEW S, NEW f, Summable(f, S), NEW e, Alike(e, f, S)
    PROVE  SumOver(e, S) = SumOver(f, S)
<1>1. PICK g : SumsOf(g, f, S) /\ SumOver(f, S) = g[S]
  BY SumByRule
<1>2. Summable(e, S)
  BY DEF Summable, Alike
<1>3. PICK k : SumsOf(k, e, S) /\ SumOver(e, S) = k[S]
  BY <1>2, SumByRule
<1>4. k[S] = g[S]
  <2>1. S \in SUBSET S
    OBVIOUS
  <2> QED BY <1>1, <1>3, <2>1, SumRuleAgrees
<1> QED
  BY <1>1, <1>3, <1>4

\* The sum over no element, and over one element more.
LEMMA SumStep ==
    ASSUME NEW S, NEW f, Summable(f, S)
    PROVE  /\ SumOver(f, {}) = 0
           /\ \A x \in S : SumOver(f, S) = SumOver(f, S \ {x}) + f[x]
<1>1. PICK g : SumsOf(g, f, S) /\ SumOver(f, S) = g[S]
  BY SumByRule
<1>2. ASSUME NEW T \in SUBSET S PROVE SumOver(f, T) = g[T]
  <2>1. Summable(f, T)
    BY FS_Subset DEF Summable
  <2>2. PICK k : SumsOf(k, f, T) /\ SumOver(f, T) = k[T]
    BY <2>1, SumByRule
  <2>3. k[T] = g[T]
    <3>1. Alike(f, f, T)
      BY DEF Alike
    <3> QED BY <1>1, <2>2, <3>1, SumRuleAgrees
  <2> QED BY <2>2, <2>3
<1>3. g[{}] = 0
  BY <1>1 DEF SumsOf, SumRule
<1>4. \A x \in S : g[S] = f[x] + g[S \ {x}]
  <2>1. SumTakes(g, f, S)
    BY <1>1, SumRuleTakes
  <2>2. S \in SUBSET S
    OBVIOUS
  <2> QED BY <2>1, <2>2 DEF SumTakes
<1>5. ASSUME NEW x \in S PROVE SumOver(f, S) = SumOver(f, S \ {x}) + f[x]
  <2>1. SumOver(f, S) = g[S] /\ SumOver(f, S \ {x}) = g[S \ {x}]
    BY <1>2
  <2>2. g[S] = f[x] + g[S \ {x}]
    BY <1>4
  <2>3. f[x] \in Nat /\ g[S \ {x}] \in Nat
    BY <1>1 DEF Summable, SumsOf
  <2> QED BY <2>1, <2>2, <2>3
<1>6. SumOver(f, {}) = 0
  BY <1>2, <1>3
<1> QED
  BY <1>5, <1>6

\* The sum over one element more, and the sum over none.
LEMMA SumInsert ==
    ASSUME NEW T, NEW x, x \notin T, NEW f, Summable(f, T \cup {x})
    PROVE  /\ SumOver(f, T \cup {x}) = SumOver(f, T) + f[x]
           /\ SumOver(f, T) \in Nat /\ SumOver(f, {}) = 0
<1>1. (T \cup {x}) \ {x} = T /\ x \in T \cup {x}
  OBVIOUS
<1>2. SumOver(f, T \cup {x}) = SumOver(f, (T \cup {x}) \ {x}) + f[x] /\ SumOver(f, {}) = 0
  <2> DEFINE S == T \cup {x}
  <2>1. Summable(f, S) /\ x \in S
    OBVIOUS
  <2> HIDE DEF S
  <2>2. SumOver(f, S) = SumOver(f, S \ {x}) + f[x] /\ SumOver(f, {}) = 0
    BY <2>1, SumStep
  <2> QED BY <2>2 DEF S
<1>3. SumOver(f, T) \in Nat
  <2>1. IsFiniteSet(T) /\ \A i \in T : f[i] \in Nat
    BY FS_Subset DEF Summable
  <2> QED BY <2>1, SumType
<1> QED
  BY <1>1, <1>2, <1>3

\* The sums over the parts of a set.
LEMMA SummablePart ==
    ASSUME NEW S, NEW T \in SUBSET S, NEW f, Summable(f, S)
    PROVE  Summable(f, T) /\ SumOver(f, T) \in Nat
<1>1. IsFiniteSet(T) /\ \A i \in T : f[i] \in Nat
  BY FS_Subset DEF Summable
<1> QED
  BY <1>1, SumType DEF Summable

\* Elements that add nothing may be left out of a sum.
LEMMA SumGrown ==
    ASSUME NEW S, NEW T \in SUBSET S, NEW f, Summable(f, S), \A i \in S \ T : f[i] = 0
    PROVE  SumOver(f, S) = SumOver(f, T)
<1> DEFINE G == {D \in SUBSET (S \ T) : SumOver(f, T \cup D) = SumOver(f, T)}
<1>1. {} \in G
  <2>1. T \cup {} = T
    OBVIOUS
  <2> QED BY <2>1
<1>2. ASSUME NEW D \in SUBSET (S \ T), NEW x \in (S \ T) \ D, D \in G
      PROVE  D \cup {x} \in G
  <2> DEFINE U == T \cup D
             V == T \cup (D \cup {x})
  <2>1. U \cup {x} \in SUBSET S /\ x \notin U /\ V = U \cup {x} /\ D \cup {x} \in SUBSET (S \ T)
    OBVIOUS
  <2>2. SumOver(f, U) = SumOver(f, T)
    BY <1>2
  <2>3. f[x] = 0
    BY <1>2
  <2> HIDE DEF U, V
  <2>4. Summable(f, U \cup {x})
    BY <2>1, SummablePart
  <2>5. SumOver(f, U \cup {x}) = SumOver(f, U) + f[x] /\ SumOver(f, U) \in Nat
    BY <2>1, <2>4, SumInsert
  <2>6. SumOver(f, V) = SumOver(f, U) + f[x]
    BY <2>1, <2>5
  <2>7. SumOver(f, V) = SumOver(f, T)
    BY <2>2, <2>3, <2>5, <2>6
  <2> QED BY <2>1, <2>7 DEF V
<1>3. S \ T \in G
  <2>1. IsFiniteSet(S \ T)
    BY FS_Subset DEF Summable
  <2> HIDE DEF G
  <2> DEFINE D == S \ T
  <2>2. /\ IsFiniteSet(D) /\ {} \in G
        /\ \A U \in SUBSET D : \A x \in D \ U : U \in G => U \cup {x} \in G
    BY <1>1, <1>2, <2>1
  <2> HIDE DEF D
  <2>3. D \in G
    BY <2>2, FiniteInduction
  <2> QED BY <2>3 DEF D
<1>4. T \cup (S \ T) = S
  OBVIOUS
<1> QED
  BY <1>3, <1>4

\* The sum of two sums.
LEMMA SumPlus ==
    ASSUME NEW S, NEW f, Summable(f, S), NEW e, Summable(e, S),
           NEW h, \A i \in S : h[i] = f[i] + e[i]
    PROVE  SumOver(h, S) = SumOver(f, S) + SumOver(e, S)
<1> DEFINE G == {T \in SUBSET S : SumOver(h, T) = SumOver(f, T) + SumOver(e, T)}
<1>1. Summable(h, S)
  BY DEF Summable
<1>2. {} \in G
  <2>1. SumOver(h, {}) = 0 /\ SumOver(f, {}) = 0 /\ SumOver(e, {}) = 0
    BY <1>1, SumStep
  <2> QED BY <2>1
<1>3. ASSUME NEW T \in SUBSET S, NEW x \in S \ T, T \in G
      PROVE  T \cup {x} \in G
  <2>1. T \cup {x} \in SUBSET S /\ x \notin T
    BY <1>3
  <2>2. Summable(f, T \cup {x}) /\ Summable(e, T \cup {x}) /\ Summable(h, T \cup {x})
    BY <1>1, <2>1, SummablePart
  <2>3. SumOver(f, T \cup {x}) = SumOver(f, T) + f[x] /\ SumOver(f, T) \in Nat
    BY <2>1, <2>2, SumInsert
  <2>4. SumOver(e, T \cup {x}) = SumOver(e, T) + e[x] /\ SumOver(e, T) \in Nat
    BY <2>1, <2>2, SumInsert
  <2>5. SumOver(h, T \cup {x}) = SumOver(h, T) + h[x]
    BY <2>1, <2>2, SumInsert
  <2>6. h[x] = f[x] + e[x] /\ f[x] \in Nat /\ e[x] \in Nat
    BY DEF Summable
  <2>7. SumOver(h, T) = SumOver(f, T) + SumOver(e, T)
    BY <1>3
  <2>8. SumOver(h, T \cup {x}) = SumOver(f, T \cup {x}) + SumOver(e, T \cup {x})
    BY <2>3, <2>4, <2>5, <2>6, <2>7
  <2> QED BY <2>1, <2>8
<1>4. S \in G
  <2>1. IsFiniteSet(S)
    BY DEF Summable
  <2> HIDE DEF G
  <2> QED BY <1>2, <1>3, <2>1, FiniteInduction
<1> QED
  BY <1>4

\* The sum over two sets with nothing in common.
LEMMA SumUnion ==
    ASSUME NEW S, NEW T, S \cap T = {}, NEW f, Summable(f, S \cup T)
    PROVE  SumOver(f, S \cup T) = SumOver(f, S) + SumOver(f, T)
<1> DEFINE G == {D \in SUBSET T : SumOver(f, S \cup D) = SumOver(f, S) + SumOver(f, D)}
<1>1. {} \in G
  <2>1. S \cup {} = S
    OBVIOUS
  <2>2. SumOver(f, {}) = 0
    <3> DEFINE U == S \cup T
    <3>1. Summable(f, U)
      OBVIOUS
    <3> HIDE DEF U
    <3> QED BY <3>1, SumStep
  <2>3. SumOver(f, S) \in Nat
    BY SummablePart
  <2> QED BY <2>1, <2>2, <2>3
<1>2. ASSUME NEW D \in SUBSET T, NEW x \in T \ D, D \in G
      PROVE  D \cup {x} \in G
  <2> DEFINE U == S \cup D
             V == D \cup {x}
             W == S \cup V
  <2>1. /\ U \cup {x} \in SUBSET (S \cup T) /\ x \notin U /\ W = U \cup {x}
        /\ V \in SUBSET (S \cup T) /\ x \notin D /\ V \in SUBSET T
    BY <1>2
  <2>2. SumOver(f, U) = SumOver(f, S) + SumOver(f, D)
    BY <1>2
  <2>3. Summable(f, U \cup {x}) /\ Summable(f, D \cup {x}) /\ SumOver(f, S) \in Nat
    BY <2>1, SummablePart
  <2> HIDE DEF U, W
  <2>4. SumOver(f, U \cup {x}) = SumOver(f, U) + f[x]
    BY <2>1, <2>3, SumInsert
  <2>5. SumOver(f, V) = SumOver(f, D) + f[x] /\ SumOver(f, D) \in Nat
    BY <2>1, <2>3, SumInsert
  <2>8. SumOver(f, W) = SumOver(f, U) + f[x]
    BY <2>1, <2>4
  <2> HIDE DEF V
  <2>6. f[x] \in Nat
    BY DEF Summable
  <2>7. SumOver(f, W) = SumOver(f, S) + SumOver(f, V)
    <3> DEFINE a == SumOver(f, S)
               d == SumOver(f, D)
    <3>1. a \in Nat /\ d \in Nat /\ f[x] \in Nat
      BY <2>3, <2>5, <2>6
    <3>2. SumOver(f, W) = (a + d) + f[x] /\ SumOver(f, V) = d + f[x]
      BY <2>2, <2>5, <2>8
    <3>3. (a + d) + f[x] = a + (d + f[x])
      BY <3>1
    <3> HIDE DEF G
    <3> QED BY <3>2, <3>3
  <2> QED BY <2>1, <2>7 DEF V, W
<1>3. T \in G
  <2>1. IsFiniteSet(T)
    BY FS_Subset DEF Summable
  <2> HIDE DEF G
  <2> QED BY <1>1, <1>2, <2>1, FiniteInduction
<1> QED
  BY <1>3

-----------------------------------------------------------------------------
(* Weights by bucket.                                                      *)

\* Weights of the buckets, and their sum over the first n buckets.
Weighing == [Buckets -> Nat]
Upto(f, n) == SumOver(f, 0 .. n - 1)

\* The sums over the first buckets, one by one.
LEMMA UptoStep ==
    ASSUME NEW f \in Weighing
    PROVE  /\ Upto(f, 0) = 0
           /\ \A n \in 0 .. NumBuckets : Upto(f, n) \in Nat
           /\ \A n \in Buckets : Upto(f, n + 1) = Upto(f, n) + f[n]
<1>1. NumBuckets \in Nat /\ Buckets = 0 .. NumBuckets - 1
  BY BucketsType DEF Last, Buckets
<1>2. Summable(f, Buckets)
  <2>1. IsFiniteSet(0 .. NumBuckets - 1)
    BY <1>1, FS_Interval
  <2> QED BY <1>1, <2>1 DEF Summable, Weighing
<1>3. ASSUME NEW n \in 0 .. NumBuckets PROVE Upto(f, n) \in Nat
  <2>1. 0 .. n - 1 \in SUBSET Buckets
    BY <1>1
  <2>2. SumOver(f, 0 .. n - 1) \in Nat
    BY <1>2, <2>1, SummablePart
  <2> QED BY <2>2 DEF Upto
<1>4. ASSUME NEW n \in Buckets PROVE Upto(f, n + 1) = Upto(f, n) + f[n]
  <2> DEFINE T == 0 .. n - 1
  <2>1. T \cup {n} \in SUBSET Buckets /\ n \notin T /\ 0 .. (n + 1) - 1 = T \cup {n}
    BY <1>1
  <2> HIDE DEF T
  <2>2. Summable(f, T \cup {n})
    BY <1>2, <2>1, SummablePart
  <2>3. SumOver(f, T \cup {n}) = SumOver(f, T) + f[n]
    BY <2>1, <2>2, SumInsert
  <2> QED BY <2>1, <2>3 DEF Upto, T
<1>5. Upto(f, 0) = 0
  <2>1. 0 .. 0 - 1 = {}
    OBVIOUS
  <2>2. SumOver(f, {}) = 0
    BY <1>2, SumStep
  <2> QED BY <2>1, <2>2 DEF Upto
<1> QED
  BY <1>3, <1>4, <1>5

\* Induction over the number of buckets.
LEMMA BucketInduction ==
    ASSUME NEW G, 0 \in G, \A n \in Buckets : n \in G => n + 1 \in G
    PROVE  0 .. NumBuckets \subseteq G
<1> DEFINE H == {n \in Nat : n <= NumBuckets => n \in G}
<1>1. NumBuckets \in Nat /\ Buckets = 0 .. NumBuckets - 1
  BY BucketsType DEF Last, Buckets
<1>2. 0 \in H
  OBVIOUS
<1>3. ASSUME NEW n \in Nat, n \in H PROVE n + 1 \in H
  BY <1>1, <1>3
<1>4. Nat \subseteq H
  <2> HIDE DEF H
  <2> QED BY <1>2, <1>3, NumberInduction
<1> QED
  BY <1>1, <1>4

\* The weights h are f and e together; the weights h are those of f, c times as large.
Together(h, f, e) == \A b \in Buckets : h[b] = f[b] + e[b]
Multiple(h, c, f) == \A b \in Buckets : h[b] = c * f[b]

\* The sums of two weights together.
LEMMA UptoPlus ==
    ASSUME NEW f \in Weighing, NEW e \in Weighing, NEW h \in Weighing,
           Together(h, f, e)
    PROVE  \A n \in 0 .. NumBuckets : Upto(h, n) = Upto(f, n) + Upto(e, n)
<1> DEFINE G == {n \in 0 .. NumBuckets : Upto(h, n) = Upto(f, n) + Upto(e, n)}
<1>1. NumBuckets \in Nat /\ Buckets = 0 .. NumBuckets - 1
  BY BucketsType DEF Last, Buckets
<1>2. Upto(f, 0) = 0 /\ Upto(e, 0) = 0 /\ Upto(h, 0) = 0
  BY UptoStep
<1>3. 0 \in G
  BY <1>1, <1>2
<1>4. ASSUME NEW n \in Buckets, n \in G PROVE n + 1 \in G
  <2>1. n \in 0 .. NumBuckets /\ n + 1 \in 0 .. NumBuckets
    BY <1>1
  <2>2. Upto(f, n + 1) = Upto(f, n) + f[n] /\ Upto(f, n) \in Nat
    BY <2>1, UptoStep
  <2>3. Upto(e, n + 1) = Upto(e, n) + e[n] /\ Upto(e, n) \in Nat
    BY <2>1, UptoStep
  <2>4. Upto(h, n + 1) = Upto(h, n) + h[n]
    BY <2>1, UptoStep
  <2>5. h[n] = f[n] + e[n] /\ f[n] \in Nat /\ e[n] \in Nat
    BY DEF Weighing, Together
  <2>6. Upto(h, n) = Upto(f, n) + Upto(e, n)
    BY <1>4
  <2> QED BY <2>1, <2>2, <2>3, <2>4, <2>5, <2>6
<1> HIDE DEF G
<1>5. 0 .. NumBuckets \subseteq G
  BY <1>3, <1>4, BucketInduction
<1> QED
  BY <1>5 DEF G

\* The sums of multiples.
LEMMA UptoTimes ==
    ASSUME NEW f \in Weighing, NEW h \in Weighing, NEW c \in Nat,
           Multiple(h, c, f)
    PROVE  \A n \in 0 .. NumBuckets : Upto(h, n) = c * Upto(f, n)
<1> DEFINE G == {n \in 0 .. NumBuckets : Upto(h, n) = c * Upto(f, n)}
<1>1. NumBuckets \in Nat /\ Buckets = 0 .. NumBuckets - 1
  BY BucketsType DEF Last, Buckets
<1>2. Upto(f, 0) = 0 /\ Upto(h, 0) = 0 /\ c * 0 = 0
  BY UptoStep
<1>3. 0 \in G
  BY <1>1, <1>2
<1>4. ASSUME NEW n \in Buckets, n \in G PROVE n + 1 \in G
  <2>1. n \in 0 .. NumBuckets /\ n + 1 \in 0 .. NumBuckets
    BY <1>1
  <2> DEFINE F == Upto(f, n)
  <2>2. Upto(f, n + 1) = F + f[n] /\ F \in Nat
    BY <2>1, UptoStep
  <2>3. Upto(h, n + 1) = Upto(h, n) + h[n]
    BY <2>1, UptoStep
  <2>4. h[n] = c * f[n] /\ f[n] \in Nat
    BY DEF Weighing, Multiple
  <2>5. Upto(h, n) = c * F
    BY <1>4
  <2> HIDE DEF F
  <2>6. c * (F + f[n]) = c * F + c * f[n]
    BY <2>2, <2>4
  <2> QED BY <2>1, <2>2, <2>3, <2>4, <2>5, <2>6
<1> HIDE DEF G
<1>5. 0 .. NumBuckets \subseteq G
  BY <1>3, <1>4, BucketInduction
<1> QED
  BY <1>5 DEF G

\* A bucket's weight is part of the sum, and so are the first buckets.
LEMMA UptoPart ==
    ASSUME NEW f \in Weighing
    PROVE  /\ \A n \in 0 .. NumBuckets : Upto(f, n) <= Upto(f, NumBuckets)
           /\ \A b \in Buckets : f[b] <= Upto(f, NumBuckets)
<1> DEFINE G == {n \in 0 .. NumBuckets : \A m \in 0 .. n : Upto(f, m) <= Upto(f, n)}
<1>1. NumBuckets \in Nat /\ Buckets = 0 .. NumBuckets - 1
  BY BucketsType DEF Last, Buckets
<1>2. \A n \in 0 .. NumBuckets : Upto(f, n) \in Nat
  BY UptoStep
<1>3. 0 \in G
  <2>1. 0 \in 0 .. NumBuckets /\ Upto(f, 0) \in Nat
    BY <1>1, <1>2
  <2>2. \A m \in 0 .. 0 : m = 0
    OBVIOUS
  <2> QED BY <2>1, <2>2
<1>4. ASSUME NEW n \in Buckets, n \in G PROVE n + 1 \in G
  <2>1. n \in 0 .. NumBuckets /\ n + 1 \in 0 .. NumBuckets
    BY <1>1
  <2>2. Upto(f, n + 1) = Upto(f, n) + f[n] /\ Upto(f, n) \in Nat /\ f[n] \in Nat
    BY <2>1, UptoStep DEF Weighing
  <2>3. ASSUME NEW m \in 0 .. n + 1 PROVE Upto(f, m) <= Upto(f, n + 1)
    <3>1. CASE m = n + 1
      BY <2>2, <3>1
    <3>2. CASE m # n + 1
      <4>1. m \in 0 .. n /\ m \in 0 .. NumBuckets
        BY <1>1, <2>1, <3>2
      <4>2. Upto(f, m) <= Upto(f, n) /\ Upto(f, m) \in Nat
        BY <1>2, <1>4, <4>1
      <4> QED BY <2>2, <4>2
    <3> QED BY <3>1, <3>2
  <2> QED BY <2>1, <2>3
<1>5. 0 .. NumBuckets \subseteq G
  <2> HIDE DEF G
  <2> QED BY <1>3, <1>4, BucketInduction
<1>6. \A n \in 0 .. NumBuckets : Upto(f, n) <= Upto(f, NumBuckets)
  BY <1>1, <1>5
<1>7. ASSUME NEW b \in Buckets PROVE f[b] <= Upto(f, NumBuckets)
  <2>1. b \in 0 .. NumBuckets /\ b + 1 \in 0 .. NumBuckets /\ NumBuckets \in 0 .. NumBuckets
    BY <1>1
  <2>2. Upto(f, b + 1) = Upto(f, b) + f[b] /\ Upto(f, b) \in Nat /\ f[b] \in Nat
    BY <2>1, UptoStep DEF Weighing
  <2>3. Upto(f, b + 1) <= Upto(f, NumBuckets) /\ Upto(f, NumBuckets) \in Nat
    BY <1>2, <1>6, <2>1
  <2> QED BY <2>2, <2>3
<1> QED
  BY <1>6, <1>7

-----------------------------------------------------------------------------
(* Weights that stand for samples.                                         *)

\* The weight a, in units of 1 / u, is that of samples that weigh s, up to the part of
\* the weight g that r roundings to MaxCheckpointWeight may have moved.
Near(a, s, g, u, r) ==
    /\ MaxCheckpointWeight * a <= MaxCheckpointWeight * (u * s) + (r * NumBuckets) * (u * g)
    /\ MaxCheckpointWeight * (u * s) <= MaxCheckpointWeight * a + (r * NumBuckets) * (u * g)

\* Counting in smaller units changes nothing.
LEMMA NearScaled ==
    ASSUME NEW a \in Nat, NEW s \in Nat, NEW g \in Nat, NEW u \in Nat, NEW r \in Nat,
           NEW c \in Nat, c > 0
    PROVE  Near(c * a, s, g, c * u, r) <=> Near(a, s, g, u, r)
<1> DEFINE M == MaxCheckpointWeight
           K == r * NumBuckets
           x == M * a
           y == M * (u * s)
           z == K * (u * g)
<1>1. M \in Nat /\ NumBuckets \in Nat
  BY OptionsAssumption, BucketsType
<1>2. K \in Nat
  BY <1>1
<1>3. Near(a, s, g, u, r) <=> x <= y + z /\ y <= x + z
  BY DEF Near
<1>4. Near(c * a, s, g, c * u, r)
        <=> /\ M * (c * a) <= M * ((c * u) * s) + K * ((c * u) * g)
            /\ M * ((c * u) * s) <= M * (c * a) + K * ((c * u) * g)
  BY DEF Near
<1> HIDE DEF K, M
<1>5. M * (c * a) = c * x
  BY <1>1
<1>6. M * ((c * u) * s) = c * y
  BY <1>1
<1>7. K * ((c * u) * g) = c * z
  BY <1>2
<1>8. x \in Nat /\ y \in Nat /\ z \in Nat
  BY <1>1, <1>2
<1> HIDE DEF x, y, z
<1>9. c * y + c * z = c * (y + z) /\ c * x + c * z = c * (x + z)
  BY <1>8
<1>10. c * (y + z) >= c * x <=> y + z >= x
  BY <1>8, MultiplesCompare
<1>11. c * (x + z) >= c * y <=> x + z >= y
  BY <1>8, MultiplesCompare
<1>12. /\ Near(c * a, s, g, c * u, r)
            <=> c * x <= c * (y + z) /\ c * y <= c * (x + z)
  BY <1>4, <1>5, <1>6, <1>7, <1>9
<1>13. c * x \in Nat /\ c * y \in Nat /\ c * (y + z) \in Nat /\ c * (x + z) \in Nat
  BY <1>8
<1>14. c * x <= c * (y + z) <=> x <= y + z
  BY <1>8, <1>10, <1>13
<1>15. c * y <= c * (x + z) <=> y <= x + z
  BY <1>8, <1>11, <1>13
<1> QED
  BY <1>3, <1>12, <1>14, <1>15

\* A larger factor makes a larger product.
LEMMA ProductGrows ==
    ASSUME NEW a \in Nat, NEW b \in Nat, a <= b, NEW c \in Nat
    PROVE  a * c <= b * c /\ c * a <= c * b
<1>1. (b - a) * c >= 0 /\ b * c = a * c + (b - a) * c /\ a * c \in Nat /\ b * c \in Nat
  OBVIOUS
<1>2. (b - a) * c \in Int /\ c * a = a * c /\ c * b = b * c
  OBVIOUS
<1> QED
  BY <1>1, <1>2

\* Weights of two histograms add up; so do what they stand for.
LEMMA NearSum ==
    ASSUME NEW a \in Nat, NEW s \in Nat, NEW g \in Nat, NEW b \in Nat, NEW t \in Nat,
           NEW k \in Nat, NEW u \in Nat, NEW p \in Nat, NEW q \in Nat, NEW r \in Nat,
           p <= r, q <= r, Near(a, s, g, u, p), Near(b, t, k, u, q)
    PROVE  Near(a + b, s + t, g + k, u, r)
<1> DEFINE M == MaxCheckpointWeight
           N == NumBuckets
           x == M * a
           y == M * (u * s)
           z == (p * N) * (u * g)
           xx == M * b
           yy == M * (u * t)
           zz == (q * N) * (u * k)
           w == (r * N) * (u * g)
           ww == (r * N) * (u * k)
<1>1. M \in Nat /\ N \in Nat
  BY OptionsAssumption, BucketsType
<1>2. x <= y + z /\ y <= x + z
  BY DEF Near
<1>3. xx <= yy + zz /\ yy <= xx + zz
  BY DEF Near
<1> HIDE DEF M, N
<1>4. p * N <= r * N /\ q * N <= r * N /\ p * N \in Nat /\ q * N \in Nat /\ r * N \in Nat
  BY <1>1, ProductGrows
<1>5. u * g \in Nat /\ u * k \in Nat /\ u * s \in Nat /\ u * t \in Nat
  OBVIOUS
<1>6. z <= w
  BY <1>4, <1>5, ProductGrows
<1>7. zz <= ww
  BY <1>4, <1>5, ProductGrows
<1>8. /\ x \in Nat /\ y \in Nat /\ z \in Nat /\ w \in Nat
      /\ xx \in Nat /\ yy \in Nat /\ zz \in Nat /\ ww \in Nat
  <2>1. x \in Nat /\ y \in Nat /\ xx \in Nat /\ yy \in Nat
    BY <1>1, <1>5
  <2>2. z \in Nat /\ w \in Nat
    BY <1>4, <1>5
  <2>3. zz \in Nat /\ ww \in Nat
    BY <1>4, <1>5
  <2> QED BY <2>1, <2>2, <2>3
<1>9. M * (a + b) = x + xx
  BY <1>1
<1>10. M * (u * (s + t)) = y + yy
  <2>1. u * (s + t) = u * s + u * t
    OBVIOUS
  <2> DEFINE us == u * s
             ut == u * t
  <2>2. us \in Nat /\ ut \in Nat
    BY <1>5
  <2> HIDE DEF us, ut
  <2>3. M * (us + ut) = M * us + M * ut
    BY <1>1, <2>2
  <2> QED BY <2>1, <2>3 DEF us, ut
<1>11. (r * N) * (u * (g + k)) = w + ww
  <2>1. u * (g + k) = u * g + u * k
    OBVIOUS
  <2> DEFINE ug == u * g
             uk == u * k
             K == r * N
  <2>2. ug \in Nat /\ uk \in Nat /\ K \in Nat
    BY <1>4, <1>5
  <2> HIDE DEF ug, uk, K
  <2>3. K * (ug + uk) = K * ug + K * uk
    BY <2>2
  <2> QED BY <2>1, <2>3 DEF ug, uk, K
<1> HIDE DEF x, y, z, w, xx, yy, zz, ww
<1>12. x + xx <= (y + yy) + (w + ww) /\ y + yy <= (x + xx) + (w + ww)
  BY <1>2, <1>3, <1>6, <1>7, <1>8
<1> QED
  BY <1>9, <1>10, <1>11, <1>12 DEF Near, M, N

\* Weights that are exact may be added or taken away.
LEMMA NearShift ==
    ASSUME NEW a \in Nat, NEW s \in Nat, NEW g \in Nat, NEW u \in Nat, NEW r \in Nat,
           NEW e \in Nat
    PROVE  Near(a + u * e, s + e, g, u, r) <=> Near(a, s, g, u, r)
<1> DEFINE M == MaxCheckpointWeight
           x == M * a
           y == M * (u * s)
           z == (r * NumBuckets) * (u * g)
           d == M * (u * e)
<1>1. M \in Nat /\ NumBuckets \in Nat
  BY OptionsAssumption, BucketsType
<1>2. Near(a, s, g, u, r) <=> x <= y + z /\ y <= x + z
  BY DEF Near
<1>3. Near(a + u * e, s + e, g, u, r)
        <=> M * (a + u * e) <= M * (u * (s + e)) + z /\ M * (u * (s + e)) <= M * (a + u * e) + z
  BY DEF Near
<1> DEFINE ue == u * e
           us == u * s
<1>4. ue \in Nat /\ us \in Nat /\ u * (s + e) = us + ue
  OBVIOUS
<1>5. z \in Nat
  <2>1. r * NumBuckets \in Nat /\ u * g \in Nat
    BY <1>1
  <2> QED BY <2>1
<1> HIDE DEF M
<1>6. M * (a + ue) = x + d /\ M * (us + ue) = y + d
  <2> HIDE DEF ue, us
  <2>1. M * (a + ue) = M * a + M * ue /\ M * (us + ue) = M * us + M * ue
    BY <1>1, <1>4
  <2> QED BY <2>1 DEF ue, us
<1>7. x \in Nat /\ y \in Nat /\ d \in Nat
  BY <1>1, <1>4
<1>8. Near(a + u * e, s + e, g, u, r) <=> x + d <= (y + d) + z /\ y + d <= (x + d) + z
  BY <1>3, <1>4, <1>6
<1> HIDE DEF x, y, z, d
<1> QED
  BY <1>2, <1>5, <1>7, <1>8

-----------------------------------------------------------------------------
(* Rounding.                                                               *)

\* The weight R, in units of which MaxCheckpointWeight are max, is w to half a unit.
Close(R, w, max) ==
    /\ (2 * max) * R <= (2 * MaxCheckpointWeight) * w + max
    /\ (2 * MaxCheckpointWeight) * w <= (2 * max) * R + max

\* What is rounded for a checkpoint is close to what it was.
LEMMA RoundedClose ==
    ASSUME NEW w \in Nat, NEW max \in Nat, w <= max
    PROVE  /\ Rounded(w, max) \in Nat
           /\ Close(Rounded(w, max), w, max)
           /\ w = 0 => Rounded(w, max) = 0
           /\ w = max /\ w > 0 => Rounded(w, max) = MaxCheckpointWeight
<1> DEFINE M == MaxCheckpointWeight
           n == 2 * w * M + max
           d == 2 * max
           q == n \div d
<1>1. M \in Nat
  BY OptionsAssumption
<1>2. CASE max = 0
  <2>1. Rounded(w, max) = 0 /\ w = 0
    BY <1>2 DEF Rounded
  <2>2. (2 * max) * 0 = 0 /\ (2 * M) * w = 0
    BY <1>1, <1>2, <2>1
  <2> QED BY <1>2, <2>1, <2>2 DEF Close
<1>3. CASE max # 0
  <2>1. Rounded(w, max) = q
    BY <1>3 DEF Rounded
  <2>2. d \in Nat /\ d > 0 /\ n \in Nat
    BY <1>1, <1>3
  <2> HIDE DEF n, d
  <2>3. q \in Nat /\ d * q <= n /\ n < d * q + d
    BY <2>2, Quotient
  <2>7. w = 0 => n < d * 1
    BY <1>1, <1>3 DEF n, d
  <2>8. w = 0 => q = 0
    <3> SUFFICES ASSUME w = 0, q >= 1 PROVE FALSE
      BY <2>3
    <3>1. d * 1 <= d * q
      BY <2>2, <2>3, ProductGrows
    <3> HIDE DEF q
    <3> QED BY <2>2, <2>3, <2>7, <3>1
  <2>9. w = max => q = M
    <3> SUFFICES ASSUME w = max PROVE q = M
      OBVIOUS
    <3>1. n = d * M + max /\ d * M \in Nat /\ max < d
      <4>1. 2 * w * M = (2 * max) * M
        BY <1>1
      <4> QED BY <1>1, <1>3, <4>1 DEF n, d
    <3>2. d * M <= n
      BY <3>1
    <3>3. M <= q
      BY <1>1, <2>2, <3>2, QuotientBound
    <3>4. q <= M
      <4> SUFFICES ASSUME M + 1 <= q PROVE FALSE
        BY <1>1, <2>3
      <4>1. d * (M + 1) <= d * q
        BY <1>1, <2>2, <2>3, ProductGrows
      <4>2. d * (M + 1) = d * M + d
        BY <1>1, <2>2
      <4>3. d * q \in Nat
        BY <2>2, <2>3
      <4> HIDE DEF q
      <4> QED BY <2>2, <2>3, <3>1, <4>1, <4>2, <4>3
    <3> QED BY <1>1, <2>3, <3>3, <3>4
  <2> HIDE DEF q
  <2>4. (2 * M) * w \in Nat /\ n = (2 * M) * w + max /\ d = 2 * max /\ d * q \in Nat
    BY <1>1, <2>2, <2>3 DEF n, d
  <2>5. d * q <= (2 * M) * w + max /\ (2 * M) * w <= d * q + max
    BY <2>3, <2>4
  <2>6. Close(q, w, max)
    BY <2>4, <2>5 DEF Close
  <2> QED BY <2>1, <2>3, <2>6, <2>8, <2>9
<1> QED
  BY <1>2, <1>3

\* B in units of 2 * m and A in units of k, to N halves of the former unit.
AsClose(B, A, m, k, N) ==
    (2 * m) * B <= k * A + N * m /\ k * A <= (2 * m) * B + N * m

\* The sums of weights that were rounded.
LEMMA SumsClose ==
    ASSUME NEW w \in Weighing, NEW R \in Weighing, NEW max \in Nat,
           \A b \in Buckets : Close(R[b], w[b], max)
    PROVE  \A n \in 0 .. NumBuckets :
              AsClose(Upto(R, n), Upto(w, n), max, 2 * MaxCheckpointWeight, NumBuckets)
<1> DEFINE c == 2 * max
           k == 2 * MaxCheckpointWeight
           G == {n \in 0 .. NumBuckets : /\ c * Upto(R, n) <= k * Upto(w, n) + n * max
                                         /\ k * Upto(w, n) <= c * Upto(R, n) + n * max}
<1>1. NumBuckets \in Nat /\ Buckets = 0 .. NumBuckets - 1
  BY BucketsType DEF Last, Buckets
<1>2. c \in Nat /\ k \in Nat
  BY OptionsAssumption
<1>3. 0 \in G
  <2>1. Upto(R, 0) = 0 /\ Upto(w, 0) = 0
    BY UptoStep
  <2>2. c * 0 = 0 /\ k * 0 = 0 /\ 0 * max = 0
    BY <1>2
  <2> HIDE DEF c, k
  <2> QED BY <1>1, <2>1, <2>2
<1> HIDE DEF c, k
<1>4. ASSUME NEW n \in Buckets, n \in G PROVE n + 1 \in G
  <2>1. n \in 0 .. NumBuckets /\ n + 1 \in 0 .. NumBuckets /\ n \in Nat
    BY <1>1
  <2> DEFINE A == Upto(R, n)
             B == Upto(w, n)
  <2>2. Upto(R, n + 1) = A + R[n] /\ A \in Nat /\ R[n] \in Nat
    BY <2>1, UptoStep DEF Weighing
  <2>3. Upto(w, n + 1) = B + w[n] /\ B \in Nat /\ w[n] \in Nat
    BY <2>1, UptoStep DEF Weighing
  <2>4. c * A <= k * B + n * max /\ k * B <= c * A + n * max
    BY <1>4
  <2>5. c * R[n] <= k * w[n] + max /\ k * w[n] <= c * R[n] + max
    BY DEF Close, c, k
  <2> HIDE DEF A, B
  <2>6. /\ c * (A + R[n]) = c * A + c * R[n] /\ k * (B + w[n]) = k * B + k * w[n]
        /\ (n + 1) * max = n * max + max
    BY <1>2, <2>1, <2>2, <2>3
  <2>7. c * A \in Nat /\ c * R[n] \in Nat /\ k * B \in Nat /\ k * w[n] \in Nat /\ n * max \in Nat
    BY <1>2, <2>1, <2>2, <2>3
  <2>8. /\ c * (A + R[n]) <= k * (B + w[n]) + (n + 1) * max
        /\ k * (B + w[n]) <= c * (A + R[n]) + (n + 1) * max
    BY <2>4, <2>5, <2>6, <2>7
  <2> QED BY <2>1, <2>2, <2>3, <2>8
<1>5. 0 .. NumBuckets \subseteq G
  <2> HIDE DEF G
  <2> QED BY <1>3, <1>4, BucketInduction
<1>6. ASSUME NEW n \in 0 .. NumBuckets
      PROVE  /\ c * Upto(R, n) <= k * Upto(w, n) + NumBuckets * max
             /\ k * Upto(w, n) <= c * Upto(R, n) + NumBuckets * max
  <2>1. n \in Nat /\ n <= NumBuckets
    BY <1>1
  <2>2. n * max <= NumBuckets * max
    BY <1>1, <2>1, ProductGrows
  <2>3. c * Upto(R, n) <= k * Upto(w, n) + n * max /\ k * Upto(w, n) <= c * Upto(R, n) + n * max
    BY <1>5
  <2>4. Upto(R, n) \in Nat /\ Upto(w, n) \in Nat
    BY UptoStep
  <2>5. c * Upto(R, n) \in Nat /\ k * Upto(w, n) \in Nat /\ n * max \in Nat /\ NumBuckets * max \in Nat
    BY <1>1, <1>2, <2>1, <2>4
  <2> QED BY <2>2, <2>3, <2>5
<1> QED
  BY <1>6 DEF c, k, AsClose

\* What share of the sum is in the first buckets changes little when all are rounded:
\* A of T before, B of S after.
LEMMA ShareClose ==
    ASSUME NEW A \in Nat, NEW T \in Nat, A <= T, NEW B \in Nat, NEW S \in Nat,
           NEW k \in Nat, NEW N \in Nat, NEW m \in Nat, m > 0,
           AsClose(B, A, m, k, N), AsClose(S, T, m, k, N)
    PROVE  B * T <= S * A + N * T /\ S * A <= B * T + N * T
<1> DEFINE c == 2 * m
           d == N * m
           cB == c * B
           kA == k * A
           cS == c * S
           kT == k * T
<1>1. d \in Nat /\ cB \in Nat /\ kA \in Nat /\ cS \in Nat /\ kT \in Nat
  OBVIOUS
<1>2. kA * T = kT * A
  OBVIOUS
<1>3. d * A <= d * T /\ d * A \in Nat /\ d * T \in Nat
  BY <1>1, ProductGrows
<1>4. c * (B * T) = cB * T /\ c * (S * A) = cS * A /\ c * (N * T) = d * T + d * T
  OBVIOUS
<1>10. cB <= kA + d /\ kA <= cB + d /\ cS <= kT + d /\ kT <= cS + d
  BY DEF AsClose
<1>17. c \in Nat /\ c > 0
  OBVIOUS
<1> HIDE DEF c, d, cB, kA, cS, kT
<1>5. cB * T <= kA * T + d * T
  <2>1. cB * T <= (kA + d) * T
    BY <1>1, <1>10, ProductGrows
  <2>2. (kA + d) * T = kA * T + d * T
    BY <1>1
  <2> QED BY <2>1, <2>2
<1>6. kA * T <= cB * T + d * T
  <2>1. kA * T <= (cB + d) * T
    BY <1>1, <1>10, ProductGrows
  <2>2. (cB + d) * T = cB * T + d * T
    BY <1>1
  <2> QED BY <2>1, <2>2
<1>7. cS * A <= kT * A + d * A
  <2>1. cS * A <= (kT + d) * A
    BY <1>1, <1>10, ProductGrows
  <2>2. (kT + d) * A = kT * A + d * A
    BY <1>1
  <2> QED BY <2>1, <2>2
<1>8. kT * A <= cS * A + d * A
  <2>1. kT * A <= (cS + d) * A
    BY <1>1, <1>10, ProductGrows
  <2>2. (cS + d) * A = cS * A + d * A
    BY <1>1
  <2> QED BY <2>1, <2>2
<1>9. cB * T \in Nat /\ kA * T \in Nat /\ cS * A \in Nat /\ kT * A \in Nat
  BY <1>1
<1>11. cB * T <= cS * A + (d * T + d * T) /\ cS * A <= cB * T + (d * T + d * T)
  BY <1>2, <1>3, <1>5, <1>6, <1>7, <1>8, <1>9
<1> DEFINE bt == B * T
           sa == S * A
           nt == N * T
<1>12. bt \in Nat /\ sa \in Nat /\ nt \in Nat
  OBVIOUS
<1>13. c * bt <= c * sa + c * nt /\ c * sa <= c * bt + c * nt
  BY <1>4, <1>11
<1> HIDE DEF bt, sa, nt
<1>14. c * sa + c * nt = c * (sa + nt) /\ c * bt + c * nt = c * (bt + nt)
  BY <1>12, <1>17
<1>15. c * (sa + nt) >= c * bt /\ c * (bt + nt) >= c * sa
  BY <1>12, <1>13, <1>14
<1>16. sa + nt >= bt /\ bt + nt >= sa
  BY <1>12, <1>15, <1>17, MultiplesCompare
<1> QED
  BY <1>12, <1>16 DEF bt, sa, nt

\* One rounding more, of weights whose sum S is then at least MaxCheckpointWeight: B of S
\* is the share that was A of T, where T stands for all that the samples weigh, G.
LEMMA NearRounded ==
    ASSUME NEW A \in Nat, NEW T \in Nat, NEW B \in Nat, NEW S \in Nat, NEW P \in Nat,
           NEW s \in Nat, NEW g \in Nat, NEW G \in Nat, NEW u \in Nat, NEW r \in Nat,
           MaxCheckpointWeight <= S, g <= G, T * P = u * G, Near(A * P, s, g, u, r),
           B * T <= S * A + NumBuckets * T, S * A <= B * T + NumBuckets * T
    PROVE  Near((B * T) * P, s, G, u * S, r + 1)
<1> DEFINE M == MaxCheckpointWeight
           N == NumBuckets
           rN == r * N
           a == A * P
           us == u * s
           ug == u * g
           uG == u * G
           x == M * a
           y == M * us
           z == rN * ug
           BT == B * T
           SA == S * A
           NT == N * T
           b == BT * P
           Ma == M * b
           e == N * uG
           zG == rN * uG
<1>1. M \in Nat /\ N \in Nat /\ M <= S
  BY OptionsAssumption, BucketsType
<1>2. x <= y + z /\ y <= x + z
  BY DEF Near
<1>3. BT <= SA + NT /\ SA <= BT + NT
  OBVIOUS
<1> HIDE DEF M, N
<1>4. /\ rN \in Nat /\ a \in Nat /\ us \in Nat /\ ug \in Nat /\ uG \in Nat
      /\ BT \in Nat /\ SA \in Nat /\ NT \in Nat
  BY <1>1
<1> HIDE DEF rN
<1>5. x \in Nat /\ y \in Nat /\ z \in Nat /\ b \in Nat /\ e \in Nat /\ zG \in Nat
  BY <1>1, <1>4
<1>6. SA * P = S * a /\ NT * P = e
  <2>1. NT * P = N * (T * P)
    BY <1>1
  <2>2. SA * P = S * (A * P)
    OBVIOUS
  <2> QED BY <2>1, <2>2
<1>7. b <= S * a + e /\ S * a <= b + e
  <2> HIDE DEF BT, SA, NT
  <2>1. BT * P <= (SA + NT) * P
    BY <1>3, <1>4, ProductGrows
  <2>2. SA * P <= (BT + NT) * P
    BY <1>3, <1>4, ProductGrows
  <2>3. (SA + NT) * P = SA * P + NT * P /\ (BT + NT) * P = BT * P + NT * P
    BY <1>4
  <2> HIDE DEF a, e
  <2> QED BY <1>6, <2>1, <2>2, <2>3
<1>8. ug <= uG
  BY ProductGrows
<1>9. z <= zG
  BY <1>4, <1>8, ProductGrows
<1> HIDE DEF b, a, us, ug, uG, BT, SA, NT
<1>10. M * (S * a) = S * x /\ M * (S * a + e) = S * x + M * e /\ M * (b + e) = M * b + M * e
         /\ S * a \in Nat
  <2>1. M * (S * a) = S * (M * a) /\ S * a \in Nat
    BY <1>1, <1>4
  <2> DEFINE Sa == S * a
  <2>2. M * (Sa + e) = M * Sa + M * e /\ M * (b + e) = M * b + M * e
    <3>1. Sa \in Nat
      BY <2>1
    <3> HIDE DEF Sa, e
    <3> QED BY <1>1, <1>5, <3>1
  <2> QED BY <2>1, <2>2
<1>11. M * b <= S * x + M * e /\ S * x <= M * b + M * e
  <2>1. S * a + e \in Nat /\ b + e \in Nat
    BY <1>5, <1>10
  <2>2. M * b <= M * (S * a + e)
    BY <1>1, <1>5, <1>7, <2>1, ProductGrows
  <2>3. M * (S * a) <= M * (b + e)
    BY <1>1, <1>7, <1>10, <2>1, ProductGrows
  <2> HIDE DEF x, e
  <2> QED BY <1>10, <2>2, <2>3
<1>12. S * x <= S * y + S * zG /\ S * y <= S * x + S * zG
  <2> HIDE DEF x, y, z, zG
  <2>1. x <= y + zG /\ y <= x + zG
    BY <1>2, <1>5, <1>9
  <2>2. S * x <= S * (y + zG) /\ S * y <= S * (x + zG)
    BY <1>5, <2>1, ProductGrows
  <2>3. S * (y + zG) = S * y + S * zG /\ S * (x + zG) = S * x + S * zG
    BY <1>5
  <2> QED BY <2>2, <2>3
<1>13. M * e <= S * e
  BY <1>1, <1>5, ProductGrows
<1>14. /\ S * x \in Nat /\ S * y \in Nat /\ S * zG \in Nat /\ M * e \in Nat /\ S * e \in Nat
       /\ M * b \in Nat
  BY <1>1, <1>5
<1>15. M * b <= S * y + (S * zG + S * e) /\ S * y <= M * b + (S * zG + S * e)
  <2> HIDE DEF x, y, zG, e
  <2> QED BY <1>11, <1>12, <1>13, <1>14
<1>16. M * ((u * S) * s) = S * y
  BY <1>1 DEF us
<1>17. ((r + 1) * N) * ((u * S) * G) = S * zG + S * e
  <2>1. (u * S) * G = S * uG /\ uG \in Nat
    BY <1>4 DEF uG
  <2>2. (r + 1) * N = rN + N
    BY <1>1 DEF rN
  <2>3. (rN + N) * (S * uG) = S * (rN * uG) + S * (N * uG)
    BY <1>1, <1>4
  <2> QED BY <2>1, <2>2, <2>3
<1> HIDE DEF y, zG, e
<1>18. Near(b, s, G, u * S, r + 1)
  BY <1>15, <1>16, <1>17 DEF Near, M, N
<1> QED
  BY <1>18 DEF b, BT

-----------------------------------------------------------------------------
(* Histograms that stand for samples.                                      *)

\* The weights V, in units of 1 / u, stand for samples that weigh F and for restored ones
\* that weigh G, rounded at most r times.  What was not rounded is there in every bucket.
Represents(V, u, F, G, r) ==
    /\ Upto(V, NumBuckets) = u * (Upto(F, NumBuckets) + Upto(G, NumBuckets))
    /\ \A b \in Buckets : u * F[b] <= V[b]
    /\ \A n \in 0 .. NumBuckets :
          Near(Upto(V, n), Upto(F, n) + Upto(G, n), Upto(G, NumBuckets), u, r)

\* Types of the sums.
LEMMA UptoType ==
    ASSUME NEW f \in Weighing
    PROVE  /\ \A n \in 0 .. NumBuckets : Upto(f, n) \in Nat
           /\ \A b \in Buckets : f[b] \in Nat
           /\ NumBuckets \in 0 .. NumBuckets
<1>1. NumBuckets \in 0 .. NumBuckets
  BY BucketsType
<1> QED
  BY <1>1, UptoStep DEF Weighing

\* Counting in smaller units changes nothing.
LEMMA RepresentsScaled ==
    ASSUME NEW V \in Weighing, NEW W \in Weighing, NEW F \in Weighing, NEW G \in Weighing,
           NEW u \in Nat, NEW r \in Nat, NEW c \in Nat, c > 0,
           Multiple(W, c, V)
    PROVE  Represents(W, c * u, F, G, r) <=> Represents(V, u, F, G, r)
<1>1. \A n \in 0 .. NumBuckets : /\ Upto(W, n) = c * Upto(V, n)
                                 /\ Upto(V, n) \in Nat /\ Upto(F, n) \in Nat /\ Upto(G, n) \in Nat
  BY UptoTimes, UptoType
<1>2. \A b \in Buckets : V[b] \in Nat /\ F[b] \in Nat
  BY UptoType
<1>3. NumBuckets \in 0 .. NumBuckets
  BY UptoType
<1>4. Upto(W, NumBuckets) = (c * u) * (Upto(F, NumBuckets) + Upto(G, NumBuckets))
        <=> Upto(V, NumBuckets) = u * (Upto(F, NumBuckets) + Upto(G, NumBuckets))
  <2> DEFINE v == Upto(V, NumBuckets)
             s == Upto(F, NumBuckets) + Upto(G, NumBuckets)
             us == u * s
  <2>1. v \in Nat /\ s \in Nat /\ Upto(W, NumBuckets) = c * v
    BY <1>1, <1>3
  <2> HIDE DEF v, s
  <2>2. (c * u) * s = c * us /\ us \in Nat
    BY <2>1
  <2> HIDE DEF us
  <2>3. c * v = c * us <=> v = us
    <3>1. c * v >= c * us <=> v >= us
      BY <2>1, <2>2, MultiplesCompare
    <3>2. c * us >= c * v <=> us >= v
      BY <2>1, <2>2, MultiplesCompare
    <3>3. c * v \in Nat /\ c * us \in Nat
      BY <2>1, <2>2
    <3> QED BY <2>1, <2>2, <3>1, <3>2, <3>3
  <2> QED BY <2>1, <2>2, <2>3 DEF v, s, us
<1>5. ASSUME NEW b \in Buckets PROVE (c * u) * F[b] <= W[b] <=> u * F[b] <= V[b]
  <2> DEFINE v == V[b]
             f == F[b]
             uf == u * f
  <2>1. v \in Nat /\ f \in Nat /\ W[b] = c * v
    BY <1>2 DEF Multiple
  <2> HIDE DEF v, f
  <2>2. (c * u) * f = c * uf /\ uf \in Nat
    BY <2>1
  <2> HIDE DEF uf
  <2>3. c * v >= c * uf <=> v >= uf
    BY <2>1, <2>2, MultiplesCompare
  <2>4. c * v \in Nat /\ c * uf \in Nat
    BY <2>1, <2>2
  <2>5. c * uf <= c * v <=> uf <= v
    BY <2>1, <2>2, <2>3, <2>4
  <2> QED BY <2>1, <2>2, <2>5 DEF v, f, uf
<1>6. ASSUME NEW n \in 0 .. NumBuckets
      PROVE  Near(Upto(W, n), Upto(F, n) + Upto(G, n), Upto(G, NumBuckets), c * u, r)
                <=> Near(Upto(V, n), Upto(F, n) + Upto(G, n), Upto(G, NumBuckets), u, r)
  <2> DEFINE v == Upto(V, n)
             s == Upto(F, n) + Upto(G, n)
             g == Upto(G, NumBuckets)
  <2>1. v \in Nat /\ s \in Nat /\ g \in Nat /\ Upto(W, n) = c * v
    BY <1>1, <1>3
  <2> HIDE DEF v, s, g
  <2>2. Near(c * v, s, g, c * u, r) <=> Near(v, s, g, u, r)
    BY <2>1, NearScaled
  <2> QED BY <2>1, <2>2 DEF v, s, g
<1> QED
  BY <1>4, <1>5, <1>6 DEF Represents

\* The weights V for the samples F and G, and VV for FF and GG, together are W for H and K.
Combined(W, V, VV, H, F, FF, K, G, GG) ==
    /\ W \in Weighing /\ V \in Weighing /\ VV \in Weighing /\ Together(W, V, VV)
    /\ H \in Weighing /\ F \in Weighing /\ FF \in Weighing /\ Together(H, F, FF)
    /\ K \in Weighing /\ G \in Weighing /\ GG \in Weighing /\ Together(K, G, GG)

\* Weights and samples of two histograms add up.
LEMMA RepresentsSum ==
    ASSUME NEW W, NEW V, NEW VV, NEW H, NEW F, NEW FF, NEW K, NEW G, NEW GG,
           Combined(W, V, VV, H, F, FF, K, G, GG),
           NEW u \in Nat, NEW p \in Nat, NEW q \in Nat, NEW r \in Nat, p <= r, q <= r,
           Represents(V, u, F, G, p), Represents(VV, u, FF, GG, q)
    PROVE  Represents(W, u, H, K, r)
<1>0. /\ W \in Weighing /\ V \in Weighing /\ VV \in Weighing /\ Together(W, V, VV)
      /\ H \in Weighing /\ F \in Weighing /\ FF \in Weighing /\ Together(H, F, FF)
      /\ K \in Weighing /\ G \in Weighing /\ GG \in Weighing /\ Together(K, G, GG)
  BY DEF Combined
<1> USE <1>0
<1>1. \A n \in 0 .. NumBuckets :
         /\ Upto(W, n) = Upto(V, n) + Upto(VV, n)
         /\ Upto(H, n) = Upto(F, n) + Upto(FF, n)
         /\ Upto(K, n) = Upto(G, n) + Upto(GG, n)
  <2>1. \A n \in 0 .. NumBuckets : Upto(W, n) = Upto(V, n) + Upto(VV, n)
    BY UptoPlus
  <2>2. \A n \in 0 .. NumBuckets : Upto(H, n) = Upto(F, n) + Upto(FF, n)
    BY UptoPlus
  <2>3. \A n \in 0 .. NumBuckets : Upto(K, n) = Upto(G, n) + Upto(GG, n)
    BY UptoPlus
  <2> QED BY <2>1, <2>2, <2>3
<1>2. \A n \in 0 .. NumBuckets :
         /\ Upto(V, n) \in Nat /\ Upto(F, n) \in Nat /\ Upto(G, n) \in Nat
         /\ Upto(VV, n) \in Nat /\ Upto(FF, n) \in Nat /\ Upto(GG, n) \in Nat
  BY UptoType
<1>3. NumBuckets \in 0 .. NumBuckets
  BY UptoType
<1>4. Upto(W, NumBuckets) = u * (Upto(H, NumBuckets) + Upto(K, NumBuckets))
  <2> DEFINE f == Upto(F, NumBuckets)
             g == Upto(G, NumBuckets)
             ff == Upto(FF, NumBuckets)
             gg == Upto(GG, NumBuckets)
  <2>1. f \in Nat /\ g \in Nat /\ ff \in Nat /\ gg \in Nat
    BY <1>2, <1>3
  <2>2. Upto(V, NumBuckets) = u * (f + g) /\ Upto(VV, NumBuckets) = u * (ff + gg)
    BY DEF Represents
  <2>3. /\ Upto(W, NumBuckets) = Upto(V, NumBuckets) + Upto(VV, NumBuckets)
        /\ Upto(H, NumBuckets) = f + ff /\ Upto(K, NumBuckets) = g + gg
    BY <1>1, <1>3
  <2> HIDE DEF f, g, ff, gg
  <2>4. u * (f + g) + u * (ff + gg) = u * ((f + ff) + (g + gg))
    BY <2>1
  <2> QED BY <2>2, <2>3, <2>4
<1>5. ASSUME NEW b \in Buckets PROVE u * H[b] <= W[b]
  <2> DEFINE f == F[b]
             ff == FF[b]
  <2>1. V[b] \in Nat /\ VV[b] \in Nat /\ f \in Nat /\ ff \in Nat
    BY UptoType
  <2>2. u * f <= V[b] /\ u * ff <= VV[b] /\ W[b] = V[b] + VV[b] /\ H[b] = f + ff
    BY DEF Represents, Together
  <2> HIDE DEF f, ff
  <2>3. u * (f + ff) = u * f + u * ff /\ u * f \in Nat /\ u * ff \in Nat
    BY <2>1
  <2> QED BY <2>1, <2>2, <2>3
<1>6. ASSUME NEW n \in 0 .. NumBuckets
      PROVE  Near(Upto(W, n), Upto(H, n) + Upto(K, n), Upto(K, NumBuckets), u, r)
  <2> DEFINE a == Upto(V, n)
             s == Upto(F, n) + Upto(G, n)
             g == Upto(G, NumBuckets)
             b == Upto(VV, n)
             t == Upto(FF, n) + Upto(GG, n)
             k == Upto(GG, NumBuckets)
  <2>1. a \in Nat /\ s \in Nat /\ g \in Nat /\ b \in Nat /\ t \in Nat /\ k \in Nat
    BY <1>2, <1>3
  <2>2. Near(a, s, g, u, p) /\ Near(b, t, k, u, q)
    BY DEF Represents
  <2>3. Upto(W, n) = a + b /\ Upto(K, NumBuckets) = g + k
    BY <1>1, <1>3
  <2>4. Upto(H, n) + Upto(K, n) = s + t
    BY <1>1, <1>2
  <2> HIDE DEF a, s, g, b, t, k
  <2>5. Near(a + b, s + t, g + k, u, r)
    BY <2>1, <2>2, NearSum
  <2> QED BY <2>3, <2>4, <2>5
<1> QED
  BY <1>4, <1>5, <1>6 DEF Represents

\* The weights W are V and D, the samples H are F and E, and the weights D, in units of
\* 1 / u, are those of E.
Shifted(W, V, D, H, F, E, u) ==
    /\ W \in Weighing /\ V \in Weighing /\ D \in Weighing
    /\ H \in Weighing /\ F \in Weighing /\ E \in Weighing
    /\ u \in Nat
    /\ Together(W, V, D) /\ Together(H, F, E) /\ Multiple(D, u, E)

\* Samples that weigh E, added to a histogram or taken back from it.
LEMMA RepresentsShift ==
    ASSUME NEW W, NEW V, NEW D, NEW H, NEW F, NEW E, NEW u, Shifted(W, V, D, H, F, E, u),
           NEW G \in Weighing, NEW r \in Nat
    PROVE  Represents(W, u, H, G, r) <=> Represents(V, u, F, G, r)
<1>0. /\ W \in Weighing /\ V \in Weighing /\ D \in Weighing
      /\ H \in Weighing /\ F \in Weighing /\ E \in Weighing
      /\ u \in Nat
      /\ Together(W, V, D) /\ Together(H, F, E) /\ Multiple(D, u, E)
  BY DEF Shifted
<1> USE <1>0
<1>1. \A n \in 0 .. NumBuckets : Upto(W, n) = Upto(V, n) + Upto(D, n)
  BY UptoPlus
<1>2. \A n \in 0 .. NumBuckets : Upto(H, n) = Upto(F, n) + Upto(E, n)
  BY UptoPlus
<1>3. \A n \in 0 .. NumBuckets : Upto(D, n) = u * Upto(E, n)
  BY UptoTimes
<1>4. \A n \in 0 .. NumBuckets :
         Upto(V, n) \in Nat /\ Upto(F, n) \in Nat /\ Upto(G, n) \in Nat /\ Upto(E, n) \in Nat
  BY UptoType
<1>5. NumBuckets \in 0 .. NumBuckets
  BY UptoType
<1>6. Upto(W, NumBuckets) = u * (Upto(H, NumBuckets) + Upto(G, NumBuckets))
        <=> Upto(V, NumBuckets) = u * (Upto(F, NumBuckets) + Upto(G, NumBuckets))
  <2> DEFINE v == Upto(V, NumBuckets)
             f == Upto(F, NumBuckets)
             g == Upto(G, NumBuckets)
             e == Upto(E, NumBuckets)
  <2>1. v \in Nat /\ f \in Nat /\ g \in Nat /\ e \in Nat
    BY <1>4, <1>5
  <2>2. Upto(W, NumBuckets) = v + u * e /\ Upto(H, NumBuckets) = f + e
    BY <1>1, <1>2, <1>3, <1>5
  <2> HIDE DEF v, f, g, e
  <2>3. u * ((f + e) + g) = u * (f + g) + u * e /\ u * (f + g) \in Nat /\ u * e \in Nat
    BY <2>1
  <2>4. v + u * e = u * ((f + e) + g) <=> v = u * (f + g)
    BY <2>1, <2>3
  <2> QED BY <2>2, <2>4 DEF v, f, g, e
<1>7. ASSUME NEW b \in Buckets PROVE u * H[b] <= W[b] <=> u * F[b] <= V[b]
  <2> DEFINE v == V[b]
             f == F[b]
             e == E[b]
  <2>1. v \in Nat /\ f \in Nat /\ e \in Nat
    BY UptoType
  <2>2. W[b] = v + u * e /\ H[b] = f + e
    BY DEF Together, Multiple
  <2> HIDE DEF v, f, e
  <2>3. u * (f + e) = u * f + u * e /\ u * f \in Nat /\ u * e \in Nat
    BY <2>1
  <2>4. u * (f + e) <= v + u * e <=> u * f <= v
    BY <2>1, <2>3
  <2> QED BY <2>2, <2>4 DEF v, f, e
<1>8. ASSUME NEW n \in 0 .. NumBuckets
      PROVE  Near(Upto(W, n), Upto(H, n) + Upto(G, n), Upto(G, NumBuckets), u, r)
                <=> Near(Upto(V, n), Upto(F, n) + Upto(G, n), Upto(G, NumBuckets), u, r)
  <2> DEFINE v == Upto(V, n)
             s == Upto(F, n) + Upto(G, n)
             g == Upto(G, NumBuckets)
             e == Upto(E, n)
  <2>1. v \in Nat /\ s \in Nat /\ g \in Nat /\ e \in Nat
    BY <1>4, <1>5
  <2>2. Upto(W, n) = v + u * e
    BY <1>1, <1>3
  <2>3. Upto(H, n) + Upto(G, n) = s + e
    BY <1>2, <1>4
  <2> HIDE DEF v, s, g, e
  <2>4. Near(v + u * e, s + e, g, u, r) <=> Near(v, s, g, u, r)
    BY <2>1, NearShift
  <2> QED BY <2>2, <2>3, <2>4 DEF v, s, g
<1> QED
  BY <1>6, <1>7, <1>8 DEF Represents

\* Weights all of which are nothing.
Nothing(f) == \A b \in Buckets : f[b] = 0

\* Their sums are nothing, and no others are.
LEMMA NothingSums ==
    ASSUME NEW f \in Weighing
    PROVE  /\ Nothing(f) => \A n \in 0 .. NumBuckets : Upto(f, n) = 0
           /\ Upto(f, NumBuckets) = 0 => Nothing(f)
<1>1. ASSUME Nothing(f) PROVE \A n \in 0 .. NumBuckets : Upto(f, n) = 0
  <2>1. Multiple(f, 0, f)
    BY <1>1, UptoType DEF Multiple, Nothing
  <2>2. 0 \in Nat
    OBVIOUS
  <2>3. \A n \in 0 .. NumBuckets : Upto(f, n) = 0 * Upto(f, n)
    BY <2>1, <2>2, UptoTimes
  <2> QED BY <2>3, UptoType
<1>2. ASSUME Upto(f, NumBuckets) = 0 PROVE Nothing(f)
  <2>1. ASSUME NEW b \in Buckets PROVE f[b] = 0
    <3>1. f[b] \in Nat /\ f[b] <= Upto(f, NumBuckets)
      BY UptoType, UptoPart
    <3> QED BY <1>2, <3>1
  <2> QED BY <2>1 DEF Nothing
<1> QED
  BY <1>1, <1>2

\* No weight stands for no sample.
LEMMA RepresentsNothing ==
    ASSUME NEW V \in Weighing, NEW F \in Weighing, NEW G \in Weighing,
           NEW u \in Nat, NEW r \in Nat, Nothing(F), Nothing(G)
    PROVE  /\ Nothing(V) => Represents(V, u, F, G, r)
           /\ Represents(V, u, F, G, r) => Nothing(V)
<1>1. \A n \in 0 .. NumBuckets : Upto(F, n) = 0 /\ Upto(G, n) = 0
  BY NothingSums
<1>2. NumBuckets \in 0 .. NumBuckets /\ NumBuckets \in Nat
  BY UptoType
<1>3. ASSUME Nothing(V) PROVE Represents(V, u, F, G, r)
  <2>1. \A n \in 0 .. NumBuckets : Upto(V, n) = 0
    BY <1>3, NothingSums
  <2>2. 0 + 0 = 0 /\ u * 0 = 0
    OBVIOUS
  <2>3. Upto(V, NumBuckets) = u * (Upto(F, NumBuckets) + Upto(G, NumBuckets))
    BY <1>1, <1>2, <2>1, <2>2
  <2>4. \A b \in Buckets : u * F[b] <= V[b]
    BY <1>3, <2>2 DEF Nothing
  <2>5. Near(0, 0, 0, u, r)
    <3>1. MaxCheckpointWeight \in Nat /\ r * NumBuckets \in Nat
      BY <1>2, OptionsAssumption
    <3> DEFINE k == r * NumBuckets
               M == MaxCheckpointWeight
    <3>2. k \in Nat /\ M \in Nat
      BY <3>1
    <3> HIDE DEF k, M
    <3>3. k * 0 = 0 /\ M * 0 = 0
      BY <3>2
    <3> QED BY <2>2, <3>3 DEF Near, k, M
  <2>6. ASSUME NEW n \in 0 .. NumBuckets
        PROVE  Near(Upto(V, n), Upto(F, n) + Upto(G, n), Upto(G, NumBuckets), u, r)
    <3>1. Upto(V, n) = 0 /\ Upto(F, n) + Upto(G, n) = 0 /\ Upto(G, NumBuckets) = 0
      BY <1>1, <1>2, <2>1, <2>2
    <3> QED BY <2>5, <3>1
  <2> QED BY <2>3, <2>4, <2>6 DEF Represents
<1>4. ASSUME Represents(V, u, F, G, r) PROVE Nothing(V)
  <2>1. Upto(V, NumBuckets) = u * (Upto(F, NumBuckets) + Upto(G, NumBuckets))
    BY <1>4 DEF Represents
  <2>2. Upto(F, NumBuckets) = 0 /\ Upto(G, NumBuckets) = 0
    BY <1>1, <1>2
  <2>3. u * (0 + 0) = 0
    OBVIOUS
  <2>4. Upto(V, NumBuckets) = 0
    BY <2>1, <2>2, <2>3
  <2> QED BY <2>4, NothingSums
<1> QED
  BY <1>3, <1>4

\* The weights w come back from a checkpoint as W: each was rounded to R, and all were
\* multiplied by what their sum T then was of the sum S of the rounded ones.  V and W are
\* the weights at time zero, when one is P.
Restored(w, R, V, W, P, T, S, max) ==
    /\ w \in Weighing /\ R \in Weighing /\ V \in Weighing /\ W \in Weighing
    /\ P \in Nat /\ max \in Nat /\ max > 0
    /\ T = Upto(w, NumBuckets) /\ S = Upto(R, NumBuckets) /\ MaxCheckpointWeight <= S
    /\ \A b \in Buckets : Close(R[b], w[b], max)
    /\ Multiple(V, P, w) /\ Multiple(W, T * P, R)

\* What W stands for: all of it is restored, and rounded once more.
LEMMA RepresentsRounded ==
    ASSUME NEW w, NEW R, NEW V, NEW W, NEW P, NEW T, NEW S, NEW max,
           Restored(w, R, V, W, P, T, S, max),
           NEW F \in Weighing, NEW G \in Weighing, NEW E \in Weighing, NEW K \in Weighing,
           Together(K, F, G), Nothing(E), NEW u \in Nat, NEW r \in Nat,
           Represents(V, u, F, G, r)
    PROVE  Represents(W, u * S, E, K, r + 1)
<1>0. /\ w \in Weighing /\ R \in Weighing /\ V \in Weighing /\ W \in Weighing
      /\ P \in Nat /\ max \in Nat /\ max > 0
      /\ T = Upto(w, NumBuckets) /\ S = Upto(R, NumBuckets) /\ MaxCheckpointWeight <= S
      /\ \A b \in Buckets : Close(R[b], w[b], max)
      /\ Multiple(V, P, w) /\ Multiple(W, T * P, R)
  BY DEF Restored
<1> USE <1>0
<1> DEFINE N == NumBuckets
<1>1. N \in 0 .. N /\ N \in Nat
  BY UptoType
<1>2. \A n \in 0 .. N :
         /\ Upto(w, n) \in Nat /\ Upto(R, n) \in Nat /\ Upto(F, n) \in Nat /\ Upto(G, n) \in Nat
  BY UptoType
<1>3. T \in Nat /\ S \in Nat /\ T * P \in Nat
  <2>1. T \in Nat /\ S \in Nat
    BY <1>1, <1>2
  <2> QED BY <2>1
<1>4. \A n \in 0 .. N : Upto(V, n) = P * Upto(w, n)
  BY UptoTimes
<1>5. \A n \in 0 .. N : Upto(W, n) = (T * P) * Upto(R, n)
  BY <1>3, UptoTimes
<1>6. \A n \in 0 .. N : Upto(K, n) = Upto(F, n) + Upto(G, n)
  BY UptoPlus
<1>7. \A n \in 0 .. N : Upto(E, n) = 0
  BY NothingSums
<1> DEFINE g == Upto(G, N)
           k == Upto(K, N)
<1>8. g \in Nat /\ k \in Nat /\ g <= k
  <2>1. Upto(G, N) \in Nat /\ Upto(F, N) \in Nat
    BY <1>1, <1>2
  <2>2. Upto(K, N) = Upto(F, N) + Upto(G, N)
    BY <1>1, <1>6
  <2> QED BY <2>1, <2>2
<1>9. T * P = u * k
  <2>1. Upto(V, N) = u * (Upto(F, N) + Upto(G, N))
    BY DEF Represents
  <2>2. Upto(V, N) = P * T
    BY <1>1, <1>4
  <2>3. Upto(K, N) = Upto(F, N) + Upto(G, N)
    BY <1>1, <1>6
  <2>4. P * T = T * P
    BY <1>3
  <2> QED BY <2>1, <2>2, <2>3, <2>4
<1>10. Upto(W, N) = (u * S) * (Upto(E, N) + k)
  <2>1. Upto(W, N) = (T * P) * S /\ Upto(E, N) = 0
    BY <1>1, <1>5, <1>7
  <2> HIDE DEF k
  <2>2. (u * k) * S = (u * S) * (0 + k)
    BY <1>3, <1>8
  <2> QED BY <1>9, <2>1, <2>2
<1>11. ASSUME NEW b \in Buckets PROVE (u * S) * E[b] <= W[b]
  <2>1. E[b] = 0 /\ W[b] \in Nat
    BY UptoType DEF Nothing
  <2>2. (u * S) * 0 = 0
    BY <1>3
  <2> QED BY <2>1, <2>2
<1>12. ASSUME NEW n \in 0 .. N
       PROVE  Near(Upto(W, n), Upto(E, n) + Upto(K, n), k, u * S, r + 1)
  <2> DEFINE A == Upto(w, n)
             B == Upto(R, n)
             s == Upto(F, n) + Upto(G, n)
             kk == 2 * MaxCheckpointWeight
  <2>1. A \in Nat /\ B \in Nat /\ s \in Nat
    BY <1>2
  <2>2. A <= T
    BY UptoPart
  <2>3. AsClose(B, A, max, kk, N)
    BY SumsClose
  <2>4. AsClose(S, T, max, kk, N)
    BY <1>1, SumsClose
  <2>5. kk \in Nat
    BY OptionsAssumption
  <2>6. Near(Upto(V, n), s, g, u, r)
    BY DEF Represents
  <2>7. Upto(V, n) = A * P
    <3>1. Upto(V, n) = P * A
      BY <1>4
    <3> QED BY <2>1, <3>1
  <2>8. Upto(W, n) = (B * T) * P
    <3>1. Upto(W, n) = (T * P) * B
      BY <1>5
    <3> HIDE DEF B
    <3>2. (T * P) * B = (B * T) * P
      BY <1>3, <2>1
    <3> QED BY <3>1, <3>2
  <2>9. Upto(E, n) + Upto(K, n) = s
    <3>1. Upto(E, n) = 0 /\ Upto(K, n) = s
      BY <1>6, <1>7
    <3> HIDE DEF s
    <3> QED BY <2>1, <3>1
  <2> HIDE DEF A, B, s, kk, g, k, N
  <2>10. B * T <= S * A + N * T /\ S * A <= B * T + N * T
    BY <1>1, <1>3, <2>1, <2>2, <2>3, <2>4, <2>5, ShareClose
  <2>11. Near(A * P, s, g, u, r)
    BY <2>6, <2>7
  <2>12. Near((B * T) * P, s, k, u * S, r + 1)
    BY <1>3, <1>8, <1>9, <2>1, <2>10, <2>11, NearRounded DEF N
  <2> QED BY <2>8, <2>9, <2>12
<1> QED
  BY <1>10, <1>11, <1>12 DEF Represents

-----------------------------------------------------------------------------
(* Buckets and values.                                                     *)

\* A power of Ratio less one is a multiple of Ratio less one.
LEMMA PowerLessOne ==
    ASSUME NEW R \in Nat, R > 1, NEW n \in Nat
    PROVE  \E q \in Nat : Power(R, n) - 1 = q * (R - 1)
<1> DEFINE P(i) == Power(R, i)
           Divides(i) == \E q \in Nat : P(i) - 1 = q * (R - 1)
           G == {i \in Nat : Divides(i)}
<1>0. P(0) = 1 /\ \A i \in Nat : P(i) \in Nat /\ P(i + 1) = R * P(i)
  BY PowerLaws
<1> HIDE DEF P
<1>1. 0 \in G
  <2>1. P(0) - 1 = 0 * (R - 1)
    BY <1>0
  <2> QED BY <2>1
<1>2. ASSUME NEW i \in Nat, i \in G PROVE i + 1 \in G
  <2>1. PICK q \in Nat : P(i) - 1 = q * (R - 1)
    BY <1>2
  <2>2. P(i) \in Nat /\ P(i + 1) = R * P(i)
    BY <1>0
  <2> DEFINE p == P(i)
             d == R - 1
             m == q + p
  <2>3. p \in Nat /\ d \in Nat /\ R = d + 1 /\ m \in Nat
    BY <2>2
  <2> HIDE DEF p, d
  <2>4. (d + 1) * p = d * p + p /\ (q + p) * d = q * d + d * p /\ d * p \in Nat /\ q * d \in Nat
    BY <2>3
  <2>5. P(i + 1) - 1 = m * d
    BY <2>1, <2>2, <2>3, <2>4 DEF p, d
  <2> HIDE DEF m
  <2>6. m \in Nat /\ P(i + 1) - 1 = m * (R - 1)
    BY <2>3, <2>5 DEF d
  <2>7. \E k \in Nat : P(i + 1) - 1 = k * (R - 1)
    <3> DEFINE D(k) == k * (R - 1)
    <3>1. m \in Nat /\ P(i + 1) - 1 = D(m)
      BY <2>6
    <3> HIDE DEF D
    <3>2. \E k \in Nat : P(i + 1) - 1 = D(k)
      BY <3>1
    <3> QED BY <3>2 DEF D
  <2>8. Divides(i + 1)
    BY <2>7
  <2> HIDE DEF Divides
  <2> QED BY <2>8
<1>3. Nat \subseteq G
  <2> HIDE DEF G
  <2> QED BY <1>1, <1>2, NumberInduction
<1> QED
  BY <1>3 DEF P

\* The values from the start of a bucket on are those that FindBucket's test accepts.
LEMMA StartTest ==
    ASSUME NEW b \in Buckets, NEW v \in Nat
    PROVE  /\ GetBucketStart(b) \in Nat
           /\ Power(Ratio, b) * FirstBucketSize <= v * (Ratio - 1) + FirstBucketSize
                <=> GetBucketStart(b) <= v
<1> DEFINE F == FirstBucketSize
           d == Ratio - 1
           p == Power(Ratio, b)
           n == F * (p - 1)
<1>1. F \in Nat /\ Ratio \in Nat /\ Ratio > 1 /\ d \in Nat /\ d > 0 /\ b \in Nat
  BY OptionsAssumption, BucketsType
<1>2. p \in Nat /\ p >= 1
  BY <1>1, PowerGrows
<1>3. PICK q \in Nat : p - 1 = q * d
  BY <1>1, PowerLessOne
<1>4. GetBucketStart(b) = n \div d
  BY DEF GetBucketStart
<1> HIDE DEF F, d, p
<1>5. n = d * (F * q)
  BY <1>1, <1>3
<1>6. F * q \in Nat
  BY <1>1
<1>7. n \in Nat /\ n <= d * (F * q) /\ d * (F * q) <= n
  BY <1>1, <1>5, <1>6
<1> DEFINE start == n \div d
           m == F * q
<1>8. start = m
  <2>1. m <= start /\ start <= m
    BY <1>1, <1>6, <1>7, QuotientBound
  <2>2. start \in Nat
    BY <1>1, <1>7, Quotient
  <2> QED BY <1>6, <2>1, <2>2
<1>9. p * F = n + F
  <2>1. F * (p - 1) = F * p - F
    BY <1>1, <1>2
  <2> QED BY <1>1, <1>2, <2>1
<1>10. p * F <= v * d + F <=> d * m <= d * v
  <2>1. v * d = d * v /\ v * d \in Nat
    BY <1>1
  <2> HIDE DEF n, m
  <2> QED BY <1>1, <1>5, <1>7, <1>9, <2>1 DEF m
<1>11. d * m <= d * v <=> m <= v
  <2> HIDE DEF m
  <2>1. m \in Nat
    BY <1>6 DEF m
  <2>2. d * v >= d * m <=> v >= m
    BY <1>1, <2>1, MultiplesCompare
  <2>3. d * v \in Nat /\ d * m \in Nat
    BY <1>1, <2>1
  <2> QED BY <2>1, <2>2, <2>3
<1>12. GetBucketStart(b) = m /\ m \in Nat
  BY <1>4, <1>6, <1>8
<1> HIDE DEF m
<1>13. p * F <= v * d + F <=> GetBucketStart(b) <= v
  BY <1>10, <1>11, <1>12
<1> QED
  BY <1>12, <1>13 DEF p, F, d

\* The first bucket starts at zero and the second at FirstBucketSize.
LEMMA FirstStarts ==
    /\ GetBucketStart(0) = 0
    /\ 1 \in Buckets /\ GetBucketStart(1) = FirstBucketSize
<1> DEFINE F == FirstBucketSize
           d == Ratio - 1
<1>1. F \in Nat /\ Ratio \in Nat /\ Ratio > 1 /\ d \in Nat /\ d > 0
  BY OptionsAssumption
<1>2. Power(Ratio, 0) = 1 /\ Power(Ratio, 1) = Ratio
  <2>1. Power(Ratio, 0) = 1 /\ Power(Ratio, 0 + 1) = Ratio * Power(Ratio, 0)
    BY <1>1, PowerLaws
  <2> QED BY <1>1, <2>1
<1>3. GetBucketStart(0) = (F * (1 - 1)) \div d /\ GetBucketStart(1) = (F * d) \div d
  BY <1>2 DEF GetBucketStart
<1>4. 1 \in Buckets
  BY BucketsType
<1> HIDE DEF F, d
<1>5. (F * (1 - 1)) \div d = 0
  <2>1. F * (1 - 1) = 0
    BY <1>1
  <2>2. 0 \div d = 0
    BY <1>1
  <2> QED BY <2>1, <2>2
<1>6. (F * d) \div d = F
  <2> DEFINE n == F * d
             q == n \div d
  <2>1. n \in Nat /\ n = d * F
    BY <1>1
  <2> HIDE DEF n
  <2>2. d * F \in Nat
    BY <1>1
  <2>3. d * F <= n /\ n <= d * F
    BY <2>1, <2>2
  <2>4. F <= q /\ q <= F
    BY <1>1, <2>1, <2>3, QuotientBound
  <2>5. q \in Nat
    BY <1>1, <2>1, Quotient
  <2>6. q = F
    BY <1>1, <2>4, <2>5
  <2> QED BY <2>6 DEF n
<1> QED
  BY <1>3, <1>4, <1>5, <1>6 DEF F

\* A value is below the start of a bucket if and only if it falls into an earlier one.
LEMMA BelowStart ==
    ASSUME NEW b \in Buckets, NEW v \in Nat
    PROVE  v < GetBucketStart(b) <=> FindBucket(v) < b
<1> DEFINE S == {i \in Buckets :
                    Power(Ratio, i) * FirstBucketSize <= v * (Ratio - 1) + FirstBucketSize}
           f == FindBucket(v)
<1>1. \A i \in Buckets : GetBucketStart(i) \in Nat /\ (i \in S <=> GetBucketStart(i) <= v)
  BY StartTest
<1>2. Last \in Nat /\ Buckets = 0 .. Last /\ 0 \in Buckets
  BY BucketsType
<1>3. 0 \in S
  BY <1>1, <1>2, FirstStarts
<1>4. f \in S /\ \A i \in S : i <= f
  <2>1. CASE v < FirstBucketSize
    <3>1. f = 0
      BY <2>1 DEF FindBucket
    <3>2. ASSUME NEW i \in S, i > 0 PROVE FALSE
      <4>1. i \in Buckets /\ 1 <= i
        BY <1>2, <3>2
      <4>2. 1 \in Buckets /\ GetBucketStart(1) = FirstBucketSize
        BY FirstStarts
      <4>3. GetBucketStart(1) <= GetBucketStart(i) /\ GetBucketStart(i) \in Nat
        BY <4>1, <4>2, BucketStartMonotone
      <4>4. GetBucketStart(i) <= v
        BY <1>1, <3>2, <4>1
      <4>5. FirstBucketSize \in Nat
        BY OptionsAssumption
      <4> QED BY <2>1, <4>2, <4>3, <4>4, <4>5
    <3>3. \A i \in S : i \in Nat
      BY <1>2
    <3> HIDE DEF S, f
    <3> QED BY <1>3, <3>1, <3>2, <3>3
  <2>2. CASE ~ (v < FirstBucketSize)
    <3>1. f = Max(S)
      BY <2>2 DEF FindBucket
    <3>2. S \subseteq 0 .. Last /\ S # {} /\ 0 \in Int /\ Last \in Int
      BY <1>2, <1>3
    <3> HIDE DEF S, f
    <3>3. Max(S) \in S /\ \A i \in S : Max(S) >= i
      BY <3>2, MinMaxInterval
    <3>4. \A i \in S : i \in Int
      BY <3>2
    <3> QED BY <3>1, <3>3, <3>4
  <2> QED BY <2>1, <2>2
<1>5. f \in Buckets
  BY FindBucketType
<1> HIDE DEF S, f
<1>6. CASE b \in S
  <2>1. b <= f /\ GetBucketStart(b) <= v /\ GetBucketStart(b) \in Nat
    BY <1>1, <1>4, <1>6
  <2> QED BY <1>2, <1>5, <2>1 DEF f
<1>7. CASE b \notin S
  <2>1. v < GetBucketStart(b)
    BY <1>1, <1>7
  <2>2. SUFFICES ASSUME b <= f PROVE FALSE
    BY <1>2, <1>5, <2>1 DEF f
  <2>3. GetBucketStart(b) <= GetBucketStart(f) /\ GetBucketStart(f) \in Nat /\ GetBucketStart(b) \in Nat
    BY <1>5, <2>2, BucketStartMonotone
  <2>4. GetBucketStart(f) <= v
    BY <1>1, <1>4, <1>5
  <2> QED BY <2>1, <2>3, <2>4
<1> QED
  BY <1>6, <1>7

-----------------------------------------------------------------------------
(* What samples weigh.                                                     *)

\* There are finitely many samples.
LEMMA SamplesFinite == IsFiniteSet(SampleType)
<1> DEFINE A == (Values \X Weights) \X (0 .. MaxTime)
           f == [p \in A |-> <<p[1][1], p[1][2], p[2]>>]
<1>1. IsFiniteSet(Values) /\ IsFiniteSet(Weights) /\ MaxTime \in Nat
  BY SamplesAssumption
<1>2. IsFiniteSet(Values \X Weights)
  BY <1>1, FS_Product
<1>3. IsFiniteSet(0 .. MaxTime)
  BY <1>1, FS_Interval
<1>4. IsFiniteSet(A)
  <2> DEFINE P == Values \X Weights
             T == 0 .. MaxTime
  <2>1. IsFiniteSet(P) /\ IsFiniteSet(T)
    BY <1>2, <1>3
  <2> HIDE DEF P, T
  <2>2. IsFiniteSet(P \X T)
    BY <2>1, FS_Product
  <2> QED BY <2>2 DEF P, T
<1>5. f \in Surjection(A, SampleType)
  <2>1. ASSUME NEW p \in A PROVE f[p] \in SampleType
    BY DEF SampleType
  <2>2. ASSUME NEW s \in SampleType PROVE \E p \in A : f[p] = s
    <3>1. /\ s = <<s[1], s[2], s[3]>>
          /\ s[1] \in Values /\ s[2] \in Weights /\ s[3] \in 0 .. MaxTime
      BY DEF SampleType
    <3> DEFINE p == <<<<s[1], s[2]>>, s[3]>>
    <3>2. p \in A /\ f[p] = <<s[1], s[2], s[3]>>
      BY <3>1
    <3> HIDE DEF A, f, p
    <3> QED BY <3>1, <3>2
  <2>3. DOMAIN f = A
    OBVIOUS
  <2> HIDE DEF A, f
  <2>4. f \in [A -> SampleType]
    <3>1. f = [p \in A |-> f[p]]
      BY DEF f
    <3> QED BY <2>1, <3>1
  <2> QED BY <2>2, <2>4 DEF Surjection
<1> HIDE DEF A, f
<1> QED
  BY <1>4, <1>5, FS_Surjection

\* Bags of samples.
SampleBag(B) ==
    /\ DOMAIN B \subseteq SampleType
    /\ \A s \in DOMAIN B : B[s] \in Nat /\ B[s] > 0

\* How often a sample is in a bag, and what it weighs at time zero.
Copies(B, s) == IF s \in DOMAIN B THEN B[s] ELSE 0
Load(s) == s[2] * Power(2, s[3])

\* The weight of each sample in a bag, and that of the samples by bucket.
Mass(B) == [s \in SampleType |-> Copies(B, s) * Load(s)]
InBucket(b) == {s \in SampleType : FindBucket(s[1]) = b}
Held(B) == [b \in Buckets |-> SumOver(Mass(B), InBucket(b))]

\* Types.
LEMMA LoadOfSample ==
    ASSUME NEW s \in SampleType
    PROVE  /\ Load(s) \in Nat /\ Load(s) > 0 /\ Power(2, s[3]) \in Nat
           /\ s[1] \in Nat /\ s[2] \in Nat /\ s[3] \in Nat
           /\ FindBucket(s[1]) \in Buckets
<1>1. s[1] \in Values /\ s[2] \in Weights /\ s[3] \in 0 .. MaxTime
  BY DEF SampleType
<1>2. s[1] \in Nat /\ s[2] \in Nat /\ s[2] > 0 /\ s[3] \in Nat
  <2>1. Values \subseteq Nat /\ Weights \subseteq Nat \ {0}
    BY SamplesAssumption
  <2>2. s[2] \in Nat \ {0}
    BY <1>1, <2>1
  <2>3. s[3] \in Nat
    BY <1>1
  <2>4. s[2] > 0
    BY <2>2
  <2> QED BY <1>1, <2>1, <2>2, <2>3, <2>4
<1>3. Power(2, s[3]) \in Nat /\ Power(2, s[3]) > 0
  BY <1>2, PowerOfTwo
<1>4. FindBucket(s[1]) \in Buckets
  BY <1>2, FindBucketType
<1> DEFINE w == s[2]
           p == Power(2, s[3])
<1>5. w \in Nat /\ w > 0 /\ p \in Nat /\ p > 0
  BY <1>2, <1>3
<1> HIDE DEF w, p
<1>6. w * p \in Nat /\ w * p > 0
  BY <1>5
<1> QED
  BY <1>2, <1>3, <1>4, <1>6 DEF Load, w, p

\* What the samples of a bag weigh, and how often they are there, are numbers.
LEMMA MassType ==
    ASSUME NEW B, SampleBag(B)
    PROVE  /\ Summable(Mass(B), SampleType)
           /\ \A s \in SampleType : Copies(B, s) \in Nat /\ Mass(B)[s] = Copies(B, s) * Load(s)
           /\ Held(B) \in Weighing
<1>1. ASSUME NEW s \in SampleType
      PROVE  /\ Copies(B, s) \in Nat /\ Mass(B)[s] \in Nat
             /\ Mass(B)[s] = Copies(B, s) * Load(s)
  <2>1. Copies(B, s) \in Nat
    BY DEF Copies, SampleBag
  <2>2. Load(s) \in Nat
    BY LoadOfSample
  <2>3. Copies(B, s) * Load(s) \in Nat
    BY <2>1, <2>2
  <2>4. Mass(B)[s] = Copies(B, s) * Load(s)
    BY DEF Mass
  <2> QED BY <2>1, <2>3, <2>4
<1>2. Summable(Mass(B), SampleType)
  BY <1>1, SamplesFinite DEF Summable
<1>3. ASSUME NEW b \in Buckets PROVE SumOver(Mass(B), InBucket(b)) \in Nat
  <2>1. InBucket(b) \in SUBSET SampleType
    BY DEF InBucket
  <2> QED BY <1>2, <2>1, SummablePart
<1>4. Held(B) \in Weighing
  BY <1>3 DEF Held, Weighing
<1> QED
  BY <1>1, <1>2, <1>4

\* If a bag has the samples of two, so has each bucket.
LEMMA HeldTogether ==
    ASSUME NEW A, SampleBag(A), NEW B, SampleBag(B), NEW C, SampleBag(C),
           \A s \in SampleType : Copies(C, s) = Copies(A, s) + Copies(B, s)
    PROVE  Together(Held(C), Held(A), Held(B))
<1>1. ASSUME NEW s \in SampleType PROVE Mass(C)[s] = Mass(A)[s] + Mass(B)[s]
  <2> DEFINE a == Copies(A, s)
             b == Copies(B, s)
             d == Load(s)
  <2>1. a \in Nat /\ b \in Nat /\ d \in Nat
    BY MassType, LoadOfSample
  <2>2. Mass(A)[s] = a * d /\ Mass(B)[s] = b * d /\ Mass(C)[s] = (a + b) * d
    BY MassType
  <2> HIDE DEF a, b, d
  <2>3. (a + b) * d = a * d + b * d
    BY <2>1
  <2> QED BY <2>2, <2>3
<1>2. ASSUME NEW i \in Buckets PROVE Held(C)[i] = Held(A)[i] + Held(B)[i]
  <2> DEFINE S == InBucket(i)
             f == Mass(A)
             e == Mass(B)
             h == Mass(C)
  <2>1. S \in SUBSET SampleType
    BY DEF InBucket
  <2>2. Summable(f, SampleType) /\ Summable(e, SampleType)
    BY MassType
  <2>3. \A s \in S : h[s] = f[s] + e[s]
    BY <1>1, <2>1
  <2>4. Held(A)[i] = SumOver(f, S) /\ Held(B)[i] = SumOver(e, S) /\ Held(C)[i] = SumOver(h, S)
    BY DEF Held
  <2> HIDE DEF S, f, e, h
  <2>5. Summable(f, S) /\ Summable(e, S)
    BY <2>1, <2>2, SummablePart
  <2>6. SumOver(h, S) = SumOver(f, S) + SumOver(e, S)
    BY <2>3, <2>5, SumPlus
  <2> QED BY <2>4, <2>6
<1> QED
  BY <1>2 DEF Together

\* The union of two bags.
LEMMA HeldUnion ==
    ASSUME NEW A, SampleBag(A), NEW B, SampleBag(B)
    PROVE  /\ SampleBag(A (+) B)
           /\ \A s \in SampleType : Copies(A (+) B, s) = Copies(A, s) + Copies(B, s)
           /\ Together(Held(A (+) B), Held(A), Held(B))
<1> DEFINE C == A (+) B
<1>1. /\ DOMAIN C = DOMAIN A \cup DOMAIN B
      /\ \A s \in DOMAIN C : C[s] = Copies(A, s) + Copies(B, s)
  BY DEF (+), Copies
<1> HIDE DEF C
<1>2. \A s \in SampleType : Copies(A, s) \in Nat /\ Copies(B, s) \in Nat
  BY DEF SampleBag, Copies
<1>3. \A s \in SampleType : /\ s \in DOMAIN A => Copies(A, s) > 0
                            /\ s \in DOMAIN B => Copies(B, s) > 0
                            /\ s \notin DOMAIN A => Copies(A, s) = 0
                            /\ s \notin DOMAIN B => Copies(B, s) = 0
  BY DEF SampleBag, Copies
<1>4. DOMAIN C \subseteq SampleType
  BY <1>1 DEF SampleBag
<1>5. ASSUME NEW s \in DOMAIN C PROVE C[s] \in Nat /\ C[s] > 0
  BY <1>1, <1>2, <1>3, <1>4
<1>6. ASSUME NEW s \in SampleType PROVE Copies(C, s) = Copies(A, s) + Copies(B, s)
  <2>1. CASE s \in DOMAIN C
    BY <1>1, <2>1 DEF Copies
  <2>2. CASE s \notin DOMAIN C
    <3>1. Copies(C, s) = 0 /\ Copies(A, s) = 0 /\ Copies(B, s) = 0
      BY <1>1, <2>2 DEF Copies
    <3> QED BY <3>1
  <2> QED BY <2>1, <2>2
<1>7. SampleBag(C)
  BY <1>4, <1>5 DEF SampleBag
<1>8. Together(Held(C), Held(A), Held(B))
  BY <1>6, <1>7, HeldTogether
<1> QED
  BY <1>6, <1>7, <1>8 DEF C

\* The bag of one sample.
LEMMA HeldOne ==
    ASSUME NEW s \in SampleType
    PROVE  /\ SampleBag(SetToBag({s}))
           /\ \A t \in SampleType : Copies(SetToBag({s}), t) = IF t = s THEN 1 ELSE 0
           /\ \A b \in Buckets : Held(SetToBag({s}))[b] = IF b = FindBucket(s[1]) THEN Load(s) ELSE 0
<1> DEFINE B == SetToBag({s})
<1>1. DOMAIN B = {s} /\ B[s] = 1
  BY DEF SetToBag
<1> HIDE DEF B
<1>2. SampleBag(B)
  BY <1>1 DEF SampleBag
<1>3. \A t \in SampleType : Copies(B, t) = IF t = s THEN 1 ELSE 0
  BY <1>1 DEF Copies
<1>4. \A t \in SampleType : Mass(B)[t] = IF t = s THEN Load(s) ELSE 0
  <2>1. \A t \in SampleType : Mass(B)[t] = Copies(B, t) * Load(t) /\ Load(t) \in Nat
    BY <1>2, MassType, LoadOfSample
  <2> QED BY <1>3, <2>1
<1>5. ASSUME NEW b \in Buckets
      PROVE  Held(B)[b] = IF b = FindBucket(s[1]) THEN Load(s) ELSE 0
  <2> DEFINE S == InBucket(b)
             T == S \cap {s}
             f == Mass(B)
  <2>1. S \in SUBSET SampleType /\ T \in SUBSET S /\ Held(B)[b] = SumOver(f, S)
    BY DEF InBucket, Held
  <2>2. \A t \in S \ T : f[t] = 0
    BY <1>4, <2>1
  <2>3. Summable(f, S)
    BY <1>2, <2>1, MassType, SummablePart
  <2>4. SumOver(f, S) = SumOver(f, T)
    <3> HIDE DEF S, T, f
    <3> QED BY <2>1, <2>2, <2>3, SumGrown
  <2>5. f[s] = Load(s) /\ Load(s) \in Nat
    BY <1>4, LoadOfSample
  <2>6. CASE b = FindBucket(s[1])
    <3> DEFINE N == {}
    <3>1. T = N \cup {s} /\ s \notin N
      BY <2>6 DEF InBucket
    <3>2. Summable(f, N \cup {s})
      <4>1. N \cup {s} \in SUBSET SampleType
        OBVIOUS
      <4> QED BY <1>2, <4>1, MassType, SummablePart
    <3> HIDE DEF T, f, N
    <3>3. SumOver(f, N \cup {s}) = SumOver(f, N) + f[s] /\ SumOver(f, {}) = 0
      BY <3>1, <3>2, SumInsert
    <3>4. SumOver(f, T) = SumOver(f, N \cup {s})
      BY <3>1
    <3>5. SumOver(f, N) = 0
      BY <3>3 DEF N
    <3> QED BY <2>1, <2>4, <2>5, <2>6, <3>3, <3>4, <3>5
  <2>7. CASE b # FindBucket(s[1])
    <3>1. T = {}
      BY <2>7 DEF InBucket
    <3>2. SumOver(f, {}) = 0
      BY <2>3, SumStep
    <3> HIDE DEF T, f
    <3> QED BY <2>1, <2>4, <2>7, <3>1, <3>2
  <2> QED BY <2>6, <2>7
<1> QED
  BY <1>2, <1>3, <1>5 DEF B

\* A bag with one sample of it taken away.
LEMMA HeldTaken ==
    ASSUME NEW A, SampleBag(A), NEW s \in DOMAIN A
    PROVE  /\ s \in SampleType
           /\ SampleBag(A (-) SetToBag({s}))
           /\ Together(Held(A), Held(A (-) SetToBag({s})), Held(SetToBag({s})))
<1> DEFINE B == SetToBag({s})
           C == A (-) B
           D == [e \in DOMAIN A |-> IF e \in DOMAIN B THEN A[e] - B[e] ELSE A[e]]
<1>1. s \in SampleType
  BY DEF SampleBag
<1>2. SampleBag(B) /\ \A t \in SampleType : Copies(B, t) = IF t = s THEN 1 ELSE 0
  BY <1>1, HeldOne
<1>3. DOMAIN B = {s} /\ B[s] = 1
  BY DEF SetToBag
<1>4. C = [e \in {d \in DOMAIN D : D[d] > 0} |-> D[e]]
  BY DEF (-)
<1> HIDE DEF B, C
<1>5. \A e \in DOMAIN A : D[e] = IF e = s THEN A[e] - 1 ELSE A[e]
  BY <1>3
<1>6. DOMAIN D = DOMAIN A
  OBVIOUS
<1> HIDE DEF D
<1>7. DOMAIN C = {d \in DOMAIN A : D[d] > 0} /\ \A e \in DOMAIN C : C[e] = D[e]
  BY <1>4, <1>6
<1>8. \A e \in DOMAIN A : e \in SampleType /\ A[e] \in Nat /\ A[e] > 0
  BY DEF SampleBag
<1>9. SampleBag(C)
  <2>1. ASSUME NEW e \in DOMAIN C PROVE C[e] \in Nat /\ C[e] > 0
    BY <1>5, <1>7, <1>8
  <2>2. DOMAIN C \subseteq SampleType
    BY <1>7, <1>8
  <2> QED BY <2>1, <2>2 DEF SampleBag
<1>10. ASSUME NEW t \in SampleType PROVE Copies(A, t) = Copies(C, t) + Copies(B, t)
  <2>1. CASE t \notin DOMAIN A
    <3>1. Copies(A, t) = 0 /\ Copies(C, t) = 0 /\ Copies(B, t) = 0
      BY <1>2, <1>7, <2>1 DEF Copies
    <3> QED BY <3>1
  <2>2. CASE t \in DOMAIN A /\ t = s
    <3>1. Copies(A, t) = A[t] /\ Copies(B, t) = 1 /\ D[t] = A[t] - 1 /\ A[t] \in Nat /\ A[t] > 0
      BY <1>2, <1>5, <1>8, <2>2 DEF Copies
    <3>2. Copies(C, t) = A[t] - 1
      <4>1. CASE A[t] > 1
        BY <1>7, <2>2, <3>1, <4>1 DEF Copies
      <4>2. CASE A[t] = 1
        BY <1>7, <2>2, <3>1, <4>2 DEF Copies
      <4> QED BY <3>1, <4>1, <4>2
    <3> QED BY <3>1, <3>2
  <2>3. CASE t \in DOMAIN A /\ t # s
    <3>1. Copies(A, t) = A[t] /\ Copies(B, t) = 0 /\ D[t] = A[t] /\ A[t] \in Nat /\ A[t] > 0
      BY <1>2, <1>5, <1>8, <2>3 DEF Copies
    <3>2. Copies(C, t) = A[t]
      BY <1>7, <2>3, <3>1 DEF Copies
    <3> QED BY <3>1, <3>2
  <2> QED BY <2>1, <2>2, <2>3
<1>11. Together(Held(A), Held(C), Held(B))
  BY <1>2, <1>9, <1>10, HeldTogether
<1> QED
  BY <1>1, <1>9, <1>11 DEF B, C

\* The empty bag.
LEMMA HeldNone == SampleBag(EmptyBag) /\ Nothing(Held(EmptyBag))
<1>1. DOMAIN EmptyBag = {}
  BY DEF EmptyBag, SetToBag
<1>2. SampleBag(EmptyBag)
  BY <1>1 DEF SampleBag
<1>3. ASSUME NEW s \in SampleType PROVE Mass(EmptyBag)[s] = 0
  <2>1. Mass(EmptyBag)[s] = Copies(EmptyBag, s) * Load(s) /\ Load(s) \in Nat
    BY <1>2, MassType, LoadOfSample
  <2>2. Copies(EmptyBag, s) = 0
    BY <1>1 DEF Copies
  <2>3. 0 * Load(s) = 0
    BY <2>1
  <2> QED BY <2>1, <2>2, <2>3
<1>4. ASSUME NEW b \in Buckets PROVE Held(EmptyBag)[b] = 0
  <2> DEFINE S == InBucket(b)
             f == Mass(EmptyBag)
             N == {}
  <2>1. S \in SUBSET SampleType /\ N \in SUBSET S /\ Held(EmptyBag)[b] = SumOver(f, S)
    BY DEF InBucket, Held
  <2>2. Summable(f, S)
    BY <1>2, <2>1, MassType, SummablePart
  <2>3. \A t \in S \ N : f[t] = 0
    BY <1>3, <2>1
  <2>4. SumOver(f, N) = 0
    BY <2>2, SumStep
  <2> HIDE DEF S, N, f
  <2>5. SumOver(f, S) = SumOver(f, N)
    BY <2>1, <2>2, <2>3, SumGrown
  <2> QED BY <2>1, <2>4, <2>5
<1> QED
  BY <1>2, <1>4 DEF Nothing

\* The samples in the buckets before n.
Earlier(n) == {s \in SampleType : FindBucket(s[1]) < n}

\* What the first buckets hold is what the samples in them weigh.
LEMMA HeldUpto ==
    ASSUME NEW B, SampleBag(B)
    PROVE  \A n \in 0 .. NumBuckets : Upto(Held(B), n) = SumOver(Mass(B), Earlier(n))
<1> DEFINE f == Mass(B)
           h == Held(B)
           G == {n \in 0 .. NumBuckets : Upto(h, n) = SumOver(f, Earlier(n))}
<1>1. NumBuckets \in Nat /\ Buckets = 0 .. NumBuckets - 1
  BY BucketsType DEF Last, Buckets
<1>2. Summable(f, SampleType) /\ h \in Weighing
  BY MassType
<1>3. \A b \in Buckets : h[b] = SumOver(f, InBucket(b))
  BY DEF Held
<1> HIDE DEF f, h
<1>4. \A s \in SampleType : FindBucket(s[1]) \in Nat
  BY <1>1, LoadOfSample
<1>5. 0 \in G
  <2>1. Earlier(0) = {}
    BY <1>4 DEF Earlier
  <2>2. SumOver(f, {}) = 0
    BY <1>2, SumStep
  <2>3. Upto(h, 0) = 0
    BY <1>2, UptoStep
  <2> DEFINE S == Earlier(0)
  <2> HIDE DEF S
  <2>4. S = {}
    BY <2>1 DEF S
  <2>5. SumOver(f, S) = 0
    BY <2>2, <2>4
  <2> QED BY <1>1, <2>3, <2>5 DEF S
<1>6. ASSUME NEW n \in Buckets, n \in G PROVE n + 1 \in G
  <2> DEFINE S == Earlier(n)
             T == InBucket(n)
             U == S \cup T
             V == Earlier(n + 1)
  <2>1. n \in 0 .. NumBuckets /\ n + 1 \in 0 .. NumBuckets /\ n \in Nat
    BY <1>1
  <2>2. S \cap T = {} /\ U \in SUBSET SampleType
    BY <1>4, <2>1 DEF Earlier, InBucket
  <2>3. V = U
    BY <1>4, <2>1 DEF Earlier, InBucket
  <2>4. Upto(h, n) = SumOver(f, S)
    BY <1>6
  <2>5. h[n] = SumOver(f, T)
    BY <1>3
  <2>6. Upto(h, n + 1) = Upto(h, n) + h[n]
    BY <1>2, UptoStep
  <2> HIDE DEF S, T, V
  <2>7. Summable(f, U)
    BY <1>2, <2>2, SummablePart
  <2>8. SumOver(f, U) = SumOver(f, S) + SumOver(f, T)
    BY <2>2, <2>7, SumUnion
  <2> HIDE DEF U
  <2>9. SumOver(f, V) = SumOver(f, U)
    BY <2>3
  <2>10. Upto(h, n + 1) = SumOver(f, V)
    BY <2>4, <2>5, <2>6, <2>8, <2>9
  <2> QED BY <2>1, <2>10 DEF V
<1>7. 0 .. NumBuckets \subseteq G
  <2> HIDE DEF G
  <2> QED BY <1>5, <1>6, BucketInduction
<1> QED
  BY <1>7 DEF f, h

\* The samples below a value, of all samples there may be.
SamplesBelow(v) == {s \in SampleType : s[1] < v}

\* WeightBelow is what the samples in both bags weigh.
LEMMA BelowIsMass ==
    ASSUME NEW x \in Histograms, NEW v,
           SampleBag(samples[x]), SampleBag(kept[x])
    PROVE  WeightBelow(x, v) = SumOver(Mass(samples[x] (+) kept[x]), SamplesBelow(v))
<1> DEFINE C == samples[x] (+) kept[x]
           e == [s \in DOMAIN C |-> C[s] * s[2] * Power(2, s[3])]
           f == Mass(C)
           T == {s \in DOMAIN C : s[1] < v}
           S == SamplesBelow(v)
<1>1. SampleBag(C)
  BY HeldUnion
<1>2. WeightBelow(x, v) = SumOver(e, T)
  BY DEF WeightBelow
<1> HIDE DEF C
<1>3. \A s \in DOMAIN C : s \in SampleType /\ C[s] \in Nat
  BY <1>1 DEF SampleBag
<1>4. T \in SUBSET S /\ S \in SUBSET SampleType
  BY <1>3 DEF SamplesBelow
<1>5. ASSUME NEW s \in T PROVE e[s] = f[s]
  <2>1. s \in DOMAIN C /\ s \in SampleType /\ C[s] \in Nat
    BY <1>3
  <2>2. s[2] \in Nat /\ Power(2, s[3]) \in Nat
    BY <2>1, LoadOfSample
  <2> DEFINE c == C[s]
             w == s[2]
             p == Power(2, s[3])
  <2>3. c \in Nat /\ w \in Nat /\ p \in Nat
    BY <2>1, <2>2
  <2>4. e[s] = (c * w) * p
    BY <2>1
  <2>5. f[s] = c * (w * p)
    BY <2>1 DEF Mass, Copies, Load
  <2> HIDE DEF c, w, p
  <2>6. (c * w) * p = c * (w * p)
    BY <2>3
  <2> QED BY <2>4, <2>5, <2>6
<1>6. ASSUME NEW s \in S \ T PROVE f[s] = 0
  <2>1. s \in SampleType /\ s \notin DOMAIN C
    BY DEF SamplesBelow
  <2>2. f[s] = Copies(C, s) * Load(s) /\ Load(s) \in Nat
    BY <1>1, <2>1, MassType, LoadOfSample
  <2>3. Copies(C, s) = 0
    BY <2>1 DEF Copies
  <2>4. 0 * Load(s) = 0
    BY <2>2
  <2> QED BY <2>2, <2>3, <2>4
<1>7. Summable(f, S) /\ Summable(f, T)
  <2>1. T \in SUBSET SampleType
    BY <1>4
  <2> QED BY <1>1, <1>4, <2>1, MassType, SummablePart
<1> HIDE DEF e, f, T, S
<1>8. SumOver(e, T) = SumOver(f, T)
  BY <1>5, <1>7, SumSame DEF Alike
<1>9. SumOver(f, S) = SumOver(f, T)
  BY <1>4, <1>6, <1>7, SumGrown
<1> QED
  BY <1>2, <1>8, <1>9 DEF f, S, C

\* What the samples below the start of a bucket weigh is what the buckets before it
\* hold; all buckets hold what all samples weigh.
LEMMA BelowIsHeld ==
    ASSUME NEW x \in Histograms, SampleBag(samples[x]), SampleBag(kept[x])
    PROVE  /\ \A b \in Buckets :
                 WeightBelow(x, GetBucketStart(b))
                    = Upto(Held(samples[x]), b) + Upto(Held(kept[x]), b)
           /\ WeightBelow(x, Max(Values) + 1)
                 = Upto(Held(samples[x]), NumBuckets) + Upto(Held(kept[x]), NumBuckets)
<1> DEFINE A == samples[x]
           B == kept[x]
           C == A (+) B
<1>1. NumBuckets \in Nat /\ Buckets = 0 .. NumBuckets - 1
  BY BucketsType DEF Last, Buckets
<1>2. SampleBag(C) /\ Together(Held(C), Held(A), Held(B))
  BY HeldUnion
<1>3. Held(A) \in Weighing /\ Held(B) \in Weighing
  BY MassType
<1>4. Held(C) \in Weighing
  <2> HIDE DEF C
  <2> QED BY <1>2, MassType
<1>5. \A n \in 0 .. NumBuckets : Upto(Held(C), n) = Upto(Held(A), n) + Upto(Held(B), n)
  <2> HIDE DEF A, B, C
  <2> QED BY <1>2, <1>3, <1>4, UptoPlus
<1>6. \A n \in 0 .. NumBuckets : Upto(Held(C), n) = SumOver(Mass(C), Earlier(n))
  <2> HIDE DEF C
  <2> QED BY <1>2, HeldUpto
<1>7. \A v : WeightBelow(x, v) = SumOver(Mass(C), SamplesBelow(v))
  BY BelowIsMass
<1> HIDE DEF A, B, C
<1>8. ASSUME NEW b \in Buckets
      PROVE  WeightBelow(x, GetBucketStart(b)) = Upto(Held(A), b) + Upto(Held(B), b)
  <2> DEFINE S == SamplesBelow(GetBucketStart(b))
             T == Earlier(b)
  <2>1. \A s \in SampleType : s[1] < GetBucketStart(b) <=> FindBucket(s[1]) < b
    BY LoadOfSample, BelowStart
  <2>2. S = T
    BY <2>1 DEF SamplesBelow, Earlier
  <2>3. b \in 0 .. NumBuckets
    BY <1>1
  <2>4. WeightBelow(x, GetBucketStart(b)) = SumOver(Mass(C), S)
    BY <1>7
  <2>5. Upto(Held(C), b) = SumOver(Mass(C), T)
    BY <1>6, <2>3
  <2> HIDE DEF S, T
  <2> QED BY <1>5, <2>2, <2>3, <2>4, <2>5
<1>9. WeightBelow(x, Max(Values) + 1) = Upto(Held(A), NumBuckets) + Upto(Held(B), NumBuckets)
  <2> DEFINE v == Max(Values) + 1
             S == SamplesBelow(v)
             T == Earlier(NumBuckets)
  <2>1. ASSUME NEW s \in SampleType PROVE s[1] < v
    <3>1. s[1] \in Values
      BY DEF SampleType
    <3>2. Values \subseteq Int /\ IsFiniteSet(Values) /\ Values # {}
      BY <3>1, SamplesAssumption
    <3>3. Max(Values) \in Values /\ \A m \in Values : Max(Values) >= m
      BY <3>2, MinMax
    <3>4. Max(Values) \in Int /\ s[1] \in Int /\ Max(Values) >= s[1]
      BY <3>1, <3>2, <3>3
    <3> QED BY <3>4
  <2>2. ASSUME NEW s \in SampleType PROVE FindBucket(s[1]) < NumBuckets
    BY <1>1, LoadOfSample
  <2> HIDE DEF v
  <2>3. S = T
    BY <2>1, <2>2 DEF SamplesBelow, Earlier
  <2>4. NumBuckets \in 0 .. NumBuckets
    BY <1>1
  <2>5. WeightBelow(x, v) = SumOver(Mass(C), S)
    BY <1>7
  <2>6. Upto(Held(C), NumBuckets) = SumOver(Mass(C), T)
    BY <1>6, <2>4
  <2> HIDE DEF S, T
  <2>7. WeightBelow(x, v) = Upto(Held(A), NumBuckets) + Upto(Held(B), NumBuckets)
    BY <1>5, <2>3, <2>4, <2>5, <2>6
  <2> QED BY <2>7 DEF v
<1> QED
  BY <1>8, <1>9 DEF A, B

-----------------------------------------------------------------------------
(* Histograms and the samples that they stand for.                         *)

\* The reference time is that of a sample, or that of a new histogram.
Timely(h) == h.reference \in Nat \/ h.reference = - MaxDecayExponent - 1

\* What a weight of one at the reference time is at time zero, and the weights of a
\* histogram at time zero.
Now(h) == IF h.reference >= 0 THEN Power(2, h.reference) ELSE 1
Valued(h) == [b \in Buckets |-> h.weight[b] * Now(h)]

\* The histogram h stands for samples that weigh F and restored ones that weigh G,
\* rounded at most r times.
Stands(h, F, G, r) ==
    /\ Upto(h.weight, NumBuckets) = h.total
    /\ Represents(Valued(h), h.unit, F, G, r)
    /\ h.reference < 0 => Nothing(F) /\ Nothing(G)

\* The bounds are exact, and no weight is lost when it is looked at.
Solid(h) == Exact(h) /\ ~ Faint(h)

\* Types of what is derived from a histogram.
LEMMA ValuedType ==
    ASSUME NEW h \in HistogramType
    PROVE  /\ h.weight \in Weighing /\ h.total \in Nat /\ h.unit \in Nat /\ h.unit > 0
           /\ h.min \in Buckets /\ h.max \in Buckets /\ h.reference \in Int
           /\ \A b \in Buckets : h.weight[b] \in Nat
           /\ Now(h) \in Nat /\ Now(h) > 0 /\ Valued(h) \in Weighing
           /\ \A b \in Buckets : Valued(h)[b] = h.weight[b] * Now(h)
<1>1. /\ h.weight \in Weighing /\ h.total \in Nat /\ h.unit \in Nat /\ h.unit > 0
      /\ h.min \in Buckets /\ h.max \in Buckets /\ h.reference \in Int
  BY DEF HistogramType, Weighing
<1>2. \A b \in Buckets : h.weight[b] \in Nat
  BY <1>1 DEF Weighing
<1>3. Now(h) \in Nat /\ Now(h) > 0
  <2>1. CASE h.reference >= 0
    <3>1. h.reference \in Nat
      BY <1>1, <2>1
    <3>2. Power(2, h.reference) \in Nat /\ Power(2, h.reference) > 0
      BY <3>1, PowerOfTwo
    <3> QED BY <2>1, <3>2 DEF Now
  <2>2. CASE ~ (h.reference >= 0)
    BY <2>2 DEF Now
  <2> QED BY <2>1, <2>2
<1>4. \A b \in Buckets : Valued(h)[b] = h.weight[b] * Now(h)
  BY DEF Valued
<1>5. Valued(h) \in Weighing
  <2> DEFINE n == Now(h)
  <2>1. n \in Nat
    BY <1>3
  <2> HIDE DEF n
  <2>2. \A b \in Buckets : h.weight[b] * n \in Nat
    BY <1>2, <2>1
  <2> QED BY <2>2 DEF Valued, Weighing, n
<1> QED
  BY <1>1, <1>2, <1>3, <1>4, <1>5

\* The weights of g are those of h, counted in units c times as small.
Finer(g, h, c) ==
    /\ Multiple(g.weight, c, h.weight)
    /\ g.unit = c * h.unit /\ g.total = c * h.total /\ g.reference = h.reference

\* Two numbers are equal if their multiples are.
LEMMA MultiplesEqual ==
    ASSUME NEW k \in Nat, k > 0, NEW w \in Nat, NEW e \in Nat
    PROVE  (k * w = k * e <=> w = e) /\ (k * w > 0 <=> w > 0)
<1>1. (k * w >= k * e <=> w >= e) /\ (k * e >= k * w <=> e >= w) /\ (k * 0 >= k * w <=> 0 >= w)
  BY MultiplesCompare
<1>2. k * w \in Nat /\ k * e \in Nat /\ k * 0 = 0
  OBVIOUS
<1> QED
  BY <1>1, <1>2

\* Histograms that differ in the unit only stand for the same samples.
LEMMA FinerKeeps ==
    ASSUME NEW h \in HistogramType, NEW g \in HistogramType, NEW c \in Nat, c > 0,
           Finer(g, h, c)
    PROVE  /\ \A b \in Buckets : NonEmpty(g, b) <=> NonEmpty(h, b)
           /\ Faint(g) <=> Faint(h)
           /\ Timely(g) <=> Timely(h)
<1>1. /\ h.weight \in Weighing /\ h.unit \in Nat
      /\ \A b \in Buckets : h.weight[b] \in Nat /\ g.weight[b] \in Nat
  BY ValuedType
<1>2. /\ \A b \in Buckets : g.weight[b] = c * h.weight[b]
      /\ g.unit = c * h.unit /\ g.reference = h.reference
  BY DEF Finer, Multiple
<1>3. Epsilon \in Nat
  BY OptionsAssumption
<1> DEFINE e == Epsilon * h.unit
<1>4. e \in Nat /\ Epsilon * g.unit = c * e
  BY <1>1, <1>2, <1>3
<1>5. \A b \in Buckets : NonEmpty(h, b) <=> h.weight[b] >= e
  BY DEF NonEmpty
<1>6. \A b \in Buckets : NonEmpty(g, b) <=> c * h.weight[b] >= c * e
  BY <1>2, <1>4 DEF NonEmpty
<1> HIDE DEF e
<1>7. ASSUME NEW b \in Buckets
      PROVE  (NonEmpty(g, b) <=> NonEmpty(h, b)) /\ (g.weight[b] > 0 <=> h.weight[b] > 0)
  <2> DEFINE w == h.weight[b]
  <2>1. w \in Nat /\ g.weight[b] = c * w
    BY <1>1, <1>2
  <2>2. (NonEmpty(h, b) <=> w >= e) /\ (NonEmpty(g, b) <=> c * w >= c * e)
    BY <1>5, <1>6
  <2> HIDE DEF w
  <2>3. (c * w >= c * e <=> w >= e) /\ (c * w > 0 <=> w > 0)
    BY <1>4, <2>1, MultiplesCompare, MultiplesEqual
  <2> QED BY <2>1, <2>2, <2>3 DEF w
<1>8. Faint(g) <=> Faint(h)
  BY <1>7 DEF Faint
<1>9. Timely(g) <=> Timely(h)
  BY <1>2 DEF Timely
<1> QED
  BY <1>7, <1>8, <1>9

\* The same for what they stand for.
LEMMA FinerStands ==
    ASSUME NEW h \in HistogramType, NEW g \in HistogramType, NEW c \in Nat, c > 0,
           Finer(g, h, c), NEW F \in Weighing, NEW G \in Weighing, NEW r \in Nat
    PROVE  Stands(g, F, G, r) <=> Stands(h, F, G, r)
<1> DEFINE V == Valued(h)
           W == Valued(g)
           n == Now(h)
<1>1. /\ h.weight \in Weighing /\ g.weight \in Weighing /\ h.unit \in Nat /\ h.total \in Nat
      /\ \A b \in Buckets : h.weight[b] \in Nat /\ g.weight[b] \in Nat
      /\ n \in Nat /\ V \in Weighing /\ W \in Weighing
      /\ \A b \in Buckets : V[b] = h.weight[b] * n
      /\ \A b \in Buckets : W[b] = g.weight[b] * Now(g)
  BY ValuedType
<1>2. /\ Multiple(g.weight, c, h.weight)
      /\ g.unit = c * h.unit /\ g.total = c * h.total /\ g.reference = h.reference
  BY DEF Finer
<1>3. Now(g) = n
  BY <1>2 DEF Now
<1> HIDE DEF V, W, n
<1>4. Multiple(W, c, V)
  <2>1. SUFFICES ASSUME NEW b \in Buckets PROVE W[b] = c * V[b]
    BY DEF Multiple
  <2>2. g.weight[b] = c * h.weight[b]
    BY <1>2 DEF Multiple
  <2>3. W[b] = (c * h.weight[b]) * n /\ V[b] = h.weight[b] * n /\ h.weight[b] \in Nat
    BY <1>1, <1>3, <2>2
  <2> DEFINE w == h.weight[b]
  <2>4. W[b] = (c * w) * n /\ V[b] = w * n /\ w \in Nat
    BY <2>3
  <2> HIDE DEF w
  <2>5. (c * w) * n = c * (w * n)
    BY <1>1, <2>4
  <2> QED BY <2>4, <2>5
<1>5. Represents(W, g.unit, F, G, r) <=> Represents(V, h.unit, F, G, r)
  <2> DEFINE u == h.unit
  <2>1. u \in Nat /\ g.unit = c * u
    BY <1>1, <1>2
  <2> HIDE DEF u
  <2>2. Represents(W, c * u, F, G, r) <=> Represents(V, u, F, G, r)
    BY <1>1, <1>4, <2>1, RepresentsScaled
  <2> QED BY <2>1, <2>2 DEF u
<1>6. Upto(g.weight, NumBuckets) = g.total <=> Upto(h.weight, NumBuckets) = h.total
  <2> DEFINE s == Upto(h.weight, NumBuckets)
             t == h.total
  <2>1. NumBuckets \in 0 .. NumBuckets
    BY <1>1, UptoType
  <2>2. s \in Nat /\ t \in Nat
    BY <1>1, <2>1, UptoType
  <2>3. Upto(g.weight, NumBuckets) = c * s
    BY <1>1, <1>2, <2>1, UptoTimes
  <2>4. g.total = c * t
    BY <1>2
  <2> HIDE DEF s, t
  <2>5. c * s = c * t <=> s = t
    BY <2>2, MultiplesEqual
  <2> QED BY <2>3, <2>4, <2>5 DEF s, t
<1> QED
  BY <1>2, <1>5, <1>6 DEF Stands, V, W

\* Refined counts the same weights in smaller units.
LEMMA RefinedFiner ==
    ASSUME NEW h \in HistogramType, NEW k \in Nat, k > 0
    PROVE  Refined(h, k) \in HistogramType /\ Finer(Refined(h, k), h, k)
<1>1. Refined(h, k).unit = k * h.unit /\ Refined(h, k).total = k * h.total
  BY DEF Refined, HistogramType
<1>2. /\ Refined(h, k) \in HistogramType /\ Refined(h, k).reference = h.reference
      /\ \A b \in Buckets : Refined(h, k).weight[b] = k * h.weight[b]
  BY RefinedKeeps
<1> QED
  BY <1>1, <1>2 DEF Finer, Multiple

\* updateMinAndMaxBucket changes no weight.
LEMMA BoundsFiner ==
    ASSUME NEW h \in HistogramType
    PROVE  WithBounds(h) \in HistogramType /\ Finer(WithBounds(h), h, 1)
<1>1. /\ WithBounds(h) \in HistogramType
      /\ WithBounds(h).reference = h.reference /\ WithBounds(h).unit = h.unit
  BY WithBoundsExact
<1>2. WithBounds(h).weight = h.weight /\ WithBounds(h).total = h.total
  BY DEF WithBounds, HistogramType
<1>3. /\ h.total \in Nat /\ h.unit \in Nat
      /\ \A b \in Buckets : h.weight[b] \in Nat
  BY ValuedType
<1>4. 1 * h.unit = h.unit /\ 1 * h.total = h.total
  BY <1>3
<1>5. \A b \in Buckets : h.weight[b] = 1 * h.weight[b]
  BY <1>3
<1> QED
  BY <1>1, <1>2, <1>4, <1>5 DEF Finer, Multiple

\* The weights before Reduced are those after it in a smaller unit.
LEMMA ReducedFiner ==
    ASSUME NEW h \in HistogramType
    PROVE  /\ Reduced(h) \in HistogramType
           /\ \E d \in Nat \ {0} : Finer(h, Reduced(h), d)
<1>1. h.unit \in Nat /\ h.unit > 0 /\ h.total \in Nat /\ \A b \in Buckets : h.weight[b] \in Nat
  BY ValuedType
<1> DEFINE D == {n \in 1 .. h.unit :
                   /\ h.unit % n = 0 /\ h.total % n = 0
                   /\ \A b \in Buckets : h.weight[b] % n = 0}
           d == Max(D)
           g == Reduced(h)
<1>3. d \in D
  <2>1. 1 \in D
    BY <1>1
  <2>2. D \subseteq 1 .. h.unit /\ D # {} /\ 1 \in Int /\ h.unit \in Int
    BY <1>1, <2>1
  <2> HIDE DEF D
  <2> QED BY <2>2, MinMaxInterval
<1>4. d \in Nat /\ d > 0 /\ h.unit % d = 0 /\ h.total % d = 0
  <2> HIDE DEF d
  <2> QED BY <1>1, <1>3
<1>5. \A b \in Buckets : h.weight[b] % d = 0
  <2> HIDE DEF d
  <2> QED BY <1>1, <1>3
<1>6. g = [h EXCEPT !.weight = [b \in Buckets |-> @[b] \div d],
                    !.total = @ \div d, !.unit = @ \div d]
  BY DEF Reduced
<1>7. g \in HistogramType /\ g.reference = h.reference
  BY ReducedKeeps
<1> HIDE DEF d, D, g
<1>8. /\ g.weight = [b \in Buckets |-> h.weight[b] \div d]
      /\ g.unit = h.unit \div d /\ g.total = h.total \div d
  BY <1>6 DEF HistogramType
<1>9. h.unit = d * g.unit /\ h.total = d * g.total
  BY <1>1, <1>4, <1>8, Divided
<1>10. \A b \in Buckets : h.weight[b] = d * g.weight[b]
  BY <1>1, <1>4, <1>5, <1>8, Divided
<1>11. Finer(h, g, d)
  BY <1>7, <1>9, <1>10 DEF Finer, Multiple
<1> QED
  BY <1>4, <1>7, <1>11 DEF g

\* What Reduced leaves as it is.
LEMMA ReducedSame ==
    ASSUME NEW h \in HistogramType
    PROVE  /\ Reduced(h) \in HistogramType
           /\ Faint(Reduced(h)) <=> Faint(h)
           /\ Timely(Reduced(h)) <=> Timely(h)
           /\ \A F \in Weighing, G \in Weighing, r \in Nat :
                 Stands(h, F, G, r) => Stands(Reduced(h), F, G, r)
<1> DEFINE g == Reduced(h)
<1>1. PICK d \in Nat \ {0} : Finer(h, g, d)
  BY ReducedFiner
<1>2. g \in HistogramType /\ d \in Nat /\ d > 0
  BY ReducedFiner
<1> HIDE DEF g
<1>3. (Faint(h) <=> Faint(g)) /\ (Timely(h) <=> Timely(g))
  BY <1>1, <1>2, FinerKeeps
<1>4. ASSUME NEW F \in Weighing, NEW G \in Weighing, NEW r \in Nat, Stands(h, F, G, r)
      PROVE  Stands(g, F, G, r)
  BY <1>1, <1>2, <1>4, FinerStands
<1> QED
  BY <1>2, <1>3, <1>4 DEF g

\* The powers of a sum of exponents.
LEMMA PowerSum ==
    ASSUME NEW m \in Nat, NEW n \in Nat
    PROVE  Power(2, m + n) = Power(2, m) * Power(2, n)
<1> DEFINE P(i) == Power(2, i)
           G == {k \in Nat : P(m + k) = P(m) * P(k)}
<1>1. P(0) = 1 /\ \A i \in Nat : P(i) \in Nat /\ P(i + 1) = 2 * P(i)
  BY PowerLaws
<1> HIDE DEF P
<1>2. 0 \in G
  <2>1. P(m) * P(0) = P(m) /\ m + 0 = m
    BY <1>1
  <2> QED BY <2>1
<1>3. ASSUME NEW k \in Nat, k \in G PROVE k + 1 \in G
  <2>1. m + k \in Nat /\ m + (k + 1) = (m + k) + 1
    OBVIOUS
  <2>2. P(m + (k + 1)) = 2 * P(m + k) /\ P(k + 1) = 2 * P(k)
    BY <1>1, <2>1
  <2>3. P(m + k) = P(m) * P(k)
    BY <1>3
  <2> DEFINE a == P(m)
             b == P(k)
             c == P(m + k)
             d == P(m + (k + 1))
             e == P(k + 1)
  <2>4. a \in Nat /\ b \in Nat /\ c = a * b /\ d = 2 * c /\ e = 2 * b
    BY <1>1, <2>2, <2>3
  <2> HIDE DEF a, b, c, d, e
  <2>5. d = a * e
    BY <2>4
  <2>6. P(m + (k + 1)) = P(m) * P(k + 1)
    BY <2>5 DEF a, d, e
  <2> QED BY <2>6
<1>4. Nat \subseteq G
  <2> HIDE DEF G
  <2> QED BY <1>2, <1>3, NumberInduction
<1> QED
  BY <1>4 DEF P

\* Outside of exact bounds there is no weight.
LEMMA NoneOutside ==
    ASSUME NEW h \in HistogramType, Solid(h), NEW b \in Buckets, b \notin h.min .. h.max
    PROVE  h.weight[b] = 0
<1>1. /\ h.weight[b] \in Nat /\ h.min \in Int /\ h.max \in Int /\ b \in Int
  BY ValuedType, BucketsType
<1>2. ~ NonEmpty(h, b)
  BY <1>1 DEF Solid, Exact, Within
<1>3. ~ (h.weight[b] > 0)
  BY <1>2 DEF Solid, Faint
<1> QED
  BY <1>1, <1>3

\* What scale and updateMinAndMaxBucket make of a solid histogram: the same weights in
\* a smaller unit.
LEMMA ShiftParts ==
    ASSUME NEW h \in HistogramType, Solid(h), NEW time \in Int, time >= h.reference
    PROVE  LET g == shiftReferenceTimestamp(h, time)
           IN  /\ g \in HistogramType /\ g.reference = time
               /\ g.weight = h.weight /\ g.total = h.total
               /\ g.unit = Power(2, time - h.reference) * h.unit
<1> DEFINE k == time - h.reference
           c == Power(2, k)
           W == [b \in Buckets |-> IF b \in h.min .. h.max THEN h.weight[b] ELSE c * h.weight[b]]
           f == [h EXCEPT !.weight = W, !.unit = c * @]
           s == Scaled(h, k)
           g == shiftReferenceTimestamp(h, time)
<1>1. /\ h.weight \in Weighing /\ h.total \in Nat /\ h.unit \in Nat /\ h.unit > 0
      /\ h.min \in Buckets /\ h.max \in Buckets /\ h.reference \in Int
      /\ \A b \in Buckets : h.weight[b] \in Nat
  BY ValuedType
<1>2. k \in Nat
  BY <1>1
<1> HIDE DEF k
<1>3. c \in Nat /\ c > 0
  BY <1>2, PowerOfTwo
<1>4. s = WithBounds(f)
  BY <1>1 DEF Scaled, HistogramType
<1>5. g = [s EXCEPT !.reference = time]
  BY DEF shiftReferenceTimestamp, k
<1> HIDE DEF c, s, g
<1>6. W = h.weight
  <2>1. ASSUME NEW b \in Buckets PROVE W[b] = h.weight[b]
    <3>1. CASE b \in h.min .. h.max
      BY <3>1
    <3>2. CASE b \notin h.min .. h.max
      <4>1. h.weight[b] = 0
        BY <3>2, NoneOutside
      <4>2. W[b] = c * h.weight[b]
        BY <3>2
      <4>3. c * 0 = 0
        BY <1>3
      <4> QED BY <4>1, <4>2, <4>3
    <3> QED BY <3>1, <3>2
  <2>2. W = [b \in Buckets |-> W[b]]
    OBVIOUS
  <2>3. h.weight = [b \in Buckets |-> h.weight[b]]
    BY <1>1 DEF Weighing
  <2> HIDE DEF W
  <2>4. [b \in Buckets |-> W[b]] = [b \in Buckets |-> h.weight[b]]
    BY <2>1
  <2> QED BY <2>2, <2>3, <2>4
<1>7. c * h.unit \in Nat /\ c * h.unit > 0
  BY <1>1, <1>3
<1> HIDE DEF W
<1>8. /\ f \in HistogramType /\ f.weight = h.weight /\ f.total = h.total
      /\ f.unit = c * h.unit
  <2>1. W \in [Buckets -> Nat] /\ c * h.unit \in Nat \ {0}
    BY <1>1, <1>6, <1>7 DEF Weighing
  <2> QED BY <1>6, <2>1 DEF HistogramType
<1> HIDE DEF f
<1>9. s \in HistogramType /\ s.unit = f.unit
  BY <1>4, <1>8, WithBoundsExact
<1>10. s.weight = f.weight /\ s.total = f.total
  BY <1>4, <1>8 DEF WithBounds, HistogramType
<1>11. /\ g \in HistogramType /\ g.reference = time
       /\ g.weight = s.weight /\ g.total = s.total /\ g.unit = s.unit
  BY <1>5, <1>9 DEF HistogramType
<1> QED
  BY <1>8, <1>9, <1>10, <1>11 DEF c, g, k

\* shiftReferenceTimestamp changes no weight at time zero.
LEMMA ShiftStands ==
    ASSUME NEW h \in HistogramType, Solid(h), Timely(h), NEW time \in Nat, time >= h.reference,
           NEW F \in Weighing, NEW G \in Weighing, NEW r \in Nat, Stands(h, F, G, r)
    PROVE  Stands(shiftReferenceTimestamp(h, time), F, G, r)
<1> DEFINE g == shiftReferenceTimestamp(h, time)
           c == Power(2, time - h.reference)
           V == Valued(h)
           W == Valued(g)
<1>1. /\ g \in HistogramType /\ g.reference = time
      /\ g.weight = h.weight /\ g.total = h.total /\ g.unit = c * h.unit
  BY ShiftParts
<1> HIDE DEF g
<1>2. /\ h.weight \in Weighing /\ h.unit \in Nat /\ h.unit > 0 /\ h.reference \in Int
      /\ \A b \in Buckets : h.weight[b] \in Nat
      /\ Now(h) \in Nat /\ Now(h) > 0 /\ V \in Weighing
      /\ \A b \in Buckets : V[b] = h.weight[b] * Now(h)
  BY ValuedType
<1>3. /\ g.unit \in Nat /\ W \in Weighing
      /\ \A b \in Buckets : W[b] = h.weight[b] * Now(g)
  BY <1>1, ValuedType
<1>4. Now(g) = Power(2, time)
  BY <1>1 DEF Now
<1>5. /\ Upto(h.weight, NumBuckets) = h.total
      /\ Represents(V, h.unit, F, G, r)
      /\ h.reference < 0 => Nothing(F) /\ Nothing(G)
  BY DEF Stands
<1> HIDE DEF V, W
<1>6. Represents(W, g.unit, F, G, r)
  <2>1. CASE h.reference >= 0
    <3>1. h.reference \in Nat /\ time - h.reference \in Nat
            /\ h.reference + (time - h.reference) = time
      BY <1>2, <2>1
    <3>2. Now(h) = Power(2, h.reference)
      BY <2>1 DEF Now
    <3>3. Power(2, h.reference + (time - h.reference)) = Now(h) * c
      BY <3>1, <3>2, PowerSum
    <3>4. Now(g) = Now(h) * c
      BY <1>4, <3>1, <3>3
    <3>5. c \in Nat /\ c > 0
      BY <3>1, PowerOfTwo
    <3> DEFINE n == Now(h)
               u == h.unit
    <3>6. n \in Nat /\ u \in Nat /\ Now(g) = n * c /\ g.unit = c * u
      BY <1>1, <1>2, <3>4
    <3>7. Represents(V, u, F, G, r) /\ \A b \in Buckets : V[b] = h.weight[b] * n
      BY <1>2, <1>5
    <3> HIDE DEF c, n, u
    <3>8. Multiple(W, c, V)
      <4>1. SUFFICES ASSUME NEW b \in Buckets PROVE W[b] = c * V[b]
        BY DEF Multiple
      <4> DEFINE w == h.weight[b]
      <4>2. W[b] = w * (n * c) /\ V[b] = w * n /\ w \in Nat
        BY <1>2, <1>3, <3>6, <3>7
      <4> HIDE DEF w
      <4>3. w * (n * c) = c * (w * n)
        BY <3>5, <3>6, <4>2
      <4> QED BY <4>2, <4>3
    <3>9. Represents(W, c * u, F, G, r)
      BY <1>2, <1>3, <3>5, <3>6, <3>7, <3>8, RepresentsScaled
    <3> QED BY <3>6, <3>9
  <2>2. CASE ~ (h.reference >= 0)
    <3>1. Nothing(F) /\ Nothing(G)
      BY <1>2, <1>5, <2>2
    <3>2. Nothing(V)
      BY <1>2, <1>5, <3>1, RepresentsNothing
    <3>3. ASSUME NEW b \in Buckets PROVE W[b] = 0
      <4> DEFINE w == h.weight[b]
                 n == Now(h)
                 m == Now(g)
      <4>1. w * n = 0 /\ W[b] = w * m /\ w \in Nat /\ n \in Nat /\ n > 0
        BY <1>2, <1>3, <3>2 DEF Nothing
      <4>2. m \in Nat
        BY <1>4, PowerOfTwo
      <4> HIDE DEF w, n, m
      <4>3. n * w = n * 0 <=> w = 0
        BY <4>1, MultiplesEqual
      <4>4. n * w = w * n /\ n * 0 = 0 /\ 0 * m = 0
        BY <4>1, <4>2
      <4>5. w = 0
        BY <4>1, <4>3, <4>4
      <4> QED BY <4>1, <4>4, <4>5
    <3>4. Nothing(W)
      BY <3>3 DEF Nothing
    <3> QED BY <1>3, <3>1, <3>4, RepresentsNothing
  <2> QED BY <2>1, <2>2
<1> QED
  BY <1>1, <1>5, <1>6 DEF Stands, g, W

\* decayFactor: after it, the reference time is that of a sample.
LEMMA RenormalizedTimely ==
    ASSUME NEW h \in HistogramType, Timely(h), NEW time \in Nat
    PROVE  /\ Renormalized(h, time) \in HistogramType
           /\ Renormalized(h, time).reference \in Nat
<1>1. h.reference \in Int /\ MaxDecayExponent \in Nat
  BY ValuedType, OptionsAssumption
<1>2. Renormalized(h, time) \in HistogramType
  BY RenormalizedExact
<1>3. CASE time > h.reference + MaxDecayExponent
  <2>1. time >= h.reference
    BY <1>1, <1>3
  <2>2. shiftReferenceTimestamp(h, time).reference = time
    BY <2>1, ShiftExact
  <2> QED BY <1>2, <1>3, <2>2 DEF Renormalized
<1>4. CASE ~ (time > h.reference + MaxDecayExponent)
  <2>1. h.reference \in Nat
    BY <1>1, <1>4 DEF Timely
  <2> QED BY <1>2, <1>4, <2>1 DEF Renormalized
<1> QED
  BY <1>3, <1>4

\* It stands for the same samples.
LEMMA RenormalizedStands ==
    ASSUME NEW h \in HistogramType, Solid(h), Timely(h), NEW time \in Nat,
           NEW F \in Weighing, NEW G \in Weighing, NEW r \in Nat, Stands(h, F, G, r)
    PROVE  Stands(Renormalized(h, time), F, G, r)
<1>1. h.reference \in Int /\ MaxDecayExponent \in Nat
  BY ValuedType, OptionsAssumption
<1>2. CASE time > h.reference + MaxDecayExponent
  <2>1. time >= h.reference
    BY <1>1, <1>2
  <2>2. Stands(shiftReferenceTimestamp(h, time), F, G, r)
    BY <2>1, ShiftStands
  <2> QED BY <1>2, <2>2 DEF Renormalized
<1>3. CASE ~ (time > h.reference + MaxDecayExponent)
  BY <1>3 DEF Renormalized
<1> QED
  BY <1>2, <1>3

\* The unit that is prepared for a sample.
LEMMA PreparedFiner ==
    ASSUME NEW h \in HistogramType, NEW time \in Nat
    PROVE  /\ Prepared(h, time) \in HistogramType
           /\ \E c \in Nat \ {0} : Finer(Prepared(h, time), h, c)
<1>1. h.reference \in Int
  BY ValuedType
<1>2. CASE time < h.reference
  <2> DEFINE k == Power(2, h.reference - time)
  <2>1. h.reference - time \in Nat
    BY <1>1, <1>2
  <2>2. k \in Nat /\ k > 0
    BY <2>1, PowerOfTwo
  <2>3. Prepared(h, time) = Refined(h, k)
    BY <1>2 DEF Prepared
  <2> HIDE DEF k
  <2>4. Refined(h, k) \in HistogramType /\ Finer(Refined(h, k), h, k)
    BY <2>2, RefinedFiner
  <2> QED BY <2>2, <2>3, <2>4
<1>3. CASE ~ (time < h.reference)
  <2>1. Prepared(h, time) = h
    BY <1>3 DEF Prepared
  <2>2. /\ h.total \in Nat /\ h.unit \in Nat
        /\ \A b \in Buckets : h.weight[b] \in Nat
    BY ValuedType
  <2>3. h.unit = 1 * h.unit /\ h.total = 1 * h.total
    BY <2>2
  <2>4. \A b \in Buckets : h.weight[b] = 1 * h.weight[b]
    BY <2>2
  <2>5. Finer(h, h, 1)
    BY <2>3, <2>4 DEF Finer, Multiple
  <2> QED BY <2>1, <2>5
<1> QED
  BY <1>2, <1>3

\* What Prepared leaves as it is.
LEMMA PreparedSame ==
    ASSUME NEW h \in HistogramType, NEW time \in Nat
    PROVE  /\ Prepared(h, time) \in HistogramType
           /\ Prepared(h, time).reference = h.reference
           /\ Faint(Prepared(h, time)) <=> Faint(h)
           /\ \A F \in Weighing, G \in Weighing, r \in Nat :
                 Stands(h, F, G, r) => Stands(Prepared(h, time), F, G, r)
<1> DEFINE g == Prepared(h, time)
<1>1. PICK c \in Nat \ {0} : Finer(g, h, c)
  BY PreparedFiner
<1>2. g \in HistogramType /\ c \in Nat /\ c > 0
  BY PreparedFiner
<1> HIDE DEF g
<1>3. Faint(g) <=> Faint(h)
  BY <1>1, <1>2, FinerKeeps
<1>4. ASSUME NEW F \in Weighing, NEW G \in Weighing, NEW r \in Nat, Stands(h, F, G, r)
      PROVE  Stands(g, F, G, r)
  BY <1>1, <1>2, <1>4, FinerStands
<1>5. g.reference = h.reference
  BY <1>1 DEF Finer
<1> QED
  BY <1>2, <1>3, <1>4, <1>5 DEF g

\* The weight that a sample is counted with is what it weighs at time zero, divided by
\* what a weight of one then weighs.
LEMMA DecayedNow ==
    ASSUME NEW h \in HistogramType, h.reference \in Nat, NEW time \in Nat, NEW weight \in Nat
    PROVE  LET g == Prepared(h, time)
               d == Decayed(g, weight, time)
           IN  d \in Nat /\ d * Now(g) = g.unit * (weight * Power(2, time))
<1> DEFINE g == Prepared(h, time)
           d == Decayed(g, weight, time)
           e == h.reference
<1>1. g \in HistogramType /\ g.reference = e
  BY PreparedSame
<1>2. d \in Nat
  <2> HIDE DEF g
  <2>1. time \in Int
    OBVIOUS
  <2> QED BY <1>1, <2>1, DecayedType
<1>3. Now(g) = Power(2, e)
  BY <1>1 DEF Now
<1>4. h.unit \in Nat /\ h.unit > 0 /\ e \in Nat
  BY ValuedType
<1>5. CASE time < e
  <2> DEFINE k == Power(2, e - time)
             p == Power(2, time)
             u == h.unit
             n == Now(g)
  <2>1. e - time \in Nat /\ (e - time) + time = e
    BY <1>4, <1>5
  <2>2. k \in Nat /\ k > 0 /\ p \in Nat
    BY <2>1, PowerOfTwo
  <2>3. Power(2, (e - time) + time) = k * p
    BY <2>1, PowerSum
  <2>4. n = k * p
    BY <1>3, <2>1, <2>3
  <2>5. g = Refined(h, k)
    BY <1>5 DEF Prepared
  <2>6. g.unit = k * u
    BY <2>5 DEF Refined, HistogramType
  <2>7. d = (weight * g.unit) \div k
    BY <1>1, <1>5 DEF Decayed
  <2> HIDE DEF g, d, k, n, p, u
  <2>8. u \in Nat
    BY <1>4 DEF u
  <2> DEFINE q == weight * u
  <2>9. q \in Nat /\ weight * g.unit = k * q
    BY <2>2, <2>6, <2>8
  <2>10. d = (k * q) \div k
    BY <2>7, <2>9
  <2> HIDE DEF q
  <2>11. d = q
    <3>1. k * q \in Nat /\ k * q <= k * q
      BY <2>2, <2>9
    <3>2. q <= (k * q) \div k /\ (k * q) \div k <= q
      BY <2>2, <2>9, <3>1, QuotientBound
    <3> QED BY <1>2, <2>9, <2>10, <3>2
  <2>12. q * (k * p) = (k * u) * (weight * p)
    <3>1. q = weight * u
      BY DEF q
    <3>2. (weight * u) * (k * p) = (k * u) * (weight * p)
      BY <2>2, <2>8
    <3> QED BY <3>1, <3>2
  <2> QED BY <1>2, <2>4, <2>6, <2>11, <2>12 DEF g, d, n, p
<1>6. CASE ~ (time < e)
  <2> DEFINE k == Power(2, time - e)
             p == Power(2, e)
             u == h.unit
             m == Power(2, time)
  <2>1. time - e \in Nat /\ (time - e) + e = time
    BY <1>4, <1>6
  <2>2. k \in Nat /\ k > 0 /\ p \in Nat
    BY <1>4, <2>1, PowerOfTwo
  <2>3. Power(2, (time - e) + e) = k * p
    BY <1>4, <2>1, PowerSum
  <2>4. m = k * p
    BY <2>1, <2>3
  <2>5. g = h
    BY <1>6 DEF Prepared
  <2>6. d = weight * u * k
    BY <1>6, <2>5 DEF Decayed
  <2>7. u \in Nat
    BY <1>4
  <2> HIDE DEF g, d, k, p, u, m
  <2>8. (weight * u * k) * p = u * (weight * (k * p))
    BY <2>2, <2>7
  <2>9. d * p = u * (weight * m)
    BY <2>4, <2>6, <2>8
  <2> QED BY <1>2, <1>3, <2>5, <2>9 DEF g, d, p, u, m
<1> QED
  BY <1>5, <1>6

\* A weight in one bucket.
Only(i, d) == [b \in Buckets |-> IF b = i THEN d ELSE 0]

\* Its sum.
LEMMA OnlySum ==
    ASSUME NEW i \in Buckets, NEW d \in Nat
    PROVE  /\ Only(i, d) \in Weighing
           /\ Upto(Only(i, d), NumBuckets) = d
<1> DEFINE A == Only(i, d)
           S == 0 .. NumBuckets - 1
<1>1. A \in Weighing /\ \A b \in Buckets : A[b] = IF b = i THEN d ELSE 0
  BY DEF Only, Weighing
<1> HIDE DEF A
<1>2. S = Buckets /\ NumBuckets - 1 \in Int /\ 0 \in Int
  BY BucketsType DEF Buckets
<1>3. Summable(A, S)
  <2>1. IsFiniteSet(S)
    BY <1>2, FS_Interval
  <2>2. \A b \in S : A[b] \in Nat
    BY <1>1, <1>2
  <2> HIDE DEF S
  <2> QED BY <2>1, <2>2 DEF Summable
<1> HIDE DEF S
<1>4. {i} \in SUBSET S /\ \A b \in S \ {i} : A[b] = 0
  BY <1>1, <1>2
<1>5. SumOver(A, S) = SumOver(A, {i})
  BY <1>3, <1>4, SumGrown
<1>6. Summable(A, {i})
  BY <1>3, <1>4, SummablePart
<1>7. {i} \ {i} = {} /\ i \in {i}
  OBVIOUS
<1>8. SumOver(A, {i}) = d
  <2>1. SumOver(A, {}) = 0 /\ SumOver(A, {i}) = SumOver(A, {i} \ {i}) + A[i]
    BY <1>6, <1>7, SumStep
  <2>2. SumOver(A, {i} \ {i}) = SumOver(A, {})
    BY <1>7
  <2>3. A[i] = d
    BY <1>1
  <2> QED BY <2>1, <2>2, <2>3
<1> QED
  BY <1>1, <1>5, <1>8 DEF A, S, Upto

\* The weights g are those of h and A; the weights A, in h, are what E weighs.
Moves(g, h, A) ==
    /\ Together(g.weight, h.weight, A) /\ g.total = h.total + Upto(A, NumBuckets)
    /\ g.unit = h.unit /\ g.reference = h.reference
Weighs(A, h, E) == \A b \in Buckets : A[b] * Now(h) = h.unit * E[b]

\* Samples may be added with their weights, or taken away with them.
LEMMA MovedStands ==
    ASSUME NEW h \in HistogramType, NEW g \in HistogramType, h.reference \in Nat,
           NEW A \in Weighing, NEW E \in Weighing, Moves(g, h, A), Weighs(A, h, E),
           NEW F \in Weighing, NEW H \in Weighing, Together(H, F, E),
           NEW G \in Weighing, NEW r \in Nat
    PROVE  Stands(g, H, G, r) <=> Stands(h, F, G, r)
<1> DEFINE V == Valued(h)
           W == Valued(g)
           n == Now(h)
           u == h.unit
           D == [b \in Buckets |-> A[b] * n]
<1>1. /\ h.weight \in Weighing /\ g.weight \in Weighing /\ u \in Nat
      /\ h.total \in Nat
      /\ \A b \in Buckets : h.weight[b] \in Nat /\ g.weight[b] \in Nat
      /\ n \in Nat /\ V \in Weighing /\ W \in Weighing
      /\ \A b \in Buckets : V[b] = h.weight[b] * n
      /\ \A b \in Buckets : W[b] = g.weight[b] * Now(g)
  BY ValuedType
<1>2. \A b \in Buckets : A[b] \in Nat
  BY DEF Weighing
<1>3. Now(g) = n /\ g.unit = u /\ g.reference = h.reference
  BY DEF Moves, Now
<1>4. D \in Weighing /\ \A b \in Buckets : D[b] = A[b] * n
  <2> HIDE DEF n
  <2>1. \A b \in Buckets : A[b] * n \in Nat
    BY <1>1, <1>2
  <2> QED BY <2>1 DEF Weighing
<1>5. Multiple(D, u, E)
  <2> HIDE DEF D
  <2> QED BY <1>4 DEF Multiple, Weighs
<1> HIDE DEF V, W, n, u, D
<1>6. Together(W, V, D)
  <2>1. SUFFICES ASSUME NEW b \in Buckets PROVE W[b] = V[b] + D[b]
    BY DEF Together
  <2>2. g.weight[b] = h.weight[b] + A[b]
    BY DEF Moves, Together
  <2> DEFINE w == h.weight[b]
             a == A[b]
  <2>3. W[b] = (w + a) * n /\ V[b] = w * n /\ D[b] = a * n /\ w \in Nat /\ a \in Nat
    BY <1>1, <1>2, <1>3, <1>4, <2>2
  <2> HIDE DEF w, a
  <2>4. (w + a) * n = w * n + a * n
    BY <1>1, <2>3
  <2> QED BY <2>3, <2>4
<1>7. Represents(W, u, H, G, r) <=> Represents(V, u, F, G, r)
  <2>1. V \in Weighing /\ W \in Weighing /\ u \in Nat /\ D \in Weighing
    BY <1>1, <1>4
  <2>2. Shifted(W, V, D, H, F, E, u)
    BY <1>5, <1>6, <2>1 DEF Shifted
  <2> QED BY <2>2, RepresentsShift
<1>8. Upto(g.weight, NumBuckets) = g.total <=> Upto(h.weight, NumBuckets) = h.total
  <2>1. NumBuckets \in 0 .. NumBuckets
    BY UptoType
  <2>2. Upto(h.weight, NumBuckets) \in Nat /\ Upto(A, NumBuckets) \in Nat
    BY <1>1, <2>1, UptoType
  <2>3. Upto(g.weight, NumBuckets) = Upto(h.weight, NumBuckets) + Upto(A, NumBuckets)
    BY <1>1, <2>1, UptoPlus DEF Moves
  <2>4. g.total = h.total + Upto(A, NumBuckets)
    BY DEF Moves
  <2> QED BY <1>1, <2>2, <2>3, <2>4
<1> QED
  BY <1>3, <1>7, <1>8 DEF Stands, V, W, u

\* The weight that AddSample and SubtractSample move is what the sample weighs.
LEMMA SampleWeighs ==
    ASSUME NEW h \in HistogramType, h.reference \in Nat, NEW s \in SampleType
    PROVE  LET g == Prepared(h, s[3])
               d == Decayed(g, s[2], s[3])
               A == Only(FindBucket(s[1]), d)
           IN  /\ g \in HistogramType /\ g.reference \in Nat
               /\ FindBucket(s[1]) \in Buckets /\ d \in Nat
               /\ d * Now(g) = g.unit * Load(s)
               /\ A \in Weighing /\ Upto(A, NumBuckets) = d
               /\ Weighs(A, g, Held(SetToBag({s})))
<1> DEFINE g == Prepared(h, s[3])
           d == Decayed(g, s[2], s[3])
           i == FindBucket(s[1])
           A == Only(i, d)
           E == Held(SetToBag({s}))
<1>1. s[1] \in Nat /\ s[2] \in Nat /\ s[3] \in Nat /\ i \in Buckets
  BY LoadOfSample
<1>2. d \in Nat /\ d * Now(g) = g.unit * Load(s)
  BY <1>1, DecayedNow DEF Load
<1>3. g \in HistogramType /\ g.reference \in Nat
  BY <1>1, PreparedSame
<1> HIDE DEF g, d, i
<1>4. A \in Weighing /\ Upto(A, NumBuckets) = d
  BY <1>1, <1>2, OnlySum
<1>5. \A b \in Buckets : A[b] = IF b = i THEN d ELSE 0
  BY DEF Only
<1>6. \A b \in Buckets : E[b] = IF b = i THEN Load(s) ELSE 0
  BY HeldOne DEF i
<1> HIDE DEF A, E
<1>7. ASSUME NEW b \in Buckets PROVE A[b] * Now(g) = g.unit * E[b]
  <2>1. CASE b = i
    BY <1>2, <1>5, <1>6, <2>1
  <2>2. CASE b # i
    <3>1. Now(g) \in Nat /\ g.unit \in Nat
      BY <1>3, ValuedType
    <3>2. A[b] = 0 /\ E[b] = 0
      BY <1>5, <1>6, <2>2
    <3> DEFINE n == Now(g)
               u == g.unit
    <3>3. n \in Nat /\ u \in Nat
      BY <3>1
    <3> HIDE DEF n, u
    <3>4. 0 * n = u * 0
      BY <3>3
    <3> QED BY <3>2, <3>4 DEF n, u
  <2> QED BY <2>1, <2>2
<1>8. Weighs(A, g, E)
  BY <1>7 DEF Weighs
<1> QED
  BY <1>1, <1>2, <1>3, <1>4, <1>8 DEF A, d, g, i, E

\* AddSample's additions to the weights.
LEMMA AddedMoves ==
    ASSUME NEW g \in HistogramType, NEW b \in Buckets, NEW w \in Nat
    PROVE  Added(g, b, w) \in HistogramType /\ Moves(Added(g, b, w), g, Only(b, w))
<1> DEFINE h == [g EXCEPT !.weight[b] = @ + w, !.total = @ + w]
           lo == IF b < g.min /\ NonEmpty(h, b) THEN b ELSE g.min
           hi == IF b > g.max /\ NonEmpty(h, b) THEN b ELSE g.max
           r == Added(g, b, w)
           A == Only(b, w)
<1>1. r \in HistogramType
  BY AddedExact
<1>2. /\ g.weight \in [Buckets -> Nat] /\ g.total \in Nat
      /\ \A i \in Buckets : g.weight[i] \in Nat
  BY DEF HistogramType
<1>3. /\ h.weight = [g.weight EXCEPT ![b] = @ + w] /\ h.total = g.total + w
      /\ h.unit = g.unit /\ h.min = g.min /\ h.max = g.max /\ h.reference = g.reference
  BY DEF HistogramType
<1>4. h \in HistogramType
  <2> DEFINE W == [g.weight EXCEPT ![b] = @ + w]
  <2>1. W \in [Buckets -> Nat]
    BY <1>2
  <2>2. h = [g EXCEPT !.weight = W, !.total = g.total + w]
    OBVIOUS
  <2>3. g.total + w \in Nat
    BY <1>2
  <2> HIDE DEF W, h
  <2> QED BY <2>1, <2>2, <2>3 DEF HistogramType
<1>5. r = [h EXCEPT !.min = lo, !.max = hi]
  BY <1>3 DEF Added
<1> HIDE DEF h, lo, hi, r
<1>6. /\ r.weight = h.weight /\ r.total = h.total
      /\ r.unit = h.unit /\ r.reference = h.reference
  BY <1>4, <1>5 DEF HistogramType
<1>7. \A i \in Buckets : A[i] = IF i = b THEN w ELSE 0
  BY DEF Only
<1>8. Upto(A, NumBuckets) = w
  BY OnlySum
<1> HIDE DEF A
<1>9. ASSUME NEW i \in Buckets PROVE r.weight[i] = g.weight[i] + A[i]
  BY <1>2, <1>3, <1>6, <1>7
<1>10. Moves(r, g, A)
  BY <1>3, <1>6, <1>8, <1>9 DEF Moves, Together
<1> QED
  BY <1>1, <1>10 DEF r, A

\* AddSample: the histogram then stands for one sample more.
LEMMA HistAddSampleStands ==
    ASSUME NEW h \in HistogramType, Solid(h), Timely(h), NEW s \in SampleType,
           NEW B, SampleBag(B), NEW G \in Weighing, NEW r \in Nat, Stands(h, Held(B), G, r)
    PROVE  Stands(HistAddSample(h, s[1], s[2], s[3]), Held(B (+) SetToBag({s})), G, r)
<1> DEFINE n == Renormalized(h, s[3])
           g == Prepared(n, s[3])
           d == Decayed(g, s[2], s[3])
           i == FindBucket(s[1])
           A == Only(i, d)
           a == Added(g, i, d)
           F == Held(B)
           E == Held(SetToBag({s}))
           H == Held(B (+) SetToBag({s}))
<1>1. s[3] \in Nat
  BY LoadOfSample
<1>2. F \in Weighing /\ E \in Weighing /\ H \in Weighing /\ Together(H, F, E)
  <2>1. SampleBag(SetToBag({s}))
    BY HeldOne
  <2>2. SampleBag(B (+) SetToBag({s})) /\ Together(H, F, E)
    BY <2>1, HeldUnion
  <2> QED BY <2>1, <2>2, MassType
<1>3. n \in HistogramType /\ n.reference \in Nat
  BY <1>1, RenormalizedTimely
<1>4. Stands(n, F, G, r)
  BY <1>1, <1>2, RenormalizedStands
<1>5. HistAddSample(h, s[1], s[2], s[3]) = Reduced(a)
  BY DEF HistAddSample
<1> HIDE DEF n, F, H
<1>6. Stands(g, F, G, r)
  BY <1>1, <1>2, <1>3, <1>4, PreparedSame
<1>7. /\ g \in HistogramType /\ g.reference \in Nat
      /\ i \in Buckets /\ d \in Nat
      /\ A \in Weighing /\ Weighs(A, g, E)
  BY <1>3, SampleWeighs
<1> HIDE DEF g, d, i, E
<1>8. a \in HistogramType /\ Moves(a, g, A)
  BY <1>7, AddedMoves
<1> HIDE DEF a, A
<1>9. Stands(a, H, G, r)
  BY <1>2, <1>6, <1>7, <1>8, MovedStands
<1>10. Stands(Reduced(a), H, G, r)
  BY <1>2, <1>8, <1>9, ReducedSame
<1> QED
  BY <1>5, <1>10 DEF H

\* SubtractSample's subtraction from the weights.
Taken(g, b, w) ==
    [g EXCEPT !.total = SafeSubtract(g, @, w), !.weight[b] = SafeSubtract(g, @, w)]

\* Nothing is lost in it when what is left in the bucket is nothing, or not less than
\* Epsilon, and so in all other buckets.
LEMMA TakenMoves ==
    ASSUME NEW g \in HistogramType, ~ Faint(g), Upto(g.weight, NumBuckets) = g.total,
           NEW b \in Buckets, NEW d \in Nat, d <= g.weight[b],
           g.weight[b] - d \notin 1 .. Epsilon * g.unit - 1
    PROVE  /\ Taken(g, b, d) \in HistogramType /\ ~ Faint(Taken(g, b, d))
           /\ Moves(g, Taken(g, b, d), Only(b, d))
<1> DEFINE e == Epsilon * g.unit
           l == g.weight[b] - d
           W == [g.weight EXCEPT ![b] = l]
           t == Taken(g, b, d)
           A == Only(b, d)
           N == NumBuckets
<1>1. /\ g.weight \in [Buckets -> Nat] /\ g.total \in Nat /\ g.unit \in Nat /\ g.unit > 0
      /\ \A i \in Buckets : g.weight[i] \in Nat
      /\ g.weight \in Weighing
  BY ValuedType DEF HistogramType
<1>2. e \in Nat /\ e > 0
  BY <1>1, OptionsAssumption
<1>3. l \in Nat /\ l \notin 1 .. e - 1 /\ (l = 0 \/ l >= e)
  <2>1. l \in Nat
    BY <1>1
  <2>2. l \notin 1 .. e - 1
    OBVIOUS
  <2> HIDE DEF l, e
  <2> QED BY <1>2, <2>1, <2>2
<1>4. A \in Weighing /\ Upto(A, N) = d /\ \A i \in Buckets : A[i] = IF i = b THEN d ELSE 0
  BY OnlySum DEF Only
<1>5. W \in Weighing /\ W[b] = l /\ \A i \in Buckets : i # b => W[i] = g.weight[i]
  BY <1>1, <1>3 DEF Weighing
<1> HIDE DEF A
<1>6. Together(g.weight, W, A)
  <2>1. ASSUME NEW i \in Buckets PROVE g.weight[i] = W[i] + A[i]
    <3>1. CASE i = b
      BY <1>1, <1>4, <1>5, <3>1
    <3>2. CASE i # b
      BY <1>1, <1>4, <1>5, <3>2
    <3> QED BY <3>1, <3>2
  <2> HIDE DEF W
  <2> QED BY <2>1 DEF Together
<1>7. \A i \in Buckets : W[i] = 0 \/ W[i] >= e
  <2>1. SUFFICES ASSUME NEW i \in Buckets PROVE W[i] = 0 \/ W[i] >= e
    OBVIOUS
  <2>2. CASE i = b
    BY <1>3, <1>5, <2>2
  <2>3. CASE i # b
    <3>1. g.weight[i] = 0 \/ g.weight[i] >= e
      BY <1>1 DEF Faint, NonEmpty
    <3> QED BY <1>5, <2>3, <3>1
  <2> QED BY <2>2, <2>3
<1> HIDE DEF W, l, e
<1>8. Upto(W, N) \in Nat /\ g.total = Upto(W, N) + d
  <2>1. N \in 0 .. N
    BY BucketsType
  <2>2. Upto(W, N) \in Nat
    BY <1>5, <2>1, UptoType
  <2>3. Upto(g.weight, N) = Upto(W, N) + Upto(A, N)
    BY <1>1, <1>4, <1>5, <1>6, <2>1, UptoPlus
  <2> QED BY <1>4, <2>2, <2>3
<1>9. Upto(W, N) = 0 \/ Upto(W, N) >= e
  <2>1. CASE Nothing(W)
    <3>1. N \in 0 .. N
      BY BucketsType
    <3> QED BY <1>5, <2>1, <3>1, NothingSums
  <2>2. CASE ~ Nothing(W)
    <3>1. PICK i \in Buckets : W[i] # 0
      BY <2>2 DEF Nothing
    <3>2. W[i] >= e /\ W[i] \in Nat
      BY <1>5, <1>7, <3>1 DEF Weighing
    <3>3. W[i] <= Upto(W, N)
      BY <1>5, UptoPart
    <3> QED BY <1>2, <1>8, <3>2, <3>3
  <2> QED BY <2>1, <2>2
<1>10. SafeSubtract(g, g.total, d) = Upto(W, N)
  <2>1. g.total - d = Upto(W, N)
    BY <1>1, <1>8
  <2> DEFINE T == Upto(W, N)
  <2>2. T \in Nat /\ (T = 0 \/ T >= e) /\ g.total - d = T
    BY <1>8, <1>9, <2>1
  <2> HIDE DEF T
  <2>3. SafeSubtract(g, g.total, d) = IF T < e THEN 0 ELSE T
    BY <2>2 DEF SafeSubtract, e
  <2>4. SafeSubtract(g, g.total, d) = T
    BY <1>2, <2>2, <2>3
  <2> QED BY <2>4 DEF T
<1>11. SafeSubtract(g, g.weight[b], d) = l
  <2>1. g.weight[b] - d = l
    BY DEF l
  <2>2. SafeSubtract(g, g.weight[b], d) = IF l < e THEN 0 ELSE l
    BY <2>1 DEF SafeSubtract, e
  <2> QED BY <1>2, <1>3, <2>2
<1>12. t = [g EXCEPT !.total = Upto(W, N), !.weight = W]
  <2>1. t = [g EXCEPT !.total = SafeSubtract(g, g.total, d),
                      !.weight = [g.weight EXCEPT ![b] = SafeSubtract(g, g.weight[b], d)]]
    BY DEF Taken
  <2>2. [g.weight EXCEPT ![b] = SafeSubtract(g, g.weight[b], d)] = W
    BY <1>11 DEF W
  <2> HIDE DEF t
  <2> QED BY <1>10, <2>1, <2>2
<1> HIDE DEF t
<1>13. /\ t \in HistogramType /\ t.weight = W /\ t.total = Upto(W, N)
       /\ t.unit = g.unit /\ t.reference = g.reference
  <2>1. W \in [Buckets -> Nat]
    BY <1>5 DEF Weighing
  <2> QED BY <1>8, <1>12, <2>1 DEF HistogramType
<1>14. ~ Faint(t)
  <2> SUFFICES ASSUME NEW i \in Buckets, W[i] > 0, ~ (W[i] >= e) PROVE FALSE
    BY <1>13 DEF Faint, NonEmpty, e
  <2>1. W[i] = 0 \/ W[i] >= e
    BY <1>7
  <2> QED BY <2>1
<1>15. Moves(g, t, A)
  BY <1>4, <1>6, <1>8, <1>13 DEF Moves
<1> QED
  BY <1>13, <1>14, <1>15 DEF t, A

\* SubtractSample: the histogram then stands for one sample less.
LEMMA HistSubtractSampleStands ==
    ASSUME NEW h \in HistogramType, Solid(h), Timely(h),
           NEW B, SampleBag(B), NEW s \in DOMAIN B,
           NEW G \in Weighing, NEW r \in Nat, Stands(h, Held(B), G, r),
           NEW g, g = Prepared(Renormalized(h, s[3]), s[3]), ~ Faint(g),
           g.weight[FindBucket(s[1])] - Decayed(g, s[2], s[3]) \notin 1 .. Epsilon * g.unit - 1
    PROVE  /\ Stands(HistSubtractSample(h, s[1], s[2], s[3]), Held(B (-) SetToBag({s})), G, r)
           /\ ~ Faint(HistSubtractSample(h, s[1], s[2], s[3]))
<1> DEFINE n == Renormalized(h, s[3])
           d == Decayed(g, s[2], s[3])
           i == FindBucket(s[1])
           A == Only(i, d)
           t == Taken(g, i, d)
           m == WithBounds(t)
           F == Held(B)
           E == Held(SetToBag({s}))
           H == Held(B (-) SetToBag({s}))
<1>1. s \in SampleType /\ s[3] \in Nat
  BY LoadOfSample DEF SampleBag
<1>2. F \in Weighing /\ E \in Weighing /\ H \in Weighing /\ Together(F, H, E)
  <2>1. SampleBag(SetToBag({s}))
    BY <1>1, HeldOne
  <2>2. SampleBag(B (-) SetToBag({s})) /\ Together(F, H, E)
    BY HeldTaken
  <2> QED BY <2>1, <2>2, MassType
<1>3. n \in HistogramType /\ n.reference \in Nat
  BY <1>1, RenormalizedTimely
<1>4. Stands(n, F, G, r)
  BY <1>1, <1>2, RenormalizedStands
<1>5. HistSubtractSample(h, s[1], s[2], s[3]) = Reduced(m)
  BY DEF HistSubtractSample, Taken
<1>6. E[i] = Load(s) /\ \A b \in Buckets : F[b] = H[b] + E[b]
  <2>1. i \in Buckets
    BY <1>1, LoadOfSample
  <2>2. E[i] = Load(s)
    BY <1>1, <2>1, HeldOne
  <2> QED BY <1>2, <2>2 DEF Together
<1> HIDE DEF F, H, E, t, m
<1>7. Stands(g, F, G, r)
  <2> HIDE DEF n
  <2>1. g = Prepared(n, s[3])
    BY DEF n
  <2>2. Stands(Prepared(n, s[3]), F, G, r)
    BY <1>1, <1>2, <1>3, <1>4, PreparedSame
  <2> QED BY <2>1, <2>2
<1>8. /\ g \in HistogramType /\ g.reference \in Nat
      /\ i \in Buckets /\ d \in Nat /\ d * Now(g) = g.unit * Load(s)
      /\ A \in Weighing /\ Weighs(A, g, E)
  <2> HIDE DEF n
  <2>1. g = Prepared(n, s[3])
    BY DEF n
  <2> QED BY <1>1, <1>3, <2>1, SampleWeighs DEF E
<1>9. d <= g.weight[i]
  <2> DEFINE w == g.weight[i]
             p == Now(g)
             u == g.unit
             f == F[i]
             l == Load(s)
  <2>1. w \in Nat /\ p \in Nat /\ p > 0 /\ u \in Nat /\ Valued(g)[i] = w * p
    BY <1>8, ValuedType
  <2>2. u * f <= Valued(g)[i]
    BY <1>7, <1>8 DEF Stands, Represents
  <2>3. f \in Nat /\ l \in Nat /\ l <= f
    <3>1. H[i] \in Nat /\ E[i] \in Nat /\ F[i] \in Nat
      BY <1>2, <1>8, UptoType
    <3> QED BY <1>6, <1>8, <3>1
  <2>4. d * p = u * l /\ d \in Nat
    BY <1>8
  <2> HIDE DEF w, p, u, f, l, d
  <2>5. u * l <= u * f
    BY <2>1, <2>3, ProductGrows
  <2>6. p * d = d * p /\ p * w = w * p /\ u * f \in Nat /\ u * l \in Nat /\ w * p \in Nat
    BY <2>1, <2>3, <2>4
  <2>7. p * w >= p * d
    BY <2>1, <2>2, <2>4, <2>5, <2>6
  <2>8. w >= d
    BY <2>1, <2>4, <2>7, MultiplesCompare
  <2> QED BY <2>1, <2>4, <2>8 DEF w
<1>10. /\ t \in HistogramType /\ ~ Faint(t) /\ Moves(g, t, A)
  <2>1. Upto(g.weight, NumBuckets) = g.total
    BY <1>7 DEF Stands
  <2>2. g.weight[i] - d \notin 1 .. Epsilon * g.unit - 1
    OBVIOUS
  <2> HIDE DEF i, d
  <2> QED BY <1>8, <1>9, <2>1, <2>2, TakenMoves DEF t
<1> HIDE DEF A, d, i, n
<1>11. t.reference \in Nat /\ Weighs(A, t, E)
  <2>1. t.unit = g.unit /\ t.reference = g.reference
    BY <1>10 DEF Moves
  <2>2. Now(t) = Now(g)
    BY <2>1 DEF Now
  <2> QED BY <1>8, <2>1, <2>2 DEF Weighs
<1>12. Stands(t, H, G, r)
  BY <1>2, <1>7, <1>8, <1>10, <1>11, MovedStands
<1>13. /\ m \in HistogramType /\ Stands(m, H, G, r) /\ ~ Faint(m)
  <2>1. m \in HistogramType /\ Finer(m, t, 1)
    BY <1>10, BoundsFiner DEF m
  <2>2. 1 \in Nat /\ 1 > 0
    OBVIOUS
  <2>3. Stands(m, H, G, r)
    BY <1>2, <1>10, <1>12, <2>1, <2>2, FinerStands
  <2>4. ~ Faint(m)
    BY <1>10, <2>1, <2>2, FinerKeeps
  <2> QED BY <2>1, <2>3, <2>4
<1>14. Stands(Reduced(m), H, G, r) /\ ~ Faint(Reduced(m))
  BY <1>2, <1>13, ReducedSame
<1> QED
  BY <1>5, <1>14 DEF H

\* Merge gives the older histogram the reference time of the younger one.
LEMMA AlignedTimely ==
    ASSUME NEW h \in HistogramType, Timely(h), NEW o \in HistogramType, Timely(o)
    PROVE  /\ Aligned(h, o) \in HistogramType /\ Timely(Aligned(h, o))
           /\ Aligned(h, o).reference = Aligned(o, h).reference
<1>1. h.reference \in Int /\ o.reference \in Int
  BY ValuedType
<1>2. Aligned(h, o) \in HistogramType
  BY AlignedExact
<1>3. CASE h.reference < o.reference
  <2>1. o.reference >= h.reference /\ ~ (o.reference < h.reference)
    BY <1>1, <1>3
  <2>2. shiftReferenceTimestamp(h, o.reference).reference = o.reference
    BY <1>1, <2>1, ShiftExact
  <2>3. Aligned(h, o).reference = o.reference /\ Aligned(o, h) = o
    BY <1>3, <2>1, <2>2 DEF Aligned
  <2> QED BY <1>2, <2>3 DEF Timely
<1>4. CASE o.reference < h.reference
  <2>1. h.reference >= o.reference /\ ~ (h.reference < o.reference)
    BY <1>1, <1>4
  <2>2. shiftReferenceTimestamp(o, h.reference).reference = h.reference
    BY <1>1, <2>1, ShiftExact
  <2>3. Aligned(o, h).reference = h.reference /\ Aligned(h, o) = h
    BY <1>4, <2>1, <2>2 DEF Aligned
  <2> QED BY <1>2, <2>3
<1>5. CASE h.reference = o.reference
  <2>1. Aligned(h, o) = h /\ Aligned(o, h) = o
    BY <1>1, <1>5 DEF Aligned
  <2> QED BY <1>5, <2>1
<1> QED
  BY <1>1, <1>3, <1>4, <1>5

\* It stands for the same samples then.
LEMMA AlignedStands ==
    ASSUME NEW h \in HistogramType, Solid(h), Timely(h), NEW o \in HistogramType, Timely(o),
           NEW F \in Weighing, NEW G \in Weighing, NEW r \in Nat, Stands(h, F, G, r)
    PROVE  Stands(Aligned(h, o), F, G, r)
<1>1. h.reference \in Int /\ o.reference \in Int /\ MaxDecayExponent \in Nat
  BY ValuedType, OptionsAssumption
<1>2. CASE h.reference < o.reference
  <2>1. o.reference \in Nat /\ o.reference >= h.reference
    BY <1>1, <1>2 DEF Timely
  <2>2. Stands(shiftReferenceTimestamp(h, o.reference), F, G, r)
    BY <2>1, ShiftStands
  <2> QED BY <1>2, <2>2 DEF Aligned
<1>3. CASE ~ (h.reference < o.reference)
  BY <1>3 DEF Aligned
<1> QED
  BY <1>2, <1>3

\* The weights of a sum.
LEMMA SummedParts ==
    ASSUME NEW h \in HistogramType, NEW o \in HistogramType, h.unit = o.unit, Solid(o)
    PROVE  /\ Summed(h, o) \in HistogramType
           /\ Together(Summed(h, o).weight, h.weight, o.weight)
           /\ Summed(h, o).total = h.total + o.total
           /\ Summed(h, o).unit = h.unit /\ Summed(h, o).reference = h.reference
<1>1. Summed(h, o) \in HistogramType
  BY SumExact
<1>2. /\ Summed(h, o).weight = [i \in Buckets |-> h.weight[i] + Share(o, i)]
      /\ Summed(h, o).total = h.total + o.total
      /\ Summed(h, o).unit = h.unit /\ Summed(h, o).reference = h.reference
  BY DEF Summed, HistogramType
<1>3. ASSUME NEW i \in Buckets PROVE Share(o, i) = o.weight[i]
  <2>1. CASE i \in o.min .. o.max
    BY <2>1 DEF Share
  <2>2. CASE i \notin o.min .. o.max
    <3>1. o.weight[i] = 0
      BY <2>2, NoneOutside
    <3> QED BY <2>2, <3>1 DEF Share
  <2> QED BY <2>1, <2>2
<1>4. Together(Summed(h, o).weight, h.weight, o.weight)
  BY <1>2, <1>3 DEF Together
<1> QED
  BY <1>1, <1>2, <1>4

\* Weights that are nothing are nothing together.
LEMMA NothingTogether ==
    ASSUME NEW F, NEW FF, NEW H, Nothing(F), Nothing(FF), Together(H, F, FF)
    PROVE  Nothing(H)
BY DEF Nothing, Together

\* The weights and the samples of two histograms with the same unit and the same
\* reference time add up.
LEMMA SummedStands ==
    ASSUME NEW h \in HistogramType, NEW o \in HistogramType,
           h.unit = o.unit, h.reference = o.reference, Solid(o),
           NEW p \in Nat, NEW q \in Nat, NEW r \in Nat, p <= r, q <= r,
           NEW F, NEW FF, NEW H, NEW G, NEW GG, NEW K,
           Combined(Valued(Summed(h, o)), Valued(h), Valued(o), H, F, FF, K, G, GG),
           Stands(h, F, G, p), Stands(o, FF, GG, q)
    PROVE  Stands(Summed(h, o), H, K, r)
<1> DEFINE m == Summed(h, o)
<1>1. /\ m \in HistogramType /\ Together(m.weight, h.weight, o.weight)
      /\ m.total = h.total + o.total /\ m.unit = h.unit /\ m.reference = h.reference
  BY SummedParts
<1> HIDE DEF m
<1>2. /\ h.weight \in Weighing /\ o.weight \in Weighing /\ m.weight \in Weighing
      /\ h.unit \in Nat /\ NumBuckets \in 0 .. NumBuckets
  BY <1>1, ValuedType, UptoType
<1>3. Upto(m.weight, NumBuckets) = m.total
  <2>1. Upto(m.weight, NumBuckets) = Upto(h.weight, NumBuckets) + Upto(o.weight, NumBuckets)
    BY <1>1, <1>2, UptoPlus
  <2> QED BY <1>1, <2>1 DEF Stands
<1>4. Represents(Valued(m), m.unit, H, K, r)
  <2> DEFINE u == h.unit
  <2>1. Represents(Valued(h), u, F, G, p) /\ Represents(Valued(o), u, FF, GG, q)
    BY DEF Stands
  <2>2. Combined(Valued(m), Valued(h), Valued(o), H, F, FF, K, G, GG)
    BY DEF m
  <2>3. u \in Nat /\ m.unit = u
    BY <1>1, <1>2
  <2> HIDE DEF u
  <2>4. Represents(Valued(m), u, H, K, r)
    BY <2>1, <2>2, <2>3, RepresentsSum
  <2> QED BY <2>3, <2>4
<1>5. ASSUME m.reference < 0 PROVE Nothing(H) /\ Nothing(K)
  <2>1. Nothing(F) /\ Nothing(G) /\ Nothing(FF) /\ Nothing(GG)
    BY <1>1, <1>5 DEF Stands
  <2>2. Together(H, F, FF) /\ Together(K, G, GG)
    BY DEF Combined
  <2>3. Nothing(H)
    BY <2>1, <2>2, NothingTogether
  <2>4. Nothing(K)
    BY <2>1, <2>2, NothingTogether
  <2> QED BY <2>3, <2>4
<1>6. Stands(m, H, K, r)
  BY <1>3, <1>4, <1>5 DEF Stands
<1> QED
  BY <1>6 DEF m

\* The weights of a sum at time zero.
LEMMA SummedValued ==
    ASSUME NEW h \in HistogramType, NEW o \in HistogramType,
           h.unit = o.unit, h.reference = o.reference, Solid(o)
    PROVE  /\ Together(Valued(Summed(h, o)), Valued(h), Valued(o))
           /\ Valued(h) \in Weighing /\ Valued(o) \in Weighing
           /\ Valued(Summed(h, o)) \in Weighing
<1> DEFINE m == Summed(h, o)
           n == Now(h)
<1>1. /\ m \in HistogramType /\ Together(m.weight, h.weight, o.weight)
      /\ m.reference = h.reference
  BY SummedParts
<1> HIDE DEF m
<1>2. Now(m) = n /\ Now(o) = n
  BY <1>1 DEF Now
<1>3. /\ n \in Nat /\ Valued(h) \in Weighing /\ Valued(o) \in Weighing /\ Valued(m) \in Weighing
      /\ \A b \in Buckets : h.weight[b] \in Nat /\ o.weight[b] \in Nat
      /\ \A b \in Buckets : Valued(h)[b] = h.weight[b] * n
  <2>1. /\ n \in Nat /\ Valued(h) \in Weighing /\ \A b \in Buckets : h.weight[b] \in Nat
        /\ \A b \in Buckets : Valued(h)[b] = h.weight[b] * n
    BY ValuedType
  <2>2. Valued(o) \in Weighing /\ \A b \in Buckets : o.weight[b] \in Nat
    BY ValuedType
  <2>3. Valued(m) \in Weighing
    BY <1>1, ValuedType
  <2> QED BY <2>1, <2>2, <2>3
<1>4. \A b \in Buckets : Valued(o)[b] = o.weight[b] * n
  BY <1>2, ValuedType
<1>5. \A b \in Buckets : Valued(m)[b] = m.weight[b] * n
  BY <1>1, <1>2, ValuedType
<1> HIDE DEF n
<1>6. ASSUME NEW b \in Buckets PROVE Valued(m)[b] = Valued(h)[b] + Valued(o)[b]
  <2> DEFINE w == h.weight[b]
             a == o.weight[b]
  <2>1. /\ w \in Nat /\ a \in Nat /\ Valued(h)[b] = w * n /\ Valued(o)[b] = a * n
        /\ Valued(m)[b] = (w + a) * n
    BY <1>1, <1>3, <1>4, <1>5 DEF Together
  <2> HIDE DEF w, a
  <2>2. (w + a) * n = w * n + a * n
    BY <1>3, <2>1
  <2> QED BY <2>1, <2>2
<1> QED
  BY <1>3, <1>6 DEF Together, m

\* A histogram in a smaller unit, for Merge.
LEMMA RefinedStands ==
    ASSUME NEW h \in HistogramType, Solid(h), NEW k \in Nat, k > 0,
           NEW F \in Weighing, NEW G \in Weighing, NEW r \in Nat, Stands(h, F, G, r)
    PROVE  /\ Refined(h, k) \in HistogramType /\ Refined(h, k).unit = k * h.unit
           /\ Refined(h, k).reference = h.reference
           /\ Solid(Refined(h, k)) /\ Stands(Refined(h, k), F, G, r)
<1> DEFINE g == Refined(h, k)
<1>1. g \in HistogramType /\ Finer(g, h, k)
  BY RefinedFiner
<1>2. Exact(h) => Exact(g)
  BY RefinedExact
<1> HIDE DEF g
<1>3. Faint(g) <=> Faint(h)
  BY <1>1, FinerKeeps
<1>4. Stands(g, F, G, r)
  BY <1>1, FinerStands
<1>5. g.unit = k * h.unit /\ g.reference = h.reference
  BY <1>1 DEF Finer
<1> QED
  BY <1>1, <1>2, <1>3, <1>4, <1>5 DEF g, Solid

\* A solid histogram h that stands for the samples in the bag B, and for those in C that
\* came from a checkpoint.
Sound(h, B, C, r) ==
    /\ h \in HistogramType /\ Solid(h) /\ Timely(h)
    /\ SampleBag(B) /\ SampleBag(C) /\ r \in Nat
    /\ Stands(h, Held(B), Held(C), r)

\* Merge: the histogram then stands for the samples of both.
LEMMA HistMergeStands ==
    ASSUME NEW a, NEW B, NEW C, NEW p, Sound(a, B, C, p),
           NEW b, NEW BB, NEW CC, NEW q, Sound(b, BB, CC, q),
           NEW r \in Nat, p <= r, q <= r,
           ~ Faint(Aligned(a, b)), ~ Faint(Aligned(b, a))
    PROVE  Stands(HistMerge(a, b), Held(B (+) BB), Held(C (+) CC), r)
<1> DEFINE x == Aligned(a, b)
           y == Aligned(b, a)
           h == Refined(x, y.unit)
           o == Refined(y, x.unit)
           m == Summed(h, o)
           F == Held(B)
           G == Held(C)
           FF == Held(BB)
           GG == Held(CC)
           H == Held(B (+) BB)
           K == Held(C (+) CC)
<1>1. /\ a \in HistogramType /\ Solid(a) /\ Timely(a) /\ p \in Nat /\ Stands(a, F, G, p)
      /\ b \in HistogramType /\ Solid(b) /\ Timely(b) /\ q \in Nat /\ Stands(b, FF, GG, q)
  BY DEF Sound
<1>2. F \in Weighing /\ G \in Weighing /\ FF \in Weighing /\ GG \in Weighing
  BY MassType DEF Sound
<1>3. /\ H \in Weighing /\ K \in Weighing
      /\ Together(H, F, FF) /\ Together(K, G, GG)
  <2>1. SampleBag(B) /\ SampleBag(BB) /\ SampleBag(C) /\ SampleBag(CC)
    BY DEF Sound
  <2>2. SampleBag(B (+) BB) /\ Together(H, F, FF)
    BY <2>1, HeldUnion
  <2>3. SampleBag(C (+) CC) /\ Together(K, G, GG)
    BY <2>1, HeldUnion
  <2> QED BY <2>2, <2>3, MassType
<1> HIDE DEF F, G, FF, GG, H, K
<1>4. /\ x \in HistogramType /\ y \in HistogramType /\ x.reference = y.reference
      /\ Exact(x) /\ Exact(y)
  BY <1>1, AlignedTimely, AlignedExact DEF Solid
<1>5. Stands(x, F, G, p) /\ Stands(y, FF, GG, q)
  BY <1>1, <1>2, AlignedStands
<1>6. Solid(x) /\ Solid(y)
  BY <1>4 DEF Solid
<1>7. HistMerge(a, b) = Reduced(m)
  BY DEF HistMerge, Summed, Share
<1> HIDE DEF x, y, m
<1>8. x.unit \in Nat /\ x.unit > 0 /\ y.unit \in Nat /\ y.unit > 0
  BY <1>4, ValuedType
<1>9. /\ h \in HistogramType /\ h.unit = y.unit * x.unit /\ h.reference = x.reference
      /\ Solid(h) /\ Stands(h, F, G, p)
  BY <1>1, <1>2, <1>4, <1>5, <1>6, <1>8, RefinedStands
<1>10. /\ o \in HistogramType /\ o.unit = x.unit * y.unit /\ o.reference = y.reference
       /\ Solid(o) /\ Stands(o, FF, GG, q)
  BY <1>1, <1>2, <1>4, <1>5, <1>6, <1>8, RefinedStands
<1> HIDE DEF h, o
<1>11. h.unit = o.unit /\ h.reference = o.reference
  <2>1. y.unit * x.unit = x.unit * y.unit
    BY <1>8
  <2> QED BY <1>4, <1>9, <1>10, <2>1
<1>12. Combined(Valued(m), Valued(h), Valued(o), H, F, FF, K, G, GG)
  <2>1. /\ Together(Valued(Summed(h, o)), Valued(h), Valued(o))
        /\ Valued(h) \in Weighing /\ Valued(o) \in Weighing
        /\ Valued(Summed(h, o)) \in Weighing
    BY <1>9, <1>10, <1>11, SummedValued
  <2> QED BY <1>2, <1>3, <2>1 DEF Combined, m
<1>13. m \in HistogramType /\ Stands(m, H, K, r)
  <2>1. Summed(h, o) \in HistogramType
    BY <1>9, <1>10, <1>11, SummedParts
  <2>2. Combined(Valued(Summed(h, o)), Valued(h), Valued(o), H, F, FF, K, G, GG)
    BY <1>12 DEF m
  <2>3. Stands(Summed(h, o), H, K, r)
    BY <1>1, <1>9, <1>10, <1>11, <2>2, SummedStands
  <2> QED BY <2>1, <2>3 DEF m
<1>14. Stands(Reduced(m), H, K, r)
  BY <1>3, <1>13, ReducedSame
<1> QED
  BY <1>7, <1>14 DEF H, K

-----------------------------------------------------------------------------
(* Checkpoints of solid histograms.                                        *)

\* The weight of the heaviest bucket, the rounded weights of all buckets, and the buckets
\* that SaveToCheckpoint writes.
Heaviest(h) == Max({h.weight[b] : b \in h.min .. h.max} \cup {0})
Saved(h) == [b \in Buckets |-> Rounded(h.weight[b], Heaviest(h))]
Written(h) == {b \in h.min .. h.max : Rounded(h.weight[b], Heaviest(h)) > 0}

\* No bucket is heavier than the heaviest, also outside of the bounds.
LEMMA HeaviestWeight ==
    ASSUME NEW h \in HistogramType, Solid(h)
    PROVE  /\ Heaviest(h) \in Nat
           /\ \A b \in Buckets : h.weight[b] <= Heaviest(h)
           /\ Heaviest(h) = 0 \/ \E b \in Buckets : h.weight[b] = Heaviest(h)
<1> DEFINE L == {h.weight[b] : b \in h.min .. h.max}
           Ws == L \cup {0}
           M == Heaviest(h)
<1>1. /\ \A b \in Buckets : h.weight[b] \in Nat
      /\ h.min \in Buckets /\ h.max \in Buckets
  BY ValuedType
<1>2. Last \in Nat /\ Buckets = 0 .. Last
  BY BucketsType
<1>3. h.min .. h.max \subseteq Buckets /\ h.min \in Int /\ h.max \in Int
  BY <1>1, <1>2
<1>4. IsFiniteSet(L)
  <2> DEFINE f == [b \in h.min .. h.max |-> h.weight[b]]
  <2>1. f \in Surjection(h.min .. h.max, L)
    BY DEF Surjection
  <2>2. IsFiniteSet(h.min .. h.max)
    BY <1>3, FS_Interval
  <2> HIDE DEF f, L
  <2> QED BY <2>1, <2>2, FS_Surjection
<1>5. Ws \subseteq Nat
  BY <1>1, <1>3
<1>6. M = Max(Ws)
  BY DEF Heaviest
<1> HIDE DEF M
<1>7. M \in Ws /\ \A m \in Ws : M >= m
  <2>1. IsFiniteSet(Ws)
    <3> HIDE DEF L
    <3> QED BY <1>4, FS_AddElement
  <2>2. Ws \subseteq Int /\ Ws # {}
    BY <1>5
  <2> HIDE DEF Ws
  <2> QED BY <1>6, <2>1, <2>2, MinMax
<1>8. M \in Nat
  BY <1>5, <1>7
<1>9. ASSUME NEW b \in Buckets PROVE h.weight[b] <= M
  <2>1. CASE b \in h.min .. h.max
    BY <1>7, <2>1
  <2>2. CASE b \notin h.min .. h.max
    <3>1. h.weight[b] = 0
      BY <2>2, NoneOutside
    <3> QED BY <1>8, <3>1
  <2> QED BY <2>1, <2>2
<1>10. M = 0 \/ \E b \in Buckets : h.weight[b] = M
  BY <1>3, <1>7
<1> QED
  BY <1>8, <1>9, <1>10 DEF M

\* The rounded weights.
LEMMA SavedClose ==
    ASSUME NEW h \in HistogramType, Solid(h)
    PROVE  /\ Saved(h) \in Weighing
           /\ \A b \in Buckets : Close(Saved(h)[b], h.weight[b], Heaviest(h))
           /\ \A b \in Buckets : h.weight[b] = 0 => Saved(h)[b] = 0
           /\ \A b \in Buckets : h.weight[b] = Heaviest(h) /\ h.weight[b] > 0
                 => Saved(h)[b] = MaxCheckpointWeight
<1> DEFINE M == Heaviest(h)
           R == Saved(h)
<1>1. M \in Nat /\ \A b \in Buckets : h.weight[b] <= M
  BY HeaviestWeight
<1>2. \A b \in Buckets : h.weight[b] \in Nat
  BY ValuedType
<1>3. \A b \in Buckets : R[b] = Rounded(h.weight[b], M)
  BY DEF Saved
<1>4. R = [b \in Buckets |-> R[b]]
  BY DEF Saved
<1> HIDE DEF M, R
<1>5. ASSUME NEW b \in Buckets
      PROVE  /\ R[b] \in Nat /\ Close(R[b], h.weight[b], M)
             /\ h.weight[b] = 0 => R[b] = 0
             /\ h.weight[b] = M /\ h.weight[b] > 0 => R[b] = MaxCheckpointWeight
  <2> DEFINE w == h.weight[b]
  <2>1. w \in Nat /\ w <= M /\ R[b] = Rounded(w, M)
    BY <1>1, <1>2, <1>3
  <2> HIDE DEF w
  <2>2. /\ Rounded(w, M) \in Nat /\ Close(Rounded(w, M), w, M)
        /\ w = 0 => Rounded(w, M) = 0
        /\ w = M /\ w > 0 => Rounded(w, M) = MaxCheckpointWeight
    BY <1>1, <2>1, RoundedClose
  <2> QED BY <2>1, <2>2 DEF w
<1>6. R \in Weighing
  BY <1>4, <1>5 DEF Weighing
<1> QED
  BY <1>5, <1>6 DEF M, R

\* What the checkpoint says.
LEMMA SavedParts ==
    ASSUME NEW h \in HistogramType, Solid(h)
    PROVE  LET c == HistSaveToCheckpoint(h)
           IN  /\ DOMAIN c.weights = Written(h) /\ Written(h) \subseteq Buckets
               /\ \A b \in Written(h) : c.weights[b] = Saved(h)[b] /\ Saved(h)[b] > 0
               /\ \A b \in Buckets \ Written(h) : Saved(h)[b] = 0
               /\ c.total = h.total /\ c.unit = h.unit /\ c.reference = h.reference
               /\ SumOver(c.weights, Written(h)) = Upto(Saved(h), NumBuckets)
<1> DEFINE c == HistSaveToCheckpoint(h)
           D == Written(h)
           R == Saved(h)
           S == 0 .. NumBuckets - 1
<1>1. Last \in Nat /\ Buckets = 0 .. Last /\ S = Buckets /\ NumBuckets - 1 \in Int /\ 0 \in Int
  BY BucketsType DEF Buckets
<1>2. D \subseteq Buckets
  <2>1. h.min \in Buckets /\ h.max \in Buckets
    BY ValuedType
  <2> QED BY <1>1, <2>1 DEF Written
<1>3. c = [weights |-> [b \in D |-> Rounded(h.weight[b], Heaviest(h))],
           total |-> h.total, unit |-> h.unit, reference |-> h.reference]
  BY DEF HistSaveToCheckpoint, Written, Heaviest
<1>4. \A b \in Buckets : R[b] = Rounded(h.weight[b], Heaviest(h))
  BY DEF Saved
<1>5. R \in Weighing /\ (\A b \in Buckets : R[b] \in Nat)
        /\ \A b \in Buckets : h.weight[b] = 0 => R[b] = 0
  BY SavedClose DEF Weighing
<1>6. \A b \in D : R[b] > 0
  BY <1>2, <1>4 DEF Written
<1>7. ASSUME NEW b \in Buckets \ D PROVE R[b] = 0
  <2>1. CASE b \in h.min .. h.max
    <3>1. ~ (R[b] > 0)
      BY <1>4, <2>1 DEF Written
    <3> QED BY <1>5, <3>1
  <2>2. CASE b \notin h.min .. h.max
    BY <1>5, <2>2, NoneOutside
  <2> QED BY <2>1, <2>2
<1> HIDE DEF c, D, R
<1>8. /\ DOMAIN c.weights = D /\ c.total = h.total /\ c.unit = h.unit
      /\ c.reference = h.reference
      /\ \A b \in D : c.weights[b] = Rounded(h.weight[b], Heaviest(h))
  BY <1>3
<1>9. \A b \in D : c.weights[b] = R[b]
  BY <1>2, <1>4, <1>8
<1>10. Summable(R, S)
  <2>1. IsFiniteSet(S)
    BY <1>1, FS_Interval
  <2>2. \A i \in S : R[i] \in Nat
    BY <1>1, <1>5
  <2> HIDE DEF S
  <2> QED BY <2>1, <2>2 DEF Summable
<1>11. D \in SUBSET S /\ \A i \in S \ D : R[i] = 0
  BY <1>1, <1>2, <1>7
<1> HIDE DEF S
<1>12. SumOver(R, S) = SumOver(R, D) /\ Summable(R, D)
  BY <1>10, <1>11, SumGrown, SummablePart
<1>13. SumOver(c.weights, D) = SumOver(R, D)
  <2> DEFINE e == c.weights
  <2>1. Alike(e, R, D)
    BY <1>9 DEF Alike
  <2> HIDE DEF e
  <2>2. SumOver(e, D) = SumOver(R, D)
    BY <1>12, <2>1, SumSame
  <2> QED BY <2>2 DEF e
<1>14. SumOver(c.weights, D) = Upto(R, NumBuckets)
  BY <1>12, <1>13 DEF Upto, S
<1> QED
  BY <1>2, <1>6, <1>7, <1>8, <1>9, <1>14 DEF c, D, R

\* If all rounded weights are zero, so were the weights; otherwise the heaviest bucket's
\* rounded weight is the largest there is.
LEMMA SavedSum ==
    ASSUME NEW h \in HistogramType, Solid(h)
    PROVE  LET sum == Upto(Saved(h), NumBuckets)
           IN  /\ sum \in Nat
               /\ sum = 0 => Nothing(h.weight)
               /\ sum # 0 => Heaviest(h) > 0 /\ MaxCheckpointWeight <= sum
<1> DEFINE R == Saved(h)
           M == Heaviest(h)
           sum == Upto(R, NumBuckets)
<1>1. /\ R \in Weighing
      /\ \A b \in Buckets : h.weight[b] = 0 => R[b] = 0
      /\ \A b \in Buckets : h.weight[b] = M /\ h.weight[b] > 0 => R[b] = MaxCheckpointWeight
  BY SavedClose
<1>2. /\ M \in Nat /\ \A b \in Buckets : h.weight[b] <= M
      /\ M = 0 \/ \E b \in Buckets : h.weight[b] = M
  BY HeaviestWeight
<1>3. \A b \in Buckets : h.weight[b] \in Nat
  BY ValuedType
<1>4. MaxCheckpointWeight \in Nat /\ MaxCheckpointWeight > 0
  BY OptionsAssumption
<1> HIDE DEF R, M
<1>5. sum \in Nat /\ NumBuckets \in 0 .. NumBuckets
  BY <1>1, UptoType
<1>6. ASSUME M > 0 PROVE MaxCheckpointWeight <= sum
  <2>1. PICK b \in Buckets : h.weight[b] = M
    BY <1>2, <1>6
  <2>2. R[b] = MaxCheckpointWeight
    BY <1>1, <1>6, <2>1
  <2>3. R[b] <= sum
    BY <1>1, UptoPart
  <2> QED BY <2>2, <2>3
<1>7. ASSUME M = 0 PROVE Nothing(h.weight) /\ sum = 0
  <2>1. \A b \in Buckets : h.weight[b] = 0
    BY <1>2, <1>3, <1>7
  <2>2. Nothing(R)
    BY <1>1, <2>1 DEF Nothing
  <2>3. sum = 0
    BY <1>1, <1>5, <2>2, NothingSums
  <2> QED BY <2>1, <2>3 DEF Nothing
<1> HIDE DEF sum
<1>8. (sum = 0 => Nothing(h.weight)) /\ (sum # 0 => M > 0 /\ MaxCheckpointWeight <= sum)
  BY <1>2, <1>4, <1>5, <1>6, <1>7
<1> QED
  BY <1>5, <1>8 DEF sum, R, M

\* A histogram without weight stands for nothing.
LEMMA NothingStands ==
    ASSUME NEW h \in HistogramType, Nothing(h.weight),
           NEW F \in Weighing, NEW G \in Weighing, NEW r \in Nat, Stands(h, F, G, r)
    PROVE  Nothing(F) /\ Nothing(G)
<1> DEFINE V == Valued(h)
           u == h.unit
           N == NumBuckets
           f == Upto(F, N)
           g == Upto(G, N)
<1>1. /\ V \in Weighing /\ u \in Nat /\ u > 0 /\ Now(h) \in Nat
      /\ \A b \in Buckets : V[b] = h.weight[b] * Now(h)
  BY ValuedType
<1>2. N \in 0 .. N
  BY BucketsType
<1>3. Upto(V, N) = u * (f + g)
  BY DEF Stands, Represents
<1>4. f \in Nat /\ g \in Nat
  BY <1>2, UptoType
<1> HIDE DEF V, u, N
<1>5. Nothing(V)
  <2>1. ASSUME NEW b \in Buckets PROVE V[b] = 0
    <3>1. V[b] = 0 * Now(h)
      BY <1>1 DEF Nothing
    <3>2. 0 * Now(h) = 0
      BY <1>1
    <3> QED BY <3>1, <3>2
  <2> QED BY <2>1 DEF Nothing
<1>6. Upto(V, N) = 0
  BY <1>1, <1>2, <1>5, NothingSums DEF N
<1> HIDE DEF f, g
<1>7. f + g = 0
  <2> DEFINE k == f + g
  <2>1. k \in Nat /\ u * k = 0
    BY <1>3, <1>4, <1>6
  <2> HIDE DEF k
  <2>2. u * k = u * 0 <=> k = 0
    BY <1>1, <2>1, MultiplesEqual
  <2>3. u * 0 = 0
    BY <1>1
  <2>4. k = 0
    BY <2>1, <2>2, <2>3
  <2> QED BY <2>4 DEF k
<1>8. f = 0 /\ g = 0
  BY <1>4, <1>7
<1> QED
  BY <1>8, NothingSums DEF f, g, N

\* What LoadFromCheckpoint makes of the rounded weights, before the unit is reduced.
Loaded(h) ==
    LET B == Written(h)
        c == HistSaveToCheckpoint(h)
        sum == Upto(Saved(h), NumBuckets)
    IN  [weight |-> [b \in Buckets |-> IF b \in B THEN c.weights[b] * c.total ELSE 0],
         total |-> c.total * sum, unit |-> c.unit * sum,
         min |-> Min(B \cup {Last}), max |-> Max(B \cup {0}),
         reference |-> c.reference]

\* What a restart makes of a histogram: a new one if no weight was saved.
LEMMA LoadCases ==
    ASSUME NEW h \in HistogramType, Solid(h)
    PROVE  HistLoadFromCheckpoint(HistSaveToCheckpoint(h))
             = IF Upto(Saved(h), NumBuckets) = 0
               THEN [NewHistogram EXCEPT !.reference = h.reference]
               ELSE Reduced(Loaded(h))
<1> DEFINE c == HistSaveToCheckpoint(h)
<1>1. /\ DOMAIN c.weights = Written(h) /\ c.reference = h.reference
      /\ SumOver(c.weights, Written(h)) = Upto(Saved(h), NumBuckets)
  BY SavedParts
<1>2. Loaded(h) = [weight |-> [b \in Buckets |-> IF b \in Written(h) THEN c.weights[b] * c.total ELSE 0],
         total |-> c.total * Upto(Saved(h), NumBuckets), unit |-> c.unit * Upto(Saved(h), NumBuckets),
         min |-> Min(Written(h) \cup {Last}), max |-> Max(Written(h) \cup {0}),
         reference |-> c.reference]
  BY DEF Loaded
<1> HIDE DEF c
<1>3. HistLoadFromCheckpoint(c)
        = IF SumOver(c.weights, DOMAIN c.weights) = 0
          THEN [NewHistogram EXCEPT !.reference = c.reference]
          ELSE Reduced([weight |-> [b \in Buckets |-> IF b \in DOMAIN c.weights THEN c.weights[b] * c.total ELSE 0],
                        total |-> c.total * SumOver(c.weights, DOMAIN c.weights),
                        unit |-> c.unit * SumOver(c.weights, DOMAIN c.weights),
                        min |-> Min(DOMAIN c.weights \cup {Last}), max |-> Max(DOMAIN c.weights \cup {0}),
                        reference |-> c.reference])
  BY DEF HistLoadFromCheckpoint
<1>4. HistLoadFromCheckpoint(c)
        = IF Upto(Saved(h), NumBuckets) = 0
          THEN [NewHistogram EXCEPT !.reference = h.reference] ELSE Reduced(Loaded(h))
  BY <1>1, <1>2, <1>3
<1> QED
  BY <1>4 DEF c

\* What is restored into a histogram.
LEMMA LoadedParts ==
    ASSUME NEW h \in HistogramType, Solid(h), Upto(Saved(h), NumBuckets) # 0,
           h.total > 0
    PROVE  LET g == Loaded(h)
           IN  /\ g \in HistogramType /\ g.reference = h.reference
               /\ Multiple(g.weight, h.total, Saved(h))
               /\ g.total = h.total * Upto(Saved(h), NumBuckets)
               /\ g.unit = h.unit * Upto(Saved(h), NumBuckets)
               /\ ~ Faint(g) => Exact(g)
<1> DEFINE g == Loaded(h)
           c == HistSaveToCheckpoint(h)
           B == Written(h)
           R == Saved(h)
           S == Upto(Saved(h), NumBuckets)
           lo == Min(B \cup {Last})
           hi == Max(B \cup {0})
           W == [b \in Buckets |-> IF b \in B THEN c.weights[b] * c.total ELSE 0]
           T == h.total
<1>1. /\ B \subseteq Buckets
      /\ \A b \in B : c.weights[b] = R[b] /\ R[b] > 0
      /\ \A b \in Buckets \ B : R[b] = 0
      /\ c.total = T /\ c.unit = h.unit /\ c.reference = h.reference
  BY SavedParts
<1>2. T \in Nat /\ T > 0 /\ h.unit \in Nat /\ h.unit > 0 /\ h.reference \in Int
  BY ValuedType
<1>3. S \in Nat /\ S > 0
  <2>1. S \in Nat
    BY SavedSum
  <2>2. S # 0
    OBVIOUS
  <2> HIDE DEF S
  <2> QED BY <2>1, <2>2
<1>4. \A b \in Buckets : R[b] \in Nat
  BY SavedClose DEF Weighing
<1>5. g = [weight |-> W, total |-> c.total * S, unit |-> c.unit * S,
           min |-> lo, max |-> hi, reference |-> c.reference]
  BY DEF Loaded
<1>6. Last \in Nat /\ Last \in Int /\ 0 \in Int /\ Buckets = 0 .. Last
  BY BucketsType
<1> HIDE DEF c, B, R, S, T, g
<1>7. /\ lo \in B \cup {Last} /\ \A m \in B \cup {Last} : lo <= m
      /\ hi \in B \cup {0} /\ \A m \in B \cup {0} : hi >= m
      /\ lo \in Buckets /\ hi \in Buckets
  <2>1. B \cup {Last} \subseteq 0 .. Last /\ B \cup {0} \subseteq 0 .. Last
    BY <1>1, <1>6
  <2>2. lo \in B \cup {Last} /\ \A m \in B \cup {Last} : lo <= m
    BY <1>6, <2>1, MinMaxInterval
  <2>3. hi \in B \cup {0} /\ \A m \in B \cup {0} : hi >= m
    BY <1>6, <2>1, MinMaxInterval
  <2> HIDE DEF lo, hi
  <2> QED BY <1>6, <2>1, <2>2, <2>3
<1> HIDE DEF lo, hi
<1>8. \A b \in Buckets : W[b] = T * R[b] /\ W[b] \in Nat /\ (W[b] > 0 => b \in B)
  <2>1. SUFFICES ASSUME NEW b \in Buckets
                 PROVE  W[b] = T * R[b] /\ W[b] \in Nat /\ (W[b] > 0 => b \in B)
    OBVIOUS
  <2> DEFINE q == R[b]
  <2>2. q \in Nat
    BY <1>4
  <2>3. CASE b \in B
    <3>1. W[b] = q * T
      BY <1>1, <2>3
    <3> HIDE DEF q, W
    <3>2. q * T = T * q /\ q * T \in Nat
      BY <1>2, <2>2
    <3>3. W[b] = T * q /\ W[b] \in Nat
      BY <3>1, <3>2
    <3> QED BY <2>3, <3>3 DEF q
  <2>4. CASE b \notin B
    <3>1. W[b] = 0 /\ q = 0
      BY <1>1, <2>4
    <3>2. T * 0 = 0
      BY <1>2
    <3> QED BY <3>1, <3>2
  <2> QED BY <2>3, <2>4
<1>9. W \in [Buckets -> Nat]
  BY <1>8
<1> HIDE DEF W
<1>10. c.total * S \in Nat /\ c.unit * S \in Nat \ {0}
  <2>1. T * S \in Nat
    BY <1>2, <1>3
  <2>2. h.unit * S \in Nat /\ h.unit * S > 0
    BY <1>2, <1>3
  <2> QED BY <1>1, <2>1, <2>2
<1>11. /\ g \in HistogramType /\ g.reference = h.reference /\ g.weight = W
       /\ g.total = T * S /\ g.unit = h.unit * S /\ g.min = lo /\ g.max = hi
  BY <1>1, <1>2, <1>5, <1>7, <1>9, <1>10 DEF HistogramType
<1>12. Multiple(g.weight, T, R)
  BY <1>8, <1>11 DEF Multiple
<1>13. ASSUME ~ Faint(g) PROVE Exact(g)
  <2>1. \A b \in Buckets : W[b] > 0 => NonEmpty(g, b)
    BY <1>11, <1>13 DEF Faint
  <2>2. ASSUME NEW b \in Buckets, NonEmpty(g, b) PROVE b \in B
    <3>1. Epsilon * g.unit \in Nat /\ Epsilon * g.unit > 0
      <4> DEFINE u == g.unit
      <4>1. u \in Nat /\ u > 0 /\ Epsilon \in Nat /\ Epsilon > 0
        BY <1>11, ValuedType, OptionsAssumption
      <4> HIDE DEF u
      <4>2. Epsilon * u \in Nat /\ Epsilon * u > 0
        BY <4>1
      <4> QED BY <4>2 DEF u
    <3>2. W[b] >= Epsilon * g.unit
      BY <1>11, <2>2 DEF NonEmpty
    <3>3. W[b] > 0
      BY <1>8, <3>1, <3>2
    <3> QED BY <1>8, <3>3
  <2>3. Within(g)
    BY <1>7, <1>11, <2>2 DEF Within
  <2>4. \A b \in B : W[b] > 0
    <3>1. SUFFICES ASSUME NEW b \in B PROVE W[b] > 0
      OBVIOUS
    <3> DEFINE q == R[b]
    <3>2. q \in Nat /\ q > 0 /\ W[b] = T * q
      BY <1>1, <1>4, <1>8
    <3> HIDE DEF q
    <3>3. T * q > 0
      BY <1>2, <3>2
    <3> QED BY <3>2, <3>3
  <2>5. \A b \in B : NonEmpty(g, b)
    BY <1>1, <2>1, <2>4
  <2>6. NonEmpty(g, g.min) \/ g.min = Last
    BY <1>7, <1>11, <2>5
  <2>7. NonEmpty(g, g.max) \/ g.max = 0
    BY <1>7, <1>11, <2>5
  <2> QED BY <2>3, <2>6, <2>7 DEF Exact
<1> QED
  BY <1>11, <1>12, <1>13 DEF g, R, S, T

\* A restored histogram without weight.
LEMMA RestoredNothing ==
    ASSUME NEW h, NEW B, NEW C, NEW r, Sound(h, B, C, r),
           NEW E, SampleBag(E), Nothing(Held(E)),
           Upto(Saved(h), NumBuckets) = 0
    PROVE  Sound([NewHistogram EXCEPT !.reference = h.reference], E, B (+) C, r + 1)
<1> DEFINE g == [NewHistogram EXCEPT !.reference = h.reference]
           F == Held(B)
           G == Held(C)
           K == Held(B (+) C)
           D == Held(E)
<1>1. /\ h \in HistogramType /\ Solid(h) /\ Timely(h) /\ r \in Nat /\ Stands(h, F, G, r)
      /\ SampleBag(B) /\ SampleBag(C)
  BY DEF Sound
<1>2. F \in Weighing /\ G \in Weighing /\ K \in Weighing /\ D \in Weighing /\ Together(K, F, G)
        /\ SampleBag(B (+) C)
  <2>1. SampleBag(B (+) C) /\ Together(K, F, G)
    BY <1>1, HeldUnion
  <2> QED BY <1>1, <2>1, MassType
<1>3. Nothing(D)
  OBVIOUS
<1> HIDE DEF F, G, K, D
<1>4. Nothing(h.weight)
  BY <1>1, SavedSum
<1>5. Nothing(F) /\ Nothing(G)
  BY <1>1, <1>2, <1>4, NothingStands
<1>6. Nothing(K)
  BY <1>2, <1>5, NothingTogether
<1>7. /\ NewHistogram \in HistogramType /\ Exact(NewHistogram)
      /\ h.reference \in Int
  BY <1>1, NewHistogramType, ValuedType
<1>8. /\ g \in HistogramType /\ g.reference = h.reference
      /\ g.weight = NewHistogram.weight /\ g.unit = NewHistogram.unit
      /\ g.total = NewHistogram.total
      /\ g.min = NewHistogram.min /\ g.max = NewHistogram.max
  BY <1>7 DEF HistogramType
<1> HIDE DEF g
<1>9. /\ Nothing(g.weight) /\ g.total = 0
  BY <1>8 DEF NewHistogram, Nothing
<1>10. /\ g.weight \in Weighing /\ g.unit \in Nat /\ Valued(g) \in Weighing
       /\ g.min \in Buckets /\ g.max \in Buckets
  BY <1>8, ValuedType
<1>11. Exact(g)
  <2>1. \A b \in Buckets : NonEmpty(g, b) <=> NonEmpty(NewHistogram, b)
    BY <1>8 DEF NonEmpty
  <2>2. NewHistogram.min \in Buckets /\ NewHistogram.max \in Buckets
    BY <1>8, <1>10
  <2> QED BY <1>7, <1>8, <2>1, <2>2, ExactSame
<1>12. ~ Faint(g)
  <2>1. \A b \in Buckets : ~ (g.weight[b] > 0)
    BY <1>9 DEF Nothing
  <2> QED BY <2>1 DEF Faint
<1>13. Upto(g.weight, NumBuckets) = g.total
  <2>1. NumBuckets \in 0 .. NumBuckets
    BY BucketsType
  <2> QED BY <1>9, <1>10, <2>1, NothingSums
<1>14. Nothing(Valued(g))
  <2>1. ASSUME NEW b \in Buckets PROVE Valued(g)[b] = 0
    <3>1. Valued(g)[b] = g.weight[b] * Now(g) /\ Now(g) \in Nat
      BY <1>8, ValuedType
    <3>2. g.weight[b] = 0
      BY <1>9 DEF Nothing
    <3>3. 0 * Now(g) = 0
      BY <3>1
    <3> QED BY <3>1, <3>2, <3>3
  <2> QED BY <2>1 DEF Nothing
<1>15. Represents(Valued(g), g.unit, D, K, r + 1)
  <2>1. r + 1 \in Nat
    BY <1>1
  <2> QED BY <1>2, <1>3, <1>6, <1>10, <1>14, <2>1, RepresentsNothing
<1>16. Stands(g, D, K, r + 1)
  BY <1>3, <1>6, <1>13, <1>15 DEF Stands
<1>17. Timely(g)
  BY <1>1, <1>8 DEF Timely
<1> QED
  BY <1>1, <1>2, <1>8, <1>11, <1>12, <1>16, <1>17 DEF Sound, Solid, g, D, K

\* The weights at time zero of what is restored.
LEMMA LoadedRestored ==
    ASSUME NEW h \in HistogramType, Solid(h), Upto(h.weight, NumBuckets) = h.total,
           Upto(Saved(h), NumBuckets) # 0
    PROVE  /\ h.total > 0
           /\ Restored(h.weight, Saved(h), Valued(h), Valued(Loaded(h)), Now(h),
                       h.total, Upto(Saved(h), NumBuckets), Heaviest(h))
<1> DEFINE g == Loaded(h)
           R == Saved(h)
           S == Upto(R, NumBuckets)
           T == h.total
           P == Now(h)
           M == Heaviest(h)
<1>1. /\ h.weight \in Weighing /\ T \in Nat /\ P \in Nat /\ Valued(h) \in Weighing
      /\ \A b \in Buckets : h.weight[b] \in Nat
      /\ \A b \in Buckets : Valued(h)[b] = h.weight[b] * P
  BY ValuedType
<1>2. M \in Nat /\ M > 0 /\ MaxCheckpointWeight <= S /\ S \in Nat
  <2>1. S # 0
    OBVIOUS
  <2> QED BY <2>1, HeaviestWeight, SavedSum
<1>3. R \in Weighing /\ \A b \in Buckets : Close(R[b], h.weight[b], M)
  BY SavedClose
<1>4. T > 0
  <2>1. PICK b \in Buckets : h.weight[b] = M
    BY <1>2, HeaviestWeight
  <2>2. h.weight[b] <= Upto(h.weight, NumBuckets)
    BY <1>1, UptoPart
  <2>3. Upto(h.weight, NumBuckets) = T
    OBVIOUS
  <2> HIDE DEF T, M
  <2> QED BY <1>1, <1>2, <2>1, <2>2, <2>3
<1>5. g \in HistogramType /\ g.reference = h.reference /\ Multiple(g.weight, T, R)
  BY <1>4, LoadedParts
<1> HIDE DEF g, R, S, T, P, M
<1>6. Now(g) = P
  BY <1>5 DEF Now, P
<1>7. /\ Valued(g) \in Weighing
      /\ \A b \in Buckets : Valued(g)[b] = g.weight[b] * P
  BY <1>5, <1>6, ValuedType
<1>8. Multiple(Valued(h), P, h.weight)
  <2>1. ASSUME NEW b \in Buckets PROVE Valued(h)[b] = P * h.weight[b]
    <3> DEFINE w == h.weight[b]
    <3>1. w \in Nat /\ Valued(h)[b] = w * P
      BY <1>1
    <3> HIDE DEF w
    <3>2. w * P = P * w
      BY <1>1, <3>1
    <3> QED BY <3>1, <3>2 DEF w
  <2> QED BY <2>1 DEF Multiple
<1>9. Multiple(Valued(g), T * P, R)
  <2>1. ASSUME NEW b \in Buckets PROVE Valued(g)[b] = (T * P) * R[b]
    <3> DEFINE q == R[b]
    <3>1. q \in Nat /\ Valued(g)[b] = (T * q) * P
      BY <1>3, <1>5, <1>7 DEF Multiple, Weighing
    <3> HIDE DEF q
    <3>2. (T * q) * P = (T * P) * q
      BY <1>1, <3>1
    <3> QED BY <3>1, <3>2 DEF q
  <2> QED BY <2>1 DEF Multiple
<1>10. T = Upto(h.weight, NumBuckets)
  BY DEF T
<1>11. S = Upto(R, NumBuckets)
  BY DEF S
<1>12. Restored(h.weight, R, Valued(h), Valued(g), P, T, S, M)
  BY <1>1, <1>2, <1>3, <1>7, <1>8, <1>9, <1>10, <1>11 DEF Restored
<1> QED
  BY <1>4, <1>12 DEF g, R, S, T, P, M

\* A checkpoint and a restart: the restored histogram stands for the same samples,
\* rounded once more.
LEMMA CheckpointSound ==
    ASSUME NEW h, NEW B, NEW C, NEW r, Sound(h, B, C, r),
           NEW E, SampleBag(E), Nothing(Held(E)),
           NEW g, g = HistLoadFromCheckpoint(HistSaveToCheckpoint(h)), ~ Faint(g)
    PROVE  Sound(g, E, B (+) C, r + 1)
<1> DEFINE F == Held(B)
           G == Held(C)
           K == Held(B (+) C)
           D == Held(E)
           f == Loaded(h)
           S == Upto(Saved(h), NumBuckets)
<1>1. /\ h \in HistogramType /\ Solid(h) /\ Timely(h) /\ r \in Nat /\ Stands(h, F, G, r)
      /\ SampleBag(B) /\ SampleBag(C)
  BY DEF Sound
<1>2. F \in Weighing /\ G \in Weighing /\ K \in Weighing /\ D \in Weighing /\ Together(K, F, G)
        /\ SampleBag(B (+) C)
  <2>1. SampleBag(B (+) C) /\ Together(K, F, G)
    BY <1>1, HeldUnion
  <2> QED BY <1>1, <2>1, MassType
<1>3. Nothing(D)
  OBVIOUS
<1>4. g = IF S = 0 THEN [NewHistogram EXCEPT !.reference = h.reference] ELSE Reduced(f)
  BY <1>1, LoadCases
<1>5. CASE S = 0
  BY <1>4, <1>5, RestoredNothing
<1>6. CASE S # 0
  <2> HIDE DEF F, G, K, D, f
  <2>1. Upto(h.weight, NumBuckets) = h.total /\ Represents(Valued(h), h.unit, F, G, r)
          /\ (h.reference < 0 => Nothing(F) /\ Nothing(G))
    BY <1>1 DEF Stands
  <2>2. /\ h.total > 0
        /\ Restored(h.weight, Saved(h), Valued(h), Valued(f), Now(h), h.total, S, Heaviest(h))
    BY <1>1, <1>6, <2>1, LoadedRestored DEF f
  <2>3. /\ f \in HistogramType /\ f.reference = h.reference
        /\ Multiple(f.weight, h.total, Saved(h))
        /\ f.total = h.total * S /\ f.unit = h.unit * S
        /\ ~ Faint(f) => Exact(f)
    BY <1>1, <1>6, <2>2, LoadedParts DEF f
  <2>4. Represents(Valued(f), h.unit * S, D, K, r + 1)
    <3> DEFINE u == h.unit
    <3>1. u \in Nat
      BY <1>1, ValuedType
    <3>2. Represents(Valued(h), u, F, G, r)
      BY <2>1
    <3> HIDE DEF u, S
    <3>3. Represents(Valued(f), u * S, D, K, r + 1)
      BY <1>1, <1>2, <1>3, <2>2, <3>1, <3>2, RepresentsRounded DEF D
    <3> QED BY <3>3 DEF u
  <2>5. Upto(f.weight, NumBuckets) = f.total
    <3>1. f.weight \in Weighing /\ Saved(h) \in Weighing /\ h.total \in Nat
      BY <1>1, <2>3, ValuedType, SavedClose
    <3>2. NumBuckets \in 0 .. NumBuckets
      BY BucketsType
    <3> QED BY <2>3, <3>1, <3>2, UptoTimes
  <2>6. Nothing(K) \/ ~ (f.reference < 0)
    <3>1. f.reference < 0 => Nothing(F) /\ Nothing(G)
      BY <2>1, <2>3
    <3> QED BY <1>2, <3>1, NothingTogether
  <2>7. Nothing(D)
    BY <1>3 DEF D
  <2>8. Stands(f, D, K, r + 1)
    BY <2>3, <2>4, <2>5, <2>6, <2>7 DEF Stands
  <2>9. g = Reduced(f)
    BY <1>4, <1>6
  <2>10. Timely(f)
    BY <1>1, <2>3 DEF Timely
  <2>11. r + 1 \in Nat
    BY <1>1
  <2>12. /\ g \in HistogramType /\ Timely(g) /\ ~ Faint(f)
         /\ Stands(g, D, K, r + 1)
    BY <1>2, <2>3, <2>8, <2>9, <2>10, <2>11, ReducedSame
  <2>13. Exact(g)
    BY <2>3, <2>9, <2>12, ReducedExact
  <2> QED BY <1>2, <2>11, <2>12, <2>13 DEF Sound, Solid, D, K
<1> QED
  BY <1>5, <1>6

-----------------------------------------------------------------------------
(* The reference times of all histograms, lossy or not.                    *)

\* AddSample leaves the reference time of a sample.
LEMMA AddTimely ==
    ASSUME NEW h \in HistogramType, Timely(h), NEW s \in SampleType
    PROVE  Timely(HistAddSample(h, s[1], s[2], s[3]))
<1> DEFINE n == Renormalized(h, s[3])
           g == Prepared(n, s[3])
           d == Decayed(g, s[2], s[3])
           i == FindBucket(s[1])
           a == Added(g, i, d)
<1>1. s[3] \in Nat
  BY LoadOfSample
<1>2. n \in HistogramType /\ n.reference \in Nat
  BY <1>1, RenormalizedTimely
<1>3. HistAddSample(h, s[1], s[2], s[3]) = Reduced(a)
  BY DEF HistAddSample
<1> HIDE DEF n
<1>4. g \in HistogramType /\ g.reference \in Nat /\ i \in Buckets /\ d \in Nat
  BY <1>2, SampleWeighs
<1> HIDE DEF g, d, i
<1>5. a \in HistogramType /\ a.reference = g.reference
  BY <1>4, AddedMoves DEF Moves
<1> HIDE DEF a
<1> QED
  BY <1>3, <1>4, <1>5, ReducedSame DEF Timely

\* So does SubtractSample.
LEMMA SubtractTimely ==
    ASSUME NEW h \in HistogramType, Timely(h), NEW s \in SampleType
    PROVE  Timely(HistSubtractSample(h, s[1], s[2], s[3]))
<1> DEFINE n == Renormalized(h, s[3])
           g == Prepared(n, s[3])
           d == Decayed(g, s[2], s[3])
           i == FindBucket(s[1])
           t == Taken(g, i, d)
           m == WithBounds(t)
           T == SafeSubtract(g, g.total, d)
           W == [g.weight EXCEPT ![i] = SafeSubtract(g, g.weight[i], d)]
<1>1. s[3] \in Nat
  BY LoadOfSample
<1>2. n \in HistogramType /\ n.reference \in Nat
  BY <1>1, RenormalizedTimely
<1>3. HistSubtractSample(h, s[1], s[2], s[3]) = Reduced(m)
  BY DEF HistSubtractSample, Taken
<1> HIDE DEF n
<1>4. g \in HistogramType /\ g.reference \in Nat /\ i \in Buckets /\ d \in Nat
  BY <1>2, SampleWeighs
<1> HIDE DEF g, d, i
<1>5. t = [g EXCEPT !.total = T, !.weight = W]
  BY DEF Taken
<1>6. T \in Nat /\ W \in [Buckets -> Nat]
  <2>1. /\ g.weight \in [Buckets -> Nat] /\ g.total \in Nat /\ g.weight[i] \in Nat
    BY <1>4 DEF HistogramType
  <2>2. SafeSubtract(g, g.total, d) \in Nat /\ SafeSubtract(g, g.weight[i], d) \in Nat
    BY <1>4, <2>1, SafeSubtractType
  <2> QED BY <2>1, <2>2
<1> HIDE DEF t, T, W
<1>7. t \in HistogramType /\ t.reference = g.reference
  BY <1>4, <1>5, <1>6 DEF HistogramType
<1>8. m \in HistogramType /\ m.reference = t.reference
  BY <1>7, WithBoundsExact
<1> HIDE DEF m
<1> QED
  BY <1>3, <1>4, <1>7, <1>8, ReducedSame DEF Timely

\* Merge leaves the younger one.
LEMMA MergeTimely ==
    ASSUME NEW a \in HistogramType, Timely(a), NEW b \in HistogramType, Timely(b)
    PROVE  Timely(HistMerge(a, b)) /\ Timely(Reduced(Aligned(a, b)))
<1> DEFINE x == Aligned(a, b)
           y == Aligned(b, a)
           h == Refined(x, y.unit)
           o == Refined(y, x.unit)
           m == Summed(h, o)
<1>1. /\ x \in HistogramType /\ Timely(x)
      /\ y \in HistogramType /\ Timely(y)
  BY AlignedTimely
<1>2. HistMerge(a, b) = Reduced(m)
  BY DEF HistMerge, Summed, Share
<1> HIDE DEF x, y
<1>3. x.unit \in Nat /\ x.unit > 0 /\ y.unit \in Nat /\ y.unit > 0
  BY <1>1, ValuedType
<1>4. /\ h \in HistogramType /\ h.reference = x.reference /\ h.unit = y.unit * x.unit
      /\ o \in HistogramType /\ o.unit = x.unit * y.unit
  BY <1>1, <1>3, RefinedFiner DEF Finer
<1>5. h.unit = o.unit
  BY <1>3, <1>4
<1> HIDE DEF h, o
<1>6. m \in HistogramType
  BY <1>4, <1>5, SumExact
<1>7. m.reference = h.reference
  BY <1>4 DEF Summed, HistogramType
<1> HIDE DEF m
<1>8. Timely(m)
  BY <1>1, <1>4, <1>7 DEF Timely
<1> QED
  BY <1>1, <1>2, <1>6, <1>8, ReducedSame DEF x

\* A restored histogram has that of the checkpoint.
LEMMA LoadTimely ==
    ASSUME NEW h \in HistogramType, Timely(h)
    PROVE  Timely(HistLoadFromCheckpoint(HistSaveToCheckpoint(h)))
<1> DEFINE c == HistSaveToCheckpoint(h)
           B == DOMAIN c.weights
           sum == SumOver(c.weights, B)
           f == [weight |-> [b \in Buckets |-> IF b \in B THEN c.weights[b] * c.total ELSE 0],
                 total |-> c.total * sum, unit |-> c.unit * sum,
                 min |-> Min(B \cup {Last}), max |-> Max(B \cup {0}),
                 reference |-> c.reference]
<1>1. c.reference = h.reference
  BY DEF HistSaveToCheckpoint
<1>2. HistLoadFromCheckpoint(c)
        = IF sum = 0 THEN [NewHistogram EXCEPT !.reference = c.reference] ELSE Reduced(f)
  BY DEF HistLoadFromCheckpoint
<1>3. [NewHistogram EXCEPT !.reference = c.reference].reference = c.reference
  BY DEF NewHistogram
<1>4. Reduced(f).reference = c.reference
  BY DEF Reduced
<1> HIDE DEF c, f, sum
<1>5. HistLoadFromCheckpoint(c).reference = h.reference
  BY <1>1, <1>2, <1>3, <1>4
<1> QED
  BY <1>5 DEF Timely, c

-----------------------------------------------------------------------------
(* What every histogram stands for.                                        *)

\* The inductive invariant: beside HistogramInv, a histogram that is not lossy is solid
\* and stands for its samples.
SamplesInv ==
    /\ HistogramInv
    /\ DOMAIN kept = Histograms
    /\ \A x \in Histograms : SampleBag(samples[x]) /\ SampleBag(kept[x]) /\ Timely(hist[x])
    /\ \A x \in Histograms \ lossy : Sound(hist[x], samples[x], kept[x], rounds[x])

\* Initially there are no samples.
LEMMA SamplesInitial == Init => SamplesInv
<1> SUFFICES ASSUME Init PROVE SamplesInv
  OBVIOUS
<1>1. HistogramInv
  BY HistogramInitial
<1>2. /\ \A x \in Histograms : /\ hist[x] = NewHistogram /\ samples[x] = EmptyBag
                               /\ kept[x] = EmptyBag /\ rounds[x] = 0
      /\ DOMAIN kept = Histograms
  BY DEF Init
<1> DEFINE h == NewHistogram
           E == Held(EmptyBag)
<1>3. h \in HistogramType /\ Exact(h)
  BY NewHistogramType
<1>4. Timely(h)
  BY DEF Timely, NewHistogram
<1>5. Nothing(h.weight) /\ h.total = 0
  BY DEF NewHistogram, Nothing
<1>6. SampleBag(EmptyBag) /\ Nothing(E)
  BY HeldNone
<1>7. E \in Weighing
  BY <1>6, MassType
<1> HIDE DEF h, E
<1>8. ~ Faint(h)
  <2>1. \A b \in Buckets : ~ (h.weight[b] > 0)
    BY <1>5 DEF Nothing
  <2> QED BY <2>1 DEF Faint
<1>9. /\ h.weight \in Weighing /\ h.unit \in Nat /\ Valued(h) \in Weighing
      /\ Now(h) \in Nat /\ \A b \in Buckets : Valued(h)[b] = h.weight[b] * Now(h)
  BY <1>3, ValuedType
<1>10. Nothing(Valued(h))
  <2>1. 0 * Now(h) = 0
    BY <1>9
  <2> QED BY <1>5, <1>9, <2>1 DEF Nothing
<1>11. Upto(h.weight, NumBuckets) = h.total
  <2>1. NumBuckets \in 0 .. NumBuckets
    BY BucketsType
  <2> QED BY <1>5, <1>9, <2>1, NothingSums
<1>12. 0 \in Nat
  OBVIOUS
<1>13. Represents(Valued(h), h.unit, E, E, 0)
  BY <1>6, <1>7, <1>9, <1>10, <1>12, RepresentsNothing
<1>14. Stands(h, E, E, 0)
  BY <1>6, <1>11, <1>13 DEF Stands
<1>15. Sound(h, EmptyBag, EmptyBag, 0)
  BY <1>3, <1>4, <1>6, <1>8, <1>12, <1>14 DEF Sound, Solid, E
<1> QED
  BY <1>1, <1>2, <1>4, <1>6, <1>15 DEF SamplesInv, h

\* AddSample.
LEMMA AddSampleStands ==
    ASSUME SamplesInv, NEW x \in Histograms, NEW v \in Values, NEW w \in Weights,
           NEW t \in 0 .. MaxTime, AddSample(x, v, w, t), HistogramInv'
    PROVE  SamplesInv'
<1> DEFINE s == <<v, w, t>>
           g == HistAddSample(hist[x], v, w, t)
           B == samples[x] (+) SetToBag({s})
<1>1. s \in SampleType /\ s[1] = v /\ s[2] = w /\ s[3] = t
  BY DEF SampleType
<1>2. /\ hist' = [hist EXCEPT ![x] = g] /\ samples' = [samples EXCEPT ![x] = B]
      /\ kept' = kept /\ rounds' = rounds
      /\ lossy' = IF Faint(hist'[x]) \/ Faint(Renormalized(hist[x], t))
                  THEN lossy \cup {x} ELSE lossy
  BY DEF AddSample
<1>3. /\ hist'[x] = g /\ samples'[x] = B
      /\ \A y \in Histograms : y # x => hist'[y] = hist[y] /\ samples'[y] = samples[y]
  <2> HIDE DEF g, B
  <2> QED BY <1>2 DEF SamplesInv, HistogramInv
<1>4. SampleBag(B)
  <2>1. SampleBag(samples[x]) /\ SampleBag(SetToBag({s}))
    BY <1>1, HeldOne DEF SamplesInv
  <2> QED BY <2>1, HeldUnion
<1>5. hist[x] \in HistogramType /\ Timely(hist[x])
  BY DEF SamplesInv, HistogramInv
<1>6. g = HistAddSample(hist[x], s[1], s[2], s[3])
  BY <1>1
<1> HIDE DEF g, B
<1>7. Timely(g)
  <2> HIDE DEF s
  <2> QED BY <1>1, <1>5, <1>6, AddTimely
<1>8. ASSUME x \notin lossy' PROVE Sound(g, B, kept[x], rounds[x])
  <2>1. x \notin lossy /\ ~ Faint(g)
    BY <1>2, <1>3, <1>8
  <2>2. Sound(hist[x], samples[x], kept[x], rounds[x])
    BY <2>1 DEF SamplesInv
  <2> DEFINE h == hist[x]
             A == samples[x]
             G == Held(kept[x])
             r == rounds[x]
  <2>3. /\ h \in HistogramType /\ Solid(h) /\ Timely(h) /\ SampleBag(A) /\ SampleBag(kept[x])
        /\ r \in Nat /\ Stands(h, Held(A), G, r) /\ G \in Weighing
    BY <2>2, MassType DEF Sound
  <2> HIDE DEF h, A, G, r, s
  <2>4. Stands(HistAddSample(h, s[1], s[2], s[3]), Held(A (+) SetToBag({s})), G, r)
    BY <1>1, <2>3, HistAddSampleStands
  <2>5. Stands(g, Held(B), G, r)
    BY <1>6, <2>4 DEF B, h, A
  <2>6. v \in Nat /\ w \in Nat /\ t \in Int
    BY <1>1, LoadOfSample
  <2>7. g \in HistogramType /\ Exact(g)
    BY <2>3, <2>6, HistAddSampleExact DEF g, h, Solid
  <2> QED BY <1>4, <1>7, <2>1, <2>3, <2>5, <2>7 DEF Sound, Solid, G, r
<1>9. \A y \in Histograms : SampleBag(samples'[y]) /\ SampleBag(kept'[y]) /\ Timely(hist'[y])
  BY <1>2, <1>3, <1>4, <1>7 DEF SamplesInv
<1>10. \A y \in Histograms \ lossy' : Sound(hist'[y], samples'[y], kept'[y], rounds'[y])
  <2>1. lossy \subseteq lossy'
    BY <1>2
  <2> QED BY <1>2, <1>3, <1>8, <2>1 DEF SamplesInv
<1>11. DOMAIN kept' = Histograms
  BY <1>2 DEF SamplesInv
<1> QED
  BY <1>9, <1>10, <1>11 DEF SamplesInv

\* SubtractSample.
LEMMA SubtractSampleStands ==
    ASSUME SamplesInv, NEW x \in Histograms, NEW s \in DOMAIN samples[x],
           SubtractSample(x, s), HistogramInv'
    PROVE  SamplesInv'
<1> DEFINE p == Prepared(Renormalized(hist[x], s[3]), s[3])
           left == p.weight[FindBucket(s[1])] - Decayed(p, s[2], s[3])
           g == HistSubtractSample(hist[x], s[1], s[2], s[3])
           B == samples[x] (-) SetToBag({s})
<1>1. /\ hist' = [hist EXCEPT ![x] = g] /\ samples' = [samples EXCEPT ![x] = B]
      /\ kept' = kept /\ rounds' = rounds
      /\ lossy' = IF Faint(p) \/ left \in 1 .. Epsilon * p.unit - 1
                  THEN lossy \cup {x} ELSE lossy
  BY DEF SubtractSample
<1>2. /\ hist'[x] = g /\ samples'[x] = B
      /\ \A y \in Histograms : y # x => hist'[y] = hist[y] /\ samples'[y] = samples[y]
  <2> HIDE DEF g, B, p, left
  <2> QED BY <1>1 DEF SamplesInv, HistogramInv
<1>3. s \in SampleType /\ SampleBag(B)
  <2>1. SampleBag(samples[x])
    BY DEF SamplesInv
  <2> QED BY <2>1, HeldTaken
<1>4. hist[x] \in HistogramType /\ Timely(hist[x])
  BY DEF SamplesInv, HistogramInv
<1>5. Timely(g)
  BY <1>3, <1>4, SubtractTimely
<1> HIDE DEF g, B, p, left
<1>6. ASSUME x \notin lossy' PROVE Sound(g, B, kept[x], rounds[x])
  <2>1. x \notin lossy /\ ~ Faint(p) /\ left \notin 1 .. Epsilon * p.unit - 1
    BY <1>1, <1>6
  <2>2. Sound(hist[x], samples[x], kept[x], rounds[x])
    BY <2>1 DEF SamplesInv
  <2> DEFINE h == hist[x]
             A == samples[x]
             G == Held(kept[x])
             r == rounds[x]
  <2>3. /\ h \in HistogramType /\ Solid(h) /\ Timely(h) /\ SampleBag(A) /\ SampleBag(kept[x])
        /\ r \in Nat /\ Stands(h, Held(A), G, r) /\ G \in Weighing
    BY <2>2, MassType DEF Sound
  <2>4. s \in DOMAIN A /\ p = Prepared(Renormalized(h, s[3]), s[3])
    BY DEF p
  <2>5. p.weight[FindBucket(s[1])] - Decayed(p, s[2], s[3]) \notin 1 .. Epsilon * p.unit - 1
    BY <2>1 DEF left
  <2>6. g = HistSubtractSample(h, s[1], s[2], s[3]) /\ B = A (-) SetToBag({s})
    BY DEF g, B
  <2> HIDE DEF h, A, G, r
  <2>7. /\ Stands(HistSubtractSample(h, s[1], s[2], s[3]), Held(A (-) SetToBag({s})), G, r)
        /\ ~ Faint(HistSubtractSample(h, s[1], s[2], s[3]))
    BY <2>1, <2>3, <2>4, <2>5, HistSubtractSampleStands
  <2>8. Stands(g, Held(B), G, r) /\ ~ Faint(g)
    BY <2>6, <2>7
  <2>9. s[1] \in Nat /\ s[2] \in Nat /\ s[3] \in Int
    BY <1>3, LoadOfSample
  <2>10. g \in HistogramType /\ Exact(g)
    BY <2>3, <2>6, <2>9, HistSubtractSampleExact DEF Solid
  <2> QED BY <1>3, <1>5, <2>3, <2>8, <2>10 DEF Sound, Solid, G, r
<1>7. \A y \in Histograms : SampleBag(samples'[y]) /\ SampleBag(kept'[y]) /\ Timely(hist'[y])
  BY <1>1, <1>2, <1>3, <1>5 DEF SamplesInv
<1>8. \A y \in Histograms \ lossy' : Sound(hist'[y], samples'[y], kept'[y], rounds'[y])
  <2>1. lossy \subseteq lossy'
    BY <1>1
  <2> QED BY <1>1, <1>2, <1>6, <2>1 DEF SamplesInv
<1>9. DOMAIN kept' = Histograms
  BY <1>1 DEF SamplesInv
<1> QED
  BY <1>7, <1>8, <1>9 DEF SamplesInv

\* The histogram that is merged, with its reference time moved, is still sound.
LEMMA AlignedSound ==
    ASSUME NEW h, NEW B, NEW C, NEW r, Sound(h, B, C, r),
           NEW o \in HistogramType, Timely(o), ~ Faint(Reduced(Aligned(h, o)))
    PROVE  ~ Faint(Aligned(h, o)) /\ Sound(Reduced(Aligned(h, o)), B, C, r)
<1> DEFINE F == Held(B)
           G == Held(C)
           a == Aligned(h, o)
           g == Reduced(a)
<1>1. /\ h \in HistogramType /\ Solid(h) /\ Timely(h) /\ r \in Nat /\ Stands(h, F, G, r)
      /\ SampleBag(B) /\ SampleBag(C)
  BY DEF Sound
<1>2. F \in Weighing /\ G \in Weighing
  BY <1>1, MassType
<1> HIDE DEF F, G
<1>3. a \in HistogramType /\ Exact(a)
  BY <1>1, AlignedExact DEF Solid
<1>4. Timely(a)
  BY <1>1, AlignedTimely
<1>5. Stands(a, F, G, r)
  BY <1>1, <1>2, AlignedStands
<1> HIDE DEF a
<1>6. ~ Faint(g)
  BY DEF a
<1>7. g \in HistogramType /\ Exact(g)
  BY <1>3, ReducedExact
<1>8. ~ Faint(a) /\ Timely(g) /\ Stands(g, F, G, r)
  BY <1>1, <1>2, <1>3, <1>4, <1>5, <1>6, ReducedSame
<1> HIDE DEF g
<1>9. Sound(g, B, C, r)
  BY <1>1, <1>6, <1>7, <1>8 DEF Sound, Solid, F, G
<1> QED
  BY <1>8, <1>9 DEF a, g

\* So is the one that it is merged into.
LEMMA MergedSound ==
    ASSUME NEW a, NEW B, NEW C, NEW p, Sound(a, B, C, p),
           NEW b, NEW BB, NEW CC, NEW q, Sound(b, BB, CC, q),
           NEW r \in Nat, p <= r, q <= r,
           ~ Faint(Aligned(a, b)), ~ Faint(Aligned(b, a)), ~ Faint(HistMerge(a, b))
    PROVE  Sound(HistMerge(a, b), B (+) BB, C (+) CC, r)
<1> DEFINE D == B (+) BB
           E == C (+) CC
           g == HistMerge(a, b)
<1>1. /\ a \in HistogramType /\ Exact(a) /\ Timely(a)
      /\ b \in HistogramType /\ Exact(b) /\ Timely(b)
      /\ SampleBag(B) /\ SampleBag(C) /\ SampleBag(BB) /\ SampleBag(CC)
  BY DEF Sound, Solid
<1>2. SampleBag(D) /\ SampleBag(E)
  BY <1>1, HeldUnion
<1>3. g \in HistogramType /\ Exact(g)
  BY <1>1, HistMergeExact
<1>4. Timely(g)
  BY <1>1, MergeTimely
<1>5. Stands(g, Held(D), Held(E), r)
  BY HistMergeStands
<1>6. ~ Faint(g)
  OBVIOUS
<1> HIDE DEF g, D, E
<1>7. Sound(g, D, E, r)
  BY <1>2, <1>3, <1>4, <1>5, <1>6 DEF Sound, Solid
<1> QED
  BY <1>7 DEF g, D, E

\* Merge.
LEMMA MergeStands ==
    ASSUME SamplesInv, NEW x \in Histograms, Merge(x), HistogramInv'
    PROVE  SamplesInv'
<1> DEFINE y == Other(x)
           a == hist[x]
           b == hist[y]
           g == HistMerge(a, b)
           o == Reduced(Aligned(b, a))
           D == samples[x] (+) samples[y]
           E == kept[x] (+) kept[y]
           r == Max({rounds[x], rounds[y]})
<1>1. y \in Histograms /\ y # x
  BY OtherHistogram
<1>2. /\ hist' = [hist EXCEPT ![x] = g, ![y] = o] /\ samples' = [samples EXCEPT ![x] = D]
      /\ kept' = [kept EXCEPT ![x] = E] /\ rounds' = [rounds EXCEPT ![x] = r]
      /\ lossy' = {z \in Histograms :
            \/ z \in lossy \/ Faint(hist'[z])
            \/ z = x /\ (y \in lossy \/ Faint(hist'[y]) \/ Faint(Aligned(a, b)))}
  BY DEF Merge
<1>3. /\ a \in HistogramType /\ Timely(a) /\ b \in HistogramType /\ Timely(b)
      /\ SampleBag(samples[x]) /\ SampleBag(samples[y]) /\ SampleBag(kept[x]) /\ SampleBag(kept[y])
      /\ rounds[x] \in Nat /\ rounds[y] \in Nat
  BY <1>1 DEF SamplesInv, HistogramInv
<1>4. SampleBag(D) /\ SampleBag(E)
  BY <1>3, HeldUnion
<1>5. r \in Nat /\ rounds[x] <= r /\ rounds[y] <= r
  <2> DEFINE m == rounds[x]
             n == rounds[y]
  <2>1. m \in Int /\ n \in Int
    BY <1>3
  <2> HIDE DEF m, n
  <2>2. Max({m, n}) = IF m >= n THEN m ELSE n
    BY <2>1, MinMaxPair
  <2>3. r = IF m >= n THEN m ELSE n
    BY <2>2 DEF m, n
  <2> HIDE DEF r
  <2> QED BY <1>3, <2>1, <2>3 DEF m, n
<1>6. Timely(g) /\ Timely(o)
  BY <1>3, MergeTimely
<1> HIDE DEF D, E, r, g, o, y
<1>7. /\ hist'[x] = g /\ hist'[y] = o /\ samples'[x] = D /\ kept'[x] = E /\ rounds'[x] = r
      /\ samples'[y] = samples[y] /\ kept'[y] = kept[y] /\ rounds'[y] = rounds[y]
  BY <1>1, <1>2 DEF SamplesInv, HistogramInv
<1>8. ASSUME NEW z \in Histograms, z # x, z # y
      PROVE  /\ hist'[z] = hist[z] /\ samples'[z] = samples[z]
             /\ kept'[z] = kept[z] /\ rounds'[z] = rounds[z]
  <2>1. z \in DOMAIN hist /\ z \in DOMAIN samples /\ z \in DOMAIN kept /\ z \in DOMAIN rounds
    BY DEF SamplesInv, HistogramInv
  <2>2. hist'[z] = hist[z]
    BY <1>2, <1>8, <2>1
  <2>3. samples'[z] = samples[z] /\ kept'[z] = kept[z] /\ rounds'[z] = rounds[z]
    BY <1>2, <1>8, <2>1
  <2> QED BY <2>2, <2>3
<1>9. ASSUME y \notin lossy, ~ Faint(o)
      PROVE  ~ Faint(Aligned(b, a)) /\ Sound(o, samples[y], kept[y], rounds[y])
  <2>1. Sound(b, samples[y], kept[y], rounds[y])
    BY <1>1, <1>9 DEF SamplesInv
  <2>2. ~ Faint(Reduced(Aligned(b, a)))
    BY <1>9 DEF o
  <2> HIDE DEF a, b
  <2>3. ~ Faint(Aligned(b, a)) /\ Sound(Reduced(Aligned(b, a)), samples[y], kept[y], rounds[y])
    BY <1>3, <2>1, <2>2, AlignedSound
  <2> QED BY <2>3 DEF o
<1>10. ASSUME x \notin lossy' PROVE Sound(g, D, E, r)
  <2>1. x \notin lossy /\ ~ Faint(g) /\ y \notin lossy /\ ~ Faint(o) /\ ~ Faint(Aligned(a, b))
    BY <1>2, <1>7, <1>10
  <2>2. Sound(a, samples[x], kept[x], rounds[x]) /\ Sound(b, samples[y], kept[y], rounds[y])
    BY <1>1, <2>1 DEF SamplesInv
  <2>3. ~ Faint(Aligned(b, a)) /\ ~ Faint(HistMerge(a, b))
    BY <1>9, <2>1 DEF g
  <2> HIDE DEF a, b
  <2>4. Sound(HistMerge(a, b), samples[x] (+) samples[y], kept[x] (+) kept[y], r)
    BY <1>5, <2>1, <2>2, <2>3, MergedSound
  <2> QED BY <2>4 DEF g, D, E
<1>11. ASSUME y \notin lossy' PROVE Sound(o, samples[y], kept[y], rounds[y])
  <2>1. y \notin lossy /\ ~ Faint(o)
    BY <1>1, <1>2, <1>7, <1>11
  <2> QED BY <1>9, <2>1
<1>12. \A z \in Histograms : SampleBag(samples'[z]) /\ SampleBag(kept'[z]) /\ Timely(hist'[z])
  BY <1>3, <1>4, <1>6, <1>7, <1>8 DEF SamplesInv
<1>13. \A z \in Histograms \ lossy' : Sound(hist'[z], samples'[z], kept'[z], rounds'[z])
  <2>1. \A z \in Histograms \ lossy' : z \notin lossy
    BY <1>2
  <2> QED BY <1>7, <1>8, <1>10, <1>11, <2>1 DEF SamplesInv
<1>14. DOMAIN kept' = Histograms
  BY <1>2 DEF SamplesInv
<1> QED
  BY <1>12, <1>13, <1>14 DEF SamplesInv

\* A checkpoint and a restart: there is nothing in the new histogram.
LEMMA CheckpointStands ==
    ASSUME SamplesInv, NEW x \in Histograms, Checkpoint(x), HistogramInv'
    PROVE  SamplesInv'
<1> DEFINE y == Other(x)
           b == hist[y]
           g == HistLoadFromCheckpoint(HistSaveToCheckpoint(b))
           E == samples[y] (+) kept[y]
           r == rounds[y] + 1
<1>1. y \in Histograms /\ y # x
  BY OtherHistogram
<1>2. /\ hist' = [hist EXCEPT ![x] = g] /\ samples' = samples
      /\ kept' = [kept EXCEPT ![x] = E] /\ rounds' = [rounds EXCEPT ![x] = r]
      /\ lossy' = IF y \in lossy \/ Faint(hist'[x]) THEN lossy \cup {x} ELSE lossy
      /\ hist[x] = NewHistogram
  BY DEF Checkpoint
<1>3. /\ b \in HistogramType /\ Timely(b)
      /\ SampleBag(samples[x]) /\ SampleBag(samples[y]) /\ SampleBag(kept[x]) /\ SampleBag(kept[y])
  BY <1>1 DEF SamplesInv, HistogramInv
<1>4. SampleBag(E)
  BY <1>3, HeldUnion
<1>5. Timely(g)
  BY <1>3, LoadTimely
<1> HIDE DEF E, r, g, y
<1>6. hist'[x] = g /\ kept'[x] = E /\ rounds'[x] = r
  BY <1>1, <1>2 DEF SamplesInv, HistogramInv
<1>7. \A z \in Histograms : z # x =>
         hist'[z] = hist[z] /\ kept'[z] = kept[z] /\ rounds'[z] = rounds[z]
  BY <1>2 DEF SamplesInv, HistogramInv
<1>8. ASSUME x \notin lossy' PROVE Sound(g, samples[x], E, r)
  <2>1. x \notin lossy /\ y \notin lossy /\ ~ Faint(g)
    BY <1>2, <1>6, <1>8
  <2>2. Sound(hist[x], samples[x], kept[x], rounds[x]) /\ Sound(b, samples[y], kept[y], rounds[y])
    BY <1>1, <2>1 DEF SamplesInv
  <2>3. hist[x].reference < 0
    <3>1. hist[x].reference = - MaxDecayExponent - 1 /\ MaxDecayExponent \in Nat
      BY <1>2, OptionsAssumption DEF NewHistogram
    <3> QED BY <3>1
  <2>4. Nothing(Held(samples[x]))
    BY <2>2, <2>3 DEF Sound, Stands
  <2>5. g = HistLoadFromCheckpoint(HistSaveToCheckpoint(b))
    BY DEF g
  <2> HIDE DEF b
  <2>6. Sound(g, samples[x], samples[y] (+) kept[y], rounds[y] + 1)
    BY <1>3, <2>1, <2>2, <2>4, <2>5, CheckpointSound
  <2> QED BY <2>6 DEF E, r
<1>9. \A z \in Histograms : SampleBag(samples'[z]) /\ SampleBag(kept'[z]) /\ Timely(hist'[z])
  BY <1>2, <1>3, <1>4, <1>5, <1>6, <1>7 DEF SamplesInv
<1>10. \A z \in Histograms \ lossy' : Sound(hist'[z], samples'[z], kept'[z], rounds'[z])
  <2>1. lossy \subseteq lossy'
    BY <1>2
  <2> QED BY <1>2, <1>6, <1>7, <1>8, <2>1 DEF SamplesInv
<1>11. DOMAIN kept' = Histograms
  BY <1>2 DEF SamplesInv
<1> QED
  BY <1>9, <1>10, <1>11 DEF SamplesInv

\* Every step.
LEMMA SamplesStep == SamplesInv /\ [Next]_vars => SamplesInv'
<1> SUFFICES ASSUME SamplesInv, [Next]_vars PROVE SamplesInv'
  OBVIOUS
<1>1. HistogramInv'
  BY HistogramStep DEF SamplesInv
<1>2. CASE UNCHANGED vars
  <2>1. UNCHANGED hist /\ UNCHANGED samples /\ UNCHANGED kept /\ UNCHANGED rounds /\ UNCHANGED lossy
    BY <1>2 DEF vars
  <2> QED BY <1>1, <2>1 DEF SamplesInv
<1>3. CASE Next
  <2>1. PICK x \in Histograms :
           \/ \E v \in Values, w \in Weights, t \in 0 .. MaxTime : AddSample(x, v, w, t)
           \/ \E s \in DOMAIN samples[x] : SubtractSample(x, s)
           \/ Merge(x)
           \/ Checkpoint(x)
    BY <1>3 DEF Next
  <2>2. CASE \E v \in Values, w \in Weights, t \in 0 .. MaxTime : AddSample(x, v, w, t)
    BY <1>1, <2>2, AddSampleStands
  <2>3. CASE \E s \in DOMAIN samples[x] : SubtractSample(x, s)
    BY <1>1, <2>3, SubtractSampleStands
  <2>4. CASE Merge(x)
    BY <1>1, <2>4, MergeStands
  <2>5. CASE Checkpoint(x)
    BY <1>1, <2>5, CheckpointStands
  <2> QED BY <2>1, <2>2, <2>3, <2>4, <2>5
<1> QED
  BY <1>2, <1>3

-----------------------------------------------------------------------------
(* Percentiles of the samples.                                             *)

\* What Percentile adds up is the weight of the first buckets.
LEMMA WeightFromFirst ==
    ASSUME NEW h \in HistogramType, Solid(h), NEW b \in Buckets
    PROVE  SumOver(h.weight, h.min .. b) = Upto(h.weight, b + 1)
<1> DEFINE w == h.weight
           S == 0 .. b
           T == h.min .. b
<1>1. /\ w \in Weighing /\ h.min \in Buckets /\ Buckets = 0 .. Last /\ Last \in Nat
      /\ 0 \in Int /\ Last \in Int /\ b \in Int
  BY ValuedType, BucketsType
<1>2. S \subseteq Buckets /\ T \in SUBSET S
  BY <1>1
<1>3. IsFiniteSet(S)
  BY <1>1, FS_Interval
<1>4. \A i \in S : w[i] \in Nat
  BY <1>1, <1>2 DEF Weighing
<1>5. \A i \in S \ T : w[i] = 0
  <2> SUFFICES ASSUME NEW i \in S \ T PROVE w[i] = 0
    OBVIOUS
  <2>1. i \in Buckets /\ i \notin h.min .. h.max
    BY <1>1, <1>2
  <2> QED BY <2>1, NoneOutside
<1>6. S = 0 .. (b + 1) - 1
  BY <1>1
<1> HIDE DEF S, T, w
<1>7. SumOver(w, S) = SumOver(w, T)
  BY <1>2, <1>3, <1>4, <1>5, SumGrown DEF Summable
<1> QED
  BY <1>6, <1>7 DEF Upto, S, T, w

\* Up to the last non-empty bucket it is the total.
LEMMA WeightUpToLast ==
    ASSUME NEW h \in HistogramType, Solid(h), NEW b \in Buckets, b >= h.max
    PROVE  Upto(h.weight, b + 1) = Upto(h.weight, NumBuckets)
<1> DEFINE w == h.weight
           S == Buckets
           T == 0 .. b
<1>1. /\ w \in Weighing /\ h.max \in Buckets /\ Buckets = 0 .. Last /\ Last \in Nat
      /\ 0 \in Int /\ Last \in Int /\ b \in Int
  BY ValuedType, BucketsType
<1>2. T \in SUBSET S
  BY <1>1
<1>3. IsFiniteSet(S)
  BY <1>1, FS_Interval
<1>4. \A i \in S : w[i] \in Nat
  BY <1>1 DEF Weighing
<1>5. \A i \in S \ T : w[i] = 0
  <2> SUFFICES ASSUME NEW i \in S \ T PROVE w[i] = 0
    OBVIOUS
  <2>1. i \in Buckets /\ i \notin h.min .. h.max
    BY <1>1
  <2> QED BY <2>1, NoneOutside
<1>7. S = 0 .. NumBuckets - 1
  BY DEF Buckets
<1>8. T = 0 .. (b + 1) - 1
  BY <1>1
<1> HIDE DEF S, T, w
<1>6. SumOver(w, S) = SumOver(w, T)
  BY <1>2, <1>3, <1>4, <1>5, SumGrown DEF Summable
<1> QED
  BY <1>6, <1>7, <1>8 DEF Upto, w

\* Below the first non-empty bucket there is nothing.
LEMMA WeightBeforeFirst ==
    ASSUME NEW h \in HistogramType, Solid(h), NEW b \in Buckets, b <= h.min
    PROVE  Upto(h.weight, b) = 0
<1> DEFINE w == h.weight
<1>1. /\ w \in Weighing /\ h.min \in Buckets /\ Buckets = 0 .. Last /\ Last \in Nat /\ b \in Nat
  BY ValuedType, BucketsType
<1>2. CASE b = 0
  BY <1>1, <1>2, UptoStep
<1>3. CASE b # 0
  <2> DEFINE c == b - 1
  <2>1. c \in Buckets /\ c + 1 = b /\ c \in Int /\ h.min \in Int /\ c < h.min
    BY <1>1, <1>3
  <2> HIDE DEF c
  <2>2. SumOver(w, h.min .. c) = Upto(w, b)
    BY <2>1, WeightFromFirst
  <2>3. h.min .. c = {}
    BY <2>1
  <2> DEFINE E == {}
  <2>4. SumOver(w, {}) = 0
    <3>1. IsFiniteSet({}) /\ 0 .. 0 - 1 = {}
      BY FS_EmptySet
    <3>2. Upto(w, 0) = 0
      BY <1>1, UptoStep
    <3> QED BY <3>1, <3>2 DEF Upto
  <2> QED BY <2>2, <2>3, <2>4
<1> QED
  BY <1>2, <1>3

\* Where Percentile stops: at the first bucket up to which the weights are at least
\* the fraction p of the total.
LEMMA StopBucket ==
    ASSUME NEW h \in HistogramType, Solid(h), Upto(h.weight, NumBuckets) = h.total,
           NEW p \in Percentiles
    PROVE  LET b == PercentileBucket(h, p)
           IN  /\ b \in Buckets
               /\ Upto(h.weight, b + 1) * p[2] >= p[1] * h.total
               /\ \A c \in Buckets : c <= b /\ h.total > 0 =>
                     Upto(h.weight, c) * p[2] < p[1] * h.total
<1> DEFINE w == h.weight
           t == h.total
           b == PercentileBucket(h, p)
           W(i) == SumOver(w, h.min .. i)
           top == Max({h.min, h.max})
           P == {i \in h.min .. h.max - 1 : W(i) * p[2] >= p[1] * t} \cup {top}
<1>1. /\ w \in Weighing /\ t \in Nat /\ h.min \in Buckets /\ h.max \in Buckets
      /\ Last \in Nat /\ Buckets = 0 .. Last /\ 0 \in Int /\ Last \in Int
      /\ h.min \in Int /\ h.max \in Int
  BY ValuedType, BucketsType
<1>2. p[1] \in Nat /\ p[2] \in Nat /\ 0 < p[1] /\ p[1] <= p[2]
  BY PercentilesAssumption
<1>3. top = IF h.min >= h.max THEN h.min ELSE h.max
  BY <1>1, MinMaxPair
<1>4. \A i \in Buckets : W(i) = Upto(w, i + 1)
  BY WeightFromFirst
<1>5. b = Min(P)
  BY DEF PercentileBucket
<1> HIDE DEF top, W, b
<1>6. top \in Buckets /\ top >= h.min /\ top >= h.max
  BY <1>1, <1>3
<1>7. P \subseteq 0 .. Last /\ P # {}
  BY <1>1, <1>6
<1>8. \A i \in P : i # top => i \in h.min .. h.max - 1 /\ W(i) * p[2] >= p[1] * t
  OBVIOUS
<1>9. \A i \in h.min .. h.max - 1 : W(i) * p[2] >= p[1] * t => i \in P
  OBVIOUS
<1>10. top \in P
  OBVIOUS
<1> HIDE DEF P
<1>11. b \in P /\ \A i \in P : b <= i
  BY <1>1, <1>5, <1>7, MinMaxInterval
<1>12. b \in Buckets /\ b <= top
  BY <1>1, <1>7, <1>10, <1>11
<1>13. Upto(w, b + 1) * p[2] >= p[1] * t
  <2>1. CASE b = top
    <3>1. Upto(w, b + 1) = t
      BY <1>6, <2>1, WeightUpToLast DEF w, t
    <3>2. p[1] * t <= p[2] * t
      BY <1>1, <1>2, ProductGrows
    <3>3. p[2] * t = t * p[2] /\ p[1] * t \in Nat /\ t * p[2] \in Nat
      BY <1>1, <1>2
    <3> QED BY <3>1, <3>2, <3>3
  <2>2. CASE b # top
    BY <1>4, <1>8, <1>11, <1>12, <2>2
  <2> QED BY <2>1, <2>2
<1>14. ASSUME NEW c \in Buckets, c <= b, t > 0 PROVE Upto(w, c) * p[2] < p[1] * t
  <2>1. p[1] * t > 0
    BY <1>1, <1>2, <1>14
  <2>2. CASE c <= h.min
    <3>1. Upto(w, c) = 0
      BY <2>2, WeightBeforeFirst DEF w
    <3>2. 0 * p[2] = 0
      BY <1>2
    <3> QED BY <2>1, <3>1, <3>2
  <2>3. CASE ~ (c <= h.min)
    <3> DEFINE d == c - 1
    <3>1. d \in Buckets /\ d + 1 = c /\ d >= h.min /\ d < b /\ d <= h.max - 1
      BY <1>1, <1>3, <1>12, <1>14, <2>3
    <3> HIDE DEF d
    <3>2. d \in h.min .. h.max - 1 /\ d \notin P
      BY <1>1, <1>11, <1>12, <3>1
    <3>3. ~ (W(d) * p[2] >= p[1] * t)
      BY <1>9, <3>2
    <3>4. W(d) = Upto(w, c) /\ Upto(w, c) \in Nat
      <4>1. c \in 0 .. NumBuckets
        BY BucketsType DEF Buckets
      <4> QED BY <1>1, <1>4, <3>1, <4>1, UptoStep
    <3>5. Upto(w, c) * p[2] \in Nat /\ p[1] * t \in Nat
      BY <1>1, <1>2, <3>4
    <3> QED BY <3>3, <3>4, <3>5
  <2> QED BY <2>2, <2>3
<1> QED
  BY <1>12, <1>13, <1>14 DEF w, t, b

\* From the weight W below a bucket, counted in a histogram, to the weight s of the samples
\* there: t and m are all of both.
LEMMA EnoughBelow ==
    ASSUME NEW M \in Nat, NEW n \in Nat, NEW u \in Nat, u > 0, NEW k \in Nat,
           NEW W \in Nat, NEW t \in Nat, NEW s \in Nat, NEW m \in Nat, NEW g \in Nat, g <= m,
           NEW p \in Nat, NEW q \in Nat,
           n * t = u * m, M * (n * W) <= M * (u * s) + k * (u * g), W * q >= p * t
    PROVE  s * q * M >= (p * M - k * q) * m
<1> DEFINE A == s * q * M
           B == k * q * m
           C == p * M * m
           x == M * (n * W)
           y == M * (u * s)
           z == k * (u * g)
           zz == k * (u * m)
<1>1. A \in Nat /\ B \in Nat /\ C \in Nat
  OBVIOUS
<1>2. x \in Nat /\ y \in Nat /\ z \in Nat /\ zz \in Nat /\ x <= y + z
  OBVIOUS
<1>3. z <= zz
  <2>1. u * g <= u * m
    BY ProductGrows
  <2>2. u * g \in Nat /\ u * m \in Nat
    OBVIOUS
  <2> QED BY <2>1, <2>2, ProductGrows
<1>4. q * y = u * A
  OBVIOUS
<1>5. q * zz = u * B
  OBVIOUS
<1>6. u * C <= q * x
  <2> DEFINE a == p * t
             b == W * q
             c == M * n
  <2>1. a \in Nat /\ b \in Nat /\ c \in Nat /\ a <= b
    OBVIOUS
  <2>2. c * b = q * x
    OBVIOUS
  <2>3. c * a = u * C
    <3>1. c * a = (M * p) * (n * t)
      OBVIOUS
    <3>2. (M * p) * (u * m) = u * C
      OBVIOUS
    <3> QED BY <3>1, <3>2
  <2> HIDE DEF a, b, c
  <2>4. c * a <= c * b
    BY <2>1, ProductGrows
  <2> QED BY <2>2, <2>3, <2>4
<1>7. (p * M - k * q) * m = C - B
  OBVIOUS
<1> HIDE DEF A, B, C, x, y, z, zz
<1>8. q * x <= u * (A + B)
  <2>1. x <= y + zz
    BY <1>2, <1>3
  <2>2. q * x <= q * (y + zz)
    BY <1>2, <2>1, ProductGrows
  <2>3. q * (y + zz) = q * y + q * zz
    BY <1>2
  <2>4. u * (A + B) = u * A + u * B
    BY <1>1
  <2> QED BY <1>4, <1>5, <2>2, <2>3, <2>4
<1>9. C <= A + B
  <2> DEFINE S == A + B
  <2>1. S \in Nat
    BY <1>1
  <2>2. u * C <= u * S
    <3>1. u * C \in Nat /\ q * x \in Nat /\ u * S \in Nat
      BY <1>1, <1>2
    <3> QED BY <1>6, <1>8, <3>1
  <2> HIDE DEF S
  <2>3. u * S >= u * C
    BY <1>1, <2>1, <2>2
  <2>4. S >= C
    BY <1>1, <2>1, <2>3, MultiplesCompare
  <2> QED BY <1>1, <2>1, <2>4 DEF S
<1>10. A >= C - B
  BY <1>1, <1>9
<1> QED
  BY <1>7, <1>10 DEF A

\* The same for a bucket that Percentile does not stop at yet.
LEMMA NotEnoughBelow ==
    ASSUME NEW M \in Nat, M > 0, NEW n \in Nat, n > 0, NEW u \in Nat, NEW k \in Nat,
           NEW W \in Nat, NEW t \in Nat, NEW s \in Nat, NEW m \in Nat, NEW g \in Nat, g <= m,
           NEW p \in Nat, NEW q \in Nat,
           n * t = u * m, M * (u * s) <= M * (n * W) + k * (u * g), W * q < p * t
    PROVE  s * q * M < (p * M + k * q) * m
<1> DEFINE A == s * q * M
           B == k * q * m
           C == p * M * m
           x == M * (n * W)
           y == M * (u * s)
           z == k * (u * g)
           zz == k * (u * m)
<1>1. A \in Nat /\ B \in Nat /\ C \in Nat
  OBVIOUS
<1>2. x \in Nat /\ y \in Nat /\ z \in Nat /\ zz \in Nat /\ y <= x + z
  OBVIOUS
<1>3. z <= zz
  <2>1. u * g <= u * m
    BY ProductGrows
  <2>2. u * g \in Nat /\ u * m \in Nat
    OBVIOUS
  <2> QED BY <2>1, <2>2, ProductGrows
<1>4. q * y = u * A
  OBVIOUS
<1>5. q * zz = u * B
  OBVIOUS
<1>6. q * x < u * C
  <2> DEFINE a == p * t
             b == W * q
             c == M * n
  <2>1. a \in Nat /\ b \in Nat /\ c \in Nat /\ b < a
    OBVIOUS
  <2>2. c * b = q * x
    OBVIOUS
  <2>3. c * a = u * C
    <3>1. c * a = (M * p) * (n * t)
      OBVIOUS
    <3>2. (M * p) * (u * m) = u * C
      OBVIOUS
    <3> QED BY <3>1, <3>2
  <2>4. c > 0
    OBVIOUS
  <2> HIDE DEF a, b, c
  <2>5. ~ (c * b >= c * a)
    BY <2>1, <2>4, MultiplesCompare
  <2>6. c * b \in Nat /\ c * a \in Nat
    BY <2>1
  <2>7. c * b < c * a
    BY <2>5, <2>6
  <2> QED BY <2>2, <2>3, <2>7
<1>7. (p * M + k * q) * m = C + B
  OBVIOUS
<1> HIDE DEF A, B, C, x, y, z, zz
<1>8. u * A <= q * x + u * B
  <2>1. y <= x + zz
    BY <1>2, <1>3
  <2>2. q * y <= q * (x + zz)
    BY <1>2, <2>1, ProductGrows
  <2>3. q * (x + zz) = q * x + q * zz
    BY <1>2
  <2> QED BY <1>4, <1>5, <2>2, <2>3
<1>9. A < C + B
  <2> DEFINE S == C + B
  <2>1. S \in Nat
    BY <1>1
  <2>2. u * S = u * C + u * B
    BY <1>1
  <2>3. u * A < u * S
    <3>1. u * A \in Nat /\ u * B \in Nat /\ u * C \in Nat /\ q * x \in Nat /\ u * S \in Nat
      BY <1>1, <1>2
    <3> QED BY <1>6, <1>8, <2>2, <3>1
  <2> HIDE DEF S
  <2>4. ASSUME A >= S PROVE FALSE
    <3>1. u * S <= u * A
      BY <1>1, <2>1, <2>4, ProductGrows
    <3>2. u * S \in Nat /\ u * A \in Nat
      BY <1>1, <2>1
    <3> QED BY <2>3, <3>1, <3>2
  <2>5. A < S
    BY <1>1, <2>1, <2>4
  <2> QED BY <2>5 DEF S
<1> QED
  BY <1>7, <1>9 DEF A

\* A histogram that stands for samples is empty if and only if there are none.
LEMMA EmptyStands ==
    ASSUME NEW h \in HistogramType, Solid(h), Upto(h.weight, NumBuckets) = h.total
    PROVE  IsEmpty(h) <=> h.total = 0
<1>1. /\ h.weight \in Weighing /\ h.min \in Buckets /\ h.max \in Buckets
      /\ h.unit \in Nat /\ h.unit > 0 /\ h.total \in Nat
      /\ \A b \in Buckets : h.weight[b] \in Nat
      /\ Last \in Nat /\ Buckets = 0 .. Last
  BY ValuedType, BucketsType
<1>2. CASE h.total = 0
  <2>1. h.weight[h.min] = 0
    BY <1>1, <1>2, NothingSums DEF Nothing
  <2> DEFINE e == Epsilon * h.unit
  <2>2. e > 0
    BY <1>1, OptionsAssumption
  <2>3. NonEmpty(h, h.min) <=> h.weight[h.min] >= e
    BY DEF NonEmpty
  <2> HIDE DEF e
  <2>4. e \in Nat
    BY <1>1, OptionsAssumption DEF e
  <2> QED BY <1>2, <2>1, <2>2, <2>3, <2>4 DEF IsEmpty
<1>3. CASE h.total # 0
  <2>1. ~ Nothing(h.weight)
    <3>1. NumBuckets \in 0 .. NumBuckets
      BY BucketsType
    <3> QED BY <1>1, <1>3, <3>1, NothingSums
  <2>2. PICK b \in Buckets : h.weight[b] # 0
    BY <2>1 DEF Nothing
  <2>3. h.weight[b] > 0
    BY <1>1, <2>2
  <2>4. NonEmpty(h, b)
    BY <2>3 DEF Solid, Faint
  <2>5. b \in h.min .. h.max
    BY <2>2, NoneOutside
  <2>6. NonEmpty(h, h.min) \/ h.min = Last
    BY DEF Solid, Exact
  <2>7. CASE h.min = Last
    <3>1. b = h.min
      BY <1>1, <2>5, <2>7
    <3> QED BY <1>3, <2>4, <3>1 DEF IsEmpty
  <2> QED BY <1>3, <2>6, <2>7 DEF IsEmpty
<1> QED
  BY <1>2, <1>3

\* The weights that a histogram counts for the first n buckets, beside those of the samples.
LEMMA StandsNear ==
    ASSUME NEW h \in HistogramType, NEW F \in Weighing, NEW G \in Weighing, NEW r \in Nat,
           Stands(h, F, G, r)
    PROVE  LET m == Upto(F, NumBuckets) + Upto(G, NumBuckets)
               g == Upto(G, NumBuckets)
           IN  /\ m \in Nat /\ g \in Nat /\ g <= m
               /\ Now(h) * h.total = h.unit * m
               /\ \A i \in 0 .. NumBuckets :
                     /\ Upto(h.weight, i) \in Nat /\ Upto(F, i) + Upto(G, i) \in Nat
                     /\ Near(Now(h) * Upto(h.weight, i), Upto(F, i) + Upto(G, i), g, h.unit, r)
<1> DEFINE w == h.weight
           V == Valued(h)
           n == Now(h)
           N == NumBuckets
<1>1. /\ w \in Weighing /\ V \in Weighing /\ n \in Nat /\ \A b \in Buckets : w[b] \in Nat
      /\ \A b \in Buckets : V[b] = w[b] * n
  BY ValuedType
<1>2. Upto(w, N) = h.total /\ Represents(V, h.unit, F, G, r)
  BY DEF Stands
<1> HIDE DEF V, n, w
<1>3. Multiple(V, n, w)
  <2>1. \A b \in Buckets : V[b] = n * w[b]
    BY <1>1
  <2> QED BY <2>1 DEF Multiple
<1>4. \A i \in 0 .. N : Upto(V, i) = n * Upto(w, i)
  BY <1>1, <1>3, UptoTimes
<1>5. N \in 0 .. N
  BY BucketsType
<1>6. \A i \in 0 .. N : Upto(w, i) \in Nat /\ Upto(F, i) \in Nat /\ Upto(G, i) \in Nat
  BY <1>1, UptoType
<1>7. /\ Upto(V, N) = h.unit * (Upto(F, N) + Upto(G, N))
      /\ \A i \in 0 .. N : Near(Upto(V, i), Upto(F, i) + Upto(G, i), Upto(G, N), h.unit, r)
  BY <1>2 DEF Represents
<1>8. n * h.total = h.unit * (Upto(F, N) + Upto(G, N))
  BY <1>2, <1>4, <1>5, <1>7
<1>9. \A i \in 0 .. N : Near(n * Upto(w, i), Upto(F, i) + Upto(G, i), Upto(G, N), h.unit, r)
  BY <1>4, <1>7
<1>10. \A i \in 0 .. N : Upto(F, i) + Upto(G, i) \in Nat
  BY <1>6
<1>11. Upto(G, N) \in Nat /\ Upto(G, N) <= Upto(F, N) + Upto(G, N)
  BY <1>5, <1>6
<1> QED
  BY <1>5, <1>6, <1>8, <1>9, <1>10, <1>11 DEF n, w

\* What PercentileExact says of one histogram, with the samples' weights by bucket.
LEMMA StandsPercentile ==
    ASSUME NEW h \in HistogramType, Solid(h), NEW F \in Weighing, NEW G \in Weighing,
           NEW r \in Nat, Stands(h, F, G, r), NEW p \in Percentiles
    PROVE  LET b    == PercentileBucket(h, p)
               S(i) == Upto(F, i) + Upto(G, i)
               m    == S(NumBuckets)
               M    == MaxCheckpointWeight
               k    == r * NumBuckets
           IN  /\ IsEmpty(h) <=> m = 0
               /\ b \in Buckets
               /\ S(b + 1) * p[2] * M >= (p[1] * M - k * p[2]) * m
               /\ \A c \in Buckets : c <= b /\ m # 0 =>
                     S(c) * p[2] * M < (p[1] * M + k * p[2]) * m
<1> DEFINE b    == PercentileBucket(h, p)
           S(i) == Upto(F, i) + Upto(G, i)
           W(i) == Upto(h.weight, i)
           m    == S(NumBuckets)
           g    == Upto(G, NumBuckets)
           M    == MaxCheckpointWeight
           k    == r * NumBuckets
           n    == Now(h)
           u    == h.unit
           t    == h.total
           q1   == p[1]
           q2   == p[2]
<1>1. /\ n \in Nat /\ n > 0 /\ u \in Nat /\ u > 0 /\ t \in Nat
  BY ValuedType
<1>2. M \in Nat /\ M > 0 /\ k \in Nat
  BY OptionsAssumption, BucketsType
<1>3. /\ m \in Nat /\ g \in Nat /\ g <= m /\ n * t = u * m
      /\ \A i \in 0 .. NumBuckets :
            W(i) \in Nat /\ S(i) \in Nat /\ Near(n * W(i), S(i), g, u, r)
  BY StandsNear
<1>4. q1 \in Nat /\ q2 \in Nat
  BY PercentilesAssumption
<1>5. Upto(h.weight, NumBuckets) = t
  BY DEF Stands
<1>6. IsEmpty(h) <=> t = 0
  BY <1>5, EmptyStands
<1>7. /\ b \in Buckets
      /\ W(b + 1) * q2 >= q1 * t
      /\ \A c \in Buckets : c <= b /\ t > 0 => W(c) * q2 < q1 * t
  BY <1>5, StopBucket
<1>8. \A c \in Buckets : c \in 0 .. NumBuckets /\ c + 1 \in 0 .. NumBuckets
  BY BucketsType DEF Buckets
<1> HIDE DEF b, S, W, m, g, M, k, n, u, t, q1, q2
<1>9. t = 0 <=> m = 0
  <2>1. CASE t = 0
    <3>1. u * m = 0
      BY <1>1, <1>3, <2>1
    <3>2. ~ (u * m > 0)
      BY <3>1
    <3>3. ~ (m > 0)
      BY <1>1, <1>3, <3>2, MultiplesEqual
    <3> QED BY <1>3, <2>1, <3>3
  <2>2. CASE m = 0
    <3>1. n * t = 0
      BY <1>1, <1>3, <2>2
    <3>2. ~ (n * t > 0)
      BY <3>1
    <3>3. ~ (t > 0)
      BY <1>1, <3>2, MultiplesEqual
    <3> QED BY <1>1, <2>2, <3>3
  <2> QED BY <2>1, <2>2
<1>10. \A i \in 0 .. NumBuckets : /\ M * (n * W(i)) <= M * (u * S(i)) + k * (u * g)
                                  /\ M * (u * S(i)) <= M * (n * W(i)) + k * (u * g)
  BY <1>3 DEF Near, M, k
<1>11. S(b + 1) * q2 * M >= (q1 * M - k * q2) * m
  <2> DEFINE W1 == W(b + 1)
             S1 == S(b + 1)
  <2>1. /\ W1 \in Nat /\ S1 \in Nat
        /\ M * (n * W1) <= M * (u * S1) + k * (u * g) /\ W1 * q2 >= q1 * t
    BY <1>3, <1>7, <1>8, <1>10
  <2> HIDE DEF W1, S1
  <2>2. S1 * q2 * M >= (q1 * M - k * q2) * m
    BY <1>1, <1>2, <1>3, <1>4, <2>1, EnoughBelow
  <2> QED BY <2>2 DEF S1
<1>12. ASSUME NEW c \in Buckets, c <= b, m # 0
       PROVE  S(c) * q2 * M < (q1 * M + k * q2) * m
  <2> DEFINE W1 == W(c)
             S1 == S(c)
  <2>1. t > 0
    BY <1>1, <1>9, <1>12
  <2>2. /\ W1 \in Nat /\ S1 \in Nat
        /\ M * (u * S1) <= M * (n * W1) + k * (u * g) /\ W1 * q2 < q1 * t
    BY <1>3, <1>7, <1>8, <1>10, <1>12, <2>1
  <2> HIDE DEF W1, S1
  <2>3. S1 * q2 * M < (q1 * M + k * q2) * m
    BY <1>1, <1>2, <1>3, <1>4, <2>2, NotEnoughBelow
  <2> QED BY <2>3 DEF S1
<1>13. IsEmpty(h) <=> m = 0
  BY <1>6, <1>9
<1> QED
  BY <1>7, <1>11, <1>12, <1>13 DEF b, S, m, M, k, q1, q2

\* Every percentile of every histogram that is not lossy is that of its samples.
LEMMA SamplesPercentile ==
    ASSUME SamplesInv, NEW x \in Histograms \ lossy, NEW p \in Percentiles
    PROVE  LET v     == Percentile(hist[x], p)
               total == WeightBelow(x, Max(Values) + 1)
               slack == rounds[x] * NumBuckets * p[2]
               M     == MaxCheckpointWeight
           IN  IF total = 0 THEN v = 0
               ELSE /\ \/ v = GetBucketStart(Last)
                       \/ WeightBelow(x, v) * p[2] * M >= (p[1] * M - slack) * total
                    /\ \A b \in Buckets : GetBucketStart(b) < v =>
                          WeightBelow(x, GetBucketStart(b)) * p[2] * M
                              < (p[1] * M + slack) * total
<1> DEFINE h == hist[x]
           r == rounds[x]
           F == Held(samples[x])
           G == Held(kept[x])
           b == PercentileBucket(h, p)
           S(i) == Upto(F, i) + Upto(G, i)
           m == S(NumBuckets)
           M == MaxCheckpointWeight
           k == r * NumBuckets
           next == IF b < Last THEN b + 1 ELSE b
           v == Percentile(h, p)
<1>1. /\ h \in HistogramType /\ Solid(h) /\ r \in Nat /\ Stands(h, F, G, r)
      /\ SampleBag(samples[x]) /\ SampleBag(kept[x])
  BY DEF SamplesInv, Sound
<1>2. F \in Weighing /\ G \in Weighing
  BY <1>1, MassType
<1>3. /\ \A c \in Buckets : WeightBelow(x, GetBucketStart(c)) = S(c)
      /\ WeightBelow(x, Max(Values) + 1) = m
  BY <1>1, BelowIsHeld
<1>4. v = IF IsEmpty(h) THEN 0 ELSE GetBucketStart(next)
  BY DEF Percentile
<1> HIDE DEF h, r, F, G, v, next
<1>5. /\ IsEmpty(h) <=> m = 0
      /\ b \in Buckets
      /\ S(b + 1) * p[2] * M >= (p[1] * M - k * p[2]) * m
      /\ \A c \in Buckets : c <= b /\ m # 0 =>
            S(c) * p[2] * M < (p[1] * M + k * p[2]) * m
  BY <1>1, <1>2, StandsPercentile
<1> HIDE DEF b, S, m
<1>6. Last \in Nat /\ Buckets = 0 .. Last
  BY BucketsType
<1>7. next \in Buckets /\ next <= b + 1 /\ (next = b + 1 \/ next = Last)
  BY <1>5, <1>6 DEF next
<1>8. CASE m = 0
  <2>1. v = 0
    BY <1>4, <1>5, <1>8
  <2> QED BY <1>3, <1>8, <2>1 DEF v, h
<1>9. CASE m # 0
  <2>1. v = GetBucketStart(next)
    BY <1>4, <1>5, <1>9
  <2>2. \/ v = GetBucketStart(Last)
        \/ WeightBelow(x, v) * p[2] * M >= (p[1] * M - k * p[2]) * m
    <3>1. CASE next = Last
      BY <2>1, <3>1
    <3>2. CASE next = b + 1
      <4>1. WeightBelow(x, v) = S(b + 1)
        BY <1>3, <1>7, <2>1, <3>2
      <4> QED BY <1>5, <4>1
    <3> QED BY <1>7, <3>1, <3>2
  <2>3. ASSUME NEW c \in Buckets, GetBucketStart(c) < v
        PROVE  WeightBelow(x, GetBucketStart(c)) * p[2] * M < (p[1] * M + k * p[2]) * m
    <3>1. c < next
      <4>1. next \in Int /\ c \in Int
        BY <1>6, <1>7
      <4>2. ASSUME next <= c PROVE FALSE
        <5>1. /\ GetBucketStart(next) \in Nat /\ GetBucketStart(c) \in Nat
              /\ GetBucketStart(next) <= GetBucketStart(c)
          BY <1>7, <4>2, BucketStartMonotone
        <5> QED BY <2>1, <2>3, <5>1
      <4> QED BY <4>1, <4>2
    <3>2. c <= b
      BY <1>5, <1>6, <1>7, <3>1
    <3>3. S(c) * p[2] * M < (p[1] * M + k * p[2]) * m
      BY <1>5, <1>9, <3>2
    <3> QED BY <1>3, <3>3
  <2> QED BY <1>3, <1>9, <2>2, <2>3 DEF v, h, r, M, k
<1> QED
  BY <1>8, <1>9

\* Percentile of a histogram that is not lossy is that of the samples that were added to it
\* or restored into it, to the resolution of the buckets and of the rounding of
\* checkpoints, however often they were decayed, taken back, merged and saved.
THEOREM PercentilesExact == Spec => []PercentileExact
<1>1. SamplesInv => PercentileExact
  <2> SUFFICES ASSUME SamplesInv PROVE PercentileExact
    OBVIOUS
  <2> QED BY SamplesPercentile DEF PercentileExact
<1>2. Spec => []SamplesInv
  BY SamplesInitial, SamplesStep, PTL DEF Spec
<1> QED
  BY <1>1, <1>2, PTL
=============================================================================
